---------------------------- MODULE TraitDrivers ----------------------------
(***************************************************************************)
(* The tuner drivers besides the R82xx behind the Tuner trait, through     *)
(* which the device would call them: one dongle with one of the tuners,    *)
(* and calls in any order, of which transfers fail. (The library has these *)
(* drivers, but does not create one yet.)                                  *)
(*                                                                         *)
(* These drivers keep no shadow: what a failed transfer left in the chip   *)
(* is put right by the next call that writes the same registers.           *)
(***************************************************************************)
EXTENDS Fc001xDriver, E4kDriver, Fc2580Driver

CONSTANTS Models, Freqs, Bandwidths, Gains, StageGains, Xtals, MaxFaults

\* What a u32 of Hz can say, in kHz
KHz == {n \in Nat : 0 < n /\ n <= 4294967}
\* Crystals for which the product of the FC2580's filter coefficients is a u32
CoeffKHz == {n \in Nat : 0 < n /\ n <= 976128}

ASSUME TraitAssumption ==
    /\ Models \subseteq {"FC0012", "FC0013", "E4000", "FC2580"}
    /\ \A m \in Models :
           /\ Freqs[m] \subseteq KHz /\ Xtals[m] \subseteq KHz
           /\ Bandwidths[m] \subseteq Nat /\ Gains[m] \subseteq Int
           /\ m \in {"FC0012", "FC0013"} => \A x \in Xtals[m] : x % 2 = 0
           /\ m = "FC2580" => Xtals[m] \subseteq CoeffKHz
    /\ StageGains \subseteq Int \X Int /\ MaxFaults \in Nat

VARIABLES
    drv,      \* the driver and its chip
    asked     \* history: what the last calls asked for, {} where one failed

vars == <<drv, asked>>

IsFc001x(s) == s.model \in {"FC0012", "FC0013"}

RegsOf(model) ==
    CASE model \in {"FC0012", "FC0013"} -> FcRegs(model)
      [] model = "E4000" -> E4kRegs
      [] model = "FC2580" -> Fc2580Regs

---------------------------------------------------------------------------
(* The trait                                                               *)

New(model, xtal) ==
    [model |-> model, chip |-> [r \in RegsOf(model) |-> {}], xtal |-> xtal, freq |-> 0,
     bw |-> IF model \in {"FC0012", "FC0013"} THEN BW_6MHZ ELSE 0,
     faults |-> MaxFaults, err |-> "none"]

init(s) == CASE IsFc001x(s) -> fc_init(s)
             [] s.model = "E4000" -> e4k_init(s)
             [] s.model = "FC2580" -> fc2580_init(s)

exit(s) == CASE IsFc001x(s) -> fc_exit(s)
             [] s.model = "E4000" -> e4k_exit(s)
             [] s.model = "FC2580" -> {s}

set_freq(s, f) == CASE IsFc001x(s) -> fc_set_freq(s, f)
                    [] s.model = "E4000" -> e4k_set_freq(s, f)
                    [] s.model = "FC2580" -> fc2580_set_freq(s, f)

set_bw(s, b) == CASE IsFc001x(s) -> fc_set_bw(s, b)
                  [] s.model = "E4000" -> e4k_set_bw(s, b)
                  [] s.model = "FC2580" -> fc2580_set_bw(s, b)

set_gain(s, g) == CASE IsFc001x(s) -> fc_set_gain(s, g)
                    [] s.model = "E4000" -> e4k_set_gain(s, g)
                    [] s.model = "FC2580" -> {s}

set_gain_mode(s, manual) == CASE IsFc001x(s) -> fc_set_gain_mode(s, manual)
                              [] s.model = "E4000" -> e4k_set_gain_mode(s, manual)
                              [] s.model = "FC2580" -> {s}

set_if_gain(s, stage, g) == IF s.model = "E4000" THEN e4k_set_if_gain(s, stage, g) ELSE {s}

---------------------------------------------------------------------------
NotAsked == [freq |-> {}, bw |-> {}, gain |-> {}, manual |-> {}, stages |-> {}]

(* The device has a tuner only after a clean init.                         *)
Init ==
    /\ drv \in {t \in UNION {UNION {init(New(m, x)) : x \in Xtals[m]} : m \in Models} :
                    t.err = "none" /\ t.faults = MaxFaults}
    /\ asked = [NotAsked EXCEPT !.bw = IF IsFc001x(drv) THEN {<<drv.bw, 0>>} ELSE {}]

(* A call with its outcome, which Wish(t, ok) enters into the history.     *)
Call(outcomes, Wish(_, _)) ==
    \E t \in outcomes :
        /\ drv' = [t EXCEPT !.err = "none"]
        /\ asked' = Wish(t, t.err = "none")

(* The frequency counts with the crystal with which it was programmed. An  *)
(* FC2580 sets its band's filter along with it.                            *)
SetFreq ==
    \E f \in Freqs[drv.model] :
        Call(set_freq(drv, f),
             LAMBDA t, ok :
                 [asked EXCEPT !.freq = IF ok THEN {<<f, t.xtal>>} ELSE {},
                               !.bw = IF drv.model # "FC2580" THEN @
                                      ELSE IF ok THEN {<<BandFilter(f), t.xtal>>} ELSE {}])

(* An FC001x tunes again to the frequency it was asked for last.           *)
SetBw ==
    \E b \in Bandwidths[drv.model] :
        Call(set_bw(drv, b),
             LAMBDA t, ok :
                 [asked EXCEPT
                    !.bw = CASE IsFc001x(t) -> {<<b, 0>>}
                             [] t.model = "E4000" -> IF ok THEN {<<b, 0>>} ELSE {}
                             [] OTHER -> IF ok THEN {<<FilterMode(b), t.xtal>>} ELSE {},
                    !.freq = IF ~IsFc001x(t) \/ t.freq = 0 THEN @
                             ELSE IF ok THEN {<<t.freq, t.xtal>>} ELSE {}])

SetGain ==
    \E g \in Gains[drv.model] :
        Call(set_gain(drv, g), LAMBDA t, ok : [asked EXCEPT !.gain = IF ok THEN {g} ELSE {}])

SetGainMode ==
    \E m \in BOOLEAN :
        Call(set_gain_mode(drv, m), LAMBDA t, ok : [asked EXCEPT !.manual = IF ok THEN {m} ELSE {}])

(* A stage is what its byte says. One out of range is refused and changes  *)
(* nothing.                                                                *)
SetIfGain ==
    \E g \in StageGains :
        /\ drv.model = "E4000"
        /\ Call(set_if_gain(drv, g[1], g[2]),
                LAMBDA t, ok :
                    [asked EXCEPT !.stages =
                        IF t.err = "tuner" THEN @
                        ELSE {h \in @ : StageByte(h[1]) # StageByte(g[1])} \cup IF ok THEN {g} ELSE {}])

(* set_xtal programs nothing.                                              *)
SetXtal ==
    \E x \in Xtals[drv.model] :
        /\ drv' = [drv EXCEPT !.xtal = x]
        /\ UNCHANGED asked

Exit == Call(exit(drv), LAMBDA t, ok : asked)

(* The bandwidth of an FC001x is the driver's and survives.                *)
InitAgain ==
    Call(init(drv),
         LAMBDA t, ok : [NotAsked EXCEPT !.bw = IF IsFc001x(t) THEN asked.bw ELSE {}])

Next ==
    SetFreq \/ SetBw \/ SetGain \/ SetGainMode \/ SetIfGain \/ SetXtal \/ Exit \/ InitAgain

Spec == Init /\ [][Next]_vars

---------------------------------------------------------------------------
(* Properties                                                              *)

(* The type invariant. The frequency that an FC001x remembers, and applies *)
(* again in set_bw, is one that it was asked for.                          *)
TypeOK ==
    /\ drv.model \in Models /\ drv.chip \in [RegsOf(drv.model) -> SUBSET (0..7)]
    /\ drv.freq \in Freqs[drv.model] \cup {0} /\ drv.xtal \in Xtals[drv.model]
    /\ drv.faults \in 0..MaxFaults /\ drv.err = "none"
    /\ \A part \in DOMAIN asked \ {"stages"} : Cardinality(asked[part]) <= 1

Reg(r) == ByteValue(drv.chip[r])
Field(r, lo, hi) == ByteValue(drv.chip[r] \cap lo..hi) \div 2^lo

(* The FC001x's VCO, f times the multiple of its output divider, lies not  *)
(* further than half the crystal from half the crystal times the spelled   *)
(* quotient, less than a step of the fraction above it with that, and in   *)
(* the range for which the tables were made. This is said of quotients up  *)
(* to 503, as larger ones wrap in their byte (PllValid), and of the        *)
(* fraction for crystals up to 131.072 MHz: of larger ones the remainder,  *)
(* a u16 of kHz, can lose its upper bits (Xin).                            *)
FcTuned(f, xtal) ==
    LET table == FcDividers(drv.model)
        xin == 256 * Reg(3) + Reg(4)
        signed == IF xin >= 32768 THEN xin - 65536 ELSE xin
        half == xtal \div 2
        Beyond(mult) == f * mult - half * (8 * Reg(2) + Reg(1))
    IN  /\ \E i \in DOMAIN table :
               /\ Field(5, 3, 7) = table[i][3] \div 8 /\ Field(6, 1, 1) = table[i][4] \div 2
               /\ drv.model = "FC0013" => (2 \in drv.chip[\h11]) = (table[i][2] = 64)
               /\ f * table[i][2] < 503 * half =>
                      /\ Beyond(table[i][2]) \in -half..half
                      /\ half <= 65536 =>
                             32768 * Beyond(table[i][2]) - half * signed \in 0..(half - 1)
               /\ f <= 890000 => f * table[i][2] < 3560064
        /\ drv.model = "FC0013" =>
               (6 \in drv.chip[\h14]) = (f >= 300000) /\ (4 \in drv.chip[7]) = (f < 300000)

(* The E4000's VCO lies less than a step of X above the spelled quotient,  *)
(* the band is that of the frequency (on a boundary also the one below),   *)
(* and the RF filter is one of the band's nearest.                         *)
E4kTuned(f, xtal) ==
    LET rows == Range(PLL_VARS) \cup {<<0, 0, 2>>}
        centers == IF Field(SYNTH1, 1, 2) = 2 THEN RF_FILT_CENTER_UHF ELSE RF_FILT_CENTER_L
        bands == <<<<0, 140000>>, <<140000, 350000>>, <<350000, 1135000>>, <<1135000, 4294967>>>>
        band == bands[Field(SYNTH1, 1, 2) + 1]
    IN  /\ \E v \in rows :
               LET beyond == f * v[3] - Reg(SYNTH3) * xtal
               IN  /\ Reg(SYNTH7) = v[2]
                   /\ beyond \in 0..(xtal - 1)
                   /\ 65536 * beyond - xtal * (256 * Reg(SYNTH5) + Reg(SYNTH4)) \in 0..(xtal - 1)
        /\ f \in band[1]..band[2]
        /\ (Reg(BIAS) = 0) = (Field(SYNTH1, 1, 2) = 3)
        /\ Field(SYNTH1, 1, 2) >= 2 =>
               \A i \in DOMAIN centers :
                   AbsDiff(centers[Field(FILT1, 0, 3) + 1], f) <= AbsDiff(centers[i], f)

(* The FC2580's VCO lies within half a step of K of the spelled quotient,  *)
(* and the registers of the band are those of the frequency.               *)
Fc2580Tuned(f, xtal) ==
    LET fc == FComp(f, xtal)
        beyond == Vco(f) - 2 * fc * Reg(\h1c)
        coarse == 1024 * beyond - 2 * fc * (64 * Field(\h18, 0, 3) + Reg(\h1a) \div 4)
    IN  /\ Field(\h18, 4, 5) = RDiv(f, xtal) \div 2
        /\ beyond \in 0..(2 * fc) /\ coarse \in -fc..(2 * fc)
        /\ 1024 * coarse - 2 * fc * (256 * Field(\h1a, 0, 1) + Reg(\h1b)) \in -fc..fc
        /\ Field(2, 6, 7) = CASE f > 1000000 -> 1 [] f <= 400000 -> 2 [] OTHER -> 0
        /\ (3 \in drv.chip[2]) = (Vco(f) >= 2600000)
        /\ \A i \in DOMAIN BandBytes(f) : Reg(BandRegs(BandOf(f))[i]) = BandBytes(f)[i]

(* After an Ok set_freq the chip stays programmed for its frequency,       *)
(* whatever failed before it, and whatever else is set after it: output    *)
(* divider, quotient and fraction, read back from the registers (the       *)
(* fraction of an FC001x with the condition of FcTuned), and the band, of  *)
(* which bits share registers with gains and filters.                      *)
TunesAsAsked ==
    \A a \in asked.freq :
        CASE IsFc001x(drv) -> FcTuned(a[1], a[2])
          [] drv.model = "E4000" -> E4kTuned(a[1], a[2])
          [] drv.model = "FC2580" -> Fc2580Tuned(a[1], a[2])

FC0012_GAINS == {-99, -40, 71, 179, 192}
E4K_GAINS == {-10, 15, 40, 65, 90, 115, 140, 165, 190, 215, 240, 290, 340, 420}

(* What the gain field of the chip is worth, as often as it is told.       *)
E4kGainSet ==
    LET lna == CHOOSE row \in Range(E4K_LNA_GAIN) : row[2] = Field(GAIN1, 0, 3)
    IN  lna[1] + IF 0 \in drv.chip[GAIN2] THEN 120 ELSE 40
Fc0013GainSet == {row[1] : row \in {r \in Range(FC0013_LNA_GAINS) : r[2] = Field(\h14, 0, 4)}}

Fc0013Gains == {row[1] : row \in Range(FC0013_LNA_GAINS)}

(* The FC0012 takes the gain below, the FC0013 the one above; the E4000    *)
(* takes the gains it offers exactly.                                      *)
Fc0012Gain(g) == Field(\h13, 0, 4) = FC0012_LNA(Max({h \in FC0012_GAINS : h <= g} \cup {-99}))
Fc0013Gain(g) == Min({h \in Fc0013Gains : h >= g} \cup {197}) \in Fc0013GainSet
E4kGain(g) == g \in E4K_GAINS => E4kGainSet = g

GainSet(g) ==
    CASE drv.model = "FC0012" -> Fc0012Gain(g)
      [] drv.model = "FC0013" -> Fc0013Gain(g)
      [] drv.model = "E4000" -> E4kGain(g)
      [] OTHER -> TRUE

ModeSet(m) ==
    CASE drv.model = "FC0012" -> drv.chip[\h0d] = IF m THEN {1} ELSE {}
      [] drv.model = "FC0013" -> (3 \in drv.chip[\h0d]) = m
      [] drv.model = "E4000" ->
           drv.chip[AGC1] \cap 0..3 = (IF m THEN {} ELSE {0, 3}) /\ (0 \in drv.chip[AGC7]) # m
      [] OTHER -> TRUE

FcBw(b) == asked.freq # {} => 64 * Field(6, 6, 7) = BwBits(b[1])
NearestStep(table, n, bw) ==
    \A i \in DOMAIN table : AbsDiff(table[n + 1], bw) <= AbsDiff(table[i], bw)
E4kBw(b) == /\ NearestStep(MIX_FILTER_BW, Field(FILT2, 4, 7), b[1])
            /\ NearestStep(IFRC_FILTER_BW, Field(FILT2, 0, 3), b[1])
            /\ NearestStep(IFCH_FILTER_BW, Field(FILT3, 0, 4), b[1])
Fc2580Bw(b) == \A i \in 1..3 : LET w == FilterWrites(b[1], b[2])[i] IN drv.chip[w.reg] = w.val

BwSet(b) ==
    CASE IsFc001x(drv) -> FcBw(b)
      [] drv.model = "E4000" -> E4kBw(b)
      [] drv.model = "FC2580" -> Fc2580Bw(b)

(* The gain that the stage's field is worth is the one asked for without   *)
(* its tenths of a dB, as far as a byte of dB can tell gains apart.        *)
StageSet(g) ==
    LET stage == StageByte(g[1])
        field == IF_STAGE_FIELD[stage]
        idx == ByteValue(drv.chip[field[1]] \cap Byte(field[3])) \div field[2] + 1
    IN  /\ stage \in DOMAIN IF_STAGE_GAIN /\ idx \in DOMAIN IF_STAGE_GAIN[stage]
        /\ -1280 <= g[2] /\ g[2] <= 1279 => AbsDiff(10 * IF_STAGE_GAIN[stage][idx], g[2]) < 10

(* Filter, gain, gain mode and IF gains stay what they were asked to be,   *)
(* whatever tuning call came since and whatever call failed: their fields  *)
(* share registers with each other and with the band. The bandwidth of an  *)
(* FC001x is in the chip whenever it is tuned, init in between or not.     *)
SettingsAsAsked ==
    /\ \A b \in asked.bw : BwSet(b)
    /\ \A g \in asked.gain : GainSet(g)
    /\ \A m \in asked.manual : ModeSet(m)
    /\ \A g \in asked.stages : StageSet(g)
===========================================================================
