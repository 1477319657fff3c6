---------------------------- MODULE R82xxDriver ----------------------------
(***************************************************************************)
(* The R82xx tuner driver over its shadow registers: initialisation with   *)
(* the filter calibration, tuning (tracking filters, PLL, antenna input),  *)
(* bandwidth, gain and standby, on an R820T, an R828D and the R828D of an  *)
(* RTL-SDR Blog V4. Frequencies are in kHz: the arithmetic of set_pll is   *)
(* exact for those, and for crystals that are multiples of 128 kHz.        *)
(*                                                                         *)
(* What the tuner measures (its VCO fine tune, the calibration code, lock) *)
(* is chosen freely; MaxFaults is how many transfers may fail.             *)
(***************************************************************************)
EXTENDS R82xxShadow, R82xxFilter

CONSTANTS Chips, Freqs, Bandwidths, Gains, FineTunes, CalCodes, MaxFaults

ASSUME DriverAssumption ==
    /\ Chips \subseteq {"R820T", "R828D", "BlogV4"}
    /\ Freqs \in [Chips -> SUBSET (Nat \ {0})] /\ Bandwidths \subseteq Nat
    /\ Gains \in [Chips -> SUBSET Int]
    /\ FineTunes \subseteq 0..3 /\ CalCodes \subseteq 0..15
    /\ MaxFaults \in [Chips -> Nat]

VARIABLES
    drv,       \* the driver and its chip
    asked,     \* history: the settings that Ok calls have asked for
    doubt,     \* history: the call whose fault nothing has put right yet
    asleep     \* history: the tuner was put into standby and not initialised since

vars == <<drv, asked, doubt, asleep>>

XTAL_128(chip) == IF chip = "R828D" THEN 125 ELSE 225     \* crystal, in 128 kHz
VCO_MIN == 1770000
Upconverter == 28800
VcoPowerRef(chip) == IF chip = "R820T" THEN 2 ELSE 1

INIT_ARRAY ==
    <<\h83, \h32, \h75, \hc0, \h40, \hd6, \h6c, \hf5, \h63, \h75, \h68, \h6c, \h83, \h80,
      \h00, \h0f, \h00, \hc0, \h30, \h48, \hcc, \h60, \h00, \h54, \hae, \h4a, \hc0>>

InitBytes == [r \in Regs |-> Byte(INIT_ARRAY[r - 4])]
Zeros == [r \in Regs |-> {}]

\* rows of FREQ_RANGES: from MHz, open drain, RF mux, tracking filter
FREQ_RANGES ==
    <<<<0, 8, 2, \hdf>>, <<50, 8, 2, \hbe>>, <<55, 8, 2, \h8b>>, <<60, 8, 2, \h7b>>,
      <<65, 8, 2, \h69>>, <<70, 8, 2, \h58>>, <<75, 0, 2, \h44>>, <<80, 0, 2, \h44>>,
      <<90, 0, 2, \h34>>, <<100, 0, 2, \h34>>, <<110, 0, 2, \h24>>, <<120, 0, 2, \h24>>,
      <<140, 0, 2, \h14>>, <<180, 0, 2, \h13>>, <<220, 0, 2, \h13>>, <<250, 0, 2, \h11>>,
      <<280, 0, 2, 0>>, <<310, 0, \h41, 0>>, <<450, 0, \h41, 0>>, <<588, 0, \h40, 0>>,
      <<650, 0, \h40, 0>>>>

---------------------------------------------------------------------------
(* PLL                                                                     *)

(* The divider that brings the VCO into its octave, if there is one.       *)
MixDivs(lo) ==
    {d \in {2, 4, 8, 16, 32, 64} : lo * d >= VCO_MIN /\ lo * d < 2 * VCO_MIN}
DivNum(mix) == CHOOSE n \in 0..5 : 2^(n + 1) = mix

(* Mutant: the division truncates.                                         *)
VcoDivTruncated(xtal, vco) == (512 * vco) \div (2 * xtal)

(* (pll_ref + 65536 * vco_freq) / (2 * pll_ref)                            *)
VcoDiv(xtal, vco) == (xtal + 512 * vco) \div (2 * xtal)

FineTuned(num, fine, ref) ==
    CASE fine > ref -> Max({num - 1, 0})
      [] fine < ref -> num + 1
      [] OTHER      -> num

(* Registers 0x10 to 0x16 for a VCO frequency of vco.                      *)
PllBytes(s, vco, num) ==
    LET div == VcoDiv(XTAL_128(s.model), vco)
        n == div \div 65536 - 13
        sdm == div % 65536
        vcoCurrent == Masked(s.shadow[\h12], W(\h12, \h80, \he0))
    IN  [r \in \h10..\h16 |->
          CASE r = \h10 -> Masked(Masked(s.shadow[r], W(r, 0, \h10)), W(r, num * 32, \he0))
            [] r = \h12 -> Masked(vcoCurrent, W(r, IF sdm = 0 THEN 8 ELSE 0, 8))
            [] r = \h14 -> Byte(n \div 4 + 64 * (n % 4))
            [] r = \h15 -> Byte(sdm % 256)
            [] r = \h16 -> Byte(sdm \div 256)
            [] OTHER    -> s.shadow[r]]

(* The lock is looked at twice, with more VCO current the second time.     *)
AwaitLock(s) ==
    LET Locked(t) == Run(t, <<W(\h1a, 8, 8)>>)
        Again(t) == Then(Read(t), LAMBDA u : Locked(u) \cup Refuse(u))
    IN  Then(Read(s), LAMBDA t : Locked(t) \cup Then(Run(t, <<W(\h12, \h60, \he0)>>), Again))

(* set_pll. The limits of nint are out of reach of the crystals in use.    *)
set_pll(s, lo) ==
    LET Program(t, mix) ==
            UNION {Write(t, PllBytes(t, lo * mix,
                                     FineTuned(DivNum(mix), fine, VcoPowerRef(s.model)))) :
                       fine \in FineTunes}
    IN  Then(Run(s, <<W(\h1a, 0, \h0c)>>),
             LAMBDA t : IF MixDivs(lo) = {} THEN Refuse(t)
                        ELSE Then(Then(Read(t), LAMBDA u : UNION {Program(u, d) : d \in MixDivs(lo)}),
                                  AwaitLock))

---------------------------------------------------------------------------
(* Initialisation and standby                                              *)

PassSetup == <<W(\h0b, \h6b, \h60), W(\h0f, 4, 4), W(\h10, 0, 3)>>
PassTrigger == <<W(\h0b, \h10, \h10), W(\h0b, 0, \h10), W(\h0f, 0, 4)>>
PassCalibrate(s) ==
    Then(Then(Then(Run(s, PassSetup), LAMBDA t : set_pll(t, 56000)),
              LAMBDA t : Run(t, PassTrigger)), Read)

AfterCalibration(code) ==
    <<W(\h0a, \h10 + (code % 15), \h1f), W(\h0b, \h6b, \hef), W(\h07, 0, \h80),
      W(\h06, \h10, \h30), W(\h1e, \h60, \h60), W(\h05, 1, \h80), W(\h1f, 0, \h80),
      W(\h0f, 0, \h80), W(\h19, \h60, \h60)>>

(* set_tv_standard: a code of 0 or 15 is measured a second time, and a     *)
(* second 15 counts as 0.                                                  *)
set_tv_standard(s) ==
    LET start == Then(Run([s EXCEPT !.shadow = InitBytes],
                          <<W(\h0c, 0, \h0f), W(\h13, 49, \h3f), W(\h1d, 0, \h38)>>),
                      LAMBDA t : {[t EXCEPT !.intFreq = 3570]})
        once == Then(start, PassCalibrate)
        twice == Then(once, PassCalibrate)
        Finish(S, codes) ==
            Then(S, LAMBDA t : UNION {Run(t, AfterCalibration(c)) : c \in codes})
    IN  Finish(once, CalCodes \ {0, 15})
        \cup IF CalCodes \cap {0, 15} = {} THEN {} ELSE Finish(twice, CalCodes)

(* Everything of sysfreq_sel before and after it forgets the input.        *)
SysfreqTops == <<W(\h1d, \he5, \hc7), W(\h1c, \h24, \hf8), W(\h0d, \h53, \hff), W(\h0e, \h75, \hff)>>
SysfreqRest ==
    <<W(\h05, 0, \h60), W(\h06, 0, 8), W(\h11, \h38, \h38), W(\h17, \h30, \h30),
      W(\h0a, \h40, \h60), W(\h1d, 0, \h38), W(\h1c, 0, 4), W(\h06, 0, \h40),
      W(\h1a, \h30, \h30), W(\h1d, \h18, \h38), W(\h1c, \h24, 4), W(\h1e, 14, \h1f),
      W(\h1a, \h20, \h30)>>

sysfreq_sel(s) ==
    Then(Run(s, SysfreqTops), LAMBDA t : Run([t EXCEPT !.input = 0], SysfreqRest))

init(s) ==
    Then(Then(Write([s EXCEPT !.shadow = Zeros], InitBytes), set_tv_standard), sysfreq_sel)

exit(s) ==
    Run(s, <<W(\h06, \hb1, \hff), W(\h05, \ha0, \hff), W(\h07, \h3a, \hff), W(\h08, \h40, \hff),
             W(\h09, \hc0, \hff), W(\h0a, \h36, \hff), W(\h0c, \h35, \hff), W(\h0f, \h68, \hff),
             W(\h11, \h03, \hff), W(\h17, \hf4, \hff), W(\h19, \h0c, \hff)>>)

---------------------------------------------------------------------------
(* Tuning                                                                  *)

(* Mutant: an entry begins after its frequency.                            *)
FreqRangeLate(mhz) == Max({1} \cup {i \in DOMAIN FREQ_RANGES : FREQ_RANGES[i][1] < mhz})

(* find_freq_range_idx (1-based)                                           *)
FreqRange(mhz) == Max({1} \cup {i \in DOMAIN FREQ_RANGES : FREQ_RANGES[i][1] <= mhz})

set_mux(s, lo) ==
    LET range == FREQ_RANGES[FreqRange(lo \div 1000)]
    IN  Run(s, <<W(\h17, range[2], 8), W(\h1a, range[3], \hc3), W(\h1b, range[4], \hff),
                 W(\h10, 0, \h0b), W(\h08, 0, \h3f), W(\h09, 0, \h3f)>>)

HF == 1
VHF == 2
UHF == 3
Band(f) == CASE f <= 28800 -> HF [] f > 28800 /\ f < 250000 -> VHF [] OTHER -> UHF

Notched(f) == f <= 2200 \/ f \in 85000..112000 \/ f \in 172000..242000

(* set_gpio_output and set_gpio_bit for pin 5, of which the last of their  *)
(* transfers counts.                                                       *)
SetUpconverter(s, on) ==
    {[s EXCEPT !.upconv = on]} \cup Faulty({s, [s EXCEPT !.upconv = on]})

(* Mutant: the register bits are remembered in the place of the band.      *)
SwitchBandBits(s, band) ==
    Then(Run([s EXCEPT !.input = IF band = VHF THEN \h40 ELSE 0],
             <<W(\h06, IF band = HF THEN 8 ELSE 0, 8)>>),
         LAMBDA t : SetUpconverter(t, band = HF))

(* The antenna input of a Blog V4 ...                                      *)
SwitchBand(s, band) ==
    Then(Then(Run([s EXCEPT !.input = band], <<W(\h06, IF band = HF THEN 8 ELSE 0, 8)>>),
              LAMBDA t : SetUpconverter(t, band = HF)),
         LAMBDA t : Run(t, <<W(\h05, IF band = VHF THEN \h40 ELSE 0, \h40),
                             W(\h05, IF band = UHF THEN 0 ELSE \h20, \h20)>>))

(* ... and of a standard R828D, which only has two.                        *)
AirCable1(f) == IF f > 345000 THEN 0 ELSE \h60

(* Mutant: the input is remembered, but not what the mux did to it.        *)
AntennaOnlyUp(s, f) ==
    CASE s.model = "BlogV4" ->
           Then(Run(s, <<W(\h17, IF Notched(f) THEN 0 ELSE 8, 8)>>),
                LAMBDA t : IF Band(f) <= t.input THEN {t} ELSE SwitchBand(t, Band(f)))
      [] s.model = "R828D" /\ AirCable1(f) # s.input ->
           Run([s EXCEPT !.input = AirCable1(f)], <<W(\h05, AirCable1(f), \h60)>>)
      [] OTHER -> {s}

(* The end of set_freq.                                                    *)
Antenna(s, f) ==
    CASE s.model = "BlogV4" ->
           Then(Run(s, <<W(\h17, IF Notched(f) THEN 0 ELSE 8, 8)>>),
                LAMBDA t : IF Band(f) = t.input THEN {t} ELSE SwitchBand(t, Band(f)))
      [] s.model = "R828D" /\ AirCable1(f) # s.input ->
           Run([s EXCEPT !.input = AirCable1(f)], <<W(\h05, AirCable1(f), \h60)>>)
      [] OTHER -> {s}

LoFreq(s, f) ==
    f + s.intFreq + (IF s.model = "BlogV4" /\ f < 28800 THEN Upconverter ELSE 0)

set_freq(s, f) ==
    LET lo == LoFreq(s, f)
    IN  Then(Then(set_mux(s, lo), LAMBDA t : set_pll(t, lo)), LAMBDA t : Antenna(t, f))

(* Mutant: the mask leaves the high-pass corners out.                      *)
set_bw_lowpass(s, bw) ==
    LET new == Setting(bw)
    IN  Run([s EXCEPT !.intFreq = new.intFreq \div 1000],
            <<W(\h0a, new.reg0a, \h10), W(\h0b, new.reg0b, \h0f)>>)

set_bw(s, bw) ==
    LET new == Setting(bw)
    IN  Run([s EXCEPT !.intFreq = new.intFreq \div 1000],
            <<W(\h0a, new.reg0a, \h10), W(\h0b, new.reg0b, \hef)>>)

---------------------------------------------------------------------------
(* Gain                                                                    *)

LNA_GAIN_STEPS == <<9, 13, 40, 38, 13, 31, 22, 26, 31, 26, 14, 19, 5, 35, 13>>
MIXER_GAIN_STEPS == <<5, 10, 10, 19, 9, 10, 25, 17, 10, 8, 16, 13, 6, 3, -8>>

\* the gain of the first n steps
Total(steps, n) ==
    LET gain[i \in 0..n] == IF i = 0 THEN 0 ELSE gain[i - 1] + steps[i]
    IN  gain[n]

GainOf(lna, mix) == Total(LNA_GAIN_STEPS, lna) + Total(MIXER_GAIN_STEPS, mix)

(* set_gain goes up LNA and mixer in turn: after n steps it has taken      *)
(* LnaSteps(n) and MixerSteps(n). The last step of the mixer is a loss and *)
(* never taken.                                                            *)
LnaSteps(n) == (n + 1) \div 2
MixerSteps(n) == n \div 2

(* Mutant: the loop looks at the gain only once in each round.             *)
GainStepsByRound(gain) ==
    Min({n \in {0, 2, 4, 6, 8, 10, 12, 14, 16, 18, 20, 22, 24, 26, 28} :
             GainOf(LnaSteps(n), MixerSteps(n)) >= gain} \cup {29})

GainSteps(gain) ==
    Min({n \in 0..28 : GainOf(LnaSteps(n), MixerSteps(n)) >= gain} \cup {29})

set_gain(s, gain) ==
    LET n == GainSteps(gain)
    IN  Then(Then(Run(s, <<W(5, \h10, \h10), W(7, 0, \h10)>>), Read),
             LAMBDA t : Run(t, <<W(\h0c, 8, \h9f), W(5, LnaSteps(n), 15), W(7, MixerSteps(n), 15)>>))

(* Mutant: the mixer is left out.                                          *)
set_gain_mode_lna(s, manual) ==
    Run(s, IF manual THEN <<W(5, \h10, \h10), W(\h0c, 8, \h9f)>>
           ELSE <<W(5, 0, \h10), W(\h0c, 11, \h9f)>>)

set_gain_mode(s, manual) ==
    Run(s, IF manual THEN <<W(5, \h10, \h10), W(7, 0, \h10), W(\h0c, 8, \h9f)>>
           ELSE <<W(5, 0, \h10), W(7, \h10, \h10), W(\h0c, 11, \h9f)>>)

---------------------------------------------------------------------------
New(model) ==
    [model |-> model, shadow |-> Zeros, chip |-> Zeros, upconv |-> FALSE,
     intFreq |-> 0, input |-> 0, faults |-> MaxFaults[model], err |-> "none"]

NotAsked == [freq |-> 0, ifreq |-> 0, bw |-> -1, manual |-> FALSE, gain |-> 0, gained |-> FALSE]
NoDoubt == <<"none", 0>>

(* open returns a device only after a clean init.                          *)
Init ==
    /\ drv \in {t \in UNION {init(New(c)) : c \in Chips} :
                    t.err = "none" /\ t.faults = MaxFaults[t.model]}
    /\ asked = NotAsked /\ doubt = NoDoubt /\ asleep = FALSE

(* A call of the device. It is doubtful what a call with a failed transfer *)
(* left in the chip until init, or (but for set_freq) the same call, goes  *)
(* through.                                                                *)
Call(call, outcomes, wish) ==
    \E t \in outcomes :
        /\ drv' = [t EXCEPT !.err = "none"]
        /\ doubt' = IF t.faults < drv.faults
                    THEN IF doubt = NoDoubt /\ call[1] # "set_freq" THEN call ELSE <<"all", 0>>
                    ELSE IF t.err = "none" /\ doubt = call THEN NoDoubt ELSE doubt
        /\ asked' = IF asleep THEN NotAsked
                    ELSE IF t.err = "none" THEN wish
                    ELSE IF call[1] = "set_freq" THEN [asked EXCEPT !.freq = 0] ELSE asked
        /\ UNCHANGED asleep

SetFreq ==
    \E f \in Freqs[drv.model] :
        Call(<<"set_freq", f>>, set_freq(drv, f),
             [asked EXCEPT !.freq = f, !.ifreq = drv.intFreq])
SetBw ==
    \E b \in Bandwidths : Call(<<"set_bw", b>>, set_bw(drv, b), [asked EXCEPT !.bw = b])
SetGain ==
    \E g \in Gains[drv.model] :
        Call(<<"set_gain", g>>, set_gain(drv, g),
             [asked EXCEPT !.manual = TRUE, !.gain = g, !.gained = TRUE])
SetGainMode ==
    \E m \in BOOLEAN :
        Call(<<"set_gain_mode", IF m THEN 1 ELSE 0>>, set_gain_mode(drv, m),
             [asked EXCEPT !.manual = m])

(* Direct sampling is switched on ...                                      *)
Exit ==
    \E t \in exit(drv) :
        /\ drv' = [t EXCEPT !.err = "none"]
        /\ asleep' = TRUE
        /\ doubt' = IF t.err = "none" THEN doubt ELSE <<"all", 0>>
        /\ asked' = NotAsked

(* ... and off.                                                            *)
InitAgain ==
    \E t \in init(drv) :
        /\ drv' = [t EXCEPT !.err = "none"]
        /\ asked' = NotAsked
        /\ asleep' = (asleep /\ t.err # "none")
        /\ doubt' = IF t.err = "none" THEN NoDoubt ELSE <<"all", 0>>

Next == SetFreq \/ SetBw \/ SetGain \/ SetGainMode \/ Exit \/ InitAgain

Spec == Init /\ [][Next]_vars

---------------------------------------------------------------------------
(* Properties                                                              *)

(* The type invariant. A call never leaves an error behind.                *)
TypeOK ==
    /\ drv.model \in Chips
    /\ drv.shadow \in [Regs -> SUBSET (0..7)] /\ drv.chip \in [Regs -> SUBSET (0..7)]
    /\ drv.intFreq \in Nat /\ drv.input \in {0, HF, VHF, UHF, \h60}
    /\ drv.upconv \in BOOLEAN /\ drv.faults \in 0..MaxFaults[drv.model] /\ drv.err = "none"
    /\ asked.freq \in Freqs[drv.model] \cup {0} /\ asleep \in BOOLEAN

(* The shadow is the chip: every masked write rests on it, and so does     *)
(* every write that is skipped. After a failed transfer of a bandwidth or  *)
(* gain call it is again once the same call went through (the reason that  *)
(* write() gives for storing the shadow last), and after init it always is.*)
ShadowIsChip == doubt = NoDoubt => drv.shadow = drv.chip

Trusted == doubt = NoDoubt /\ ~asleep
Tuned == Trusted /\ asked.freq > 0

(* The antenna input is the one for the frequency of the last Ok set_freq, *)
(* though the driver only switches when its cached input differs, and the  *)
(* bits share registers with the LNA gain and the filters.                 *)
AntennaFollowsFreq ==
    Tuned =>
        LET input == drv.chip[\h05] \cap {5, 6}
            hf == asked.freq <= 28800
        IN  /\ drv.model = "R820T" => input = {}
            /\ drv.model = "R828D" => input = IF asked.freq <= 345000 THEN {5, 6} ELSE {}
            /\ drv.model = "BlogV4" =>
                  /\ (drv.upconv = TRUE <=> hf) /\ (3 \in drv.chip[\h06] <=> hf)
                  /\ (5 \in input <=> Band(asked.freq) # UHF) /\ (6 \in input <=> Band(asked.freq) = VHF)

(* What the LO of an Ok set_freq had to be. At exactly 28.8 MHz a Blog V4  *)
(* takes the upconverter's input but does not shift the LO: that frequency *)
(* is left out of LoTuned.                                                 *)
LoTuned == Tuned /\ ~(drv.model = "BlogV4" /\ asked.freq = Upconverter)
WantedLo ==
    asked.freq + asked.ifreq + (IF drv.upconv /\ drv.model = "BlogV4" THEN Upconverter ELSE 0)

(* What the registers of the integer and fractional divider spell.         *)
IntegerPart(b) == 4 * ByteValue(b \cap 0..5) + ByteValue(b \ (0..5)) \div 64
FractionPart(b, c) == ByteValue(b) + 256 * ByteValue(c)
SpeltFor(d) ==
    LET xtal == XTAL_128(drv.model)
        sdm == FractionPart(drv.chip[\h15], drv.chip[\h16])
        spelt == 2 * xtal * ((IntegerPart(drv.chip[\h14]) + 13) * 65536 + sdm)
    IN  /\ spelt - 512 * d * WantedLo \in -xtal..xtal
        /\ 3 \in drv.chip[\h12] <=> sdm = 0

(* The PLL stays programmed for the wanted LO: the VCO frequency that its  *)
(* registers spell is within half a step of a multiple of it in the VCO's  *)
(* octave.                                                                 *)
SynthesisesLo == LoTuned => \E d \in MixDivs(WantedLo) : SpeltFor(d)

(* The tracking filter is the one whose range begins last at or below the  *)
(* LO: the next range begins above it.                                     *)
TracksLo ==
    LoTuned =>
        \E i \in DOMAIN FREQ_RANGES :
            /\ FREQ_RANGES[i][1] <= WantedLo \div 1000
            /\ i < Len(FREQ_RANGES) => WantedLo \div 1000 < FREQ_RANGES[i + 1][1]
            /\ drv.chip[\h1b] = Byte(FREQ_RANGES[i][4])
            /\ drv.chip[\h1a] \ (2..5) = Byte(FREQ_RANGES[i][3])

(* The IF filter is the one of the last Ok set_bw, or calibration's.       *)
FilterAsAsked ==
    Trusted =>
        drv.chip[\h0b] \ {4} = Byte(IF asked.bw < 0 THEN \h6b ELSE Setting(asked.bw).reg0b) \ {4}

(* LNA and mixer are both in the gain mode asked for last, whatever tuning *)
(* and bandwidth calls came since.                                         *)
GainModeAsAsked ==
    Trusted => /\ 4 \in drv.chip[\h05] <=> asked.manual
               /\ 4 \in drv.chip[\h07] <=> ~asked.manual

\* R82XX_GAINS, the gains the device offers
R82XX_GAINS ==
    {0, 9, 14, 27, 37, 77, 87, 125, 144, 157, 166, 197, 207, 229, 254, 280, 297, 328, 338,
     364, 372, 386, 402, 421, 434, 439, 445, 480, 496}

(* A gain the device offers is set exactly, any other one to the next step *)
(* above it, and the chip keeps it through tuning and mode changes.        *)
GainAsAsked ==
    Trusted /\ asked.gained =>
        LET set == GainOf(ByteValue(drv.chip[\h05] \cap 0..3), ByteValue(drv.chip[\h07] \cap 0..3))
        IN  /\ asked.gain \in R82XX_GAINS => set = asked.gain
            /\ asked.gain <= 496 => asked.gain <= set
            /\ ~\E g \in R82XX_GAINS : asked.gain <= g /\ g < set

(* Filter, gain mode and gain keep what the last Ok calls asked for: their *)
(* bits share registers with each other, the antenna and the calibration.  *)
SettingsAsAsked == FilterAsAsked /\ GainModeAsAsked /\ GainAsAsked

(* A standard R828D switches "at 345 MHz": whatever failed before, an Ok   *)
(* set_freq leaves the input on the side of its frequency.                 *)
SwitchesAt345 ==
    ~asleep /\ drv.model = "R828D" /\ asked.freq > 0 =>
        drv.chip[\h05] \cap {5, 6} = IF asked.freq <= 345000 THEN {5, 6} ELSE {}
===========================================================================
