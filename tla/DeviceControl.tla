--------------------------- MODULE DeviceControl ---------------------------
(***************************************************************************)
(* The control surface of an open RtlSdrDevice: frequency, sample rate,    *)
(* bandwidth, gain, offset tuning, direct sampling, frequency correction   *)
(* and crystals, on an R82xx dongle (the only tuner with a driver),        *)
(* on one whose tuner has none (E4000 stands for them), or with no tuner.  *)
(*                                                                         *)
(* The control methods take &mut self and the device is not Sync, so calls *)
(* never overlap and a call is one step. Inside it every USB write of the  *)
(* source can fail: it is then lost, or it reached the chip and only its   *)
(* acknowledgement was lost. An operator of the form Op(s, ...) is the set *)
(* of states in which that call may leave a device in state s; field err   *)
(* is the error it returns. MaxFaults bounds the failing writes of a       *)
(* behaviour, those of set_pll and of the I2C transfers included. It and   *)
(* the crystals that set_xtal_freq is tried with depend on the chip.       *)
(* A register whose value was computed from a crystal holds the pair of    *)
(* the two; a Garbled one was written in part, or is of no one's asking.   *)
(***************************************************************************)
EXTENDS R82xxFilter

CONSTANTS Chips, Freqs, Rates, Bandwidths, Gains, Ppms, Xtals, MaxFaults

ASSUME ControlAssumption ==
    /\ Chips \subseteq {"R820T", "R828D", "E4000", "Unknown"}
    /\ Freqs \subseteq Nat \ {0} /\ Rates \subseteq Nat \ {0}
    /\ Bandwidths \subseteq Nat /\ Gains \subseteq Nat /\ Ppms \subseteq Int
    /\ Xtals \in [Chips -> SUBSET (Nat \ {0})] /\ MaxFaults \in [Chips -> Nat]

VARIABLES
    dev,       \* the device: cached settings, driver state, chip registers
    last,      \* history: what the last call has to answer for
    sync       \* history: what nothing has put in doubt since it was last set up

vars == <<dev, last, sync>>

DEF_RTL_XTAL_FREQ == 28800000
R828D_XTAL_FREQ == 16000000
R82XX_IF_FREQ == 3570000
CalibrationLo == 56000000      \* where the filter calibration leaves the PLL
Garbled == -1
InitFilter == -2               \* the filter that tuner.init selects

HasDriver(s) == s.chip \in {"R820T", "R828D"}

(* After open: cached settings, then the driver, then the chip.            *)
Opened(c) ==
    LET r82xx == c \in {"R820T", "R828D"}
        xtal == IF c = "R828D" THEN R828D_XTAL_FREQ ELSE DEF_RTL_XTAL_FREQ
    IN  [chip |-> c, freq |-> 0, rate |-> 0, bw |-> 0, gain |-> 0, offs |-> 0, corr |-> 0,
         ds |-> IF c = "Unknown" THEN 1 ELSE 0,
         rtlXtal |-> DEF_RTL_XTAL_FREQ, tunXtal |-> xtal,
         intFreq |-> IF r82xx THEN R82XX_IF_FREQ ELSE 0, drvXtal |-> <<xtal, 0>>,
         shadow |-> "right",   \* the driver's shadow registers against the chip's
         lo |-> <<IF r82xx THEN CalibrationLo ELSE 0, <<xtal, 0>>>>,
         filt |-> InitFilter, gainReg |-> Garbled, standby |-> FALSE, rep |-> "off",
         ifreg |-> <<IF r82xx THEN R82XX_IF_FREQ ELSE 0, <<DEF_RTL_XTAL_FREQ, 0>>>>,
         inv |-> r82xx, zeroIf |-> c = "E4000", iq |-> c = "E4000", swap |-> FALSE,
         ratio |-> 0, corrReg |-> 0,
         faults |-> MaxFaults[c], err |-> "none"]

Init ==
    /\ dev \in {Opened(c) : c \in Chips}
    /\ last = "other"
    /\ sync = {"tuner", "rate", "if"}

---------------------------------------------------------------------------
(* Outcomes of one write, and how the code goes on from them.              *)

Fail(s, e) == [s EXCEPT !.err = e]
Quiet(s) == [s EXCEPT !.err = "none"]
Faulty(s, reg, values) ==
    IF s.faults = 0 THEN {}
    ELSE {[s EXCEPT ![reg] = v, !.faults = @ - 1, !.err = "usb"] : v \in values}

Write(s, reg, v) == {[s EXCEPT ![reg] = v]} \cup Faulty(s, reg, {s[reg], v})

Torn(reg) == IF reg \in {"lo", "ifreg"} THEN <<Garbled, <<0, 0>>>> ELSE Garbled

(* A value that takes several writes can be left half written.             *)
WriteParts(s, reg, v) == {[s EXCEPT ![reg] = v]} \cup Faulty(s, reg, {s[reg], v, Torn(reg)})

(* A failed transfer to the tuner leaves its shadow registers behind; from *)
(* then on a write that goes through may have been skipped as a repetition.*)
TunerFaults(s, reg, values) == {[t EXCEPT !.shadow = "behind"] : t \in Faulty(s, reg, values)}
Landings(s, reg, v) == IF s.shadow = "right" THEN {v} ELSE {v, s[reg], Torn(reg)}
TunerWrite(s, reg, v) ==
    {[s EXCEPT ![reg] = w] : w \in Landings(s, reg, v)}
    \cup TunerFaults(s, reg, {s[reg], v, Torn(reg)})

(* F(s)? : an error returns.                                               *)
Then(S, F(_)) == UNION {IF s.err = "none" THEN F(s) ELSE {s} : s \in S}

(* set_i2c_repeater: "stuck" is a repeater left on by its own failed write.*)
OpenRepeater(s) == {[s EXCEPT !.rep = "on"]} \cup Faulty(s, "rep", {s.rep, "stuck"})
CloseRepeater(s) ==
    {[s EXCEPT !.rep = "off"]}
    \cup Faulty(s, "rep", {"off", IF s.rep = "off" THEN "off" ELSE "stuck"})

(* Repeater on?, F, repeater off?, then After with the outcome of F.       *)
Bracket(s, F(_), After(_)) ==
    Then(OpenRepeater(s),
         LAMBDA t : UNION {{IF u.err = "none" THEN After(Fail(u, r.err)) ELSE u :
                                u \in CloseRepeater(Quiet(r))} : r \in F(t)})

---------------------------------------------------------------------------
(* The tuner driver and the demodulator                                    *)

get_rtl_xtal(s) == <<s.rtlXtal, s.corr>>
get_tuner_xtal(s) == <<s.tunXtal, s.corr>>

(* Mutant: the IF is computed from the crystal without its correction.     *)
SetIfFreqUncorrected(s, f) == WriteParts(s, "ifreg", <<f, <<s.rtlXtal, 0>>>>)

SetIfFreq(s, f) == WriteParts(s, "ifreg", <<f, get_rtl_xtal(s)>>)

(* The PLL divides by at most 64 from at least 1770 MHz, and by at least 2 *)
(* from below 3540 MHz, in rounded kHz.                                    *)
Reachable(lo) == (lo + 500) \div 1000 >= 27657 /\ (lo + 500) \div 1000 < 1770000

(* R82xx set_freq. set_pll may refuse any LO before it writes the divider  *)
(* (which one depends on the crystal: its integer part is 13 to 63 or 127),*)
(* and a PLL that was written may not lock.                                *)
TunerSetFreq(s, f) ==
    LET lo == f + s.intFreq
    IN  {Fail(s, "tuner")} \cup TunerFaults(s, "lo", {s.lo})
        \cup (IF Reachable(lo)
              THEN {Fail([s EXCEPT !.lo = Torn("lo")], "tuner")}
                   \cup TunerWrite(s, "lo", <<lo, s.drvXtal>>)
              ELSE {})

(* R82xx set_bw: int_freq changes before the filter's registers do.        *)
TunerSetBw(s, bw) == TunerWrite([s EXCEPT !.intFreq = Setting(bw).intFreq], "filt", bw)

(* R82xx set_gain: the steps of LNA and mixer.                             *)
TunerSetGain(s, g) == TunerWrite(s, "gainReg", g)

(* R82xx standby takes the gain registers, and sets the filter's bit 4 of  *)
(* register 0x0a.                                                          *)
AsleepFilter(filt) ==
    IF filt = InitFilter THEN filt
    ELSE IF filt = Garbled THEN Garbled
    ELSE IF Setting(filt).reg0a = 16 THEN filt ELSE Garbled
Asleep(s) == [s EXCEPT !.standby = TRUE, !.gainReg = Garbled, !.filt = AsleepFilter(s.filt)]
TunerExit(s) ==
    LET half == [Asleep(s) EXCEPT !.filt = Garbled]
    IN  (IF s.shadow = "right" THEN {Asleep(s)} ELSE {[half EXCEPT !.standby = b] : b \in BOOLEAN})
        \cup TunerFaults(s, "standby", {s.standby}) \cup TunerFaults(half, "standby", BOOLEAN)

(* R82xx init: the whole register table, then int_freq, then the           *)
(* calibration, whose set_pll can refuse its LO or fail to lock.           *)
TunerInit(s) ==
    LET half == [s EXCEPT !.filt = Garbled, !.gainReg = Garbled, !.lo = Torn("lo")]
        table == [half EXCEPT !.standby = FALSE, !.shadow = "right"]
        tvStandard == [table EXCEPT !.intFreq = R82XX_IF_FREQ]
    IN  {[tvStandard EXCEPT !.filt = InitFilter, !.lo = <<CalibrationLo, s.drvXtal>>],
         Fail(tvStandard, "tuner")}
        \cup TunerFaults(s, "lo", {s.lo}) \cup TunerFaults(half, "standby", BOOLEAN)
        \cup TunerFaults(table, "standby", {FALSE}) \cup TunerFaults(tvStandard, "standby", {FALSE})

BelowOffset(f, offs) == f < offs \/ (f = offs /\ offs > 0)
(* u32 arithmetic: wraps in a release build, beyond any rate TLC is given. *)
Wrapped(n) == IF n \div 2 > I32_MAX THEN n % (2 * I32_MAX + 2) ELSE n
offset_tuning_floor(rate) == Wrapped((rate \div 2) * 170) \div 100

(* freq_minus_offset, then tuner.set_freq.                                 *)
Retune(s, f) ==
    IF BelowOffset(f, s.offs) THEN {Fail(s, "invalid")} ELSE TunerSetFreq(s, f - s.offs)

---------------------------------------------------------------------------
(* Mutant: the error of the tuner call returns before the repeater is off. *)
set_center_freq_leaky(s, f) ==
    LET Cache(t) == [t EXCEPT !.freq = IF t.err = "none" THEN f ELSE 0]
    IN  IF s.ds # 0 THEN {Cache(t) : t \in SetIfFreq(s, f)}
        ELSE IF ~HasDriver(s) THEN {Cache(Fail(s, "noTuner"))}
        ELSE {Cache(u) : u \in Then(UNION {Retune(t, f) : t \in OpenRepeater(s)}, CloseRepeater)}

(* set_center_freq: early returns of the repeater skip the update of freq. *)
set_center_freq(s, f) ==
    LET Cache(t) == [t EXCEPT !.freq = IF t.err = "none" THEN f ELSE 0]
    IN  IF s.ds # 0 THEN {Cache(t) : t \in SetIfFreq(s, f)}
        ELSE IF ~HasDriver(s) THEN {Cache(Fail(s, "noTuner"))}
        ELSE Bracket(s, LAMBDA t : Retune(t, f), Cache)

(* set_offset_tuning. A tuner with a driver is refused, so that its        *)
(* bandwidth update is never reached.                                      *)
set_offset_tuning(s, on) ==
    LET offs == IF on THEN offset_tuning_floor(s.rate) ELSE 0
    IN  IF HasDriver(s) \/ s.ds # 0 \/ (on /\ s.freq > 0 /\ s.freq <= offs)
        THEN {Fail(s, "invalid")}
        ELSE Then(SetIfFreq(s, offs),
                  LAMBDA t : IF t.freq > offs
                             THEN set_center_freq([t EXCEPT !.offs = offs], t.freq)
                             ELSE {[t EXCEPT !.offs = offs]})

(* Mutant: the demodulator's IF follows the bandwidth, the tuner does not. *)
FollowIfUntuned(s) == {Quiet(t) : t \in SetIfFreq(s, s.intFreq)}

(* After set_bw: the demodulator's IF, then the tuner follow, best effort. *)
FollowIf(s) ==
    UNION {IF t.freq = 0 \/ BelowOffset(t.freq, t.offs) THEN {Quiet(t)}
           ELSE {IF u.err = "none" THEN u ELSE [Quiet(u) EXCEPT !.freq = 0] :
                     u \in TunerSetFreq(Quiet(t), t.freq - t.offs)} :
           t \in SetIfFreq(s, s.intFreq)}

(* Mutant: the filter follows the sample rate, whatever bandwidth is set.  *)
RateBandwidthForgotten(s) == s.rate

RateBandwidth(s) == IF s.bw > 0 THEN s.bw ELSE s.rate

(* The tuner's part of set_sample_rate: no error of it but those of the    *)
(* repeater returns.                                                       *)
RateTuner(s) ==
    IF ~HasDriver(s) THEN {s}
    ELSE Bracket(s, LAMBDA t : UNION {IF u.err = "none" THEN FollowIf(u) ELSE {Quiet(u)} :
                                          u \in TunerSetBw(t, RateBandwidth(t))},
                 LAMBDA t : t)

(* The words of the two resampler registers: 2^22 crystals per sample, of  *)
(* which 28 bits less the lowest two are kept, and the correction, 2^24    *)
(* per million as an i16 of which 14 bits are written. 2^22 is multiplied  *)
(* in steps, <<quotient, remainder>>, to stay within TLC's integers.       *)
TimesDiv(qr, k, d) == <<k * qr[1] + (k * qr[2]) \div d, (k * qr[2]) % d>>
rsamp_ratio(xtal, r) ==
    LET q == TimesDiv(TimesDiv(TimesDiv(<<xtal \div r, xtal % r>>, 256, r), 128, r), 128, r)[1]
    IN  4 * ((q % 2^28) \div 4)
Clamped(n, lo, hi) == IF n < lo THEN lo ELSE IF n > hi THEN hi ELSE n
CorrWord(ppm) ==
    LET p == Clamped(ppm, -1954, 1954)      \* beyond them the i16 saturates
        offs == IF p > 0 THEN -((p * 262144) \div 15625) ELSE (-p * 262144) \div 15625
    IN  Clamped(offs, -32768, 32767) % 2^14

(* real_rate: the chip reads bit 28 of the ratio from bit 27. The division *)
(* by a lost ratio saturates at the largest u32.                           *)
real_rate(xtal, ratio) ==
    LET quarter == (IF ratio >= 2^27 THEN ratio + 2^28 ELSE ratio) \div 4
        S(qr) == TimesDiv(qr, 16, quarter)
        q == S(S(S(S(S(<<xtal \div quarter, xtal % quarter>>)))))[1]
    IN  IF quarter = 0 \/ q \div 2 > I32_MAX THEN 2 * I32_MAX + 1 ELSE q

(* Its demodulator part. The soft reset writes the repeater's register.    *)
RateDemod(s, ratio) ==
    Then(Then(WriteParts(s, "ratio", ratio),
              LAMBDA t : WriteParts(t, "corrReg", CorrWord(t.corr))),
         CloseRepeater)

ValidRate(r) == (r > 225000 /\ r <= 300000) \/ (r > 900000 /\ r <= 3200000)

(* Mutant: the rate is cached before it is validated.                      *)
set_sample_rate_unchecked(s, r) ==
    LET ratio == rsamp_ratio(s.rtlXtal, r)
        rate == real_rate(s.rtlXtal, ratio)
    IN  IF ~ValidRate(r) \/ (s.offs > 0 /\ s.freq > 0 /\ s.freq <= offset_tuning_floor(rate))
        THEN {Fail([s EXCEPT !.rate = r], "invalid")}
        ELSE Then(Then(RateTuner([s EXCEPT !.rate = rate]), LAMBDA t : RateDemod(t, ratio)),
                  LAMBDA t : IF t.offs > 0 THEN set_offset_tuning(t, TRUE) ELSE {t})

(* Mutant: the rate that was asked for is cached, not the one that runs.   *)
set_sample_rate_nominal(s, r) ==
    LET ratio == rsamp_ratio(s.rtlXtal, r)
    IN  IF ~ValidRate(r) \/ (s.offs > 0 /\ s.freq > 0 /\ s.freq <= offset_tuning_floor(r))
        THEN {Fail(s, "invalid")}
        ELSE Then(Then(RateTuner([s EXCEPT !.rate = r]), LAMBDA t : RateDemod(t, ratio)),
                  LAMBDA t : IF t.offs > 0 THEN set_offset_tuning(t, TRUE) ELSE {t})

set_sample_rate(s, r) ==
    LET ratio == rsamp_ratio(s.rtlXtal, r)
        rate == real_rate(s.rtlXtal, ratio)
    IN  IF ~ValidRate(r) \/ (s.offs > 0 /\ s.freq > 0 /\ s.freq <= offset_tuning_floor(rate))
        THEN {Fail(s, "invalid")}
        ELSE Then(Then(RateTuner([s EXCEPT !.rate = rate]), LAMBDA t : RateDemod(t, ratio)),
                  LAMBDA t : IF t.offs > 0 THEN set_offset_tuning(t, TRUE) ELSE {t})

(* set_tuner_bandwidth: a rejected bandwidth closes the repeater and is    *)
(* not cached, nor is an accepted one when closing fails.                  *)
set_tuner_bandwidth(s, b) ==
    IF ~HasDriver(s) THEN {s}
    ELSE Then(OpenRepeater(s),
              LAMBDA t : UNION {
                  IF u.err # "none" THEN {Fail(v, u.err) : v \in CloseRepeater(Quiet(u))}
                  ELSE Then(UNION {CloseRepeater(v) : v \in FollowIf(u)},
                            LAMBDA v : {[v EXCEPT !.bw = b]}) :
                  u \in TunerSetBw(t, IF b > 0 THEN b ELSE t.rate)})

---------------------------------------------------------------------------
(* Gain                                                                    *)

(* Mutant: an error in closing the repeater comes before the cache.        *)
set_tuner_gain_uncached(s, g) ==
    IF ~HasDriver(s) THEN {s}
    ELSE Bracket(s, LAMBDA t : TunerSetGain(t, g),
                 LAMBDA t : IF t.err = "none" THEN [t EXCEPT !.gain = g] ELSE t)

(* set_tuner_gain: the gain that the tuner took is cached.                 *)
set_tuner_gain(s, g) ==
    IF ~HasDriver(s) THEN {s}
    ELSE Bracket(s, LAMBDA t : {IF u.err = "none" THEN [u EXCEPT !.gain = g] ELSE u :
                                    u \in TunerSetGain(t, g)},
                 LAMBDA t : t)

(* set_tuner_gain_mode: its registers are left to R82xxDriver. An R82xx    *)
(* has no IF stages, and set_tuner_if_gain only opens and closes.          *)
set_tuner_gain_mode(s) ==
    IF ~HasDriver(s) THEN {s}
    ELSE Bracket(s, LAMBDA t : {t} \cup TunerFaults(t, "gainReg", {t.gainReg}), LAMBDA t : t)
set_tuner_if_gain(s) ==
    IF ~HasDriver(s) THEN {s} ELSE Bracket(s, LAMBDA t : {t}, LAMBDA t : t)

---------------------------------------------------------------------------
(* Crystals and correction                                                 *)

SetXtal(s) == IF HasDriver(s) THEN [s EXCEPT !.drvXtal = get_tuner_xtal(s)] ELSE s

Correct(s, ppm) ==
    Then(WriteParts(s, "corrReg", CorrWord(ppm)),
         LAMBDA t : {SetXtal([t EXCEPT !.corr = ppm])})

set_freq_correction(s, ppm) ==
    IF s.corr = ppm THEN {s}
    ELSE Then(Correct(s, ppm),
              LAMBDA t : IF t.freq > 0 THEN set_center_freq(t, t.freq) ELSE {t})

(* Mutant: the new crystal is cached, but the resampler keeps its ratio.   *)
SetRtlXtalOnly(s, x) == {IF x > 0 THEN [s EXCEPT !.rtlXtal = x] ELSE s}

(* The RTL side of set_xtal_freq, rolled back on error ...                 *)
SetRtlXtal(s, x) ==
    IF x = 0 \/ s.rtlXtal = x THEN {s}
    ELSE IF s.rate = 0 THEN {[s EXCEPT !.rtlXtal = x]}
    ELSE {IF t.err = "none" THEN t ELSE [t EXCEPT !.rtlXtal = s.rtlXtal] :
              t \in set_sample_rate([s EXCEPT !.rtlXtal = x], s.rate)}

(* Mutant: the rollback forgets the driver.                                *)
SetTunerXtalHalfRolledBack(s, x) ==
    LET new == IF x = 0 THEN s.rtlXtal ELSE x
        t == SetXtal([s EXCEPT !.tunXtal = new])
    IN  IF s.tunXtal = new THEN {s}
        ELSE IF s.freq = 0 THEN {t}
        ELSE {IF u.err = "none" THEN u ELSE [u EXCEPT !.tunXtal = s.tunXtal] :
                  u \in set_center_freq(t, t.freq)}

(* Mutant: a tuner crystal of 0 Hz is installed as it is.                  *)
SetTunerXtalLiteral(s, x) ==
    LET t == SetXtal([s EXCEPT !.tunXtal = x])
    IN  IF s.tunXtal = x THEN {s}
        ELSE IF s.freq = 0 THEN {t}
        ELSE {IF u.err = "none" THEN u
              ELSE [SetXtal([u EXCEPT !.tunXtal = s.tunXtal]) EXCEPT !.err = u.err] :
                  u \in set_center_freq(t, t.freq)}

(* ... and the tuner side: 0 means the crystal of the RTL side.            *)
SetTunerXtal(s, x) ==
    LET new == IF x = 0 THEN s.rtlXtal ELSE x
        t == SetXtal([s EXCEPT !.tunXtal = new])
    IN  IF s.tunXtal = new THEN {s}
        ELSE IF s.freq = 0 THEN {t}
        ELSE {IF u.err = "none" THEN u
              ELSE [SetXtal([u EXCEPT !.tunXtal = s.tunXtal]) EXCEPT !.err = u.err] :
                  u \in set_center_freq(t, t.freq)}

set_xtal_freq(s, rtl, tun) ==
    IF rtl > 0 /\ (rtl < DEF_RTL_XTAL_FREQ - 1000 \/ rtl > DEF_RTL_XTAL_FREQ + 1000)
    THEN {Fail(s, "invalid")}
    ELSE Then(SetRtlXtal(s, rtl), LAMBDA t : SetTunerXtal(t, tun))

---------------------------------------------------------------------------
(* set_direct_sampling: unlike the other calls, an error of tuner.exit or  *)
(* tuner.init returns with the repeater on.                                *)

ToDirect(s, on) ==
    LET tuner == IF HasDriver(s)
                 THEN Then(Then(OpenRepeater(s), TunerExit), CloseRepeater) ELSE {s}
        zif == Then(tuner, LAMBDA t : Write(t, "zeroIf", FALSE))
        inv == Then(zif, LAMBDA t : Write(t, "inv", FALSE))
        iq == Then(inv, LAMBDA t : Write(t, "iq", FALSE))
        swap == Then(iq, LAMBDA t : Write(t, "swap", on > 1))
    IN  Then(swap, LAMBDA t : {[t EXCEPT !.ds = on]})

(* Mutant: the swapped ADC datapath of input 2 stays behind.               *)
ToTunerSwapped(s) ==
    LET tuner == IF HasDriver(s)
                 THEN Then(Then(OpenRepeater(s), TunerInit), CloseRepeater) ELSE {s}
        ifr == Then(tuner, LAMBDA t : SetIfFreq(t, IF HasDriver(t) THEN R82XX_IF_FREQ ELSE 0))
        mode == IF HasDriver(s) THEN Then(ifr, LAMBDA t : Write(t, "inv", TRUE))
                ELSE Then(Then(ifr, LAMBDA t : Write(t, "iq", TRUE)),
                          LAMBDA t : Write(t, "zeroIf", TRUE))
    IN  Then(mode, LAMBDA t : {[t EXCEPT !.ds = 0]})

ToTuner(s) ==
    LET tuner == IF HasDriver(s)
                 THEN Then(Then(OpenRepeater(s), TunerInit), CloseRepeater) ELSE {s}
        ifr == Then(tuner, LAMBDA t : SetIfFreq(t, IF HasDriver(t) THEN R82XX_IF_FREQ ELSE 0))
        mode == IF HasDriver(s) THEN Then(ifr, LAMBDA t : Write(t, "inv", TRUE))
                ELSE Then(Then(ifr, LAMBDA t : Write(t, "iq", TRUE)),
                          LAMBDA t : Write(t, "zeroIf", TRUE))
        swap == Then(mode, LAMBDA t : Write(t, "swap", FALSE))
    IN  Then(swap, LAMBDA t : {[t EXCEPT !.ds = 0]})

set_direct_sampling(s, on) ==
    Then(IF on # 0 THEN ToDirect(s, on) ELSE ToTuner(s),
         LAMBDA t : IF t.freq > 0 THEN set_center_freq(t, t.freq) ELSE {t})

---------------------------------------------------------------------------
(* A call: a fault puts everything in doubt, and some calls a part of it   *)
(* even without one; a clean call that sets up one side of the device      *)
(* again clears the doubt about that side. last keeps whether the call was *)
(* refused for its parameters, or has been through a bracket to the tuner  *)
(* and back.                                                               *)
Call(outcomes, brackets, doubts, settles) ==
    \E t \in outcomes :
        /\ dev' = Quiet(t)
        /\ last' = CASE t.err = "invalid" -> "refused"
                     [] t.err \in {"none", "tuner"} /\ brackets /\ HasDriver(t) -> "bracketed"
                     [] OTHER -> "other"
        /\ sync' = IF t.faults < dev.faults THEN {}
                   ELSE (sync \ doubts) \cup (IF t.err = "none" THEN settles ELSE {})

SetCenterFreq == \E f \in Freqs : Call(set_center_freq(dev, f), dev.ds = 0, {}, {})
SetSampleRate ==
    \E r \in Rates : Call(set_sample_rate(dev, r), TRUE, {}, {"rate", "if"})
SetTunerBandwidth ==
    \E b \in Bandwidths : Call(set_tuner_bandwidth(dev, b), TRUE, {}, {"if"})
SetTunerGain == \E g \in Gains : Call(set_tuner_gain(dev, g), TRUE, {}, {})
SetTunerGainMode == Call(set_tuner_gain_mode(dev), TRUE, {}, {})
SetTunerIfGain == Call(set_tuner_if_gain(dev), TRUE, {}, {})
SetOffsetTuning == \E on \in BOOLEAN : Call(set_offset_tuning(dev, on), FALSE, {}, {})

(* Neither a correction nor, before a rate is set, a crystal sets up the   *)
(* demodulator's IF again, which was computed from the old ones.           *)
SetFreqCorrection ==
    \E p \in Ppms :
        Call(set_freq_correction(dev, p), FALSE, IF p = dev.corr THEN {} ELSE {"if"}, {})
SetXtalFreq ==
    \E x, y \in Xtals[dev.chip] \cup {0} :
        Call(set_xtal_freq(dev, x, y), FALSE, IF dev.rate = 0 THEN {"if"} ELSE {}, {})

(* Only an Ok tells which mode the tuner and the demodulator are in.       *)
SetDirectSampling ==
    \E on \in 0..2 :
        Call(set_direct_sampling(dev, on), FALSE, {"tuner"},
             IF on = 0 THEN {"tuner", "if"} ELSE sync)

Next ==
    \/ SetCenterFreq \/ SetSampleRate \/ SetTunerBandwidth
    \/ SetTunerGain \/ SetTunerGainMode \/ SetTunerIfGain
    \/ SetOffsetTuning \/ SetFreqCorrection \/ SetXtalFreq \/ SetDirectSampling

Spec == Init /\ [][Next]_vars

---------------------------------------------------------------------------
(* Properties                                                              *)

Cached ==
    /\ dev.chip \in Chips /\ dev.ds \in 0..2
    /\ dev.freq \in Freqs \cup {0} /\ dev.rate \in Nat
    /\ dev.bw \in Bandwidths \cup {0} /\ dev.gain \in Gains \cup {0}
    /\ dev.offs \in Nat /\ dev.corr \in Ppms \cup {0}
    /\ dev.rtlXtal \in Nat \ {0} /\ dev.tunXtal \in Nat \ {0} /\ dev.intFreq \in Nat

Computed == Int \X (Nat \X Int)

Registers ==
    /\ dev.lo \in Computed /\ dev.ifreg \in Computed
    /\ dev.filt \in Int /\ dev.ratio \in Int /\ dev.corrReg \in Int
    /\ dev.gainReg \in Gains \cup {Garbled}
    /\ dev.rep \in {"off", "on", "stuck"}
    /\ {dev.standby, dev.inv, dev.zeroIf, dev.iq, dev.swap} \subseteq BOOLEAN
    /\ dev.shadow \in {"right", "behind"}

(* The type invariant: after any call no crystal is 0 Hz, and caches and   *)
(* registers hold values of their kinds.                                   *)
TypeOK ==
    /\ Cached /\ Registers
    /\ dev.faults \in Nat /\ dev.err = "none"
    /\ last \in {"refused", "bracketed", "other"}
    /\ sync \subseteq {"tuner", "rate", "if"}

(* center_freq() is true: in tuner mode the signal at the reported         *)
(* frequency is the one that the demodulator's IF picks up, with an LO     *)
(* computed from the crystal and correction of now, after any sequence of  *)
(* rate, bandwidth, correction, crystal and mode changes. The IF is the    *)
(* wanted number of Hz of the crystal that it was computed from, and that  *)
(* is the crystal of now once a rate, a bandwidth or the tuner mode was    *)
(* set after the last change of correction or crystal (set_freq_correction *)
(* leaves it behind by 3.57 Hz per ppm). After a fault, or a               *)
(* set_direct_sampling that the tuner refused, a clean                     *)
(* set_direct_sampling(0) makes it true again.                             *)
ReceivesCenterFreq ==
    "tuner" \in sync /\ HasDriver(dev) /\ dev.ds = 0 /\ dev.freq > 0 =>
        /\ dev.lo = <<dev.freq + dev.ifreg[1], get_tuner_xtal(dev)>>
        /\ "if" \in sync => dev.ifreg[2] = get_rtl_xtal(dev)

(* direct_sampling() is true: the tuner, the spectrum inversion and the    *)
(* ADC datapath are in the reported mode, unless a transfer failed, or the *)
(* tuner refused a set_direct_sampling, since it was last Ok.              *)
ModeAsReported ==
    "tuner" \in sync /\ HasDriver(dev) =>
        /\ dev.standby = (dev.ds # 0) /\ dev.inv = (dev.ds = 0)
        /\ dev.swap = (dev.ds = 2) /\ ~dev.zeroIf

(* sample_rate() and freq_correction() are true: the ratio in the          *)
(* resampler makes the cached rate out of the cached crystal, and the      *)
(* correction is the cached one (without a driver a rate can be refused    *)
(* after it was written, see RejectedIsNoOp) ...                           *)
RateIsTrue ==
    "rate" \in sync /\ HasDriver(dev) /\ dev.rate > 0 =>
        /\ dev.rate = real_rate(dev.rtlXtal, dev.ratio)
        /\ dev.corrReg = CorrWord(dev.corr)

(* ... and in tuner mode the filter is the one asked for, or else the one  *)
(* for the rate, unless the tuner has been initialised again since.        *)
FilterIsTrue ==
    {"tuner", "rate"} \subseteq sync /\ HasDriver(dev) /\ dev.ds = 0 /\ dev.rate > 0 =>
        dev.filt \in {InitFilter, RateBandwidth(dev)}

(* Both, after any sequence of rates, bandwidths, crystals and corrections *)
(* each of which sets up part of what the others have set up.              *)
RateAsReported == RateIsTrue /\ FilterIsTrue

(* tuner_gain() is true whichever transfer around the tuner's own failed,  *)
(* those that open and close the repeater included. It is not promised     *)
(* once a transfer to the tuner itself failed, until its next init: the    *)
(* shadow registers may then skip a later set_gain that returns Ok. Nor is *)
(* it after set_direct_sampling, which takes the gain registers and does   *)
(* not restore them.                                                       *)
GainAsReported ==
    HasDriver(dev) /\ dev.shadow = "right" /\ dev.gainReg # Garbled => dev.gain = dev.gainReg

(* The driver computes its PLL from the crystal the device reports, also   *)
(* after a crystal or correction change was rolled back.                   *)
DriverXtalTracks == HasDriver(dev) => dev.drvXtal = get_tuner_xtal(dev)

(* A call that went through to the tuner left the I2C repeater off when it *)
(* returned Ok or the tuner's refusal (a PLL that does not lock), whatever *)
(* failed inside it or leaked the repeater before.                         *)
RepeaterClosed == last = "bracketed" => dev.rep = "off"

(* A call refused for its parameters leaves a device whose tuner has a     *)
(* driver as it was ("a rejected call is a no-op"). Without a driver the   *)
(* trailing set_offset_tuning of set_sample_rate can refuse as the last    *)
(* step, in direct sampling, when the rate is cached and written.          *)
RejectedIsNoOp == [][last' = "refused" /\ HasDriver(dev) => dev' = dev]_vars

(* Whatever failed, the repeater is off between calls unless its own write *)
(* failed ("the invariant the next call assumes").                         *)
RepeaterOffBetweenCalls == dev.rep # "on"

(* center_freq() is true in direct sampling too.                           *)
DirectReceivesCenterFreq ==
    "tuner" \in sync /\ dev.ds # 0 /\ dev.freq > 0 => dev.ifreg[1] = dev.freq
===========================================================================
