----------------------------- MODULE E4kDriver -----------------------------
(***************************************************************************)
(* The driver of the Elonics E4000. Frequencies are in whole kHz. The      *)
(* driver's pll and band are read only in the call that has just set them, *)
(* so the crystal is all that it remembers. A masked write reads first and *)
(* skips the write of equal bits, which leaves the same chip.              *)
(***************************************************************************)
EXTENDS TunerRegisters

MASTER1 == \h00
CLK_INP == \h05
REF_CLK == \h06
SYNTH1 == \h07
SYNTH3 == \h09
SYNTH4 == \h0a
SYNTH5 == \h0b
SYNTH7 == \h0d
FILT1 == \h10
FILT2 == \h11
FILT3 == \h12
GAIN1 == \h14
GAIN2 == \h15
GAIN3 == \h16
GAIN4 == \h17
AGC1 == \h1a
AGC7 == \h20
AGC11 == \h24
BIAS == \h78

E4kRegs ==
    {MASTER1, CLK_INP, REF_CLK, SYNTH1, SYNTH3, SYNTH4, SYNTH5, SYNTH7, FILT1, FILT2, FILT3,
     GAIN1, GAIN2, GAIN3, GAIN4, AGC1, \h1d, \h1e, \h1f, AGC7, AGC11, \h2d, \h70, \h71, BIAS,
     \h7a, \h7e, \h7f, \h82, \h86, \h87, \h88, \h9f, \ha0}

AbsDiff(a, b) == IF a < b THEN b - a ELSE a - b

(* closest_arr_idx, and the LNA gains' min_by_key: of two the first.       *)
Closest(table, x) ==
    Min({i \in DOMAIN table :
            \A j \in DOMAIN table : AbsDiff(table[i], x) <= AbsDiff(table[j], x)}) - 1

---------------------------------------------------------------------------
(* Filters                                                                 *)

MIX_FILTER_BW ==
    [i \in 1..8 |-> 27000] \o <<4600, 4200, 3800, 3400, 3300, 2700, 2300, 1900>>
IFRC_FILTER_BW ==
    <<21400, 21000, 17600, 14700, 12400, 10600, 9000, 7700, 6400, 5300, 4400, 3400, 2600, 1800,
      1200, 1000>>
IFCH_FILTER_BW ==
    <<5500, 5300, 5000, 4800, 4600, 4400, 4300, 4100, 3900, 3800, 3700, 3600, 3400, 3300, 3200,
      3100, 3000, 2950, 2900, 2800, 2750, 2700, 2600, 2550, 2500, 2450, 2400, 2300, 2280, 2240,
      2200, 2150>>

MixFilter(bw) == W(FILT2, 16 * Closest(MIX_FILTER_BW, bw), \hf0)
RcFilter(bw) == W(FILT2, Closest(IFRC_FILTER_BW, bw), \h0f)
ChanFilter(bw) == W(FILT3, Closest(IFCH_FILTER_BW, bw), \h1f)

(* Mutant: the RC filter's field is the whole register.                    *)
e4k_set_bw_wide(s, bw) ==
    Apply(s, <<MixFilter(bw), Put(FILT2, Closest(IFRC_FILTER_BW, bw)), ChanFilter(bw)>>)

e4k_set_bw(s, bw) == Apply(s, <<MixFilter(bw), RcFilter(bw), ChanFilter(bw)>>)

---------------------------------------------------------------------------
(* Tuning                                                                  *)

\* Maximum frequency (exclusive), register SYNTH7, multiple of the VCO
PLL_VARS ==
    <<<<72400, \h0f, 48>>, <<81200, \h0e, 40>>, <<108300, \h0d, 32>>, <<162500, \h0c, 24>>,
      <<216600, \h0b, 16>>, <<325000, \h0a, 12>>, <<350000, \h09, 8>>, <<432000, \h03, 8>>,
      <<667000, \h02, 6>>, <<1200000, \h01, 4>>>>

(* Above the table the initial values stay.                                *)
PllVar(f) ==
    LET above == {i \in DOMAIN PLL_VARS : f < PLL_VARS[i][1]}
    IN  IF above = {} THEN <<0, 0, 2>> ELSE PLL_VARS[Min(above)]

RF_FILT_CENTER_UHF ==
    <<360000, 380000, 405000, 425000, 450000, 475000, 505000, 540000, 575000, 615000, 670000,
      720000, 760000, 840000, 890000, 970000>>
RF_FILT_CENTER_L ==
    <<1300000, 1320000, 1360000, 1410000, 1445000, 1460000, 1490000, 1530000, 1560000, 1590000,
      1640000, 1660000, 1680000, 1700000, 1720000, 1750000>>

(* compute_pll_params                                                      *)
E4kZ(f, fosc) == (f * PllVar(f)[3]) \div fosc
E4kX(f, fosc) == Shifted((f * PllVar(f)[3]) % fosc, fosc, 16)
E4kPllValid(f, fosc) == fosc >= 16000 /\ fosc <= 30000 /\ E4kZ(f, fosc) <= 255

(* The band goes by the frequency that X, rounded down, synthesises: on a  *)
(* boundary an inexact X is below it.                                      *)
Below(f, fosc, bound) == f < bound \/ (f = bound /\ E4kX(f, fosc)[2] # 0)
E4kBand(f, fosc) ==
    CASE Below(f, fosc, 140000) -> 0
      [] ~Below(f, fosc, 140000) /\ Below(f, fosc, 350000) -> 1
      [] ~Below(f, fosc, 350000) /\ Below(f, fosc, 1135000) -> 2
      [] OTHER -> 3

RfFilter(f, band) ==
    CASE band = 2 -> Closest(RF_FILT_CENTER_UHF, f)
      [] band = 3 -> Closest(RF_FILT_CENTER_L, f)
      [] OTHER -> 0

(* tune_params, with band_set and rf_filter_set                            *)
tune_params(s, f) ==
    LET band == E4kBand(f, s.xtal)
        x == E4kX(f, s.xtal)[1]
    IN  Apply(s, <<Put(SYNTH7, PllVar(f)[2]), Put(SYNTH3, E4kZ(f, s.xtal)),
                   Put(SYNTH4, x % 256), Put(SYNTH5, x \div 256),
                   Put(BIAS, IF band = 3 THEN 0 ELSE 3),
                   W(SYNTH1, 0, 6), W(SYNTH1, 2 * band, 6),
                   W(FILT1, RfFilter(f, band), \h0f)>>)

(* The chip says whether the PLL locked.                                   *)
e4k_set_freq(s, f) ==
    IF ~E4kPllValid(f, s.xtal) THEN Refuse(s)
    ELSE Then(Then(tune_params(s, f), Read), LAMBDA t : {t} \cup Refuse(t))

---------------------------------------------------------------------------
(* Gain, in tenths of a dB; of the IF stages in dB                         *)

\* Gain and register value
E4K_LNA_GAIN ==
    <<<<-50, 0>>, <<-25, 1>>, <<0, 4>>, <<25, 5>>, <<50, 6>>, <<75, 7>>, <<100, 8>>, <<125, 9>>,
      <<150, 10>>, <<175, 11>>, <<200, 12>>, <<250, 13>>, <<300, 14>>>>

MixerGain(g) == IF g > 340 THEN 12 ELSE 4

e4k_set_gain(s, g) ==
    LET gains == [i \in DOMAIN E4K_LNA_GAIN |-> E4K_LNA_GAIN[i][1]]
        lna == Closest(gains, Min({g - 10 * MixerGain(g), 300}))
    IN  Apply(s, <<W(GAIN1, E4K_LNA_GAIN[lna + 1][2], \h0f),
                   W(GAIN2, IF MixerGain(g) = 12 THEN 1 ELSE 0, 1)>>)

(* enable_manual_gain                                                      *)
ManualGain(manual) ==
    IF manual THEN <<W(AGC1, 0, \h0f), W(AGC7, 0, 1)>>
    ELSE <<W(AGC1, 9, \h0f), W(AGC7, 1, 1), W(AGC11, 0, 7)>>

e4k_set_gain_mode(s, manual) == Apply(s, ManualGain(manual))

\* The gains of each IF stage, its register, and the shift and mask of its field
IF_STAGE_GAIN ==
    <<<<-3, 6>>, <<0, 3, 6, 9>>, <<0, 3, 6, 9>>, <<0, 1, 2, 2>>,
      <<3, 6, 9, 12, 15, 15, 15, 15>>, <<3, 6, 9, 12, 15, 15, 15, 15>>>>
IF_STAGE_FIELD ==
    <<<<GAIN3, 1, \h01>>, <<GAIN3, 2, \h06>>, <<GAIN3, 8, \h18>>, <<GAIN3, 32, \h60>>,
      <<GAIN4, 1, \h07>>, <<GAIN4, 8, \h38>>>>

(* if_gain_set, of a gain that the stage has                               *)
StageWrite(stage, gain) ==
    LET field == IF_STAGE_FIELD[stage]
        gains == IF_STAGE_GAIN[stage]
        idx == Min({i \in DOMAIN gains : gains[i] = gain}) - 1
    IN  W(field[1], idx * field[2], field[3])

(* gain / 10 rounds towards 0, and the casts to u8 and i8 wrap.            *)
StageByte(stage) == stage % 256
GainByte(gain) ==
    LET whole == IF gain >= 0 THEN gain \div 10 ELSE -((-gain) \div 10)
    IN  ((whole + 128) % 256) - 128

e4k_set_if_gain(s, stage, gain) ==
    IF /\ StageByte(stage) \in DOMAIN IF_STAGE_GAIN
       /\ GainByte(gain) \in Range(IF_STAGE_GAIN[StageByte(stage)])
    THEN Apply(s, <<StageWrite(StageByte(stage), GainByte(gain))>>)
    ELSE Refuse(s)

---------------------------------------------------------------------------
\* Reset, clocks, the magic registers, AGC thresholds
E4kReset ==
    <<Put(MASTER1, 7), Put(CLK_INP, 0), Put(REF_CLK, 0), Put(\h7a, \h96), Put(\h7e, 1),
      Put(\h7f, \hfe), Put(\h82, 0), Put(\h86, \h50), Put(\h87, \h20), Put(\h88, 1),
      Put(\h9f, \h7f), Put(\ha0, 7), Put(\h1d, \h10), Put(\h1e, 4), Put(\h1f, \h1a)>>

(* Then automatic gain, moderate IF gains, the narrowest filters, and no   *)
(* DC correction. An error of the dummy read before is ignored.            *)
E4kSetup ==
    ManualGain(TRUE) \o ManualGain(FALSE)
    \o <<StageWrite(1, 6), StageWrite(2, 0), StageWrite(3, 0), StageWrite(4, 0),
         StageWrite(5, 9), StageWrite(6, 9), MixFilter(1900), RcFilter(1000), ChanFilter(2150),
         W(FILT3, 0, \h20), W(\h2d, 0, 3), W(\h70, 0, 3), W(\h71, 0, 3)>>

e4k_init(s) ==
    UNION {Apply([t EXCEPT !.err = "none"], E4kReset \o E4kSetup) : t \in Read(s)}

(* standby                                                                 *)
e4k_exit(s) == Apply(s, <<W(MASTER1, 0, 2)>>)
===========================================================================
