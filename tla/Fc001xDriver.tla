---------------------------- MODULE Fc001xDriver ----------------------------
(***************************************************************************)
(* The drivers of the Fitipower FC0012 and FC0013, which differ in their   *)
(* tables, in the band registers that the FC0013 has besides and in their  *)
(* gain registers. Frequencies are in whole kHz, crystals in even ones, so *)
(* that half the crystal is a whole number of kHz too and the divisions of *)
(* the code are exact. set_freq and set_bw store before they program.      *)
(***************************************************************************)
EXTENDS TunerRegisters

\* Maximum frequency (exclusive), VCO multiple, registers 5 and 6.
FC0012_DIVIDERS ==
    <<<<37084, 96, \h82, 0>>, <<55625, 64, \h82, 2>>, <<74167, 48, \h42, 0>>,
      <<111250, 32, \h42, 2>>, <<148334, 24, \h22, 0>>, <<222500, 16, \h22, 2>>,
      <<296667, 12, \h12, 0>>, <<445000, 8, \h12, 2>>, <<593334, 6, \h0a, 0>>,
      <<4294968, 4, \h0a, 2>>>>
FC0013_DIVIDERS ==
    <<<<37084, 96, \h82, 0>>, <<55625, 64, 2, 2>>, <<74167, 48, \h42, 0>>,
      <<111250, 32, \h82, 2>>, <<148334, 24, \h22, 0>>, <<222500, 16, \h42, 2>>,
      <<296667, 12, \h12, 0>>, <<445000, 8, \h22, 2>>, <<593334, 6, \h0a, 0>>,
      <<950000, 4, \h12, 2>>, <<4294968, 2, \h0a, 2>>>>
FcDividers(model) == IF model = "FC0012" THEN FC0012_DIVIDERS ELSE FC0013_DIVIDERS

FcDivider(model, f) ==
    LET table == FcDividers(model)
    IN  table[Min({i \in DOMAIN table : f < table[i][1] \/ i = Len(table)})]

\* Registers 0x01 to 0x15, with the bits that init sets in 0x07 and 0x0c.
FC0012_INIT ==
    <<\h05, \h10, 0, 0, \h0f, 0, \h20, \hff, \h6e, \hb8, \h82, \hfe, 2, 0, 0, 0, 0, \h1f, 0, 0, 4>>
FC0013_INIT ==
    <<\h09, \h16, 0, 0, \h17, 2, \h2a, \hff, \h6e, \hb8, \h82, \hfe, 1, 0, 0, 0, 0, 0, 0, \h50, 1>>

FcRegs(model) == 1..\h15 \cup IF model = "FC0013" THEN {\h1d} ELSE {}

fc_init(s) ==
    LET table == IF s.model = "FC0012" THEN FC0012_INIT ELSE FC0013_INIT
    IN  Apply(s, [r \in 1..\h15 |-> Put(r, table[r])])

(* LNA power down                                                          *)
fc_exit(s) == Apply(s, <<W(6, 1, 1)>>)

---------------------------------------------------------------------------
(* set_params                                                              *)

VCO_HIGH_THRESH == 3060000
BW_6MHZ == 6000
BW_7MHZ == 7000

\* Maximum frequency (inclusive) and bits of register 0x1d.
VHF_TRACK ==
    <<<<177500, \h1c>>, <<184500, \h18>>, <<191500, \h14>>, <<198500, \h10>>, <<205500, \h0c>>,
      <<219500, \h08>>, <<299999, \h04>>>>

(* FC0013's set_vhf_track                                                  *)
VhfTrack(f) ==
    IF f < 300000 THEN VHF_TRACK[Min({i \in DOMAIN VHF_TRACK : f <= VHF_TRACK[i][1]})][2] ELSE \h1c

(* Its VHF filter, and UHF in register 0x14, which also has the LNA gain.  *)
BandWrites(f) ==
    <<W(\h1d, VhfTrack(f), \h1c), W(7, IF f < 300000 THEN \h10 ELSE 0, \h10),
      W(\h14, IF f < 300000 THEN 0 ELSE \h40, \he0)>>

(* XDIV is rounded and split into AM + 8 * PM, with AM in 2..9.            *)
XDiv(vco, half) ==
    (vco \div half + (IF 2 * (vco % half) >= half THEN 1 ELSE 0)) % 65536
Am(xdiv) == IF xdiv % 8 < 2 THEN (xdiv % 8) + 8 ELSE xdiv % 8
Pm(xdiv) == (xdiv - Am(xdiv)) \div 8

(* More than 31 go into register 1, a byte that wraps before it is checked.*)
Reg1(xdiv) == IF Pm(xdiv) > 31 THEN (Am(xdiv) + 8 * (Pm(xdiv) - 31)) % 256 ELSE Am(xdiv)
Reg2(xdiv) == Min({Pm(xdiv), 31})
PllValid(xdiv) == Pm(xdiv) >= 0 /\ Reg1(xdiv) <= 15 /\ Reg2(xdiv) >= 11

(* Mutant: the fraction of a rounded-up XDIV is not made negative.         *)
XinUnsigned(vco, half) == Shifted((vco % half) % 65536, half, 15)[1]

(* The 16 bits of the fraction, negative where XDIV was rounded up. The    *)
(* remainder is cast to a u16 of kHz before it is shifted.                 *)
Xin(vco, half) ==
    LET xin == Shifted((vco % half) % 65536, half, 15)[1]
    IN  IF xin >= 16384 THEN xin + 32768 ELSE xin

BwBits(bw) == CASE bw = BW_6MHZ -> \h80 [] bw = BW_7MHZ -> \h40 [] OTHER -> 0

Recalibrate == <<Put(\h0e, \h80), Put(\h0e, 0)>>

PllWrites(s, f) ==
    LET div == FcDivider(s.model, f)
        vco == f * div[2]
        half == s.xtal \div 2
        reg6 == div[4] + \h20 + BwBits(s.bw) + (IF vco >= VCO_HIGH_THRESH THEN 8 ELSE 0)
    IN  <<Put(1, Reg1(XDiv(vco, half))), Put(2, Reg2(XDiv(vco, half))),
          Put(3, Xin(vco, half) \div 256), Put(4, Xin(vco, half) % 256),
          Put(5, 8 * (div[3] \div 8) + 7), Put(6, reg6)>>
        \o (IF s.model = "FC0013" THEN <<W(\h11, IF div[2] = 64 THEN 4 ELSE 0, 4)>> ELSE <<>>)
        \o Recalibrate \o <<Put(\h0e, 0)>>

(* The speed of the VCO is changed when its measured control voltage is at *)
(* the end of the range.                                                   *)
FcCalibrateVco(s) ==
    Then(Read(s),
         LAMBDA t : {t} \cup Apply(t, <<W(6, IF 3 \in t.chip[6] THEN 0 ELSE 8, 8)>> \o Recalibrate))

set_params(s, f) ==
    Then(IF s.model = "FC0013" THEN Apply(s, BandWrites(f)) ELSE {s},
         LAMBDA t : IF PllValid(XDiv(f * FcDivider(t.model, f)[2], t.xtal \div 2))
                    THEN Then(Apply(t, PllWrites(t, f)), FcCalibrateVco)
                    ELSE Refuse(t))

(* With the VCO's frequency noted instead of the tuner's.                  *)
fc_set_freq_vco(s, f) == set_params([s EXCEPT !.freq = f * FcDivider(s.model, f)[2]], f)

fc_set_freq(s, f) == set_params([s EXCEPT !.freq = f], f)

fc_set_bw(s, bw) ==
    LET t == [s EXCEPT !.bw = bw] IN IF s.freq > 0 THEN set_params(t, s.freq) ELSE {t}

---------------------------------------------------------------------------
(* Gain, in tenths of a dB                                                 *)

FC0012_LNA(g) ==
    CASE g < -40 -> 2 [] g >= -40 /\ g < 71 -> 0 [] g >= 71 /\ g < 179 -> 8
      [] g >= 179 /\ g < 192 -> \h17 [] OTHER -> \h10

\* Gain and register value. -6.3 dB is there twice: the first is taken.
FC0013_LNA_GAINS ==
    <<<<-99, 2>>, <<-73, 3>>, <<-65, 5>>, <<-63, 4>>, <<-63, 0>>, <<-60, 7>>, <<-58, 1>>,
      <<-54, 6>>, <<58, \h0f>>, <<61, \h0e>>, <<63, \h0d>>, <<65, \h0c>>, <<67, \h0b>>,
      <<68, \h0a>>, <<70, 9>>, <<71, 8>>, <<179, \h17>>, <<181, \h16>>, <<182, \h15>>,
      <<184, \h14>>, <<186, \h13>>, <<188, \h12>>, <<191, \h11>>, <<197, \h10>>>>

FC0013_LNA(g) ==
    FC0013_LNA_GAINS[Min({i \in DOMAIN FC0013_LNA_GAINS : FC0013_LNA_GAINS[i][1] >= g}
                         \cup {Len(FC0013_LNA_GAINS)})][2]

(* Mutant: the band bits of FC0013's register 0x14 are cleared.            *)
fc_set_gain_whole(s, g) ==
    Apply(s, IF s.model = "FC0012" THEN <<Put(\h13, FC0012_LNA(g))>>
             ELSE <<Put(\h14, FC0013_LNA(g))>>)

fc_set_gain(s, g) ==
    Apply(s, IF s.model = "FC0012" THEN <<W(\h13, FC0012_LNA(g), \h1f)>>
             ELSE <<W(\h14, FC0013_LNA(g), \h1f)>>)

fc_set_gain_mode(s, manual) ==
    Apply(s, IF s.model = "FC0012" THEN <<Put(\h0d, IF manual THEN 2 ELSE 0)>>
             ELSE <<W(\h0d, IF manual THEN 8 ELSE 0, 8), Put(\h13, \h0a)>>)
===========================================================================
