---------------------------- MODULE Fc2580Driver ----------------------------
(***************************************************************************)
(* The driver of the FCI FC2580. It computes in whole kHz itself. Every    *)
(* set_freq also sets the filter of its band, whatever set_bw chose, and   *)
(* gain and standby are no-ops.                                            *)
(***************************************************************************)
EXTENDS TunerRegisters

Fc2580Init ==
    <<Put(\h00, 0), Put(\h12, \h86), Put(\h14, \h5c), Put(\h16, \h3c), Put(\h1f, \hd2),
      Put(\h09, \hd7), Put(\h0b, \hd5), Put(\h0c, \h32), Put(\h0e, \h43), Put(\h21, \h0a),
      Put(\h22, \h82), Put(\h45, \h20), Put(\h4c, 2), Put(\h3f, \h88), Put(\h02, \h0e),
      Put(\h58, \h14)>>

---------------------------------------------------------------------------
(* set_filter, for the modes 1, 6, 7 and 8                                 *)

FilterCoeff(mode) == CASE mode = 1 -> 4151 [] mode = 6 -> 4400 [] mode = 7 -> 3910 [] OTHER -> 3300

FilterWrites(mode, xtal) ==
    <<Put(\h36, IF mode = 1 THEN \h1c ELSE \h18),
      Put(\h37, Min({(FilterCoeff(mode) * xtal) \div 1000000, 255})),
      Put(\h39, IF mode \in {7, 8} THEN \h80 ELSE 0), Put(\h2e, 9)>>

(* The calibration is polled, and triggered again up to five times; the    *)
(* last of these leaves what the first does. It may never complete.        *)
set_filter(s, mode) ==
    Then(Then(Apply(s, FilterWrites(mode, s.xtal)), Read),
         LAMBDA t : Apply(t, <<Put(\h2e, 1)>>)
                    \cup Apply(t, <<Put(\h2e, 1), Put(\h2e, 9), Put(\h2e, 1)>>))

FilterMode(bw) == CASE bw = 1530 -> 1 [] bw = 6000 -> 6 [] bw = 7000 -> 7 [] OTHER -> 8

fc2580_set_bw(s, bw) == IF s.xtal = 0 THEN Refuse(s) ELSE set_filter(s, FilterMode(bw))

fc2580_init(s) ==
    IF s.xtal = 0 THEN Refuse(s) ELSE Then(Apply(s, Fc2580Init), LAMBDA t : set_filter(t, 8))

---------------------------------------------------------------------------
(* The registers of a band                                                 *)

BandOf(f) == CASE f > 1000000 -> "L" [] f > 400000 /\ f <= 1000000 -> "UHF" [] OTHER -> "VHF"

BandRegs(band) ==
    CASE band = "UHF" -> <<\h25, \h27, \h28, \h29, \h30, \h50, \h53, \h5f, \h61, \h62, \h67, \h68,
                           \h69, \h6a, \h63, \h6b, \h6c, \h6d, \h6e, \h6f>>
      [] band = "VHF" -> <<\h27, \h28, \h29, \h30, \h50, \h53, \h5f, \h61, \h62, \h63, \h67, \h68,
                           \h69, \h6a, \h6b, \h6c, \h6d, \h6e, \h6f>>
      [] band = "L" -> <<\h2b, \h2c, \h2d, \h30, \h44, \h50, \h53, \h5f, \h61, \h62, \h63, \h67,
                         \h68, \h69, \h6a, \h6b, \h6c, \h6d, \h6e, \h6f>>

\* 0x5f, 0x61, 0x62, 0x67 to 0x6a of the three parts of the UHF band
UhfPart(f) ==
    CASE f < 538000 -> <<\h13, 7, 6, 6, 8, \h10, \h12>>
      [] f >= 538000 /\ f < 794000 -> <<\h15, 3, 3, 3, 5, \h0c, \h0e>>
      [] OTHER -> <<\h15, 7, 6, 7, 9, \h10, \h12>>

BandBytes(f) ==
    CASE BandOf(f) = "UHF" -> <<\hf0, \h77, \h53, \h60, 9, \h8c, \h50>> \o UhfPart(f)
                              \o <<\h15, \h0b, \h0c, \h78, \h32, \h14>>
      [] BandOf(f) = "VHF" -> <<\h77, \h33, \h40, 9, \h8c, \h50, \h0f, 7, 0, \h15, 3, 5, \h10, \h12,
                                8, \h0a, \h78, \h32, \h54>>
      [] BandOf(f) = "L" -> <<\h70, \h37, \he7, 9, \h20, \h8c, \h50, \h0f, \h0f, 0, \h13, 0, 2,
                              \h0c, \h0e, 8, \h0a, \ha0, \h50, \h14>>

WriteBand(f) == [i \in DOMAIN BandBytes(f) |-> Put(BandRegs(BandOf(f))[i], BandBytes(f)[i])]

BandFilter(f) == CASE BandOf(f) = "UHF" -> 8 [] BandOf(f) = "VHF" -> 7 [] OTHER -> 1

Fc2580Regs ==
    {Fc2580Init[i].reg : i \in DOMAIN Fc2580Init}
    \cup (UNION {Range(BandRegs(b)) : b \in {"UHF", "VHF", "L"}})
    \cup {\h18, \h1a, \h1b, \h1c, \h2e, \h36, \h37, \h39, \h4b}

---------------------------------------------------------------------------
(* set_freq_internal                                                       *)

BORDER_FREQ == 2600000

VcoMult(band) == CASE band = "UHF" -> 4 [] band = "VHF" -> 12 [] OTHER -> 2
Vco(f) == f * VcoMult(BandOf(f))

RDiv(f, xtal) == CASE Vco(f) >= 152 * xtal -> 1
                   [] Vco(f) >= 76 * xtal /\ Vco(f) < 152 * xtal -> 2
                   [] OTHER -> 4
FComp(f, xtal) == xtal \div RDiv(f, xtal)
NVal(f, xtal) == (Vco(f) \div 2) \div FComp(f, xtal)

(* The fraction of N in 2^-20, rounded to the nearest.                     *)
KVal(f, xtal) ==
    LET fc == FComp(f, xtal)
        k == Shifted(Vco(f) - 2 * fc * NVal(f, xtal), 2 * fc, 20)
    IN  IF k[2] >= fc THEN k[1] + 1 ELSE k[1]

\* The band's bits of register 0x02, and those of R in register 0x18
BandBits(band) == CASE band = "VHF" -> \h80 [] band = "L" -> \h40 [] OTHER -> 0
RBits(r) == CASE r = 1 -> 0 [] r = 2 -> 16 [] OTHER -> 32

Data02(f) == 6 + (IF Vco(f) >= BORDER_FREQ THEN 8 ELSE 0) + BandBits(BandOf(f))

PllBytes2580(f, xtal) ==
    LET k == KVal(f, xtal)
    IN  (IF xtal >= 28000 THEN <<Put(\h4b, \h22)>> ELSE <<>>)
        \o <<Put(\h02, Data02(f)),
             Put(\h18, RBits(RDiv(f, xtal)) + k \div 65536),
             Put(\h1a, (k \div 256) % 256), Put(\h1b, k % 256)>>

(* An N that does not fit is refused after all the other registers.        *)
LoadN(s, f) ==
    LET n == NVal(f, s.xtal)
    IN  IF n > 255 THEN Refuse(s)
        ELSE Apply(s, <<Put(\h1c, n)>>
                      \o IF BandOf(f) # "UHF" THEN <<>>
                         ELSE <<Put(\h2d, IF f <= 794000 THEN \h9f ELSE \h8f)>>)

(* Mutant: only the PLL and the band's bits are set.                       *)
fc2580_set_freq_bandless(s, f) ==
    IF s.xtal = 0 \/ FComp(f, s.xtal) = 0 THEN Refuse(s)
    ELSE Then(Then(Apply(s, PllBytes2580(f, s.xtal)), LAMBDA t : LoadN(t, f)),
              LAMBDA t : {[t EXCEPT !.freq = f]})

fc2580_set_freq(s, f) ==
    IF s.xtal = 0 \/ FComp(f, s.xtal) = 0 THEN Refuse(s)
    ELSE Then(Then(Then(Then(Apply(s, WriteBand(f)), LAMBDA t : set_filter(t, BandFilter(f))),
                        LAMBDA t : Apply(t, PllBytes2580(f, t.xtal))),
                   LAMBDA t : LoadN(t, f)),
              LAMBDA t : {[t EXCEPT !.freq = f]})
===========================================================================
