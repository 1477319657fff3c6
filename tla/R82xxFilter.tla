---------------------------- MODULE R82xxFilter ----------------------------
(***************************************************************************)
(* set_bw of the R82xx tuner driver: which of the chip's IF filters it     *)
(* selects for a requested bandwidth, and the intermediate frequency that  *)
(* centres the signal in the selected filter. Frequencies are in Hz.       *)
(***************************************************************************)
EXTENDS Integers, Sequences, FiniteSetsExt

\* bandwidths of the low-pass filters, widest first
IF_LOW_PASS_BW_TABLE ==
    <<1700000, 1600000, 1550000, 1450000, 1200000,
      900000, 700000, 550000, 450000, 350000>>

\* what switching off a high-pass corner adds to the bandwidth
FILT_HP_BW1 == 350000
FILT_HP_BW2 == 380000

I32_MAX == 2147483647
Widest == IF_LOW_PASS_BW_TABLE[1]

(* Mutant: the number of entries that are wide enough, clamped below the   *)
(* last one (the off-by-one of the original loop).                         *)
FindIfLpfIdxShort(bw) ==
    Min({9, Max({1, Cardinality({i \in 1..10 : IF_LOW_PASS_BW_TABLE[i] >= bw})})})

(* Mutant: the first entry that is too narrow (no saturating_sub).         *)
FindIfLpfIdxPast(bw) ==
    Min({10, 1 + Cardinality({i \in 1..10 : IF_LOW_PASS_BW_TABLE[i] >= bw})})

(* find_if_lpf_idx (1-based): the entries wide enough for bw are a prefix  *)
(* of the table; take its last one, or the widest when there is none.      *)
FindIfLpfIdx(bw) ==
    Max({1, Cardinality({i \in 1..10 : IF_LOW_PASS_BW_TABLE[i] >= bw})})

(* The narrow path of set_bw: residual bandwidth left to the low-pass      *)
(* filter after the high-pass corners that the request needs are opened.   *)
Hp2(bw) == bw > Widest + FILT_HP_BW1
Residual2(bw) == IF Hp2(bw) THEN bw - FILT_HP_BW2 ELSE bw
Hp1(bw) == Residual2(bw) > Widest
Residual(bw) == IF Hp1(bw) THEN Residual2(bw) - FILT_HP_BW1 ELSE Residual2(bw)

HighPass(bw) ==
    (IF Hp2(bw) THEN FILT_HP_BW2 ELSE 0) + (IF Hp1(bw) THEN FILT_HP_BW1 ELSE 0)

RealBw(bw) == HighPass(bw) + IF_LOW_PASS_BW_TABLE[FindIfLpfIdx(Residual(bw))]

(* Mutant: the register values of the 7 MHz and 6 MHz filters swapped.     *)
WideSettingSwapped(bw) ==
    CASE bw > 7000000 -> [reg0a |-> 16, reg0b |-> 11,  intFreq |-> 4570000, filter |-> 8000000]
      [] bw > 6000000 /\ bw <= 7000000
                      -> [reg0a |-> 16, reg0b |-> 107, intFreq |-> 3570000, filter |-> 6000000]
      [] OTHER        -> [reg0a |-> 16, reg0b |-> 42,  intFreq |-> 4570000, filter |-> 7000000]

(* The settings: reg0a and reg0b are the values for registers 0x0a and     *)
(* 0x0b, filter is the bandwidth they select.                              *)
WideSetting(bw) ==
    CASE bw > 7000000 -> [reg0a |-> 16, reg0b |-> 11,  intFreq |-> 4570000, filter |-> 8000000]
      [] bw > 6000000 /\ bw <= 7000000
                      -> [reg0a |-> 16, reg0b |-> 42,  intFreq |-> 4570000, filter |-> 7000000]
      [] OTHER        -> [reg0a |-> 16, reg0b |-> 107, intFreq |-> 3570000, filter |-> 6000000]

(* Mutant: the centre is computed before the high-pass corners are added.  *)
NarrowSettingUncentred(bw) ==
    [reg0a   |-> 0,
     reg0b   |-> 128 + (IF Hp2(bw) THEN 0 ELSE 32) + (IF Hp1(bw) THEN 0 ELSE 64)
                     + (16 - FindIfLpfIdx(Residual(bw))),
     intFreq |-> 2300000 - RealBw(bw) \div 2,
     filter  |-> RealBw(bw)]

NarrowSetting(bw) ==
    [reg0a   |-> 0,
     reg0b   |-> 128 + (IF Hp2(bw) THEN 0 ELSE 32) + (IF Hp1(bw) THEN 0 ELSE 64)
                     + (16 - FindIfLpfIdx(Residual(bw))),
     intFreq |-> 2300000 + HighPass(bw) - RealBw(bw) \div 2,
     filter  |-> RealBw(bw)]

Setting(bw) ==
    IF bw > Widest + FILT_HP_BW1 + FILT_HP_BW2 THEN WideSetting(bw) ELSE NarrowSetting(bw)
===========================================================================
