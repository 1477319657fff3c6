--------------------------- MODULE R82xxBandwidth ---------------------------
(***************************************************************************)
(* The bandwidth state of the R82xx driver under calls of set_bw: the      *)
(* selected filter and the intermediate frequency it returns to the        *)
(* device. Every request a caller can make is an u32; Requests is the set  *)
(* of those a run tries.                                                   *)
(***************************************************************************)
EXTENDS R82xxFilter

CONSTANT Requests

ASSUME RequestsAssumption == Requests \subseteq 0..I32_MAX

VARIABLES
    request,       \* the bandwidth last asked for
    setting        \* the registers and int_freq of the driver

bwVars == <<request, setting>>

Init == request = 0 /\ setting = [reg0a |-> 16, reg0b |-> 107, intFreq |-> 3570000, filter |-> 6000000]

SetBw ==
    \E bw \in Requests : request' = bw /\ setting' = Setting(bw)

Spec == Init /\ [][SetBw]_bwVars

---------------------------------------------------------------------------
(* The low-pass and high-pass corners of the selected filter, as the chip  *)
(* sees them: bits 0-3 of 0x0b choose the low-pass, bits 5 and 6 close the *)
(* high-pass corners.                                                      *)
BitSet(n, b) == (n \div b) % 2 = 1

Narrow == setting.reg0a = 0

(* The upper band edge moves up by what the opened high-pass corners add.  *)
Opened ==
    (IF BitSet(setting.reg0b, 32) THEN 0 ELSE FILT_HP_BW2)
    + (IF BitSet(setting.reg0b, 64) THEN 0 ELSE FILT_HP_BW1)

(* The selected filter lets the whole requested band through (up to the    *)
(* widest, 8 MHz), and the register that selects it says the same.         *)
FilterEncompasses ==
    /\ request <= 8000000 => setting.filter >= request
    /\ Narrow =>
           setting.filter = IF_LOW_PASS_BW_TABLE[16 - (setting.reg0b % 16)] + Opened

(* No narrower low-pass would do with the same high-pass corners, at either*)
(* end of the table too ("the narrowest entry that still encompasses").    *)
FilterIsNarrowest ==
    Narrow /\ request > 0 =>
        \A i \in 1..10 : IF_LOW_PASS_BW_TABLE[i] + Opened >= request
                            => setting.filter <= IF_LOW_PASS_BW_TABLE[i] + Opened

(* A wider request does not select a narrower filter, across the points    *)
(* where a high-pass corner opens and the low-pass shrinks to make up.     *)
WiderIsNotNarrower ==
    request > 0 => \A bw \in Requests : request <= bw => setting.filter <= Setting(bw).filter

(* The filter fits the request, over every boundary of the table and of    *)
(* the high-pass corners.                                                  *)
FilterFits == FilterEncompasses /\ FilterIsNarrowest /\ WiderIsNotNarrower

(* The passband around int_freq ends where the opened high-pass corners    *)
(* put its upper edge (2.3 MHz with both closed) and stays above 0 Hz.     *)
CentredInFilter ==
    Narrow =>
        /\ setting.intFreq + setting.filter \div 2 = 2300000 + Opened
        /\ setting.intFreq > setting.filter \div 2
===========================================================================
