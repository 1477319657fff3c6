--------------------------- MODULE MCR82xxBandwidth ---------------------------
(* Requests: a grid over the range of sample rates, and the values next to *)
(* every boundary of set_bw.                                               *)
EXTENDS R82xxBandwidth

CONSTANTS Step, Top

Boundaries ==
    {IF_LOW_PASS_BW_TABLE[i] + h : i \in 1..10,
                                   h \in {0, FILT_HP_BW1, FILT_HP_BW1 + FILT_HP_BW2, FILT_HP_BW2}}
    \cup {6000000, 7000000, 8000000}

MCRequests ==
    {Step * n : n \in 0..Top} \cup UNION {{b - 1, b, b + 1} : b \in Boundaries} \cup {I32_MAX}
===========================================================================
