--------------------------- MODULE MCR82xxDriver ---------------------------
(* Every kind of chip; transfers fail on FaultyChips only, whose state     *)
(* space they multiply.                                                    *)
EXTENDS R82xxDriver

CONSTANT FaultyChips

\* 106.5 MHz puts the LO right on a boundary of FREQ_RANGES after init
MCFreqs == [c \in Chips |-> {106500, 434000} \cup IF c = "BlogV4" THEN {7000} ELSE {}]

\* 48 dB is a gain the device offers, 25 dB is not
MCGains == [c \in Chips |-> IF c \in FaultyChips THEN {250} ELSE {250, 480}]

MCMaxFaults == [c \in Chips |-> IF c \in FaultyChips THEN 1 ELSE 0]
===========================================================================
