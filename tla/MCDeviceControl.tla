-------------------------- MODULE MCDeviceControl --------------------------
(* An R828D on which a USB write fails, and an R820T on which none does    *)
(* but whose crystals are changed to one at the end of the range that      *)
(* set_xtal_freq allows.                                                   *)
EXTENDS DeviceControl

MCFaults == [c \in Chips |-> IF c = "R828D" THEN 1 ELSE 0]
MCXtals == [c \in Chips |-> IF c = "R820T" THEN {28799000} ELSE {}]
===========================================================================
