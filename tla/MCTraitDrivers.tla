-------------------------- MODULE MCTraitDrivers --------------------------
(* One dongle of each kind, and what its tuner is asked for: frequencies   *)
(* on both sides of a band's limit, on one (FC0013 at 55.625 MHz, E4000 at *)
(* 350 MHz), and refused ones.                                             *)
EXTENDS TraitDrivers

MCFreqs ==
    [FC0012 |-> {37083, 593334, 1609000}, FC0013 |-> {55624, 55625, 300000}, E4000 |-> {350000, 1575000},
     FC2580 |-> {100000, 600000, 1500000, 4290000}]
MCBandwidths ==
    [FC0012 |-> {7000, 8000}, FC0013 |-> {7000}, E4000 |-> {2400}, FC2580 |-> {1530, 6000}]
MCGains == [FC0012 |-> {-99, 185}, FC0013 |-> {-63, 400}, E4000 |-> {340, 420}, FC2580 |-> {0}]
MCStageGains == {<<1, -30>>, <<3, 90>>, <<0, 30>>}
MCXtals ==
    [FC0012 |-> {28800, 140000}, FC0013 |-> {28800}, E4000 |-> {28800}, FC2580 |-> {16384}]
===========================================================================
