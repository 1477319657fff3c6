---------------------------- MODULE MCDongleBus ----------------------------
(* Two dongles with the serial they left the factory with, a Blog V4 with  *)
(* a transfer that fails and an FC0012. Their EEPROMs can be written to    *)
(* tell them apart. The bias tee is on the pin of the Blog V4's            *)
(* upconverter.                                                            *)
EXTENDS DongleBus

MCRoms == [d \in Dongles |-> [a \in 0..2 |-> 1]]
MCTuner == [d \in Dongles |-> IF d = "a" THEN "BlogV4" ELSE "FC0012"]
MCSerials == {<<>>, <<1, 1>>, <<2, 2>>, <<2, 1>>}
MCImages == {[offset |-> 1, data |-> <<2, 2>>], [offset |-> 2, data |-> <<1, 1>>]}
MCFaults == [d \in Dongles |-> IF d = "a" THEN 1 ELSE 0]
===========================================================================
