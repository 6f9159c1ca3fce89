---------------------------- MODULE MCSimNetwork ----------------------------
(***************************************************************************)
(* Instances of SimNetwork for TLC: the configurations of links.           *)
(***************************************************************************)
EXTENDS SimNetwork

Defaults == [lossy |-> FALSE, delays |-> {1}, reorder |-> FALSE,
             duplicate |-> FALSE, dupDelay |-> 0, partition |-> {}]

(* Like the links of tests/test_network_layer.py: any order, some copies. *)
Shuffling == [Defaults EXCEPT !.delays = {1, 2}, !.reorder = TRUE,
                              !.duplicate = TRUE, !.dupDelay = 1]

(* A link that loses messages and is partitioned for one tick. *)
Failing == [Defaults EXCEPT !.lossy = TRUE, !.partition = {1}]

Configurations == {Shuffling, Failing}
=============================================================================
