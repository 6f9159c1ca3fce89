-------------------------- MODULE MCShardTransfer --------------------------
(***************************************************************************)
(* Instances of ShardTransfer for TLC: the sets of unreliable links that   *)
(* the configurations choose from.                                         *)
(***************************************************************************)
EXTENDS OwnershipRefinement

NoLinks     == {}
AllLinks    == {l \in Links : l[1] # l[2]}
DataLinks   == {l \in AllLinks : l[1] # Coord}   \* what the servers send
ServerLinks == {l \in DataLinks : l[2] # Coord}  \* TransferShard only

(***************************************************************************)
(* Everything sent to one of the servers: the coordinator may repeat its   *)
(* requests to it, and the other servers their copies.                     *)
(***************************************************************************)
AServer        == CHOOSE n \in Servers : TRUE
LinksToAServer == {l \in AllLinks : l[2] = AServer}

Symmetry == Permutations(Servers) \cup Permutations(Values)
=============================================================================
