------------------------ MODULE OwnershipRefinement ------------------------
(***************************************************************************)
(* The transfer protocol implements Ownership.  The register of a shard is *)
(* the live copy at its owner or, between the commit of an attempt and its *)
(* activation, the copy that the new owner has received.                   *)
(***************************************************************************)
EXTENDS ShardTransferInv

OwnerOf(s) == meta[s].owner

StoredData(s) == IF Live(OwnerOf(s), s) THEN local[OwnerOf(s)][s].data
                                        ELSE pending[OwnerOf(s)][s].data

Owners   == [s \in Shards |-> OwnerOf(s)]
Serve    == [s \in Shards |-> {n \in Servers : Serving(n, s)}]
Contents == [s \in Shards |-> StoredData(s)]

Owned == INSTANCE Ownership
            WITH owner <- Owners, serving <- Serve, contents <- Contents

(* A client cannot tell the protocol from a register with an owner: every  *)
(* step suspends, moves, resumes or writes one shard, or is not visible,   *)
(* and a reassignment never changes the contents it moves, in whatever     *)
(* order its messages arrive.                                              *)
ImplementsOwnership == Owned!Spec
=============================================================================
