----------------------------- MODULE Ownership -----------------------------
(***************************************************************************)
(* What shard reassignment promises (README "Guarantees"), as a client     *)
(* would describe it: each shard is one register with an owner.  Either    *)
(* the owner serves it or nobody does; while nobody does, the register can *)
(* change hands but not its contents.                                      *)
(*                                                                         *)
(* Of the protocol only its effect is left: a freeze suspends the service, *)
(* a commit moves the shard, an activation or a rollback resumes it.       *)
(***************************************************************************)
CONSTANTS Servers, Shards, Values

VARIABLES
    owner,     \* the server each shard is assigned to
    serving,   \* the servers that serve it
    contents   \* what they serve

vars == <<owner, serving, contents>>

Init ==
    /\ owner \in [Shards -> Servers]
    /\ serving = [s \in Shards |-> {owner[s]}]
    /\ contents \in [Shards -> Values]

Put(s, v) ==
    /\ serving[s] # {}
    /\ contents' = [contents EXCEPT ![s] = v]
    /\ UNCHANGED <<owner, serving>>

Suspend(s) ==
    /\ serving[s] # {}
    /\ serving' = [serving EXCEPT ![s] = {}]
    /\ UNCHANGED <<owner, contents>>

Move(s, n) ==
    /\ serving[s] = {}
    /\ owner[s] # n
    /\ owner' = [owner EXCEPT ![s] = n]
    /\ UNCHANGED <<serving, contents>>

Resume(s) ==
    /\ serving[s] = {}
    /\ serving' = [serving EXCEPT ![s] = {owner[s]}]
    /\ UNCHANGED <<owner, contents>>

Next == \E s \in Shards : \/ Suspend(s)
                          \/ Resume(s)
                          \/ \E n \in Servers : Move(s, n)
                          \/ \E v \in Values : Put(s, v)

Spec == Init /\ [][Next]_vars
=============================================================================
