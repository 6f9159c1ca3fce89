--------------------------- MODULE ShardTransfer ---------------------------
(***************************************************************************)
(* The shard-transfer protocol: the coordinator, the shard servers, the    *)
(* network between them, the crashes and recoveries the harness injects    *)
(* (src/sim/harness.py), and the writes of clients.  The coordinator never *)
(* crashes.  An event of the simulation, which runs one callback to its    *)
(* end, is one step.                                                       *)
(***************************************************************************)
EXTENDS Coordinator, ShardServer

ASSUME LinksAssumption == LossyLinks \cup DupLinks \subseteq Links

VARIABLES
    alive,       \* Process.alive of the servers
    recoveries   \* recover_node events so far, for the bound MaxRecoveries

vars == <<net, coordVars, serverVars, alive, recoveries>>

TypeOK ==
    /\ IsABag(net) /\ DOMAIN net \subseteq Message
    /\ CoordTypeOK
    /\ ServerTypeOK
    /\ alive \in [Servers -> BOOLEAN]
    /\ recoveries \in 0..MaxRecoveries

(***************************************************************************)
(* Every shard starts STABLE, at the same epoch, in the metadata and at    *)
(* its owner (Coordinator.init_shard and ShardServer.init_shard).          *)
(***************************************************************************)
Init ==
    /\ NetInit
    /\ CoordInit
    /\ lastPut \in [Shards -> Values]
    /\ local = [n \in Servers |-> [s \in Shards |->
                  IF meta[s].owner = n
                  THEN [epoch |-> InitialEpoch, state |-> "STABLE",
                        data |-> lastPut[s], attempt |-> NoAttempt]
                  ELSE Absent]]
    /\ pending = [n \in Servers |-> [s \in Shards |-> NoCopy]]
    /\ alive = [n \in Servers |-> TRUE]
    /\ recoveries = 0

-----------------------------------------------------------------------------
(***************************************************************************)
(* The delivery callback of Network: a crashed node loses the message.     *)
(***************************************************************************)
DeliverToCoordinator(m) ==
    /\ m.dst = Coord
    /\ HandleFreezeAck(m) \/ HandleTransferAck(m)
    /\ UNCHANGED <<serverVars, alive, recoveries>>

DeliverToServer(m) ==
    /\ m.dst \in Servers
    /\ alive[m.dst]
    /\ ServerOnMessage(m)
    /\ UNCHANGED <<coordVars, alive, recoveries>>

DeliverToDeadNode(m) ==
    /\ m.dst \in Servers
    /\ ~alive[m.dst]
    /\ Receive(m, {})
    /\ UNCHANGED <<coordVars, serverVars, alive, recoveries>>

Deliver(m) == \/ DeliverToCoordinator(m)
              \/ DeliverToServer(m)
              \/ DeliverToDeadNode(m)

Delivery == \E m \in DOMAIN net : Deliver(m)

StartReassign(s, new) ==
    /\ Reassign(s, new)
    /\ UNCHANGED <<serverVars, alive, recoveries>>

TimerFires(s) ==
    /\ PhaseTimeout(s)
    /\ UNCHANGED <<serverVars, alive, recoveries>>

(***************************************************************************)
(* Harness.crash_node and recover_node tell the coordinator in the same    *)
(* event.                                                                  *)
(***************************************************************************)
CrashNode(n) ==
    /\ alive' = [alive EXCEPT ![n] = FALSE]
    /\ OnNodeCrash(n)
    /\ UNCHANGED <<serverVars, recoveries>>

RecoverNode(n) ==
    /\ recoveries < MaxRecoveries
    /\ recoveries' = recoveries + 1
    /\ alive' = [alive EXCEPT ![n] = TRUE]
    /\ OnNodeRecover(n)
    /\ UNCHANGED serverVars

(***************************************************************************)
(* A request may reach any server with any epoch: clients keep their route *)
(* and their epoch until they are told otherwise.                          *)
(***************************************************************************)
ClientWrite(n, s, e, v) ==
    /\ alive[n]
    /\ ClientPut(n, s, e, v)
    /\ UNCHANGED <<coordVars, alive, recoveries>>

RequestEpochs == 0..(InitialEpoch + MaxAttempts)

Next ==
    \/ Delivery
    \/ \E s \in Shards : TimerFires(s) \/ \E new \in Servers : StartReassign(s, new)
    \/ \E n \in CrashNodes : CrashNode(n) \/ RecoverNode(n)
    \/ \E n \in Servers, s \in Shards, e \in RequestEpochs, v \in Values :
          ClientWrite(n, s, e, v)

Spec == Init /\ [][Next]_vars

(***************************************************************************)
(* The event loop runs every callback that was scheduled, so a message in  *)
(* flight is delivered and a running timer fires or is cancelled.          *)
(***************************************************************************)
Fairness == /\ WF_vars(Delivery)
            /\ \A s \in Shards : WF_vars(TimerFires(s))

FairSpec == Spec /\ Fairness

-----------------------------------------------------------------------------
(* Safety of the transfer, on control links that do not duplicate and      *)
(* without recoveries.                                                     *)

Serving(n, s) == local[n][s].state = "STABLE"

(* S1, README "Safety": at most one server serves a shard at any time,     *)
(* whatever is lost, late or overtaken, and whichever timeout races with   *)
(* whichever acknowledgement.                                              *)
AtMostOneServing ==
    \A s \in Shards, n1, n2 \in Servers :
        Serving(n1, s) /\ Serving(n2, s) => n1 = n2

(* The ownership half of S3: only the server that the metadata names as    *)
(* owner serves a shard, although the metadata changes before either       *)
(* server knows.  The epoch half is not kept (OneServerPerEpoch).          *)
OnlyOwnerServes ==
    \A s \in Shards, n \in Servers : Serving(n, s) => meta[s].owner = n

(* S4, where the code keeps it: once the coordinator has accepted a        *)
(* FreezeAck, no server applies an operation until the attempt is decided, *)
(* also when late aborts and freezes of earlier attempts still arrive.     *)
NobodyServesInTransfer ==
    \A s \in Shards : meta[s].state = "TRANSFER" =>
        \A n \in Servers : ~Serving(n, s)

(* A GET answers with the value of the last acknowledged PUT: no PUT is    *)
(* applied to a copy that the transfer leaves behind.                      *)
ReadsSeeLastWrite ==
    \A s \in Shards, n \in Servers : Serving(n, s) => local[n][s].data = lastPut[s]

(* The last acknowledged PUT is never lost: some server still has it, in a *)
(* shard or in a received copy, also when an Activate is lost and while a  *)
(* Cleanup overtakes it.                                                   *)
LastWriteIsStored ==
    \A s \in Shards : \E n \in Servers :
        \/ Held(n, s) /\ local[n][s].data = lastPut[s]
        \/ HasPending(n, s) /\ pending[n][s].data = lastPut[s]

-----------------------------------------------------------------------------
(* The bookkeeping of the coordinator, under every fault.                  *)

AttemptsOf(s) == {a \in DOMAIN attempts : attempts[a].shard = s}
Decided(a)    == attempts[a].outcome # "pending"

(* An attempt is decided once: what a late acknowledgement completes, no   *)
(* timeout or crash report aborts, and the other way round.                *)
DecidedOnce ==
    [][\A a \in DOMAIN attempts : Decided(a) => attempts'[a] = attempts[a]]_vars

(* The servers are told what was decided: activations and cleanups are in  *)
(* flight only for completed attempts, aborts only for aborted ones.       *)
MessagesFollowDecision ==
    \A m \in DOMAIN net :
        /\ m.type \in {"ActivateShard", "CleanupShard"} =>
              attempts[m.attempt].outcome = "complete"
        /\ m.type = "AbortReconfiguration" /\ ~m.resync =>
              attempts[m.attempt].outcome = "abort"

(* An undecided attempt is the one the metadata of its shard names, and a  *)
(* shard that is not STABLE has one: none is forgotten half way.           *)
NoOrphanAttempt ==
    /\ \A a \in DOMAIN attempts : ~Decided(a) =>
          meta[attempts[a].shard].attempt = a
    /\ \A s \in Shards : meta[s].state # "STABLE" =>
          meta[s].attempt \in AttemptsOf(s) /\ ~Decided(meta[s].attempt)

(* S5: the epoch of a shard counts its decided attempts, completed and     *)
(* aborted, so each raises it by exactly one and no two share an epoch.    *)
(* design/07 and design/08 have it rise only at a commit; the code raises  *)
(* it at an abort too.                                                     *)
EpochCountsDecisions ==
    \A s \in Shards :
        meta[s].epoch = InitialEpoch + Cardinality({a \in AttemptsOf(s) : Decided(a)})

(* No server and no message is ahead of the metadata.                      *)
NothingAheadOfMetadata ==
    /\ \A n \in Servers, s \in Shards : /\ local[n][s].epoch <= meta[s].epoch
                                        /\ pending[n][s].epoch <= meta[s].epoch
    /\ \A m \in DOMAIN net : m.epoch <= meta[m.shard].epoch

(* A server comes to hold a shard only by the commit of an attempt towards *)
(* it, and then at the epoch of that commit, under every fault.            *)
HeldByCommit ==
    [][\A n \in Servers, s \in Shards : Held(n, s)' /\ ~Held(n, s) =>
          \E a \in AttemptsOf(s) : /\ attempts[a].outcome = "complete"
                                   /\ attempts[a].to = n
                                   /\ local'[n][s].epoch = attempts[a].epoch + 1]_vars

-----------------------------------------------------------------------------
(* Liveness. *)

(* L1: a reassignment that has started ends: with both timeouts configured,*)
(* retries are bounded and the abort needs nobody's answer.                *)
ReassignmentEnds ==
    \A s \in Shards : meta[s].state # "STABLE" ~> meta[s].state = "STABLE"

(* Without loss, crashes and timers, an attempt whose freeze request is    *)
(* still on its way while the owner serves the shard at the epoch of the   *)
(* attempt completes, and its target serves the shard at the next epoch,   *)
(* in whatever order the messages of the attempts arrive.                  *)
FreezeOnItsWay(a) == LET r == attempts[a] IN
    /\ ~Decided(a)
    /\ Freeze(r.from, r.shard, r.epoch, a) \in DOMAIN net
    /\ Serves(r.from, r.shard, r.epoch)

Completed(a) == LET r == attempts[a] IN
    /\ r.outcome = "complete"
    /\ Serves(r.to, r.shard, r.epoch + 1)

InSyncAttemptCompletes ==
    \A a \in AttemptIds :
        (a \in DOMAIN attempts /\ FreezeOnItsWay(a))
        ~> (a \in DOMAIN attempts /\ Completed(a))

-----------------------------------------------------------------------------
(* What the documents promise and the code does not do. *)

(* S1 and S3, "for any shard s and epoch e, at most one process" and       *)
(* "stale epochs are rejected"; README "Shard configurations never go      *)
(* backwards": no server serves at an epoch at which the source of a       *)
(* completed attempt served before it handed the shard over.               *)
OneServerPerEpoch ==
    \A s \in Shards, n \in Servers : Serving(n, s) =>
        \A a \in AttemptsOf(s) :
            attempts[a].outcome = "complete" /\ attempts[a].epoch = local[n][s].epoch
            => attempts[a].from = n
=============================================================================
