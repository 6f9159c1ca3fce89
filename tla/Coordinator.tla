---------------------------- MODULE Coordinator ----------------------------
(***************************************************************************)
(* The coordinator (src/metadata/coordinator.py over metadata/store.py):   *)
(* the only writer of the shard metadata.  It drives one reassignment per  *)
(* shard at a time through FREEZE and TRANSFER, retries the request of a   *)
(* phase when the timer of the phase fires, and gives up by aborting.      *)
(*                                                                         *)
(* A timer is abstract here: while a shard is in a phase with a configured *)
(* timeout, the timer of that phase may fire.  The callbacks and the       *)
(* tokens that make the stale ones harmless are in PhaseTimers.            *)
(***************************************************************************)
EXTENDS ShardTypes, Net, Sequences

VARIABLES
    meta,      \* store.shards: the metadata of every shard
    retries,   \* _phase_retry_counts of the shard's current phase
    attempts   \* event_log, reduced to the reassign_* records: the k-th
               \* element describes the reassignment with attempt id k

coordVars == <<meta, retries, attempts>>

AttemptRecord == [shard   : Shards,
                  from    : Servers,
                  to      : Servers,
                  epoch   : Nat,
                  outcome : {"pending", "complete", "abort"}]

CoordTypeOK ==
    /\ meta \in [Shards -> MetaRecord]
    /\ retries \in [Shards -> 0..MaxRetries]
    /\ attempts \in Seq(AttemptRecord)
    /\ Len(attempts) <= MaxAttempts

(***************************************************************************)
(* init_shard, for every shard: the harness picks the owners.              *)
(***************************************************************************)
InitialEpoch == 1

CoordInit ==
    /\ \E owner \in [Shards -> Servers] :
          meta = [s \in Shards |-> [owner   |-> owner[s],
                                    epoch   |-> InitialEpoch,
                                    state   |-> "STABLE",
                                    target  |-> NoNode,
                                    attempt |-> NoAttempt]]
    /\ retries = [s \in Shards |-> 0]
    /\ attempts = <<>>

NextAttempt == Len(attempts) + 1

-----------------------------------------------------------------------------
(* The messages the coordinator sends. *)

Control(type, n, s, e, a) ==
    [type |-> type, src |-> Coord, dst |-> n,
     shard |-> s, epoch |-> e, attempt |-> a]

Freeze(n, s, e, a)   == Control("FreezeShard", n, s, e, a)
Activate(n, s, e, a) == Control("ActivateShard", n, s, e, a)
Cleanup(n, s, e, a)  == Control("CleanupShard", n, s, e, a)

Begin(n, s, e, new, a) ==
    [type |-> "BeginTransfer", src |-> Coord, dst |-> n,
     shard |-> s, epoch |-> e, target |-> new, attempt |-> a]

Abort(n, s, e, a, resync) ==
    [type |-> "AbortReconfiguration", src |-> Coord, dst |-> n,
     shard |-> s, epoch |-> e, attempt |-> a, resync |-> resync]

-----------------------------------------------------------------------------
(***************************************************************************)
(* reassign(s, new).  A call for a shard that is being reassigned, or to   *)
(* its owner, raises ValueError and changes nothing.  The retry count of a *)
(* new attempt starts from nothing because its key holds the attempt id.   *)
(***************************************************************************)
ReassignAllowedInPhase(s, new) == meta[s].owner # new  \* faulty variant

ReassignAllowed(s, new) == /\ meta[s].state = "STABLE"
                           /\ meta[s].owner # new

Reassign(s, new) ==
    /\ NextAttempt <= MaxAttempts
    /\ ReassignAllowed(s, new)
    /\ meta' = [meta EXCEPT ![s].state   = "FREEZE",
                            ![s].target  = new,
                            ![s].attempt = NextAttempt]
    /\ retries' = [retries EXCEPT ![s] = 0]
    /\ attempts' = Append(attempts, [shard   |-> s,
                                     from    |-> meta[s].owner,
                                     to      |-> new,
                                     epoch   |-> meta[s].epoch,
                                     outcome |-> "pending"])
    /\ Send({Freeze(meta[s].owner, s, meta[s].epoch, NextAttempt)})

(***************************************************************************)
(* _handle_freeze_ack                                                      *)
(***************************************************************************)
FreezeAckAnyAttempt(m) == LET shard == meta[m.shard] IN  \* faulty variant
    shard.state = "FREEZE" /\ m.src = shard.owner

FreezeAckAccepted(m) == LET shard == meta[m.shard] IN
    /\ shard.state = "FREEZE"
    /\ m.src = shard.owner
    /\ m.epoch = shard.epoch
    /\ m.attempt = shard.attempt

HandleFreezeAck(m) == LET shard == meta[m.shard] IN
    /\ m.type = "FreezeAck"
    /\ \/ /\ FreezeAckAccepted(m)
          /\ meta' = [meta EXCEPT ![m.shard].state = "TRANSFER"]
          /\ retries' = [retries EXCEPT ![m.shard] = 0]
          /\ Receive(m, {Begin(shard.owner, m.shard, shard.epoch,
                               shard.target, shard.attempt)})
       \/ /\ ~FreezeAckAccepted(m)
          /\ Receive(m, {})
          /\ UNCHANGED <<meta, retries>>
    /\ UNCHANGED attempts

(***************************************************************************)
(* _handle_transfer_ack: the commit point.  ACTIVATE and CLEANUP are left  *)
(* before the handler returns.                                             *)
(***************************************************************************)
TransferAckAnyAttempt(m) == LET shard == meta[m.shard] IN  \* faulty variant
    shard.state = "TRANSFER" /\ m.src = shard.target

TransferAckAccepted(m) == LET shard == meta[m.shard] IN
    /\ shard.state = "TRANSFER"
    /\ m.src = shard.target
    /\ m.epoch = shard.epoch
    /\ m.attempt = shard.attempt

CommitMessages(s) == LET shard == meta[s] IN
    {Activate(shard.target, s, shard.epoch + 1, shard.attempt),
     Cleanup(shard.owner, s, shard.epoch + 1, shard.attempt)}

\* faulty variants: an assignment of the commit is missing
CommittedOldOwner(shard) == [owner |-> shard.owner, epoch |-> shard.epoch + 1,
                             state |-> "STABLE", target |-> NoNode,
                             attempt |-> NoAttempt]
CommittedOldEpoch(shard) == [owner |-> shard.target, epoch |-> shard.epoch,
                             state |-> "STABLE", target |-> NoNode,
                             attempt |-> NoAttempt]
CommittedInPhase(shard)  == [shard EXCEPT !.owner = shard.target, !.epoch = @ + 1]

Committed(shard) == [owner   |-> shard.target,
                     epoch   |-> shard.epoch + 1,
                     state   |-> "STABLE",
                     target  |-> NoNode,
                     attempt |-> NoAttempt]

HandleTransferAck(m) ==
    /\ m.type = "TransferAck"
    /\ \/ /\ TransferAckAccepted(m)
          /\ meta' = [meta EXCEPT ![m.shard] = Committed(@)]
          /\ retries' = [retries EXCEPT ![m.shard] = 0]
          /\ attempts' = [attempts EXCEPT
                            ![meta[m.shard].attempt].outcome = "complete"]
          /\ Receive(m, CommitMessages(m.shard))
       \/ /\ ~TransferAckAccepted(m)
          /\ Receive(m, {})
          /\ UNCHANGED coordVars

-----------------------------------------------------------------------------
(***************************************************************************)
(* _abort_reconfiguration, for each of the shards of S that is in a        *)
(* reassignment: the owner keeps the shard at a new epoch.                 *)
(***************************************************************************)
\* faulty variants: an assignment of the abort is missing
AbortedOldEpoch(shard)   == [owner |-> shard.owner, epoch |-> shard.epoch,
                             state |-> "STABLE", target |-> NoNode,
                             attempt |-> NoAttempt]
AbortedKeepTarget(shard) == [shard EXCEPT !.epoch = @ + 1, !.state = "STABLE"]

Aborted(shard) == [owner   |-> shard.owner,
                   epoch   |-> shard.epoch + 1,
                   state   |-> "STABLE",
                   target  |-> NoNode,
                   attempt |-> NoAttempt]

AbortMessages(s) == LET shard == meta[s] IN
    {Abort(n, s, shard.epoch + 1, shard.attempt, FALSE) :
        n \in {shard.owner, shard.target}}

AbortReconfigurations(S) ==
    /\ meta' = [s \in Shards |-> IF s \in S THEN Aborted(meta[s]) ELSE meta[s]]
    /\ retries' = [s \in Shards |-> IF s \in S THEN 0 ELSE retries[s]]
    /\ attempts' = [a \in DOMAIN attempts |->
                      IF \E s \in S : meta[s].attempt = a
                      THEN [attempts[a] EXCEPT !.outcome = "abort"]
                      ELSE attempts[a]]
    /\ Send(UNION {AbortMessages(s) : s \in S})

(***************************************************************************)
(* _on_phase_timeout: the timer of the current phase of s fires.  It       *)
(* repeats the request of the phase (_retry_phase_action) or, when the     *)
(* retries are used up, aborts.                                            *)
(***************************************************************************)
TimerRunningOnce(s) == meta[s].state \in TimedPhases \cap {"FREEZE"}  \* faulty variant

TimerRunning(s) == meta[s].state \in TimedPhases

RetriesExhausted(s) == retries[s] >= MaxRetries

RetryMessage(s) == LET shard == meta[s] IN
    IF shard.state = "FREEZE"
    THEN Freeze(shard.owner, s, shard.epoch, shard.attempt)
    ELSE Begin(shard.owner, s, shard.epoch, shard.target, shard.attempt)

RepeatRequest(s) ==
    /\ retries' = [retries EXCEPT ![s] = @ + 1]
    /\ Send({RetryMessage(s)})
    /\ UNCHANGED <<meta, attempts>>

RetryPhase(s) ==
    /\ TimerRunning(s)
    /\ ~RetriesExhausted(s)
    /\ RepeatRequest(s)

AbortAfterTimeouts(s) ==
    /\ TimerRunning(s)
    /\ RetriesExhausted(s)
    /\ AbortReconfigurations({s})

PhaseTimeout(s) == RetryPhase(s) \/ AbortAfterTimeouts(s)

(***************************************************************************)
(* on_node_crash aborts every reassignment n takes part in.                *)
(***************************************************************************)
Participates(n, s) == n \in {meta[s].owner, meta[s].target}

OnNodeCrash(n) ==
    AbortReconfigurations({s \in Shards : /\ meta[s].state # "STABLE"
                                          /\ Participates(n, s)})

(***************************************************************************)
(* on_node_recover sends n the epoch of every shard it owns or is to       *)
(* receive, as an abort with the reason resync_on_recover, also while a    *)
(* reassignment is under way.                                              *)
(***************************************************************************)
OnNodeRecover(n) ==
    /\ Send({Abort(n, s, meta[s].epoch, meta[s].attempt, TRUE) :
                s \in {t \in Shards : Participates(n, t)}})
    /\ UNCHANGED coordVars
=============================================================================
