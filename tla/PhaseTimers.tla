---------------------------- MODULE PhaseTimers ----------------------------
(***************************************************************************)
(* The phase timers of the coordinator as it implements them, under the    *)
(* whole protocol.  A timer is a callback in the event loop that nothing   *)
(* can take back: to cancel or restart a timer is to raise the token of    *)
(* its key, and a callback that fires with an old token does nothing.      *)
(*                                                                         *)
(* The durations, and with them the backoff, decide only when a callback   *)
(* runs: here any scheduled callback may run at any time.  The variable    *)
(* retries of Coordinator is never read by an action of this module; it is *)
(* what retryCounts is shown to implement.                                 *)
(***************************************************************************)
EXTENDS ShardTransfer

VARIABLES
    tokens,       \* _phase_tokens; 0 stands for a missing key
    retryCounts,  \* _phase_retry_counts; 0 stands for a missing key
    callbacks     \* the on_timeout closures in the queue of the event loop

timerVars == <<tokens, retryCounts, callbacks>>

(***************************************************************************)
(* _phase_key.  The attempt id determines the shard.                       *)
(***************************************************************************)
Phases == {"FREEZE", "TRANSFER"}
Keys   == Phases \X AttemptIds

Callback == [shard : Shards, phase : TimedPhases, attempt : AttemptIds, token : Nat]

Key(c) == <<c.phase, c.attempt>>

TimersTypeOK ==
    /\ TypeOK
    /\ tokens \in [Keys -> Nat]
    /\ retryCounts \in [Keys -> 0..MaxRetries]
    /\ callbacks \subseteq Callback

TimersInit ==
    /\ Init
    /\ tokens = [k \in Keys |-> 0]
    /\ retryCounts = [k \in Keys |-> 0]
    /\ callbacks = {}

-----------------------------------------------------------------------------
(***************************************************************************)
(* _start_phase_timer, for a phase whose timeout is not None: the next     *)
(* token of the key, and a callback that carries it.                       *)
(***************************************************************************)
NewCallbackOldToken(s, phase, a) == [  \* faulty variant
    shard |-> s, phase |-> phase, attempt |-> a, token |-> tokens[<<phase, a>>]]

NewCallback(s, phase, a) == [shard |-> s, phase |-> phase, attempt |-> a,
                             token |-> tokens[<<phase, a>>] + 1]

Started(s, phase, a) == {NewCallback(s, p, a) : p \in {phase} \cap TimedPhases}

(***************************************************************************)
(* _cancel_phase_timer, for the keys in K.  A key that was never started   *)
(* is not touched.                                                         *)
(***************************************************************************)
CanceledNone(K) == {}  \* faulty variant

Canceled(K) == {k \in K : tokens[k] # 0}

(***************************************************************************)
(* A callback that runs leaves the queue, the timers of K are cancelled    *)
(* and those of N are started.                                             *)
(***************************************************************************)
UpdateTimers(ran, K, N) ==
    /\ tokens' = [k \in Keys |->
                    IF k \in Canceled(K) \cup {Key(c) : c \in N}
                    THEN tokens[k] + 1
                    ELSE tokens[k]]
    /\ retryCounts' = [k \in Keys |->
                         IF k \in Canceled(K) THEN 0 ELSE retryCounts[k]]
    /\ callbacks' = (callbacks \ ran) \cup N

KeysOf(S) == {k \in Keys : \E s \in S : k[2] = meta[s].attempt}

-----------------------------------------------------------------------------
(* The steps of the protocol that start or cancel timers. *)

TimedReassign(s, new) ==
    /\ StartReassign(s, new)
    /\ UpdateTimers({}, {}, Started(s, "FREEZE", NextAttempt))

TimedFreezeAck(m) ==
    /\ m.type = "FreezeAck"
    /\ FreezeAckAccepted(m)
    /\ DeliverToCoordinator(m)
    /\ UpdateTimers({}, {<<"FREEZE", m.attempt>>},
                    Started(m.shard, "TRANSFER", m.attempt))

TimedTransferAck(m) ==
    /\ m.type = "TransferAck"
    /\ TransferAckAccepted(m)
    /\ DeliverToCoordinator(m)
    /\ UpdateTimers({}, {<<"TRANSFER", m.attempt>>}, {})

TimedDelivery == \E m \in DOMAIN net :
    \/ TimedFreezeAck(m)
    \/ TimedTransferAck(m)
    \/ /\ ~(m.type = "FreezeAck" /\ FreezeAckAccepted(m))
       /\ ~(m.type = "TransferAck" /\ TransferAckAccepted(m))
       /\ Deliver(m)
       /\ UNCHANGED timerVars

TimedCrash(n) ==
    /\ CrashNode(n)
    /\ UpdateTimers({}, KeysOf({s \in Shards : /\ meta[s].state # "STABLE"
                                               /\ Participates(n, s)}), {})

(***************************************************************************)
(* _on_phase_timeout                                                       *)
(***************************************************************************)
Stale(c) == \/ tokens[Key(c)] # c.token
            \/ meta[c.shard].state # c.phase
            \/ meta[c.shard].attempt # c.attempt

StaleCallback(c) ==
    /\ Stale(c)
    /\ UpdateTimers({c}, {}, {})
    /\ UNCHANGED vars

ExhaustedLate(c) == retryCounts[Key(c)] > MaxRetries  \* faulty variant

Exhausted(c) == retryCounts[Key(c)] >= MaxRetries

(***************************************************************************)
(* _retry_phase_action: repeat the request and restart the timer, which    *)
(* keeps its retry count.                                                  *)
(***************************************************************************)
CountedFromNothing(c) == [retryCounts EXCEPT ![Key(c)] = 0]  \* faulty variant

Counted(c) == [retryCounts EXCEPT ![Key(c)] = @ + 1]

RetryCallback(c) ==
    /\ ~Stale(c)
    /\ ~Exhausted(c)
    /\ RepeatRequest(c.shard)
    /\ LET next == NewCallback(c.shard, c.phase, c.attempt) IN
       /\ tokens' = [tokens EXCEPT ![Key(c)] = next.token]
       /\ callbacks' = (callbacks \ {c}) \cup {next}
    /\ retryCounts' = Counted(c)
    /\ UNCHANGED <<serverVars, alive, recoveries>>

AbortCallback(c) ==
    /\ ~Stale(c)
    /\ Exhausted(c)
    /\ AbortReconfigurations({c.shard})
    /\ UpdateTimers({c}, KeysOf({c.shard}), {})
    /\ UNCHANGED <<serverVars, alive, recoveries>>

RunCallback(c) == StaleCallback(c) \/ RetryCallback(c) \/ AbortCallback(c)

RunTimerOf(s) == \E c \in callbacks : c.shard = s /\ RunCallback(c)

TimersNext ==
    \/ TimedDelivery
    \/ \E s \in Shards : RunTimerOf(s) \/ \E new \in Servers : TimedReassign(s, new)
    \/ \E n \in CrashNodes : \/ TimedCrash(n)
                             \/ RecoverNode(n) /\ UNCHANGED timerVars
    \/ \E n \in Servers, s \in Shards, e \in RequestEpochs, v \in Values :
          ClientWrite(n, s, e, v) /\ UNCHANGED timerVars

TimersSpec == TimersInit /\ [][TimersNext]_<<vars, timerVars>>

(***************************************************************************)
(* The event loop runs every message and every callback in its queue.      *)
(***************************************************************************)
TimersFairSpec ==
    /\ TimersSpec
    /\ WF_<<vars, timerVars>>(TimedDelivery)
    /\ \A s \in Shards : WF_<<vars, timerVars>>(RunTimerOf(s))

-----------------------------------------------------------------------------
Armed(s) == {c \in callbacks : c.shard = s /\ ~Stale(c)}

(* The tokens follow the metadata: a callback is cancelled exactly when    *)
(* its phase or its attempt is over.  No path leaves a phase and forgets   *)
(* its timer, and none disarms a timer that is still needed.               *)
TokensFollowPhases ==
    \A c \in callbacks :
        tokens[Key(c)] = c.token <=> /\ meta[c.shard].state = c.phase
                                     /\ meta[c.shard].attempt = c.attempt

(* While a shard is in a phase with a timeout, exactly one callback will   *)
(* act when it runs: a retry neither leaves the phase without a timer, so  *)
(* that it would hang, nor with two, so that it would give up early.       *)
OneTimerPerPhase ==
    \A s \in Shards : meta[s].state \in TimedPhases =>
        \E c \in Armed(s) : Armed(s) = {c}

(* The retry count of a phase starts from nothing and is kept by restarts, *)
(* although its key is only dropped by a cancellation.                     *)
RetriesAgree ==
    \A s \in Shards : meta[s].state \in TimedPhases =>
        retryCounts[<<meta[s].state, meta[s].attempt>>] = retries[s]

(* Callbacks and tokens implement the timers of Coordinator: a callback    *)
(* acts only for the current phase and attempt and within its retries, and *)
(* every phase with a timeout that goes on is eventually repeated or       *)
(* aborted.                                                                *)
ImplementsPhaseTimers == FairSpec
-----------------------------------------------------------------------------
(* The inductive invariant of the timers.  A callback knows its attempt,   *)
(* never has a token from the future, and never waits for a phase that its *)
(* attempt has not reached.                                                *)
CallbackInv ==
    \A c \in callbacks :
        /\ c.attempt \in AttemptsOf(c.shard)
        /\ c.token \in 1..tokens[Key(c)]
        /\ meta[c.shard].attempt = c.attempt /\ meta[c.shard].state = "FREEZE" =>
              c.phase = "FREEZE"

(* The callback that acts for a shard in a phase with a timeout.           *)
CurrentCallback(s) == LET shard == meta[s] IN
    [shard |-> s, phase |-> shard.state, attempt |-> shard.attempt,
     token |-> tokens[<<shard.state, shard.attempt>>]]

CountsInv ==
    \A p \in Phases, a \in AttemptIds : retryCounts[<<p, a>>] # 0 =>
        \E s \in Shards : /\ meta[s].state = p /\ p \in TimedPhases
                          /\ meta[s].attempt = a

TimerInv ==
    /\ CallbackInv
    /\ TokensFollowPhases
    /\ \A s \in Shards : meta[s].state \in TimedPhases =>
          CurrentCallback(s) \in callbacks
    /\ RetriesAgree
    /\ CountsInv
=============================================================================
