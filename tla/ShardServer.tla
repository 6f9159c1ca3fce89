---------------------------- MODULE ShardServer ----------------------------
(***************************************************************************)
(* The shard servers (src/shardserver/server.py).  A server holds shards   *)
(* it serves or used to serve (local), and copies it has received and may  *)
(* not serve before they are activated (pending).  Both survive a crash:   *)
(* Process.crash only stops the node from sending and receiving.           *)
(***************************************************************************)
EXTENDS ShardTypes, Net

VARIABLES
    local,     \* shards, per server
    pending,   \* pending_incoming, per server
    lastPut    \* history: the value of the last client_put_ok of a shard

serverVars == <<local, pending, lastPut>>

ServerTypeOK ==
    /\ local \in [Servers -> [Shards -> LocalRecord]]
    /\ pending \in [Servers -> [Shards -> PendingRecord]]
    /\ lastPut \in [Shards -> Values]

Held(n, s)       == local[n][s] # Absent
HasPending(n, s) == pending[n][s] # NoCopy

(***************************************************************************)
(* The shard and the copy a message is about, at the server it reaches.    *)
(***************************************************************************)
LocalOf(m)   == local[m.dst][m.shard]
PendingOf(m) == pending[m.dst][m.shard]

SetLocal(m, shard)  == local' = [local EXCEPT ![m.dst][m.shard] = shard]
SetPending(m, copy) == pending' = [pending EXCEPT ![m.dst][m.shard] = copy]

Ack(type, m) == [type |-> type, src |-> m.dst, dst |-> Coord, shard |-> m.shard,
                 epoch |-> m.epoch, attempt |-> m.attempt]

Ignore(m) == Receive(m, {}) /\ UNCHANGED serverVars

-----------------------------------------------------------------------------
(***************************************************************************)
(* _handle_client_request.  A request is served only by a STABLE shard, at *)
(* the epoch the client names; every other answer changes no shard.        *)
(***************************************************************************)
ServesAnyState(n, s, e) == Held(n, s) /\ local[n][s].epoch = e  \* faulty variant

Serves(n, s, e) == /\ Held(n, s)
                   /\ local[n][s].epoch = e
                   /\ local[n][s].state = "STABLE"

ClientPut(n, s, e, v) ==
    /\ Serves(n, s, e)
    /\ local' = [local EXCEPT ![n][s].data = v]
    /\ lastPut' = [lastPut EXCEPT ![s] = v]
    /\ UNCHANGED <<pending, net>>

-----------------------------------------------------------------------------
(***************************************************************************)
(* _handle_freeze_shard                                                    *)
(***************************************************************************)
FreezeEnters(m) == /\ LocalOf(m).state = "STABLE"
                   /\ LocalOf(m).epoch = m.epoch

FreezeRepeated(m) == /\ LocalOf(m).state = "FREEZE"
                     /\ LocalOf(m).epoch = m.epoch
                     /\ LocalOf(m).attempt = m.attempt

HandleFreezeShard(m) ==
    /\ m.type = "FreezeShard"
    /\ \/ /\ FreezeEnters(m)
          /\ SetLocal(m, [LocalOf(m) EXCEPT !.state = "FREEZE",
                                            !.attempt = m.attempt])
          /\ Receive(m, {Ack("FreezeAck", m)})
          /\ UNCHANGED <<pending, lastPut>>
       \/ /\ FreezeRepeated(m)
          /\ Receive(m, {Ack("FreezeAck", m)})
          /\ UNCHANGED serverVars
       \/ /\ ~FreezeEnters(m) /\ ~FreezeRepeated(m)
          /\ Ignore(m)

(***************************************************************************)
(* _handle_begin_transfer and transfer_out.  A BeginTransfer that finds    *)
(* the shard in TRANSFER is a duplicate and sends nothing.                 *)
(***************************************************************************)
TransferStarts(m) == /\ LocalOf(m).state = "FREEZE"
                     /\ LocalOf(m).epoch = m.epoch
                     /\ LocalOf(m).attempt = m.attempt

TransferOut(m) == [type    |-> "TransferShard", src |-> m.dst, dst |-> m.target,
                   shard   |-> m.shard,
                   epoch   |-> LocalOf(m).epoch,
                   attempt |-> m.attempt,
                   data    |-> LocalOf(m).data]

HandleBeginTransfer(m) ==
    /\ m.type = "BeginTransfer"
    /\ \/ /\ TransferStarts(m)
          /\ SetLocal(m, [LocalOf(m) EXCEPT !.state = "TRANSFER"])
          /\ Receive(m, {TransferOut(m)})
          /\ UNCHANGED <<pending, lastPut>>
       \/ /\ ~TransferStarts(m)
          /\ Ignore(m)

(***************************************************************************)
(* _handle_transfer_shard.  The received copy waits for its activation.    *)
(***************************************************************************)
LocalExists(m) == Held(m.dst, m.shard)  \* faulty variant

LocalIsNewer(m) == /\ Held(m.dst, m.shard)
                   /\ LocalOf(m).epoch >= m.epoch

PendingBlocks(m) == /\ HasPending(m.dst, m.shard)
                    /\ PendingOf(m).epoch >= m.epoch

TransferRepeated(m) == /\ PendingOf(m).epoch = m.epoch
                       /\ PendingOf(m).attempt = m.attempt
                       /\ PendingOf(m).source = m.src
                       /\ PendingOf(m).data = m.data

HandleTransferShard(m) ==
    /\ m.type = "TransferShard"
    /\ \/ /\ ~LocalIsNewer(m) /\ ~PendingBlocks(m)
          /\ SetPending(m, [epoch |-> m.epoch, attempt |-> m.attempt,
                            data |-> m.data, source |-> m.src])
          /\ Receive(m, {Ack("TransferAck", m)})
          /\ UNCHANGED <<local, lastPut>>
       \/ /\ ~LocalIsNewer(m) /\ TransferRepeated(m)
          /\ Receive(m, {Ack("TransferAck", m)})
          /\ UNCHANGED serverVars
       \/ /\ LocalIsNewer(m) \/ (PendingBlocks(m) /\ ~TransferRepeated(m))
          /\ Ignore(m)

(***************************************************************************)
(* _handle_activate_shard                                                  *)
(***************************************************************************)
ActivateAccepted(m) == /\ HasPending(m.dst, m.shard)
                       /\ PendingOf(m).attempt = m.attempt
                       /\ m.epoch > PendingOf(m).epoch

HandleActivateShard(m) ==
    /\ m.type = "ActivateShard"
    /\ \/ /\ ActivateAccepted(m)
          /\ SetLocal(m, [epoch |-> m.epoch, state |-> "STABLE",
                          data |-> PendingOf(m).data, attempt |-> NoAttempt])
          /\ SetPending(m, NoCopy)
          /\ Receive(m, {})
          /\ UNCHANGED lastPut
       \/ /\ ~ActivateAccepted(m)
          /\ Ignore(m)

(***************************************************************************)
(* _handle_cleanup_shard                                                   *)
(***************************************************************************)
CleanupAnyAttempt(m) == Held(m.dst, m.shard)  \* faulty variant

CleanupAccepted(m) == /\ Held(m.dst, m.shard)
                      /\ m.epoch > LocalOf(m).epoch
                      /\ LocalOf(m).attempt = m.attempt

HandleCleanupShard(m) ==
    /\ m.type = "CleanupShard"
    /\ \/ /\ CleanupAccepted(m)
          /\ SetLocal(m, Absent)
          /\ Receive(m, {})
          /\ UNCHANGED <<pending, lastPut>>
       \/ /\ ~CleanupAccepted(m)
          /\ Ignore(m)

(***************************************************************************)
(* _handle_abort_reconfiguration: roll the local shard back to STABLE at   *)
(* the epoch of the message, whatever that epoch is, and drop a received   *)
(* copy.  The two decisions are independent.                               *)
(***************************************************************************)
\* faulty variants: a guard is missing
RollsBackAnyAttempt(m) == Held(m.dst, m.shard)
RollsBackAbsent(m) == \/ m.resync
                      \/ LocalOf(m).attempt = NoAttempt
                      \/ LocalOf(m).attempt = m.attempt

RollsBack(m) == /\ Held(m.dst, m.shard)
                /\ \/ m.resync
                   \/ LocalOf(m).attempt = NoAttempt
                   \/ LocalOf(m).attempt = m.attempt

ClearsPending(m) == /\ HasPending(m.dst, m.shard)
                    /\ m.resync \/ PendingOf(m).attempt = m.attempt

HandleAbortReconfiguration(m) ==
    /\ m.type = "AbortReconfiguration"
    /\ IF RollsBack(m)
       THEN SetLocal(m, [LocalOf(m) EXCEPT !.epoch = m.epoch,
                                           !.state = "STABLE",
                                           !.attempt = NoAttempt])
       ELSE UNCHANGED local
    /\ IF ClearsPending(m)
       THEN SetPending(m, NoCopy)
       ELSE UNCHANGED pending
    /\ Receive(m, {})
    /\ UNCHANGED lastPut

(***************************************************************************)
(* on_message                                                              *)
(***************************************************************************)
ServerOnMessage(m) == \/ HandleFreezeShard(m)
                      \/ HandleBeginTransfer(m)
                      \/ HandleTransferShard(m)
                      \/ HandleActivateShard(m)
                      \/ HandleCleanupShard(m)
                      \/ HandleAbortReconfiguration(m)
=============================================================================
