------------------------- MODULE BookkeepingProofs -------------------------
(***************************************************************************)
(* Type correctness of the shard-transfer protocol, and the bookkeeping of *)
(* the coordinator: CoordInv is inductive under every fault, and an        *)
(* attempt is decided once.                                                *)
(***************************************************************************)
EXTENDS ShardTransferInv, NetProofs, SequenceTheorems

-----------------------------------------------------------------------------
(* The log of attempts is a sequence of AttemptRecords. *)

(* Deciding attempts leaves the log a log of the same length. *)
LEMMA LogUpdate ==
  ASSUME CoordTypeOK, NEW log,
         DOMAIN log = DOMAIN attempts,
         \A a \in DOMAIN attempts : log[a] \in AttemptRecord,
         log = [a \in DOMAIN attempts |-> log[a]]
  PROVE  /\ log \in Seq(AttemptRecord)
         /\ Len(log) = Len(attempts)
  <1>1. /\ Len(attempts) \in Nat
        /\ DOMAIN attempts = 1..Len(attempts)
    BY DEF CoordTypeOK
  <1>2. log \in [1..Len(attempts) -> AttemptRecord]
    BY <1>1
  <1>. QED BY <1>1, <1>2

-----------------------------------------------------------------------------
(* Each of these steps leaves the part of the state it changes well typed.*)

(* A reassignment. *)
LEMMA ReassignType ==
  ASSUME TypeOK, NEW s \in Shards, NEW new \in Servers, Reassign(s, new)
  PROVE  CoordTypeOK' /\ IsABag(net') /\ DOMAIN net' \subseteq Message
  <1>. USE DEF TypeOK
  <1>1. /\ meta[s] \in StableRecord
        /\ NextAttempt \in AttemptIds
    BY BoundsAssumption
       DEF Reassign, ReassignAllowed, CoordTypeOK, MetaRecord, StableRecord,
           ReassignedRecord, NextAttempt, AttemptIds
  <1>2. meta' \in [Shards -> MetaRecord]
    BY <1>1 DEF Reassign, CoordTypeOK, MetaRecord, StableRecord, ReassignedRecord
  <1>3. retries' \in [Shards -> 0..MaxRetries]
    BY BoundsAssumption DEF Reassign, CoordTypeOK
  <1>4. attempts' \in Seq(AttemptRecord) /\ Len(attempts') <= MaxAttempts
    BY <1>1, BoundsAssumption
       DEF Reassign, CoordTypeOK, AttemptRecord, StableRecord, NextAttempt
  <1>5. Freeze(meta[s].owner, s, meta[s].epoch, NextAttempt) \in Message
    BY <1>1 DEF Freeze, Control, Message, ControlMsg, StableRecord
  <1>. QED
    BY <1>2, <1>3, <1>4, <1>5, SendAdds, SendBag DEF CoordTypeOK, Reassign

(* An abort of any set of shards that are in a reassignment. *)
LEMMA AbortType ==
  ASSUME TypeOK, NEW S \in SUBSET Shards,
         \A s \in S : meta[s].state # "STABLE",
         AbortReconfigurations(S)
  PROVE  CoordTypeOK' /\ IsABag(net') /\ DOMAIN net' \subseteq Message
  <1>. USE DEF TypeOK
  <1>1. \A s \in S : meta[s] \in ReassignedRecord
    BY DEF CoordTypeOK, MetaRecord, StableRecord
  <1>2. meta' \in [Shards -> MetaRecord]
    <2>1. \A s \in S : Aborted(meta[s]) \in StableRecord
      BY <1>1 DEF Aborted, StableRecord, ReassignedRecord
    <2>. QED BY <2>1 DEF AbortReconfigurations, CoordTypeOK, MetaRecord
  <1>3. retries' \in [Shards -> 0..MaxRetries]
    BY BoundsAssumption DEF AbortReconfigurations, CoordTypeOK
  <1>4. attempts' \in Seq(AttemptRecord) /\ Len(attempts') <= MaxAttempts
    <2>1. \A a \in DOMAIN attempts : attempts[a] \in AttemptRecord
      BY DEF CoordTypeOK
    <2>2. \A a \in DOMAIN attempts : attempts'[a] \in AttemptRecord
      BY <2>1 DEF AbortReconfigurations, AttemptRecord
    <2>. QED BY <2>2, LogUpdate DEF AbortReconfigurations, CoordTypeOK
  <1>5. UNION {AbortMessages(s) : s \in S} \subseteq Message
    <2>. SUFFICES ASSUME NEW s \in S, NEW m \in AbortMessages(s)
                  PROVE  m \in AbortMsg
      BY DEF Message
    <2>1. PICK n \in Servers :
             m = Abort(n, s, meta[s].epoch + 1, meta[s].attempt, FALSE)
      BY <1>1 DEF AbortMessages, ReassignedRecord
    <2>. QED BY <1>1, <2>1 DEF Abort, AbortMsg, ReassignedRecord
  <1>. QED
    BY <1>2, <1>3, <1>4, <1>5, SendAdds, SendBag
       DEF CoordTypeOK, AbortReconfigurations

(* A timer that fires. *)
LEMMA TimeoutType ==
  ASSUME TypeOK, NEW s \in Shards, PhaseTimeout(s)
  PROVE  CoordTypeOK' /\ IsABag(net') /\ DOMAIN net' \subseteq Message
  <1>. USE DEF TypeOK
  <1>1. meta[s].state \in {"FREEZE", "TRANSFER"}
    BY FaultsAssumption DEF PhaseTimeout, RetryPhase, RepeatRequest, AbortAfterTimeouts, TimerRunning
  <1>2. CASE RetryPhase(s)
    <2>1. retries' \in [Shards -> 0..MaxRetries]
      BY <1>2, BoundsAssumption DEF RetryPhase, RepeatRequest, RetriesExhausted, CoordTypeOK
    <2>2. RetryMessage(s) \in Message
      BY <1>1 DEF RetryMessage, Freeze, Begin, Control, Message, ControlMsg,
                  BeginTransferMsg, CoordTypeOK, MetaRecord, StableRecord,
                  ReassignedRecord
    <2>. QED
      BY <1>2, <2>1, <2>2, SendAdds, SendBag DEF RetryPhase, RepeatRequest, CoordTypeOK
  <1>3. CASE AbortAfterTimeouts(s)
    BY <1>1, <1>3, AbortType DEF AbortAfterTimeouts
  <1>. QED BY <1>2, <1>3 DEF PhaseTimeout

(* The resynchronisation after a recovery. *)
LEMMA RecoverType ==
  ASSUME TypeOK, NEW n \in Servers, OnNodeRecover(n)
  PROVE  CoordTypeOK' /\ IsABag(net') /\ DOMAIN net' \subseteq Message
  <1>. USE DEF TypeOK
  <1>1. \A s \in Shards :
           Abort(n, s, meta[s].epoch, meta[s].attempt, TRUE) \in Message
    BY DEF Abort, Message, AbortMsg, CoordTypeOK, MetaRecord, StableRecord,
           ReassignedRecord
  <1>. DEFINE Resyncs == {Abort(n, s, meta[s].epoch, meta[s].attempt, TRUE) :
                            s \in {t \in Shards : Participates(n, t)}}
  <1>2. Resyncs \subseteq Message
    BY <1>1
  <1>3. Send(Resyncs)
    BY DEF OnNodeRecover
  <1>. HIDE DEF Resyncs
  <1>4. CoordTypeOK'
    BY DEF OnNodeRecover, CoordTypeOK, coordVars
  <1>. QED BY <1>2, <1>3, <1>4, SendAdds, SendBag

(* The handler of a FreezeAck. *)
LEMMA FreezeAckType ==
  ASSUME TypeOK, NEW m \in DOMAIN net, HandleFreezeAck(m)
  PROVE  CoordTypeOK' /\ IsABag(net') /\ DOMAIN net' \subseteq Message
  <1>. USE DEF TypeOK
  <1>1. CASE ~FreezeAckAccepted(m)
    BY <1>1, ReceiveAdds, ReceiveBag DEF HandleFreezeAck, CoordTypeOK
  <1>2. CASE FreezeAckAccepted(m)
    <2>1. m.shard \in Shards /\ meta[m.shard] \in ReassignedRecord
      BY <1>2 DEF HandleFreezeAck, FreezeAckAccepted, Message, AckMsg, ControlMsg,
           BeginTransferMsg, AbortMsg, TransferShardMsg, CoordTypeOK, MetaRecord,
           StableRecord
    <2>2. meta' \in [Shards -> MetaRecord]
      <3>1. [meta[m.shard] EXCEPT !.state = "TRANSFER"] \in MetaRecord
        BY <2>1 DEF MetaRecord, ReassignedRecord
      <3>2. meta' = [meta EXCEPT ![m.shard] = [@ EXCEPT !.state = "TRANSFER"]]
        BY <1>2 DEF HandleFreezeAck
      <3>. QED BY <2>1, <3>1, <3>2 DEF CoordTypeOK
    <2>3. retries' \in [Shards -> 0..MaxRetries]
      <3>1. retries' = [retries EXCEPT ![m.shard] = 0]
        BY <1>2 DEF HandleFreezeAck
      <3>. QED BY <2>1, <3>1, BoundsAssumption DEF CoordTypeOK
    <2>4. Begin(meta[m.shard].owner, m.shard, meta[m.shard].epoch,
                meta[m.shard].target, meta[m.shard].attempt) \in Message
      BY <2>1 DEF Begin, Message, BeginTransferMsg, ReassignedRecord
    <2>. QED
      BY <1>2, <2>2, <2>3, <2>4, ReceiveAdds, ReceiveBag
         DEF HandleFreezeAck, CoordTypeOK
  <1>. QED BY <1>1, <1>2

(* The type of a message determines its fields. *)
LEMMA MessageKinds ==
  ASSUME NEW m \in Message
  PROVE  /\ m.type \in {"FreezeShard", "ActivateShard", "CleanupShard"} =>
              m \in ControlMsg
         /\ m.type = "BeginTransfer" => m \in BeginTransferMsg
         /\ m.type = "AbortReconfiguration" => m \in AbortMsg
         /\ m.type \in {"FreezeAck", "TransferAck"} => m \in AckMsg
         /\ m.type = "TransferShard" => m \in TransferShardMsg
  BY DEF Message, ControlMsg, BeginTransferMsg, AbortMsg, AckMsg, TransferShardMsg

(* The handler of a TransferAck. *)
LEMMA TransferAckType ==
  ASSUME TypeOK, NEW m \in DOMAIN net, HandleTransferAck(m)
  PROVE  CoordTypeOK' /\ IsABag(net') /\ DOMAIN net' \subseteq Message
  <1>. USE DEF TypeOK
  <1>1. CASE ~TransferAckAccepted(m)
    BY <1>1, ReceiveAdds, ReceiveBag DEF HandleTransferAck, CoordTypeOK, coordVars
  <1>2. CASE TransferAckAccepted(m)
    <2>1. m.shard \in Shards /\ meta[m.shard] \in ReassignedRecord
      BY <1>2, MessageKinds
         DEF HandleTransferAck, TransferAckAccepted, AckMsg, CoordTypeOK,
             MetaRecord, StableRecord
    <2>2. meta' \in [Shards -> MetaRecord]
      <3>1. Committed(meta[m.shard]) \in MetaRecord
        BY <2>1 DEF Committed, MetaRecord, StableRecord, ReassignedRecord
      <3>2. meta' = [meta EXCEPT ![m.shard] = Committed(@)]
        BY <1>2 DEF HandleTransferAck
      <3>. QED BY <2>1, <3>1, <3>2 DEF CoordTypeOK
    <2>3. retries' \in [Shards -> 0..MaxRetries]
      <3>1. retries' = [retries EXCEPT ![m.shard] = 0]
        BY <1>2 DEF HandleTransferAck
      <3>. QED BY <2>1, <3>1, BoundsAssumption DEF CoordTypeOK
    <2>4. attempts' \in Seq(AttemptRecord) /\ Len(attempts') <= MaxAttempts
      <3>1. attempts' = [attempts EXCEPT
                           ![meta[m.shard].attempt].outcome = "complete"]
        BY <1>2 DEF HandleTransferAck
      <3>2. \A a \in DOMAIN attempts : attempts[a] \in AttemptRecord
        BY DEF CoordTypeOK
      <3>3. \A a \in DOMAIN attempts : attempts'[a] \in AttemptRecord
        BY <3>1, <3>2 DEF AttemptRecord
      <3>. QED BY <3>1, <3>3, LogUpdate DEF CoordTypeOK
    <2>5. CommitMessages(m.shard) \subseteq Message
      BY <2>1 DEF CommitMessages, Activate, Cleanup, Control, Message, ControlMsg,
                  ReassignedRecord
    <2>. QED
      BY <1>2, <2>2, <2>3, <2>4, <2>5, ReceiveAdds, ReceiveBag
         DEF HandleTransferAck, CoordTypeOK
  <1>. QED BY <1>1, <1>2

(* What SetLocal and SetPending leave well typed. *)
LEMMA SetLocalType ==
  ASSUME ServerTypeOK, NEW m, m.dst \in Servers, m.shard \in Shards,
         NEW r \in LocalRecord, SetLocal(m, r)
  PROVE  local' \in [Servers -> [Shards -> LocalRecord]]
  BY DEF ServerTypeOK, SetLocal

(* The same for the pending copies. *)
LEMMA SetPendingType ==
  ASSUME ServerTypeOK, NEW m, m.dst \in Servers, m.shard \in Shards,
         NEW r \in PendingRecord, SetPending(m, r)
  PROVE  pending' \in [Servers -> [Shards -> PendingRecord]]
  BY DEF ServerTypeOK, SetPending

(* An acknowledgement is well formed. *)
LEMMA AckType ==
  ASSUME NEW m \in Message, NEW type \in {"FreezeAck", "TransferAck"},
         m.dst \in Servers, m.attempt \in AttemptIds
  PROVE  Ack(type, m) \in Message
  <1>1. m.shard \in Shards /\ m.epoch \in Nat
    BY DEF Message, ControlMsg, BeginTransferMsg, AbortMsg, AckMsg, TransferShardMsg
  <1>. QED BY <1>1 DEF Ack, Message, AckMsg

(* Every handler of a server. *)
LEMMA ServerType ==
  ASSUME TypeOK, NEW m \in DOMAIN net, m.dst \in Servers, ServerOnMessage(m)
  PROVE  ServerTypeOK' /\ IsABag(net') /\ DOMAIN net' \subseteq Message
  <1>. USE DEF TypeOK
  <1>0. /\ m \in Message
        /\ m.shard \in Shards
        /\ LocalOf(m) \in LocalRecord
        /\ PendingOf(m) \in PendingRecord
    BY DEF Message, ControlMsg, BeginTransferMsg, AbortMsg, AckMsg, TransferShardMsg,
           LocalOf, PendingOf, ServerTypeOK
  <1>a. ASSUME Receive(m, {})
        PROVE  IsABag(net') /\ DOMAIN net' \subseteq Message
    BY <1>a, ReceiveAdds, ReceiveBag
  <1>b. ASSUME NEW o \in Message, Receive(m, {o})
        PROVE  IsABag(net') /\ DOMAIN net' \subseteq Message
    BY <1>b, ReceiveAdds, ReceiveBag
  <1>c. CASE Ignore(m)
    BY <1>a, <1>c DEF Ignore, ServerTypeOK, serverVars
  <1>1. CASE HandleFreezeShard(m)
    <2>1. m \in ControlMsg /\ Ack("FreezeAck", m) \in Message
      BY <1>0, <1>1, MessageKinds, AckType DEF HandleFreezeShard, ControlMsg
    <2>2. CASE FreezeEnters(m)
      <3>0. LocalOf(m) \in HeldRecord
        BY <1>0, <2>2 DEF FreezeEnters, LocalRecord, Absent
      <3>1. [LocalOf(m) EXCEPT !.state = "FREEZE", !.attempt = m.attempt]
              \in LocalRecord
        BY <2>1, <3>0 DEF LocalRecord, HeldRecord, ControlMsg, MetaStates
      <3>2. /\ SetLocal(m, [LocalOf(m) EXCEPT !.state = "FREEZE",
                                              !.attempt = m.attempt])
            /\ Receive(m, {Ack("FreezeAck", m)})
            /\ UNCHANGED <<pending, lastPut>>
        BY <1>1, <2>2 DEF HandleFreezeShard, FreezeEnters, FreezeRepeated
      <3>. QED BY <1>0, <1>b, <2>1, <3>1, <3>2, SetLocalType DEF ServerTypeOK
    <2>3. CASE FreezeRepeated(m)
      BY <1>1, <1>b, <2>1, <2>3
         DEF HandleFreezeShard, FreezeEnters, FreezeRepeated, ServerTypeOK, serverVars
    <2>. QED BY <1>1, <1>c, <2>2, <2>3 DEF HandleFreezeShard
  <1>2. CASE HandleBeginTransfer(m)
    <2>1. CASE TransferStarts(m)
      <3>1. m \in BeginTransferMsg
        BY <1>0, <1>2, MessageKinds DEF HandleBeginTransfer
      <3>2. /\ [LocalOf(m) EXCEPT !.state = "TRANSFER"] \in LocalRecord
            /\ TransferOut(m) \in Message
        BY <1>0, <2>1, <3>1
           DEF TransferStarts, TransferOut, LocalRecord, HeldRecord, Absent, MetaStates, Message,
               BeginTransferMsg, TransferShardMsg
      <3>3. /\ SetLocal(m, [LocalOf(m) EXCEPT !.state = "TRANSFER"])
            /\ Receive(m, {TransferOut(m)})
            /\ UNCHANGED <<pending, lastPut>>
        BY <1>2, <2>1 DEF HandleBeginTransfer
      <3>. QED BY <1>0, <1>b, <3>2, <3>3, SetLocalType DEF ServerTypeOK
    <2>. QED BY <1>2, <1>c, <2>1 DEF HandleBeginTransfer
  <1>3. CASE HandleTransferShard(m)
    <2>1. m \in TransferShardMsg /\ Ack("TransferAck", m) \in Message
      BY <1>0, <1>3, MessageKinds, AckType DEF HandleTransferShard, TransferShardMsg
    <2>. DEFINE copy == [epoch |-> m.epoch, attempt |-> m.attempt,
                         data |-> m.data, source |-> m.src]
    <2>2. CASE SetPending(m, copy) /\ Receive(m, {Ack("TransferAck", m)})
                 /\ UNCHANGED <<local, lastPut>>
      <3>1. copy \in PendingRecord
        BY <2>1 DEF TransferShardMsg, PendingRecord
      <3>. QED BY <1>0, <1>b, <2>1, <2>2, <3>1, SetPendingType DEF ServerTypeOK
    <2>3. CASE Receive(m, {Ack("TransferAck", m)}) /\ UNCHANGED serverVars
      BY <1>b, <2>1, <2>3 DEF ServerTypeOK, serverVars
    <2>. QED BY <1>3, <1>c, <2>2, <2>3 DEF HandleTransferShard
  <1>4. CASE HandleActivateShard(m)
    <2>1. CASE ActivateAccepted(m)
      <3>1. m \in ControlMsg
        BY <1>0, <1>4, MessageKinds DEF HandleActivateShard
      <3>. DEFINE r == [epoch |-> m.epoch, state |-> "STABLE",
                        data |-> PendingOf(m).data, attempt |-> NoAttempt]
      <3>2. r \in LocalRecord
        BY <1>0, <2>1, <3>1
           DEF ActivateAccepted, HasPending, PendingOf, PendingRecord, LocalRecord,
               HeldRecord, MetaStates, ControlMsg
      <3>3. NoCopy \in PendingRecord
        BY DEF PendingRecord
      <3>4. SetLocal(m, r) /\ SetPending(m, NoCopy) /\ Receive(m, {})
              /\ UNCHANGED lastPut
        BY <1>4, <2>1 DEF HandleActivateShard
      <3>. QED BY <1>0, <1>a, <3>2, <3>3, <3>4, SetLocalType, SetPendingType
                  DEF ServerTypeOK
    <2>. QED BY <1>4, <1>c, <2>1 DEF HandleActivateShard
  <1>5. CASE HandleCleanupShard(m)
    <2>1. CASE CleanupAccepted(m)
      <3>1. Absent \in LocalRecord
        BY DEF LocalRecord
      <3>. QED BY <1>0, <1>5, <1>a, <2>1, <3>1, SetLocalType
                  DEF HandleCleanupShard, ServerTypeOK
    <2>. QED BY <1>5, <1>c, <2>1 DEF HandleCleanupShard
  <1>6. CASE HandleAbortReconfiguration(m)
    <2>1. m \in AbortMsg
      BY <1>0, <1>6, MessageKinds DEF HandleAbortReconfiguration
    <2>. DEFINE r == [LocalOf(m) EXCEPT !.epoch = m.epoch, !.state = "STABLE",
                                        !.attempt = NoAttempt]
    <2>2. local' \in [Servers -> [Shards -> LocalRecord]]
      <3>1. CASE RollsBack(m)
        <4>1. r \in LocalRecord
          BY <1>0, <2>1, <3>1
             DEF RollsBack, Held, LocalOf, LocalRecord, HeldRecord, MetaStates, AbortMsg
        <4>2. SetLocal(m, r)
          BY <1>6, <3>1 DEF HandleAbortReconfiguration
        <4>. QED BY <1>0, <4>1, <4>2, SetLocalType
      <3>2. CASE ~RollsBack(m)
        BY <1>6, <3>2 DEF HandleAbortReconfiguration, ServerTypeOK
      <3>. QED BY <3>1, <3>2
    <2>3. pending' \in [Servers -> [Shards -> PendingRecord]]
      <3>1. CASE ClearsPending(m)
        <4>1. NoCopy \in PendingRecord
          BY DEF PendingRecord
        <4>. QED BY <1>0, <1>6, <3>1, <4>1, SetPendingType DEF HandleAbortReconfiguration
      <3>2. CASE ~ClearsPending(m)
        BY <1>6, <3>2 DEF HandleAbortReconfiguration, ServerTypeOK
      <3>. QED BY <3>1, <3>2
    <2>. QED BY <1>6, <1>a, <2>2, <2>3 DEF HandleAbortReconfiguration, ServerTypeOK
  <1>. QED BY <1>1, <1>2, <1>3, <1>4, <1>5, <1>6 DEF ServerOnMessage

(* A PUT. *)
LEMMA ClientType ==
  ASSUME TypeOK, NEW n \in Servers, NEW s \in Shards, NEW e, NEW v \in Values,
         ClientPut(n, s, e, v)
  PROVE  ServerTypeOK'
  <1>1. local[n][s] \in HeldRecord
    BY DEF ClientPut, Serves, Held, TypeOK, ServerTypeOK, LocalRecord
  <1>2. [local[n][s] EXCEPT !.data = v] \in LocalRecord
    BY <1>1 DEF LocalRecord, HeldRecord
  <1>3. local' = [local EXCEPT ![n][s] = [@ EXCEPT !.data = v]]
    BY DEF ClientPut
  <1>. QED BY <1>2, <1>3 DEF ClientPut, TypeOK, ServerTypeOK

(* The initial states are well typed. *)
LEMMA TypeInit == Init => TypeOK
  <1>. SUFFICES ASSUME Init PROVE TypeOK
    OBVIOUS
  <1>1. IsABag(net) /\ DOMAIN net \subseteq Message
    BY DEF Init, NetInit, IsABag, EmptyBag, SetToBag
  <1>2. meta \in [Shards -> StableRecord]
    BY DEF Init, CoordInit, InitialEpoch, StableRecord
  <1>3. CoordTypeOK
    BY <1>2, BoundsAssumption DEF Init, CoordInit, CoordTypeOK, MetaRecord
  <1>4. local \in [Servers -> [Shards -> LocalRecord]]
    <2>1. \A s \in Shards :
            [epoch |-> InitialEpoch, state |-> "STABLE", data |-> lastPut[s],
             attempt |-> NoAttempt] \in LocalRecord
      BY DEF Init, InitialEpoch, LocalRecord, HeldRecord, MetaStates
    <2>2. Absent \in LocalRecord
      BY DEF LocalRecord
    <2>. QED BY <2>1, <2>2 DEF Init
  <1>5. ServerTypeOK
    BY <1>4 DEF Init, ServerTypeOK, PendingRecord
  <1>. QED
    BY <1>1, <1>3, <1>5, BoundsAssumption DEF Init, TypeOK

(* Every step keeps the types. *)
LEMMA TypeStep == TypeOK /\ [Next]_vars => TypeOK'
  <1>. SUFFICES ASSUME TypeOK, [Next]_vars PROVE TypeOK'
    OBVIOUS
  <1>1. CASE UNCHANGED vars
    BY <1>1 DEF vars, coordVars, serverVars, TypeOK, CoordTypeOK, ServerTypeOK
  <1>2. ASSUME NEW m \in DOMAIN net, Deliver(m) PROVE TypeOK'
    <2>1. CASE DeliverToCoordinator(m)
      BY <2>1, FreezeAckType, TransferAckType
         DEF DeliverToCoordinator, TypeOK, ServerTypeOK, serverVars
    <2>2. CASE DeliverToServer(m)
      BY <2>2, ServerType DEF DeliverToServer, TypeOK, CoordTypeOK, coordVars
    <2>3. CASE DeliverToDeadNode(m)
      BY <2>3, ReceiveAdds, ReceiveBag
         DEF DeliverToDeadNode, TypeOK, CoordTypeOK, ServerTypeOK, coordVars,
             serverVars
    <2>. QED BY <1>2, <2>1, <2>2, <2>3 DEF Deliver
  <1>3. ASSUME NEW s \in Shards, TimerFires(s) PROVE TypeOK'
    BY <1>3, TimeoutType DEF TimerFires, TypeOK, ServerTypeOK, serverVars
  <1>4. ASSUME NEW s \in Shards, NEW new \in Servers, StartReassign(s, new)
        PROVE  TypeOK'
    BY <1>4, ReassignType DEF StartReassign, TypeOK, ServerTypeOK, serverVars
  <1>5. ASSUME NEW n \in Servers, CrashNode(n) PROVE TypeOK'
    <2>. DEFINE S == {s \in Shards : meta[s].state # "STABLE" /\ Participates(n, s)}
    <2>1. AbortReconfigurations(S)
      BY <1>5 DEF CrashNode, OnNodeCrash
    <2>2. CoordTypeOK' /\ IsABag(net') /\ DOMAIN net' \subseteq Message
      BY <2>1, AbortType
    <2>. QED BY <1>5, <2>2 DEF CrashNode, TypeOK, ServerTypeOK, serverVars
  <1>6. ASSUME NEW n \in Servers, RecoverNode(n) PROVE TypeOK'
    <2>1. CoordTypeOK' /\ IsABag(net') /\ DOMAIN net' \subseteq Message
      BY <1>6, RecoverType DEF RecoverNode
    <2>. QED BY <1>6, <2>1, BoundsAssumption
             DEF RecoverNode, TypeOK, ServerTypeOK, serverVars
  <1>7. ASSUME NEW n \in Servers, NEW s \in Shards, NEW e, NEW v \in Values,
               ClientWrite(n, s, e, v)
        PROVE  TypeOK'
    <2>1. ServerTypeOK'
      BY <1>7, ClientType DEF ClientWrite
    <2>. QED BY <1>7, <2>1 DEF ClientWrite, ClientPut, TypeOK, CoordTypeOK, coordVars
  <1>. QED
    BY <1>1, <1>2, <1>3, <1>4, <1>5, <1>6, <1>7, FaultsAssumption DEF Next, Delivery

(* The type invariant, for every number of servers, shards and attempts    *)
(* and every choice of lossy and duplicating links, timers, crashes and    *)
(* recoveries: no handler stores or sends an ill-formed record, whatever   *)
(* messages meet.                                                          *)
THEOREM TypeCorrect == Spec => []TypeOK
  BY TypeInit, TypeStep, PTL DEF Spec

-----------------------------------------------------------------------------
(* What the steps of a server send and mark. *)

(* A server answers within the attempt and the shard of the message. *)
LEMMA ServerSends ==
  ASSUME NEW m, ServerOnMessage(m), NEW o \in DOMAIN net', o \notin DOMAIN net
  PROVE  /\ o.type \in {"FreezeAck", "TransferAck", "TransferShard"}
         /\ o.attempt = m.attempt
         /\ o.shard = m.shard
         /\ m.type \in {"FreezeShard", "BeginTransfer", "TransferShard"}
  <1>a. ASSUME NEW x, Receive(m, {x}) PROVE o = x
    BY <1>a, ReceiveAdds
  <1>b. ASSUME Receive(m, {}) PROVE FALSE
    BY <1>b, ReceiveAdds
  <1>1. CASE HandleFreezeShard(m)
    BY <1>1, <1>a, <1>b DEF HandleFreezeShard, Ack, Ignore
  <1>2. CASE HandleBeginTransfer(m)
    BY <1>2, <1>a, <1>b DEF HandleBeginTransfer, TransferOut, Ignore
  <1>3. CASE HandleTransferShard(m)
    BY <1>3, <1>a, <1>b DEF HandleTransferShard, Ack, Ignore
  <1>4. CASE HandleActivateShard(m) \/ HandleCleanupShard(m)
               \/ HandleAbortReconfiguration(m)
    BY <1>4, <1>b DEF HandleActivateShard, HandleCleanupShard,
                      HandleAbortReconfiguration, Ignore
  <1>. QED BY <1>1, <1>2, <1>3, <1>4 DEF ServerOnMessage

(* What SetLocal and SetPending change. *)
LEMMA LocalSet ==
  ASSUME TypeOK, NEW m, NEW n \in Servers, NEW s \in Shards, n = m.dst, s = m.shard,
         NEW r, SetLocal(m, r)
  PROVE  /\ local'[n][s] = r
         /\ \A o \in Servers, t \in Shards :
               o # n \/ t # s => local'[o][t] = local[o][t]
  BY DEF SetLocal, TypeOK, ServerTypeOK

(* The same for the pending copies. *)
LEMMA PendingSet ==
  ASSUME TypeOK, NEW m, NEW n \in Servers, NEW s \in Shards, n = m.dst, s = m.shard,
         NEW r, SetPending(m, r)
  PROVE  /\ pending'[n][s] = r
         /\ \A o \in Servers, t \in Shards :
               o # n \/ t # s => pending'[o][t] = pending[o][t]
  BY DEF SetPending, TypeOK, ServerTypeOK

(* A server marks a shard, or a copy, only with the attempt of a message   *)
(* about that shard.                                                       *)
LEMMA ServerMarks ==
  ASSUME TypeOK, NEW m, ServerOnMessage(m), NEW n \in Servers, NEW s \in Shards
  PROVE  /\ \/ local'[n][s].attempt \in {local[n][s].attempt, NoAttempt}
            \/ /\ local'[n][s].attempt = m.attempt
               /\ n = m.dst /\ s = m.shard /\ m.type = "FreezeShard"
         /\ \/ pending'[n][s] \in {pending[n][s], NoCopy}
            \/ /\ pending'[n][s].attempt = m.attempt
               /\ n = m.dst /\ s = m.shard /\ m.type = "TransferShard"
  <1>. local \in [Servers -> [Shards -> LocalRecord]] 
         /\ pending \in [Servers -> [Shards -> PendingRecord]]
    BY DEF TypeOK, ServerTypeOK
  <1>a. ASSUME NEW r, SetLocal(m, r)
        PROVE  local'[n][s] = IF n = m.dst /\ s = m.shard THEN r ELSE local[n][s]
    BY <1>a DEF SetLocal
  <1>b. ASSUME NEW r, SetPending(m, r)
        PROVE  pending'[n][s] = IF n = m.dst /\ s = m.shard THEN r ELSE pending[n][s]
    BY <1>b DEF SetPending
  <1>1. CASE HandleFreezeShard(m)
    <2>1. CASE FreezeEnters(m)
      <3>. DEFINE r == [LocalOf(m) EXCEPT !.state = "FREEZE", !.attempt = m.attempt]
      <3>1. SetLocal(m, r) /\ UNCHANGED pending
        BY <1>1, <2>1 DEF HandleFreezeShard, FreezeEnters, FreezeRepeated
      <3>2. n = m.dst /\ s = m.shard => r.attempt = m.attempt
        BY DEF LocalOf, LocalRecord, HeldRecord, Absent
      <3>. QED BY <1>1, <1>a, <3>1, <3>2 DEF HandleFreezeShard
    <2>. QED BY <1>1, <2>1 DEF HandleFreezeShard, Ignore, serverVars
  <1>2. CASE HandleBeginTransfer(m)
    <2>1. CASE TransferStarts(m)
      <3>. DEFINE r == [LocalOf(m) EXCEPT !.state = "TRANSFER"]
      <3>1. SetLocal(m, r) /\ UNCHANGED pending
        BY <1>2, <2>1 DEF HandleBeginTransfer
      <3>2. n = m.dst /\ s = m.shard => r.attempt = local[n][s].attempt
        BY DEF LocalOf, LocalRecord, HeldRecord, Absent
      <3>. QED BY <1>a, <3>1, <3>2
    <2>. QED BY <1>2, <2>1 DEF HandleBeginTransfer, Ignore, serverVars
  <1>3. CASE HandleTransferShard(m)
    BY <1>3, <1>b DEF HandleTransferShard, Ignore, serverVars
  <1>4. CASE HandleActivateShard(m)
    BY <1>4, <1>a, <1>b DEF HandleActivateShard, Ignore, serverVars
  <1>5. CASE HandleCleanupShard(m)
    BY <1>5, <1>a DEF HandleCleanupShard, Absent, Ignore, serverVars
  <1>6. CASE HandleAbortReconfiguration(m)
    <2>. DEFINE r == [LocalOf(m) EXCEPT !.epoch = m.epoch, !.state = "STABLE",
                                        !.attempt = NoAttempt]
    <2>1. n = m.dst /\ s = m.shard => r.attempt = NoAttempt
      BY DEF LocalOf, LocalRecord, HeldRecord, Absent
    <2>2. \/ SetLocal(m, r)
          \/ UNCHANGED local
      BY <1>6 DEF HandleAbortReconfiguration
    <2>3. \/ SetPending(m, NoCopy)
          \/ UNCHANGED pending
      BY <1>6 DEF HandleAbortReconfiguration
    <2>. HIDE DEF r
    <2>4. local'[n][s].attempt \in {local[n][s].attempt, NoAttempt}
      BY <1>a, <2>1, <2>2
    <2>. QED BY <1>b, <2>3, <2>4
  <1>. QED BY <1>1, <1>2, <1>3, <1>4, <1>5, <1>6 DEF ServerOnMessage

-----------------------------------------------------------------------------
(* What the steps of the coordinator do to the log of attempts. *)

LEMMA LogDomain ==
  ASSUME TypeOK
  PROVE  /\ DOMAIN attempts = 1..Len(attempts)
         /\ Len(attempts) \in Nat
         /\ \A a \in DOMAIN attempts : attempts[a] \in AttemptRecord
         /\ NoAttempt \notin DOMAIN attempts
  BY DEF TypeOK, CoordTypeOK, NoAttempt

(* The record of the attempt that the metadata of a shard names. *)
LEMMA CurrentAttempt ==
  ASSUME CoordInv, NEW s \in Shards, meta[s].state # "STABLE"
  PROVE  LET a == meta[s].attempt
         IN  /\ a \in DOMAIN attempts
             /\ attempts[a] = [shard |-> s, from |-> meta[s].owner,
                               to |-> meta[s].target, epoch |-> meta[s].epoch,
                               outcome |-> "pending"]
             /\ attempts[a].shard = s
             /\ attempts[a].from = meta[s].owner
             /\ attempts[a].to = meta[s].target
             /\ ~Decided(a)
             /\ KnownIn(a, s)
  <1>1. /\ meta[s].attempt \in DOMAIN attempts
        /\ attempts[meta[s].attempt] = [shard |-> s, from |-> meta[s].owner,
                               to |-> meta[s].target, epoch |-> meta[s].epoch,
                               outcome |-> "pending"]
    BY DEF CoordInv, MetaMatchesAttempt
  <1>. QED BY <1>1 DEF Decided, KnownIn, AttemptsOf

(* A reassignment appends the record of its attempt and keeps the others. *)
LEMMA ReassignLog ==
  ASSUME TypeOK, NEW s \in Shards, NEW new \in Servers, Reassign(s, new)
  PROVE  /\ DOMAIN attempts' = DOMAIN attempts \cup {NextAttempt}
         /\ NextAttempt \notin DOMAIN attempts
         /\ \A a \in DOMAIN attempts : attempts'[a] = attempts[a]
         /\ attempts'[NextAttempt] = [shard   |-> s,
                                      from    |-> meta[s].owner,
                                      to      |-> new,
                                      epoch   |-> meta[s].epoch,
                                      outcome |-> "pending"]
  BY LogDomain DEF Reassign, NextAttempt, TypeOK, CoordTypeOK

(* A step that decides attempts changes nothing else in the log, and every *)
(* attempt that it decides is the one its shard's metadata named.          *)
LEMMA AbortLog ==
  ASSUME TypeOK, CoordInv, NEW S \in SUBSET Shards,
         \A s \in S : meta[s].state # "STABLE",
         AbortReconfigurations(S)
  PROVE  /\ DOMAIN attempts' = DOMAIN attempts
         /\ \A a \in DOMAIN attempts :
               attempts'[a] = IF attempts[a].shard \in S /\ ~Decided(a)
                              THEN [attempts[a] EXCEPT !.outcome = "abort"]
                              ELSE attempts[a]
         /\ \A s \in Shards : meta'[s] = IF s \in S THEN Aborted(meta[s]) ELSE meta[s]
  <1>1. \A a \in DOMAIN attempts :
          (\E s \in S : meta[s].attempt = a) <=> attempts[a].shard \in S /\ ~Decided(a)
    <2>. TAKE a \in DOMAIN attempts
    <2>1. ASSUME NEW s \in S, meta[s].attempt = a
          PROVE  attempts[a].shard = s /\ ~Decided(a)
      <3>1. s \in Shards /\ meta[s].state # "STABLE"
        OBVIOUS
      <3>2. attempts[a] = [shard |-> s, from |-> meta[s].owner,
                           to |-> meta[s].target, epoch |-> meta[s].epoch,
                           outcome |-> "pending"]
        BY <2>1, <3>1 DEF CoordInv, MetaMatchesAttempt
      <3>. QED BY <3>2 DEF Decided
    <2>2. ~Decided(a) => meta[attempts[a].shard].attempt = a
      BY DEF CoordInv, UndecidedIsCurrent
    <2>. QED BY <2>1, <2>2
  <1>. QED BY <1>1 DEF AbortReconfigurations

(* A commit completes the attempt of its shard and keeps the others. *)
LEMMA CommitLog ==
  ASSUME TypeOK, CoordInv, NEW m \in DOMAIN net, HandleTransferAck(m),
         TransferAckAccepted(m),
         NEW s, s = m.shard, NEW a, a = meta[s].attempt
  PROVE  /\ s \in Shards
         /\ meta[s] \in ReassignedRecord
         /\ meta[s].state = "TRANSFER"
         /\ m.type = "TransferAck" /\ m.attempt = a
         /\ DOMAIN attempts' = DOMAIN attempts
         /\ attempts'[a] = [attempts[a] EXCEPT !.outcome = "complete"]
         /\ \A b \in DOMAIN attempts : b # a => attempts'[b] = attempts[b]
         /\ meta'[s] = Committed(meta[s])
         /\ \A t \in Shards : t # s => meta'[t] = meta[t]
         /\ Receive(m, CommitMessages(s))
  <1>1. m.shard \in Shards /\ meta[m.shard] \in ReassignedRecord
    BY MessageKinds
       DEF HandleTransferAck, TransferAckAccepted, AckMsg, TypeOK, CoordTypeOK,
           MetaRecord, StableRecord
  <1>2. /\ meta' = [meta EXCEPT ![s] = Committed(@)]
        /\ attempts' = [attempts EXCEPT ![a].outcome = "complete"]
        /\ Receive(m, CommitMessages(s))
        /\ m.attempt = a /\ m.type = "TransferAck" /\ meta[s].state = "TRANSFER"
    BY DEF HandleTransferAck, TransferAckAccepted
  <1>3. a \in DOMAIN attempts
    BY <1>1, CurrentAttempt DEF ReassignedRecord
  <1>. QED BY <1>1, <1>2, <1>3 DEF TypeOK, CoordTypeOK

-----------------------------------------------------------------------------
(* CoordInv is inductive. *)

LEMMA CoordInvInit == Init => CoordInv
  <1>. SUFFICES ASSUME Init PROVE CoordInv
    OBVIOUS
  <1>1. DOMAIN net = {} /\ DOMAIN attempts = {}
    BY DEF Init, NetInit, CoordInit, EmptyBag, SetToBag
  <1>2. \A n \in Servers, s \in Shards :
          local[n][s].attempt = NoAttempt /\ ~HasPending(n, s)
    BY DEF Init, Absent, HasPending
  <1>3. \A s \in Shards : meta[s].state = "STABLE" /\ meta[s].attempt = NoAttempt
    BY DEF Init, CoordInit
  <1>. QED
    BY <1>1, <1>2, <1>3
       DEF CoordInv, MetaMatchesAttempt, UndecidedIsCurrent, KnownAttempts,
           MessagesFollowDecision

(* Steps that leave the metadata and the log alone and send nothing but    *)
(* answers within a known attempt.                                         *)
LEMMA CoordFrame ==
  ASSUME TypeOK, CoordInv, UNCHANGED <<meta, attempts>>,
         \A o \in DOMAIN net' \ DOMAIN net :
            /\ o.type \notin {"ActivateShard", "CleanupShard"}
            /\ o.type = "AbortReconfiguration" => o.resync
            /\ KnownIn(o.attempt, o.shard) \/ o.type = "AbortReconfiguration",
         \A n \in Servers, s \in Shards :
            /\ local'[n][s].attempt # NoAttempt => KnownIn(local'[n][s].attempt, s)
            /\ HasPending(n, s)' => KnownIn(pending'[n][s].attempt, s)
  PROVE  CoordInv'
  <1>1. \A a, s : KnownIn(a, s)' <=> KnownIn(a, s)
    BY DEF KnownIn, AttemptsOf
  <1>2. MetaMatchesAttempt' /\ UndecidedIsCurrent'
    BY DEF CoordInv, MetaMatchesAttempt, UndecidedIsCurrent, Decided
  <1>3. KnownAttempts'
    BY <1>1 DEF CoordInv, KnownAttempts
  <1>4. MessagesFollowDecision'
    BY DEF CoordInv, MessagesFollowDecision
  <1>. QED BY <1>2, <1>3, <1>4 DEF CoordInv

(* The step of a server keeps CoordInv: it uses only the attempt of its    *)
(* message.                                                                *)
LEMMA CoordServerStep ==
  ASSUME TypeOK, CoordInv, NEW m \in DOMAIN net, ServerOnMessage(m),
         UNCHANGED coordVars
  PROVE  CoordInv'
  <1>1. KnownIn(m.attempt, m.shard) \/ m.type = "AbortReconfiguration"
    BY DEF CoordInv, KnownAttempts
  <1>2. \A o \in DOMAIN net' \ DOMAIN net :
            /\ o.type \in {"FreezeAck", "TransferAck", "TransferShard"}
            /\ KnownIn(o.attempt, o.shard)
    BY <1>1, ServerSends
  <1>3. ASSUME NEW n \in Servers, NEW s \in Shards
        PROVE  /\ local'[n][s].attempt # NoAttempt => KnownIn(local'[n][s].attempt, s)
               /\ HasPending(n, s)' => KnownIn(pending'[n][s].attempt, s)
    BY <1>1, ServerMarks DEF CoordInv, KnownAttempts, HasPending
  <1>. QED BY <1>2, <1>3, CoordFrame DEF coordVars

(* So does reassign, for the fresh attempt id it takes. *)
LEMMA CoordReassign ==
  ASSUME TypeOK, CoordInv, NEW s \in Shards, NEW new \in Servers, Reassign(s, new),
         UNCHANGED serverVars
  PROVE  CoordInv'
  <1>. PICK a : a = NextAttempt
    OBVIOUS
  <1>. PICK f : f = Freeze(meta[s].owner, s, meta[s].epoch, a)
    OBVIOUS
  <1>1. /\ \A t \in Shards : t # s => meta'[t] = meta[t]
        /\ meta[s].state = "STABLE"
        /\ meta'[s] = [meta[s] EXCEPT !.state = "FREEZE", !.target = new, !.attempt = a]
        /\ DOMAIN net' \subseteq DOMAIN net \cup {f}
    BY SendAdds DEF Reassign, ReassignAllowed, TypeOK, CoordTypeOK
  <1>1a. /\ meta'[s].state = "FREEZE" /\ meta'[s].target = new /\ meta'[s].attempt = a
         /\ meta'[s].owner = meta[s].owner /\ meta'[s].epoch = meta[s].epoch
    BY <1>1 DEF TypeOK, CoordTypeOK, MetaRecord, StableRecord, ReassignedRecord
  <1>2. /\ DOMAIN attempts' = DOMAIN attempts \cup {a}
        /\ a \notin DOMAIN attempts
        /\ \A b \in DOMAIN attempts : attempts'[b] = attempts[b]
        /\ attempts'[a] = [shard |-> s, from |-> meta[s].owner, to |-> new,
                           epoch |-> meta[s].epoch, outcome |-> "pending"]
    BY ReassignLog
  <1>3. MetaMatchesAttempt'
    <2>. SUFFICES ASSUME NEW t \in Shards
                  PROVE  IF meta'[t].state = "STABLE"
                         THEN meta'[t].attempt = NoAttempt
                         ELSE /\ meta'[t].attempt \in DOMAIN attempts'
                              /\ attempts'[meta'[t].attempt] =
                                   [shard |-> t, from |-> meta'[t].owner,
                                    to |-> meta'[t].target, epoch |-> meta'[t].epoch,
                                    outcome |-> "pending"]
      BY DEF MetaMatchesAttempt
    <2>1. CASE t = s
      BY <1>1a, <1>2, <2>1
    <2>2. CASE t # s
      BY <1>1, <1>2, <2>2 DEF CoordInv, MetaMatchesAttempt
    <2>. QED BY <2>1, <2>2
  <1>4. UndecidedIsCurrent'
    <2>. SUFFICES ASSUME NEW b \in DOMAIN attempts', attempts'[b].outcome = "pending"
                  PROVE  meta'[attempts'[b].shard].attempt = b
      BY DEF UndecidedIsCurrent, Decided
    <2>1. CASE b = a
      BY <1>1a, <1>2, <2>1
    <2>2. CASE b # a
      <3>1. b \in DOMAIN attempts /\ attempts'[b] = attempts[b]
        BY <1>2, <2>2
      <3>2. meta[attempts[b].shard].attempt = b /\ attempts[b].shard \in Shards
        BY <3>1, LogDomain DEF CoordInv, UndecidedIsCurrent, Decided, AttemptRecord
      <3>3. attempts[b].shard # s
        BY <1>1, <3>1, <3>2, LogDomain DEF CoordInv, MetaMatchesAttempt
      <3>. QED BY <1>1, <3>1, <3>2, <3>3
    <2>. QED BY <2>1, <2>2
  <1>5. \A b, t : KnownIn(b, t) => KnownIn(b, t)'
    BY <1>2 DEF KnownIn, AttemptsOf
  <1>6. KnownIn(f.attempt, f.shard)' /\ f.type = "FreezeShard"
    BY <1>2 DEF KnownIn, AttemptsOf, Freeze, Control
  <1>7. KnownAttempts'
    BY <1>1, <1>5, <1>6 DEF CoordInv, KnownAttempts, serverVars, HasPending
  <1>8. MessagesFollowDecision'
    <2>. SUFFICES ASSUME NEW m \in DOMAIN net,
                         m.type \in {"ActivateShard", "CleanupShard"} \/
                         (m.type = "AbortReconfiguration" /\ ~m.resync)
                  PROVE  attempts'[m.attempt] = attempts[m.attempt]
      BY <1>1, <1>6 DEF CoordInv, MessagesFollowDecision
    <2>. QED BY <1>2 DEF CoordInv, KnownAttempts, KnownIn, AttemptsOf
  <1>. QED BY <1>3, <1>4, <1>7, <1>8 DEF CoordInv

(* So does an abort of any set of shards that are in a reassignment. *)
LEMMA CoordAbort ==
  ASSUME TypeOK, CoordInv, NEW S \in SUBSET Shards,
         \A s \in S : meta[s].state # "STABLE",
         AbortReconfigurations(S), UNCHANGED serverVars
  PROVE  CoordInv'
  <1>1. /\ DOMAIN attempts' = DOMAIN attempts
        /\ \A a \in DOMAIN attempts :
               attempts'[a] = IF attempts[a].shard \in S /\ ~Decided(a)
                              THEN [attempts[a] EXCEPT !.outcome = "abort"]
                              ELSE attempts[a]
        /\ \A s \in Shards :
               meta'[s] = IF s \in S THEN Aborted(meta[s]) ELSE meta[s]
    BY AbortLog
  <1>2. \A a \in DOMAIN attempts :
          /\ attempts[a] \in AttemptRecord
          /\ attempts'[a].shard = attempts[a].shard
          /\ Decided(a) => attempts'[a] = attempts[a]
          /\ ~Decided(a) => attempts'[a] = attempts[a] \/
                            attempts'[a].outcome = "abort"
          /\ attempts[a].shard \in S => attempts'[a].outcome # "pending"
    BY <1>1, LogDomain DEF AttemptRecord, Decided
  <1>3. MetaMatchesAttempt'
    <2>. SUFFICES ASSUME NEW t \in Shards
                  PROVE  IF meta'[t].state = "STABLE"
                         THEN meta'[t].attempt = NoAttempt
                         ELSE /\ meta'[t].attempt \in DOMAIN attempts'
                              /\ attempts'[meta'[t].attempt] =
                                   [shard |-> t, from |-> meta'[t].owner,
                                    to |-> meta'[t].target, epoch |-> meta'[t].epoch,
                                    outcome |-> "pending"]
      BY DEF MetaMatchesAttempt
    <2>1. CASE t \in S
      <3>1. meta'[t] = Aborted(meta[t])
        BY <1>1, <2>1
      <3>. QED BY <3>1 DEF Aborted
    <2>2. CASE t \notin S
      <3>1. meta'[t] = meta[t]
        BY <1>1, <2>2
      <3>2. CASE meta[t].state = "STABLE"
        BY <3>1, <3>2 DEF CoordInv, MetaMatchesAttempt
      <3>3. CASE meta[t].state # "STABLE"
        <4>. PICK a : a = meta[t].attempt
          OBVIOUS
        <4>1. /\ a \in DOMAIN attempts
              /\ attempts[a].shard = t
              /\ attempts[a] = [shard |-> t, from |-> meta[t].owner,
                                to |-> meta[t].target, epoch |-> meta[t].epoch,
                                outcome |-> "pending"]
          BY <3>3, CurrentAttempt
        <4>2. attempts'[a] = attempts[a]
          BY <1>1, <2>2, <4>1
        <4>. QED BY <1>1, <3>1, <3>3, <4>1, <4>2
      <3>. QED BY <3>2, <3>3
    <2>. QED BY <2>1, <2>2
  <1>4. UndecidedIsCurrent'
    <2>. SUFFICES ASSUME NEW b \in DOMAIN attempts, attempts'[b].outcome = "pending"
                  PROVE  meta'[attempts'[b].shard].attempt = b
      BY <1>1 DEF UndecidedIsCurrent, Decided
    <2>1. attempts[b].shard \in Shards \ S /\ ~Decided(b)
      BY <1>2 DEF AttemptRecord, Decided
    <2>. QED BY <1>1, <1>2, <2>1 DEF CoordInv, UndecidedIsCurrent
  <1>5. \A b, t : KnownIn(b, t) => KnownIn(b, t)'
    BY <1>1, <1>2 DEF KnownIn, AttemptsOf
  <1>6. ASSUME NEW m \in DOMAIN net' \ DOMAIN net
        PROVE  /\ m.type = "AbortReconfiguration"
               /\ KnownIn(m.attempt, m.shard)'
               /\ attempts'[m.attempt].outcome = "abort"
    <2>1. PICK s \in S : m \in AbortMessages(s)
      BY SendAdds DEF AbortReconfigurations
    <2>2. /\ m.type = "AbortReconfiguration"
          /\ m.attempt = meta[s].attempt
          /\ m.shard = s
      BY <2>1 DEF AbortMessages, Abort
    <2>3. meta[s].attempt \in DOMAIN attempts /\ s \in Shards
            /\ attempts[meta[s].attempt].shard = s
            /\ ~Decided(meta[s].attempt)
      BY CurrentAttempt
    <2>4. attempts'[meta[s].attempt].outcome = "abort"
            /\ attempts'[meta[s].attempt].shard = s
      BY <1>1, <1>2, <2>3 DEF AttemptRecord
    <2>. QED BY <1>1, <2>2, <2>3, <2>4 DEF KnownIn, AttemptsOf
  <1>7. KnownAttempts'
    BY <1>5, <1>6 DEF CoordInv, KnownAttempts, serverVars, HasPending
  <1>8. MessagesFollowDecision'
    <2>. SUFFICES ASSUME NEW m \in DOMAIN net,
                         m.type \in {"ActivateShard", "CleanupShard"} \/
                         (m.type = "AbortReconfiguration" /\ ~m.resync)
                  PROVE  attempts'[m.attempt] = attempts[m.attempt]
      BY <1>6 DEF CoordInv, MessagesFollowDecision
    <2>. QED BY <1>2 DEF CoordInv, KnownAttempts, KnownIn, AttemptsOf,
                         MessagesFollowDecision, Decided
  <1>. QED BY <1>3, <1>4, <1>7, <1>8 DEF CoordInv

(* So does a timer that fires: it repeats a request or aborts. *)
LEMMA CoordTimeout ==
  ASSUME TypeOK, CoordInv, NEW s \in Shards, PhaseTimeout(s), UNCHANGED serverVars
  PROVE  CoordInv'
  <1>1. meta[s].state # "STABLE"
    BY FaultsAssumption DEF PhaseTimeout, RetryPhase, RepeatRequest, AbortAfterTimeouts, TimerRunning
  <1>2. CASE RetryPhase(s)
    <2>1. /\ RetryMessage(s).type \in {"FreezeShard", "BeginTransfer"}
          /\ KnownIn(RetryMessage(s).attempt, RetryMessage(s).shard)
      BY <1>1, CurrentAttempt DEF RetryMessage, Freeze, Control, Begin
    <2>2. \A o \in DOMAIN net' \ DOMAIN net : o = RetryMessage(s)
      BY <1>2, SendAdds DEF RetryPhase, RepeatRequest
    <2>. QED
      BY <1>2, <2>1, <2>2, CoordFrame
         DEF RetryPhase, RepeatRequest, serverVars, CoordInv, KnownAttempts, HasPending
  <1>3. CASE AbortAfterTimeouts(s)
    BY <1>1, <1>3, CoordAbort DEF AbortAfterTimeouts
  <1>. QED BY <1>2, <1>3 DEF PhaseTimeout

(* So does a recovery: it sends resynchronisations only. *)
LEMMA CoordRecover ==
  ASSUME TypeOK, CoordInv, NEW n \in Servers, OnNodeRecover(n), UNCHANGED serverVars
  PROVE  CoordInv'
  <1>1. ASSUME NEW o \in DOMAIN net' \ DOMAIN net
        PROVE  o.type = "AbortReconfiguration" /\ o.resync
    <2>. DEFINE Resyncs == {Abort(n, s, meta[s].epoch, meta[s].attempt, TRUE) :
                              s \in {t \in Shards : Participates(n, t)}}
    <2>1. Send(Resyncs)
      BY DEF OnNodeRecover
    <2>2. o \in Resyncs
      BY <2>1, SendAdds
    <2>. QED BY <2>2 DEF Abort
  <1>. QED
    BY <1>1, CoordFrame
       DEF OnNodeRecover, coordVars, serverVars, CoordInv, KnownAttempts, HasPending

(* So does a FreezeAck: it moves the phase of the attempt it names. *)
LEMMA CoordFreezeAck ==
  ASSUME TypeOK, CoordInv, NEW m \in DOMAIN net, HandleFreezeAck(m),
         UNCHANGED serverVars
  PROVE  CoordInv'
  <1>1. CASE ~FreezeAckAccepted(m)
    <2>1. DOMAIN net' \subseteq DOMAIN net
      BY <1>1, ReceiveAdds DEF HandleFreezeAck
    <2>. QED
      BY <1>1, <2>1, CoordFrame
         DEF HandleFreezeAck, serverVars, CoordInv, KnownAttempts, HasPending
  <1>2. CASE FreezeAckAccepted(m)
    <2>. PICK s : s = m.shard
      OBVIOUS
    <2>. PICK b : b = Begin(meta[s].owner, s, meta[s].epoch, meta[s].target,
                            meta[s].attempt)
      OBVIOUS
    <2>1. /\ s \in Shards /\ meta[s].state = "FREEZE" /\ m.attempt = meta[s].attempt
          /\ meta' = [meta EXCEPT ![s] = [@ EXCEPT !.state = "TRANSFER"]]
          /\ UNCHANGED attempts
          /\ Receive(m, {b})
      BY <1>2, MessageKinds
         DEF HandleFreezeAck, FreezeAckAccepted, TypeOK, AckMsg
    <2>2. /\ \A t \in Shards : t # s => meta'[t] = meta[t]
          /\ meta'[s].state = "TRANSFER" /\ meta'[s].attempt = meta[s].attempt
          /\ meta'[s].owner = meta[s].owner /\ meta'[s].epoch = meta[s].epoch
          /\ meta'[s].target = meta[s].target
      BY <2>1 DEF TypeOK, CoordTypeOK, MetaRecord, StableRecord, ReassignedRecord
    <2>3. MetaMatchesAttempt'
      <3>. SUFFICES ASSUME NEW t \in Shards
                    PROVE  IF meta'[t].state = "STABLE"
                           THEN meta'[t].attempt = NoAttempt
                           ELSE /\ meta'[t].attempt \in DOMAIN attempts
                                /\ attempts[meta'[t].attempt] =
                                     [shard |-> t, from |-> meta'[t].owner,
                                      to |-> meta'[t].target,
                                      epoch |-> meta'[t].epoch,
                                      outcome |-> "pending"]
        BY <2>1 DEF MetaMatchesAttempt
      <3>. QED BY <2>1, <2>2 DEF CoordInv, MetaMatchesAttempt
    <2>4. UndecidedIsCurrent'
      BY <2>1, <2>2, LogDomain DEF CoordInv, UndecidedIsCurrent, Decided, AttemptRecord
    <2>5. /\ DOMAIN net' \subseteq DOMAIN net \cup {b}
          /\ b.type = "BeginTransfer" /\ b.attempt = meta[s].attempt /\ b.shard = s
      BY <2>1, ReceiveAdds DEF Begin
    <2>6. KnownIn(b.attempt, b.shard)
      BY <2>1, <2>5, CurrentAttempt
    <2>7. KnownAttempts'
      BY <2>1, <2>5, <2>6
         DEF CoordInv, KnownAttempts, serverVars, HasPending, KnownIn, AttemptsOf
    <2>8. MessagesFollowDecision'
      BY <2>1, <2>5 DEF CoordInv, MessagesFollowDecision
    <2>. QED BY <2>3, <2>4, <2>7, <2>8 DEF CoordInv
  <1>. QED BY <1>1, <1>2

(* So does a TransferAck: it decides the attempt it names. *)
LEMMA CoordTransferAck ==
  ASSUME TypeOK, CoordInv, NEW m \in DOMAIN net, HandleTransferAck(m),
         UNCHANGED serverVars
  PROVE  CoordInv'
  <1>1. CASE ~TransferAckAccepted(m)
    <2>1. DOMAIN net' \subseteq DOMAIN net /\ UNCHANGED coordVars
      BY <1>1, ReceiveAdds DEF HandleTransferAck
    <2>. QED
      BY <2>1, CoordFrame DEF coordVars, serverVars, CoordInv, KnownAttempts, HasPending
  <1>2. CASE TransferAckAccepted(m)
    <2>. PICK s : s = m.shard
      OBVIOUS
    <2>. PICK a : a = meta[s].attempt
      OBVIOUS
    <2>0. /\ s \in Shards /\ meta[s].state = "TRANSFER"
          /\ DOMAIN attempts' = DOMAIN attempts
          /\ attempts'[a] = [attempts[a] EXCEPT !.outcome = "complete"]
          /\ \A b \in DOMAIN attempts : b # a => attempts'[b] = attempts[b]
          /\ meta'[s] = Committed(meta[s])
          /\ \A t \in Shards : t # s => meta'[t] = meta[t]
          /\ Receive(m, CommitMessages(s))
      BY <1>2, CommitLog
    <2>1. a \in DOMAIN attempts /\ attempts[a].shard = s /\ ~Decided(a)
      BY <2>0, CurrentAttempt
    <2>2. /\ meta'[s].state = "STABLE" /\ meta'[s].attempt = NoAttempt
          /\ attempts'[a].outcome = "complete" /\ attempts'[a].shard = s
      BY <2>0, <2>1, LogDomain DEF Committed, AttemptRecord
    <2>3. MetaMatchesAttempt'
      <3>. SUFFICES ASSUME NEW t \in Shards
                    PROVE  IF meta'[t].state = "STABLE"
                           THEN meta'[t].attempt = NoAttempt
                           ELSE /\ meta'[t].attempt \in DOMAIN attempts'
                                /\ attempts'[meta'[t].attempt] =
                                     [shard |-> t, from |-> meta'[t].owner,
                                      to |-> meta'[t].target,
                                      epoch |-> meta'[t].epoch,
                                      outcome |-> "pending"]
        BY DEF MetaMatchesAttempt
      <3>1. CASE t = s
        BY <2>2, <3>1
      <3>2. CASE t # s /\ meta[t].state = "STABLE"
        BY <2>0, <2>1, <3>2 DEF CoordInv, MetaMatchesAttempt
      <3>3. CASE t # s /\ meta[t].state # "STABLE"
        <4>1. meta[t].attempt # a
          BY <2>0, <2>1, <3>3, CurrentAttempt
        <4>. QED BY <2>0, <2>1, <3>3, <4>1, CurrentAttempt
      <3>. QED BY <3>1, <3>2, <3>3
    <2>4. UndecidedIsCurrent'
      <3>. SUFFICES ASSUME NEW b \in DOMAIN attempts, attempts'[b].outcome = "pending"
                    PROVE  meta'[attempts'[b].shard].attempt = b
        BY <2>0, <2>1 DEF UndecidedIsCurrent, Decided
      <3>1. b # a /\ attempts'[b] = attempts[b] /\ ~Decided(b)
        BY <2>0, <2>1, <2>2 DEF Decided
      <3>2. meta[attempts[b].shard].attempt = b /\ attempts[b].shard \in Shards
        BY <3>1, LogDomain DEF CoordInv, UndecidedIsCurrent, AttemptRecord
      <3>3. attempts[b].shard # s
        BY <3>1, <3>2
      <3>. QED BY <2>0, <2>1, <3>1, <3>2, <3>3
    <2>5. \A b, t : KnownIn(b, t) => KnownIn(b, t)'
      <3>1. ASSUME NEW b \in DOMAIN attempts PROVE attempts'[b].shard = attempts[b].shard
        <4>1. CASE b = a
          BY <2>1, <2>2, <4>1
        <4>2. CASE b # a
          BY <2>0, <4>2
        <4>. QED BY <4>1, <4>2
      <3>. QED BY <2>0, <3>1 DEF KnownIn, AttemptsOf
    <2>6. ASSUME NEW o \in DOMAIN net' \ DOMAIN net
          PROVE  /\ o.type \in {"ActivateShard", "CleanupShard"}
                 /\ o.attempt = a /\ o.shard = s
      <3>1. o \in CommitMessages(s)
        BY <2>0, <2>1, ReceiveAdds
      <3>. QED BY <3>1 DEF CommitMessages, Activate, Cleanup, Control
    <2>7. KnownIn(a, s)'
      BY <2>0, <2>1, <2>2 DEF KnownIn, AttemptsOf
    <2>8. KnownAttempts'
      BY <2>5, <2>6, <2>7 DEF CoordInv, KnownAttempts, serverVars, HasPending
    <2>9. MessagesFollowDecision'
      <3>1. ASSUME NEW o \in DOMAIN net,
                   o.type \in {"ActivateShard", "CleanupShard"} \/
                   (o.type = "AbortReconfiguration" /\ ~o.resync)
            PROVE  attempts'[o.attempt] = attempts[o.attempt]
        BY <2>0, <2>1, <3>1 DEF CoordInv, KnownAttempts, KnownIn, AttemptsOf,
                          MessagesFollowDecision, Decided
      <3>. QED BY <2>2, <2>6, <3>1 DEF CoordInv, MessagesFollowDecision
    <2>. QED BY <2>3, <2>4, <2>8, <2>9 DEF CoordInv
  <1>. QED BY <1>1, <1>2

(* So does a PUT, which keeps every mark. *)
LEMMA CoordClient ==
  ASSUME TypeOK, CoordInv, NEW n \in Servers, NEW s \in Shards, NEW e,
         NEW v \in Values, ClientPut(n, s, e, v), UNCHANGED coordVars
  PROVE  CoordInv'
  <1>1. local[n][s] \in HeldRecord
    BY DEF ClientPut, Serves, Held, TypeOK, ServerTypeOK, LocalRecord
  <1>2. local' = [local EXCEPT ![n][s] = [@ EXCEPT !.data = v]]
    BY DEF ClientPut
  <1>3. \A p \in Servers, t \in Shards : local'[p][t].attempt = local[p][t].attempt
    BY <1>1, <1>2 DEF HeldRecord, TypeOK, ServerTypeOK
  <1>. QED
    BY <1>3, CoordFrame DEF ClientPut, coordVars, CoordInv, KnownAttempts, HasPending

(* CoordInv is inductive, given the types. *)
LEMMA CoordStep == TypeOK /\ CoordInv /\ [Next]_vars => CoordInv'
  <1>. SUFFICES ASSUME TypeOK, CoordInv, [Next]_vars PROVE CoordInv'
    OBVIOUS
  <1>1. CASE UNCHANGED vars
    BY <1>1, CoordFrame
       DEF vars, coordVars, serverVars, CoordInv, KnownAttempts, HasPending
  <1>2. ASSUME NEW m \in DOMAIN net, Deliver(m) PROVE CoordInv'
    <2>1. CASE DeliverToCoordinator(m)
      BY <2>1, CoordFreezeAck, CoordTransferAck DEF DeliverToCoordinator
    <2>2. CASE DeliverToServer(m)
      BY <2>2, CoordServerStep DEF DeliverToServer
    <2>3. CASE DeliverToDeadNode(m)
      <3>1. DOMAIN net' \subseteq DOMAIN net
        BY <2>3, ReceiveAdds DEF DeliverToDeadNode
      <3>. QED
        BY <2>3, <3>1, CoordFrame
           DEF DeliverToDeadNode, coordVars, serverVars, CoordInv, KnownAttempts,
               HasPending
    <2>. QED BY <1>2, <2>1, <2>2, <2>3 DEF Deliver
  <1>3. ASSUME NEW s \in Shards, TimerFires(s) PROVE CoordInv'
    BY <1>3, CoordTimeout DEF TimerFires
  <1>4. ASSUME NEW s \in Shards, NEW new \in Servers, StartReassign(s, new)
        PROVE  CoordInv'
    BY <1>4, CoordReassign DEF StartReassign
  <1>5. ASSUME NEW n \in Servers, CrashNode(n) PROVE CoordInv'
    <2>. DEFINE S == {s \in Shards : meta[s].state # "STABLE" /\ Participates(n, s)}
    <2>1. AbortReconfigurations(S) /\ UNCHANGED serverVars
      BY <1>5 DEF CrashNode, OnNodeCrash
    <2>. QED BY <2>1, CoordAbort
  <1>6. ASSUME NEW n \in Servers, RecoverNode(n) PROVE CoordInv'
    BY <1>6, CoordRecover DEF RecoverNode
  <1>7. ASSUME NEW n \in Servers, NEW s \in Shards, NEW e, NEW v \in Values,
               ClientWrite(n, s, e, v)
        PROVE  CoordInv'
    BY <1>7, CoordClient DEF ClientWrite
  <1>. QED
    BY <1>1, <1>2, <1>3, <1>4, <1>5, <1>6, <1>7, FaultsAssumption DEF Next, Delivery

(* The metadata, the log of attempts and the messages in flight agree      *)
(* under every fault of the model.                                         *)
THEOREM CoordInvariant == Spec => []CoordInv
  BY TypeInit, TypeStep, CoordInvInit, CoordStep, PTL DEF Spec

(* A server is never told to activate or clean up for an attempt that has  *)
(* not completed, nor to roll back one that has not aborted.               *)
THEOREM MessagesAgree == Spec => []MessagesFollowDecision
  BY CoordInvariant, PTL DEF CoordInv

(* No reassignment is forgotten half way: the undecided attempts are       *)
(* exactly those that the metadata names.                                  *)
THEOREM NothingOrphaned == Spec => []NoOrphanAttempt
  <1>1. TypeOK /\ CoordInv => NoOrphanAttempt
    BY CurrentAttempt DEF NoOrphanAttempt, CoordInv, UndecidedIsCurrent, KnownIn
  <1>. QED BY <1>1, TypeCorrect, CoordInvariant, PTL

(* A commit leaves every decided attempt alone. *)
LEMMA CommitKeeps ==
  ASSUME TypeOK, CoordInv, NEW m \in DOMAIN net, HandleTransferAck(m),
         TransferAckAccepted(m), NEW c \in DOMAIN attempts, Decided(c)
  PROVE  attempts'[c] = attempts[c]
  <1>. PICK s : s = m.shard
    OBVIOUS
  <1>. PICK a : a = meta[s].attempt
    OBVIOUS
  <1>1. /\ s \in Shards /\ meta[s].state = "TRANSFER"
        /\ attempts'[a] = [attempts[a] EXCEPT !.outcome = "complete"]
        /\ \A b \in DOMAIN attempts : b # a => attempts'[b] = attempts[b]
    BY CommitLog
  <1>2. c # a
    BY <1>1, CurrentAttempt
  <1>. QED BY <1>1, <1>2

(* What a step does to the log: attempts are added and decided, and a      *)
(* decided attempt stays as it is.                                         *)
LEMMA DecisionsStay ==
  ASSUME TypeOK, CoordInv, [Next]_vars, NEW a \in DOMAIN attempts, Decided(a)
  PROVE  attempts'[a] = attempts[a]
  <1>1. CASE UNCHANGED attempts
    BY <1>1
  <1>2. ASSUME NEW s \in Shards, NEW new \in Servers, Reassign(s, new)
        PROVE  attempts'[a] = attempts[a]
    BY <1>2, ReassignLog
  <1>3. ASSUME NEW S \in SUBSET Shards, \A s \in S : meta[s].state # "STABLE",
               AbortReconfigurations(S)
        PROVE  attempts'[a] = attempts[a]
    BY <1>3, AbortLog
  <1>4. ASSUME NEW m \in DOMAIN net, HandleTransferAck(m)
        PROVE  attempts'[a] = attempts[a]
    <2>1. CASE TransferAckAccepted(m)
      BY <1>4, <2>1, CommitKeeps
    <2>. QED BY <1>1, <1>4, <2>1 DEF HandleTransferAck, coordVars
  <1>5. ASSUME NEW s \in Shards, TimerFires(s) PROVE attempts'[a] = attempts[a]
    <2>1. meta[s].state # "STABLE"
      BY <1>5, FaultsAssumption
         DEF TimerFires, PhaseTimeout, RetryPhase, RepeatRequest, AbortAfterTimeouts, TimerRunning
    <2>. QED
      BY <1>1, <1>3, <1>5, <2>1
         DEF TimerFires, PhaseTimeout, RetryPhase, RepeatRequest, AbortAfterTimeouts
  <1>6. ASSUME NEW n \in Servers, CrashNode(n) PROVE attempts'[a] = attempts[a]
    <2>. DEFINE S == {s \in Shards : meta[s].state # "STABLE" /\ Participates(n, s)}
    <2>1. AbortReconfigurations(S)
      BY <1>6 DEF CrashNode, OnNodeCrash
    <2>. QED BY <1>3, <2>1
  <1>7. ASSUME Delivery PROVE attempts'[a] = attempts[a]
    BY <1>1, <1>4, <1>7
       DEF Delivery, Deliver, DeliverToCoordinator, DeliverToServer,
           DeliverToDeadNode, HandleFreezeAck, coordVars
  <1>8. CASE Next
    BY <1>1, <1>2, <1>5, <1>6, <1>7, <1>8, FaultsAssumption
       DEF Next, StartReassign, RecoverNode, OnNodeRecover, ClientWrite, coordVars
  <1>. QED BY <1>1, <1>8 DEF vars, coordVars

(* Commit and abort exclude each other: an acknowledgement that arrives    *)
(* after the abort, or a timer, a crash report or a repeated               *)
(* acknowledgement after the commit, changes nothing.                      *)
THEOREM DecisionsAreFinal == Spec => DecidedOnce
  <1>1. TypeOK /\ CoordInv /\ [Next]_vars =>
          [\A a \in DOMAIN attempts : Decided(a) => attempts'[a] = attempts[a]]_vars
    BY DecisionsStay
  <1>. QED BY <1>1, TypeCorrect, CoordInvariant, PTL DEF Spec, DecidedOnce
=============================================================================
