---------------------------- MODULE EpochProofs ----------------------------
(***************************************************************************)
(* Epochs under every fault: EpochInv is inductive, so nothing is ahead of *)
(* the metadata, a shard appears at a server only at the epoch of a        *)
(* commit, and the epoch of a shard counts its decisions.                  *)
(***************************************************************************)
EXTENDS FiniteSetTheorems, BookkeepingProofs

(* What no step changes: the log only grows, a record keeps everything but *)
(* its outcome, and the epoch of a shard never decreases.                  *)
LogGrows ==
    /\ \A a \in DOMAIN attempts :
          /\ a \in DOMAIN attempts'
          /\ attempts'[a].shard = attempts[a].shard
          /\ attempts'[a].from = attempts[a].from
          /\ attempts'[a].to = attempts[a].to
          /\ attempts'[a].epoch = attempts[a].epoch
    /\ \A s \in Shards : meta'[s].epoch >= meta[s].epoch

(* The epochs of the metadata are numbers, and so are those of the log. *)
LEMMA EpochTypes ==
  ASSUME TypeOK
  PROVE  /\ \A s \in Shards : meta[s].epoch \in Nat
         /\ \A a \in DOMAIN attempts : attempts[a].epoch \in Nat /\ attempts[a].shard \in Shards
         /\ \A m \in DOMAIN net : m.epoch \in Nat /\ m.shard \in Shards
         /\ \A n \in Servers, s \in Shards : local[n][s].epoch \in Nat /\ pending[n][s].epoch \in Nat
  <1>1. \A s \in Shards : meta[s].epoch \in Nat
    BY DEF TypeOK, CoordTypeOK, MetaRecord, StableRecord, ReassignedRecord
  <1>2. \A a \in DOMAIN attempts : attempts[a].epoch \in Nat /\ attempts[a].shard \in Shards
    BY LogDomain DEF AttemptRecord
  <1>3. \A m \in DOMAIN net : m.epoch \in Nat /\ m.shard \in Shards
    BY DEF TypeOK, Message, ControlMsg, BeginTransferMsg, AbortMsg, AckMsg, TransferShardMsg
  <1>4. \A n \in Servers, s \in Shards : local[n][s].epoch \in Nat
    BY DEF TypeOK, ServerTypeOK, LocalRecord, HeldRecord, Absent
  <1>5. \A n \in Servers, s \in Shards : pending[n][s].epoch \in Nat
    BY DEF TypeOK, ServerTypeOK, PendingRecord, NoCopy
  <1>. QED BY <1>1, <1>2, <1>3, <1>4, <1>5

(* The record of the current attempt of a shard. *)
LEMMA CurrentRecord ==
  ASSUME CoordInv, NEW s \in Shards, meta[s].state # "STABLE",
         NEW a, a = meta[s].attempt
  PROVE  /\ a \in DOMAIN attempts
         /\ attempts[a].shard = s
         /\ attempts[a].to = meta[s].target
         /\ attempts[a].epoch = meta[s].epoch
         /\ ~Decided(a)
  <1>1. /\ meta[s].attempt \in DOMAIN attempts
        /\ attempts[meta[s].attempt] = [shard   |-> s,
                                        from    |-> meta[s].owner,
                                        to      |-> meta[s].target,
                                        epoch   |-> meta[s].epoch,
                                        outcome |-> "pending"]
    BY DEF CoordInv, MetaMatchesAttempt
  <1>2. /\ attempts[meta[s].attempt].shard = s
        /\ attempts[meta[s].attempt].to = meta[s].target
        /\ attempts[meta[s].attempt].epoch = meta[s].epoch
        /\ attempts[meta[s].attempt].outcome = "pending"
    BY <1>1
  <1>. QED BY <1>1, <1>2 DEF Decided

(* A step that decides attempts raises the epochs of their shards by one. *)
LEMMA DecideEpochs ==
  ASSUME TypeOK, AttemptEpochs, LogGrows,
         DOMAIN attempts' = DOMAIN attempts,
         \A s \in Shards : meta'[s].epoch \in {meta[s].epoch, meta[s].epoch + 1},
         \A a \in DOMAIN attempts : Decided(a)' /\ ~Decided(a) =>
            meta'[attempts[a].shard].epoch = meta[attempts[a].shard].epoch + 1
  PROVE  AttemptEpochs'
  <1>1. ASSUME NEW a \in DOMAIN attempts
        PROVE  /\ attempts'[a].epoch <= meta'[attempts'[a].shard].epoch
               /\ Decided(a)' => attempts'[a].epoch < meta'[attempts'[a].shard].epoch
    <2>1. /\ attempts'[a].epoch = attempts[a].epoch
          /\ attempts'[a].shard = attempts[a].shard
          /\ attempts[a].shard \in Shards /\ attempts[a].epoch \in Nat
          /\ meta[attempts[a].shard].epoch \in Nat
      BY EpochTypes DEF LogGrows
    <2>2. /\ attempts[a].epoch <= meta[attempts[a].shard].epoch
          /\ Decided(a) => attempts[a].epoch < meta[attempts[a].shard].epoch
      BY DEF AttemptEpochs
    <2>. QED BY <2>1, <2>2
  <1>2. ASSUME NEW a \in DOMAIN attempts, NEW b \in DOMAIN attempts,
               attempts'[a].shard = attempts'[b].shard, a < b
        PROVE  attempts'[a].epoch < attempts'[b].epoch
    BY <1>2 DEF AttemptEpochs, LogGrows
  <1>. QED BY <1>1, <1>2 DEF AttemptEpochs

(* Messages keep their epochs, and stay behind the metadata. *)
LEMMA MessageKept ==
  ASSUME TypeOK, CoordInv, LogGrows, NEW m \in DOMAIN net, MessageEpoch(m),
         TypeOK'
  PROVE  MessageEpoch(m)'
  <1>1. m.attempt \in DOMAIN attempts \/ m.type = "AbortReconfiguration"
    BY DEF CoordInv, KnownAttempts, KnownIn, AttemptsOf
  <1>2. m.epoch <= meta'[m.shard].epoch
    <2>1. /\ m.epoch \in Nat /\ m.shard \in Shards
          /\ meta[m.shard].epoch \in Nat
          /\ m.epoch <= meta[m.shard].epoch
      BY EpochTypes DEF MessageEpoch
    <2>2. meta'[m.shard].epoch \in Nat
      BY <2>1 DEF TypeOK, CoordTypeOK, MetaRecord, StableRecord, ReassignedRecord
    <2>. QED BY <2>1, <2>2 DEF LogGrows
  <1>3. CASE m.type = "AbortReconfiguration"
    BY <1>2, <1>3 DEF MessageEpoch
  <1>4. CASE m.type # "AbortReconfiguration"
    <2>. PICK r : r = attempts[m.attempt]
      OBVIOUS
    <2>. PICK q : q = attempts'[m.attempt]
      OBVIOUS
    <2>1. q.epoch = r.epoch /\ q.to = r.to
      BY <1>1, <1>4 DEF LogGrows
    <2>. QED BY <1>2, <2>1 DEF MessageEpoch
  <1>. QED BY <1>3, <1>4

(* A step that keeps the servers needs only what it sends. *)
LEMMA CoordEpochFrame ==
  ASSUME TypeOK, TypeOK', CoordInv, EpochInv, LogGrows, AttemptEpochs',
         UNCHANGED <<local, pending>>,
         \A o \in DOMAIN net' \ DOMAIN net : MessageEpoch(o)'
  PROVE  EpochInv'
  <1>1. \A m \in DOMAIN net' : MessageEpoch(m)'
    BY MessageKept DEF EpochInv
  <1>2. ASSUME NEW n \in Servers, NEW s \in Shards
        PROVE  (HasPending(n, s) => CopyEpoch(n, s))'
    BY DEF EpochInv, CopyEpoch, HasPending, LogGrows, CoordInv, KnownAttempts,
           KnownIn, AttemptsOf
  <1>3. ASSUME NEW n \in Servers, NEW s \in Shards
        PROVE  local'[n][s].epoch <= meta'[s].epoch
    <2>1. meta'[s].epoch \in Nat
      BY DEF TypeOK, CoordTypeOK, MetaRecord, StableRecord, ReassignedRecord
    <2>. QED BY <2>1, EpochTypes DEF EpochInv, LogGrows
  <1>. QED BY <1>1, <1>2, <1>3 DEF EpochInv

-----------------------------------------------------------------------------
(* The steps of the coordinator. *)

(* reassign: every earlier attempt at the shard is decided, so its epoch   *)
(* is smaller than the one the new attempt takes.                          *)
LEMMA EpochReassign ==
  ASSUME TypeOK, TypeOK', CoordInv, EpochInv, NEW s \in Shards, NEW new \in Servers,
         Reassign(s, new), UNCHANGED serverVars
  PROVE  EpochInv'
  <1>. PICK a : a = NextAttempt
    OBVIOUS
  <1>. PICK f : f = Freeze(meta[s].owner, s, meta[s].epoch, a)
    OBVIOUS
  <1>1. /\ \A t \in Shards : t # s => meta'[t] = meta[t]
        /\ meta[s].state = "STABLE"
        /\ meta'[s].epoch = meta[s].epoch
        /\ DOMAIN net' \subseteq DOMAIN net \cup {f}
    BY SendAdds DEF Reassign, ReassignAllowed, TypeOK, CoordTypeOK
  <1>2. /\ DOMAIN attempts' = DOMAIN attempts \cup {a}
        /\ a \notin DOMAIN attempts
        /\ \A b \in DOMAIN attempts : attempts'[b] = attempts[b]
        /\ attempts'[a] = [shard |-> s, from |-> meta[s].owner, to |-> new,
                           epoch |-> meta[s].epoch, outcome |-> "pending"]
    BY ReassignLog
  <1>3. \A b \in DOMAIN attempts : b < a
    BY LogDomain DEF NextAttempt
  <1>4. \A t \in Shards : meta'[t].epoch = meta[t].epoch
    BY <1>1
  <1>5. LogGrows
    BY <1>2, <1>4, EpochTypes DEF LogGrows
  <1>6. \A b \in DOMAIN attempts : attempts[b].shard = s => attempts[b].epoch < meta[s].epoch
    <2>1. ASSUME NEW b \in DOMAIN attempts, attempts[b].shard = s PROVE Decided(b)
      BY <1>1, <2>1, LogDomain DEF CoordInv, UndecidedIsCurrent, MetaMatchesAttempt
    <2>. QED BY <2>1 DEF EpochInv, AttemptEpochs
  <1>7. AttemptEpochs'
    <2>1. ASSUME NEW b \in DOMAIN attempts', NEW c \in DOMAIN attempts',
                 attempts'[b].shard = attempts'[c].shard, b < c
          PROVE  attempts'[b].epoch < attempts'[c].epoch
      <3>1. b \in DOMAIN attempts
        BY <1>2, <1>3, <2>1, LogDomain DEF NextAttempt
      <3>2. CASE c = a
        BY <1>2, <1>6, <2>1, <3>1, <3>2
      <3>3. CASE c # a
        BY <1>2, <2>1, <3>1, <3>3 DEF EpochInv, AttemptEpochs
      <3>. QED BY <3>2, <3>3
    <2>2. ASSUME NEW b \in DOMAIN attempts'
          PROVE  /\ attempts'[b].epoch <= meta'[attempts'[b].shard].epoch
                 /\ Decided(b)' => attempts'[b].epoch < meta'[attempts'[b].shard].epoch
      <3>1. CASE b = a
        BY <1>2, <1>4, <3>1, EpochTypes DEF Decided
      <3>2. CASE b # a
        BY <1>2, <1>4, <3>2, EpochTypes DEF EpochInv, AttemptEpochs, Decided
      <3>. QED BY <3>1, <3>2
    <2>. QED BY <2>1, <2>2 DEF AttemptEpochs
  <1>8. MessageEpoch(f)'
    <2>1. /\ f.type = "FreezeShard" /\ f.epoch = meta[s].epoch
          /\ f.attempt = a /\ f.shard = s
      BY DEF Freeze, Control
    <2>2. f.epoch = attempts'[f.attempt].epoch /\ f.epoch <= meta'[f.shard].epoch
      BY <1>2, <1>4, <2>1, EpochTypes
    <2>. QED BY <2>1, <2>2 DEF MessageEpoch
  <1>. QED BY <1>1, <1>5, <1>7, <1>8, CoordEpochFrame DEF serverVars

(* An abort raises the epoch and tells it. *)
LEMMA EpochAbort ==
  ASSUME TypeOK, TypeOK', CoordInv, EpochInv, NEW S \in SUBSET Shards,
         \A s \in S : meta[s].state # "STABLE",
         AbortReconfigurations(S), UNCHANGED serverVars
  PROVE  EpochInv'
  <1>1. /\ DOMAIN attempts' = DOMAIN attempts
        /\ \A a \in DOMAIN attempts :
              attempts'[a] = IF attempts[a].shard \in S /\ ~Decided(a)
                             THEN [attempts[a] EXCEPT !.outcome = "abort"]
                             ELSE attempts[a]
        /\ \A s \in Shards : meta'[s] = IF s \in S THEN Aborted(meta[s]) ELSE meta[s]
    BY AbortLog
  <1>2. \A s \in Shards :
          meta'[s].epoch = IF s \in S THEN meta[s].epoch + 1 ELSE meta[s].epoch
    <2>1. ASSUME NEW s \in S PROVE meta'[s].epoch = meta[s].epoch + 1
      <3>1. meta'[s] = Aborted(meta[s])
        BY <1>1
      <3>. QED BY <3>1 DEF Aborted
    <2>2. ASSUME NEW s \in Shards, s \notin S PROVE meta'[s].epoch = meta[s].epoch
      <3>1. meta'[s] = meta[s]
        BY <1>1, <2>2
      <3>. QED BY <3>1
    <2>. QED BY <2>1, <2>2
  <1>3. LogGrows
    BY <1>1, <1>2, EpochTypes, LogDomain DEF LogGrows, AttemptRecord
  <1>4. \A a \in DOMAIN attempts : Decided(a)' /\ ~Decided(a) =>
            meta'[attempts[a].shard].epoch = meta[attempts[a].shard].epoch + 1
    BY <1>1, <1>2, EpochTypes DEF Decided
  <1>5. AttemptEpochs'
    BY <1>1, <1>2, <1>3, <1>4, DecideEpochs DEF EpochInv
  <1>6. ASSUME NEW o \in DOMAIN net' \ DOMAIN net PROVE MessageEpoch(o)'
    <2>1. o \in UNION {AbortMessages(s) : s \in S}
      BY SendAdds DEF AbortReconfigurations
    <2>2. PICK s \in S : o \in AbortMessages(s)
      BY <2>1
    <2>3. o.type = "AbortReconfiguration" /\ o.shard = s /\ o.epoch = meta[s].epoch + 1
      BY <2>2 DEF AbortMessages, Abort
    <2>4. o.epoch <= meta'[o.shard].epoch
      BY <1>2, <2>3, EpochTypes
    <2>. QED BY <2>3, <2>4 DEF MessageEpoch
  <1>. QED BY <1>3, <1>5, <1>6, CoordEpochFrame DEF serverVars

(* Steps that leave the log and the epochs alone. *)
LEMMA EpochUnchanged ==
  ASSUME TypeOK, TypeOK', CoordInv, EpochInv, UNCHANGED <<attempts, local, pending>>,
         \A s \in Shards : meta'[s].epoch = meta[s].epoch,
         \A o \in DOMAIN net' \ DOMAIN net : MessageEpoch(o)
  PROVE  EpochInv'
  <1>1. LogGrows
    BY EpochTypes DEF LogGrows
  <1>2. AttemptEpochs'
    BY EpochTypes DEF EpochInv, AttemptEpochs, Decided
  <1>3. ASSUME NEW o \in DOMAIN net' \ DOMAIN net PROVE MessageEpoch(o)'
    <2>1. o.shard \in Shards
      BY DEF TypeOK, Message, ControlMsg, BeginTransferMsg, AbortMsg, AckMsg,
             TransferShardMsg
    <2>2. MessageEpoch(o)
      OBVIOUS
    <2>. QED BY <2>1, <2>2 DEF MessageEpoch
  <1>. QED BY <1>1, <1>2, <1>3, CoordEpochFrame

(* The request of a phase has the epoch of its attempt. *)
LEMMA RequestEpoch ==
  ASSUME TypeOK, CoordInv, NEW s \in Shards, meta[s].state # "STABLE", NEW o,
         o \in {Freeze(meta[s].owner, s, meta[s].epoch, meta[s].attempt),
                Begin(meta[s].owner, s, meta[s].epoch, meta[s].target, meta[s].attempt)}
  PROVE  MessageEpoch(o)
  <1>1. /\ o.type \in {"FreezeShard", "BeginTransfer"} /\ o.shard = s
        /\ o.attempt = meta[s].attempt /\ o.epoch = meta[s].epoch
        /\ o.type = "BeginTransfer" => o.target = meta[s].target
    BY DEF Freeze, Control, Begin
  <1>2. /\ attempts[o.attempt].epoch = meta[s].epoch
        /\ attempts[o.attempt].to = meta[s].target
    BY <1>1, CurrentRecord
  <1>. QED BY <1>1, <1>2, EpochTypes DEF MessageEpoch

(* A timeout repeats the request of its attempt or decides it. *)
LEMMA EpochTimeout ==
  ASSUME TypeOK, TypeOK', CoordInv, EpochInv, NEW s \in Shards, PhaseTimeout(s),
         UNCHANGED serverVars
  PROVE  EpochInv'
  <1>1. meta[s].state # "STABLE"
    BY FaultsAssumption
       DEF PhaseTimeout, RetryPhase, RepeatRequest, AbortAfterTimeouts, TimerRunning
  <1>2. CASE RetryPhase(s)
    <2>1. \A o \in DOMAIN net' \ DOMAIN net : o = RetryMessage(s)
      BY <1>2, SendAdds DEF RetryPhase, RepeatRequest
    <2>2. MessageEpoch(RetryMessage(s))
      BY <1>1, RequestEpoch DEF RetryMessage
    <2>. QED BY <1>2, <2>1, <2>2, EpochUnchanged DEF RetryPhase, RepeatRequest, serverVars
  <1>3. CASE AbortAfterTimeouts(s)
    BY <1>1, <1>3, EpochAbort DEF AbortAfterTimeouts
  <1>. QED BY <1>2, <1>3 DEF PhaseTimeout

(* A resynchronisation names the epoch of the metadata. *)
LEMMA EpochRecover ==
  ASSUME TypeOK, TypeOK', CoordInv, EpochInv, NEW n \in Servers, OnNodeRecover(n),
         UNCHANGED serverVars
  PROVE  EpochInv'
  <1>1. ASSUME NEW o \in DOMAIN net' \ DOMAIN net PROVE MessageEpoch(o)
    <2>. DEFINE Resyncs == {Abort(n, s, meta[s].epoch, meta[s].attempt, TRUE) :
                              s \in {t \in Shards : Participates(n, t)}}
    <2>1. Send(Resyncs)
      BY DEF OnNodeRecover
    <2>2. o \in Resyncs
      BY <2>1, SendAdds
    <2>3. PICK s \in Shards : o = Abort(n, s, meta[s].epoch, meta[s].attempt, TRUE)
      BY <2>2
    <2>. QED BY <2>3, EpochTypes DEF Abort, MessageEpoch
  <1>. QED BY <1>1, EpochUnchanged DEF OnNodeRecover, coordVars, serverVars

(* BeginTransfer names the epoch of its attempt. *)
LEMMA EpochFreezeAck ==
  ASSUME TypeOK, TypeOK', CoordInv, EpochInv, NEW m \in DOMAIN net, HandleFreezeAck(m),
         UNCHANGED serverVars
  PROVE  EpochInv'
  <1>1. CASE ~FreezeAckAccepted(m)
    <2>1. DOMAIN net' \subseteq DOMAIN net
      BY <1>1, ReceiveAdds DEF HandleFreezeAck
    <2>. QED BY <1>1, <2>1, EpochUnchanged DEF HandleFreezeAck, serverVars
  <1>2. CASE FreezeAckAccepted(m)
    <2>. PICK s : s = m.shard
      OBVIOUS
    <2>. PICK b : b = Begin(meta[s].owner, s, meta[s].epoch, meta[s].target,
                            meta[s].attempt)
      OBVIOUS
    <2>1. /\ s \in Shards /\ meta[s].state = "FREEZE"
          /\ meta' = [meta EXCEPT ![s].state = "TRANSFER"]
          /\ UNCHANGED attempts
          /\ Receive(m, {b})
      BY <1>2, EpochTypes DEF HandleFreezeAck, FreezeAckAccepted
    <2>2. \A t \in Shards : meta'[t].epoch = meta[t].epoch
      BY <2>1 DEF TypeOK, CoordTypeOK, MetaRecord, StableRecord, ReassignedRecord
    <2>3. DOMAIN net' \subseteq DOMAIN net \cup {b}
      BY <2>1, ReceiveAdds
    <2>4. MessageEpoch(b)
      BY <2>1, RequestEpoch
    <2>. QED BY <2>1, <2>2, <2>3, <2>4, EpochUnchanged DEF serverVars
  <1>. QED BY <1>1, <1>2

(* A commit raises the epoch and sends it to both servers. *)
LEMMA EpochTransferAck ==
  ASSUME TypeOK, TypeOK', CoordInv, EpochInv, NEW m \in DOMAIN net, HandleTransferAck(m),
         UNCHANGED serverVars
  PROVE  EpochInv'
  <1>1. CASE ~TransferAckAccepted(m)
    <2>1. DOMAIN net' \subseteq DOMAIN net /\ UNCHANGED coordVars
      BY <1>1, ReceiveAdds DEF HandleTransferAck
    <2>. QED BY <2>1, EpochUnchanged DEF coordVars, serverVars
  <1>2. CASE TransferAckAccepted(m)
    <2>. PICK s : s = m.shard
      OBVIOUS
    <2>. PICK a : a = meta[s].attempt
      OBVIOUS
    <2>1. /\ s \in Shards /\ meta[s].state = "TRANSFER"
          /\ DOMAIN attempts' = DOMAIN attempts
          /\ attempts'[a] = [attempts[a] EXCEPT !.outcome = "complete"]
          /\ \A b \in DOMAIN attempts : b # a => attempts'[b] = attempts[b]
          /\ meta'[s] = Committed(meta[s])
          /\ \A t \in Shards : t # s => meta'[t] = meta[t]
          /\ Receive(m, CommitMessages(s))
      BY <1>2, CommitLog
    <2>2. /\ a \in DOMAIN attempts /\ attempts[a].shard = s
          /\ attempts[a].to = meta[s].target /\ attempts[a].epoch = meta[s].epoch
      BY <2>1, CurrentRecord
    <2>3. meta'[s].epoch = meta[s].epoch + 1
      BY <2>1 DEF Committed
    <2>4. /\ attempts'[a].shard = s /\ attempts'[a].epoch = meta[s].epoch
          /\ attempts'[a].to = meta[s].target /\ attempts'[a].from = attempts[a].from
      BY <2>1, <2>2, LogDomain DEF AttemptRecord
    <2>5. LogGrows
      <3>1. \A t \in Shards : meta'[t].epoch >= meta[t].epoch
        <4>1. meta'[s].epoch >= meta[s].epoch
          BY <2>1, <2>3, EpochTypes
        <4>2. ASSUME NEW t \in Shards, t # s PROVE meta'[t].epoch >= meta[t].epoch
          <5>1. meta'[t] = meta[t] /\ meta[t].epoch \in Nat
            BY <2>1, <4>2, EpochTypes
          <5>. QED BY <5>1
        <4>. QED BY <4>1, <4>2
      <3>2. ASSUME NEW b \in DOMAIN attempts
            PROVE  /\ b \in DOMAIN attempts'
                   /\ attempts'[b].shard = attempts[b].shard
                   /\ attempts'[b].from = attempts[b].from
                   /\ attempts'[b].to = attempts[b].to
                   /\ attempts'[b].epoch = attempts[b].epoch
        <4>1. CASE b = a
          BY <2>1, <2>2, <2>4, <4>1
        <4>2. CASE b # a
          BY <2>1, <4>2
        <4>. QED BY <4>1, <4>2
      <3>. QED BY <3>1, <3>2 DEF LogGrows
    <2>6. AttemptEpochs'
      BY <2>1, <2>2, <2>3, <2>5, DecideEpochs, EpochTypes DEF EpochInv, Decided
    <2>7. ASSUME NEW o \in DOMAIN net' \ DOMAIN net PROVE MessageEpoch(o)'
      <3>1. o \in CommitMessages(s)
        BY <2>1, ReceiveAdds
      <3>2. /\ o.type \in {"ActivateShard", "CleanupShard"} /\ o.attempt = a
            /\ o.shard = s /\ o.epoch = meta[s].epoch + 1
            /\ o.type = "ActivateShard" => o.dst = meta[s].target
        BY <3>1 DEF CommitMessages, Activate, Cleanup, Control
      <3>. QED BY <2>3, <2>4, <3>2, EpochTypes DEF MessageEpoch
    <2>. QED BY <2>5, <2>6, <2>7, CoordEpochFrame DEF serverVars
  <1>. QED BY <1>1, <1>2

-----------------------------------------------------------------------------
(* The steps of the servers. *)

(* They keep the metadata, and touch one shard at one server. *)
LEMMA ServerEpochFrame ==
  ASSUME TypeOK, EpochInv, UNCHANGED coordVars,
         NEW n \in Servers, NEW s \in Shards,
         \A o \in Servers, t \in Shards : o # n \/ t # s =>
            local'[o][t] = local[o][t] /\ pending'[o][t] = pending[o][t],
         local'[n][s].epoch <= meta[s].epoch,
         \/ pending'[n][s] = pending[n][s]
         \/ HasPending(n, s)' => CopyEpoch(n, s)',
         \A o \in DOMAIN net' \ DOMAIN net : MessageEpoch(o)
  PROVE  EpochInv'
  <1>1. AttemptEpochs'
    BY DEF EpochInv, AttemptEpochs, Decided, coordVars
  <1>2. \A m \in DOMAIN net' : MessageEpoch(m)'
    BY DEF EpochInv, MessageEpoch, coordVars
  <1>3. ASSUME NEW o \in Servers, NEW t \in Shards
        PROVE  /\ (HasPending(o, t) => CopyEpoch(o, t))'
               /\ local'[o][t].epoch <= meta'[t].epoch
    <2>1. CASE o = n /\ t = s
      <3>1. HasPending(n, s) => CopyEpoch(n, s)
        BY DEF EpochInv
      <3>2. (HasPending(n, s) => CopyEpoch(n, s))'
        BY <3>1 DEF HasPending, CopyEpoch, coordVars
      <3>. QED BY <2>1, <3>2 DEF coordVars
    <2>2. CASE o # n \/ t # s
      <3>1. HasPending(o, t) => CopyEpoch(o, t)
        BY DEF EpochInv
      <3>2. local'[o][t] = local[o][t] /\ pending'[o][t] = pending[o][t]
        BY <2>2
      <3>3. local'[o][t].epoch <= meta'[t].epoch
        BY <3>2 DEF EpochInv, coordVars
      <3>. QED BY <3>1, <3>2, <3>3 DEF HasPending, CopyEpoch, coordVars
    <2>. QED BY <2>1, <2>2
  <1>. QED BY <1>1, <1>2, <1>3 DEF EpochInv

(* An acknowledgement has the epoch of the message it answers. *)
LEMMA AckEpoch ==
  ASSUME NEW m, MessageEpoch(m), NEW o,
         \/ m.type = "FreezeShard" /\ o = Ack("FreezeAck", m)
         \/ m.type = "TransferShard" /\ o = Ack("TransferAck", m)
  PROVE  MessageEpoch(o)
  BY DEF Ack, MessageEpoch

(* A message that is ignored, or only answered. *)
LEMMA EpochIgnore ==
  ASSUME TypeOK, EpochInv, NEW m, NEW f, Receive(m, {f}) \/ Receive(m, {}),
         Receive(m, {f}) => MessageEpoch(f),
         UNCHANGED <<coordVars, serverVars>>
  PROVE  EpochInv'
  <1>1. \A o \in DOMAIN net' \ DOMAIN net : MessageEpoch(o)
    BY ReceiveAdds
  <1>2. AttemptEpochs'
    BY DEF EpochInv, AttemptEpochs, Decided, coordVars
  <1>3. \A o \in DOMAIN net' : MessageEpoch(o)'
    BY <1>1 DEF EpochInv, MessageEpoch, coordVars
  <1>. QED BY <1>2, <1>3 DEF EpochInv, CopyEpoch, HasPending, coordVars, serverVars

(* A freeze marks the shard with an attempt of its own epoch. *)
LEMMA EpochFreeze ==
  ASSUME TypeOK, EpochInv, NEW m \in DOMAIN net, m.dst \in Servers,
         HandleFreezeShard(m), UNCHANGED coordVars
  PROVE  EpochInv'
  <1>. PICK n \in Servers : n = m.dst
    OBVIOUS
  <1>. PICK s \in Shards : s = m.shard
    BY EpochTypes
  <1>. PICK f : f = Ack("FreezeAck", m)
    OBVIOUS
  <1>1. MessageEpoch(f)
    BY AckEpoch DEF EpochInv, HandleFreezeShard
  <1>2. CASE FreezeEnters(m)
    <2>. PICK r : r = [local[n][s] EXCEPT !.state = "FREEZE", !.attempt = m.attempt]
      OBVIOUS
    <2>1. SetLocal(m, r) /\ Receive(m, {f}) /\ UNCHANGED pending
      BY <1>2 DEF HandleFreezeShard, FreezeEnters, FreezeRepeated, LocalOf
    <2>2. /\ local'[n][s] = r
          /\ \A o \in Servers, t \in Shards : o # n \/ t # s => local'[o][t] = local[o][t]
      BY <2>1, LocalSet
    <2>3. r.epoch = local[n][s].epoch
      BY DEF TypeOK, ServerTypeOK, LocalRecord, HeldRecord, Absent
    <2>4. local'[n][s].epoch <= meta[s].epoch
      BY <2>2, <2>3 DEF EpochInv
    <2>5. \A o \in DOMAIN net' \ DOMAIN net : MessageEpoch(o)
      BY <1>1, <2>1, ReceiveAdds
    <2>6. /\ pending'[n][s] = pending[n][s]
          /\ \A o \in Servers, t \in Shards : o # n \/ t # s =>
                local'[o][t] = local[o][t] /\ pending'[o][t] = pending[o][t]
      BY <2>1, <2>2
    <2>. QED BY <2>4, <2>5, <2>6, ServerEpochFrame
  <1>3. CASE ~FreezeEnters(m)
    BY <1>1, <1>3, EpochIgnore DEF HandleFreezeShard, Ignore
  <1>. QED BY <1>2, <1>3

(* The copy that is sent has the epoch of its attempt. *)
LEMMA EpochBegin ==
  ASSUME TypeOK, EpochInv, NEW m \in DOMAIN net, m.dst \in Servers,
         HandleBeginTransfer(m), UNCHANGED coordVars
  PROVE  EpochInv'
  <1>. PICK n \in Servers : n = m.dst
    OBVIOUS
  <1>. PICK s \in Shards : s = m.shard
    BY EpochTypes
  <1>. PICK f : f = TransferOut(m)
    OBVIOUS
  <1>1. CASE TransferStarts(m)
    <2>. PICK r : r = [local[n][s] EXCEPT !.state = "TRANSFER"]
      OBVIOUS
    <2>1. SetLocal(m, r) /\ Receive(m, {f}) /\ UNCHANGED pending
      BY <1>1 DEF HandleBeginTransfer, LocalOf, Ignore
    <2>2. /\ local'[n][s] = r
          /\ \A o \in Servers, t \in Shards : o # n \/ t # s => local'[o][t] = local[o][t]
      BY <2>1, LocalSet
    <2>3. r.epoch = local[n][s].epoch
      BY DEF TypeOK, ServerTypeOK, LocalRecord, HeldRecord, Absent
    <2>4. /\ f.type = "TransferShard" /\ f.attempt = m.attempt /\ f.epoch = m.epoch
          /\ f.dst = m.target /\ f.shard = m.shard
      BY <1>1 DEF TransferOut, TransferStarts
    <2>5. MessageEpoch(m) /\ m.type = "BeginTransfer"
      BY DEF EpochInv, HandleBeginTransfer
    <2>6. MessageEpoch(f)
      BY <2>4, <2>5 DEF MessageEpoch
    <2>7. local'[n][s].epoch <= meta[s].epoch
      BY <2>2, <2>3 DEF EpochInv
    <2>8. \A o \in DOMAIN net' \ DOMAIN net : MessageEpoch(o)
      BY <2>1, <2>6, ReceiveAdds
    <2>9. /\ pending'[n][s] = pending[n][s]
          /\ \A o \in Servers, t \in Shards : o # n \/ t # s =>
                local'[o][t] = local[o][t] /\ pending'[o][t] = pending[o][t]
      BY <2>1, <2>2
    <2>. QED BY <2>7, <2>8, <2>9, ServerEpochFrame
  <1>2. CASE ~TransferStarts(m)
    <2>1. Receive(m, {}) /\ UNCHANGED serverVars
      BY <1>2 DEF HandleBeginTransfer, Ignore
    <2>2. \A o \in DOMAIN net' \ DOMAIN net : MessageEpoch(o)
      BY <2>1, ReceiveAdds
    <2>. QED BY <2>1, <2>2, ServerEpochFrame DEF EpochInv, serverVars
  <1>. QED BY <1>1, <1>2

(* A pending copy gets the epoch of the message it came with. *)
LEMMA EpochTransferShard ==
  ASSUME TypeOK, EpochInv, NEW m \in DOMAIN net, m.dst \in Servers,
         HandleTransferShard(m), UNCHANGED coordVars
  PROVE  EpochInv'
  <1>. PICK n \in Servers : n = m.dst
    OBVIOUS
  <1>. PICK s \in Shards : s = m.shard
    BY EpochTypes
  <1>. PICK f : f = Ack("TransferAck", m)
    OBVIOUS
  <1>1. MessageEpoch(f) /\ MessageEpoch(m) /\ m.type = "TransferShard"
    BY AckEpoch DEF EpochInv, HandleTransferShard
  <1>2. CASE ~LocalIsNewer(m) /\ ~PendingBlocks(m)
    <2>. PICK c : c = [epoch |-> m.epoch, attempt |-> m.attempt,
                       data |-> m.data, source |-> m.src]
      OBVIOUS
    <2>1. \/ SetPending(m, c) /\ Receive(m, {f}) /\ UNCHANGED local
          \/ Receive(m, {f}) /\ UNCHANGED <<local, pending>>
      BY <1>2 DEF HandleTransferShard, serverVars
    <2>2. CASE SetPending(m, c) /\ Receive(m, {f}) /\ UNCHANGED local
      <3>1. /\ pending'[n][s] = c
            /\ \A o \in Servers, t \in Shards :
                  o # n \/ t # s => pending'[o][t] = pending[o][t]
        BY <2>2, PendingSet
      <3>2. CopyEpoch(n, s)'
        BY <1>1, <3>1 DEF CopyEpoch, MessageEpoch, coordVars
      <3>. QED BY <1>1, <2>2, <3>1, <3>2, ReceiveAdds, ServerEpochFrame DEF EpochInv
    <2>3. CASE Receive(m, {f}) /\ UNCHANGED <<local, pending>>
      BY <1>1, <2>3, ReceiveAdds, ServerEpochFrame DEF EpochInv
    <2>. QED BY <2>1, <2>2, <2>3
  <1>3. CASE LocalIsNewer(m) \/ PendingBlocks(m)
    BY <1>1, <1>3, EpochIgnore DEF HandleTransferShard, Ignore
  <1>. QED BY <1>2, <1>3

(* An activation raises the copy to the epoch of the commit. *)
LEMMA EpochActivate ==
  ASSUME TypeOK, EpochInv, NEW m \in DOMAIN net, m.dst \in Servers,
         HandleActivateShard(m), UNCHANGED coordVars
  PROVE  EpochInv'
  <1>. PICK n \in Servers : n = m.dst
    OBVIOUS
  <1>. PICK s \in Shards : s = m.shard
    BY EpochTypes
  <1>1. \A o \in DOMAIN net' \ DOMAIN net : MessageEpoch(o)
    BY ReceiveAdds DEF HandleActivateShard, Ignore
  <1>2. CASE ActivateAccepted(m)
    <2>. PICK r : r = [epoch |-> m.epoch, state |-> "STABLE",
                       data |-> PendingOf(m).data, attempt |-> NoAttempt]
      OBVIOUS
    <2>1. SetLocal(m, r) /\ SetPending(m, NoCopy)
      BY <1>2 DEF HandleActivateShard
    <2>2. /\ local'[n][s] = r
          /\ \A o \in Servers, t \in Shards : o # n \/ t # s => local'[o][t] = local[o][t]
      BY <2>1, LocalSet
    <2>3. /\ pending'[n][s] = NoCopy
          /\ \A o \in Servers, t \in Shards :
                o # n \/ t # s => pending'[o][t] = pending[o][t]
      BY <2>1, PendingSet
    <2>4. local'[n][s].epoch <= meta[s].epoch
      BY <2>2 DEF EpochInv, MessageEpoch
    <2>. QED BY <1>1, <2>2, <2>3, <2>4, ServerEpochFrame DEF HasPending
  <1>3. CASE ~ActivateAccepted(m)
    BY <1>1, <1>3, ServerEpochFrame DEF HandleActivateShard, Ignore, EpochInv, serverVars
  <1>. QED BY <1>2, <1>3

(* A cleanup removes a copy. *)
LEMMA EpochCleanup ==
  ASSUME TypeOK, EpochInv, NEW m \in DOMAIN net, m.dst \in Servers,
         HandleCleanupShard(m), UNCHANGED coordVars
  PROVE  EpochInv'
  <1>. PICK n \in Servers : n = m.dst
    OBVIOUS
  <1>. PICK s \in Shards : s = m.shard
    BY EpochTypes
  <1>1. \A o \in DOMAIN net' \ DOMAIN net : MessageEpoch(o)
    BY ReceiveAdds DEF HandleCleanupShard, Ignore
  <1>2. CASE CleanupAccepted(m)
    <2>1. SetLocal(m, Absent) /\ UNCHANGED pending
      BY <1>2 DEF HandleCleanupShard
    <2>2. /\ local'[n][s] = Absent
          /\ \A o \in Servers, t \in Shards : o # n \/ t # s => local'[o][t] = local[o][t]
      BY <2>1, LocalSet
    <2>3. local'[n][s].epoch <= meta[s].epoch
      BY <2>2, EpochTypes DEF Absent
    <2>. QED BY <1>1, <2>1, <2>2, <2>3, ServerEpochFrame
  <1>3. CASE ~CleanupAccepted(m)
    BY <1>1, <1>3, ServerEpochFrame DEF HandleCleanupShard, Ignore, EpochInv, serverVars
  <1>. QED BY <1>2, <1>3

(* A rollback takes the epoch of the abort. *)
LEMMA EpochRollBack ==
  ASSUME TypeOK, EpochInv, NEW m \in DOMAIN net, m.dst \in Servers,
         HandleAbortReconfiguration(m), UNCHANGED coordVars
  PROVE  EpochInv'
  <1>. PICK n \in Servers : n = m.dst
    OBVIOUS
  <1>. PICK s \in Shards : s = m.shard
    BY EpochTypes
  <1>. PICK r : r = [local[n][s] EXCEPT !.epoch = m.epoch, !.state = "STABLE",
                                        !.attempt = NoAttempt]
    OBVIOUS
  <1>1. \A o \in DOMAIN net' \ DOMAIN net : MessageEpoch(o)
    BY ReceiveAdds DEF HandleAbortReconfiguration
  <1>2. /\ \A o \in Servers, t \in Shards : o # n \/ t # s => local'[o][t] = local[o][t]
        /\ local'[n][s] \in {r, local[n][s]}
    <2>1. CASE RollsBack(m)
      <3>1. SetLocal(m, r)
        BY <2>1 DEF HandleAbortReconfiguration, LocalOf
      <3>2. local'[n][s] = r
        BY <3>1, LocalSet
      <3>3. \A o \in Servers, t \in Shards : o # n \/ t # s => local'[o][t] = local[o][t]
        BY <3>1, LocalSet
      <3>. QED BY <3>2, <3>3
    <2>2. CASE ~RollsBack(m)
      BY <2>2 DEF HandleAbortReconfiguration
    <2>. QED BY <2>1, <2>2
  <1>3. /\ \A o \in Servers, t \in Shards : o # n \/ t # s => pending'[o][t] = pending[o][t]
        /\ pending'[n][s] \in {NoCopy, pending[n][s]}
    <2>1. CASE ClearsPending(m)
      <3>1. SetPending(m, NoCopy)
        BY <2>1 DEF HandleAbortReconfiguration
      <3>. QED BY <3>1, PendingSet
    <2>2. CASE ~ClearsPending(m)
      BY <2>2 DEF HandleAbortReconfiguration
    <2>. QED BY <2>1, <2>2
  <1>4. r.epoch = m.epoch
    BY DEF TypeOK, ServerTypeOK, LocalRecord, HeldRecord, Absent
  <1>5. local'[n][s].epoch <= meta[s].epoch
    BY <1>2, <1>4 DEF EpochInv, MessageEpoch
  <1>. QED BY <1>1, <1>2, <1>3, <1>5, ServerEpochFrame DEF HasPending

(* The handlers of a server, together. *)
LEMMA EpochServer ==
  ASSUME TypeOK, EpochInv, NEW m \in DOMAIN net, m.dst \in Servers,
         ServerOnMessage(m), UNCHANGED coordVars
  PROVE  EpochInv'
  BY EpochFreeze, EpochBegin, EpochTransferShard, EpochActivate, EpochCleanup,
     EpochRollBack DEF ServerOnMessage

(* A PUT changes no epoch. *)
LEMMA EpochClient ==
  ASSUME TypeOK, EpochInv, NEW n \in Servers, NEW s \in Shards, NEW e,
         NEW v \in Values, ClientPut(n, s, e, v), UNCHANGED coordVars
  PROVE  EpochInv'
  <1>. PICK r : r = [local[n][s] EXCEPT !.data = v]
    OBVIOUS
  <1>1. /\ local'[n][s] = r
        /\ \A o \in Servers, t \in Shards : o # n \/ t # s => local'[o][t] = local[o][t]
        /\ UNCHANGED <<pending, net>>
    BY DEF ClientPut, TypeOK, ServerTypeOK
  <1>2. r.epoch = local[n][s].epoch
    BY DEF TypeOK, ServerTypeOK, LocalRecord, HeldRecord, Absent
  <1>3. local'[n][s].epoch <= meta[s].epoch
    BY <1>1, <1>2 DEF EpochInv
  <1>4. \A o \in DOMAIN net' \ DOMAIN net : MessageEpoch(o)
    BY <1>1
  <1>5. /\ pending'[n][s] = pending[n][s]
        /\ \A o \in Servers, t \in Shards : o # n \/ t # s =>
              local'[o][t] = local[o][t] /\ pending'[o][t] = pending[o][t]
    BY <1>1
  <1>. QED BY <1>3, <1>4, <1>5, ServerEpochFrame

-----------------------------------------------------------------------------
(* The invariant. *)

LEMMA EpochInit == Init => EpochInv
  <1>. SUFFICES ASSUME Init PROVE EpochInv
    OBVIOUS
  <1>1. attempts = <<>> /\ DOMAIN attempts = {}
    BY DEF Init, CoordInit
  <1>2. DOMAIN net = {}
    BY DEF Init, NetInit, EmptyBag, SetToBag
  <1>3. \A s \in Shards : meta[s].epoch = InitialEpoch
    BY DEF Init, CoordInit
  <1>4. \A n \in Servers, s \in Shards :
           ~HasPending(n, s) /\ local[n][s].epoch \in {0, InitialEpoch}
    BY DEF Init, HasPending, Absent
  <1>5. AttemptEpochs
    BY <1>1 DEF AttemptEpochs
  <1>. QED BY <1>2, <1>3, <1>4, <1>5 DEF EpochInv, InitialEpoch

(* Every step keeps the epochs in order. *)
LEMMA EpochStep ==
  ASSUME TypeOK, CoordInv, EpochInv, [Next]_vars
  PROVE  EpochInv'
  <1>. USE TypeStep
  <1>1. CASE UNCHANGED vars
    BY <1>1, EpochUnchanged DEF vars, coordVars, serverVars
  <1>2. ASSUME NEW m \in DOMAIN net, Deliver(m) PROVE EpochInv'
    <2>1. CASE DeliverToCoordinator(m)
      BY <2>1, EpochFreezeAck, EpochTransferAck DEF DeliverToCoordinator
    <2>2. CASE DeliverToServer(m)
      BY <2>2, EpochServer DEF DeliverToServer
    <2>3. CASE DeliverToDeadNode(m)
      <3>1. DOMAIN net' \subseteq DOMAIN net
        BY <2>3, ReceiveAdds DEF DeliverToDeadNode
      <3>. QED
        BY <2>3, <3>1, EpochUnchanged DEF DeliverToDeadNode, coordVars, serverVars
    <2>. QED BY <1>2, <2>1, <2>2, <2>3 DEF Deliver
  <1>3. ASSUME NEW s \in Shards, TimerFires(s) PROVE EpochInv'
    BY <1>3, EpochTimeout DEF TimerFires
  <1>4. ASSUME NEW s \in Shards, NEW new \in Servers, StartReassign(s, new)
        PROVE  EpochInv'
    BY <1>4, EpochReassign DEF StartReassign
  <1>5. ASSUME NEW n \in Servers, CrashNode(n) PROVE EpochInv'
    <2>. DEFINE S == {s \in Shards : meta[s].state # "STABLE" /\ Participates(n, s)}
    <2>1. AbortReconfigurations(S) /\ UNCHANGED serverVars
      BY <1>5 DEF CrashNode, OnNodeCrash
    <2>. QED BY <2>1, EpochAbort
  <1>6. ASSUME NEW n \in Servers, RecoverNode(n) PROVE EpochInv'
    BY <1>6, EpochRecover DEF RecoverNode
  <1>7. ASSUME NEW n \in Servers, NEW s \in Shards, NEW e, NEW v \in Values,
               ClientWrite(n, s, e, v)
        PROVE  EpochInv'
    BY <1>7, EpochClient DEF ClientWrite
  <1>. QED
    BY <1>1, <1>2, <1>3, <1>4, <1>5, <1>6, <1>7, FaultsAssumption DEF Next, Delivery

(* Under every fault, the attempts at a shard have increasing epochs, and  *)
(* every message, shard and copy has the epoch that its attempt gives it.  *)
THEOREM EpochInvariant == Spec => []EpochInv
  <1>1. Init => TypeOK /\ CoordInv /\ EpochInv
    BY TypeInit, CoordInvInit, EpochInit
  <1>2. TypeOK /\ CoordInv /\ EpochInv /\ [Next]_vars
          => (TypeOK /\ CoordInv /\ EpochInv)'
    BY TypeStep, CoordStep, EpochStep
  <1>. QED BY <1>1, <1>2, PTL DEF Spec

(* No server and no message is ahead of the metadata, whatever is lost,    *)
(* duplicated or late and whichever servers crash and recover.             *)
THEOREM NothingAhead == Spec => []NothingAheadOfMetadata
  <1>1. TypeOK /\ CoordInv /\ EpochInv => NothingAheadOfMetadata
    <2>. SUFFICES ASSUME TypeOK, CoordInv, EpochInv PROVE NothingAheadOfMetadata
      OBVIOUS
    <2>1. ASSUME NEW n \in Servers, NEW s \in Shards
          PROVE  pending[n][s].epoch <= meta[s].epoch
      <3>1. CASE HasPending(n, s)
        <4>1. /\ pending[n][s].attempt \in DOMAIN attempts
              /\ attempts[pending[n][s].attempt].shard = s
          BY <3>1 DEF CoordInv, KnownAttempts, KnownIn, AttemptsOf
        <4>. QED BY <3>1, <4>1 DEF EpochInv, CopyEpoch, AttemptEpochs
      <3>2. CASE ~HasPending(n, s)
        BY <3>2, EpochTypes DEF HasPending, NoCopy
      <3>. QED BY <3>1, <3>2
    <2>. QED BY <2>1 DEF NothingAheadOfMetadata, EpochInv, MessageEpoch
  <1>. QED BY <1>1, TypeCorrect, CoordInvariant, EpochInvariant, PTL

-----------------------------------------------------------------------------
(* A shard appears at a server by a commit. *)

LEMMA AppearsByActivation ==
  ASSUME TypeOK, NEW m, ServerOnMessage(m), NEW n \in Servers, NEW s \in Shards,
         Held(n, s)', ~Held(n, s)
  PROVE  /\ m.type = "ActivateShard" /\ m.dst = n /\ m.shard = s
         /\ local'[n][s].epoch = m.epoch
  <1>1. CASE HandleFreezeShard(m)
    BY <1>1 DEF HandleFreezeShard, FreezeEnters, LocalOf, SetLocal, Held, Absent,
                Ignore, serverVars, TypeOK, ServerTypeOK
  <1>2. CASE HandleBeginTransfer(m)
    <2>1. CASE Ignore(m)
      BY <2>1 DEF Ignore, serverVars, Held
    <2>2. CASE TransferStarts(m) /\ SetLocal(m, [LocalOf(m) EXCEPT !.state = "TRANSFER"])
      <3>1. LocalOf(m) # Absent
        BY <2>2 DEF TransferStarts, Absent
      <3>2. local[n][s] = Absent => n # m.dst \/ s # m.shard
        BY <3>1 DEF LocalOf
      <3>3. local[n][s] = Absent => local'[n][s] = Absent
        BY <2>2, <3>2 DEF SetLocal, TypeOK, ServerTypeOK
      <3>. QED BY <3>3 DEF Held, Absent
    <2>. QED BY <1>2, <2>1, <2>2 DEF HandleBeginTransfer
  <1>3. CASE HandleTransferShard(m)
    BY <1>3 DEF HandleTransferShard, Held, Ignore, serverVars
  <1>4. CASE HandleActivateShard(m)
    BY <1>4 DEF HandleActivateShard, SetLocal, Held, Ignore, serverVars, TypeOK,
                ServerTypeOK
  <1>5. CASE HandleCleanupShard(m)
    BY <1>5 DEF HandleCleanupShard, SetLocal, Held, Ignore, serverVars, TypeOK,
                ServerTypeOK
  <1>6. CASE HandleAbortReconfiguration(m)
    BY <1>6 DEF HandleAbortReconfiguration, RollsBack, SetLocal, Held, TypeOK,
                ServerTypeOK
  <1>. QED BY <1>1, <1>2, <1>3, <1>4, <1>5, <1>6 DEF ServerOnMessage

(* A shard that appears at a server was committed towards it. *)
LEMMA HeldStep ==
  ASSUME TypeOK, CoordInv, EpochInv, [Next]_vars,
         NEW n \in Servers, NEW s \in Shards, Held(n, s)', ~Held(n, s)
  PROVE  \E a \in AttemptsOf(s) : /\ attempts[a].outcome = "complete"
                                  /\ attempts[a].to = n
                                  /\ local'[n][s].epoch = attempts[a].epoch + 1
  <1>1. local' # local
    BY DEF Held
  <1>2. PICK m \in DOMAIN net : ServerOnMessage(m)
    <2>1. CASE \E m \in DOMAIN net : Deliver(m)
      BY <1>1, <2>1 DEF Deliver, DeliverToCoordinator, DeliverToServer,
                        DeliverToDeadNode, serverVars
    <2>2. ASSUME NEW o \in Servers, NEW t \in Shards, NEW e, NEW v \in Values,
                 ClientWrite(o, t, e, v)
          PROVE  FALSE
      BY <2>2 DEF ClientWrite, ClientPut, Serves, Held, Absent, TypeOK, ServerTypeOK
    <2>. QED
      BY <1>1, <2>1, <2>2
         DEF Next, Delivery, TimerFires, StartReassign, CrashNode, RecoverNode,
             vars, serverVars
  <1>3. /\ m.type = "ActivateShard" /\ m.dst = n /\ m.shard = s
        /\ local'[n][s].epoch = m.epoch
    BY <1>2, AppearsByActivation
  <1>4. m.attempt \in AttemptsOf(s) /\ attempts[m.attempt].outcome = "complete"
    BY <1>3 DEF CoordInv, KnownAttempts, KnownIn, MessagesFollowDecision
  <1>5. attempts[m.attempt].to = n /\ m.epoch = attempts[m.attempt].epoch + 1
    BY <1>3 DEF EpochInv, MessageEpoch
  <1>. QED BY <1>3, <1>4, <1>5

(* A server comes to hold a shard only by a committed attempt towards it,  *)
(* at the epoch of that commit, under every fault.                         *)
THEOREM AppearsByCommit == Spec => HeldByCommit
  <1>1. TypeOK /\ CoordInv /\ EpochInv /\ [Next]_vars =>
          [\A n \in Servers, s \in Shards : Held(n, s)' /\ ~Held(n, s) =>
             \E a \in AttemptsOf(s) :
                /\ attempts[a].outcome = "complete"
                /\ attempts[a].to = n
                /\ local'[n][s].epoch = attempts[a].epoch + 1]_vars
    BY HeldStep
  <1>. QED
    BY <1>1, TypeCorrect, CoordInvariant, EpochInvariant, PTL DEF Spec, HeldByCommit

-----------------------------------------------------------------------------
(* The epoch of a shard counts its decisions. *)

Decisions(s) == {a \in AttemptsOf(s) : Decided(a)}

(* The decisions at a shard can be counted. *)
LEMMA DecisionsFinite ==
  ASSUME TypeOK, NEW s \in Shards
  PROVE  IsFiniteSet(Decisions(s)) /\ Cardinality(Decisions(s)) \in Nat
  <1>1. IsFiniteSet(1..Len(attempts))
    BY FS_Interval, LogDomain
  <1>2. Decisions(s) \in SUBSET (1..Len(attempts))
    BY LogDomain DEF Decisions, AttemptsOf
  <1>3. IsFiniteSet(Decisions(s))
    BY <1>1, <1>2, FS_Subset
  <1>. QED BY <1>3, FS_CardinalityType

(* What a step must do to the decisions of a shard. *)
CountKept(s)   == meta'[s].epoch = meta[s].epoch /\ Decisions(s)' = Decisions(s)
CountRaised(s) == /\ meta'[s].epoch = meta[s].epoch + 1
                  /\ \E a : a \notin Decisions(s) /\ Decisions(s)' = Decisions(s) \cup {a}

(* The count is kept where each shard keeps or raises both sides of it. *)
LEMMA DecisionsCounted ==
  ASSUME TypeOK, EpochCountsDecisions, \A s \in Shards : CountKept(s) \/ CountRaised(s)
  PROVE  EpochCountsDecisions'
  <1>1. ASSUME NEW s \in Shards
        PROVE  meta'[s].epoch = InitialEpoch + Cardinality(Decisions(s)')
    <2>1. meta[s].epoch = InitialEpoch + Cardinality(Decisions(s))
      BY DEF EpochCountsDecisions, Decisions
    <2>2. CASE CountKept(s)
      BY <2>1, <2>2 DEF CountKept
    <2>3. CASE CountRaised(s)
      <3>1. PICK a : a \notin Decisions(s) /\ Decisions(s)' = Decisions(s) \cup {a}
        BY <2>3 DEF CountRaised
      <3>2. Cardinality(Decisions(s) \cup {a}) = Cardinality(Decisions(s)) + 1
        BY <3>1, DecisionsFinite, FS_AddElement
      <3>3. meta'[s].epoch = meta[s].epoch + 1
        BY <2>3 DEF CountRaised
      <3>4. Cardinality(Decisions(s)') = Cardinality(Decisions(s)) + 1
        BY <3>1, <3>2
      <3>5. Cardinality(Decisions(s)) \in Nat
        BY DecisionsFinite
      <3>. QED BY <2>1, <3>3, <3>4, <3>5 DEF InitialEpoch
    <2>. QED BY <2>2, <2>3
  <1>. QED BY <1>1 DEF EpochCountsDecisions, Decisions

(* A new attempt is undecided. *)
LEMMA CountReassign ==
  ASSUME TypeOK, CoordInv, EpochCountsDecisions, NEW s \in Shards, NEW new \in Servers,
         Reassign(s, new)
  PROVE  EpochCountsDecisions'
  <1>. PICK a : a = NextAttempt
    OBVIOUS
  <1>1. \A t \in Shards : meta'[t].epoch = meta[t].epoch
    BY DEF Reassign, TypeOK, CoordTypeOK, MetaRecord, StableRecord, ReassignedRecord
  <1>2. /\ DOMAIN attempts' = DOMAIN attempts \cup {a}
        /\ a \notin DOMAIN attempts
        /\ \A b \in DOMAIN attempts : attempts'[b] = attempts[b]
        /\ attempts'[a].outcome = "pending"
    <2>1. attempts'[NextAttempt] = [shard   |-> s,
                                    from    |-> meta[s].owner,
                                    to      |-> new,
                                    epoch   |-> meta[s].epoch,
                                    outcome |-> "pending"]
      BY ReassignLog
    <2>. QED BY <2>1, ReassignLog
  <1>3. \A t \in Shards : Decisions(t)' = Decisions(t)
    BY <1>2 DEF Decisions, AttemptsOf, Decided
  <1>. QED BY <1>1, <1>3, DecisionsCounted DEF CountKept

(* An abort decides one attempt at each of its shards. *)
LEMMA CountAbort ==
  ASSUME TypeOK, CoordInv, EpochCountsDecisions, NEW S \in SUBSET Shards,
         \A s \in S : meta[s].state # "STABLE",
         AbortReconfigurations(S)
  PROVE  EpochCountsDecisions'
  <1>1. /\ DOMAIN attempts' = DOMAIN attempts
        /\ \A a \in DOMAIN attempts :
              attempts'[a] = IF attempts[a].shard \in S /\ ~Decided(a)
                             THEN [attempts[a] EXCEPT !.outcome = "abort"]
                             ELSE attempts[a]
        /\ \A s \in Shards : meta'[s] = IF s \in S THEN Aborted(meta[s]) ELSE meta[s]
    BY AbortLog
  <1>2. ASSUME NEW a \in DOMAIN attempts
        PROVE  /\ attempts'[a].shard = attempts[a].shard
               /\ Decided(a)' <=> Decided(a) \/ attempts[a].shard \in S
    BY <1>1, LogDomain DEF AttemptRecord, Decided
  <1>3. ASSUME NEW s \in Shards, s \notin S PROVE CountKept(s)
    <2>1. meta'[s] = meta[s]
      BY <1>1, <1>3
    <2>2. Decisions(s)' = Decisions(s)
      BY <1>1, <1>2, <1>3 DEF Decisions, AttemptsOf
    <2>. QED BY <2>1, <2>2 DEF CountKept
  <1>4. ASSUME NEW s \in S PROVE CountRaised(s)
    <2>. PICK a : a = meta[s].attempt
      OBVIOUS
    <2>1. a \in AttemptsOf(s) /\ a \notin Decisions(s)
      BY CurrentRecord DEF Decisions, AttemptsOf
    <2>2. \A b \in AttemptsOf(s) : Decided(b) \/ b = a
      BY DEF CoordInv, UndecidedIsCurrent, AttemptsOf
    <2>3. Decisions(s)' = AttemptsOf(s)
      BY <1>1, <1>2 DEF Decisions, AttemptsOf
    <2>4. Decisions(s)' = Decisions(s) \cup {a}
      BY <2>1, <2>2, <2>3 DEF Decisions
    <2>5. meta'[s] = Aborted(meta[s])
      BY <1>1
    <2>6. meta'[s].epoch = meta[s].epoch + 1
      BY <2>5 DEF Aborted
    <2>. QED BY <2>1, <2>4, <2>6 DEF CountRaised
  <1>. QED BY <1>3, <1>4, DecisionsCounted

(* A commit decides one attempt. *)
LEMMA CountCommit ==
  ASSUME TypeOK, CoordInv, EpochCountsDecisions, NEW m \in DOMAIN net,
         HandleTransferAck(m), TransferAckAccepted(m)
  PROVE  EpochCountsDecisions'
  <1>. PICK s : s = m.shard
    OBVIOUS
  <1>. PICK a : a = meta[s].attempt
    OBVIOUS
  <1>1. /\ s \in Shards /\ meta[s].state = "TRANSFER"
        /\ DOMAIN attempts' = DOMAIN attempts
        /\ attempts'[a] = [attempts[a] EXCEPT !.outcome = "complete"]
        /\ \A b \in DOMAIN attempts : b # a => attempts'[b] = attempts[b]
        /\ meta'[s] = Committed(meta[s])
        /\ \A t \in Shards : t # s => meta'[t] = meta[t]
    BY CommitLog
  <1>2. a \in DOMAIN attempts /\ attempts[a].shard = s /\ ~Decided(a)
    BY <1>1, CurrentRecord
  <1>3. attempts'[a].shard = s /\ attempts'[a].outcome = "complete"
    BY <1>1, <1>2, LogDomain DEF AttemptRecord
  <1>4. ASSUME NEW b \in DOMAIN attempts
        PROVE  /\ attempts'[b].shard = attempts[b].shard
               /\ Decided(b)' <=> Decided(b) \/ b = a
    BY <1>1, <1>2, <1>3 DEF Decided
  <1>5. ASSUME NEW t
        PROVE  Decisions(t)' = {b \in DOMAIN attempts :
                                  attempts[b].shard = t /\ (Decided(b) \/ b = a)}
    BY <1>1, <1>4 DEF Decisions, AttemptsOf
  <1>7. Decisions(s)' = Decisions(s) \cup {a} /\ a \notin Decisions(s)
    BY <1>2, <1>5 DEF Decisions, AttemptsOf
  <1>8. \A t \in Shards : t # s => Decisions(t)' = Decisions(t)
    BY <1>2, <1>5 DEF Decisions, AttemptsOf
  <1>6. meta'[s].epoch = meta[s].epoch + 1
    BY <1>1 DEF Committed
  <1>. QED
    BY <1>1, <1>6, <1>7, <1>8, DecisionsCounted DEF CountKept, CountRaised

(* Nothing to count when no attempt and no epoch changes. *)
LEMMA CountSame ==
  ASSUME TypeOK, EpochCountsDecisions, UNCHANGED attempts,
         \A s \in Shards : meta'[s].epoch = meta[s].epoch
  PROVE  EpochCountsDecisions'
  <1>1. \A s \in Shards : Decisions(s)' = Decisions(s)
    BY DEF Decisions, AttemptsOf, Decided
  <1>. QED BY <1>1, DecisionsCounted DEF CountKept

(* Every step keeps the count. *)
LEMMA CountStep ==
  ASSUME TypeOK, CoordInv, EpochCountsDecisions, [Next]_vars
  PROVE  EpochCountsDecisions'
  <1>1. CASE UNCHANGED coordVars
    BY <1>1, CountSame DEF coordVars
  <1>2. ASSUME NEW m \in DOMAIN net, Deliver(m) PROVE EpochCountsDecisions'
    <2>1. CASE HandleFreezeAck(m)
      <3>1. \A s \in Shards : meta'[s].epoch = meta[s].epoch
        <4>1. CASE meta' = [meta EXCEPT ![m.shard].state = "TRANSFER"]
          BY <4>1 DEF TypeOK, CoordTypeOK, MetaRecord, StableRecord, ReassignedRecord
        <4>. QED BY <2>1, <4>1 DEF HandleFreezeAck
      <3>. QED BY <2>1, <3>1, CountSame DEF HandleFreezeAck
    <2>2. CASE HandleTransferAck(m)
      BY <2>2, CountCommit, CountSame DEF HandleTransferAck, coordVars
    <2>3. CASE UNCHANGED coordVars
      BY <2>3, CountSame DEF coordVars
    <2>. QED
      BY <1>2, <2>1, <2>2, <2>3
         DEF Deliver, DeliverToCoordinator, DeliverToServer, DeliverToDeadNode
  <1>3. ASSUME NEW s \in Shards, TimerFires(s) PROVE EpochCountsDecisions'
    <2>1. CASE RetryPhase(s)
      BY <2>1, CountSame DEF RetryPhase, RepeatRequest
    <2>2. CASE AbortAfterTimeouts(s)
      <3>1. meta[s].state # "STABLE" /\ AbortReconfigurations({s})
        BY <2>2, FaultsAssumption DEF AbortAfterTimeouts, TimerRunning
      <3>. QED BY <3>1, CountAbort
    <2>. QED BY <1>3, <2>1, <2>2 DEF TimerFires, PhaseTimeout
  <1>4. ASSUME NEW s \in Shards, NEW new \in Servers, StartReassign(s, new)
        PROVE  EpochCountsDecisions'
    BY <1>4, CountReassign DEF StartReassign
  <1>5. ASSUME NEW n \in Servers, CrashNode(n) PROVE EpochCountsDecisions'
    <2>. DEFINE S == {s \in Shards : meta[s].state # "STABLE" /\ Participates(n, s)}
    <2>1. AbortReconfigurations(S)
      BY <1>5 DEF CrashNode, OnNodeCrash
    <2>. QED BY <2>1, CountAbort
  <1>6. ASSUME NEW n \in Servers, RecoverNode(n) PROVE UNCHANGED coordVars
    BY <1>6 DEF RecoverNode, OnNodeRecover
  <1>7. ASSUME NEW n \in Servers, NEW s \in Shards, NEW e, NEW v \in Values,
               ClientWrite(n, s, e, v)
        PROVE  UNCHANGED coordVars
    BY <1>7 DEF ClientWrite
  <1>. QED
    BY <1>1, <1>2, <1>3, <1>4, <1>5, <1>6, <1>7, FaultsAssumption
       DEF Next, Delivery, vars

(* S5 for every deployment and under every fault: each decision, commit or *)
(* abort, raises the epoch of its shard by exactly one, and nothing else   *)
(* does.                                                                   *)
THEOREM EpochsCount == Spec => []EpochCountsDecisions
  <1>1. Init => EpochCountsDecisions
    <2>. SUFFICES ASSUME Init PROVE EpochCountsDecisions
      OBVIOUS
    <2>1. \A s \in Shards : {a \in AttemptsOf(s) : Decided(a)} = {}
      BY DEF Init, CoordInit, AttemptsOf
    <2>2. \A s \in Shards : meta[s].epoch = InitialEpoch
      BY DEF Init, CoordInit
    <2>3. Cardinality({}) = 0
      BY FS_EmptySet
    <2>. QED BY <2>1, <2>2, <2>3 DEF EpochCountsDecisions, InitialEpoch
  <1>2. TypeOK /\ CoordInv /\ EpochCountsDecisions /\ [Next]_vars
          => EpochCountsDecisions'
    BY CountStep
  <1>. QED BY <1>1, <1>2, TypeCorrect, CoordInvariant, PTL DEF Spec
=============================================================================
