--------------------------- MODULE StorageProofs ---------------------------
(***************************************************************************)
(* No write is lost: with controlled faults StorageInv is inductive.       *)
(***************************************************************************)
EXTENDS EpochProofs, OwnershipProofs

(* Every message is about a known attempt: with controlled faults there is *)
(* no resync.                                                              *)
LEMMA EveryMessageKnown ==
  ASSUME TransferInv, NEW m \in DOMAIN net
  PROVE  /\ m.attempt \in DOMAIN attempts
         /\ attempts[m.attempt].shard = m.shard
         /\ m.type = "AbortReconfiguration" =>
              ~m.resync /\ attempts[m.attempt].outcome = "abort"
         /\ m.type \in {"ActivateShard", "CleanupShard"} =>
              attempts[m.attempt].outcome = "complete"
  BY DEF TransferInv, CoordInv, KnownAttempts, KnownIn, AttemptsOf, MarkInv,
         MessageMark, MessagesFollowDecision

(* The epochs of a shard tell its attempts apart, and order them. *)
LEMMA EpochsOrder ==
  ASSUME TypeOK, EpochInv, NEW a \in DOMAIN attempts, NEW b \in DOMAIN attempts,
         attempts[a].shard = attempts[b].shard
  PROVE  /\ attempts[a].epoch = attempts[b].epoch => a = b
         /\ attempts[a].epoch < attempts[b].epoch => a < b
  <1>1. a \in Nat /\ b \in Nat
    BY LogDomain
  <1>2. attempts[a].epoch \in Nat /\ attempts[b].epoch \in Nat
    BY EpochTypes
  <1>3. /\ a < b => attempts[a].epoch < attempts[b].epoch
        /\ b < a => attempts[b].epoch < attempts[a].epoch
    BY DEF EpochInv, AttemptEpochs
  <1>. QED BY <1>1, <1>2, <1>3

(* A server is told an epoch by one message. *)
LEMMA OneAnnouncement ==
  ASSUME TypeOK, TransferInv, EpochInv, StorageInv,
         NEW n, NEW s, NEW e,
         NEW m \in DOMAIN net, Announces(m, n, s, e),
         NEW o \in DOMAIN net, Announces(o, n, s, e)
  PROVE  o = m
  <1>1. /\ m.shard = s /\ o.shard = s /\ m.epoch = e /\ o.epoch = e
        /\ m.dst = n /\ o.dst = n
        /\ Announcement(m) /\ Announcement(o)
    BY DEF Announces
  <1>2. /\ m.attempt \in DOMAIN attempts /\ attempts[m.attempt].shard = s
        /\ o.attempt \in DOMAIN attempts /\ attempts[o.attempt].shard = s
    BY <1>1, EveryMessageKnown
  <1>3. /\ e = attempts[m.attempt].epoch + 1
        /\ e = attempts[o.attempt].epoch + 1
    BY <1>1 DEF StorageInv, ToldOnce
  <1>4. m.attempt = o.attempt
    BY <1>2, <1>3, EpochsOrder, EpochTypes
  <1>5. m.type = o.type
    BY <1>1, <1>4, EveryMessageKnown DEF Announcement
  <1>6. m \in Message /\ o \in Message
    BY DEF TypeOK
  <1>7. CASE m.type = "ActivateShard"
    <2>1. m \in ControlMsg /\ o \in ControlMsg
      BY <1>5, <1>6, <1>7, MessageKinds
    <2>. QED BY <1>1, <1>4, <1>5, <2>1 DEF ControlMsg
  <1>8. CASE m.type = "AbortReconfiguration"
    <2>1. m \in AbortMsg /\ o \in AbortMsg
      BY <1>5, <1>6, <1>8, MessageKinds
    <2>2. m.resync = FALSE /\ o.resync = FALSE
      BY <1>5, <1>8, <2>1, EveryMessageKnown DEF AbortMsg
    <2>. QED BY <1>1, <1>4, <1>5, <2>1, <2>2 DEF AbortMsg
  <1>. QED BY <1>1, <1>7, <1>8 DEF Announcement

-----------------------------------------------------------------------------
(* A step that changes no server keeps the invariant if it keeps owners    *)
(* and completed attempts, and announces only an epoch that is new.        *)
LEMMA StorageFrame ==
  ASSUME TypeOK, TransferInv, EpochInv, StorageInv, UNCHANGED serverVars, LogGrows,
         \A a \in DOMAIN attempts :
            /\ attempts'[a].outcome = "complete" <=> attempts[a].outcome = "complete"
            /\ Decided(a) => Decided(a)',
         \A a \in DOMAIN attempts' \ DOMAIN attempts :
            /\ a # NoAttempt /\ attempts'[a].shard \in Shards
            /\ attempts'[a].outcome = "pending"
            /\ attempts'[a].from = meta[attempts'[a].shard].owner
            /\ attempts'[a].from # attempts'[a].to,
         \A s \in Shards : meta'[s].owner = meta[s].owner,
         \A o \in DOMAIN net' \ DOMAIN net :
            /\ AckedCopy(o)'
            /\ Announcement(o) => ToldOnce(o)' /\ o.epoch = meta[o.shard].epoch + 1,
         \A m \in DOMAIN net : Announcement(m) /\ m \in DOMAIN net' => net'[m] = 1
  PROVE  StorageInv'
  <1>1. local' = local /\ pending' = pending /\ lastPut' = lastPut
    BY DEF serverVars
  <1>2. ASSUME NEW s \in Shards PROVE Stored(s)'
    <2>. PICK n : n = meta[s].owner
      OBVIOUS
    <2>0. n \in Servers /\ meta'[s].owner = n
      BY DEF TypeOK, CoordTypeOK, MetaRecord, StableRecord, ReassignedRecord
    <2>1. CASE Live(n, s)
      <3>1. Live(n, s)'
        BY <1>1, <2>0, <2>1, KnownCopy DEF Live, Held, Retired
      <3>. QED BY <2>0, <3>1 DEF Stored
    <2>2. CASE Awaiting(n, s)
      <3>. PICK p \in DOMAIN attempts : p = pending[n][s].attempt
        BY <2>0, <2>2, KnownCopy DEF Awaiting
      <3>1. attempts'[p].outcome = "complete"
        BY <2>2 DEF Awaiting
      <3>2. ASSUME NEW b \in DOMAIN attempts', attempts'[b].shard = s, b > p
            PROVE  attempts'[b].from = n
        <4>1. CASE b \in DOMAIN attempts
          BY <2>2, <3>2, <4>1 DEF LogGrows, Awaiting, AttemptsOf
        <4>2. CASE b \notin DOMAIN attempts
          BY <3>2, <4>2
        <4>. QED BY <4>1, <4>2
      <3>3. Awaiting(n, s)'
        BY <1>1, <2>2, <3>1, <3>2 DEF Awaiting, HasPending, AttemptsOf
      <3>. QED BY <2>0, <3>3 DEF Stored
    <2>. QED BY <2>1, <2>2 DEF StorageInv, Stored
  <1>3. ASSUME NEW m \in DOMAIN net' PROVE AckedCopy(m)'
    <2>1. CASE m \in DOMAIN net
      <3>1. m.attempt \in DOMAIN attempts /\ AckedCopy(m)
        BY <2>1, EveryMessageKnown DEF StorageInv
      <3>. QED BY <1>1, <3>1 DEF AckedCopy
    <2>. QED BY <2>1
  <1>4. ASSUME NEW m \in DOMAIN net', Announcement(m) PROVE ToldOnce(m)'
    <2>1. CASE m \in DOMAIN net
      <3>1. m.attempt \in DOMAIN attempts /\ ToldOnce(m)
        BY <1>4, <2>1, EveryMessageKnown DEF StorageInv
      <3>. QED BY <1>4, <2>1, <3>1 DEF ToldOnce, LogGrows
    <2>. QED BY <1>4, <2>1
  <1>5. ASSUME NEW n \in Servers, NEW s \in Shards PROVE FreshEpoch(n, s)'
    <2>1. ASSUME NEW m \in DOMAIN net', Held(n, s), Announces(m, n, s, local[n][s].epoch)
          PROVE  FALSE
      <3>1. CASE m \in DOMAIN net
        BY <2>1, <3>1 DEF StorageInv, FreshEpoch
      <3>2. CASE m \notin DOMAIN net
        <4>1. local[n][s].epoch = meta[s].epoch + 1
          BY <2>1, <3>2 DEF Announces
        <4>. QED BY <4>1, EpochTypes DEF EpochInv
      <3>. QED BY <3>1, <3>2
    <2>. QED BY <1>1, <2>1 DEF FreshEpoch, Held, Announces, Announcement
  <1>6. ASSUME NEW a \in DOMAIN attempts'
        PROVE  /\ attempts'[a].from # attempts'[a].to
               /\ Entered(a)' => LeftBehind(a)'
    <2>1. CASE a \in DOMAIN attempts
      <3>1. /\ attempts'[a].shard = attempts[a].shard
            /\ attempts'[a].from = attempts[a].from
            /\ attempts'[a].to = attempts[a].to
            /\ attempts'[a].epoch = attempts[a].epoch
        BY <2>1 DEF LogGrows
      <3>2. Entered(a)' => Entered(a)
        BY <1>1, <2>1, <3>1 DEF Entered, SourceFrozen, SourceOf
      <3>3. attempts[a].from # attempts[a].to /\ (Entered(a) => LeftBehind(a))
        BY <2>1 DEF StorageInv
      <3>4. ASSUME NEW m \in DOMAIN net',
                   Announces(m, attempts[a].from, attempts[a].shard, attempts[a].epoch)
            PROVE  m \in DOMAIN net
        <4>1. SUFFICES ASSUME m \notin DOMAIN net PROVE FALSE
          OBVIOUS
        <4>2. attempts[a].epoch = meta[attempts[a].shard].epoch + 1
          BY <3>4, <4>1 DEF Announces
        <4>3. attempts[a].epoch <= meta[attempts[a].shard].epoch
          BY <2>1 DEF EpochInv, AttemptEpochs
        <4>. QED BY <2>1, <4>2, <4>3, EpochTypes
      <3>5. LeftBehind(a) => LeftBehind(a)'
        BY <1>1, <3>1, <3>4 DEF LeftBehind, Held, Announces, Announcement
      <3>. QED BY <3>1, <3>2, <3>3, <3>5
    <2>2. CASE a \notin DOMAIN attempts
      <3>. PICK s : s = attempts'[a].shard
        OBVIOUS
      <3>1. /\ a # NoAttempt /\ attempts'[a].outcome = "pending"
            /\ attempts'[a].from # attempts'[a].to
            /\ s \in Shards /\ attempts'[a].from = meta[s].owner
        BY <2>2
      <3>2. ASSUME SourceFrozen(a)' PROVE FALSE
        <4>1. local[attempts'[a].from][s].attempt = a
          BY <1>1, <3>2 DEF SourceFrozen, SourceOf
        <4>2. attempts'[a].from \in Servers
          BY <3>1 DEF TypeOK, CoordTypeOK, MetaRecord, StableRecord, ReassignedRecord
        <4>. QED BY <2>2, <3>1, <4>1, <4>2, KnownCopy
      <3>. QED BY <3>1, <3>2, <2>2 DEF Entered, Decided
    <2>. QED BY <2>1, <2>2
  <1>. QED BY <1>2, <1>3, <1>4, <1>5, <1>6 DEF StorageInv

(* Delivering a message that changes nobody, or is only answered. *)
LEMMA StorageAnswer ==
  ASSUME TypeOK, TransferInv, EpochInv, StorageInv, UNCHANGED <<coordVars, serverVars>>,
         NEW m, NEW S, Receive(m, S),
         \A o \in S : ~Announcement(o) /\ AckedCopy(o)
  PROVE  StorageInv'
  <1>1. DOMAIN net' \subseteq DOMAIN net \cup S
    BY ReceiveAdds
  <1>2. meta' = meta /\ attempts' = attempts /\ pending' = pending
    BY DEF coordVars, serverVars
  <1>3. LogGrows
    BY <1>2, EpochTypes DEF LogGrows
  <1>4. \A x \in DOMAIN net : Announcement(x) /\ x \in DOMAIN net' => net'[x] = 1
    BY ReceiveKeepsSingle DEF StorageInv, ToldOnce
  <1>5. \A o \in DOMAIN net' \ DOMAIN net : AckedCopy(o)' /\ ~Announcement(o)
    BY <1>1, <1>2 DEF AckedCopy, Decided
  <1>. QED BY <1>2, <1>3, <1>4, <1>5, StorageFrame DEF Decided

-----------------------------------------------------------------------------
(* The steps of the coordinator. *)

LEMMA StorageReassign ==
  ASSUME TypeOK, TransferInv, EpochInv, StorageInv, NEW s \in Shards,
         NEW new \in Servers, Reassign(s, new), UNCHANGED serverVars
  PROVE  StorageInv'
  <1>. PICK a : a = NextAttempt
    OBVIOUS
  <1>. PICK f : f = Freeze(meta[s].owner, s, meta[s].epoch, a)
    OBVIOUS
  <1>1. Send({f}) /\ meta[s].owner # new
    BY DEF Reassign, ReassignAllowed
  <1>2. f.type = "FreezeShard"
    BY DEF Freeze, Control
  <1>3. /\ DOMAIN attempts' = DOMAIN attempts \cup {a}
        /\ a \notin DOMAIN attempts
        /\ \A b \in DOMAIN attempts : attempts'[b] = attempts[b]
        /\ attempts'[a] = [shard |-> s, from |-> meta[s].owner, to |-> new,
                           epoch |-> meta[s].epoch, outcome |-> "pending"]
    BY ReassignLog
  <1>4. \A t \in Shards : meta'[t].owner = meta[t].owner /\ meta'[t].epoch = meta[t].epoch
    BY DEF Reassign, TypeOK, CoordTypeOK, MetaRecord, StableRecord, ReassignedRecord
  <1>5. LogGrows
    BY <1>3, <1>4, EpochTypes DEF LogGrows
  <1>6. /\ a # NoAttempt /\ attempts'[a].shard \in Shards
        /\ attempts'[a].outcome = "pending"
        /\ attempts'[a].from = meta[attempts'[a].shard].owner
        /\ attempts'[a].from # attempts'[a].to
    BY <1>1, <1>3, LogDomain DEF NextAttempt, NoAttempt
  <1>7. \A x \in DOMAIN net : Announcement(x) /\ x \in DOMAIN net' => net'[x] = 1
    BY <1>1, <1>2, SendKeepsSingle DEF StorageInv, ToldOnce, Announcement
  <1>8. \A o \in DOMAIN net' \ DOMAIN net : o = f
    BY <1>1, SendAdds
  <1>9. ~Announcement(f) /\ AckedCopy(f)'
    BY <1>2 DEF Announcement, AckedCopy
  <1>10. \A b \in DOMAIN attempts :
            /\ attempts'[b].outcome = "complete" <=> attempts[b].outcome = "complete"
            /\ Decided(b) => Decided(b)'
    BY <1>3 DEF Decided
  <1>11. \A b \in DOMAIN attempts' \ DOMAIN attempts : b = a
    BY <1>3
  <1>. HIDE DEF NextAttempt
  <1>. QED
    BY <1>4, <1>5, <1>6, <1>7, <1>8, <1>9, <1>10, <1>11, StorageFrame

(* The epoch that an abort announces is new, and no link repeats it. *)
LEMMA StorageAbort ==
  ASSUME ControlledFaults, TypeOK, TransferInv, EpochInv, StorageInv,
         NEW S \in SUBSET Shards, \A s \in S : meta[s].state # "STABLE",
         AbortReconfigurations(S), UNCHANGED serverVars
  PROVE  StorageInv'
  <1>. PICK M : M = UNION {AbortMessages(s) : s \in S}
    OBVIOUS
  <1>1. Send(M)
    BY DEF AbortReconfigurations
  <1>2. /\ DOMAIN attempts' = DOMAIN attempts
        /\ \A a \in DOMAIN attempts :
              attempts'[a] = IF attempts[a].shard \in S /\ ~Decided(a)
                             THEN [attempts[a] EXCEPT !.outcome = "abort"]
                             ELSE attempts[a]
        /\ \A s \in Shards : meta'[s] = IF s \in S THEN Aborted(meta[s]) ELSE meta[s]
    BY AbortLog DEF TransferInv
  <1>3. \A s \in Shards : /\ meta'[s].owner = meta[s].owner
                          /\ meta'[s].epoch >= meta[s].epoch
    <2>1. ASSUME NEW s \in S
          PROVE  meta'[s].owner = meta[s].owner /\ meta'[s].epoch = meta[s].epoch + 1
      <3>1. meta'[s] = Aborted(meta[s])
        BY <1>2
      <3>. QED BY <3>1 DEF Aborted
    <2>2. ASSUME NEW s \in Shards, s \notin S PROVE meta'[s] = meta[s]
      BY <1>2, <2>2
    <2>. QED BY <2>1, <2>2, EpochTypes
  <1>4. \A a \in DOMAIN attempts :
            /\ attempts'[a].shard = attempts[a].shard
            /\ attempts'[a].from = attempts[a].from
            /\ attempts'[a].to = attempts[a].to
            /\ attempts'[a].epoch = attempts[a].epoch
            /\ attempts'[a].outcome = "complete" <=> attempts[a].outcome = "complete"
            /\ Decided(a) => Decided(a)'
    <2>. TAKE a \in DOMAIN attempts
    <2>1. attempts[a] \in AttemptRecord
      BY LogDomain
    <2>. QED BY <1>2, <2>1 DEF AttemptRecord, Decided
  <1>5. LogGrows
    BY <1>2, <1>3, <1>4 DEF LogGrows
  <1>6. ASSUME NEW o \in M
        PROVE  /\ o.type = "AbortReconfiguration"
               /\ o.shard \in Shards /\ o.epoch = meta[o.shard].epoch + 1
               /\ o.attempt \in DOMAIN attempts
               /\ attempts[o.attempt].epoch = meta[o.shard].epoch
               /\ o.src = Coord /\ o.dst \in Servers
    <2>1. PICK s \in S : o \in AbortMessages(s)
      BY <1>6
    <2>2. PICK n \in {meta[s].owner, meta[s].target} :
            o = Abort(n, s, meta[s].epoch + 1, meta[s].attempt, FALSE)
      BY <2>1 DEF AbortMessages
    <2>3. n \in Servers
      BY <2>2 DEF TypeOK, CoordTypeOK, MetaRecord, StableRecord, ReassignedRecord
    <2>4. /\ o.type = "AbortReconfiguration" /\ o.shard = s
          /\ o.epoch = meta[s].epoch + 1 /\ o.attempt = meta[s].attempt
          /\ o.src = Coord /\ o.dst = n
      BY <2>2 DEF Abort
    <2>5. o.attempt \in DOMAIN attempts /\ attempts[o.attempt].epoch = meta[s].epoch
      BY <2>4, CurrentRecord DEF TransferInv
    <2>. QED BY <2>3, <2>4, <2>5
  <1>7. ASSUME NEW o \in M PROVE o \notin DOMAIN net /\ ~MayDuplicate(o)
    <2>1. o \notin DOMAIN net
      BY <1>6, EpochTypes DEF EpochInv, MessageEpoch
    <2>2. ~MayDuplicate(o)
      BY <1>6 DEF MayDuplicate, ControlledFaults
    <2>. QED BY <2>1, <2>2
  <1>8. \A o \in DOMAIN net' \ DOMAIN net : o \in M /\ net'[o] = 1
    BY <1>1, <1>7, SendAdds, SendSendsSingle
  <1>9. ASSUME NEW o \in DOMAIN net' \ DOMAIN net
        PROVE  /\ AckedCopy(o)'
               /\ Announcement(o) => ToldOnce(o)' /\ o.epoch = meta[o.shard].epoch + 1
    <2>1. /\ o.type = "AbortReconfiguration"
          /\ o.epoch = meta[o.shard].epoch + 1
          /\ o.attempt \in DOMAIN attempts
          /\ attempts[o.attempt].epoch = meta[o.shard].epoch
      BY <1>6, <1>8
    <2>2. ToldOnce(o)'
      BY <1>4, <1>8, <2>1 DEF ToldOnce
    <2>. QED BY <2>1, <2>2 DEF AckedCopy
  <1>10. \A x \in DOMAIN net : Announcement(x) /\ x \in DOMAIN net' => net'[x] = 1
    BY <1>1, <1>7, SendKeepsSingle DEF StorageInv, ToldOnce
  <1>. QED BY <1>2, <1>3, <1>4, <1>5, <1>9, <1>10, StorageFrame

(* A timeout repeats a request or aborts. *)
LEMMA StorageTimeout ==
  ASSUME ControlledFaults, TypeOK, TransferInv, EpochInv, StorageInv,
         NEW s \in Shards, PhaseTimeout(s), UNCHANGED serverVars
  PROVE  StorageInv'
  <1>1. meta[s].state # "STABLE"
    BY FaultsAssumption
       DEF PhaseTimeout, RetryPhase, RepeatRequest, AbortAfterTimeouts, TimerRunning
  <1>2. CASE AbortAfterTimeouts(s)
    BY <1>1, <1>2, StorageAbort DEF AbortAfterTimeouts
  <1>3. CASE RetryPhase(s)
    <2>. PICK r : r = RetryMessage(s)
      OBVIOUS
    <2>1. Send({r}) /\ meta' = meta /\ attempts' = attempts
      BY <1>3 DEF RetryPhase, RepeatRequest
    <2>2. r.type \in {"FreezeShard", "BeginTransfer"}
      BY DEF RetryMessage, Freeze, Begin, Control
    <2>3. \A o \in DOMAIN net' \ DOMAIN net : o = r
      BY <2>1, SendAdds
    <2>4. ~Announcement(r) /\ AckedCopy(r)'
      BY <2>2 DEF Announcement, AckedCopy
    <2>5. \A x \in DOMAIN net : Announcement(x) /\ x \in DOMAIN net' => net'[x] = 1
      BY <2>1, <2>2, SendKeepsSingle DEF StorageInv, ToldOnce, Announcement
    <2>6. LogGrows
      BY <2>1, EpochTypes DEF LogGrows
    <2>. QED BY <2>1, <2>3, <2>4, <2>5, <2>6, StorageFrame DEF Decided
  <1>. QED BY <1>2, <1>3 DEF PhaseTimeout

(* BeginTransfer is sent for a frozen source. *)
LEMMA StorageFreezeAck ==
  ASSUME TypeOK, TransferInv, EpochInv, StorageInv, NEW m \in DOMAIN net,
         HandleFreezeAck(m), UNCHANGED serverVars
  PROVE  StorageInv'
  <1>. PICK s : s = m.shard
    OBVIOUS
  <1>. PICK b : b = Begin(meta[s].owner, s, meta[s].epoch, meta[s].target,
                          meta[s].attempt)
    OBVIOUS
  <1>1. b.type = "BeginTransfer"
    BY DEF Begin
  <1>2. PICK S : Receive(m, S) /\ S \subseteq {b}
    BY DEF HandleFreezeAck
  <1>3. attempts' = attempts
    BY DEF HandleFreezeAck
  <1>4. \A t \in Shards : meta'[t].owner = meta[t].owner /\ meta'[t].epoch = meta[t].epoch
    <2>1. CASE meta' = [meta EXCEPT ![m.shard].state = "TRANSFER"]
      BY <2>1 DEF TypeOK, CoordTypeOK, MetaRecord, StableRecord, ReassignedRecord
    <2>. QED BY <2>1 DEF HandleFreezeAck
  <1>5. \A o \in DOMAIN net' \ DOMAIN net : o = b
    BY <1>2, ReceiveAdds
  <1>6. ~Announcement(b) /\ AckedCopy(b)'
    BY <1>1 DEF Announcement, AckedCopy
  <1>7. \A x \in DOMAIN net : Announcement(x) /\ x \in DOMAIN net' => net'[x] = 1
    BY <1>1, <1>2, ReceiveKeepsSingle DEF StorageInv, ToldOnce, Announcement
  <1>8. LogGrows
    BY <1>3, <1>4, EpochTypes DEF LogGrows
  <1>. QED BY <1>3, <1>4, <1>5, <1>6, <1>7, <1>8, StorageFrame DEF Decided

(* A commit is accepted on evidence of the copy at the new owner, and that *)
(* copy has the last write.  It announces an epoch that is new.            *)
LEMMA StorageCommit ==
  ASSUME ControlledFaults, TypeOK, TransferInv, EpochInv, StorageInv,
         NEW m \in DOMAIN net, HandleTransferAck(m), TransferAckAccepted(m),
         UNCHANGED serverVars
  PROVE  StorageInv'
  <1>. PICK s : s = m.shard
    OBVIOUS
  <1>. PICK a : a = meta[s].attempt
    OBVIOUS
  <1>1. /\ s \in Shards
        /\ meta[s] \in ReassignedRecord
        /\ meta[s].state = "TRANSFER"
        /\ m.type = "TransferAck" /\ m.attempt = a
        /\ DOMAIN attempts' = DOMAIN attempts
        /\ attempts'[a] = [attempts[a] EXCEPT !.outcome = "complete"]
        /\ \A b \in DOMAIN attempts : b # a => attempts'[b] = attempts[b]
        /\ meta'[s] = Committed(meta[s])
        /\ \A t \in Shards : t # s => meta'[t] = meta[t]
        /\ Receive(m, CommitMessages(s))
    BY CommitLog DEF TransferInv
  <1>2. /\ a \in DOMAIN attempts /\ attempts[a].shard = s /\ ~Decided(a)
        /\ attempts[a].epoch = meta[s].epoch
    BY <1>1, CurrentRecord DEF TransferInv
  <1>. PICK old \in Servers : old = meta[s].owner
    BY <1>1 DEF ReassignedRecord
  <1>. PICK new \in Servers : new = meta[s].target
    BY <1>1 DEF ReassignedRecord
  <1>. PICK activate : activate = Activate(new, s, meta[s].epoch + 1, a)
    OBVIOUS
  <1>. PICK cleanup : cleanup = Cleanup(old, s, meta[s].epoch + 1, a)
    OBVIOUS
  <1>3. /\ activate.type = "ActivateShard" /\ activate.dst = new
        /\ activate.src = Coord /\ activate.shard = s /\ activate.attempt = a
        /\ activate.epoch = meta[s].epoch + 1
        /\ cleanup.type = "CleanupShard"
    BY DEF Activate, Cleanup, Control
  <1>4. Receive(m, {activate, cleanup})
    BY <1>1 DEF CommitMessages
  <1>5. \A x \in DOMAIN net' : x \in DOMAIN net \/ x = activate \/ x = cleanup
    BY <1>4, ReceiveAdds
  <1>6. meta'[s].owner = new
    BY <1>1 DEF Committed
  <1>7. \A b \in DOMAIN attempts : attempts[b] \in AttemptRecord
    BY LogDomain
  <1>8. attempts'[a].outcome = "complete"
    BY <1>1, <1>2, <1>7 DEF AttemptRecord
  <1>9. \A b \in DOMAIN attempts : /\ attempts'[b].shard = attempts[b].shard
                                    /\ attempts'[b].from = attempts[b].from
                                    /\ attempts'[b].to = attempts[b].to
                                    /\ attempts'[b].epoch = attempts[b].epoch
    BY <1>1, <1>7 DEF AttemptRecord
  <1>10. local' = local /\ pending' = pending /\ lastPut' = lastPut
    BY DEF serverVars
  <1>11. \A b \in DOMAIN attempts : ~Decided(b)' => ~Decided(b)
    BY <1>1, <1>8 DEF Decided
  <1>12. activate \notin DOMAIN net /\ ~MayDuplicate(activate)
    <2>1. activate \notin DOMAIN net
      BY <1>1, <1>3, EpochTypes DEF EpochInv, MessageEpoch
    <2>2. ~MayDuplicate(activate)
      BY <1>3 DEF MayDuplicate, ControlledFaults
    <2>. QED BY <2>1, <2>2
  <1>13. ASSUME NEW t \in Shards PROVE Stored(t)'
    <2>1. CASE t = s
      <3>1. pending[new][s].attempt = a
        <4>1. AckedCopy(m) /\ m.src = new
          BY <1>1 DEF StorageInv, TransferAckAccepted
        <4>. QED BY <1>1, <1>2, <4>1 DEF AckedCopy
      <3>2. HasPending(new, s)
        BY <1>2, <3>1, LogDomain DEF HasPending, NoCopy
      <3>3. pending[new][s].data = lastPut[s]
        <4>1. MayActivate(pending[new][s].attempt)
          BY <1>2, <3>1 DEF MayActivate
        <4>. QED BY <1>1, <3>2, <4>1 DEF TransferInv, DataInv
      <3>4. ASSUME NEW b \in DOMAIN attempts', attempts'[b].shard = s, b > a
            PROVE  FALSE
        <4>1. b \in DOMAIN attempts /\ attempts[b].shard = s /\ a < b
          BY <1>1, <1>2, <1>9, <3>4, LogDomain
        <4>2. attempts[a].epoch < attempts[b].epoch /\ attempts[b].epoch <= meta[s].epoch
          BY <1>2, <4>1 DEF EpochInv, AttemptEpochs
        <4>. QED BY <1>1, <1>2, <4>1, <4>2, EpochTypes
      <3>5. Awaiting(new, s)'
        BY <1>8, <1>10, <3>1, <3>2, <3>3, <3>4 DEF Awaiting, HasPending, AttemptsOf
      <3>. QED BY <1>6, <2>1, <3>5 DEF Stored
    <2>2. CASE t # s
      <3>. PICK n : n = meta[t].owner
        OBVIOUS
      <3>0. n \in Servers /\ meta'[t].owner = n
        BY <1>1, <2>2 DEF TypeOK, CoordTypeOK, MetaRecord, StableRecord, ReassignedRecord
      <3>1. CASE Live(n, t)
        <4>1. local[n][t].attempt # a
          BY <1>2, <2>2, <3>0, KnownCopy, LogDomain
        <4>2. Live(n, t)'
          BY <1>1, <1>10, <3>0, <3>1, <4>1, KnownCopy DEF Live, Held, Retired
        <4>. QED BY <3>0, <4>2 DEF Stored
      <3>2. CASE Awaiting(n, t)
        <4>. PICK p \in DOMAIN attempts : p = pending[n][t].attempt
          BY <3>0, <3>2, KnownCopy DEF Awaiting
        <4>1. p # a
          BY <1>2, <3>2 DEF Awaiting, Decided
        <4>2. attempts'[p].outcome = "complete"
          BY <1>1, <3>2, <4>1 DEF Awaiting
        <4>3. Awaiting(n, t)'
          BY <1>1, <1>9, <1>10, <3>2, <4>2 DEF Awaiting, HasPending, AttemptsOf
        <4>. QED BY <3>0, <4>3 DEF Stored
      <3>. QED BY <3>1, <3>2 DEF StorageInv, Stored
    <2>. QED BY <2>1, <2>2
  <1>14. ASSUME NEW x \in DOMAIN net' PROVE AckedCopy(x)'
    <2>1. CASE x \in DOMAIN net
      <3>1. x.attempt \in DOMAIN attempts /\ AckedCopy(x)
        BY <2>1, EveryMessageKnown DEF StorageInv
      <3>. QED BY <1>10, <1>11, <3>1 DEF AckedCopy
    <2>2. CASE x # m /\ x \notin DOMAIN net
      BY <1>3, <1>5, <2>2 DEF AckedCopy
    <2>. QED BY <2>1, <2>2
  <1>15. ASSUME NEW x \in DOMAIN net', Announcement(x) PROVE ToldOnce(x)'
    <2>1. CASE x \in DOMAIN net
      <3>1. x.attempt \in DOMAIN attempts /\ ToldOnce(x)
        BY <1>15, <2>1, EveryMessageKnown DEF StorageInv
      <3>2. x \notin {activate, cleanup}
        BY <1>3, <1>12, <1>15, <2>1 DEF Announcement
      <3>3. net'[x] = 1
        BY <1>4, <2>1, <3>1, <3>2, ReceiveKeepsSingle DEF ToldOnce
      <3>. QED BY <1>9, <3>1, <3>3 DEF ToldOnce
    <2>2. CASE x \notin DOMAIN net
      <3>1. x = activate
        BY <1>3, <1>5, <1>15, <2>2 DEF Announcement
      <3>2. net'[x] = 1
        BY <1>4, <1>12, <3>1, ReceiveSendsSingle
      <3>. QED BY <1>2, <1>3, <1>9, <3>1, <3>2 DEF ToldOnce
    <2>. QED BY <2>1, <2>2
  <1>16. ASSUME NEW n \in Servers, NEW t \in Shards PROVE FreshEpoch(n, t)'
    <2>1. ASSUME NEW x \in DOMAIN net', Held(n, t), Announces(x, n, t, local[n][t].epoch)
          PROVE  FALSE
      <3>1. CASE x \in DOMAIN net
        BY <2>1, <3>1 DEF StorageInv, FreshEpoch
      <3>2. CASE x \notin DOMAIN net
        <4>1. x = activate
          BY <1>3, <1>5, <2>1, <3>2 DEF Announces, Announcement
        <4>2. t = s /\ local[n][s].epoch = meta[s].epoch + 1
          BY <1>3, <2>1, <4>1 DEF Announces
        <4>. QED BY <4>2, EpochTypes DEF EpochInv
      <3>. QED BY <3>1, <3>2
    <2>. QED BY <1>10, <2>1 DEF FreshEpoch, Held, Announces, Announcement
  <1>17. ASSUME NEW b \in DOMAIN attempts'
         PROVE  /\ attempts'[b].from # attempts'[b].to
                /\ Entered(b)' => LeftBehind(b)'
    <2>0. b \in DOMAIN attempts
      BY <1>1
    <2>1. Entered(b)' => Entered(b)
      <3>1. CASE b = a
        <4>1. SourceFrozen(a)
          BY <1>1, <1>2 DEF TransferInv, EvidenceInv, SourceFrozen, SourceSending
        <4>. QED BY <1>2, <3>1, <4>1 DEF Entered
      <3>2. CASE b # a
        BY <1>1, <1>10, <2>0, <3>2 DEF Entered, SourceFrozen, SourceOf, Decided
      <3>. QED BY <3>1, <3>2
    <2>2. attempts[b].from # attempts[b].to /\ (Entered(b) => LeftBehind(b))
      BY <2>0 DEF StorageInv
    <2>3. ASSUME NEW x \in DOMAIN net',
                 Announces(x, attempts[b].from, attempts[b].shard, attempts[b].epoch)
          PROVE  x \in DOMAIN net
      <3>1. SUFFICES ASSUME x \notin DOMAIN net PROVE FALSE
        OBVIOUS
      <3>2. x = activate
        BY <1>3, <1>5, <2>3, <3>1 DEF Announces, Announcement
      <3>3. attempts[b].shard = s /\ attempts[b].epoch = meta[s].epoch + 1
        BY <1>3, <2>3, <3>2 DEF Announces
      <3>4. attempts[b].epoch <= meta[s].epoch
        BY <2>0, <3>3 DEF EpochInv, AttemptEpochs
      <3>. QED BY <1>1, <3>3, <3>4, EpochTypes
    <2>4. LeftBehind(b) => LeftBehind(b)'
      BY <1>9, <1>10, <2>0, <2>3 DEF LeftBehind, Held, Announces, Announcement
    <2>. QED BY <1>9, <2>0, <2>1, <2>2, <2>4
  <1>. QED BY <1>13, <1>14, <1>15, <1>16, <1>17 DEF StorageInv

(* A commit leaves the register in the pending copy of the new owner. *)
LEMMA StorageTransferAck ==
  ASSUME ControlledFaults, TypeOK, TransferInv, EpochInv, StorageInv,
         NEW m \in DOMAIN net, HandleTransferAck(m), UNCHANGED serverVars
  PROVE  StorageInv'
  <1>1. CASE TransferAckAccepted(m)
    BY <1>1, StorageCommit
  <1>2. CASE ~TransferAckAccepted(m)
    <2>. PICK S : S = {}
      OBVIOUS
    <2>1. Receive(m, S) /\ UNCHANGED coordVars
      BY <1>2 DEF HandleTransferAck
    <2>. QED BY <2>1, StorageAnswer
  <1>. QED BY <1>1, <1>2

-----------------------------------------------------------------------------
(* A step of server n on shard s keeps the invariant if it keeps the       *)
(* register stored and the copies that are acknowledged, and if n is not   *)
(* told again the epoch that its shard has afterwards.                     *)
LEMMA StorageServerFrame ==
  ASSUME TypeOK, TransferInv, EpochInv, StorageInv, UNCHANGED coordVars,
         NEW n \in Servers, NEW s \in Shards,
         \A o \in Servers, t \in Shards : o # n \/ t # s =>
            local'[o][t] = local[o][t] /\ pending'[o][t] = pending[o][t],
         \A t \in Shards : t # s \/ meta[s].owner # n => lastPut'[t] = lastPut[t],
         \A o \in DOMAIN net' \ DOMAIN net :
            /\ ~Announcement(o)
            /\ o.type = "TransferAck" =>
                  o.src = n /\ o.shard = s /\ pending'[n][s].attempt = o.attempt,
         \A m \in DOMAIN net : Announcement(m) /\ m \in DOMAIN net' => net'[m] = 1,
         meta[s].owner = n => Live(n, s)' \/ Awaiting(n, s)',
         pending[n][s].attempt \in DOMAIN attempts /\ ~Decided(pending[n][s].attempt) =>
            pending'[n][s].attempt = pending[n][s].attempt,
         FreshEpoch(n, s)',
         \A a \in DOMAIN attempts :
            attempts[a].from = n /\ attempts[a].shard = s /\ Entered(a)' => LeftBehind(a)'
  PROVE  StorageInv'
  <1>1. meta' = meta /\ attempts' = attempts
    BY DEF coordVars
  <1>2. \A m \in DOMAIN net' : Announcement(m) => m \in DOMAIN net
    OBVIOUS
  <1>3. ASSUME NEW t \in Shards PROVE Stored(t)'
    <2>. PICK o \in Servers : o = meta[t].owner
      BY DEF TypeOK, CoordTypeOK, MetaRecord, StableRecord, ReassignedRecord
    <2>1. CASE o = n /\ t = s
      BY <1>1, <2>1 DEF Stored
    <2>2. CASE o # n \/ t # s
      <3>1. /\ local'[o][t] = local[o][t] /\ pending'[o][t] = pending[o][t]
            /\ lastPut'[t] = lastPut[t]
        BY <2>2
      <3>2. Live(o, t) \/ Awaiting(o, t)
        BY DEF StorageInv, Stored
      <3>. QED
        BY <1>1, <3>1, <3>2
           DEF Stored, Live, Held, Retired, Awaiting, HasPending, AttemptsOf
    <2>. QED BY <2>1, <2>2
  <1>4. ASSUME NEW m \in DOMAIN net' PROVE AckedCopy(m)'
    <2>1. CASE m \in DOMAIN net
      <3>1. SUFFICES ASSUME m.type = "TransferAck", ~Decided(m.attempt)
                     PROVE  pending'[m.src][m.shard].attempt = m.attempt
        BY <1>1 DEF AckedCopy, Decided
      <3>2. pending[m.src][m.shard].attempt = m.attempt /\ m.attempt \in DOMAIN attempts
        BY <2>1, <3>1, EveryMessageKnown DEF StorageInv, AckedCopy
      <3>3. m.src \in Servers /\ m.shard \in Shards
        <4>1. m \in AckMsg
          BY <2>1, <3>1, MessageKinds DEF TypeOK
        <4>. QED BY <4>1 DEF AckMsg
      <3>4. CASE m.src = n /\ m.shard = s
        BY <3>1, <3>2, <3>4
      <3>5. CASE m.src # n \/ m.shard # s
        BY <3>2, <3>3, <3>5
      <3>. QED BY <3>4, <3>5
    <2>2. CASE m \notin DOMAIN net
      BY <2>2 DEF AckedCopy
    <2>. QED BY <2>1, <2>2
  <1>5. ASSUME NEW m \in DOMAIN net', Announcement(m) PROVE ToldOnce(m)'
    BY <1>1, <1>2, <1>5 DEF StorageInv, ToldOnce
  <1>6. ASSUME NEW o \in Servers, NEW t \in Shards PROVE FreshEpoch(o, t)'
    <2>1. CASE o # n \/ t # s
      <3>1. local'[o][t] = local[o][t] /\ FreshEpoch(o, t)
        BY <2>1 DEF StorageInv
      <3>. QED BY <1>2, <3>1 DEF FreshEpoch, Held, Announces
    <2>. QED BY <2>1
  <1>7. ASSUME NEW a \in DOMAIN attempts
        PROVE  attempts[a].from # attempts[a].to /\ (Entered(a)' => LeftBehind(a)')
    <2>1. attempts[a].from \in Servers /\ attempts[a].shard \in Shards
      BY LogDomain DEF AttemptRecord
    <2>2. attempts[a].from # attempts[a].to /\ (Entered(a) => LeftBehind(a))
      BY DEF StorageInv
    <2>3. CASE attempts[a].from # n \/ attempts[a].shard # s
      <3>1. local'[attempts[a].from][attempts[a].shard]
              = local[attempts[a].from][attempts[a].shard]
        BY <2>1, <2>3
      <3>2. Entered(a)' => Entered(a)
        BY <1>1, <3>1 DEF Entered, SourceFrozen, SourceOf, Decided
      <3>3. LeftBehind(a) => LeftBehind(a)'
        BY <1>1, <1>2, <3>1 DEF LeftBehind, Held, Announces
      <3>. QED BY <2>2, <3>2, <3>3
    <2>. QED BY <2>2, <2>3
  <1>. QED BY <1>1, <1>3, <1>4, <1>5, <1>6, <1>7 DEF StorageInv

(* What a step of server n on shard s must leave true of the epoch and the *)
(* mark of the shard.                                                      *)
Settled(n, s) == /\ FreshEpoch(n, s)
                 /\ \A a \in DOMAIN attempts :
                       attempts[a].from = n /\ attempts[a].shard = s /\ Entered(a)
                          => LeftBehind(a)

(* Nothing changes while the shard keeps its epoch and its mark. *)
LEMMA MarkKept ==
  ASSUME StorageInv, UNCHANGED coordVars, NEW n \in Servers, NEW s \in Shards,
         local'[n][s].epoch = local[n][s].epoch,
         local'[n][s].attempt = local[n][s].attempt,
         Held(n, s)' => Held(n, s),
         \A m \in DOMAIN net' : Announcement(m) => m \in DOMAIN net
  PROVE  Settled(n, s)'
  <1>1. attempts' = attempts
    BY DEF coordVars
  <1>2. FreshEpoch(n, s)'
    BY DEF StorageInv, FreshEpoch, Announces
  <1>3. ASSUME NEW a \in DOMAIN attempts, attempts[a].from = n, attempts[a].shard = s,
               Entered(a)'
        PROVE  LeftBehind(a)'
    <2>1. Entered(a)
      BY <1>1, <1>3 DEF Entered, SourceFrozen, SourceOf, Decided
    <2>2. LeftBehind(a)
      BY <2>1 DEF StorageInv
    <2>. QED BY <1>1, <1>3, <2>2 DEF LeftBehind, Announces
  <1>. QED BY <1>1, <1>2, <1>3 DEF Settled

(* An announcement gives the shard an epoch that it does not get again,    *)
(* and takes its mark away.                                                *)
LEMMA MarkCleared ==
  ASSUME TypeOK, TransferInv, EpochInv, StorageInv, UNCHANGED coordVars,
         NEW n \in Servers, NEW s \in Shards, NEW m \in DOMAIN net,
         Announces(m, n, s, m.epoch), Receive(m, {}),
         local'[n][s].epoch = m.epoch, local'[n][s].attempt = NoAttempt
  PROVE  Settled(n, s)'
  <1>1. attempts' = attempts
    BY DEF coordVars
  <1>2. DOMAIN net' \subseteq DOMAIN net /\ m \notin DOMAIN net'
    BY ReceiveAdds, ReceiveTakesSingle DEF StorageInv, ToldOnce, Announces
  <1>3. FreshEpoch(n, s)'
    <2>1. \A o \in DOMAIN net' : ~Announces(o, n, s, m.epoch)
      BY <1>2, OneAnnouncement
    <2>. QED BY <2>1 DEF FreshEpoch, Announces
  <1>4. ASSUME NEW a \in DOMAIN attempts, attempts[a].from = n, attempts[a].shard = s,
               Entered(a)'
        PROVE  LeftBehind(a)'
    <2>1. ~SourceFrozen(a)'
      BY <1>1, <1>4, LogDomain DEF SourceFrozen, SourceOf
    <2>2. Entered(a)
      BY <1>1, <1>4, <2>1 DEF Entered, Decided
    <2>3. LeftBehind(a)
      BY <2>2 DEF StorageInv
    <2>4. attempts[a].epoch # m.epoch
      BY <1>4, <2>3 DEF LeftBehind
    <2>. QED BY <1>1, <1>2, <1>4, <2>3, <2>4 DEF LeftBehind, Announces
  <1>. QED BY <1>1, <1>3, <1>4 DEF Settled

(* The step of a server, with the messages it may send. *)
LEMMA StorageServerStep ==
  ASSUME TypeOK, TransferInv, EpochInv, StorageInv, UNCHANGED coordVars,
         NEW n \in Servers, NEW s \in Shards,
         \A o \in Servers, t \in Shards : o # n \/ t # s =>
            local'[o][t] = local[o][t] /\ pending'[o][t] = pending[o][t],
         UNCHANGED lastPut,
         NEW m \in DOMAIN net, NEW S, Receive(m, S),
         \A o \in S :
            /\ ~Announcement(o)
            /\ o.type = "TransferAck" =>
                  o.src = n /\ o.shard = s /\ pending'[n][s].attempt = o.attempt,
         meta[s].owner = n => Live(n, s)' \/ Awaiting(n, s)',
         pending[n][s].attempt \in DOMAIN attempts /\ ~Decided(pending[n][s].attempt) =>
            pending'[n][s].attempt = pending[n][s].attempt,
         Settled(n, s)'
  PROVE  StorageInv'
  <1>1. \A o \in DOMAIN net' \ DOMAIN net : o \in S
    BY ReceiveAdds
  <1>2. \A x \in DOMAIN net : Announcement(x) /\ x \in DOMAIN net' => net'[x] = 1
    BY ReceiveKeepsSingle DEF StorageInv, ToldOnce
  <1>3. FreshEpoch(n, s)'
    BY DEF Settled
  <1>4. \A a \in DOMAIN attempts :
           attempts[a].from = n /\ attempts[a].shard = s /\ Entered(a)' => LeftBehind(a)'
    BY DEF Settled, coordVars
  <1>5. \A t \in Shards : lastPut'[t] = lastPut[t]
    OBVIOUS
  <1>6. \A o \in DOMAIN net' \ DOMAIN net :
            /\ ~Announcement(o)
            /\ o.type = "TransferAck" =>
                  o.src = n /\ o.shard = s /\ pending'[n][s].attempt = o.attempt
    BY <1>1
  <1>. QED BY <1>2, <1>3, <1>4, <1>5, <1>6, StorageServerFrame

(* The register of the owner stays where it is. *)
LEMMA RegisterKept ==
  ASSUME TransferInv, StorageInv, UNCHANGED <<coordVars, lastPut>>,
         NEW n \in Servers, NEW s \in Shards, meta[s].owner = n,
         Live(n, s) => Live(n, s)',
         pending'[n][s] = pending[n][s]
  PROVE  Live(n, s)' \/ Awaiting(n, s)'
  BY DEF StorageInv, Stored, Awaiting, HasPending, AttemptsOf, coordVars

-----------------------------------------------------------------------------
(* The steps of a server. *)

(* A shard is frozen only for an undecided attempt or an aborted one: the  *)
(* source of a completed attempt has left its epoch behind.                *)
LEMMA StorageFreeze ==
  ASSUME TypeOK, TransferInv, EpochInv, StorageInv, NEW m \in DOMAIN net,
         m.dst \in Servers, HandleFreezeShard(m), UNCHANGED coordVars
  PROVE  StorageInv'
  <1>. PICK n \in Servers : n = m.dst
    OBVIOUS
  <1>. PICK s \in Shards : s = m.shard
    BY MessageShard
  <1>0. m.type = "FreezeShard"
    BY DEF HandleFreezeShard
  <1>. PICK a \in DOMAIN attempts : /\ a = m.attempt
                                    /\ attempts[a].shard = s
                                    /\ attempts[a].from = n
                                    /\ attempts[a].epoch = m.epoch
    BY <1>0, KnownMessage DEF TransferInv, MarkInv, MessageMark, EpochInv, MessageEpoch
  <1>. PICK f : f = Ack("FreezeAck", m)
    OBVIOUS
  <1>1. f.type = "FreezeAck"
    BY DEF Ack
  <1>2. CASE FreezeEnters(m)
    <2>. PICK r : r = [local[n][s] EXCEPT !.state = "FREEZE", !.attempt = a]
      OBVIOUS
    <2>1. SetLocal(m, r) /\ Receive(m, {f}) /\ UNCHANGED <<pending, lastPut>>
      BY <1>2 DEF HandleFreezeShard, FreezeEnters, FreezeRepeated, LocalOf
    <2>2. /\ Live(n, s) /\ local[n][s].attempt = NoAttempt
          /\ local[n][s].epoch = attempts[a].epoch
      BY <1>2, ServingLive DEF FreezeEnters, LocalOf, Serving
    <2>3. /\ local'[n][s] = r
          /\ \A o \in Servers, t \in Shards :
                o # n \/ t # s => local'[o][t] = local[o][t]
      BY <2>1, LocalSet
    <2>4. local[n][s] \in HeldRecord
      BY <2>2 DEF Live, Held, TypeOK, ServerTypeOK, LocalRecord
    <2>5. r.attempt = a /\ r.epoch = local[n][s].epoch
      BY <2>4 DEF HeldRecord
    <2>6. \A x \in DOMAIN net' : Announcement(x) => x \in DOMAIN net
      BY <1>1, <2>1, ReceiveAdds DEF Announcement
    <2>7. attempts[a].outcome # "complete"
      <3>1. attempts[a].outcome = "complete" => LeftBehind(a)
        BY DEF StorageInv, Entered
      <3>. QED BY <2>2, <3>1, LogDomain DEF LeftBehind, Live
    <2>8. Live(n, s)'
      <3>1. a # NoAttempt
        BY LogDomain
      <3>2. Absent.attempt = NoAttempt
        BY DEF Absent
      <3>3. Held(n, s)'
        BY <2>3, <2>5, <3>1, <3>2 DEF Held
      <3>. QED BY <2>3, <2>5, <2>7, <3>3 DEF Live, Retired, coordVars
    <2>9. \A x \in DOMAIN net : ~Announces(x, n, s, attempts[a].epoch)
      BY <2>2 DEF StorageInv, FreshEpoch, Live
    <2>10. FreshEpoch(n, s)'
      BY <2>2, <2>3, <2>5, <2>6, <2>9 DEF FreshEpoch, Announces
    <2>11. LeftBehind(a)'
      BY <2>3, <2>5, <2>6, <2>9 DEF LeftBehind, Announces, coordVars
    <2>12. ASSUME NEW b \in DOMAIN attempts, attempts[b].from = n,
                  attempts[b].shard = s, Entered(b)', b # a
           PROVE  LeftBehind(b)'
      <3>1. ~SourceFrozen(b)'
        BY <2>3, <2>5, <2>12 DEF SourceFrozen, SourceOf, coordVars
      <3>2. attempts[b].outcome = "complete"
        BY <2>12, <3>1 DEF Entered, coordVars
      <3>3. LeftBehind(b)
        BY <3>2 DEF StorageInv, Entered
      <3>4. attempts[b].epoch # local[n][s].epoch
        BY <2>2, <2>12, EpochsOrder
      <3>. QED BY <2>3, <2>5, <2>6, <2>12, <3>3, <3>4 DEF LeftBehind, Announces, coordVars
    <2>13. Settled(n, s)'
      BY <2>10, <2>11, <2>12 DEF Settled, coordVars
    <2>. PICK S : S = {f}
      OBVIOUS
    <2>14. /\ \A o \in Servers, t \in Shards : o # n \/ t # s =>
                 local'[o][t] = local[o][t] /\ pending'[o][t] = pending[o][t]
           /\ UNCHANGED lastPut /\ Receive(m, S)
           /\ \A o \in S :
                 /\ ~Announcement(o)
                 /\ o.type = "TransferAck" =>
                      o.src = n /\ o.shard = s /\ pending'[n][s].attempt = o.attempt
           /\ meta[s].owner = n => Live(n, s)' \/ Awaiting(n, s)'
           /\ pending[n][s].attempt \in DOMAIN attempts /\ ~Decided(pending[n][s].attempt) =>
                 pending'[n][s].attempt = pending[n][s].attempt
      BY <1>1, <2>1, <2>3, <2>8 DEF Announcement
    <2>. QED BY <2>13, <2>14, StorageServerStep
  <1>3. CASE UNCHANGED serverVars
    <2>1. PICK S : S \subseteq {f} /\ Receive(m, S)
      BY <1>1 DEF HandleFreezeShard, Ignore
    <2>2. \A o \in S : ~Announcement(o) /\ AckedCopy(o)
      BY <1>1, <2>1 DEF Announcement, AckedCopy
    <2>3. UNCHANGED <<coordVars, serverVars>>
      BY <1>3
    <2>. QED BY <2>1, <2>2, <2>3, StorageAnswer
  <1>. QED BY <1>2, <1>3 DEF HandleFreezeShard, Ignore

(* The source sends its copy and keeps it. *)
LEMMA StorageBegin ==
  ASSUME TypeOK, TransferInv, EpochInv, StorageInv, NEW m \in DOMAIN net,
         m.dst \in Servers, HandleBeginTransfer(m), UNCHANGED coordVars
  PROVE  StorageInv'
  <1>. PICK n \in Servers : n = m.dst
    OBVIOUS
  <1>. PICK s \in Shards : s = m.shard
    BY MessageShard
  <1>1. CASE TransferStarts(m)
    <2>. PICK r : r = [local[n][s] EXCEPT !.state = "TRANSFER"]
      OBVIOUS
    <2>. PICK f : f = TransferOut(m)
      OBVIOUS
    <2>1. SetLocal(m, r) /\ Receive(m, {f}) /\ UNCHANGED <<pending, lastPut>>
      BY <1>1 DEF HandleBeginTransfer, LocalOf
    <2>2. f.type = "TransferShard"
      BY DEF TransferOut
    <2>3. /\ local'[n][s] = r
          /\ \A o \in Servers, t \in Shards :
                o # n \/ t # s => local'[o][t] = local[o][t]
      BY <2>1, LocalSet
    <2>4. local[n][s] \in HeldRecord /\ Held(n, s)
      BY <1>1 DEF TransferStarts, LocalOf, Held, Absent, TypeOK, ServerTypeOK, LocalRecord
    <2>5. /\ r.state = "TRANSFER" /\ r.attempt = local[n][s].attempt
          /\ r.epoch = local[n][s].epoch
      BY <2>4 DEF HeldRecord
    <2>6. Held(n, s)'
      <3>1. Absent.state = "ABSENT"
        BY DEF Absent
      <3>. QED BY <2>3, <2>5, <3>1 DEF Held
    <2>7. Live(n, s) => Live(n, s)'
      BY <2>3, <2>5, <2>6 DEF Live, Retired, coordVars
    <2>8. \A x \in DOMAIN net' : Announcement(x) => x \in DOMAIN net
      BY <2>1, <2>2, ReceiveAdds DEF Announcement
    <2>9. Settled(n, s)'
      BY <2>3, <2>4, <2>5, <2>8, MarkKept
    <2>10. meta[s].owner = n => Live(n, s)' \/ Awaiting(n, s)'
      BY <2>1, <2>7, RegisterKept
    <2>. PICK S : S = {f}
      OBVIOUS
    <2>11. /\ \A o \in Servers, t \in Shards : o # n \/ t # s =>
                 local'[o][t] = local[o][t] /\ pending'[o][t] = pending[o][t]
           /\ UNCHANGED lastPut /\ Receive(m, S)
           /\ \A o \in S :
                 /\ ~Announcement(o)
                 /\ o.type = "TransferAck" =>
                      o.src = n /\ o.shard = s /\ pending'[n][s].attempt = o.attempt
           /\ pending[n][s].attempt \in DOMAIN attempts /\ ~Decided(pending[n][s].attempt) =>
                 pending'[n][s].attempt = pending[n][s].attempt
      BY <2>1, <2>2, <2>3 DEF Announcement
    <2>. QED BY <2>9, <2>10, <2>11, StorageServerStep
  <1>2. CASE ~TransferStarts(m)
    <2>. PICK S : S = {}
      OBVIOUS
    <2>1. Receive(m, S) /\ UNCHANGED <<coordVars, serverVars>>
      BY <1>2 DEF HandleBeginTransfer, Ignore
    <2>. QED BY <2>1, StorageAnswer
  <1>. QED BY <1>1, <1>2

(* A copy that its new owner still has to activate is not replaced: no     *)
(* later attempt leads there.  Nor is one whose acknowledgement may still  *)
(* be accepted: its epoch is the latest there is.                          *)
LEMMA StorageTransferShard ==
  ASSUME TypeOK, TransferInv, EpochInv, StorageInv, NEW m \in DOMAIN net,
         m.dst \in Servers, HandleTransferShard(m), UNCHANGED coordVars
  PROVE  StorageInv'
  <1>. PICK n \in Servers : n = m.dst
    OBVIOUS
  <1>. PICK s \in Shards : s = m.shard
    BY MessageShard
  <1>0. m.type = "TransferShard"
    BY DEF HandleTransferShard
  <1>. PICK a \in DOMAIN attempts : /\ a = m.attempt
                                    /\ attempts[a].shard = s
                                    /\ attempts[a].to = n
                                    /\ attempts[a].epoch = m.epoch
    BY <1>0, KnownMessage DEF EpochInv, MessageEpoch
  <1>. PICK f : f = Ack("TransferAck", m)
    OBVIOUS
  <1>1. /\ f.type = "TransferAck" /\ f.attempt = a
        /\ f.src = n /\ f.shard = s
    BY DEF Ack
  <1>. PICK c : c = [epoch |-> m.epoch, attempt |-> a, data |-> m.data, source |-> m.src]
    OBVIOUS
  <1>2. CASE /\ ~PendingBlocks(m)
             /\ SetPending(m, c) /\ Receive(m, {f}) /\ UNCHANGED <<local, lastPut>>
    <2>1. /\ pending'[n][s] = c
          /\ \A o \in Servers, t \in Shards :
                o # n \/ t # s => pending'[o][t] = pending[o][t]
      BY <1>2, PendingSet
    <2>2. HasPending(n, s) => /\ pending[n][s].epoch < m.epoch
                              /\ pending[n][s].attempt \in DOMAIN attempts
                              /\ attempts[pending[n][s].attempt].shard = s
                              /\ attempts[pending[n][s].attempt].epoch = pending[n][s].epoch
      BY <1>2, EpochTypes, KnownCopy DEF PendingBlocks, PendingOf, EpochInv, CopyEpoch
    <2>3. ~(meta[s].owner = n /\ Awaiting(n, s))
      <3>1. SUFFICES ASSUME Awaiting(n, s) PROVE FALSE
        OBVIOUS
      <3>. PICK p \in DOMAIN attempts : p = pending[n][s].attempt
        BY <2>2, <3>1 DEF Awaiting
      <3>2. attempts[p].shard = s /\ attempts[p].epoch < attempts[a].epoch
        BY <2>2, <3>1 DEF Awaiting
      <3>3. a > p
        <4>1. attempts[a].shard = attempts[p].shard
          BY <3>2
        <4>2. a < p => attempts[a].epoch < attempts[p].epoch
          BY <4>1 DEF EpochInv, AttemptEpochs
        <4>3. a # p
          BY <3>2, EpochTypes
        <4>. QED BY <3>2, <4>2, <4>3, EpochTypes, LogDomain
      <3>4. attempts[a].from = n
        BY <3>1, <3>3 DEF Awaiting, AttemptsOf
      <3>. QED BY <3>4 DEF StorageInv
    <2>4. ~(pending[n][s].attempt \in DOMAIN attempts /\ ~Decided(pending[n][s].attempt))
      <3>1. SUFFICES ASSUME pending[n][s].attempt \in DOMAIN attempts,
                            ~Decided(pending[n][s].attempt)
                     PROVE  FALSE
        OBVIOUS
      <3>2. HasPending(n, s)
        BY <3>1, LogDomain DEF HasPending, NoCopy
      <3>3. meta[s].attempt = pending[n][s].attempt
        BY <2>2, <3>1, <3>2, UndecidedSource
      <3>4. meta[s].state # "STABLE"
        BY <3>1, <3>3, LogDomain DEF TransferInv, CoordInv, MetaMatchesAttempt
      <3>5. attempts[pending[n][s].attempt].epoch = meta[s].epoch
        BY <3>3, <3>4, CurrentRecord DEF TransferInv
      <3>6. m.epoch <= meta[s].epoch
        BY DEF EpochInv, MessageEpoch
      <3>. QED BY <2>2, <3>2, <3>5, <3>6, EpochTypes
    <2>5. meta[s].owner = n => Live(n, s)' \/ Awaiting(n, s)'
      <3>1. meta[s].owner = n => Live(n, s)
        BY <2>3 DEF StorageInv, Stored
      <3>. QED BY <1>2, <3>1 DEF Live, Held, Retired, coordVars
    <2>6. \A x \in DOMAIN net' : Announcement(x) => x \in DOMAIN net
      BY <1>1, <1>2, ReceiveAdds DEF Announcement
    <2>7. Settled(n, s)'
      <3>1. local' = local
        BY <1>2
      <3>. QED BY <2>6, <3>1, MarkKept DEF Held
    <2>. PICK S : S = {f}
      OBVIOUS
    <2>8. /\ \A o \in Servers, t \in Shards : o # n \/ t # s =>
                local'[o][t] = local[o][t] /\ pending'[o][t] = pending[o][t]
          /\ UNCHANGED lastPut /\ Receive(m, S)
          /\ \A o \in S :
                /\ ~Announcement(o)
                /\ o.type = "TransferAck" =>
                     o.src = n /\ o.shard = s /\ pending'[n][s].attempt = o.attempt
          /\ pending[n][s].attempt \in DOMAIN attempts /\ ~Decided(pending[n][s].attempt) =>
                pending'[n][s].attempt = pending[n][s].attempt
      BY <1>1, <1>2, <2>1, <2>4 DEF Announcement
    <2>. QED BY <2>5, <2>7, <2>8, StorageServerStep
  <1>3. CASE TransferRepeated(m) /\ Receive(m, {f}) /\ UNCHANGED serverVars
    <2>. PICK S : S = {f}
      OBVIOUS
    <2>1. \A o \in S : ~Announcement(o) /\ AckedCopy(o)
      BY <1>1, <1>3 DEF Announcement, AckedCopy, TransferRepeated, PendingOf
    <2>2. Receive(m, S) /\ UNCHANGED <<coordVars, serverVars>>
      BY <1>3
    <2>. QED BY <2>1, <2>2, StorageAnswer
  <1>4. CASE Ignore(m)
    <2>. PICK S : S = {}
      OBVIOUS
    <2>1. Receive(m, S) /\ UNCHANGED <<coordVars, serverVars>>
      BY <1>4 DEF Ignore
    <2>. QED BY <2>1, StorageAnswer
  <1>. QED BY <1>2, <1>3, <1>4 DEF HandleTransferShard

(* An activation makes the pending copy the live one. *)
LEMMA StorageActivate ==
  ASSUME TypeOK, TransferInv, EpochInv, StorageInv, NEW m \in DOMAIN net,
         m.dst \in Servers, HandleActivateShard(m), UNCHANGED coordVars
  PROVE  StorageInv'
  <1>. PICK n \in Servers : n = m.dst
    OBVIOUS
  <1>. PICK s \in Shards : s = m.shard
    BY MessageShard
  <1>0. m.type = "ActivateShard"
    BY DEF HandleActivateShard
  <1>1. CASE ActivateAccepted(m)
    <2>. PICK r : r = [epoch |-> m.epoch, state |-> "STABLE",
                       data |-> pending[n][s].data, attempt |-> NoAttempt]
      OBVIOUS
    <2>1. SetLocal(m, r) /\ SetPending(m, NoCopy) /\ Receive(m, {})
            /\ UNCHANGED lastPut
      BY <1>1 DEF HandleActivateShard, PendingOf
    <2>2. /\ local'[n][s] = r
          /\ \A o \in Servers, t \in Shards :
                o # n \/ t # s => local'[o][t] = local[o][t]
      BY <2>1, LocalSet
    <2>3. \A o \in Servers, t \in Shards :
             o # n \/ t # s => pending'[o][t] = pending[o][t]
      BY <2>1, PendingSet
    <2>4. Live(n, s)'
      <3>1. Absent.state = "ABSENT"
        BY DEF Absent
      <3>. QED BY <2>2, <3>1 DEF Live, Held, Retired
    <2>5. Settled(n, s)'
      <3>1. Announces(m, n, s, m.epoch)
        BY <1>0 DEF Announces, Announcement
      <3>2. local'[n][s].epoch = m.epoch /\ local'[n][s].attempt = NoAttempt
        BY <2>2
      <3>. QED BY <2>1, <3>1, <3>2, MarkCleared
    <2>6. pending[n][s].attempt = m.attempt /\ Decided(m.attempt)
      BY <1>0, <1>1, EveryMessageKnown DEF ActivateAccepted, PendingOf, Decided
    <2>. PICK S : S = {}
      OBVIOUS
    <2>7. /\ \A o \in Servers, t \in Shards : o # n \/ t # s =>
                local'[o][t] = local[o][t] /\ pending'[o][t] = pending[o][t]
          /\ UNCHANGED lastPut /\ Receive(m, S)
          /\ \A o \in S : FALSE
      BY <2>1, <2>2, <2>3
    <2>. QED BY <2>4, <2>5, <2>6, <2>7, StorageServerStep
  <1>2. CASE ~ActivateAccepted(m)
    <2>. PICK S : S = {}
      OBVIOUS
    <2>1. Receive(m, S) /\ UNCHANGED <<coordVars, serverVars>>
      BY <1>2 DEF HandleActivateShard, Ignore
    <2>. QED BY <2>1, StorageAnswer
  <1>. QED BY <1>1, <1>2

(* What a cleanup removes is retired: the register is elsewhere. *)
LEMMA StorageCleanup ==
  ASSUME TypeOK, TransferInv, EpochInv, StorageInv, NEW m \in DOMAIN net,
         m.dst \in Servers, HandleCleanupShard(m), UNCHANGED coordVars
  PROVE  StorageInv'
  <1>. PICK n \in Servers : n = m.dst
    OBVIOUS
  <1>. PICK s \in Shards : s = m.shard
    BY MessageShard
  <1>0. m.type = "CleanupShard"
    BY DEF HandleCleanupShard
  <1>1. CASE CleanupAccepted(m)
    <2>1. SetLocal(m, Absent) /\ Receive(m, {}) /\ UNCHANGED <<pending, lastPut>>
      BY <1>1 DEF HandleCleanupShard
    <2>2. /\ local'[n][s] = Absent
          /\ \A o \in Servers, t \in Shards :
                o # n \/ t # s => local'[o][t] = local[o][t]
      BY <2>1, LocalSet
    <2>3. ~Live(n, s)
      <3>1. /\ m.attempt \in DOMAIN attempts
            /\ attempts[m.attempt].outcome = "complete"
            /\ local[n][s].attempt = m.attempt
        BY <1>0, <1>1, EveryMessageKnown DEF CleanupAccepted, LocalOf
      <3>. QED BY <3>1, LogDomain DEF Live, Retired
    <2>4. meta[s].owner = n => Live(n, s)' \/ Awaiting(n, s)'
      BY <2>1, <2>3, RegisterKept
    <2>5. DOMAIN net' \subseteq DOMAIN net
      BY <2>1, ReceiveAdds
    <2>6. Settled(n, s)'
      <3>1. FreshEpoch(n, s)'
        BY <2>2 DEF FreshEpoch, Held
      <3>2. ASSUME NEW b \in DOMAIN attempts, attempts[b].from = n,
                   attempts[b].shard = s, Entered(b)'
            PROVE  LeftBehind(b)'
        <4>1. ~SourceFrozen(b)'
          <5>1. local'[n][s].attempt = NoAttempt
            BY <2>2 DEF Absent
          <5>. QED BY <3>2, <5>1, LogDomain DEF SourceFrozen, SourceOf, coordVars
        <4>2. LeftBehind(b)
          BY <3>2, <4>1 DEF Entered, Decided, StorageInv, coordVars
        <4>. QED BY <2>2, <2>5, <3>2, <4>2 DEF LeftBehind, Announces, Held, coordVars
      <3>. QED BY <3>1, <3>2 DEF Settled, coordVars
    <2>. PICK S : S = {}
      OBVIOUS
    <2>7. /\ \A o \in Servers, t \in Shards : o # n \/ t # s =>
                local'[o][t] = local[o][t] /\ pending'[o][t] = pending[o][t]
          /\ UNCHANGED lastPut /\ Receive(m, S)
          /\ \A o \in S : FALSE
          /\ pending'[n][s].attempt = pending[n][s].attempt
      BY <2>1, <2>2
    <2>. QED BY <2>4, <2>6, <2>7, StorageServerStep
  <1>2. CASE ~CleanupAccepted(m)
    <2>. PICK S : S = {}
      OBVIOUS
    <2>1. Receive(m, S) /\ UNCHANGED <<coordVars, serverVars>>
      BY <1>2 DEF HandleCleanupShard, Ignore
    <2>. QED BY <2>1, StorageAnswer
  <1>. QED BY <1>1, <1>2

(* An abort removes only the copy of its own attempt, which is not         *)
(* complete.                                                               *)
LEMMA StorageRollBack ==
  ASSUME TypeOK, TransferInv, EpochInv, StorageInv, NEW m \in DOMAIN net,
         m.dst \in Servers, HandleAbortReconfiguration(m), UNCHANGED coordVars
  PROVE  StorageInv'
  <1>. PICK n \in Servers : n = m.dst
    OBVIOUS
  <1>. PICK s \in Shards : s = m.shard
    BY MessageShard
  <1>0. m.type = "AbortReconfiguration" /\ Receive(m, {}) /\ UNCHANGED lastPut
    BY DEF HandleAbortReconfiguration
  <1>1. /\ m.attempt \in DOMAIN attempts /\ ~m.resync
        /\ attempts[m.attempt].outcome = "abort"
    BY <1>0, EveryMessageKnown
  <1>2. /\ \A o \in Servers, t \in Shards :
              o # n \/ t # s => pending'[o][t] = pending[o][t]
        /\ \/ pending'[n][s] = pending[n][s]
           \/ pending[n][s].attempt = m.attempt
    <2>1. CASE ClearsPending(m)
      <3>1. SetPending(m, NoCopy)
        BY <2>1 DEF HandleAbortReconfiguration
      <3>. QED BY <1>1, <2>1, <3>1, PendingSet DEF ClearsPending, PendingOf
    <2>2. CASE ~ClearsPending(m)
      BY <2>2 DEF HandleAbortReconfiguration
    <2>. QED BY <2>1, <2>2
  <1>3. /\ \A o \in Servers, t \in Shards :
              o # n \/ t # s => local'[o][t] = local[o][t]
        /\ Live(n, s)' \/ local' = local
        /\ Settled(n, s)'
    <2>1. CASE RollsBack(m)
      <3>. PICK r : r = [local[n][s] EXCEPT !.epoch = m.epoch, !.state = "STABLE",
                                            !.attempt = NoAttempt]
        OBVIOUS
      <3>1. SetLocal(m, r)
        BY <2>1 DEF HandleAbortReconfiguration, LocalOf
      <3>2. /\ local'[n][s] = r
            /\ \A o \in Servers, t \in Shards :
                  o # n \/ t # s => local'[o][t] = local[o][t]
        BY <3>1, LocalSet
      <3>3. local[n][s] \in HeldRecord
        BY <2>1 DEF RollsBack, Held, TypeOK, ServerTypeOK, LocalRecord
      <3>4. r.epoch = m.epoch /\ r.state = "STABLE" /\ r.attempt = NoAttempt
        BY <3>3 DEF HeldRecord
      <3>5. Live(n, s)'
        <4>1. Absent.state = "ABSENT"
          BY DEF Absent
        <4>. QED BY <3>2, <3>4, <4>1 DEF Live, Held, Retired
      <3>6. Settled(n, s)'
        <4>1. Announces(m, n, s, m.epoch)
          BY <1>0 DEF Announces, Announcement
        <4>2. local'[n][s].epoch = m.epoch /\ local'[n][s].attempt = NoAttempt
          BY <3>2, <3>4
        <4>. QED BY <1>0, <4>1, <4>2, MarkCleared
      <3>. QED BY <3>2, <3>5, <3>6
    <2>2. CASE ~RollsBack(m)
      <3>1. local' = local
        BY <2>2 DEF HandleAbortReconfiguration
      <3>2. \A x \in DOMAIN net' : Announcement(x) => x \in DOMAIN net
        BY <1>0, ReceiveAdds
      <3>. QED BY <3>1, <3>2, MarkKept DEF Held
    <2>. QED BY <2>1, <2>2
  <1>4. meta[s].owner = n => Live(n, s)' \/ Awaiting(n, s)'
    <2>1. CASE local' = local /\ pending'[n][s] = pending[n][s]
      <3>1. Live(n, s) => Live(n, s)'
        BY <2>1 DEF Live, Held, Retired, coordVars
      <3>. QED BY <1>0, <2>1, <3>1, RegisterKept
    <2>2. CASE local' = local /\ pending[n][s].attempt = m.attempt
      <3>1. ~Awaiting(n, s)
        BY <1>1, <2>2 DEF Awaiting
      <3>. QED BY <2>2, <3>1 DEF StorageInv, Stored, Live, Held, Retired, coordVars
    <2>. QED BY <1>2, <1>3, <2>1, <2>2
  <1>. PICK S : S = {}
    OBVIOUS
  <1>5. /\ \A o \in Servers, t \in Shards : o # n \/ t # s =>
              local'[o][t] = local[o][t] /\ pending'[o][t] = pending[o][t]
        /\ UNCHANGED lastPut /\ Receive(m, S)
        /\ \A o \in S : FALSE
        /\ ~Decided(pending[n][s].attempt) =>
              pending'[n][s].attempt = pending[n][s].attempt
    BY <1>0, <1>1, <1>2, <1>3 DEF Decided
  <1>. QED BY <1>3, <1>4, <1>5, StorageServerStep

(* A write is applied to the register of the owner. *)
LEMMA StorageClient ==
  ASSUME TypeOK, TransferInv, EpochInv, StorageInv, NEW n \in Servers,
         NEW s \in Shards, NEW e, NEW v \in Values, ClientPut(n, s, e, v),
         UNCHANGED coordVars
  PROVE  StorageInv'
  <1>1. Serving(n, s) /\ pending' = pending /\ net' = net
    BY DEF ClientPut, Serves, Serving
  <1>2. Live(n, s) /\ meta[s].owner = n
    BY <1>1, ServingLive, LiveOwner
  <1>3. /\ local[n][s] \in HeldRecord
        /\ local \in [Servers -> [Shards -> LocalRecord]]
        /\ lastPut \in [Shards -> Values]
    BY <1>2 DEF Live, Held, TypeOK, ServerTypeOK, LocalRecord
  <1>. PICK r : r = [local[n][s] EXCEPT !.data = v]
    OBVIOUS
  <1>4. /\ local'[n][s] = r
        /\ \A o \in Servers, t \in Shards :
              o # n \/ t # s => local'[o][t] = local[o][t]
        /\ \A t \in Shards : t # s => lastPut'[t] = lastPut[t]
    BY <1>3 DEF ClientPut
  <1>5. /\ r.epoch = local[n][s].epoch /\ r.attempt = local[n][s].attempt
        /\ r.state = "STABLE"
    BY <1>1, <1>3 DEF HeldRecord, Serving
  <1>6. Live(n, s)'
    <2>1. Absent.state = "ABSENT"
      BY DEF Absent
    <2>. QED BY <1>2, <1>4, <1>5, <2>1 DEF Live, Held, Retired, coordVars
  <1>7. Settled(n, s)'
    BY <1>1, <1>2, <1>4, <1>5, MarkKept DEF Live
  <1>8. /\ \A m \in DOMAIN net : Announcement(m) /\ m \in DOMAIN net' => net'[m] = 1
        /\ \A m \in DOMAIN net' \ DOMAIN net : FALSE
    BY <1>1 DEF StorageInv, ToldOnce
  <1>9. /\ FreshEpoch(n, s)'
        /\ \A a \in DOMAIN attempts :
              attempts[a].from = n /\ attempts[a].shard = s /\ Entered(a)' => LeftBehind(a)'
    BY <1>7 DEF Settled, coordVars
  <1>10. \A t \in Shards : t # s \/ meta[s].owner # n => lastPut'[t] = lastPut[t]
    BY <1>2, <1>4
  <1>. QED BY <1>1, <1>4, <1>6, <1>8, <1>9, <1>10, StorageServerFrame

-----------------------------------------------------------------------------
(* The invariant. *)

LEMMA StorageInit == Init => StorageInv
  <1>. SUFFICES ASSUME Init PROVE StorageInv
    OBVIOUS
  <1>1. /\ DOMAIN net = {} /\ DOMAIN attempts = {}
        /\ \A n \in Servers, s \in Shards : local[n][s].attempt = NoAttempt
    BY DEF Init, NetInit, EmptyBag, SetToBag, CoordInit, Absent
  <1>2. ASSUME NEW s \in Shards PROVE Stored(s)
    <2>. PICK n \in Servers : n = meta[s].owner
      BY TypeInit DEF TypeOK, CoordTypeOK, MetaRecord, StableRecord, ReassignedRecord
    <2>1. local[n][s].state = "STABLE"
      BY DEF Init
    <2>2. Absent.state = "ABSENT"
      BY DEF Absent
    <2>. QED BY <1>1, <2>1, <2>2 DEF Stored, Live, Held, Retired
  <1>. QED BY <1>1, <1>2 DEF StorageInv, FreshEpoch

(* With controlled faults every step keeps the invariant. *)
LEMMA StorageStep ==
  ASSUME ControlledFaults, TypeOK, TransferInv, EpochInv, StorageInv, [Next]_vars
  PROVE  StorageInv'
  <1>1. CASE UNCHANGED vars
    <2>1. /\ UNCHANGED serverVars /\ meta' = meta /\ attempts' = attempts
          /\ net' = net
      BY <1>1 DEF vars, coordVars
    <2>2. LogGrows
      BY <2>1, EpochTypes DEF LogGrows
    <2>3. \A x \in DOMAIN net : Announcement(x) /\ x \in DOMAIN net' => net'[x] = 1
      BY <2>1 DEF StorageInv, ToldOnce
    <2>. QED BY <2>1, <2>2, <2>3, StorageFrame DEF Decided
  <1>2. ASSUME NEW m \in DOMAIN net, Deliver(m) PROVE StorageInv'
    <2>1. CASE DeliverToCoordinator(m)
      BY <2>1, StorageFreezeAck, StorageTransferAck DEF DeliverToCoordinator
    <2>2. CASE DeliverToServer(m)
      <3>1. m.dst \in Servers /\ UNCHANGED coordVars /\ ServerOnMessage(m)
        BY <2>2 DEF DeliverToServer
      <3>. QED
        BY <3>1, StorageFreeze, StorageBegin, StorageTransferShard, StorageActivate,
           StorageCleanup, StorageRollBack DEF ServerOnMessage
    <2>3. CASE DeliverToDeadNode(m)
      <3>. PICK S : S = {}
        OBVIOUS
      <3>1. Receive(m, S) /\ UNCHANGED <<coordVars, serverVars>>
        BY <2>3 DEF DeliverToDeadNode
      <3>. QED BY <3>1, StorageAnswer
    <2>. QED BY <1>2, <2>1, <2>2, <2>3 DEF Deliver
  <1>3. ASSUME NEW s \in Shards, TimerFires(s) PROVE StorageInv'
    BY <1>3, StorageTimeout DEF TimerFires
  <1>4. ASSUME NEW s \in Shards, NEW new \in Servers, StartReassign(s, new)
        PROVE  StorageInv'
    BY <1>4, StorageReassign DEF StartReassign
  <1>5. ASSUME NEW n \in Servers, CrashNode(n) PROVE StorageInv'
    <2>. DEFINE S == {s \in Shards : meta[s].state # "STABLE" /\ Participates(n, s)}
    <2>1. AbortReconfigurations(S) /\ UNCHANGED serverVars
      BY <1>5 DEF CrashNode, OnNodeCrash
    <2>2. S \in SUBSET Shards /\ \A s \in S : meta[s].state # "STABLE"
      OBVIOUS
    <2>. HIDE DEF S
    <2>. QED BY <2>1, <2>2, StorageAbort
  <1>6. ASSUME NEW n \in Servers, RecoverNode(n) PROVE FALSE
    BY <1>6, BoundsAssumption DEF RecoverNode, ControlledFaults, TypeOK
  <1>7. ASSUME NEW n \in Servers, NEW s \in Shards, NEW e, NEW v \in Values,
               ClientWrite(n, s, e, v)
        PROVE  StorageInv'
    BY <1>7, StorageClient DEF ClientWrite
  <1>. QED
    BY <1>1, <1>2, <1>3, <1>4, <1>5, <1>6, <1>7, FaultsAssumption DEF Next, Delivery

(* With controlled faults StorageInv holds, for every number of servers,   *)
(* shards and attempts, and however messages are lost, late or overtaken.  *)
THEOREM StorageInvariant ==
  ASSUME ControlledFaults
  PROVE  Spec => []StorageInv
  <1>1. Init => StorageInv
    BY StorageInit
  <1>2. TypeOK /\ TransferInv /\ EpochInv /\ StorageInv /\ [Next]_vars => StorageInv'
    BY StorageStep
  <1>. QED
    BY <1>1, <1>2, TypeCorrect, TransferInvariant, EpochInvariant, PTL DEF Spec

(* The last acknowledged PUT of a shard is never lost: a server has it in  *)
(* its shard or in the copy it has received.                               *)
THEOREM WritesAreStored ==
  ASSUME ControlledFaults
  PROVE  Spec => []LastWriteIsStored
  <1>1. TypeOK /\ TransferInv /\ StorageInv => LastWriteIsStored
    <2>. SUFFICES ASSUME TypeOK, TransferInv, StorageInv, NEW s \in Shards
                  PROVE  \E n \in Servers :
                            \/ Held(n, s) /\ local[n][s].data = lastPut[s]
                            \/ HasPending(n, s) /\ pending[n][s].data = lastPut[s]
      BY DEF LastWriteIsStored
    <2>. PICK n \in Servers : n = meta[s].owner
      BY DEF TypeOK, CoordTypeOK, MetaRecord, StableRecord, ReassignedRecord
    <2>1. Live(n, s) \/ Awaiting(n, s)
      BY DEF StorageInv, Stored
    <2>. QED BY <2>1 DEF Live, Awaiting, TransferInv, DataInv
  <1>. QED BY <1>1, TypeCorrect, TransferInvariant, StorageInvariant, PTL
=============================================================================
