-------------------------- MODULE OwnershipProofs --------------------------
(***************************************************************************)
(* With controlled faults, TransferInv is inductive, and so one server at  *)
(* most serves a shard, it is the owner, and it has the last write.        *)
(***************************************************************************)
EXTENDS BookkeepingProofs

-----------------------------------------------------------------------------
(* Consequences of the invariant. *)

LEMMA KnownMessage ==
  ASSUME TransferInv, NEW m \in DOMAIN net, m.type # "AbortReconfiguration"
  PROVE  m.attempt \in DOMAIN attempts /\ attempts[m.attempt].shard = m.shard
  BY DEF TransferInv, CoordInv, KnownAttempts, KnownIn, AttemptsOf

(* The attempt that a shard or a copy is marked with is one at that shard. *)
LEMMA KnownCopy ==
  ASSUME TransferInv, NEW n \in Servers, NEW s \in Shards
  PROVE  /\ local[n][s].attempt # NoAttempt =>
              /\ local[n][s].attempt \in DOMAIN attempts
              /\ attempts[local[n][s].attempt].shard = s
         /\ HasPending(n, s) =>
              /\ pending[n][s].attempt \in DOMAIN attempts
              /\ attempts[pending[n][s].attempt].shard = s
  BY DEF TransferInv, CoordInv, KnownAttempts, KnownIn, AttemptsOf

(* The owner that has a live copy is not about to get another. *)
LEMMA LiveOwner ==
  ASSUME TransferInv, NEW n \in Servers, NEW s \in Shards, Live(n, s)
  PROVE  meta[s].owner = n /\ Activations(s) = {}
  BY DEF TransferInv, TokenInv

(* A server serves only a live copy without a mark. *)
LEMMA ServingLive ==
  ASSUME TransferInv, NEW n \in Servers, NEW s \in Shards, Serving(n, s)
  PROVE  Live(n, s) /\ local[n][s].attempt = NoAttempt
  BY DEF TransferInv, MarkInv, CopyMark, Serving, Live, Held, Retired, Absent

(* The source of an undecided attempt is the owner, and once it is frozen  *)
(* for the attempt its copy is live.                                       *)
LEMMA UndecidedSource ==
  ASSUME TypeOK, TransferInv, NEW a \in DOMAIN attempts, ~Decided(a)
  PROVE  /\ attempts[a].shard \in Shards /\ attempts[a].from \in Servers
         /\ meta[attempts[a].shard].attempt = a
         /\ meta[attempts[a].shard].owner = attempts[a].from
         /\ SourceFrozen(a) => Live(attempts[a].from, attempts[a].shard)
  <1>1. /\ attempts[a] \in AttemptRecord
        /\ a # NoAttempt
        /\ attempts[a].outcome # "complete"
    BY LogDomain DEF Decided
  <1>2. PICK s \in Shards : s = attempts[a].shard
    BY <1>1 DEF AttemptRecord
  <1>3. meta[s].attempt = a
    BY <1>2 DEF TransferInv, CoordInv, UndecidedIsCurrent
  <1>4. meta[s].state # "STABLE"
    BY <1>1, <1>3 DEF TransferInv, CoordInv, MetaMatchesAttempt
  <1>5. meta[s].owner = attempts[a].from
    BY <1>3, <1>4, CurrentAttempt DEF TransferInv
  <1>6. SourceFrozen(a) => Live(attempts[a].from, s)
    BY <1>1, <1>2 DEF SourceFrozen, SourceOf, Live, Held, Retired, Absent, Decided
  <1>. QED BY <1>1, <1>2, <1>3, <1>5, <1>6 DEF AttemptRecord

-----------------------------------------------------------------------------
(* A step that changes no server keeps the invariant if it keeps owners    *)
(* and completed attempts, sends no Activate, acknowledgement or copy, and *)
(* starts no transfer without a frozen source.                             *)
LEMMA CoordinatorFrame ==
  ASSUME TypeOK, TransferInv, CoordInv', UNCHANGED serverVars,
         NEW S, DOMAIN net' \subseteq DOMAIN net \cup S,
         \A m \in S : /\ m.type \in {"FreezeShard", "BeginTransfer",
                                     "CleanupShard", "AbortReconfiguration"}
                      /\ MessageMark(m)',
         \A m \in DOMAIN net : net[m] = 1 /\ m.type = "ActivateShard"
                                 /\ m \in DOMAIN net' => net'[m] = 1,
         DOMAIN attempts \subseteq DOMAIN attempts',
         \A a \in DOMAIN attempts :
            /\ attempts'[a].shard = attempts[a].shard
            /\ attempts'[a].from = attempts[a].from
            /\ attempts'[a].outcome = "complete" <=> attempts[a].outcome = "complete"
            /\ Decided(a) => Decided(a)',
         \A s \in Shards :
            /\ meta'[s].owner = meta[s].owner
            /\ meta'[s].state = "TRANSFER" =>
                 \/ SourceFrozen(meta[s].attempt)'
                 \/ meta[s].state = "TRANSFER" /\ meta'[s].attempt = meta[s].attempt
  PROVE  TransferInv'
  <1>1. \A n \in Servers, s \in Shards : /\ local'[n][s] = local[n][s]
                                         /\ pending'[n][s] = pending[n][s]
                                         /\ lastPut'[s] = lastPut[s]
    BY DEF serverVars
  <1>2. \A m \in DOMAIN net' : m.type \in {"ActivateShard", "FreezeAck",
                                           "TransferShard", "TransferAck"} =>
          m \in DOMAIN net
    OBVIOUS
  <1>3. \A n \in Servers, s \in Shards : /\ Retired(n, s)' <=> Retired(n, s)
                                         /\ Live(n, s)' <=> Live(n, s)
                                         /\ Held(n, s)' <=> Held(n, s)
                                         /\ HasPending(n, s)' <=> HasPending(n, s)
    BY <1>1, KnownCopy DEF Retired, Live, Held, HasPending
  <1>4. \A a \in DOMAIN attempts : /\ MayActivate(a)' => MayActivate(a)
                                   /\ SourceOf(a)' = SourceOf(a)
                                   /\ SourceFrozen(a)' <=> SourceFrozen(a)
                                   /\ SourceSending(a)' <=> SourceSending(a)
    BY <1>2 DEF MayActivate, SourceOf, SourceFrozen, SourceSending, serverVars
  <1>5. TokenInv'
    <2>1. \A s \in Shards : Activations(s)' \subseteq Activations(s)
      BY <1>2 DEF Activations
    <2>2. ASSUME NEW s \in Shards, NEW n \in Servers, Live(n, s)'
          PROVE  meta'[s].owner = n
      BY <1>3, <2>2 DEF TransferInv, TokenInv
    <2>3. ASSUME NEW s \in Shards, NEW m \in Activations(s)'
          PROVE  /\ meta'[s].owner = m.dst /\ ~Live(m.dst, s)' /\ net'[m] = 1
                 /\ \A o \in Activations(s)' : o = m
      <3>1. /\ meta[s].owner = m.dst /\ ~Live(m.dst, s) /\ net[m] = 1
            /\ \A o \in Activations(s) : o = m
        BY <2>1, <2>3 DEF TransferInv, TokenInv
      <3>2. m \in DOMAIN net /\ m \in DOMAIN net' /\ m.type = "ActivateShard"
        BY <2>1, <2>3 DEF Activations
      <3>3. m.dst \in Servers
        BY <3>1 DEF TypeOK, CoordTypeOK, MetaRecord, StableRecord, ReassignedRecord
      <3>. QED BY <1>3, <2>1, <3>1, <3>2, <3>3
    <2>. QED BY <2>2, <2>3 DEF TokenInv
  <1>6. MarkInv'
    <2>1. ASSUME NEW n \in Servers, NEW s \in Shards PROVE CopyMark(n, s)'
      BY <1>1, <1>3, <1>4, KnownCopy DEF TransferInv, MarkInv, CopyMark, Serving, Retired
    <2>2. ASSUME NEW m \in DOMAIN net' PROVE MessageMark(m)'
      BY <2>2, KnownMessage DEF TransferInv, MarkInv, MessageMark
    <2>. QED BY <2>1, <2>2 DEF MarkInv
  <1>7. EvidenceInv'
    <2>1. ASSUME NEW m \in DOMAIN net',
                 m.type \in {"FreezeAck", "TransferShard", "TransferAck"},
                 ~Decided(m.attempt)'
          PROVE  /\ m.type = "FreezeAck" => SourceFrozen(m.attempt)'
                 /\ m.type # "FreezeAck" => SourceSending(m.attempt)'
      <3>1. m \in DOMAIN net /\ m.attempt \in DOMAIN attempts /\ ~Decided(m.attempt)
        BY <1>2, <2>1, KnownMessage
      <3>. QED BY <1>4, <2>1, <3>1 DEF TransferInv, EvidenceInv
    <2>2. ASSUME NEW s \in Shards, meta'[s].state = "TRANSFER"
          PROVE  SourceFrozen(meta[s].attempt)'
      <3>1. CASE meta[s].state = "TRANSFER" /\ meta'[s].attempt = meta[s].attempt
        <4>1. PICK a \in DOMAIN attempts : a = meta[s].attempt
          BY <3>1, CurrentAttempt DEF TransferInv
        <4>2. SourceFrozen(a)
          BY <3>1, <4>1 DEF TransferInv, EvidenceInv
        <4>3. SourceFrozen(a)'
          BY <1>4, <4>2
        <4>. QED BY <3>1, <4>1, <4>3 DEF SourceFrozen, SourceOf
      <3>. QED BY <2>2, <3>1
    <2>3. ASSUME NEW n \in Servers, NEW s \in Shards, HasPending(n, s)',
                 ~Decided(pending[n][s].attempt)'
          PROVE  SourceSending(pending[n][s].attempt)'
      <3>1. PICK a \in DOMAIN attempts : /\ a = pending[n][s].attempt
                                         /\ a = pending'[n][s].attempt
                                         /\ HasPending(n, s)
        BY <1>1, <1>3, <2>3, KnownCopy
      <3>2. ~Decided(a)
        BY <2>3, <3>1 DEF Decided
      <3>3. SourceSending(a)
        BY <3>1, <3>2 DEF TransferInv, EvidenceInv
      <3>4. SourceSending(a)'
        BY <1>4, <3>3
      <3>. QED BY <3>1, <3>4 DEF SourceSending, SourceOf
    <2>. QED
      BY <2>1, <2>2, <2>3 DEF EvidenceInv, Decided, SourceFrozen, SourceSending,
                              SourceOf, HasPending
  <1>8. DataInv'
    <2>1. ASSUME NEW m \in DOMAIN net', m.type = "TransferShard", MayActivate(m.attempt)'
          PROVE  m.data = lastPut'[m.shard]
      <3>1. m \in DOMAIN net /\ m.attempt \in DOMAIN attempts
        BY <1>2, <2>1, KnownMessage
      <3>. QED BY <1>4, <2>1, <3>1 DEF TransferInv, DataInv, serverVars
    <2>2. ASSUME NEW n \in Servers, NEW s \in Shards
          PROVE  /\ Live(n, s)' => local'[n][s].data = lastPut'[s]
                 /\ HasPending(n, s)' /\ MayActivate(pending[n][s].attempt)' =>
                       pending'[n][s].data = lastPut'[s]
      BY <1>1, <1>3, <1>4, KnownCopy DEF TransferInv, DataInv, MayActivate, Decided
    <2>. QED BY <2>1, <2>2 DEF DataInv
  <1>. QED BY <1>5, <1>6, <1>7, <1>8 DEF TransferInv

-----------------------------------------------------------------------------
(* A step of server n on shard s keeps the invariant if it answers only    *)
(* within what the invariant allows, keeps the marks of attempts that are  *)
(* not decided, and makes a copy live only in exchange for the Activate.   *)
LEMMA ServerFrame ==
  ASSUME TypeOK, TransferInv, CoordInv', UNCHANGED <<coordVars, lastPut>>,
         NEW n \in Servers, NEW s \in Shards,
         \A o \in Servers, t \in Shards : o # n \/ t # s =>
            local'[o][t] = local[o][t] /\ pending'[o][t] = pending[o][t],
         NEW S, DOMAIN net' \subseteq DOMAIN net \cup S,
         \A m \in S :
            \/ m.type = "FreezeAck" /\ (~Decided(m.attempt) => SourceFrozen(m.attempt)')
            \/ /\ m.type \in {"TransferShard", "TransferAck"}
               /\ ~Decided(m.attempt) => SourceSending(m.attempt)'
               /\ m.type = "TransferShard" /\ MayActivate(m.attempt) =>
                     m.data = lastPut[m.shard],
         \A m \in DOMAIN net : net[m] = 1 /\ m.type = "ActivateShard"
                                 /\ m \in DOMAIN net' => net'[m] = 1,
         Live(n, s)' => /\ \/ Live(n, s)
                           \/ meta[s].owner = n /\ Activations(s)' = {}
                        /\ local'[n][s].data = lastPut[s],
         CopyMark(n, s)',
         \A a \in DOMAIN attempts :
            /\ attempts[a].from = n /\ attempts[a].shard = s
            /\ ~Decided(a) /\ SourceFrozen(a)
            => /\ SourceFrozen(a)'
               /\ SourceSending(a) => SourceSending(a)',
         HasPending(n, s)' =>
            \/ pending'[n][s] = pending[n][s]
            \/ /\ ~Decided(pending'[n][s].attempt) =>
                     SourceSending(pending[n][s].attempt)'
               /\ MayActivate(pending'[n][s].attempt) =>
                     pending'[n][s].data = lastPut[s]
  PROVE  TransferInv'
  <1>0. /\ meta' = meta /\ attempts' = attempts /\ lastPut' = lastPut
        /\ \A a : Decided(a)' <=> Decided(a)
    BY DEF coordVars, Decided
  <1>1. \A m \in DOMAIN net' : m.type \in {"ActivateShard", "FreezeShard",
                                           "AbortReconfiguration"} => m \in DOMAIN net
    OBVIOUS
  <1>2. \A a : MayActivate(a)' => MayActivate(a)
    BY <1>0, <1>1 DEF MayActivate
  <1>3. \A o \in Servers, t \in Shards : o # n \/ t # s =>
          /\ Retired(o, t)' <=> Retired(o, t)
          /\ Live(o, t)' <=> Live(o, t)
          /\ HasPending(o, t)' <=> HasPending(o, t)
    BY <1>0 DEF Retired, Live, Held, HasPending
  <1>4. \A a \in DOMAIN attempts : ~Decided(a) =>
          /\ SourceFrozen(a) => SourceFrozen(a)'
          /\ SourceSending(a) => SourceSending(a)'
    <2>. SUFFICES ASSUME NEW a \in DOMAIN attempts, ~Decided(a), SourceFrozen(a)
                  PROVE  SourceFrozen(a)' /\ (SourceSending(a) => SourceSending(a)')
      BY DEF SourceFrozen, SourceSending
    <2>1. CASE attempts[a].from = n /\ attempts[a].shard = s
      BY <2>1
    <2>2. CASE ~(attempts[a].from = n /\ attempts[a].shard = s)
      <3>1. SourceOf(a)' = SourceOf(a)
        BY <1>0, <2>2, UndecidedSource DEF SourceOf
      <3>. QED BY <3>1 DEF SourceFrozen, SourceSending
    <2>. QED BY <2>1, <2>2
  <1>5. TokenInv'
    <2>1. \A t \in Shards : Activations(t)' \subseteq Activations(t)
      BY <1>1 DEF Activations
    <2>2. ASSUME NEW t \in Shards, NEW o \in Servers, Live(o, t)'
          PROVE  /\ meta[t].owner = o
                 /\ Activations(t)' = {}
      BY <1>3, <2>1, <2>2, LiveOwner
    <2>3. ASSUME NEW t \in Shards, NEW m \in Activations(t)'
          PROVE  /\ meta[t].owner = m.dst /\ ~Live(m.dst, t)' /\ net'[m] = 1
                 /\ \A o \in Activations(t)' : o = m
      <3>1. /\ meta[t].owner = m.dst /\ net[m] = 1
            /\ \A o \in Activations(t) : o = m
        BY <2>1, <2>3 DEF TransferInv, TokenInv
      <3>2. m \in DOMAIN net /\ m \in DOMAIN net' /\ m.type = "ActivateShard"
        BY <2>1, <2>3 DEF Activations
      <3>3. m.dst \in Servers
        BY <3>1 DEF TypeOK, CoordTypeOK, MetaRecord, StableRecord, ReassignedRecord
      <3>. QED BY <2>1, <2>2, <2>3, <3>1, <3>2, <3>3
    <2>. QED BY <1>0, <2>2, <2>3 DEF TokenInv
  <1>6. MarkInv'
    <2>1. ASSUME NEW o \in Servers, NEW t \in Shards PROVE CopyMark(o, t)'
      <3>1. CASE o # n \/ t # s
        BY <1>0, <1>2, <1>3, <3>1
           DEF TransferInv, MarkInv, CopyMark, Serving, Retired, MayActivate, Decided
      <3>. QED BY <3>1
    <2>2. ASSUME NEW m \in DOMAIN net' PROVE MessageMark(m)'
      BY <1>0, <1>1 DEF TransferInv, MarkInv, MessageMark
    <2>. QED BY <2>1, <2>2 DEF MarkInv
  <1>7. EvidenceInv'
    <2>1. ASSUME NEW m \in DOMAIN net',
                 m.type \in {"FreezeAck", "TransferShard", "TransferAck"},
                 ~Decided(m.attempt)
          PROVE  /\ m.type = "FreezeAck" => SourceFrozen(m.attempt)'
                 /\ m.type # "FreezeAck" => SourceSending(m.attempt)'
      <3>1. CASE m \in S
        BY <2>1, <3>1
      <3>2. CASE m \in DOMAIN net
        <4>1. m.attempt \in DOMAIN attempts
          BY <2>1, <3>2, KnownMessage
        <4>. QED BY <1>4, <2>1, <3>2, <4>1 DEF TransferInv, EvidenceInv
      <3>. QED BY <3>1, <3>2
    <2>2. ASSUME NEW t \in Shards, meta[t].state = "TRANSFER"
          PROVE  SourceFrozen(meta[t].attempt)'
      <3>1. PICK a \in DOMAIN attempts : a = meta[t].attempt /\ ~Decided(a)
        BY <2>2, CurrentAttempt DEF TransferInv
      <3>2. SourceFrozen(a)
        BY <2>2, <3>1 DEF TransferInv, EvidenceInv
      <3>3. SourceFrozen(a)'
        BY <1>4, <3>1, <3>2
      <3>. QED BY <1>0, <3>1, <3>3 DEF SourceFrozen, SourceOf
    <2>3. ASSUME NEW o \in Servers, NEW t \in Shards, HasPending(o, t)',
                 ~Decided(pending'[o][t].attempt)
          PROVE  SourceSending(pending[o][t].attempt)'
      <3>1. CASE pending'[o][t] = pending[o][t]
        <4>1. HasPending(o, t)
          BY <2>3, <3>1 DEF HasPending
        <4>2. PICK a \in DOMAIN attempts : a = pending[o][t].attempt
          BY <4>1, KnownCopy
        <4>3. SourceSending(a)
          BY <2>3, <3>1, <4>1, <4>2 DEF TransferInv, EvidenceInv
        <4>4. SourceSending(a)'
          BY <1>4, <2>3, <3>1, <4>2, <4>3
        <4>. QED BY <3>1, <4>2, <4>4 DEF SourceSending, SourceOf
      <3>. QED BY <2>3, <3>1
    <2>. QED
      BY <1>0, <2>1, <2>2, <2>3
         DEF EvidenceInv, Decided, SourceFrozen, SourceSending, SourceOf, HasPending
  <1>8. DataInv'
    <2>1. ASSUME NEW m \in DOMAIN net', m.type = "TransferShard", MayActivate(m.attempt)
          PROVE  m.data = lastPut[m.shard]
      BY <2>1 DEF TransferInv, DataInv
    <2>2. ASSUME NEW o \in Servers, NEW t \in Shards, Live(o, t)'
          PROVE  local'[o][t].data = lastPut[t]
      BY <1>3, <2>2 DEF TransferInv, DataInv
    <2>3. ASSUME NEW o \in Servers, NEW t \in Shards, HasPending(o, t)',
                 MayActivate(pending'[o][t].attempt)
          PROVE  pending'[o][t].data = lastPut[t]
      <3>1. CASE pending'[o][t] = pending[o][t]
        BY <2>3, <3>1 DEF TransferInv, DataInv, HasPending
      <3>. QED BY <2>3, <3>1
    <2>4. \A o \in Servers, t \in Shards :
             MayActivate(pending[o][t].attempt)' => MayActivate(pending'[o][t].attempt)
      BY <1>0, <1>1 DEF MayActivate, Decided
    <2>. QED BY <1>0, <1>2, <2>1, <2>2, <2>3, <2>4 DEF DataInv
  <1>. QED BY <1>5, <1>6, <1>7, <1>8 DEF TransferInv

-----------------------------------------------------------------------------
(* The steps of the coordinator. *)

(* Delivering any message that changes nobody. *)
LEMMA IgnoredStep ==
  ASSUME TypeOK, TransferInv, CoordInv', NEW m \in DOMAIN net, Receive(m, {}),
         UNCHANGED <<coordVars, serverVars>>
  PROVE  TransferInv'
  <1>1. DOMAIN net' \subseteq DOMAIN net \cup {}
    BY ReceiveAdds
  <1>2. \A x \in DOMAIN net : net[x] = 1 /\ x \in DOMAIN net' => net'[x] = 1
    BY ReceiveKeepsSingle
  <1>3. meta' = meta /\ attempts' = attempts
    BY DEF coordVars
  <1>. QED BY <1>1, <1>2, <1>3, CoordinatorFrame DEF Decided

(* A reassignment sends the freeze to the source of its attempt. *)
LEMMA ReassignStep ==
  ASSUME TypeOK, TransferInv, CoordInv', NEW s \in Shards, NEW new \in Servers,
         Reassign(s, new), UNCHANGED serverVars
  PROVE  TransferInv'
  <1>. PICK f : f = Freeze(meta[s].owner, s, meta[s].epoch, NextAttempt)
    OBVIOUS
  <1>1. Send({f})
    BY DEF Reassign
  <1>2. DOMAIN net' \subseteq DOMAIN net \cup {f}
    BY <1>1, SendAdds
  <1>3. f.type = "FreezeShard" /\ f.attempt = NextAttempt /\ f.dst = meta[s].owner
    BY DEF Freeze, Control
  <1>4. \A x \in DOMAIN net : net[x] = 1 /\ x.type = "ActivateShard" => net'[x] = 1
    BY <1>1, <1>3, SendKeepsSingle
  <1>l. /\ DOMAIN attempts' = DOMAIN attempts \cup {NextAttempt}
        /\ NextAttempt \notin DOMAIN attempts
        /\ \A a \in DOMAIN attempts : attempts'[a] = attempts[a]
        /\ attempts'[NextAttempt] = [shard   |-> s,
                                     from    |-> meta[s].owner,
                                     to      |-> new,
                                     epoch   |-> meta[s].epoch,
                                     outcome |-> "pending"]
    BY ReassignLog
  <1>5. /\ DOMAIN attempts \subseteq DOMAIN attempts'
        /\ \A a \in DOMAIN attempts : attempts'[a] = attempts[a]
        /\ attempts'[NextAttempt].from = meta[s].owner
    BY <1>l
  <1>6. MessageMark(f)'
    BY <1>3, <1>5 DEF MessageMark
  <1>7. \A t \in Shards : /\ meta'[t].owner = meta[t].owner
                          /\ meta'[t].state = "TRANSFER" =>
                                meta[t].state = "TRANSFER"
                                  /\ meta'[t].attempt = meta[t].attempt
    <2>1. \A t \in Shards : meta[t] \in StableRecord \/ meta[t] \in ReassignedRecord
      BY DEF TypeOK, CoordTypeOK, MetaRecord
    <2>2. meta' = [meta EXCEPT ![s] = [@ EXCEPT !.state = "FREEZE", !.target = new,
                                                !.attempt = NextAttempt]]
      BY DEF Reassign
    <2>. QED BY <2>1, <2>2 DEF TypeOK, CoordTypeOK, StableRecord, ReassignedRecord
  <1>8. \A a \in DOMAIN attempts :
            /\ attempts'[a].shard = attempts[a].shard
            /\ attempts'[a].from = attempts[a].from
            /\ attempts'[a].outcome = "complete" <=> attempts[a].outcome = "complete"
            /\ Decided(a) => Decided(a)'
    BY <1>5 DEF Decided
  <1>9. DOMAIN attempts \subseteq DOMAIN attempts'
    BY <1>5
  <1>s. PICK S : S = {f}
    OBVIOUS
  <1>10. /\ DOMAIN net' \subseteq DOMAIN net \cup S
         /\ \A m \in S : m.type = "FreezeShard" /\ MessageMark(m)'
    BY <1>2, <1>3, <1>6, <1>s
  <1>. QED BY <1>4, <1>7, <1>8, <1>9, <1>10, CoordinatorFrame

(* An abort completes no attempt and leaves none of its shards in TRANSFER. *)
LEMMA AbortStep ==
  ASSUME TypeOK, TransferInv, CoordInv', NEW S \in SUBSET Shards,
         \A s \in S : meta[s].state # "STABLE",
         AbortReconfigurations(S), UNCHANGED serverVars
  PROVE  TransferInv'
  <1>. PICK M : M = UNION {AbortMessages(s) : s \in S}
    OBVIOUS
  <1>1. Send(M)
    BY DEF AbortReconfigurations
  <1>2. DOMAIN net' \subseteq DOMAIN net \cup M
    BY <1>1, SendAdds
  <1>3. \A m \in M : m.type = "AbortReconfiguration" /\ ~m.resync
    BY DEF AbortMessages, Abort
  <1>4. \A x \in DOMAIN net : net[x] = 1 /\ x.type = "ActivateShard" => net'[x] = 1
    BY <1>1, <1>3, SendKeepsSingle
  <1>5. /\ DOMAIN attempts' = DOMAIN attempts
        /\ \A a \in DOMAIN attempts :
              attempts'[a] = IF attempts[a].shard \in S /\ ~Decided(a)
                             THEN [attempts[a] EXCEPT !.outcome = "abort"]
                             ELSE attempts[a]
        /\ \A s \in Shards : meta'[s] = IF s \in S THEN Aborted(meta[s]) ELSE meta[s]
    BY AbortLog DEF TransferInv
  <1>6. \A a \in DOMAIN attempts :
            /\ attempts'[a].shard = attempts[a].shard
            /\ attempts'[a].from = attempts[a].from
            /\ attempts'[a].outcome = "complete" <=> attempts[a].outcome = "complete"
            /\ Decided(a) => Decided(a)'
    <2>. TAKE a \in DOMAIN attempts
    <2>1. attempts[a] \in AttemptRecord
      BY LogDomain
    <2>. QED BY <1>5, <2>1 DEF AttemptRecord, Decided
  <1>7. \A s \in Shards : /\ meta'[s].owner = meta[s].owner
                          /\ meta'[s].state = "TRANSFER" =>
                                meta[s].state = "TRANSFER"
                                  /\ meta'[s].attempt = meta[s].attempt
    <2>. TAKE s \in Shards
    <2>1. Aborted(meta[s]).owner = meta[s].owner /\ Aborted(meta[s]).state = "STABLE"
      BY DEF Aborted
    <2>2. CASE s \in S
      <3>1. meta'[s] = Aborted(meta[s])
        BY <1>5, <2>2
      <3>. QED BY <2>1, <3>1
    <2>3. CASE s \notin S
      <3>1. meta'[s] = meta[s]
        BY <1>5, <2>3
      <3>. QED BY <3>1
    <2>. QED BY <2>2, <2>3
  <1>8. \A m \in M : MessageMark(m)'
    BY <1>3 DEF MessageMark
  <1>. HIDE DEF MessageMark
  <1>. QED BY <1>2, <1>3, <1>4, <1>5, <1>6, <1>7, <1>8, CoordinatorFrame

(* A timer repeats a request or aborts. *)
LEMMA TimeoutStep ==
  ASSUME TypeOK, TransferInv, CoordInv', NEW s \in Shards,
         PhaseTimeout(s), UNCHANGED serverVars
  PROVE  TransferInv'
  <1>1. meta[s].state # "STABLE"
    BY FaultsAssumption DEF PhaseTimeout, RetryPhase, RepeatRequest, AbortAfterTimeouts, TimerRunning
  <1>2. CASE AbortAfterTimeouts(s)
    BY <1>1, <1>2, AbortStep DEF AbortAfterTimeouts
  <1>3. CASE RetryPhase(s)
    <2>. PICK r : r = RetryMessage(s)
      OBVIOUS
    <2>1. Send({r}) /\ meta' = meta /\ attempts' = attempts
      BY <1>3 DEF RetryPhase, RepeatRequest
    <2>2. DOMAIN net' \subseteq DOMAIN net \cup {r}
      BY <2>1, SendAdds
    <2>3. /\ r.type \in {"FreezeShard", "BeginTransfer"}
          /\ r.attempt = meta[s].attempt /\ r.dst = meta[s].owner
      BY DEF RetryMessage, Freeze, Begin, Control
    <2>4. \A x \in DOMAIN net : net[x] = 1 /\ x.type = "ActivateShard" => net'[x] = 1
      BY <2>1, <2>3, SendKeepsSingle
    <2>5. attempts[meta[s].attempt].from = meta[s].owner
      BY <1>1, CurrentAttempt DEF TransferInv
    <2>6. MessageMark(r)'
      BY <2>1, <2>3, <2>5 DEF MessageMark
    <2>. QED BY <2>1, <2>2, <2>3, <2>4, <2>6, CoordinatorFrame DEF Decided
  <1>. QED BY <1>2, <1>3 DEF PhaseTimeout

(* A FreezeAck that is accepted is evidence that the source is frozen. *)
LEMMA FreezeAckStep ==
  ASSUME TypeOK, TransferInv, CoordInv', NEW m \in DOMAIN net, HandleFreezeAck(m),
         UNCHANGED serverVars
  PROVE  TransferInv'
  <1>1. CASE ~FreezeAckAccepted(m)
    BY <1>1, IgnoredStep DEF HandleFreezeAck, coordVars
  <1>2. CASE FreezeAckAccepted(m)
    <2>. PICK s : s = m.shard
      OBVIOUS
    <2>. PICK b : b = Begin(meta[s].owner, s, meta[s].epoch, meta[s].target,
                            meta[s].attempt)
      OBVIOUS
    <2>1. /\ s \in Shards /\ m.type = "FreezeAck" /\ meta[s].state = "FREEZE"
          /\ m.attempt = meta[s].attempt
          /\ Receive(m, {b}) /\ attempts' = attempts
          /\ meta' = [meta EXCEPT ![s].state = "TRANSFER"]
      BY <1>2, MessageKinds DEF HandleFreezeAck, FreezeAckAccepted, TypeOK, AckMsg
    <2>2. DOMAIN net' \subseteq DOMAIN net \cup {b}
      BY <2>1, ReceiveAdds
    <2>3. b.type = "BeginTransfer"
      BY DEF Begin
    <2>4. \A x \in DOMAIN net : net[x] = 1 /\ x.type = "ActivateShard"
                                 /\ x \in DOMAIN net' => net'[x] = 1
      BY <2>1, <2>3, ReceiveKeepsSingle
    <2>5. PICK a \in DOMAIN attempts : a = meta[s].attempt /\ ~Decided(a)
      BY <2>1, CurrentAttempt DEF TransferInv
    <2>6. SourceFrozen(a)
      BY <2>1, <2>5 DEF TransferInv, EvidenceInv
    <2>7. meta[s] \in StableRecord \/ meta[s] \in ReassignedRecord
      BY <2>1 DEF TypeOK, CoordTypeOK, MetaRecord
    <2>r. meta' = [meta EXCEPT ![s] = [@ EXCEPT !.state = "TRANSFER"]]
      BY <2>1
    <2>8. /\ meta'[s].attempt = a
          /\ \A t \in Shards : meta'[t].owner = meta[t].owner
      BY <2>r, <2>1, <2>5, <2>7 DEF TypeOK, CoordTypeOK, StableRecord, ReassignedRecord
    <2>o. \A t \in Shards : t # s => meta'[t] = meta[t]
      BY <2>r DEF TypeOK, CoordTypeOK
    <2>9. SourceFrozen(meta[s].attempt)'
      BY <2>1, <2>6, <2>8 DEF SourceFrozen, SourceOf, serverVars
    <2>10. MessageMark(b)'
      BY <2>3 DEF MessageMark
    <2>11. \A t \in Shards : meta'[t].state = "TRANSFER" =>
                 \/ SourceFrozen(meta[t].attempt)'
                 \/ meta[t].state = "TRANSFER" /\ meta'[t].attempt = meta[t].attempt
      <3>. TAKE t \in Shards
      <3>1. CASE t = s
        BY <2>9, <3>1
      <3>2. CASE t # s
        <4>1. meta'[t] = meta[t]
          BY <2>o, <3>2
        <4>. QED BY <4>1
      <3>. QED BY <3>1, <3>2
    <2>s. PICK S : S = {b}
      OBVIOUS
    <2>12. /\ DOMAIN net' \subseteq DOMAIN net \cup S
           /\ \A x \in S : x.type = "BeginTransfer" /\ MessageMark(x)'
      BY <2>2, <2>3, <2>10, <2>s
    <2>13. \A c \in DOMAIN attempts : Decided(c) => Decided(c)'
      BY <2>1 DEF Decided
    <2>. QED BY <2>1, <2>4, <2>8, <2>11, <2>12, <2>13, CoordinatorFrame
  <1>. QED BY <1>1, <1>2

(* The commit: the token passes from the source, whose copy is retired, to *)
(* the Activate that is sent to the target.                                *)
LEMMA CommitStep ==
  ASSUME ControlledFaults, TypeOK, TransferInv, CoordInv',
         NEW m \in DOMAIN net, HandleTransferAck(m), TransferAckAccepted(m),
         UNCHANGED serverVars
  PROVE  TransferInv'
  <1>. PICK s : s = m.shard
    OBVIOUS
  <1>. PICK a : a = meta[s].attempt
    OBVIOUS
  <1>1. /\ s \in Shards
        /\ meta[s] \in ReassignedRecord
        /\ meta[s].state = "TRANSFER"
        /\ m.type = "TransferAck" /\ m.attempt = a
        /\ DOMAIN attempts' = DOMAIN attempts
        /\ attempts'[a] = [attempts[a] EXCEPT !.outcome = "complete"]
        /\ \A b \in DOMAIN attempts : b # a => attempts'[b] = attempts[b]
        /\ meta'[s] = Committed(meta[s])
        /\ \A t \in Shards : t # s => meta'[t] = meta[t]
        /\ Receive(m, CommitMessages(s))
    BY CommitLog DEF TransferInv
  <1>2. /\ a \in DOMAIN attempts /\ attempts[a].shard = s /\ ~Decided(a)
        /\ attempts[a].from = meta[s].owner
    <2>1. s \in Shards /\ meta[s].state # "STABLE" /\ CoordInv
      BY <1>1 DEF TransferInv
    <2>2. /\ meta[s].attempt \in DOMAIN attempts /\ ~Decided(meta[s].attempt)
          /\ attempts[meta[s].attempt].shard = s
          /\ attempts[meta[s].attempt].from = meta[s].owner
      BY <2>1, CurrentAttempt
    <2>. QED BY <2>2
  <1>. PICK old \in Servers : old = meta[s].owner
    BY <1>1 DEF ReassignedRecord
  <1>. PICK new \in Servers : new = meta[s].target
    BY <1>1 DEF ReassignedRecord
  <1>. PICK activate : activate = Activate(new, s, meta[s].epoch + 1, a)
    OBVIOUS
  <1>. PICK cleanup : cleanup = Cleanup(old, s, meta[s].epoch + 1, a)
    OBVIOUS
  <1>3. /\ activate.type = "ActivateShard" /\ activate.dst = new
        /\ activate.src = Coord /\ activate.shard = s /\ activate.attempt = a
        /\ cleanup.type = "CleanupShard"
    BY DEF Activate, Cleanup, Control
  <1>4. Receive(m, {activate, cleanup})
    BY <1>1 DEF CommitMessages
  <1>5. DOMAIN net' \subseteq DOMAIN net \cup {activate, cleanup}
    BY <1>4, ReceiveAdds
  <1>6. \A x \in DOMAIN net' : x \in DOMAIN net \/ x = activate \/ x = cleanup
    BY <1>5
  <1>7. meta'[s].owner = new /\ meta'[s].state = "STABLE"
    BY <1>1 DEF Committed
  <1>8. /\ attempts[a] \in AttemptRecord
        /\ \A b \in DOMAIN attempts : attempts[b] \in AttemptRecord
    BY <1>2, LogDomain
  <1>9. attempts'[a].outcome = "complete"
    BY <1>1, <1>8 DEF AttemptRecord
  <1>10. \A b \in DOMAIN attempts : /\ attempts'[b].shard = attempts[b].shard
                                     /\ attempts'[b].from = attempts[b].from
    BY <1>1, <1>8 DEF AttemptRecord
  <1>11. \A b \in DOMAIN attempts : b # a => (Decided(b)' <=> Decided(b))
    BY <1>1 DEF Decided
  <1>12. Decided(a)'
    BY <1>9 DEF Decided
  <1>13. \A n \in Servers, t \in Shards : /\ local'[n][t] = local[n][t]
                                          /\ pending'[n][t] = pending[n][t]
                                          /\ lastPut'[t] = lastPut[t]
    BY DEF serverVars
  (* The source has sent its copy and its own copy was live till now. *)
  <1>14. SourceSending(a)
    BY <1>1, <1>2 DEF TransferInv, EvidenceInv
  <1>15. local[old][s].attempt = a /\ local[old][s].state = "TRANSFER"
    BY <1>2, <1>14 DEF SourceSending, SourceOf
  <1>16. Live(old, s)
    BY <1>2, <1>14, UndecidedSource DEF SourceSending, SourceFrozen
  <1>17. Activations(s) = {}
    BY <1>1, <1>16, LiveOwner
  <1>18. \A n \in Servers, t \in Shards :
            /\ Retired(n, t)' <=> Retired(n, t) \/ local[n][t].attempt = a
            /\ Live(n, t)' => Live(n, t) /\ local[n][t].attempt # a
    <2>. TAKE n \in Servers, t \in Shards
    <2>1. CASE local[n][t].attempt = a
      BY <1>2, <1>9, <1>13, <2>1, LogDomain DEF Retired, Live
    <2>2. CASE local[n][t].attempt = NoAttempt
      BY <1>2, <1>13, <2>2, LogDomain DEF Retired, Live, Held
    <2>3. CASE local[n][t].attempt # NoAttempt /\ local[n][t].attempt # a
      BY <1>1, <1>13, <2>3, KnownCopy DEF Retired, Live, Held
    <2>. QED BY <2>1, <2>2, <2>3
  <1>19. \A b \in DOMAIN attempts : MayActivate(b)' => MayActivate(b)
    <2>. SUFFICES ASSUME NEW b \in DOMAIN attempts, b # a, MayActivate(b)'
                  PROVE  MayActivate(b)
      BY <1>2 DEF MayActivate
    <2>1. \A x \in DOMAIN net' : x.type = "ActivateShard" /\ x.attempt = b =>
             x \in DOMAIN net
      BY <1>3, <1>6
    <2>. QED BY <1>11, <2>1 DEF MayActivate
  <1>20. TokenInv'
    <2>1. ASSUME NEW t \in Shards, NEW n \in Servers, Live(n, t)'
          PROVE  t # s /\ meta'[t].owner = n
      <3>1. Live(n, t) /\ local[n][t].attempt # a /\ meta[t].owner = n
        BY <1>18, <2>1, LiveOwner
      <3>2. t # s
        BY <1>15, <3>1
      <3>. QED BY <1>1, <3>1, <3>2
    <2>2. Activations(s)' \subseteq {activate}
      BY <1>3, <1>6, <1>17 DEF Activations
    <2>3. ASSUME NEW t \in Shards, t # s
          PROVE  Activations(t)' \subseteq Activations(t)
      BY <1>3, <1>6, <2>3 DEF Activations
    <2>4. activate \in DOMAIN net' => net'[activate] = 1
      <3>1. activate \notin DOMAIN net
        BY <1>3, <1>17 DEF Activations
      <3>2. ~MayDuplicate(activate)
        BY <1>3 DEF MayDuplicate, ControlledFaults
      <3>. QED BY <1>4, <3>1, <3>2, ReceiveSendsSingle
    <2>5. ASSUME NEW t \in Shards, NEW x \in Activations(t)'
          PROVE  /\ meta'[t].owner = x.dst /\ ~Live(x.dst, t)' /\ net'[x] = 1
                 /\ \A o \in Activations(t)' : o = x
      <3>1. CASE t = s
        <4>1. x = activate /\ x \in DOMAIN net'
          BY <2>2, <2>5, <3>1 DEF Activations
        <4>. QED BY <1>3, <1>7, <2>1, <2>2, <2>4, <3>1, <4>1
      <3>2. CASE t # s
        <4>1. /\ x \in Activations(t) /\ meta[t].owner = x.dst /\ net[x] = 1
              /\ ~Live(x.dst, t)
              /\ \A o \in Activations(t) : o = x
          BY <2>3, <2>5, <3>2 DEF TransferInv, TokenInv
        <4>2. x \in DOMAIN net /\ x \in DOMAIN net' /\ x.shard = t
          BY <2>5, <4>1 DEF Activations
        <4>3. x \notin {activate, cleanup}
          BY <1>3, <3>2, <4>1, <4>2 DEF Activations
        <4>4. net'[x] = 1
          BY <1>4, <4>1, <4>2, <4>3, ReceiveKeepsSingle
        <4>5. x.dst \in Servers
          BY <4>1 DEF TypeOK, CoordTypeOK, MetaRecord, StableRecord, ReassignedRecord
        <4>6. meta'[t].owner = x.dst
          BY <1>1, <3>2, <4>1
        <4>. QED BY <1>18, <2>3, <3>2, <4>1, <4>4, <4>5, <4>6
      <3>. QED BY <3>1, <3>2
    <2>. QED BY <2>1, <2>5 DEF TokenInv
  <1>21. MarkInv'
    <2>1. ASSUME NEW n \in Servers, NEW t \in Shards PROVE CopyMark(n, t)'
      <3>1. CopyMark(n, t)
        BY DEF TransferInv, MarkInv
      <3>2. CASE local[n][t].attempt = NoAttempt
        BY <1>13, <3>1, <3>2 DEF CopyMark, Serving, Retired
      <3>3. CASE local[n][t].attempt = a
        <4>1. n = old /\ t = s
          BY <1>2, <3>1, <3>3, KnownCopy, LogDomain DEF CopyMark
        <4>. QED BY <1>2, <1>10, <1>13, <1>15, <3>3, <4>1 DEF CopyMark, Serving
      <3>4. CASE local[n][t].attempt # NoAttempt /\ local[n][t].attempt # a
        <4>1. PICK b \in DOMAIN attempts : b = local[n][t].attempt
          BY <3>4, KnownCopy
        <4>2. b = local'[n][t].attempt
          BY <1>13, <4>1
        <4>3. MayActivate(local[n][t].attempt)' => MayActivate(b)
          BY <1>19, <4>2 DEF MayActivate, Decided
        <4>. QED BY <1>10, <1>13, <1>18, <3>1, <3>4, <4>1, <4>2, <4>3 DEF CopyMark, Serving
      <3>. QED BY <3>2, <3>3, <3>4
    <2>2. ASSUME NEW x \in DOMAIN net' PROVE MessageMark(x)'
      <3>1. CASE x \in DOMAIN net
        BY <1>10, <3>1, KnownMessage DEF TransferInv, MarkInv, MessageMark
      <3>. QED BY <1>3, <1>6, <3>1 DEF MessageMark
    <2>. QED BY <2>1, <2>2 DEF MarkInv
  <1>22. EvidenceInv'
    <2>1. \A b \in DOMAIN attempts :
            /\ SourceFrozen(b) => SourceFrozen(b)'
            /\ SourceSending(b) => SourceSending(b)'
      BY <1>10 DEF SourceFrozen, SourceSending, SourceOf, serverVars
    <2>2. ASSUME NEW x \in DOMAIN net',
                 x.type \in {"FreezeAck", "TransferShard", "TransferAck"},
                 ~Decided(x.attempt)'
          PROVE  /\ x.type = "FreezeAck" => SourceFrozen(x.attempt)'
                 /\ x.type # "FreezeAck" => SourceSending(x.attempt)'
      <3>1. x \in DOMAIN net
        BY <1>3, <1>6, <2>2
      <3>2. x.attempt \in DOMAIN attempts
        BY <2>2, <3>1, KnownMessage
      <3>3. ~Decided(x.attempt)
        BY <1>11, <1>12, <2>2, <3>2
      <3>. QED BY <2>1, <2>2, <3>1, <3>2, <3>3 DEF TransferInv, EvidenceInv
    <2>3. ASSUME NEW t \in Shards, meta'[t].state = "TRANSFER"
          PROVE  SourceFrozen(meta[t].attempt)'
      <3>1. t # s /\ meta'[t] = meta[t]
        BY <1>1, <1>7, <2>3
      <3>2. PICK b \in DOMAIN attempts : b = meta[t].attempt
        BY <2>3, <3>1, CurrentAttempt DEF TransferInv
      <3>3. SourceFrozen(b)
        BY <2>3, <3>1, <3>2 DEF TransferInv, EvidenceInv
      <3>4. SourceFrozen(b)'
        BY <2>1, <3>3
      <3>5. b = meta'[t].attempt
        BY <3>1, <3>2
      <3>. QED BY <3>4, <3>5 DEF SourceFrozen, SourceOf
    <2>4. ASSUME NEW n \in Servers, NEW t \in Shards, HasPending(n, t)',
                 ~Decided(pending[n][t].attempt)'
          PROVE  SourceSending(pending[n][t].attempt)'
      <3>1. HasPending(n, t)
        BY <1>13, <2>4 DEF HasPending
      <3>2. PICK b \in DOMAIN attempts : b = pending[n][t].attempt
        BY <3>1, KnownCopy
      <3>3. b = pending'[n][t].attempt
        BY <1>13, <3>2
      <3>4. ~Decided(b)'
        BY <2>4, <3>3 DEF Decided
      <3>5. ~Decided(b)
        BY <1>11, <1>12, <3>4
      <3>6. SourceSending(b)
        BY <3>1, <3>2, <3>5 DEF TransferInv, EvidenceInv
      <3>7. SourceSending(b)'
        BY <2>1, <3>6
      <3>. QED BY <3>3, <3>7 DEF SourceSending, SourceOf
    <2>. QED
      BY <2>2, <2>3, <2>4 DEF EvidenceInv, Decided, SourceFrozen, SourceSending,
                              SourceOf, HasPending
  <1>23. DataInv'
    <2>1. ASSUME NEW x \in DOMAIN net', x.type = "TransferShard", MayActivate(x.attempt)'
          PROVE  x.data = lastPut'[x.shard]
      <3>1. x \in DOMAIN net
        BY <1>3, <1>6, <2>1
      <3>2. x.attempt \in DOMAIN attempts
        BY <2>1, <3>1, KnownMessage
      <3>. QED BY <1>19, <2>1, <3>1, <3>2 DEF TransferInv, DataInv, serverVars
    <2>2. ASSUME NEW n \in Servers, NEW t \in Shards, Live(n, t)'
          PROVE  local'[n][t].data = lastPut'[t]
      BY <1>13, <1>18, <2>2 DEF TransferInv, DataInv
    <2>3. ASSUME NEW n \in Servers, NEW t \in Shards, HasPending(n, t)',
                 MayActivate(pending[n][t].attempt)'
          PROVE  pending'[n][t].data = lastPut'[t]
      <3>1. HasPending(n, t)
        BY <1>13, <2>3 DEF HasPending
      <3>2. PICK b \in DOMAIN attempts : b = pending[n][t].attempt
        BY <3>1, KnownCopy
      <3>3. b = pending'[n][t].attempt
        BY <1>13, <3>2
      <3>4. MayActivate(b)
        BY <1>19, <2>3, <3>3 DEF MayActivate, Decided
      <3>. QED BY <1>13, <3>1, <3>2, <3>4 DEF TransferInv, DataInv
    <2>. QED BY <2>1, <2>2, <2>3 DEF DataInv
  <1>. QED BY <1>20, <1>21, <1>22, <1>23 DEF TransferInv

(* A TransferAck commits or is ignored. *)
LEMMA TransferAckStep ==
  ASSUME ControlledFaults, TypeOK, TransferInv, CoordInv',
         NEW m \in DOMAIN net, HandleTransferAck(m), UNCHANGED serverVars
  PROVE  TransferInv'
  <1>1. CASE ~TransferAckAccepted(m)
    BY <1>1, IgnoredStep DEF HandleTransferAck
  <1>2. CASE TransferAckAccepted(m)
    BY <1>2, CommitStep
  <1>. QED BY <1>1, <1>2

-----------------------------------------------------------------------------
(* The steps of a server. *)

(* A PUT is applied to the live copy of the owner, so no Activate is in    *)
(* flight, and while the source of an undecided attempt can serve there is *)
(* no copy of that attempt.                                                *)
LEMMA ClientStep ==
  ASSUME TypeOK, TransferInv, CoordInv', NEW n \in Servers, NEW s \in Shards,
         NEW e, NEW v \in Values, ClientPut(n, s, e, v), UNCHANGED coordVars
  PROVE  TransferInv'
  <1>1. Serving(n, s) /\ meta' = meta /\ attempts' = attempts
          /\ pending' = pending /\ net' = net
    BY DEF ClientPut, Serves, Serving, coordVars
  <1>2. Live(n, s) /\ local[n][s].attempt = NoAttempt /\ Activations(s) = {}
          /\ meta[s].owner = n
    BY <1>1, ServingLive, LiveOwner
  <1>3. \A o \in Servers, t \in Shards :
           /\ o # n \/ t # s => local'[o][t] = local[o][t]
           /\ local'[o][t].attempt = local[o][t].attempt
           /\ local'[o][t].state = local[o][t].state
    BY DEF ClientPut, TypeOK, ServerTypeOK, LocalRecord, HeldRecord, Absent
  <1>4. local'[n][s].data = v
    BY DEF ClientPut, Serves, Held, TypeOK, ServerTypeOK, LocalRecord, HeldRecord
  <1>5. \A t \in Shards : /\ t # s => lastPut'[t] = lastPut[t]
                          /\ lastPut'[s] = v
    BY DEF ClientPut, TypeOK, ServerTypeOK
  <1>6. \A o \in Servers, t \in Shards : /\ Retired(o, t)' <=> Retired(o, t)
                                         /\ Held(o, t)' => Held(o, t)
                                         /\ Live(o, t)' => Live(o, t)
    <2>. TAKE o \in Servers, t \in Shards
    <2>1. Retired(o, t)' <=> Retired(o, t)
      BY <1>1, <1>3 DEF Retired
    <2>2. Held(o, t)' => Held(o, t)
      <3>1. CASE o = n /\ t = s
        BY <1>2, <3>1 DEF Live
      <3>2. CASE o # n \/ t # s
        BY <1>3, <3>2 DEF Held
      <3>. QED BY <3>1, <3>2
    <2>. QED BY <2>1, <2>2 DEF Live
  <1>7. \A a : /\ Decided(a)' <=> Decided(a)
               /\ MayActivate(a)' <=> MayActivate(a)
    BY <1>1 DEF Decided, MayActivate
  <1>8. \A a \in DOMAIN attempts : ~Decided(a) =>
           /\ SourceFrozen(a) => SourceFrozen(a)'
           /\ SourceSending(a) => SourceSending(a)'
    BY <1>1, <1>3, UndecidedSource DEF SourceFrozen, SourceSending, SourceOf
  (* An attempt at shard s that may still be activated has no copy. *)
  <1>9. \A a \in DOMAIN attempts : attempts[a].shard = s /\ MayActivate(a) =>
           ~Decided(a) /\ ~SourceSending(a)
    <2>. SUFFICES ASSUME NEW a \in DOMAIN attempts, attempts[a].shard = s, MayActivate(a)
                  PROVE  ~Decided(a) /\ ~SourceSending(a)
      OBVIOUS
    <2>1. ~Decided(a)
      <3>1. ASSUME NEW x \in DOMAIN net, x.type = "ActivateShard", x.attempt = a
            PROVE  FALSE
        <4>1. x.shard = s
          BY <3>1, KnownMessage
        <4>. QED BY <1>2, <3>1, <4>1 DEF Activations
      <3>. QED BY <3>1 DEF MayActivate
    <2>2. attempts[a].from = n
      BY <1>2, <2>1, UndecidedSource
    <2>. QED BY <1>1, <2>1, <2>2 DEF SourceSending, SourceOf, Serving
  <1>10. TokenInv'
    <2>1. \A t \in Shards : Activations(t)' = Activations(t)
      BY <1>1 DEF Activations
    <2>2. ASSUME NEW t \in Shards, NEW o \in Servers, Live(o, t)'
          PROVE  meta'[t].owner = o
      BY <1>1, <1>6, <2>2, LiveOwner
    <2>3. ASSUME NEW t \in Shards, NEW m \in Activations(t)'
          PROVE  /\ meta'[t].owner = m.dst /\ ~Live(m.dst, t)' /\ net'[m] = 1
                 /\ \A o \in Activations(t)' : o = m
      <3>1. /\ meta[t].owner = m.dst /\ ~Live(m.dst, t) /\ net[m] = 1
            /\ \A o \in Activations(t) : o = m
        BY <2>1, <2>3 DEF TransferInv, TokenInv
      <3>2. m.dst \in Servers
        BY <3>1 DEF TypeOK, CoordTypeOK, MetaRecord, StableRecord, ReassignedRecord
      <3>. QED BY <1>1, <1>6, <2>1, <3>1, <3>2
    <2>. QED BY <2>2, <2>3 DEF TokenInv
  <1>11. MarkInv'
    <2>1. ASSUME NEW o \in Servers, NEW t \in Shards PROVE CopyMark(o, t)'
      <3>1. CopyMark(o, t)
        BY DEF TransferInv, MarkInv
      <3>2. /\ local'[o][t].attempt = local[o][t].attempt
            /\ local'[o][t].state = local[o][t].state
        BY <1>3
      <3>3. PICK a : a = local[o][t].attempt
        OBVIOUS
      <3>4. MayActivate(local[o][t].attempt)' <=> MayActivate(a)
        BY <1>1, <3>2, <3>3 DEF MayActivate, Decided
      <3>. QED BY <1>1, <1>6, <3>1, <3>2, <3>3, <3>4 DEF CopyMark, Serving
    <2>2. ASSUME NEW m \in DOMAIN net' PROVE MessageMark(m)'
      BY <1>1 DEF TransferInv, MarkInv, MessageMark
    <2>. QED BY <2>1, <2>2 DEF MarkInv
  <1>12. EvidenceInv'
    <2>1. ASSUME NEW m \in DOMAIN net,
                 m.type \in {"FreezeAck", "TransferShard", "TransferAck"},
                 ~Decided(m.attempt)
          PROVE  /\ m.type = "FreezeAck" => SourceFrozen(m.attempt)'
                 /\ m.type # "FreezeAck" => SourceSending(m.attempt)'
      <3>1. m.attempt \in DOMAIN attempts
        BY <2>1, KnownMessage
      <3>. QED BY <1>8, <2>1, <3>1 DEF TransferInv, EvidenceInv
    <2>2. ASSUME NEW t \in Shards, meta[t].state = "TRANSFER"
          PROVE  SourceFrozen(meta[t].attempt)'
      <3>1. PICK a \in DOMAIN attempts : a = meta[t].attempt /\ ~Decided(a)
        BY <2>2, CurrentAttempt DEF TransferInv
      <3>2. SourceFrozen(a)'
        BY <1>8, <2>2, <3>1 DEF TransferInv, EvidenceInv
      <3>. QED BY <1>1, <3>1, <3>2 DEF SourceFrozen, SourceOf
    <2>3. ASSUME NEW o \in Servers, NEW t \in Shards, HasPending(o, t),
                 ~Decided(pending[o][t].attempt)
          PROVE  SourceSending(pending[o][t].attempt)'
      <3>1. PICK a \in DOMAIN attempts : a = pending[o][t].attempt
        BY <2>3, KnownCopy
      <3>2. SourceSending(a)'
        BY <1>8, <2>3, <3>1 DEF TransferInv, EvidenceInv
      <3>. QED BY <1>1, <3>1, <3>2 DEF SourceSending, SourceOf
    <2>. QED
      BY <1>1, <2>1, <2>2, <2>3
         DEF EvidenceInv, Decided, SourceFrozen, SourceSending, SourceOf, HasPending
  <1>13. DataInv'
    <2>1. ASSUME NEW m \in DOMAIN net, m.type = "TransferShard", MayActivate(m.attempt)
          PROVE  m.data = lastPut'[m.shard]
      <3>1. m.attempt \in DOMAIN attempts /\ attempts[m.attempt].shard = m.shard
        BY <2>1, KnownMessage
      <3>2. m.shard \in Shards
        BY <3>1, LogDomain DEF AttemptRecord
      <3>3. m.shard # s
        BY <1>9, <2>1, <3>1 DEF TransferInv, EvidenceInv
      <3>. QED BY <1>5, <2>1, <3>2, <3>3 DEF TransferInv, DataInv
    <2>2. ASSUME NEW o \in Servers, NEW t \in Shards, Live(o, t)'
          PROVE  local'[o][t].data = lastPut'[t]
      <3>1. CASE t = s
        <4>1. o = n
          <5>1. Live(o, s)
            BY <1>6, <2>2, <3>1
          <5>. QED BY <1>2, <5>1, LiveOwner
        <4>. QED BY <1>4, <1>5, <3>1, <4>1
      <3>2. CASE t # s
        <4>1. Live(o, t)
          BY <1>6, <2>2
        <4>2. local'[o][t] = local[o][t] /\ lastPut'[t] = lastPut[t]
          BY <1>3, <1>5, <3>2
        <4>. QED BY <4>1, <4>2 DEF TransferInv, DataInv
      <3>. QED BY <3>1, <3>2
    <2>3. ASSUME NEW o \in Servers, NEW t \in Shards, HasPending(o, t),
                 MayActivate(pending[o][t].attempt)
          PROVE  pending[o][t].data = lastPut'[t]
      <3>1. /\ pending[o][t].attempt \in DOMAIN attempts
            /\ attempts[pending[o][t].attempt].shard = t
        BY <2>3, KnownCopy
      <3>2. t # s
        BY <1>9, <2>3, <3>1 DEF TransferInv, EvidenceInv
      <3>. QED BY <1>5, <2>3, <3>2 DEF TransferInv, DataInv
    <2>. QED
      BY <1>1, <2>1, <2>2, <2>3 DEF DataInv, MayActivate, Decided, HasPending
  <1>. QED BY <1>10, <1>11, <1>12, <1>13 DEF TransferInv

(* A copy keeps its mark while nobody touches it and no Activate is sent. *)
LEMMA CopyMarkKept ==
  ASSUME TransferInv, NEW n \in Servers, NEW s \in Shards,
         local'[n][s] = local[n][s], attempts' = attempts,
         \A x \in DOMAIN net' : x.type = "ActivateShard" => x \in DOMAIN net
  PROVE  CopyMark(n, s)'
  <1>1. CopyMark(n, s)
    BY DEF TransferInv, MarkInv
  <1>. PICK a : a = local[n][s].attempt
    OBVIOUS
  <1>2. MayActivate(local[n][s].attempt)' => MayActivate(a)
    BY DEF MayActivate, Decided
  <1>. QED BY <1>1, <1>2 DEF CopyMark, Serving, Retired

(* A server that changes nothing may send an acknowledgement for which it  *)
(* has the evidence.                                                       *)
LEMMA AnswerStep ==
  ASSUME TypeOK, TransferInv, CoordInv', UNCHANGED <<coordVars, serverVars>>,
         NEW n \in Servers, NEW s \in Shards,
         NEW m \in DOMAIN net, NEW f, Receive(m, {f}),
         \/ f.type = "FreezeAck" /\ (~Decided(f.attempt) => SourceFrozen(f.attempt))
         \/ f.type = "TransferAck" /\ (~Decided(f.attempt) => SourceSending(f.attempt))
  PROVE  TransferInv'
  <1>. PICK S : S = {f}
    OBVIOUS
  <1>1. DOMAIN net' \subseteq DOMAIN net \cup S
    BY ReceiveAdds
  <1>2. \A x \in DOMAIN net' : x.type = "ActivateShard" => x \in DOMAIN net
    BY <1>1
  <1>3. \A x \in DOMAIN net : net[x] = 1 /\ x.type = "ActivateShard"
                               /\ x \in DOMAIN net' => net'[x] = 1
    BY ReceiveKeepsSingle
  <1>4. \A x : /\ SourceFrozen(x) => SourceFrozen(x)'
               /\ SourceSending(x) => SourceSending(x)'
    BY DEF SourceFrozen, SourceSending, SourceOf, coordVars, serverVars
  <1>5. \A x \in S :
            \/ x.type = "FreezeAck" /\ (~Decided(x.attempt) => SourceFrozen(x.attempt)')
            \/ /\ x.type \in {"TransferShard", "TransferAck"}
               /\ ~Decided(x.attempt) => SourceSending(x.attempt)'
               /\ x.type = "TransferShard" /\ MayActivate(x.attempt) =>
                     x.data = lastPut[x.shard]
    BY <1>4
  <1>6. CopyMark(n, s)'
    BY <1>2, CopyMarkKept DEF coordVars, serverVars
  <1>7. Live(n, s)' => Live(n, s) /\ local'[n][s].data = lastPut[s]
    <2>1. Live(n, s)' => Live(n, s) /\ local'[n][s] = local[n][s]
      BY DEF Live, Held, Retired, coordVars, serverVars
    <2>. QED BY <2>1 DEF TransferInv, DataInv
  <1>8. local' = local /\ pending' = pending /\ lastPut' = lastPut
    BY DEF serverVars
  <1>. QED BY <1>1, <1>3, <1>4, <1>5, <1>6, <1>7, <1>8, ServerFrame

(* Every message is about a shard of the deployment. *)
LEMMA MessageShard ==
  ASSUME TypeOK, NEW m \in DOMAIN net
  PROVE  m.shard \in Shards
  BY DEF TypeOK, Message, ControlMsg, BeginTransferMsg, AbortMsg, AckMsg,
         TransferShardMsg

(* The shard that a freeze enters is live, so it has no other attempt and  *)
(* no Activate; from now on its mark is the evidence for the attempt.      *)
LEMMA FreezeStep ==
  ASSUME TypeOK, TransferInv, CoordInv', NEW m \in DOMAIN net, m.dst \in Servers,
         HandleFreezeShard(m), UNCHANGED coordVars
  PROVE  TransferInv'
  <1>. PICK n \in Servers : n = m.dst
    OBVIOUS
  <1>. PICK s \in Shards : s = m.shard
    BY MessageShard
  <1>0. m.type = "FreezeShard"
    BY DEF HandleFreezeShard
  <1>. PICK a \in DOMAIN attempts : /\ a = m.attempt
                                    /\ attempts[a].shard = s
                                    /\ attempts[a].from = n
    BY <1>0, KnownMessage DEF TransferInv, MarkInv, MessageMark
  <1>. PICK f : f = Ack("FreezeAck", m)
    OBVIOUS
  <1>1. f.type = "FreezeAck" /\ f.attempt = a
    BY DEF Ack
  <1>2. CASE FreezeEnters(m)
    <2>. PICK r : r = [local[n][s] EXCEPT !.state = "FREEZE", !.attempt = a]
      OBVIOUS
    <2>1. SetLocal(m, r) /\ Receive(m, {f}) /\ UNCHANGED <<pending, lastPut>>
      BY <1>2 DEF HandleFreezeShard, FreezeEnters, FreezeRepeated, LocalOf
    <2>2. Live(n, s) /\ local[n][s].attempt = NoAttempt /\ Activations(s) = {}
      BY <1>2, ServingLive, LiveOwner DEF FreezeEnters, LocalOf, Serving
    <2>3. /\ local'[n][s] = r
          /\ \A o \in Servers, t \in Shards :
                o # n \/ t # s => local'[o][t] = local[o][t]
      BY <2>1, LocalSet
    <2>4. local[n][s] \in HeldRecord
      BY <2>2 DEF Live, Held, TypeOK, ServerTypeOK, LocalRecord
    <2>5. r.state = "FREEZE" /\ r.attempt = a /\ r.data = local[n][s].data
      BY <2>4 DEF HeldRecord
    <2>. PICK S : S = {f}
      OBVIOUS
    <2>6. DOMAIN net' \subseteq DOMAIN net \cup S
      BY <2>1, ReceiveAdds
    <2>7. \A x \in DOMAIN net : net[x] = 1 /\ x.type = "ActivateShard"
                                 /\ x \in DOMAIN net' => net'[x] = 1
      BY <1>1, <2>1, ReceiveKeepsSingle
    <2>8. SourceFrozen(a)'
      BY <2>3, <2>5 DEF SourceFrozen, SourceOf, coordVars
    <2>9. \A x \in S :
            \/ x.type = "FreezeAck" /\ (~Decided(x.attempt) => SourceFrozen(x.attempt)')
            \/ /\ x.type \in {"TransferShard", "TransferAck"}
               /\ ~Decided(x.attempt) => SourceSending(x.attempt)'
               /\ x.type = "TransferShard" /\ MayActivate(x.attempt) =>
                     x.data = lastPut[x.shard]
      BY <1>1, <2>8 DEF SourceFrozen, SourceOf
    <2>10. CopyMark(n, s)'
      <3>1. ~Serving(n, s)' /\ attempts'[local'[n][s].attempt].from = n
        BY <2>3, <2>5 DEF Serving, coordVars
      <3>2. ASSUME Decided(a), NEW x \in DOMAIN net', x.type = "ActivateShard",
                   x.attempt = a
            PROVE  FALSE
        <4>1. x \in DOMAIN net
          BY <1>1, <2>6, <3>2
        <4>2. x \in Activations(s)
          BY <3>2, <4>1, KnownMessage DEF Activations
        <4>. QED BY <2>2, <4>2
      <3>3. ~(Retired(n, s)' /\ MayActivate(local[n][s].attempt)')
        BY <2>3, <2>5, <3>2 DEF Retired, MayActivate, Decided, coordVars
      <3>. QED BY <3>1, <3>3 DEF CopyMark
    <2>11. Live(n, s)' => Live(n, s) /\ local'[n][s].data = lastPut[s]
      BY <2>2, <2>3, <2>5 DEF TransferInv, DataInv
    <2>12. \A b \in DOMAIN attempts :
              /\ attempts[b].from = n /\ attempts[b].shard = s
              /\ ~Decided(b) /\ SourceFrozen(b)
              => /\ SourceFrozen(b)'
                 /\ SourceSending(b) => SourceSending(b)'
      BY <2>2, LogDomain DEF SourceFrozen, SourceOf
    <2>13. /\ UNCHANGED <<coordVars, lastPut>>
           /\ \A o \in Servers, t \in Shards : o # n \/ t # s =>
                 local'[o][t] = local[o][t] /\ pending'[o][t] = pending[o][t]
           /\ pending'[n][s] = pending[n][s]
      BY <2>1, <2>3
    <2>. QED BY <2>13, <2>6, <2>7, <2>9, <2>10, <2>11, <2>12, ServerFrame
  <1>3. CASE FreezeRepeated(m) /\ ~FreezeEnters(m)
    <2>1. Receive(m, {f}) /\ UNCHANGED serverVars
      BY <1>3 DEF HandleFreezeShard, Ignore, FreezeEnters, FreezeRepeated
    <2>2. SourceFrozen(a)
      BY <1>3 DEF FreezeRepeated, LocalOf, SourceFrozen, SourceOf
    <2>. QED BY <1>1, <2>1, <2>2, AnswerStep
  <1>4. CASE ~FreezeRepeated(m) /\ ~FreezeEnters(m)
    BY <1>4, IgnoredStep DEF HandleFreezeShard, Ignore
  <1>. QED BY <1>2, <1>3, <1>4

(* A copy leaves only a shard frozen for its attempt; unless the attempt   *)
(* is over, that shard is live and has the last write.                     *)
LEMMA BeginStep ==
  ASSUME TypeOK, TransferInv, CoordInv', NEW m \in DOMAIN net, m.dst \in Servers,
         HandleBeginTransfer(m), UNCHANGED coordVars
  PROVE  TransferInv'
  <1>. PICK n \in Servers : n = m.dst
    OBVIOUS
  <1>. PICK s \in Shards : s = m.shard
    BY MessageShard
  <1>0. m.type = "BeginTransfer"
    BY DEF HandleBeginTransfer
  <1>. PICK a \in DOMAIN attempts : a = m.attempt /\ attempts[a].shard = s
    BY <1>0, KnownMessage
  <1>1. CASE TransferStarts(m)
    <2>. PICK r : r = [local[n][s] EXCEPT !.state = "TRANSFER"]
      OBVIOUS
    <2>. PICK f : f = TransferOut(m)
      OBVIOUS
    <2>1. SetLocal(m, r) /\ Receive(m, {f}) /\ UNCHANGED <<pending, lastPut>>
      BY <1>1 DEF HandleBeginTransfer, LocalOf
    <2>2. local[n][s].state = "FREEZE" /\ local[n][s].attempt = a
      BY <1>1 DEF TransferStarts, LocalOf
    <2>3. /\ local'[n][s] = r
          /\ \A o \in Servers, t \in Shards :
                o # n \/ t # s => local'[o][t] = local[o][t]
      BY <2>1, LocalSet
    <2>4. local[n][s] \in HeldRecord /\ Held(n, s)
      BY <2>2 DEF Held, Absent, TypeOK, ServerTypeOK, LocalRecord
    <2>5. r.state = "TRANSFER" /\ r.attempt = a /\ r.data = local[n][s].data
      BY <2>2, <2>4 DEF HeldRecord
    <2>6. a # NoAttempt /\ attempts[a].from = n
      BY <2>2, LogDomain DEF TransferInv, MarkInv, CopyMark
    <2>7. f.type = "TransferShard" /\ f.attempt = a /\ f.shard = s
            /\ f.data = local[n][s].data
      BY DEF TransferOut, LocalOf
    <2>. PICK S : S = {f}
      OBVIOUS
    <2>8. DOMAIN net' \subseteq DOMAIN net \cup S
      BY <2>1, ReceiveAdds
    <2>9. \A x \in DOMAIN net : net[x] = 1 /\ x.type = "ActivateShard"
                                 /\ x \in DOMAIN net' => net'[x] = 1
      BY <2>1, <2>7, ReceiveKeepsSingle
    <2>10. SourceSending(a)'
      BY <2>3, <2>5, <2>6 DEF SourceSending, SourceOf, coordVars
    <2>11. MayActivate(a) => local[n][s].data = lastPut[s]
      <3>1. MayActivate(a) => ~Retired(n, s)
        BY <2>2 DEF TransferInv, MarkInv, CopyMark
      <3>. QED BY <2>4, <3>1 DEF Live, TransferInv, DataInv
    <2>12. \A x \in S :
            \/ x.type = "FreezeAck" /\ (~Decided(x.attempt) => SourceFrozen(x.attempt)')
            \/ /\ x.type \in {"TransferShard", "TransferAck"}
               /\ ~Decided(x.attempt) => SourceSending(x.attempt)'
               /\ x.type = "TransferShard" /\ MayActivate(x.attempt) =>
                     x.data = lastPut[x.shard]
      BY <2>7, <2>10, <2>11 DEF SourceSending, SourceOf
    <2>13. CopyMark(n, s)'
      BY <2>3, <2>5, <2>6 DEF CopyMark, Serving, coordVars
    <2>14. Live(n, s)' => Live(n, s) /\ local'[n][s].data = lastPut[s]
      <3>1. Live(n, s)' => Live(n, s)
        BY <2>2, <2>3, <2>4, <2>5 DEF Live, Retired, coordVars
      <3>. QED BY <2>3, <2>5, <3>1 DEF TransferInv, DataInv
    <2>15. \A b \in DOMAIN attempts :
              /\ attempts[b].from = n /\ attempts[b].shard = s
              /\ ~Decided(b) /\ SourceFrozen(b)
              => /\ SourceFrozen(b)'
                 /\ SourceSending(b) => SourceSending(b)'
      <3>. TAKE b \in DOMAIN attempts
      <3>1. attempts[b].from = n /\ attempts[b].shard = s /\ SourceFrozen(b) => b = a
        BY <2>2 DEF SourceFrozen, SourceOf
      <3>2. SourceFrozen(a)'
        BY <2>10 DEF SourceFrozen, SourceSending
      <3>. QED BY <2>10, <3>1, <3>2
    <2>16. /\ UNCHANGED <<coordVars, lastPut>>
           /\ \A o \in Servers, t \in Shards : o # n \/ t # s =>
                 local'[o][t] = local[o][t] /\ pending'[o][t] = pending[o][t]
           /\ pending'[n][s] = pending[n][s]
      BY <2>1, <2>3
    <2>. QED BY <2>16, <2>8, <2>9, <2>12, <2>13, <2>14, <2>15, ServerFrame
  <1>2. CASE ~TransferStarts(m)
    BY <1>2, IgnoredStep DEF HandleBeginTransfer, Ignore
  <1>. QED BY <1>1, <1>2

(* A received copy and its acknowledgement rest on the evidence that the   *)
(* message which carried the copy rested on.                               *)
LEMMA TransferShardStep ==
  ASSUME TypeOK, TransferInv, CoordInv', NEW m \in DOMAIN net, m.dst \in Servers,
         HandleTransferShard(m), UNCHANGED coordVars
  PROVE  TransferInv'
  <1>. PICK n \in Servers : n = m.dst
    OBVIOUS
  <1>. PICK s \in Shards : s = m.shard
    BY MessageShard
  <1>0. m.type = "TransferShard"
    BY DEF HandleTransferShard
  <1>. PICK a \in DOMAIN attempts : a = m.attempt /\ attempts[a].shard = s
    BY <1>0, KnownMessage
  <1>. PICK f : f = Ack("TransferAck", m)
    OBVIOUS
  <1>1. f.type = "TransferAck" /\ f.attempt = a
    BY DEF Ack
  <1>2. /\ ~Decided(a) => SourceSending(a)
        /\ MayActivate(a) => m.data = lastPut[s]
    BY <1>0 DEF TransferInv, EvidenceInv, DataInv
  <1>. PICK c : c = [epoch |-> m.epoch, attempt |-> a, data |-> m.data, source |-> m.src]
    OBVIOUS
  <1>3. CASE SetPending(m, c) /\ Receive(m, {f}) /\ UNCHANGED <<local, lastPut>>
    <2>1. /\ pending'[n][s] = c
          /\ \A o \in Servers, t \in Shards :
                o # n \/ t # s => pending'[o][t] = pending[o][t]
      BY <1>3, PendingSet
    <2>. PICK S : S = {f}
      OBVIOUS
    <2>2. DOMAIN net' \subseteq DOMAIN net \cup S
      BY <1>3, ReceiveAdds
    <2>3. \A x \in DOMAIN net : net[x] = 1 /\ x.type = "ActivateShard"
                                 /\ x \in DOMAIN net' => net'[x] = 1
      BY <1>1, <1>3, ReceiveKeepsSingle
    <2>4. \A x : /\ SourceFrozen(x)' <=> SourceFrozen(x)
                 /\ SourceSending(x)' <=> SourceSending(x)
      BY <1>3 DEF SourceFrozen, SourceSending, SourceOf, coordVars
    <2>5. \A x \in S :
            \/ x.type = "FreezeAck" /\ (~Decided(x.attempt) => SourceFrozen(x.attempt)')
            \/ /\ x.type \in {"TransferShard", "TransferAck"}
               /\ ~Decided(x.attempt) => SourceSending(x.attempt)'
               /\ x.type = "TransferShard" /\ MayActivate(x.attempt) =>
                     x.data = lastPut[x.shard]
      BY <1>1, <1>2, <2>4
    <2>6. CopyMark(n, s)'
      <3>1. \A x \in DOMAIN net' : x.type = "ActivateShard" => x \in DOMAIN net
        BY <1>1, <2>2
      <3>. QED BY <1>3, <3>1, CopyMarkKept DEF coordVars
    <2>7. Live(n, s)' => Live(n, s) /\ local'[n][s].data = lastPut[s]
      <3>1. Live(n, s)' => Live(n, s) /\ local'[n][s] = local[n][s]
        BY <1>3 DEF Live, Held, Retired, coordVars
      <3>. QED BY <3>1 DEF TransferInv, DataInv
    <2>8. /\ c.attempt = a /\ c.data = m.data
          /\ ~Decided(a) => SourceSending(pending[n][s].attempt)'
      BY <1>2, <2>1, <2>4 DEF SourceSending, SourceOf
    <2>9. /\ UNCHANGED <<coordVars, lastPut>>
          /\ \A o \in Servers, t \in Shards : o # n \/ t # s =>
                local'[o][t] = local[o][t] /\ pending'[o][t] = pending[o][t]
          /\ ~Decided(pending'[n][s].attempt) => SourceSending(pending[n][s].attempt)'
          /\ MayActivate(pending'[n][s].attempt) => pending'[n][s].data = lastPut[s]
      BY <1>2, <1>3, <2>1, <2>8
    <2>. QED BY <2>2, <2>3, <2>4, <2>5, <2>6, <2>7, <2>9, ServerFrame
  <1>4. CASE Receive(m, {f}) /\ UNCHANGED serverVars
    BY <1>1, <1>2, <1>4, AnswerStep
  <1>5. CASE Ignore(m)
    BY <1>5, IgnoredStep DEF Ignore
  <1>. QED BY <1>3, <1>4, <1>5 DEF HandleTransferShard

(* An Activate is consumed when the copy it names becomes live: it was the *)
(* only one for the shard, and it was addressed to the owner.              *)
LEMMA ActivateStep ==
  ASSUME TypeOK, TransferInv, CoordInv', NEW m \in DOMAIN net, m.dst \in Servers,
         HandleActivateShard(m), UNCHANGED coordVars
  PROVE  TransferInv'
  <1>. PICK n \in Servers : n = m.dst
    OBVIOUS
  <1>. PICK s \in Shards : s = m.shard
    BY MessageShard
  <1>0. m.type = "ActivateShard"
    BY DEF HandleActivateShard
  <1>. PICK a \in DOMAIN attempts : a = m.attempt /\ attempts[a].shard = s
    BY <1>0, KnownMessage
  <1>1. CASE ActivateAccepted(m)
    <2>. PICK r : r = [epoch |-> m.epoch, state |-> "STABLE",
                       data |-> pending[n][s].data, attempt |-> NoAttempt]
      OBVIOUS
    <2>1. SetLocal(m, r) /\ SetPending(m, NoCopy) /\ Receive(m, {})
            /\ UNCHANGED lastPut
      BY <1>1 DEF HandleActivateShard, PendingOf
    <2>2. HasPending(n, s) /\ pending[n][s].attempt = a
      BY <1>1 DEF ActivateAccepted, PendingOf
    <2>3. MayActivate(a)
      BY <1>0 DEF MayActivate
    <2>4. pending[n][s].data = lastPut[s]
      BY <2>2, <2>3 DEF TransferInv, DataInv
    <2>5. /\ meta[s].owner = n /\ ~Live(n, s) /\ net[m] = 1
          /\ \A x \in Activations(s) : x = m
      BY <1>0 DEF TransferInv, TokenInv, Activations
    <2>6. /\ local'[n][s] = r
          /\ \A o \in Servers, t \in Shards :
                o # n \/ t # s => local'[o][t] = local[o][t]
      BY <2>1, LocalSet
    <2>7. /\ pending'[n][s] = NoCopy
          /\ \A o \in Servers, t \in Shards :
                o # n \/ t # s => pending'[o][t] = pending[o][t]
      BY <2>1, PendingSet
    <2>8. DOMAIN net' \subseteq DOMAIN net \cup {}
      BY <2>1, ReceiveAdds
    <2>9. \A x \in DOMAIN net : net[x] = 1 /\ x.type = "ActivateShard"
                                 /\ x \in DOMAIN net' => net'[x] = 1
      BY <2>1, ReceiveKeepsSingle
    <2>10. Activations(s)' = {}
      <3>1. m \notin DOMAIN net'
        BY <2>1, <2>5, ReceiveTakesSingle
      <3>. QED BY <2>5, <2>8, <3>1 DEF Activations
    <2>11. r.attempt = NoAttempt /\ r.state = "STABLE" /\ r.data = lastPut[s]
      BY <2>4
    <2>12. CopyMark(n, s)'
      BY <2>6, <2>11 DEF CopyMark, Retired
    <2>13. \A b \in DOMAIN attempts :
              /\ attempts[b].from = n /\ attempts[b].shard = s
              /\ ~Decided(b) /\ SourceFrozen(b)
              => /\ SourceFrozen(b)'
                 /\ SourceSending(b) => SourceSending(b)'
      BY <2>5, UndecidedSource
    <2>14. /\ UNCHANGED <<coordVars, lastPut>>
           /\ \A o \in Servers, t \in Shards : o # n \/ t # s =>
                 local'[o][t] = local[o][t] /\ pending'[o][t] = pending[o][t]
           /\ ~HasPending(n, s)'
           /\ local'[n][s].data = lastPut[s]
      BY <2>1, <2>6, <2>7, <2>11 DEF HasPending
    <2>. PICK S : S = {}
      OBVIOUS
    <2>15. /\ DOMAIN net' \subseteq DOMAIN net \cup S
           /\ \A x \in S : FALSE
      BY <2>8
    <2>. QED BY <2>5, <2>9, <2>10, <2>12, <2>13, <2>14, <2>15, ServerFrame
  <1>2. CASE ~ActivateAccepted(m)
    BY <1>2, IgnoredStep DEF HandleActivateShard, Ignore
  <1>. QED BY <1>1, <1>2

(* What a cleanup removes is retired, and so it is no evidence. *)
LEMMA CleanupStep ==
  ASSUME TypeOK, TransferInv, CoordInv', NEW m \in DOMAIN net, m.dst \in Servers,
         HandleCleanupShard(m), UNCHANGED coordVars
  PROVE  TransferInv'
  <1>. PICK n \in Servers : n = m.dst
    OBVIOUS
  <1>. PICK s \in Shards : s = m.shard
    BY MessageShard
  <1>0. m.type = "CleanupShard"
    BY DEF HandleCleanupShard
  <1>. PICK a \in DOMAIN attempts : a = m.attempt /\ attempts[a].shard = s
    BY <1>0, KnownMessage
  <1>1. CASE CleanupAccepted(m)
    <2>1. SetLocal(m, Absent) /\ Receive(m, {}) /\ UNCHANGED <<pending, lastPut>>
      BY <1>1 DEF HandleCleanupShard
    <2>2. attempts[a].outcome = "complete"
      BY <1>0 DEF TransferInv, CoordInv, MessagesFollowDecision
    <2>3. ~Live(n, s)
      BY <1>1, <2>2, LogDomain DEF CleanupAccepted, LocalOf, Live, Retired
    <2>4. /\ local'[n][s] = Absent
          /\ \A o \in Servers, t \in Shards :
                o # n \/ t # s => local'[o][t] = local[o][t]
      BY <2>1, LocalSet
    <2>5. DOMAIN net' \subseteq DOMAIN net \cup {}
      BY <2>1, ReceiveAdds
    <2>6. \A x \in DOMAIN net : net[x] = 1 /\ x.type = "ActivateShard"
                                 /\ x \in DOMAIN net' => net'[x] = 1
      BY <2>1, ReceiveKeepsSingle
    <2>7. CopyMark(n, s)' /\ ~Live(n, s)'
      BY <2>4 DEF CopyMark, Serving, Retired, Live, Held, Absent
    <2>8. \A b \in DOMAIN attempts :
              /\ attempts[b].from = n /\ attempts[b].shard = s
              /\ ~Decided(b) /\ SourceFrozen(b)
              => /\ SourceFrozen(b)'
                 /\ SourceSending(b) => SourceSending(b)'
      BY <2>3, UndecidedSource
    <2>9. /\ UNCHANGED <<coordVars, lastPut>>
          /\ \A o \in Servers, t \in Shards : o # n \/ t # s =>
                local'[o][t] = local[o][t] /\ pending'[o][t] = pending[o][t]
          /\ pending'[n][s] = pending[n][s]
      BY <2>1, <2>4
    <2>. PICK S : S = {}
      OBVIOUS
    <2>10. /\ DOMAIN net' \subseteq DOMAIN net \cup S
           /\ \A x \in S : FALSE
      BY <2>5
    <2>. QED BY <2>6, <2>7, <2>8, <2>9, <2>10, ServerFrame
  <1>2. CASE ~CleanupAccepted(m)
    BY <1>2, IgnoredStep DEF HandleCleanupShard, Ignore
  <1>. QED BY <1>1, <1>2

(* An abort rolls back a copy that is live already, and its attempt, being *)
(* decided, needs no evidence any more.                                    *)
LEMMA RollBackStep ==
  ASSUME TypeOK, TransferInv, CoordInv', NEW m \in DOMAIN net, m.dst \in Servers,
         HandleAbortReconfiguration(m), UNCHANGED coordVars
  PROVE  TransferInv'
  <1>. PICK n \in Servers : n = m.dst
    OBVIOUS
  <1>. PICK s \in Shards : s = m.shard
    BY MessageShard
  <1>0. m.type = "AbortReconfiguration" /\ Receive(m, {}) /\ UNCHANGED lastPut
    BY DEF HandleAbortReconfiguration
  <1>1. ~m.resync
    BY <1>0 DEF TransferInv, MarkInv, MessageMark
  <1>. PICK a \in DOMAIN attempts : a = m.attempt /\ attempts[a].shard = s
    BY <1>0, <1>1 DEF TransferInv, CoordInv, KnownAttempts, KnownIn, AttemptsOf
  <1>2. attempts[a].outcome = "abort"
    BY <1>0, <1>1 DEF TransferInv, CoordInv, MessagesFollowDecision
  <1>3. DOMAIN net' \subseteq DOMAIN net \cup {}
    BY <1>0, ReceiveAdds
  <1>4. \A x \in DOMAIN net : net[x] = 1 /\ x.type = "ActivateShard"
                               /\ x \in DOMAIN net' => net'[x] = 1
    BY <1>0, ReceiveKeepsSingle
  <1>5. \/ pending' = pending
        \/ /\ pending'[n][s] = NoCopy
           /\ \A o \in Servers, t \in Shards :
                 o # n \/ t # s => pending'[o][t] = pending[o][t]
    BY PendingSet DEF HandleAbortReconfiguration
  <1>6. /\ \A o \in Servers, t \in Shards :
              o # n \/ t # s => local'[o][t] = local[o][t]
        /\ CopyMark(n, s)'
        /\ Live(n, s)' => Live(n, s) /\ local'[n][s].data = lastPut[s]
        /\ \A b \in DOMAIN attempts :
              /\ attempts[b].from = n /\ attempts[b].shard = s
              /\ ~Decided(b) /\ SourceFrozen(b)
              => /\ SourceFrozen(b)'
                 /\ SourceSending(b) => SourceSending(b)'
    <2>1. CASE RollsBack(m)
      <3>. PICK r : r = [local[n][s] EXCEPT !.epoch = m.epoch, !.state = "STABLE",
                                            !.attempt = NoAttempt]
        OBVIOUS
      <3>1. SetLocal(m, r)
        BY <2>1 DEF HandleAbortReconfiguration, LocalOf
      <3>2. /\ local'[n][s] = r
            /\ \A o \in Servers, t \in Shards :
                  o # n \/ t # s => local'[o][t] = local[o][t]
        BY <3>1, LocalSet
      <3>3. Held(n, s) /\ local[n][s].attempt \in {NoAttempt, a}
        BY <1>1, <2>1 DEF RollsBack, LocalOf
      <3>4. local[n][s] \in HeldRecord
        BY <3>3 DEF Held, TypeOK, ServerTypeOK, LocalRecord
      <3>5. r.attempt = NoAttempt /\ r.data = local[n][s].data
        BY <3>4 DEF HeldRecord
      <3>6. Live(n, s)
        BY <1>2, <3>3 DEF Live, Retired
      <3>7. local'[n][s].data = lastPut[s]
        BY <3>2, <3>5, <3>6 DEF TransferInv, DataInv
      <3>8. CopyMark(n, s)'
        BY <3>2, <3>5 DEF CopyMark, Retired
      <3>9. \A b \in DOMAIN attempts :
              attempts[b].from = n /\ attempts[b].shard = s /\ ~Decided(b) =>
                 ~SourceFrozen(b)
        BY <1>2, <3>3, LogDomain DEF SourceFrozen, SourceOf, Decided
      <3>. QED BY <3>2, <3>6, <3>7, <3>8, <3>9
    <2>2. CASE ~RollsBack(m)
      <3>1. local' = local
        BY <2>2 DEF HandleAbortReconfiguration
      <3>2. CopyMark(n, s)'
        BY <1>3, <3>1, CopyMarkKept DEF coordVars
      <3>3. Live(n, s)' => Live(n, s) /\ local'[n][s].data = lastPut[s]
        <4>1. Live(n, s)' => Live(n, s)
          BY <3>1 DEF Live, Held, Retired, coordVars
        <4>. QED BY <3>1, <4>1 DEF TransferInv, DataInv
      <3>4. \A b : /\ SourceFrozen(b) => SourceFrozen(b)'
                   /\ SourceSending(b) => SourceSending(b)'
        BY <3>1 DEF SourceFrozen, SourceSending, SourceOf, coordVars
      <3>. QED BY <3>1, <3>2, <3>3, <3>4
    <2>. QED BY <2>1, <2>2
  <1>7. /\ UNCHANGED <<coordVars, lastPut>>
        /\ \A o \in Servers, t \in Shards : o # n \/ t # s =>
              local'[o][t] = local[o][t] /\ pending'[o][t] = pending[o][t]
        /\ HasPending(n, s)' => pending'[n][s] = pending[n][s]
    BY <1>0, <1>5, <1>6 DEF HasPending
  <1>. PICK S : S = {}
    OBVIOUS
  <1>8. /\ DOMAIN net' \subseteq DOMAIN net \cup S
        /\ \A x \in S : FALSE
    BY <1>3
  <1>. QED BY <1>4, <1>6, <1>7, <1>8, ServerFrame

-----------------------------------------------------------------------------
(* The invariant, and what it promises to clients. *)

LEMMA TransferInvInit == Init => TransferInv
  <1>. SUFFICES ASSUME Init PROVE TransferInv
    OBVIOUS
  <1>0. TypeOK /\ CoordInv
    BY TypeInit, CoordInvInit
  <1>1. /\ DOMAIN net = {}
        /\ \A s \in Shards : meta[s].state = "STABLE"
        /\ \A n \in Servers, s \in Shards : pending[n][s] = NoCopy
    BY DEF Init, NetInit, EmptyBag, SetToBag, CoordInit
  <1>2. \A n \in Servers, s \in Shards :
           /\ local[n][s].attempt = NoAttempt
           /\ Held(n, s) => meta[s].owner = n /\ local[n][s].data = lastPut[s]
    BY DEF Init, Held, Absent
  <1>3. TokenInv
    BY <1>1, <1>2 DEF TokenInv, Activations, Live
  <1>4. MarkInv
    BY <1>1, <1>2 DEF MarkInv, CopyMark, Retired
  <1>5. EvidenceInv
    BY <1>1 DEF EvidenceInv, HasPending
  <1>6. DataInv
    BY <1>1, <1>2 DEF DataInv, Live, HasPending
  <1>. QED BY <1>0, <1>3, <1>4, <1>5, <1>6 DEF TransferInv

(* With controlled faults every step keeps the invariant. *)
LEMMA TransferStep ==
  ASSUME ControlledFaults, TypeOK, TransferInv, [Next]_vars
  PROVE  TransferInv'
  <1>0. CoordInv'
    BY CoordStep DEF TransferInv
  <1>1. CASE UNCHANGED vars
    <2>. PICK S : S = {}
      OBVIOUS
    <2>1. /\ DOMAIN net' \subseteq DOMAIN net \cup S
          /\ \A x \in S : FALSE
          /\ \A x \in DOMAIN net : net[x] = 1 /\ x \in DOMAIN net' => net'[x] = 1
      BY <1>1 DEF vars
    <2>2. meta' = meta /\ attempts' = attempts /\ UNCHANGED serverVars
      BY <1>1 DEF vars, coordVars
    <2>. QED BY <1>0, <2>1, <2>2, CoordinatorFrame DEF Decided
  <1>2. ASSUME NEW m \in DOMAIN net, Deliver(m) PROVE TransferInv'
    <2>1. CASE DeliverToCoordinator(m)
      BY <1>0, <2>1, FreezeAckStep, TransferAckStep DEF DeliverToCoordinator
    <2>2. CASE DeliverToServer(m)
      <3>1. m.dst \in Servers /\ UNCHANGED coordVars /\ ServerOnMessage(m)
        BY <2>2 DEF DeliverToServer
      <3>. QED
        BY <1>0, <3>1, FreezeStep, BeginStep, TransferShardStep, ActivateStep,
           CleanupStep, RollBackStep DEF ServerOnMessage
    <2>3. CASE DeliverToDeadNode(m)
      BY <1>0, <2>3, IgnoredStep DEF DeliverToDeadNode
    <2>. QED BY <1>2, <2>1, <2>2, <2>3 DEF Deliver
  <1>3. ASSUME NEW s \in Shards, TimerFires(s) PROVE TransferInv'
    BY <1>0, <1>3, TimeoutStep DEF TimerFires
  <1>4. ASSUME NEW s \in Shards, NEW new \in Servers, StartReassign(s, new)
        PROVE  TransferInv'
    BY <1>0, <1>4, ReassignStep DEF StartReassign
  <1>5. ASSUME NEW n \in Servers, CrashNode(n) PROVE TransferInv'
    <2>. DEFINE S == {s \in Shards : meta[s].state # "STABLE" /\ Participates(n, s)}
    <2>1. AbortReconfigurations(S) /\ UNCHANGED serverVars
      BY <1>5 DEF CrashNode, OnNodeCrash
    <2>2. S \in SUBSET Shards /\ \A s \in S : meta[s].state # "STABLE"
      OBVIOUS
    <2>. HIDE DEF S
    <2>. QED BY <1>0, <2>1, <2>2, AbortStep
  <1>6. ASSUME NEW n \in Servers, RecoverNode(n) PROVE FALSE
    BY <1>6, BoundsAssumption DEF RecoverNode, ControlledFaults, TypeOK
  <1>7. ASSUME NEW n \in Servers, NEW s \in Shards, NEW e, NEW v \in Values,
               ClientWrite(n, s, e, v)
        PROVE  TransferInv'
    BY <1>0, <1>7, ClientStep DEF ClientWrite
  <1>. QED
    BY <1>1, <1>2, <1>3, <1>4, <1>5, <1>6, <1>7, FaultsAssumption DEF Next, Delivery

(* With controlled faults TransferInv holds, for every number of servers,  *)
(* shards and attempts, and however messages are lost, delayed, reordered  *)
(* and, between servers and towards the coordinator, duplicated.           *)
THEOREM TransferInvariant ==
  ASSUME ControlledFaults
  PROVE  Spec => []TransferInv
  <1>1. Init => TransferInv
    BY TransferInvInit
  <1>2. TypeOK /\ TransferInv /\ [Next]_vars => TransferInv'
    BY TransferStep
  <1>. QED BY <1>1, <1>2, TypeCorrect, PTL DEF Spec

(* What the invariant says of a server that serves. *)
LEMMA ServingIsSafe ==
  ASSUME TypeOK, TransferInv
  PROVE  /\ AtMostOneServing
         /\ OnlyOwnerServes
         /\ NobodyServesInTransfer
         /\ ReadsSeeLastWrite
  <1>1. ASSUME NEW s \in Shards, NEW n \in Servers, Serving(n, s)
        PROVE  /\ meta[s].owner = n
               /\ local[n][s].attempt = NoAttempt
               /\ local[n][s].data = lastPut[s]
    BY <1>1, ServingLive, LiveOwner DEF TransferInv, DataInv
  <1>2. ASSUME NEW s \in Shards, meta[s].state = "TRANSFER",
               NEW n \in Servers, Serving(n, s)
        PROVE  FALSE
    <2>1. PICK a \in DOMAIN attempts : /\ a = meta[s].attempt
                                       /\ attempts[a].shard = s
                                       /\ attempts[a].from = meta[s].owner
      BY <1>2, CurrentAttempt DEF TransferInv
    <2>2. SourceFrozen(a)
      BY <1>2, <2>1 DEF TransferInv, EvidenceInv
    <2>. QED BY <1>1, <1>2, <2>1, <2>2, LogDomain DEF SourceFrozen, SourceOf
  <1>. QED
    BY <1>1, <1>2
       DEF AtMostOneServing, OnlyOwnerServes, NobodyServesInTransfer, ReadsSeeLastWrite

(* S1: no two servers ever serve a shard at the same time. *)
THEOREM OneServer ==
  ASSUME ControlledFaults
  PROVE  Spec => []AtMostOneServing
  <1>1. TypeOK /\ TransferInv => AtMostOneServing
    BY ServingIsSafe
  <1>. QED BY <1>1, TypeCorrect, TransferInvariant, PTL

(* The ownership half of S3: a server that serves a shard is the owner in *)
(* the metadata.                                                          *)
THEOREM OwnerServes ==
  ASSUME ControlledFaults
  PROVE  Spec => []OnlyOwnerServes
  <1>1. TypeOK /\ TransferInv => OnlyOwnerServes
    BY ServingIsSafe
  <1>. QED BY <1>1, TypeCorrect, TransferInvariant, PTL

(* S4: while an attempt is in its transfer phase nobody serves the shard.  *)
THEOREM FrozenInTransfer ==
  ASSUME ControlledFaults
  PROVE  Spec => []NobodyServesInTransfer
  <1>1. TypeOK /\ TransferInv => NobodyServesInTransfer
    BY ServingIsSafe
  <1>. QED BY <1>1, TypeCorrect, TransferInvariant, PTL

(* A shard that is served has the last acknowledged PUT. *)
THEOREM ServedDataIsCurrent ==
  ASSUME ControlledFaults
  PROVE  Spec => []ReadsSeeLastWrite
  <1>1. TypeOK /\ TransferInv => ReadsSeeLastWrite
    BY ServingIsSafe
  <1>. QED BY <1>1, TypeCorrect, TransferInvariant, PTL
=============================================================================
