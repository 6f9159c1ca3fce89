------------------------- MODULE RefinementProofs -------------------------
(***************************************************************************)
(* The two refinements around the transfer protocol: with controlled       *)
(* faults it implements Ownership; and the timers of PhaseTimers implement *)
(* its abstract timers, for every deployment and under every fault: no     *)
(* stale callback ever acts, and whatever is proved of ShardTransfer holds *)
(* of the timers of the code.                                              *)
(***************************************************************************)
EXTENDS StorageProofs, OwnershipRefinement, PhaseTimers

-----------------------------------------------------------------------------
(* ShardTransfer implements Ownership *)

(* The owner of a shard and the last write say what its register is. *)
RegisterOK == \A s \in Shards : /\ Owners[s] \in Servers
                                /\ Serve[s] \in {{}, {Owners[s]}}
                                /\ Contents[s] = lastPut[s]

(* The register of a shard is always stored somewhere. *)
LEMMA RegisterValue ==
  ASSUME TypeOK, TransferInv, StorageInv
  PROVE  RegisterOK
  <1>. SUFFICES ASSUME NEW s \in Shards
                PROVE  /\ Owners[s] \in Servers
                       /\ Serve[s] \in {{}, {Owners[s]}}
                       /\ Contents[s] = lastPut[s]
    BY DEF RegisterOK
  <1>. PICK n \in Servers : n = meta[s].owner
    BY DEF TypeOK, CoordTypeOK, MetaRecord, StableRecord, ReassignedRecord
  <1>1. Owners[s] = n
    BY DEF Owners, OwnerOf
  <1>2. \A o \in Servers : Serving(o, s) => o = n
    BY ServingIsSafe DEF OnlyOwnerServes
  <1>3. Serve[s] \in {{}, {n}}
    <2>1. Serve[s] = {o \in Servers : Serving(o, s)}
      BY DEF Serve
    <2>. QED BY <1>2, <2>1
  <1>4. Contents[s] = lastPut[s]
    <2>1. Contents[s] = IF Live(n, s) THEN local[n][s].data ELSE pending[n][s].data
      BY DEF Contents, StoredData, OwnerOf
    <2>2. Live(n, s) \/ Awaiting(n, s)
      BY DEF StorageInv, Stored
    <2>. QED BY <2>1, <2>2 DEF Awaiting, TransferInv, DataInv
  <1>. QED BY <1>1, <1>3, <1>4

(* The shards start out with their owners. *)
LEMMA RefinementInit == Init => Owned!Init
  <1>. SUFFICES ASSUME Init PROVE Owned!Init
    OBVIOUS
  <1>1. TypeOK /\ TransferInv /\ StorageInv
    BY TypeInit, TransferInvInit, StorageInit
  <1>2. \A s \in Shards : lastPut[s] \in Values
    BY DEF Init
  <1>3. Owners \in [Shards -> Servers]
    BY <1>1, RegisterValue DEF RegisterOK, Owners
  <1>4. Contents \in [Shards -> Values]
    BY <1>1, <1>2, RegisterValue DEF RegisterOK, Contents
  <1>5. ASSUME NEW s \in Shards PROVE Serve[s] = {Owners[s]}
    <2>. PICK n \in Servers : n = Owners[s]
      BY <1>1, RegisterValue DEF RegisterOK
    <2>1. n \in Serve[s]
      BY DEF Serve, Serving, Owners, OwnerOf, Init
    <2>. QED BY <1>1, <2>1, RegisterValue DEF RegisterOK
  <1>6. Serve = [s \in Shards |-> {Owners[s]}]
    BY <1>5 DEF Serve
  <1>. QED BY <1>3, <1>4, <1>6 DEF Owned!Init

(* Steps without effect on who serves and on what is stored. *)
LEMMA Invisible ==
  ASSUME RegisterOK, RegisterOK',
         UNCHANGED <<local, lastPut>>, \A s \in Shards : meta'[s].owner = meta[s].owner
  PROVE  UNCHANGED Owned!vars
  <1>1. Owners' = Owners /\ Serve' = Serve
    BY DEF Owners, OwnerOf, Serve, Serving
  <1>2. ASSUME NEW s \in Shards PROVE Contents'[s] = Contents[s]
    BY DEF RegisterOK
  <1>3. Contents' = Contents
    BY <1>2 DEF Contents
  <1>. QED BY <1>1, <1>3 DEF Owned!vars

(* A server changes one shard: its service is suspended or resumed. *)
LEMMA OneShard ==
  ASSUME RegisterOK, RegisterOK',
         UNCHANGED <<coordVars, lastPut>>, NEW s \in Shards,
         \A o \in Servers, t \in Shards : t # s => local'[o][t] = local[o][t]
  PROVE  [Owned!Next]_Owned!vars
  <1>1. Owners' = Owners
    BY DEF Owners, OwnerOf, coordVars
  <1>2. ASSUME NEW t \in Shards PROVE Contents'[t] = Contents[t]
    BY DEF RegisterOK
  <1>3. Contents' = Contents
    BY <1>2 DEF Contents
  <1>4. \A t \in Shards : t # s => Serve'[t] = Serve[t]
    BY DEF Serve, Serving
  <1>5. Serve[s] \in {{}, {Owners[s]}} /\ Serve'[s] \in {{}, {Owners[s]}}
    BY <1>1 DEF RegisterOK
  <1>6. Serve' = [Serve EXCEPT ![s] = Serve'[s]]
    BY <1>4 DEF Serve
  <1>7. CASE Serve'[s] = Serve[s]
    <2>1. Serve' = Serve
      BY <1>4, <1>7 DEF Serve
    <2>. QED BY <1>1, <1>3, <2>1 DEF Owned!vars
  <1>8. CASE Serve[s] # {} /\ Serve'[s] = {}
    <2>1. Owned!Suspend(s)
      BY <1>1, <1>3, <1>6, <1>8 DEF Owned!Suspend
    <2>. QED BY <2>1 DEF Owned!Next
  <1>9. CASE Serve[s] = {} /\ Serve'[s] = {Owners[s]}
    <2>1. Owned!Resume(s)
      BY <1>1, <1>3, <1>6, <1>9 DEF Owned!Resume
    <2>. QED BY <2>1 DEF Owned!Next
  <1>. QED BY <1>5, <1>7, <1>8, <1>9

(* A commit moves a shard that nobody serves. *)
LEMMA CommitMoves ==
  ASSUME TypeOK, TransferInv, StorageInv, RegisterOK, RegisterOK',
         NEW m \in DOMAIN net, HandleTransferAck(m), TransferAckAccepted(m),
         UNCHANGED serverVars
  PROVE  Owned!Next
  <1>. PICK s : s = m.shard
    OBVIOUS
  <1>. PICK a : a = meta[s].attempt
    OBVIOUS
  <1>1. /\ s \in Shards
        /\ meta[s] \in ReassignedRecord
        /\ meta[s].state = "TRANSFER"
        /\ m.type = "TransferAck" /\ m.attempt = a
        /\ DOMAIN attempts' = DOMAIN attempts
        /\ attempts'[a] = [attempts[a] EXCEPT !.outcome = "complete"]
        /\ \A b \in DOMAIN attempts : b # a => attempts'[b] = attempts[b]
        /\ meta'[s] = Committed(meta[s])
        /\ \A t \in Shards : t # s => meta'[t] = meta[t]
        /\ Receive(m, CommitMessages(s))
    BY CommitLog DEF TransferInv
  <1>. PICK n \in Servers : n = meta[s].target
    BY <1>1 DEF ReassignedRecord
  <1>2. meta'[s].owner = n
    BY <1>1 DEF Committed
  <1>3. Owners[s] # n
    <2>. PICK b \in DOMAIN attempts : /\ attempts[b].from = meta[s].owner
                                      /\ attempts[b].to = meta[s].target
      BY <1>1, CurrentAttempt DEF TransferInv
    <2>1. meta[s].owner # meta[s].target
      BY DEF StorageInv
    <2>. QED BY <1>1, <2>1 DEF Owners, OwnerOf
  <1>4. Owners' = [Owners EXCEPT ![s] = n]
    BY <1>1, <1>2 DEF Owners, OwnerOf
  <1>5. Serve' = Serve
    BY DEF Serve, Serving, serverVars
  <1>6. Serve[s] = {}
    BY <1>1, ServingIsSafe DEF NobodyServesInTransfer, Serve
  <1>7. ASSUME NEW t \in Shards PROVE Contents'[t] = Contents[t]
    BY DEF RegisterOK, serverVars
  <1>8. Contents' = Contents
    BY <1>7 DEF Contents
  <1>9. Owned!Move(s, n)
    BY <1>3, <1>4, <1>5, <1>6, <1>8 DEF Owned!Move
  <1>. QED BY <1>1, <1>9 DEF Owned!Next

(* A write is one of the register. *)
LEMMA WritePuts ==
  ASSUME TypeOK, TransferInv, StorageInv, RegisterOK, RegisterOK',
         NEW n \in Servers, NEW s \in Shards, NEW e, NEW v \in Values,
         ClientPut(n, s, e, v), UNCHANGED coordVars
  PROVE  Owned!Next
  <1>1. Serving(n, s) /\ Held(n, s)
    BY DEF ClientPut, Serves, Serving
  <1>2. /\ local \in [Servers -> [Shards -> LocalRecord]]
        /\ lastPut \in [Shards -> Values] /\ local[n][s] \in HeldRecord
    BY <1>1 DEF TypeOK, ServerTypeOK, Held, LocalRecord
  <1>3. \A o \in Servers, t \in Shards : local'[o][t].state = local[o][t].state
    <2>1. [local[n][s] EXCEPT !.data = v].state = local[n][s].state
      BY <1>2 DEF HeldRecord
    <2>. QED BY <1>2, <2>1 DEF ClientPut
  <1>4. lastPut'[s] = v /\ \A t \in Shards : t # s => lastPut'[t] = lastPut[t]
    BY <1>2 DEF ClientPut
  <1>5. Owners' = Owners
    BY DEF Owners, OwnerOf, coordVars
  <1>6. Serve' = Serve
    BY <1>3 DEF Serve, Serving
  <1>7. Serve[s] # {}
    BY <1>1 DEF Serve
  <1>8. \A t \in Shards : /\ Contents[t] = lastPut[t]
                          /\ Contents'[t] = lastPut'[t]
    BY DEF RegisterOK
  <1>9. Contents' = [Contents EXCEPT ![s] = v]
    BY <1>4, <1>8 DEF Contents
  <1>10. Owned!Put(s, v)
    BY <1>5, <1>6, <1>7, <1>9 DEF Owned!Put
  <1>. QED BY <1>10 DEF Owned!Next

-----------------------------------------------------------------------------
(* A handler of a server changes only the shard its message names. *)
LEMMA ServerChangesOneShard ==
  ASSUME TypeOK, NEW m \in DOMAIN net, m.dst \in Servers, ServerOnMessage(m),
         NEW s \in Shards, s = m.shard
  PROVE  /\ UNCHANGED lastPut
         /\ \A o \in Servers, t \in Shards : t # s => local'[o][t] = local[o][t]
  <1>1. UNCHANGED lastPut
    BY DEF ServerOnMessage, HandleFreezeShard, HandleBeginTransfer, HandleTransferShard,
           HandleActivateShard, HandleCleanupShard, HandleAbortReconfiguration,
           Ignore, serverVars
  <1>2. local' = local \/ \E r : SetLocal(m, r)
    BY DEF ServerOnMessage, HandleFreezeShard, HandleBeginTransfer, HandleTransferShard,
           HandleActivateShard, HandleCleanupShard, HandleAbortReconfiguration,
           Ignore, serverVars
  <1>. QED BY <1>1, <1>2, LocalSet

(* Every step of the protocol is one of Ownership, or not visible. *)
LEMMA RefinementStep ==
  ASSUME ControlledFaults, TypeOK, TransferInv, StorageInv,
         RegisterOK, RegisterOK', [Next]_vars
  PROVE  [Owned!Next]_Owned!vars
  <1>0. \A s \in Shards : meta[s] \in MetaRecord
    BY DEF TypeOK, CoordTypeOK
  <1>1. CASE UNCHANGED vars
    BY <1>1, Invisible DEF vars, coordVars, serverVars
  <1>2. ASSUME NEW m \in DOMAIN net, Deliver(m) PROVE [Owned!Next]_Owned!vars
    <2>1. CASE HandleFreezeAck(m) /\ UNCHANGED serverVars
      <3>1. \A s \in Shards : meta'[s].owner = meta[s].owner
        <4>1. CASE meta' = [meta EXCEPT ![m.shard].state = "TRANSFER"]
          BY <4>1, <1>0 DEF TypeOK, CoordTypeOK, MetaRecord, StableRecord, ReassignedRecord
        <4>. QED BY <2>1, <4>1 DEF HandleFreezeAck
      <3>. QED BY <2>1, <3>1, Invisible DEF serverVars
    <2>2. CASE HandleTransferAck(m) /\ UNCHANGED serverVars /\ TransferAckAccepted(m)
      BY <2>2, CommitMoves
    <2>3. CASE HandleTransferAck(m) /\ UNCHANGED serverVars /\ ~TransferAckAccepted(m)
      BY <2>3, Invisible DEF HandleTransferAck, coordVars, serverVars
    <2>4. CASE DeliverToServer(m)
      <3>. PICK s \in Shards : s = m.shard
        BY MessageShard
      <3>1. m.dst \in Servers /\ ServerOnMessage(m) /\ UNCHANGED coordVars
        BY <2>4 DEF DeliverToServer
      <3>2. /\ UNCHANGED lastPut
            /\ \A o \in Servers, t \in Shards : t # s => local'[o][t] = local[o][t]
        BY <3>1, ServerChangesOneShard
      <3>. QED BY <3>1, <3>2, OneShard
    <2>5. CASE DeliverToDeadNode(m)
      BY <2>5, Invisible DEF DeliverToDeadNode, coordVars, serverVars
    <2>. QED
      BY <1>2, <2>1, <2>2, <2>3, <2>4, <2>5 DEF Deliver, DeliverToCoordinator
  <1>3. ASSUME NEW S \in SUBSET Shards, AbortReconfigurations(S), UNCHANGED serverVars
        PROVE  UNCHANGED Owned!vars
    <2>1. \A s \in Shards : meta'[s].owner = meta[s].owner
      BY <1>0, <1>3 DEF AbortReconfigurations, Aborted, MetaRecord, StableRecord, ReassignedRecord
    <2>. QED BY <1>3, <2>1, Invisible DEF serverVars
  <1>4. ASSUME NEW s \in Shards, TimerFires(s) PROVE UNCHANGED Owned!vars
    <2>1. UNCHANGED serverVars /\ (RetryPhase(s) \/ AbortAfterTimeouts(s))
      BY <1>4 DEF TimerFires, PhaseTimeout
    <2>2. CASE RetryPhase(s)
      BY <2>1, <2>2, Invisible DEF RetryPhase, RepeatRequest, serverVars
    <2>3. CASE AbortAfterTimeouts(s)
      BY <1>3, <2>1, <2>3 DEF AbortAfterTimeouts
    <2>. QED BY <2>1, <2>2, <2>3
  <1>5. ASSUME NEW s \in Shards, NEW new \in Servers, StartReassign(s, new)
        PROVE  UNCHANGED Owned!vars
    <2>1. \A t \in Shards : meta'[t].owner = meta[t].owner
      BY <1>0, <1>5
         DEF StartReassign, Reassign, TypeOK, CoordTypeOK, MetaRecord, StableRecord,
             ReassignedRecord
    <2>. QED BY <1>5, <2>1, Invisible DEF StartReassign, serverVars
  <1>6. ASSUME NEW n \in Servers, CrashNode(n) PROVE UNCHANGED Owned!vars
    <2>. DEFINE S == {s \in Shards : meta[s].state # "STABLE" /\ Participates(n, s)}
    <2>1. AbortReconfigurations(S) /\ UNCHANGED serverVars
      BY <1>6 DEF CrashNode, OnNodeCrash
    <2>2. S \in SUBSET Shards
      OBVIOUS
    <2>. HIDE DEF S
    <2>. QED BY <1>3, <2>1, <2>2
  <1>7. ASSUME NEW n \in Servers, RecoverNode(n) PROVE FALSE
    BY <1>7, BoundsAssumption DEF RecoverNode, ControlledFaults, TypeOK
  <1>8. ASSUME NEW n \in Servers, NEW s \in Shards, NEW e, NEW v \in Values,
               ClientWrite(n, s, e, v)
        PROVE  Owned!Next
    BY <1>8, WritePuts DEF ClientWrite
  <1>. QED
    BY <1>1, <1>2, <1>4, <1>5, <1>6, <1>7, <1>8, FaultsAssumption DEF Next, Delivery

(* A client cannot tell the protocol from a register that has an owner and *)
(* is moved only while nobody serves it.                                   *)
THEOREM Refinement ==
  ASSUME ControlledFaults
  PROVE  Spec => ImplementsOwnership
  <1>1. Init => Owned!Init
    BY RefinementInit
  <1>2. TypeOK /\ TransferInv /\ StorageInv => RegisterOK
    BY RegisterValue
  <1>3. /\ TypeOK /\ TransferInv /\ StorageInv /\ RegisterOK /\ RegisterOK'
        /\ [Next]_vars
        => [Owned!Next]_Owned!vars
    BY RefinementStep
  <1>. QED
    BY <1>1, <1>2, <1>3, TypeCorrect, TransferInvariant, StorageInvariant, PTL
       DEF Spec, ImplementsOwnership, Owned!Spec

-----------------------------------------------------------------------------
(* Facts about callbacks and keys *)

(* The fields of a callback. *)
LEMMA CallbackType ==
  ASSUME TimersTypeOK, NEW c \in callbacks
  PROVE  /\ c \in Callback
         /\ c.shard \in Shards
         /\ c.phase \in TimedPhases /\ c.phase \in Phases
         /\ c.attempt \in AttemptIds
         /\ c.token \in Nat
         /\ Key(c) = <<c.phase, c.attempt>>
         /\ Key(c) \in Keys
         /\ tokens[Key(c)] \in Nat
         /\ c = [shard |-> c.shard, phase |-> c.phase, attempt |-> c.attempt,
                 token |-> c.token]
  <1>1. c \in Callback
    BY DEF TimersTypeOK
  <1>2. /\ c.shard \in Shards /\ c.phase \in TimedPhases
        /\ c.attempt \in AttemptIds /\ c.token \in Nat
        /\ c = [shard |-> c.shard, phase |-> c.phase, attempt |-> c.attempt,
                token |-> c.token]
    BY <1>1 DEF Callback
  <1>3. c.phase \in Phases
    BY <1>2, FaultsAssumption DEF Phases
  <1>4. Key(c) = <<c.phase, c.attempt>> /\ Key(c) \in Keys
    BY <1>2, <1>3 DEF Key, Keys
  <1>5. tokens[Key(c)] \in Nat
    BY <1>4 DEF TimersTypeOK
  <1>. QED BY <1>1, <1>2, <1>3, <1>4, <1>5

(* A shard in a phase with a timeout has an attempt, and a key. *)
LEMMA PhaseType ==
  ASSUME TypeOK, NEW s \in Shards, meta[s].state # "STABLE"
  PROVE  /\ meta[s].state \in Phases
         /\ meta[s].attempt \in AttemptIds
         /\ <<meta[s].state, meta[s].attempt>> \in Keys
  <1>1. meta[s] \in ReassignedRecord
    BY DEF TypeOK, CoordTypeOK, MetaRecord, StableRecord
  <1>. QED BY <1>1 DEF ReassignedRecord, Phases, Keys

(* The attempt of a callback belongs to one shard. *)
LEMMA OwnAttempt ==
  ASSUME TypeOK, CoordInv, CallbackInv, NEW c \in callbacks, NEW s \in Shards,
         meta[s].attempt = c.attempt
  PROVE  c.shard = s /\ meta[s].state # "STABLE"
  <1>1. c.attempt \in DOMAIN attempts /\ attempts[c.attempt].shard = c.shard
    BY DEF CallbackInv, AttemptsOf
  <1>2. meta[s].state # "STABLE"
    BY <1>1, LogDomain DEF CoordInv, MetaMatchesAttempt
  <1>3. attempts[meta[s].attempt].shard = s
    BY <1>2, CurrentAttempt
  <1>. QED BY <1>1, <1>2, <1>3

(* What UpdateTimers does to one key. *)
LEMMA UpdatedKey ==
  ASSUME TimersTypeOK, NEW ran, NEW K, NEW N, UpdateTimers(ran, K, N),
         NEW k \in Keys
  PROVE  /\ tokens'[k] = IF k \in Canceled(K) \/ \E c \in N : Key(c) = k
                         THEN tokens[k] + 1 ELSE tokens[k]
         /\ retryCounts'[k] = IF k \in Canceled(K) THEN 0 ELSE retryCounts[k]
         /\ tokens[k] \in Nat /\ tokens'[k] \in Nat
         /\ tokens'[k] >= tokens[k]
         /\ callbacks' = (callbacks \ ran) \cup N
  <1>1. tokens[k] \in Nat
    BY DEF TimersTypeOK
  <1>2. tokens'[k] = IF k \in Canceled(K) \/ \E c \in N : Key(c) = k
                     THEN tokens[k] + 1 ELSE tokens[k]
    BY DEF UpdateTimers
  <1>3. /\ retryCounts'[k] = IF k \in Canceled(K) THEN 0 ELSE retryCounts[k]
        /\ callbacks' = (callbacks \ ran) \cup N
    BY DEF UpdateTimers
  <1>. QED BY <1>1, <1>2, <1>3

(* Updates keep the types of the timers. *)
LEMMA UpdateType ==
  ASSUME TimersTypeOK, NEW ran, NEW K, NEW N \in SUBSET Callback,
         UpdateTimers(ran, K, N)
  PROVE  /\ tokens' \in [Keys -> Nat]
         /\ retryCounts' \in [Keys -> 0..MaxRetries]
         /\ callbacks' \subseteq Callback
  <1>1. tokens' \in [Keys -> Nat]
    BY DEF TimersTypeOK, UpdateTimers
  <1>2. retryCounts' \in [Keys -> 0..MaxRetries]
    BY BoundsAssumption DEF TimersTypeOK, UpdateTimers
  <1>3. callbacks' \subseteq Callback
    BY DEF TimersTypeOK, UpdateTimers
  <1>. QED BY <1>1, <1>2, <1>3

(* A started timer is a callback. *)
LEMMA StartedType ==
  ASSUME TimersTypeOK, NEW s \in Shards, NEW p \in Phases, NEW a \in AttemptIds
  PROVE  Started(s, p, a) \subseteq Callback
  <1>1. <<p, a>> \in Keys
    BY DEF Keys
  <1>2. tokens[<<p, a>>] + 1 \in Nat
    BY <1>1 DEF TimersTypeOK
  <1>3. p \in TimedPhases => NewCallback(s, p, a) \in Callback
    BY <1>2 DEF NewCallback, Callback
  <1>. QED BY <1>3 DEF Started

-----------------------------------------------------------------------------
(* Steps that leave the timers alone, or only remove a stale callback *)

LEMMA TimerFrame ==
  ASSUME TypeOK, CoordInv, TimersTypeOK, TimerInv,
         UNCHANGED coordVars, UNCHANGED <<tokens, retryCounts>>,
         callbacks' \subseteq callbacks,
         \A c \in callbacks : ~Stale(c) => c \in callbacks'
  PROVE  TimerInv'
  <1>1. CallbackInv'
    BY DEF TimerInv, CallbackInv, AttemptsOf, coordVars, Key
  <1>2. TokensFollowPhases'
    BY DEF TimerInv, TokensFollowPhases, coordVars, Key
  <1>3. ASSUME NEW s \in Shards, meta[s].state \in TimedPhases
        PROVE  CurrentCallback(s) \in callbacks'
    <2>1. CurrentCallback(s) \in callbacks
      BY <1>3 DEF TimerInv
    <2>2. ~Stale(CurrentCallback(s))
      BY DEF CurrentCallback, Stale, Key
    <2>. QED BY <2>1, <2>2
  <1>4. \A s \in Shards : meta'[s].state \in TimedPhases =>
            CurrentCallback(s)' \in callbacks'
    BY <1>3 DEF CurrentCallback, coordVars
  <1>5. RetriesAgree'
    BY DEF TimerInv, RetriesAgree, coordVars
  <1>6. CountsInv'
    BY DEF TimerInv, CountsInv, coordVars
  <1>. QED BY <1>1, <1>2, <1>4, <1>5, <1>6 DEF TimerInv

(***************************************************************************)
(* The shards of S leave their phases: their timers are cancelled.         *)
(***************************************************************************)
LEMMA PhaseEnds ==
  ASSUME TypeOK, CoordInv, TimersTypeOK, TimerInv,
         NEW S \in SUBSET Shards, \A s \in S : meta[s].state # "STABLE",
         NEW K \in SUBSET Keys,
         \A s \in S : <<meta[s].state, meta[s].attempt>> \in K,
         \A p \in Phases, a \in AttemptIds :
            <<p, a>> \in K => \E s \in S : meta[s].attempt = a,
         NEW ran, \A c \in ran : c.shard \in S,
         UpdateTimers(ran, K, {}),
         \A s \in S : meta'[s].state = "STABLE",
         \A s \in Shards \ S : meta'[s] = meta[s] /\ retries'[s] = retries[s],
         \A s \in Shards : AttemptsOf(s)' = AttemptsOf(s)
  PROVE  TimerInv'
  <1>1. callbacks' = callbacks \ ran
    BY DEF UpdateTimers
  <1>2. ASSUME NEW c \in callbacks, c.shard \notin S
        PROVE  tokens'[Key(c)] = tokens[Key(c)]
    <2>1. Key(c) \notin K
      <3>. SUFFICES ASSUME Key(c) \in K PROVE FALSE
        OBVIOUS
      <3>1. c.phase \in Phases /\ c.attempt \in AttemptIds /\ Key(c) = <<c.phase, c.attempt>>
        BY CallbackType
      <3>2. PICK s \in S : meta[s].attempt = c.attempt
        BY <3>1
      <3>3. c.shard = s
        BY <3>2, OwnAttempt DEF TimerInv
      <3>. QED BY <1>2, <3>3
    <2>2. Key(c) \in Keys
      BY CallbackType
    <2>. QED BY <2>1, <2>2, UpdatedKey DEF Canceled
  <1>3. ASSUME NEW c \in callbacks, c.shard \in S
        PROVE  tokens'[Key(c)] # c.token
    <2>1. /\ Key(c) \in Keys /\ Key(c) = <<c.phase, c.attempt>>
          /\ c.token \in 1..tokens[Key(c)] /\ tokens[Key(c)] \in Nat
      BY CallbackType DEF TimerInv, CallbackInv
    <2>2. CASE Key(c) \in K
      <3>1. Key(c) \in Canceled(K)
        BY <2>1, <2>2 DEF Canceled
      <3>. QED BY <2>1, <3>1, UpdatedKey
    <2>3. CASE Key(c) \notin K
      <3>1. tokens[Key(c)] # c.token
        BY <1>3, <2>1, <2>3 DEF TimerInv, TokensFollowPhases
      <3>2. tokens'[Key(c)] >= tokens[Key(c)] /\ tokens'[Key(c)] \in Nat
        BY <2>1, UpdatedKey
      <3>. QED BY <2>1, <3>1, <3>2
    <2>. QED BY <2>2, <2>3
  <1>4. CallbackInv'
    <2>. SUFFICES ASSUME NEW c \in callbacks, c \notin ran
                  PROVE  /\ c.attempt \in AttemptsOf(c.shard)'
                         /\ c.token \in 1..tokens'[Key(c)]
                         /\ meta'[c.shard].attempt = c.attempt
                              /\ meta'[c.shard].state = "FREEZE" => c.phase = "FREEZE"
      BY <1>1 DEF CallbackInv, Key
    <2>1. /\ c.shard \in Shards /\ Key(c) \in Keys
          /\ c.attempt \in AttemptsOf(c.shard)
          /\ c.token \in 1..tokens[Key(c)]
          /\ meta[c.shard].attempt = c.attempt /\ meta[c.shard].state = "FREEZE"
               => c.phase = "FREEZE"
      BY CallbackType DEF TimerInv, CallbackInv
    <2>2. tokens'[Key(c)] >= tokens[Key(c)] /\ tokens'[Key(c)] \in Nat
             /\ tokens[Key(c)] \in Nat
      BY <2>1, UpdatedKey
    <2>3. c.token \in 1..tokens'[Key(c)]
      BY <2>1, <2>2
    <2>. QED BY <2>1, <2>3
  <1>5. TokensFollowPhases'
    <2>. SUFFICES ASSUME NEW c \in callbacks, c \notin ran
                  PROVE  tokens'[Key(c)] = c.token <=>
                            /\ meta'[c.shard].state = c.phase
                            /\ meta'[c.shard].attempt = c.attempt
      BY <1>1 DEF TokensFollowPhases, Key
    <2>1. CASE c.shard \in S
      <3>1. c.phase # "STABLE"
        BY CallbackType DEF Phases
      <3>. QED BY <1>3, <2>1, <3>1
    <2>2. CASE c.shard \notin S
      <3>1. meta'[c.shard] = meta[c.shard]
        BY <2>2, CallbackType
      <3>. QED BY <1>2, <2>2, <3>1 DEF TimerInv, TokensFollowPhases
    <2>. QED BY <2>1, <2>2
  <1>6. ASSUME NEW s \in Shards, meta'[s].state \in TimedPhases
        PROVE  /\ CurrentCallback(s)' \in callbacks'
               /\ retryCounts'[<<meta'[s].state, meta'[s].attempt>>] = retries'[s]
    <2>1. s \notin S /\ meta'[s] = meta[s] /\ retries'[s] = retries[s]
      BY <1>6, FaultsAssumption
    <2>2. /\ CurrentCallback(s) \in callbacks
          /\ CurrentCallback(s).shard = s
          /\ Key(CurrentCallback(s)) = <<meta[s].state, meta[s].attempt>>
      BY <1>6, <2>1 DEF TimerInv, CurrentCallback, Key
    <2>3. tokens'[<<meta[s].state, meta[s].attempt>>]
             = tokens[<<meta[s].state, meta[s].attempt>>]
      BY <1>2, <2>1, <2>2
    <2>4. CurrentCallback(s)' = CurrentCallback(s)
      BY <2>1, <2>3 DEF CurrentCallback
    <2>5. CurrentCallback(s) \in callbacks'
      BY <1>1, <2>1, <2>2
    <2>6. /\ meta[s].state \in Phases /\ meta[s].attempt \in AttemptIds
          /\ <<meta[s].state, meta[s].attempt>> \in Keys
      BY <1>6, <2>1, FaultsAssumption, PhaseType
    <2>7. <<meta[s].state, meta[s].attempt>> \notin K
      <3>. SUFFICES ASSUME <<meta[s].state, meta[s].attempt>> \in K PROVE FALSE
        OBVIOUS
      <3>1. PICK t \in S : meta[t].attempt = meta[s].attempt
        BY <2>6
      <3>2. attempts[meta[t].attempt].shard = t
        BY CurrentAttempt
      <3>3. meta[s].state # "STABLE"
        BY <1>6, <2>1, FaultsAssumption
      <3>4. attempts[meta[s].attempt].shard = s
        BY <3>3, CurrentAttempt
      <3>5. t = s
        BY <3>1, <3>2, <3>4
      <3>. QED BY <2>1, <3>5
    <2>8. retryCounts'[<<meta[s].state, meta[s].attempt>>]
             = retryCounts[<<meta[s].state, meta[s].attempt>>]
      BY <2>6, <2>7, UpdatedKey DEF Canceled
    <2>. QED BY <1>6, <2>1, <2>4, <2>5, <2>8 DEF TimerInv, RetriesAgree
  <1>7. CountsInv'
    <2>. SUFFICES ASSUME NEW p \in Phases, NEW a \in AttemptIds, retryCounts'[<<p, a>>] # 0
                  PROVE  \E s \in Shards : /\ meta'[s].state = p /\ p \in TimedPhases
                                           /\ meta'[s].attempt = a
      BY DEF CountsInv
    <2>1. <<p, a>> \in Keys
      BY DEF Keys
    <2>2. <<p, a>> \notin Canceled(K) /\ retryCounts[<<p, a>>] # 0
      BY <2>1, UpdatedKey
    <2>3. PICK s \in Shards : /\ meta[s].state = p /\ p \in TimedPhases
                              /\ meta[s].attempt = a
      BY <2>2 DEF TimerInv, CountsInv
    <2>4. CurrentCallback(s) \in callbacks
      BY <2>3 DEF TimerInv
    <2>5. /\ Key(CurrentCallback(s)) = <<p, a>>
          /\ CurrentCallback(s).token = tokens[<<p, a>>]
      BY <2>3 DEF CurrentCallback, Key
    <2>6. tokens[<<p, a>>] # 0
      BY <2>4, <2>5 DEF TimerInv, CallbackInv
    <2>7. s \notin S
      BY <2>1, <2>2, <2>3, <2>6 DEF Canceled
    <2>. QED BY <2>3, <2>7
  <1>. QED BY <1>4, <1>5, <1>6, <1>7 DEF TimerInv, RetriesAgree

(***************************************************************************)
(* Shard s enters phase p of attempt a, which no callback has waited for:  *)
(* the timer of its last phase is cancelled, that of p is started.         *)
(***************************************************************************)
LEMMA PhaseStarts ==
  ASSUME TypeOK, CoordInv, TimersTypeOK, TimerInv,
         NEW s \in Shards, NEW p \in Phases, NEW a \in AttemptIds, NEW K \in SUBSET Keys,
         UpdateTimers({}, K, Started(s, p, a)),
         \A c \in callbacks : c.attempt = a =>
            c.shard = s /\ p = "TRANSFER" /\ c.phase = "FREEZE",
         \A c \in callbacks : Key(c) \in K => c.shard = s,
         \A c \in callbacks : c.shard = s /\ tokens[Key(c)] = c.token => Key(c) \in K,
         \A q \in Phases, b \in AttemptIds : <<q, b>> \in K =>
            q # p /\ b = a /\ meta[s].attempt = b,
         meta[s].state # "STABLE" => <<meta[s].state, meta[s].attempt>> \in K,
         meta'[s].state = p, meta'[s].attempt = a, retries'[s] = 0,
         \A t \in Shards \ {s} : /\ meta'[t] = meta[t] /\ retries'[t] = retries[t]
                                 /\ meta[t].attempt # a,
         a \in AttemptsOf(s)',
         \A t \in Shards : AttemptsOf(t) \subseteq AttemptsOf(t)'
  PROVE  TimerInv'
  <1>. PICK new : new = NewCallback(s, p, a)
    OBVIOUS
  <1>1. /\ callbacks' = callbacks \cup Started(s, p, a)
        /\ \A c \in Started(s, p, a) : c = new /\ p \in TimedPhases
        /\ p \in TimedPhases => new \in Started(s, p, a)
    BY DEF UpdateTimers, Started
  <1>2. <<p, a>> \in Keys
    BY DEF Keys
  <1>3. /\ new.shard = s /\ new.phase = p /\ new.attempt = a
        /\ new.token = tokens[<<p, a>>] + 1 /\ Key(new) = <<p, a>>
    BY DEF NewCallback, Key
  <1>4. tokens[<<p, a>>] \in Nat /\ tokens'[<<p, a>>] \in Nat
           /\ tokens'[<<p, a>>] >= tokens[<<p, a>>]
    BY <1>2, UpdatedKey
  <1>5. p \in TimedPhases => tokens'[<<p, a>>] = new.token
    BY <1>1, <1>2, <1>3, UpdatedKey
  <1>6. ASSUME NEW c \in callbacks
        PROVE  /\ Key(c) # <<p, a>>
               /\ tokens'[Key(c)] = IF Key(c) \in K /\ tokens[Key(c)] # 0
                                    THEN tokens[Key(c)] + 1 ELSE tokens[Key(c)]
    <2>1. /\ Key(c) \in Keys /\ Key(c) = <<c.phase, c.attempt>>
      BY CallbackType
    <2>2. Key(c) # <<p, a>>
      <3>. SUFFICES ASSUME c.phase = p, c.attempt = a PROVE FALSE
        BY <2>1
      <3>. QED OBVIOUS
    <2>3. ~ \E d \in Started(s, p, a) : Key(d) = Key(c)
      BY <1>1, <1>3, <2>2
    <2>. QED BY <2>1, <2>2, <2>3, UpdatedKey DEF Canceled
  <1>7. CallbackInv'
    <2>1. ASSUME NEW c \in callbacks
          PROVE  /\ c.attempt \in AttemptsOf(c.shard)'
                 /\ c.token \in 1..tokens'[Key(c)]
                 /\ meta'[c.shard].attempt = c.attempt
                      /\ meta'[c.shard].state = "FREEZE" => c.phase = "FREEZE"
      <3>1. /\ c.shard \in Shards /\ Key(c) \in Keys
            /\ c.attempt \in AttemptsOf(c.shard)
            /\ c.token \in 1..tokens[Key(c)] /\ tokens[Key(c)] \in Nat
            /\ meta[c.shard].attempt = c.attempt /\ meta[c.shard].state = "FREEZE"
                 => c.phase = "FREEZE"
        BY CallbackType DEF TimerInv, CallbackInv
      <3>2. c.token \in 1..tokens'[Key(c)]
        BY <1>6, <3>1
      <3>3. meta'[c.shard].attempt = c.attempt /\ meta'[c.shard].state = "FREEZE"
              => c.phase = "FREEZE"
        <4>1. CASE c.shard = s
          BY <4>1
        <4>2. CASE c.shard # s
          BY <3>1, <4>2
        <4>. QED BY <4>1, <4>2
      <3>. QED BY <3>1, <3>2, <3>3
    <2>2. ASSUME p \in TimedPhases
          PROVE  /\ new.attempt \in AttemptsOf(new.shard)'
                 /\ new.token \in 1..tokens'[Key(new)]
                 /\ meta'[new.shard].attempt = new.attempt
                      /\ meta'[new.shard].state = "FREEZE" => new.phase = "FREEZE"
      BY <1>3, <1>4, <1>5, <2>2
    <2>. QED BY <1>1, <2>1, <2>2 DEF CallbackInv, Key
  <1>8. TokensFollowPhases'
    <2>1. ASSUME NEW c \in callbacks
          PROVE  tokens'[Key(c)] = c.token <=> /\ meta'[c.shard].state = c.phase
                                               /\ meta'[c.shard].attempt = c.attempt
      <3>1. /\ c.shard \in Shards /\ Key(c) \in Keys /\ Key(c) = <<c.phase, c.attempt>>
            /\ c.token \in 1..tokens[Key(c)] /\ tokens[Key(c)] \in Nat
            /\ tokens[Key(c)] = c.token <=> /\ meta[c.shard].state = c.phase
                                            /\ meta[c.shard].attempt = c.attempt
        BY CallbackType DEF TimerInv, CallbackInv, TokensFollowPhases
      <3>2. CASE c.shard = s
        <4>1. tokens'[Key(c)] # c.token
          BY <1>6, <3>1, <3>2
        <4>2. ~ (meta'[s].state = c.phase /\ meta'[s].attempt = c.attempt)
          BY <1>6, <3>1
        <4>. QED BY <3>2, <4>1, <4>2
      <3>3. CASE c.shard # s
        <4>1. tokens'[Key(c)] = tokens[Key(c)] /\ meta'[c.shard] = meta[c.shard]
          BY <1>6, <3>1, <3>3
        <4>. QED BY <3>1, <4>1
      <3>. QED BY <3>2, <3>3
    <2>2. p \in TimedPhases => tokens'[Key(new)] = new.token
                               /\ meta'[new.shard].state = new.phase
                               /\ meta'[new.shard].attempt = new.attempt
      BY <1>3, <1>5
    <2>. QED BY <1>1, <2>1, <2>2 DEF TokensFollowPhases, Key
  <1>9. retryCounts[<<p, a>>] = 0
    <2>. SUFFICES ASSUME retryCounts[<<p, a>>] # 0 PROVE FALSE
      OBVIOUS
    <2>1. PICK t \in Shards : meta[t].state = p /\ meta[t].attempt = a
                              /\ p \in TimedPhases
      BY DEF TimerInv, CountsInv
    <2>2. t = s
      BY <2>1
    <2>3. meta[s].state # "STABLE"
      BY <2>1, <2>2 DEF Phases
    <2>. QED BY <2>1, <2>2, <2>3
  <1>10. ASSUME NEW t \in Shards, meta'[t].state \in TimedPhases
         PROVE  /\ CurrentCallback(t)' \in callbacks'
                /\ retryCounts'[<<meta'[t].state, meta'[t].attempt>>] = retries'[t]
    <2>1. CASE t = s
      <3>1. CurrentCallback(t)' = new
        BY <1>5, <1>10, <2>1 DEF CurrentCallback, NewCallback
      <3>2. retryCounts'[<<p, a>>] = 0
        BY <1>2, <1>9, UpdatedKey
      <3>. QED BY <1>1, <1>10, <2>1, <3>1, <3>2
    <2>2. CASE t # s
      <3>1. meta'[t] = meta[t] /\ retries'[t] = retries[t] /\ meta[t].attempt # a
        BY <2>2
      <3>2. /\ meta[t].state \in Phases /\ meta[t].attempt \in AttemptIds
            /\ <<meta[t].state, meta[t].attempt>> \in Keys
        BY <1>10, <3>1, FaultsAssumption, PhaseType
      <3>3. /\ CurrentCallback(t) \in callbacks
            /\ Key(CurrentCallback(t)) = <<meta[t].state, meta[t].attempt>>
        BY <1>10, <3>1 DEF TimerInv, CurrentCallback, Key
      <3>4. <<meta[t].state, meta[t].attempt>> \notin K
        BY <3>1, <3>2
      <3>5. tokens'[<<meta[t].state, meta[t].attempt>>]
              = tokens[<<meta[t].state, meta[t].attempt>>]
        BY <1>6, <3>3, <3>4
      <3>6. CurrentCallback(t)' = CurrentCallback(t)
        BY <3>1, <3>5 DEF CurrentCallback
      <3>7. retryCounts'[<<meta[t].state, meta[t].attempt>>]
              = retryCounts[<<meta[t].state, meta[t].attempt>>]
        BY <3>2, <3>4, UpdatedKey DEF Canceled
      <3>. QED BY <1>1, <1>10, <3>1, <3>3, <3>6, <3>7 DEF TimerInv, RetriesAgree
    <2>. QED BY <2>1, <2>2
  <1>11. CountsInv'
    <2>. SUFFICES ASSUME NEW q \in Phases, NEW b \in AttemptIds, retryCounts'[<<q, b>>] # 0
                  PROVE  \E t \in Shards : /\ meta'[t].state = q /\ q \in TimedPhases
                                           /\ meta'[t].attempt = b
      BY DEF CountsInv
    <2>1. <<q, b>> \in Keys
      BY DEF Keys
    <2>2. <<q, b>> \notin Canceled(K) /\ retryCounts[<<q, b>>] # 0
      BY <2>1, UpdatedKey
    <2>3. PICK t \in Shards : /\ meta[t].state = q /\ q \in TimedPhases
                              /\ meta[t].attempt = b
      BY <2>2 DEF TimerInv, CountsInv
    <2>4. CurrentCallback(t) \in callbacks
      BY <2>3 DEF TimerInv
    <2>5. /\ Key(CurrentCallback(t)) = <<q, b>>
          /\ CurrentCallback(t).token = tokens[<<q, b>>]
      BY <2>3 DEF CurrentCallback, Key
    <2>6. tokens[<<q, b>>] # 0
      BY <2>4, <2>5 DEF TimerInv, CallbackInv
    <2>7. t # s
      BY <2>1, <2>2, <2>3, <2>6 DEF Canceled, Phases
    <2>. QED BY <2>3, <2>7
  <1>. QED BY <1>7, <1>8, <1>10, <1>11 DEF TimerInv, RetriesAgree

(***************************************************************************)
(* A retry replaces the callback of its shard by the next one.             *)
(***************************************************************************)
LEMMA TimerRetry ==
  ASSUME TypeOK, CoordInv, TimersTypeOK, TimerInv,
         NEW c \in callbacks, RetryCallback(c)
  PROVE  TimerInv' /\ TimersTypeOK' /\ TimerFires(c.shard)
  <1>. PICK s, k, new : /\ s = c.shard /\ k = Key(c)
                        /\ new = NewCallback(c.shard, c.phase, c.attempt)
    OBVIOUS
  <1>1. /\ c \in Callback /\ s \in Shards /\ c.phase \in TimedPhases
        /\ c.phase \in Phases /\ c.attempt \in AttemptIds
        /\ k = <<c.phase, c.attempt>> /\ k \in Keys /\ tokens[k] \in Nat
        /\ c = [shard |-> s, phase |-> c.phase, attempt |-> c.attempt, token |-> c.token]
    BY CallbackType
  <1>2. /\ tokens[k] = c.token
        /\ meta[s].state = c.phase /\ meta[s].attempt = c.attempt
    BY DEF RetryCallback, Stale
  <1>3. new = [shard |-> s, phase |-> c.phase, attempt |-> c.attempt, token |-> tokens[k] + 1]
    BY <1>1 DEF NewCallback
  <1>4. /\ tokens' = [tokens EXCEPT ![k] = tokens[k] + 1]
        /\ callbacks' = (callbacks \ {c}) \cup {new}
        /\ retryCounts' = [retryCounts EXCEPT ![k] = @ + 1]
        /\ retries' = [retries EXCEPT ![s] = @ + 1]
        /\ UNCHANGED <<meta, attempts>>
    BY <1>3 DEF RetryCallback, Counted, RepeatRequest
  <1>5. /\ retryCounts[k] = retries[s] /\ retries[s] \in Nat /\ retryCounts[k] \in 0..MaxRetries
        /\ ~(retryCounts[k] >= MaxRetries)
    BY <1>1, <1>2, BoundsAssumption
       DEF RetryCallback, Exhausted, TimerInv, RetriesAgree, TimersTypeOK, TypeOK, CoordTypeOK
  <1>6. TimerFires(s)
    BY <1>1, <1>2, <1>5
       DEF TimerFires, PhaseTimeout, RetryPhase, TimerRunning, RetriesExhausted, RetryCallback
  <1>7. TimersTypeOK'
    <2>1. tokens' \in [Keys -> Nat]
      BY <1>1, <1>4 DEF TimersTypeOK
    <2>2. retryCounts' \in [Keys -> 0..MaxRetries]
      BY <1>1, <1>4, <1>5, BoundsAssumption DEF TimersTypeOK
    <2>3. callbacks' \subseteq Callback
      BY <1>1, <1>3, <1>4 DEF TimersTypeOK, Callback
    <2>4. TypeOK'
      BY <1>1, <1>6, TypeStep DEF Next
    <2>. QED BY <2>1, <2>2, <2>3, <2>4 DEF TimersTypeOK
  <1>8. ASSUME NEW d \in callbacks, d # c
        PROVE  /\ Key(d) # k
               /\ tokens'[Key(d)] = tokens[Key(d)]
    <2>1. /\ Key(d) = <<d.phase, d.attempt>> /\ Key(d) \in Keys
          /\ d = [shard |-> d.shard, phase |-> d.phase, attempt |-> d.attempt,
                  token |-> d.token]
      BY CallbackType
    <2>2. Key(d) # k
      <3>. SUFFICES ASSUME d.phase = c.phase, d.attempt = c.attempt PROVE FALSE
        BY <1>1, <2>1
      <3>1. d.shard = s
        BY <1>1, <1>2, OwnAttempt DEF TimerInv
      <3>2. tokens[k] = d.token
        BY <1>1, <1>2, <2>1, <3>1 DEF TimerInv, TokensFollowPhases
      <3>. QED BY <1>1, <1>2, <1>8, <2>1, <3>1, <3>2
    <2>. QED BY <1>1, <1>4, <2>1, <2>2 DEF TimersTypeOK
  <1>9. Key(new) = k /\ tokens'[k] = tokens[k] + 1 /\ new.shard = s
           /\ new.phase = c.phase /\ new.attempt = c.attempt /\ new.token = tokens[k] + 1
    BY <1>1, <1>3, <1>4 DEF Key, TimersTypeOK
  <1>10. \A d \in callbacks' : d = new \/ (d \in callbacks /\ d # c)
    BY <1>4
  <1>11. CallbackInv'
    <2>1. ASSUME NEW d \in callbacks, d # c
          PROVE  /\ d.attempt \in AttemptsOf(d.shard)'
                 /\ d.token \in 1..tokens'[Key(d)]
                 /\ meta'[d.shard].attempt = d.attempt
                      /\ meta'[d.shard].state = "FREEZE" => d.phase = "FREEZE"
      BY <1>4, <1>8, <2>1 DEF TimerInv, CallbackInv, AttemptsOf
    <2>2. /\ new.attempt \in AttemptsOf(new.shard)'
          /\ new.token \in 1..tokens'[Key(new)]
          /\ meta'[new.shard].attempt = new.attempt
               /\ meta'[new.shard].state = "FREEZE" => new.phase = "FREEZE"
      <3>1. c.attempt \in AttemptsOf(s)'
        BY <1>4 DEF TimerInv, CallbackInv, AttemptsOf
      <3>2. new.token \in 1..tokens'[Key(new)]
        BY <1>1, <1>9
      <3>. QED BY <1>2, <1>4, <1>9, <3>1, <3>2
    <2>. QED BY <1>10, <2>1, <2>2 DEF CallbackInv, Key
  <1>12. TokensFollowPhases'
    <2>1. ASSUME NEW d \in callbacks, d # c
          PROVE  tokens'[Key(d)] = d.token <=> /\ meta'[d.shard].state = d.phase
                                               /\ meta'[d.shard].attempt = d.attempt
      BY <1>4, <1>8, <2>1 DEF TimerInv, TokensFollowPhases
    <2>2. /\ tokens'[Key(new)] = new.token
          /\ meta'[new.shard].state = new.phase
          /\ meta'[new.shard].attempt = new.attempt
      BY <1>2, <1>4, <1>9
    <2>. QED BY <1>10, <2>1, <2>2 DEF TokensFollowPhases, Key
  <1>13. ASSUME NEW t \in Shards, meta'[t].state \in TimedPhases
         PROVE  /\ CurrentCallback(t)' \in callbacks'
                /\ retryCounts'[<<meta'[t].state, meta'[t].attempt>>] = retries'[t]
    <2>1. CASE t = s
      <3>1. CurrentCallback(t)' = new
        BY <1>1, <1>2, <1>3, <1>4, <1>9, <2>1 DEF CurrentCallback
      <3>2. retryCounts'[k] = retries'[s]
        BY <1>1, <1>4, <1>5 DEF TimersTypeOK, TypeOK, CoordTypeOK
      <3>. QED BY <1>1, <1>2, <1>4, <2>1, <3>1, <3>2
    <2>2. CASE t # s
      <3>1. meta'[t] = meta[t] /\ retries'[t] = retries[t]
        BY <1>4, <2>2 DEF TypeOK, CoordTypeOK
      <3>2. /\ CurrentCallback(t) \in callbacks /\ CurrentCallback(t).shard = t
            /\ Key(CurrentCallback(t)) = <<meta[t].state, meta[t].attempt>>
        BY <1>13, <3>1 DEF TimerInv, CurrentCallback, Key
      <3>3. CurrentCallback(t) # c
        BY <1>1, <2>2, <3>2
      <3>4. /\ <<meta[t].state, meta[t].attempt>> # k
            /\ tokens'[<<meta[t].state, meta[t].attempt>>]
                 = tokens[<<meta[t].state, meta[t].attempt>>]
        BY <1>8, <3>2, <3>3
      <3>5. <<meta[t].state, meta[t].attempt>> \in Keys
        BY <1>13, <3>1, FaultsAssumption, PhaseType
      <3>6. retryCounts'[<<meta[t].state, meta[t].attempt>>]
              = retryCounts[<<meta[t].state, meta[t].attempt>>]
        BY <1>4, <3>4, <3>5 DEF TimersTypeOK
      <3>7. CurrentCallback(t)' = CurrentCallback(t)
        BY <3>1, <3>4 DEF CurrentCallback
      <3>. QED BY <1>4, <1>13, <3>1, <3>2, <3>3, <3>6, <3>7 DEF TimerInv, RetriesAgree
    <2>. QED BY <2>1, <2>2
  <1>14. CountsInv'
    <2>. SUFFICES ASSUME NEW p \in Phases, NEW a \in AttemptIds, retryCounts'[<<p, a>>] # 0
                  PROVE  \E t \in Shards : /\ meta'[t].state = p /\ p \in TimedPhases
                                           /\ meta'[t].attempt = a
      BY DEF CountsInv
    <2>1. CASE <<p, a>> = k
      BY <1>1, <1>2, <1>4, <2>1
    <2>2. CASE <<p, a>> # k
      <3>1. retryCounts'[<<p, a>>] = retryCounts[<<p, a>>]
        BY <1>4, <2>2 DEF TimersTypeOK, Keys
      <3>. QED BY <1>4, <3>1 DEF TimerInv, CountsInv
    <2>. QED BY <2>1, <2>2
  <1>. QED BY <1>6, <1>7, <1>11, <1>12, <1>13, <1>14 DEF TimerInv, RetriesAgree

-----------------------------------------------------------------------------
(* The steps of the protocol that start or cancel timers *)

(* A new attempt starts the timer of its first phase. *)
LEMMA TimerReassign ==
  ASSUME TypeOK, CoordInv, TimersTypeOK, TimerInv,
         NEW s \in Shards, NEW new \in Servers, TimedReassign(s, new)
  PROVE  TimerInv' /\ TimersTypeOK'
  <1>. PICK a : a = NextAttempt
    OBVIOUS
  <1>1. /\ Reassign(s, new)
        /\ UpdateTimers({}, {}, Started(s, "FREEZE", a))
        /\ a \in AttemptIds
        /\ meta[s].state = "STABLE"
        /\ meta'[s].state = "FREEZE" /\ meta'[s].attempt = a /\ retries'[s] = 0
        /\ \A t \in Shards \ {s} : meta'[t] = meta[t] /\ retries'[t] = retries[t]
    BY LogDomain DEF TimedReassign, StartReassign, Reassign, ReassignAllowed, NextAttempt,
                     AttemptIds, TypeOK, CoordTypeOK, MetaRecord, StableRecord, ReassignedRecord
  <1>2. /\ DOMAIN attempts' = DOMAIN attempts \cup {a}
        /\ a \notin DOMAIN attempts
        /\ \A b \in DOMAIN attempts : attempts'[b] = attempts[b]
        /\ attempts'[a].shard = s
    <2>1. /\ DOMAIN attempts' = DOMAIN attempts \cup {NextAttempt}
          /\ NextAttempt \notin DOMAIN attempts
          /\ \A b \in DOMAIN attempts : attempts'[b] = attempts[b]
          /\ attempts'[NextAttempt] = [shard |-> s, from |-> meta[s].owner, to |-> new,
                                       epoch |-> meta[s].epoch, outcome |-> "pending"]
      BY <1>1, ReassignLog
    <2>. QED BY <2>1
  <1>3. a \in AttemptsOf(s)' /\ \A t \in Shards : AttemptsOf(t) \subseteq AttemptsOf(t)'
    BY <1>2 DEF AttemptsOf
  <1>4. \A c \in callbacks : c.attempt # a
    BY <1>2 DEF TimerInv, CallbackInv, AttemptsOf
  <1>5. ASSUME NEW t \in Shards PROVE meta[t].attempt # a
    <2>1. CASE meta[t].state = "STABLE"
      <3>1. meta[t].attempt = NoAttempt
        BY <2>1 DEF CoordInv, MetaMatchesAttempt
      <3>2. a # NoAttempt
        BY <1>1 DEF AttemptIds, NoAttempt
      <3>. QED BY <3>1, <3>2
    <2>2. CASE meta[t].state # "STABLE"
      <3>1. meta[t].attempt \in DOMAIN attempts
        BY <2>2, CurrentAttempt
      <3>. QED BY <1>2, <3>1
    <2>. QED BY <2>1, <2>2
  <1>6. \A c \in callbacks : c.attempt = a =>
            c.shard = s /\ "FREEZE" = "TRANSFER" /\ c.phase = "FREEZE"
    BY <1>4
  <1>7. \A c \in callbacks : c.shard = s /\ tokens[Key(c)] = c.token => Key(c) \in {}
    BY <1>1, CallbackType DEF TimerInv, TokensFollowPhases, Phases
  <1>8. TimerInv'
    <2>1. \A t \in Shards \ {s} : /\ meta'[t] = meta[t] /\ retries'[t] = retries[t]
                                   /\ meta[t].attempt # a
      BY <1>1, <1>5
    <2>2. /\ \A c \in callbacks : Key(c) \in {} => c.shard = s
          /\ \A q \in Phases, b \in AttemptIds : <<q, b>> \in {} =>
                q # "FREEZE" /\ b = a /\ meta[s].attempt = b
          /\ meta[s].state # "STABLE" => <<meta[s].state, meta[s].attempt>> \in {}
          /\ "FREEZE" \in Phases /\ {} \in SUBSET Keys
      BY <1>1 DEF Phases
    <2>. QED BY <1>1, <1>3, <1>6, <1>7, <2>1, <2>2, PhaseStarts
  <1>9. TypeOK'
    BY <1>1, TypeStep DEF TimedReassign, Next
  <1>10. Started(s, "FREEZE", a) \subseteq Callback
    BY <1>1, StartedType DEF Phases
  <1>. QED BY <1>1, <1>8, <1>9, <1>10, UpdateType DEF TimersTypeOK

(* A FreezeAck ends one phase and starts the next. *)
LEMMA TimerFreezeAck ==
  ASSUME TypeOK, CoordInv, TimersTypeOK, TimerInv,
         NEW m \in DOMAIN net, TimedFreezeAck(m)
  PROVE  TimerInv' /\ TimersTypeOK'
  <1>. PICK s, a, K : s = m.shard /\ a = m.attempt /\ K = {<<"FREEZE", m.attempt>>}
    OBVIOUS
  <1>1. m.type = "FreezeAck" /\ FreezeAckAccepted(m) /\ HandleFreezeAck(m)
    BY DEF TimedFreezeAck, DeliverToCoordinator, HandleTransferAck
  <1>2. /\ s \in Shards
        /\ meta[s].state = "FREEZE" /\ meta[s].attempt = a
    <2>1. m \in AckMsg
      BY <1>1, MessageKinds DEF TypeOK
    <2>. QED BY <1>1, <2>1 DEF FreezeAckAccepted, AckMsg
  <1>3. a \in AttemptIds /\ <<"FREEZE", a>> \in Keys
    BY <1>2, PhaseType
  <1>4. /\ meta' = [meta EXCEPT ![s].state = "TRANSFER"]
        /\ retries' = [retries EXCEPT ![s] = 0]
        /\ attempts' = attempts
    BY <1>1 DEF HandleFreezeAck
  <1>5. /\ meta'[s].state = "TRANSFER" /\ meta'[s].attempt = a /\ retries'[s] = 0
        /\ \A t \in Shards \ {s} : meta'[t] = meta[t] /\ retries'[t] = retries[t]
    BY <1>2, <1>4 DEF TypeOK, CoordTypeOK, MetaRecord, StableRecord, ReassignedRecord
  <1>6. UpdateTimers({}, K, Started(s, "TRANSFER", a)) /\ K \in SUBSET Keys
    BY <1>3 DEF TimedFreezeAck
  <1>7. \A t \in Shards \ {s} : meta[t].attempt # a
    <2>. SUFFICES ASSUME NEW t \in Shards, meta[t].attempt = a PROVE t = s
      OBVIOUS
    <2>1. attempts[a].shard = s /\ a # NoAttempt
      <3>1. meta[s].state # "STABLE"
        BY <1>2
      <3>2. attempts[meta[s].attempt].shard = s
        BY <1>2, <3>1, CurrentAttempt
      <3>. QED BY <1>2, <1>3, <3>2 DEF AttemptIds, NoAttempt
    <2>2. meta[t].state # "STABLE"
      BY <2>1 DEF CoordInv, MetaMatchesAttempt
    <2>3. attempts[a].shard = t
      BY <2>2, CurrentAttempt
    <2>. QED BY <2>1, <2>3
  <1>8. \A c \in callbacks : c.attempt = a => c.shard = s /\ c.phase = "FREEZE"
    <2>. SUFFICES ASSUME NEW c \in callbacks, c.attempt = a
                  PROVE  c.shard = s /\ c.phase = "FREEZE"
      OBVIOUS
    <2>1. c.shard = s
      BY <1>2, OwnAttempt DEF TimerInv
    <2>. QED BY <1>2, <2>1 DEF TimerInv, CallbackInv
  <1>9. ASSUME NEW c \in callbacks
        PROVE  /\ Key(c) \in K => c.shard = s
               /\ c.shard = s /\ tokens[Key(c)] = c.token => Key(c) \in K
    <2>1. Key(c) = <<c.phase, c.attempt>>
      BY CallbackType
    <2>2. Key(c) \in K => c.attempt = a
      BY <2>1
    <2>3. tokens[Key(c)] = c.token => meta[c.shard].state = c.phase
                                      /\ meta[c.shard].attempt = c.attempt
      BY DEF TimerInv, TokensFollowPhases
    <2>. QED BY <1>2, <1>8, <2>1, <2>2, <2>3
  <1>10. a \in AttemptsOf(s)' /\ \A t \in Shards : AttemptsOf(t) \subseteq AttemptsOf(t)'
    <2>1. a \in DOMAIN attempts /\ attempts[a].shard = s
      BY <1>2, CurrentAttempt
    <2>. QED BY <1>4, <2>1 DEF AttemptsOf
  <1>11. \A q \in Phases, b \in AttemptIds : <<q, b>> \in K =>
            q # "TRANSFER" /\ b = a /\ meta[s].attempt = b
    BY <1>2
  <1>12. <<meta[s].state, meta[s].attempt>> \in K
    BY <1>2
  <1>13. TimerInv'
    BY <1>2, <1>3, <1>5, <1>6, <1>7, <1>8, <1>9, <1>10, <1>11, <1>12, PhaseStarts DEF Phases
  <1>14. TypeOK'
    BY TypeStep DEF TimedFreezeAck, Deliver, Delivery, Next
  <1>15. Started(s, "TRANSFER", a) \subseteq Callback
    BY <1>2, <1>3, StartedType DEF Phases
  <1>. QED BY <1>6, <1>13, <1>14, <1>15, UpdateType DEF TimersTypeOK

(* The commit ends the last phase of the attempt. *)
LEMMA TimerTransferAck ==
  ASSUME TypeOK, CoordInv, TimersTypeOK, TimerInv,
         NEW m \in DOMAIN net, TimedTransferAck(m)
  PROVE  TimerInv' /\ TimersTypeOK'
  <1>. PICK s, a, S, K, ran : /\ s = m.shard /\ a = meta[m.shard].attempt
                              /\ S = {m.shard} /\ K = {<<"TRANSFER", m.attempt>>}
                              /\ ran = {}
    OBVIOUS
  <1>1. HandleTransferAck(m) /\ TransferAckAccepted(m)
    BY DEF TimedTransferAck, DeliverToCoordinator, HandleFreezeAck
  <1>2. /\ s \in Shards /\ meta[s].state = "TRANSFER" /\ m.attempt = a
        /\ DOMAIN attempts' = DOMAIN attempts
        /\ attempts'[a] = [attempts[a] EXCEPT !.outcome = "complete"]
        /\ \A b \in DOMAIN attempts : b # a => attempts'[b] = attempts[b]
        /\ meta'[s] = Committed(meta[s])
        /\ \A t \in Shards : t # s => meta'[t] = meta[t]
    BY <1>1, CommitLog
  <1>3. meta[s].state # "STABLE" /\ meta[s].attempt = a
    BY <1>2
  <1>4. a \in AttemptIds /\ <<"TRANSFER", a>> \in Keys
    BY <1>2, <1>3, PhaseType
  <1>5. /\ S \in SUBSET Shards /\ \A t \in S : meta[t].state # "STABLE"
        /\ K \in SUBSET Keys
        /\ \A t \in S : <<meta[t].state, meta[t].attempt>> \in K
        /\ \A p \in Phases, b \in AttemptIds :
              <<p, b>> \in K => \E t \in S : meta[t].attempt = b
        /\ \A c \in ran : c.shard \in S
    BY <1>2, <1>3, <1>4
  <1>6. \A t \in Shards \ S : meta'[t] = meta[t] /\ retries'[t] = retries[t]
    BY <1>1, <1>2 DEF HandleTransferAck, TypeOK, CoordTypeOK
  <1>7. \A t \in S : meta'[t].state = "STABLE"
    BY <1>2 DEF Committed
  <1>8. \A t \in Shards : AttemptsOf(t)' = AttemptsOf(t)
    <2>1. a \in DOMAIN attempts /\ attempts[a] \in AttemptRecord
      BY <1>2, <1>3, CurrentAttempt, LogDomain
    <2>2. attempts'[a].shard = attempts[a].shard
      BY <1>2, <2>1 DEF AttemptRecord
    <2>3. \A b \in DOMAIN attempts : attempts'[b].shard = attempts[b].shard
      BY <1>2, <2>2
    <2>. QED BY <1>2, <2>3 DEF AttemptsOf
  <1>9. UpdateTimers(ran, K, {})
    BY DEF TimedTransferAck
  <1>10. TimerInv'
    BY <1>5, <1>6, <1>7, <1>8, <1>9, PhaseEnds
  <1>11. TypeOK'
    BY TypeStep DEF TimedTransferAck, Deliver, Delivery, Next
  <1>. QED BY <1>9, <1>10, <1>11, UpdateType DEF TimersTypeOK

(* An abort cancels every timer of its attempts. *)
LEMMA TimerAborts ==
  ASSUME TypeOK, CoordInv, TimersTypeOK, TimerInv, TypeOK',
         NEW S \in SUBSET Shards, \A s \in S : meta[s].state # "STABLE",
         NEW ran, \A c \in ran : c.shard \in S,
         AbortReconfigurations(S), UpdateTimers(ran, KeysOf(S), {})
  PROVE  TimerInv' /\ TimersTypeOK'
  <1>. PICK K : K = KeysOf(S)
    OBVIOUS
  <1>1. /\ K \in SUBSET Keys
        /\ \A s \in S : <<meta[s].state, meta[s].attempt>> \in K
        /\ \A p \in Phases, a \in AttemptIds :
              <<p, a>> \in K => \E s \in S : meta[s].attempt = a
        /\ UpdateTimers(ran, K, {})
    BY PhaseType DEF KeysOf
  <1>2. /\ DOMAIN attempts' = DOMAIN attempts
        /\ \A a \in DOMAIN attempts :
              attempts'[a] = IF attempts[a].shard \in S /\ ~Decided(a)
                             THEN [attempts[a] EXCEPT !.outcome = "abort"]
                             ELSE attempts[a]
        /\ \A s \in Shards : meta'[s] = IF s \in S THEN Aborted(meta[s]) ELSE meta[s]
    BY AbortLog
  <1>3. /\ \A s \in S : meta'[s].state = "STABLE"
        /\ \A s \in Shards \ S : meta'[s] = meta[s] /\ retries'[s] = retries[s]
    BY <1>2 DEF Aborted, AbortReconfigurations
  <1>4. \A a \in DOMAIN attempts : attempts'[a].shard = attempts[a].shard
    BY <1>2, LogDomain DEF AttemptRecord
  <1>5. \A s \in Shards : AttemptsOf(s)' = AttemptsOf(s)
    BY <1>2, <1>4 DEF AttemptsOf
  <1>6. TimerInv'
    BY <1>1, <1>3, <1>5, PhaseEnds
  <1>. QED BY <1>6, UpdateType DEF TimersTypeOK

(* A callback aborts only when the timer of Coordinator would. *)
LEMMA TimerAbort ==
  ASSUME TypeOK, CoordInv, TimersTypeOK, TimerInv,
         NEW c \in callbacks, AbortCallback(c)
  PROVE  TimerInv' /\ TimersTypeOK' /\ TimerFires(c.shard)
  <1>1. /\ c.shard \in Shards /\ c.phase \in TimedPhases /\ Key(c) = <<c.phase, c.attempt>>
    BY CallbackType
  <1>2. /\ meta[c.shard].state = c.phase /\ meta[c.shard].attempt = c.attempt
        /\ retryCounts[Key(c)] >= MaxRetries
        /\ AbortReconfigurations({c.shard})
        /\ UpdateTimers({c}, KeysOf({c.shard}), {})
        /\ UNCHANGED <<serverVars, alive, recoveries>>
    BY DEF AbortCallback, Stale, Exhausted
  <1>3. retries[c.shard] >= MaxRetries
    BY <1>1, <1>2 DEF TimerInv, RetriesAgree
  <1>4. TimerFires(c.shard)
    BY <1>1, <1>2, <1>3
       DEF TimerFires, PhaseTimeout, AbortAfterTimeouts, TimerRunning, RetriesExhausted
  <1>5. TypeOK'
    BY <1>1, <1>4, TypeStep DEF Next
  <1>6. meta[c.shard].state # "STABLE"
    BY <1>1, <1>2, FaultsAssumption
  <1>. QED BY <1>1, <1>2, <1>4, <1>5, <1>6, TimerAborts

(* The timers of the reassignments that a crash aborts are cancelled. *)
LEMMA TimerCrash ==
  ASSUME TypeOK, CoordInv, TimersTypeOK, TimerInv,
         NEW n \in CrashNodes, TimedCrash(n)
  PROVE  TimerInv' /\ TimersTypeOK'
  <1>. PICK S : S = {s \in Shards : meta[s].state # "STABLE" /\ Participates(n, s)}
    OBVIOUS
  <1>1. /\ S \in SUBSET Shards /\ \A s \in S : meta[s].state # "STABLE"
        /\ AbortReconfigurations(S) /\ UpdateTimers({}, KeysOf(S), {})
    BY DEF TimedCrash, CrashNode, OnNodeCrash
  <1>2. TypeOK'
    BY TypeStep DEF TimedCrash, Next
  <1>. QED BY <1>1, <1>2, TimerAborts

-----------------------------------------------------------------------------
(* The steps that leave every timer alone *)

(* A stale callback runs to no effect. *)
LEMMA TimerStale ==
  ASSUME TypeOK, CoordInv, TimersTypeOK, TimerInv,
         NEW c \in callbacks, StaleCallback(c)
  PROVE  TimerInv' /\ TimersTypeOK' /\ UNCHANGED vars
  <1>1. Stale(c) /\ UpdateTimers({c}, {}, {}) /\ UNCHANGED vars
    BY DEF StaleCallback
  <1>2. callbacks' = callbacks \ {c}
    BY <1>1 DEF UpdateTimers
  <1>3. tokens' = tokens /\ retryCounts' = retryCounts
    BY <1>1 DEF UpdateTimers, Canceled, TimersTypeOK
  <1>4. TimerInv'
    BY <1>1, <1>2, <1>3, TimerFrame DEF vars
  <1>5. TypeOK'
    BY <1>1, TypeStep
  <1>. QED BY <1>1, <1>2, <1>3, <1>4, <1>5 DEF TimersTypeOK

(* So does a message that no phase waits for. *)
LEMMA TimerUntouched ==
  ASSUME TypeOK, CoordInv, TimersTypeOK, TimerInv,
         [Next]_vars, UNCHANGED timerVars, UNCHANGED coordVars
  PROVE  TimerInv' /\ TimersTypeOK'
  <1>1. TimerInv'
    BY TimerFrame DEF timerVars
  <1>2. TypeOK'
    BY TypeStep
  <1>. QED BY <1>1, <1>2 DEF TimersTypeOK, timerVars

-----------------------------------------------------------------------------
(* The timers of the code implement those of Coordinator *)

LEMMA TimersStart == TimersInit => TimersTypeOK /\ TimerInv
  <1>. SUFFICES ASSUME TimersInit PROVE TimersTypeOK /\ TimerInv
    OBVIOUS
  <1>1. TypeOK
    BY TypeInit DEF TimersInit
  <1>2. TimersTypeOK
    BY <1>1, BoundsAssumption DEF TimersInit, TimersTypeOK
  <1>3. \A s \in Shards : meta[s].state = "STABLE"
    BY DEF TimersInit, Init, CoordInit
  <1>4. \A s \in Shards : meta[s].state \notin TimedPhases
    BY <1>3, FaultsAssumption
  <1>5. CallbackInv /\ TokensFollowPhases
    BY DEF TimersInit, CallbackInv, TokensFollowPhases
  <1>6. RetriesAgree
    BY <1>4 DEF RetriesAgree
  <1>7. CountsInv
    BY DEF TimersInit, CountsInv, Keys
  <1>. QED BY <1>2, <1>4, <1>5, <1>6, <1>7 DEF TimerInv

(* Every step keeps the timers in order and is one of the protocol. *)
LEMMA TimersStep ==
  ASSUME TypeOK, CoordInv, TimersTypeOK, TimerInv, [TimersNext]_<<vars, timerVars>>
  PROVE  TimersTypeOK' /\ TimerInv' /\ [Next]_vars
  <1>1. CASE UNCHANGED <<vars, timerVars>>
    BY <1>1, TimerUntouched DEF vars
  <1>2. ASSUME NEW m \in DOMAIN net, TimedFreezeAck(m)
        PROVE  TimersTypeOK' /\ TimerInv' /\ [Next]_vars
    BY <1>2, TimerFreezeAck DEF TimedFreezeAck, Deliver, Delivery, Next
  <1>3. ASSUME NEW m \in DOMAIN net, TimedTransferAck(m)
        PROVE  TimersTypeOK' /\ TimerInv' /\ [Next]_vars
    BY <1>3, TimerTransferAck DEF TimedTransferAck, Deliver, Delivery, Next
  <1>4. ASSUME NEW m \in DOMAIN net, Deliver(m), UNCHANGED timerVars,
               ~(m.type = "FreezeAck" /\ FreezeAckAccepted(m)),
               ~(m.type = "TransferAck" /\ TransferAckAccepted(m))
        PROVE  TimersTypeOK' /\ TimerInv' /\ [Next]_vars
    <2>1. [Next]_vars
      BY <1>4 DEF Delivery, Next
    <2>2. UNCHANGED coordVars
      BY <1>4 DEF Deliver, DeliverToCoordinator, DeliverToServer, DeliverToDeadNode,
                  HandleFreezeAck, HandleTransferAck, coordVars
    <2>. QED BY <1>4, <2>1, <2>2, TimerUntouched
  <1>5. ASSUME NEW s \in Shards, RunTimerOf(s)
        PROVE  TimersTypeOK' /\ TimerInv' /\ [Next]_vars
    <2>1. PICK c \in callbacks : c.shard = s /\ RunCallback(c)
      BY <1>5 DEF RunTimerOf
    <2>2. CASE StaleCallback(c)
      BY <2>2, TimerStale
    <2>3. CASE RetryCallback(c)
      BY <1>5, <2>1, <2>3, TimerRetry DEF Next
    <2>4. CASE AbortCallback(c)
      BY <1>5, <2>1, <2>4, TimerAbort DEF Next
    <2>. QED BY <2>1, <2>2, <2>3, <2>4 DEF RunCallback
  <1>6. ASSUME NEW s \in Shards, NEW new \in Servers, TimedReassign(s, new)
        PROVE  TimersTypeOK' /\ TimerInv' /\ [Next]_vars
    BY <1>6, TimerReassign DEF TimedReassign, Next
  <1>7. ASSUME NEW n \in CrashNodes, TimedCrash(n)
        PROVE  TimersTypeOK' /\ TimerInv' /\ [Next]_vars
    BY <1>7, TimerCrash DEF TimedCrash, Next
  <1>8. ASSUME NEW n \in CrashNodes, RecoverNode(n), UNCHANGED timerVars
        PROVE  TimersTypeOK' /\ TimerInv' /\ [Next]_vars
    <2>1. [Next]_vars /\ UNCHANGED coordVars
      BY <1>8 DEF Next, RecoverNode, OnNodeRecover
    <2>. QED BY <1>8, <2>1, TimerUntouched
  <1>9. ASSUME NEW n \in Servers, NEW s \in Shards, NEW e \in RequestEpochs, NEW v \in Values,
               ClientWrite(n, s, e, v), UNCHANGED timerVars
        PROVE  TimersTypeOK' /\ TimerInv' /\ [Next]_vars
    <2>1. [Next]_vars /\ UNCHANGED coordVars
      BY <1>9 DEF Next, ClientWrite
    <2>. QED BY <1>9, <2>1, TimerUntouched
  <1>. QED
    BY <1>1, <1>2, <1>3, <1>4, <1>5, <1>6, <1>7, <1>8, <1>9 DEF TimersNext, TimedDelivery

(* The invariant of the timers, with those of the protocol they rest on: a *)
(* callback never has a token from the future, and the one of the current  *)
(* phase is queued.                                                        *)
THEOREM TimersInvariant == TimersSpec => [](TypeOK /\ CoordInv /\ TimersTypeOK /\ TimerInv)
  <1>1. TimersInit => TypeOK /\ CoordInv /\ TimersTypeOK /\ TimerInv
    BY TimersStart, TypeInit, CoordInvInit DEF TimersInit
  <1>2. TypeOK /\ CoordInv /\ TimersTypeOK /\ TimerInv /\ [TimersNext]_<<vars, timerVars>>
           => (TypeOK /\ CoordInv /\ TimersTypeOK /\ TimerInv)'
    BY TimersStep, TypeStep, CoordStep
  <1>. QED BY <1>1, <1>2, PTL DEF TimersSpec

(* Every behaviour of the timers of the code is one of the protocol with   *)
(* the abstract timers: a callback acts only for the current phase and     *)
(* attempt and within its retries, whichever callbacks are still queued.   *)
THEOREM TimersImplement == TimersSpec => Spec
  <1>1. TimersInit => Init
    BY DEF TimersInit
  <1>2. TypeOK /\ CoordInv /\ TimersTypeOK /\ TimerInv /\ [TimersNext]_<<vars, timerVars>>
           => [Next]_vars
    BY TimersStep
  <1>. QED BY <1>1, <1>2, TimersInvariant, PTL DEF TimersSpec, Spec

(* Types of the timers. *)
THEOREM TimersTypeCorrect == TimersSpec => []TimersTypeOK
  BY TimersInvariant, PTL

(* A callback is cancelled exactly when its phase or its attempt is over.  *)
THEOREM TokensFollow == TimersSpec => []TokensFollowPhases
  <1>1. TimerInv => TokensFollowPhases
    BY DEF TimerInv
  <1>. QED BY <1>1, TimersInvariant, PTL

(* Restarts keep the retry count of a phase, a new phase starts from none. *)
THEOREM CountsFollow == TimersSpec => []RetriesAgree
  <1>1. TimerInv => RetriesAgree
    BY DEF TimerInv
  <1>. QED BY <1>1, TimersInvariant, PTL

(* A phase with a timeout always has one callback that will act, never two.*)
THEOREM OneTimer == TimersSpec => []OneTimerPerPhase
  <1>1. TimersTypeOK /\ TimerInv => OneTimerPerPhase
    <2>. SUFFICES ASSUME TimersTypeOK, TimerInv,
                         NEW s \in Shards, meta[s].state \in TimedPhases
                  PROVE  \E c \in Armed(s) : Armed(s) = {c}
      BY DEF OneTimerPerPhase
    <2>. PICK current : current = CurrentCallback(s)
      OBVIOUS
    <2>1. current \in callbacks
      BY DEF TimerInv
    <2>2. current \in Armed(s)
      BY <2>1 DEF Armed, Stale, CurrentCallback, Key
    <2>3. ASSUME NEW c \in Armed(s) PROVE c = current
      <3>1. /\ c \in callbacks /\ c.shard = s /\ tokens[Key(c)] = c.token
            /\ meta[s].state = c.phase /\ meta[s].attempt = c.attempt
        BY DEF Armed, Stale
      <3>2. /\ Key(c) = <<c.phase, c.attempt>>
            /\ c = [shard |-> c.shard, phase |-> c.phase, attempt |-> c.attempt,
                    token |-> c.token]
        BY <3>1, CallbackType
      <3>. QED BY <3>1, <3>2 DEF CurrentCallback
    <2>. QED BY <2>2, <2>3
  <1>. QED BY <1>1, TimersInvariant, PTL

(* With controlled faults the timers of the code implement the abstract    *)
(* specification of ownership: what it promises holds with them too.       *)
THEOREM TimersOwnership ==
  ASSUME ControlledFaults
  PROVE  TimersSpec => ImplementsOwnership
  BY TimersImplement, Refinement, PTL
=============================================================================
