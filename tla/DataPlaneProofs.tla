--------------------------- MODULE DataPlaneProofs ---------------------------
(***************************************************************************)
(* The data plane, for every number of clients, servers, shards, requests  *)
(* and retries, and every size of the reply cache.                         *)
(***************************************************************************)
EXTENDS DataPlane, NetProofs, SequenceTheorems

-----------------------------------------------------------------------------
(* Type correctness *)

(* Routing names a server or nobody. *)
LEMMA RouteType ==
  ASSUME NEW table \in [Shards -> Servers \cup {NoRoute}], NEW s \in Shards,
         RouteIn(table, s) # NoRoute
  PROVE  RouteIn(table, s) \in Servers
  BY ClientAssumption DEF RouteIn

(* A pending request makes a well-formed message. *)
LEMMA MessageType ==
  ASSUME NEW c \in Clients, NEW r \in PendingRequest
  PROVE  RequestMessage(c, r) \in ClientRequest
  BY DEF RequestMessage, PendingRequest, ClientRequest, WellFormed

(* So does one that is tried again, perhaps at another server. *)
LEMMA RetriedType ==
  ASSUME NEW r \in PendingRequest, r.retries < MaxRetries,
         NEW table \in [Shards -> Servers \cup {NoRoute}]
  PROVE  /\ Retried(r, table) \in PendingRequest
         /\ Retried(r, table).seq = r.seq
  <1>1. RouteIn(table, r.shard) # NoRoute => RouteIn(table, r.shard) \in Servers
    BY RouteType DEF PendingRequest
  <1>. PICK n \in Servers :
          n = IF RouteIn(table, r.shard) # NoRoute
              THEN RouteIn(table, r.shard) ELSE r.target
    BY <1>1 DEF PendingRequest
  <1>2. Retried(r, table) = [r EXCEPT !.retries = @ + 1, !.target = n]
    BY DEF Retried
  <1>3. r.retries + 1 \in 0..MaxRetries
    BY ClientAssumption DEF PendingRequest
  <1>. QED BY <1>2, <1>3 DEF PendingRequest, WellFormed

(* A step of the transfer keeps the registers well typed. *)
LEMMA TransferType ==
  ASSUME ServerTypeOK, NEW s \in Shards, Transfer(s)
  PROVE  ServerTypeOK'
  <1>1. cacheVars' = cacheVars
    BY DEF Transfer
  <1>2. CASE (Own!Suspend(s) \/ \E n \in Servers : Own!Move(s, n)) /\ UNCHANGED epoch
    BY <1>1, <1>2 DEF Own!Suspend, Own!Move, ServerTypeOK, cacheVars
  <1>3. CASE Own!Resume(s) /\ \E e \in Epochs : epoch' = [epoch EXCEPT ![s] = e]
    BY <1>1, <1>3 DEF Own!Resume, ServerTypeOK, cacheVars
  <1>. QED BY <1>2, <1>3 DEF Transfer

(* Executing a request writes only values. *)
LEMMA ApplyType ==
  ASSUME ServerTypeOK, NEW n, NEW s \in Shards, NEW e, NEW op, NEW v,
         op = "PUT" => v \in Values, Apply(n, s, e, op, v)
  PROVE  /\ owner' = owner /\ serving' = serving
         /\ contents' \in [Shards -> Values]
  <1>1. CASE Writes(n, s, e, op)
    BY <1>1 DEF Apply, Writes, Own!Put, ServerTypeOK
  <1>2. CASE ~Writes(n, s, e, op)
    BY <1>2 DEF Apply, ServerTypeOK
  <1>. QED BY <1>1, <1>2

(* An answer is a reply that can be cached. *)
LEMMA AnswerType ==
  ASSUME ServerTypeOK, NEW n, NEW s \in Shards, NEW e, NEW op
  PROVE  /\ Answer(n, s, e, op) \in CachedReply
         /\ Answer(n, s, e, op) # NoReply
         /\ Answer(n, s, e, op).status = "ok" <=> op # "OTHER" /\ Serves(n, s, e)
  BY DEF Answer, CachedReply, Answers, ServerTypeOK, NoReply

(* The three branches of the reply cache keep it well typed. *)
LEMMA RememberType ==
  ASSUME ServerTypeOK, NEW n \in Servers, NEW k \in RequestIds,
         NEW reply \in CachedReply, Remember(n, k, reply)
  PROVE  /\ cache' \in [Servers -> [RequestIds -> CachedReply \cup {NoReply}]]
         /\ cacheOrder' \in [Servers -> Seq(RequestIds)]
         /\ evicted' \in [Servers -> SUBSET RequestIds]
  <1>. DEFINE order == Append(cacheOrder[n], k)
  <1>0. /\ order \in Seq(RequestIds) /\ order # <<>>
        /\ Head(order) \in RequestIds /\ Tail(order) \in Seq(RequestIds)
    <2>1. cacheOrder[n] \in Seq(RequestIds)
      BY DEF ServerTypeOK
    <2>2. order \in Seq(RequestIds) /\ order # <<>>
      BY <2>1, AppendProperties
    <2>. QED BY <2>2, HeadTailProperties
  <1>1. CASE cache[n][k] # NoReply /\ UNCHANGED <<cache, cacheOrder, evicted>>
    BY <1>1 DEF ServerTypeOK
  <1>2. CASE /\ cacheOrder' = [cacheOrder EXCEPT ![n] = order]
             /\ cache' = [cache EXCEPT ![n] = [cache[n] EXCEPT ![k] = reply]]
             /\ UNCHANGED evicted
    BY <1>0, <1>2 DEF ServerTypeOK
  <1>3. CASE /\ cacheOrder' = [cacheOrder EXCEPT ![n] = Tail(order)]
             /\ cache' = [cache EXCEPT ![n] = [[cache[n] EXCEPT ![k] = reply]
                                                 EXCEPT ![Head(order)] = NoReply]]
             /\ evicted' = [evicted EXCEPT ![n] = @ \cup {Head(order)}]
    <2>1. cacheOrder' \in [Servers -> Seq(RequestIds)]
      BY <1>0, <1>3 DEF ServerTypeOK
    <2>2. evicted' \in [Servers -> SUBSET RequestIds]
      BY <1>0, <1>3 DEF ServerTypeOK
    <2>3. [[cache[n] EXCEPT ![k] = reply] EXCEPT ![Head(order)] = NoReply]
            \in [RequestIds -> CachedReply \cup {NoReply}]
      BY <1>0 DEF ServerTypeOK
    <2>. QED BY <1>3, <2>1, <2>2, <2>3 DEF ServerTypeOK
  <1>. QED BY <1>1, <1>2, <1>3 DEF Remember

(* A caller with a request id leaves the state well formed. *)
LEMMA CallerType ==
  ASSUME TypeOK, NEW n \in Servers, NEW k \in RequestIds, CallerRequest(n, k)
  PROVE  TypeOK'
  <1>. PICK s \in Shards, e \in Epochs, body \in Gets \cup Puts \cup Unknown :
          IdentifiedRequest(n, k, s, e, body)
    BY DEF CallerRequest
  <1>1. CASE CachedRequest(n, k)
    BY <1>1 DEF CallerRequest, CachedRequest, TypeOK, ClientTypeOK, ServerTypeOK,
                clientVars, shardVars, cacheVars
  <1>2. CASE NewRequest(n, k, s, e, body)
    <2>1. body.op = "PUT" => body.value \in Values
      BY DEF Gets, Puts, Unknown
    <2>2. /\ owner' = owner /\ serving' = serving /\ epoch' = epoch
          /\ contents' \in [Shards -> Values]
      BY <1>2, <2>1, ApplyType DEF NewRequest, TypeOK
    <2>3. /\ cache' \in [Servers -> [RequestIds -> CachedReply \cup {NoReply}]]
          /\ cacheOrder' \in [Servers -> Seq(RequestIds)]
          /\ evicted' \in [Servers -> SUBSET RequestIds]
      BY <1>2, AnswerType, RememberType DEF NewRequest, TypeOK
    <2>4. runs' \in [Servers -> [RequestIds -> 0..2]]
      BY <1>2 DEF NewRequest, Incremented, TypeOK, ServerTypeOK
    <2>5. issued' \in 0..MaxRequests
      BY <1>2, RequestAssumption DEF NewRequest, Issue, TypeOK, ClientTypeOK
    <2>6. net' = net /\ UNCHANGED clientVars
      BY <1>2 DEF NewRequest, CallerRequest
    <2>. QED BY <2>2, <2>3, <2>4, <2>5, <2>6
             DEF TypeOK, ClientTypeOK, ServerTypeOK, clientVars
  <1>. QED BY <1>1, <1>2 DEF IdentifiedRequest

(* So does what the user of a client does. *)
LEMMA UserType ==
  ASSUME TypeOK, NEW c \in Clients, UserAction(c)
  PROVE  TypeOK'
  <1>1. ASSUME NEW s \in Shards, NEW n \in Servers, SetShardOwner(c, s, n)
        PROVE  TypeOK'
    <2>1. routes' \in [Clients -> [Shards -> Servers \cup {NoRoute}]]
      BY <1>1 DEF SetShardOwner, TypeOK, ClientTypeOK
    <2>. QED BY <1>1, <2>1 DEF SetShardOwner, UserAction, TypeOK, ClientTypeOK,
                               ServerTypeOK, shardVars, cacheVars
  <1>2. ASSUME NEW s \in Shards, NEW e \in Epochs, NEW body \in Gets \cup Puts,
               StartRequest(c, s, e, body)
        PROVE  TypeOK'
    <2>. DEFINE r == [seq |-> issued + 1, shard |-> s, epoch |-> e, op |-> body.op,
                      value |-> body.value, target |-> RouteIn(routes[c], s),
                      retries |-> 0]
    <2>1. issued + 1 \in RequestNumbers /\ issued' \in 0..MaxRequests
      BY <1>2, RequestAssumption
         DEF StartRequest, Issue, TypeOK, ClientTypeOK, RequestNumbers
    <2>2. RouteIn(routes[c], s) \in Servers
      BY <1>2, RouteType DEF StartRequest, TypeOK, ClientTypeOK
    <2>3. r \in PendingRequest
      BY <2>1, <2>2, RequestAssumption, ClientAssumption
         DEF PendingRequest, WellFormed, Gets, Puts, Answers
    <2>4. RequestMessage(c, r) \in ClientRequest
      BY <2>3, MessageType
    <2>5. Send({RequestMessage(c, r)})
      BY <1>2 DEF StartRequest
    <2>6. request' = [request EXCEPT ![c] = r]
      BY <1>2 DEF StartRequest
    <2>. HIDE DEF r
    <2>7. IsABag(net') /\ DOMAIN net' \subseteq ClientRequest \cup ClientReply
      BY <2>4, <2>5, SendAdds, SendBag DEF TypeOK
    <2>8. request' \in [Clients -> PendingRequest \cup {NoRequest}]
      BY <2>3, <2>6 DEF TypeOK, ClientTypeOK
    <2>. QED BY <1>2, <2>1, <2>7, <2>8 DEF StartRequest, UserAction, TypeOK,
                ClientTypeOK, ServerTypeOK, shardVars, cacheVars
  <1>. QED BY <1>1, <1>2 DEF UserAction

(* So does a resend. *)
LEMMA ResendType ==
  ASSUME TypeOK, NEW c \in Clients, RunResend(c)
  PROVE  TypeOK'
  <1>1. resends' \in [Clients -> Nat]
    BY DEF RunResend, ResendPending, TypeOK, ClientTypeOK
  <1>2. IsABag(net') /\ DOMAIN net' \subseteq ClientRequest \cup ClientReply
    <2>1. CASE request[c] = NoRequest
      BY <2>1 DEF RunResend, ResendPending, TypeOK
    <2>2. CASE request[c] # NoRequest
      <3>1. RequestMessage(c, request[c]) \in ClientRequest
        BY <2>2, MessageType DEF TypeOK, ClientTypeOK
      <3>2. Send({RequestMessage(c, request[c])})
        BY <2>2 DEF RunResend, ResendPending
      <3>. QED BY <3>1, <3>2, SendAdds, SendBag DEF TypeOK
    <2>. QED BY <2>1, <2>2
  <1>. QED BY <1>1, <1>2 DEF RunResend, ResendPending, TypeOK, ClientTypeOK,
                             ServerTypeOK, shardVars, cacheVars

(* The fields of a message that a server or a client handles. *)
LEMMA RequestFields ==
  ASSUME TypeOK, NEW m \in DOMAIN net, m.type = "ClientRequest"
  PROVE  /\ m \in ClientRequest
         /\ m.src \in Clients /\ m.dst \in Servers
         /\ m.shard \in Shards /\ m.epoch \in Epochs
         /\ m.op \in {"GET", "PUT"}
         /\ m.op = "PUT" => m.value \in Values
         /\ m.seq \in RequestNumbers
  BY DEF TypeOK, ClientRequest, ClientReply, WellFormed

(* The fields of a reply in flight. *)
LEMMA ReplyFields ==
  ASSUME TypeOK, NEW m \in DOMAIN net, m.type = "ClientReply"
  PROVE  /\ m \in ClientReply
         /\ m.src \in Servers /\ m.dst \in Clients
         /\ m.success \in BOOLEAN
         /\ m.value \in Answers
         /\ m.seq \in RequestNumbers
  BY DEF TypeOK, ClientRequest, ClientReply

(* A server that handles a request leaves the state well formed. *)
LEMMA ServeType ==
  ASSUME TypeOK, NEW m \in DOMAIN net, HandleClientRequest(m)
  PROVE  TypeOK'
  <1>. DEFINE answer == Answer(m.dst, m.shard, m.epoch, m.op)
  <1>1. m.type = "ClientRequest"
    BY DEF HandleClientRequest
  <1>2. answer \in CachedReply
    BY <1>1, RequestFields, AnswerType DEF TypeOK
  <1>3. ReplyTo(m, answer) \in ClientReply
    BY <1>1, <1>2, RequestFields DEF ReplyTo, ClientReply, CachedReply
  <1>4. Receive(m, {ReplyTo(m, answer)})
    BY DEF HandleClientRequest
  <1>5. IsABag(net') /\ DOMAIN net' \subseteq ClientRequest \cup ClientReply
    BY <1>3, <1>4, ReceiveAdds, ReceiveBag DEF TypeOK
  <1>6. log' \in [RequestNumbers -> Outcome]
    <2>1. PICK o \in Outcome : o = log[m.seq]
      BY <1>1, RequestFields DEF TypeOK, ClientTypeOK
    <2>2. [o EXCEPT !.executed = Incremented(@), !.result = answer.value] \in Outcome
      <3>. DEFINE i == Incremented(o.executed)
                  v == answer.value
      <3>1. i \in 0..2 /\ v \in Answers
        BY <1>2 DEF Incremented, CachedReply
      <3>. HIDE DEF i, v
      <3>2. [o EXCEPT !.executed = i, !.result = v] \in Outcome
        BY <3>1, <2>1 DEF Outcome
      <3>. QED BY <3>2 DEF i, v
    <2>3. \/ log' = log
          \/ log' = [log EXCEPT ![m.seq] = [o EXCEPT !.executed = Incremented(@),
                                                    !.result = answer.value]]
      BY <2>1 DEF HandleClientRequest
    <2>. QED BY <2>2, <2>3 DEF TypeOK, ClientTypeOK
  <1>7. /\ owner' = owner /\ serving' = serving
        /\ contents' \in [Shards -> Values]
    BY <1>1, RequestFields, ApplyType DEF HandleClientRequest, TypeOK
  <1>. QED BY <1>5, <1>6, <1>7
           DEF HandleClientRequest, TypeOK, ClientTypeOK, ServerTypeOK, cacheVars

(* So does a client that handles a reply. *)
LEMMA ReplyType ==
  ASSUME TypeOK, NEW m \in DOMAIN net, HandleClientReply(m)
  PROVE  TypeOK'
  <1>. DEFINE c == m.dst
  <1>1. m.type = "ClientReply"
    BY DEF HandleClientReply
  <1>2. c \in Clients /\ m.value \in Answers
    BY <1>1, ReplyFields
  <1>3. ServerTypeOK'
    BY DEF HandleClientReply, TypeOK, ServerTypeOK, shardVars, cacheVars
  <1>4. ASSUME Receive(m, {})
        PROVE  IsABag(net') /\ DOMAIN net' \subseteq ClientRequest \cup ClientReply
    BY <1>4, ReceiveAdds, ReceiveBag DEF TypeOK
  <1>5. CASE IgnoreReply(m)
    BY <1>3, <1>4, <1>5 DEF IgnoreReply, TypeOK, ClientTypeOK, clientVars
  <1>6. ASSUME NEW verdict \in {"ok", "failed"}, Expected(m), Conclude(m, verdict)
        PROVE  TypeOK'
    <2>1. request' \in [Clients -> PendingRequest \cup {NoRequest}]
      BY <1>2, <1>6 DEF Conclude, TypeOK, ClientTypeOK
    <2>2. request[c].seq \in RequestNumbers
      BY <1>2, <1>6 DEF Expected, TypeOK, ClientTypeOK, PendingRequest
    <2>3. log' \in [RequestNumbers -> Outcome]
      <3>1. PICK o \in Outcome : o = log[request[c].seq]
        BY <2>2 DEF TypeOK, ClientTypeOK
      <3>2. [o EXCEPT !.verdict = verdict, !.answer = m.value] \in Outcome
        BY <1>2, <3>1 DEF Outcome
      <3>3. log' = [log EXCEPT ![request[c].seq] =
                      [o EXCEPT !.verdict = verdict, !.answer = m.value]]
        BY <1>6, <3>1 DEF Conclude
      <3>. QED BY <3>2, <3>3 DEF TypeOK, ClientTypeOK
    <2>. QED BY <1>3, <1>4, <1>6, <2>1, <2>3 DEF Conclude, TypeOK, ClientTypeOK
  <1>7. CASE RetryRequest(m)
    <2>. DEFINE r     == request[c]
                table == [routes[c] EXCEPT ![r.shard] = NoRoute]
    <2>1. r \in PendingRequest /\ r.retries < MaxRetries
      BY <1>2, <1>7 DEF RetryRequest, Expected, MayRetry, TypeOK, ClientTypeOK
    <2>2. table \in [Shards -> Servers \cup {NoRoute}]
      BY <1>2 DEF TypeOK, ClientTypeOK
    <2>3. Retried(r, table) \in PendingRequest
      BY <2>1, <2>2, RetriedType
    <2>4. /\ routes' = [routes EXCEPT ![c] = table]
          /\ request' = [request EXCEPT ![c] = Retried(r, table)]
          /\ resends' = [resends EXCEPT ![c] = Scheduled(c)]
      BY <1>7 DEF RetryRequest
    <2>5. ClientTypeOK'
      BY <1>2, <1>7, <2>2, <2>3, <2>4
         DEF RetryRequest, Scheduled, TypeOK, ClientTypeOK
    <2>. QED BY <1>3, <1>4, <1>7, <2>5 DEF RetryRequest, TypeOK
  <1>. QED
    BY <1>5, <1>6, <1>7
       DEF HandleClientReply, ClientOnMessage, RequestSuccess, RequestFailed

(* The state is well formed initially. *)
LEMMA TypeInit == Init => TypeOK
  <1>. SUFFICES ASSUME Init PROVE TypeOK
    OBVIOUS
  <1>1. IsABag(net) /\ DOMAIN net = {}
    BY DEF Init, NetInit, EmptyBag, SetToBag, IsABag
  <1>2. ClientTypeOK
    BY RequestAssumption DEF Init, ClientInit, ClientTypeOK, Outcome, OpenOutcome, Answers
  <1>3. ServerTypeOK
    BY DEF Init, ServerInit, Own!Init, ServerTypeOK
  <1>. QED BY <1>1, <1>2, <1>3 DEF TypeOK

(* Every step keeps it well formed. *)
LEMMA TypeStep == TypeOK /\ [Next]_vars => TypeOK'
  <1>. SUFFICES ASSUME TypeOK, [Next]_vars PROVE TypeOK'
    OBVIOUS
  <1>1. CASE UNCHANGED vars
    BY <1>1 DEF vars, TypeOK, ClientTypeOK, ServerTypeOK, clientVars, shardVars, cacheVars
  <1>2. ASSUME NEW s \in Shards, Transfer(s), UNCHANGED clientVars
        PROVE  TypeOK'
    BY <1>2, TransferType DEF Transfer, TypeOK, ClientTypeOK, clientVars
  <1>3. ASSUME NEW c \in Clients, DeliverFor(c)
        PROVE  TypeOK'
    BY <1>3, ServeType, ReplyType DEF DeliverFor
  <1>. QED BY <1>1, <1>2, <1>3, ResendType, UserType, CallerType DEF Next

(* Type correctness, with the fact that a PUT, in flight or pending,       *)
(* always names a value, so that no server stores None for it.             *)
THEOREM DataPlaneTypeCorrect == Spec => []TypeOK
  BY TypeInit, TypeStep, PTL DEF Spec

-----------------------------------------------------------------------------
(* The reply cache *)

(* Appending a new element keeps an order without repetitions. *)
LEMMA AppendNew ==
  ASSUME NEW S, NEW s \in Seq(S), NEW k \in S, k \notin ToSet(s), IsInjective(s)
  PROVE  /\ IsInjective(Append(s, k))
         /\ ToSet(Append(s, k)) = ToSet(s) \cup {k}
  <1>. DEFINE a == Append(s, k)
  <1>1. /\ Len(s) \in Nat /\ DOMAIN s = 1..Len(s)
        /\ DOMAIN a = 1..Len(s) + 1
        /\ \A i \in 1..Len(s) : a[i] = s[i]
        /\ a[Len(s) + 1] = k
    BY AppendProperties, LenProperties
  <1>. HIDE DEF a
  <1>2. \A i \in 1..Len(s) : a[i] # k
    BY <1>1 DEF ToSet
  <1>3. IsInjective(a)
    BY <1>1, <1>2 DEF IsInjective
  <1>4. ToSet(a) = ToSet(s) \cup {k}
    BY <1>1 DEF ToSet
  <1>. QED BY <1>3, <1>4 DEF a

(* Dropping the head of such an order drops exactly that element. *)
LEMMA TailDropsHead ==
  ASSUME NEW S, NEW s \in Seq(S), s # <<>>, IsInjective(s)
  PROVE  /\ IsInjective(Tail(s))
         /\ ToSet(Tail(s)) = ToSet(s) \ {Head(s)}
  <1>. DEFINE t == Tail(s)
  <1>1. /\ Len(s) \in Nat \ {0} /\ DOMAIN s = 1..Len(s)
        /\ DOMAIN t = 1..Len(s) - 1
        /\ \A i \in 1..Len(s) - 1 : t[i] = s[i + 1]
        /\ Head(s) = s[1]
    BY HeadTailProperties, LenProperties, EmptySeq
  <1>. HIDE DEF t
  <1>2. IsInjective(t)
    BY <1>1 DEF IsInjective
  <1>3. ASSUME NEW x \in ToSet(t) PROVE x \in ToSet(s) \ {s[1]}
    BY <1>1, <1>3 DEF ToSet, IsInjective
  <1>4. ASSUME NEW x \in ToSet(s) \ {s[1]} PROVE x \in ToSet(t)
    <2>1. PICK i \in 1..Len(s) : x = s[i]
      BY <1>1 DEF ToSet
    <2>2. i - 1 \in 1..Len(s) - 1 /\ t[i - 1] = x
      BY <1>1, <2>1
    <2>. QED BY <1>1, <2>2 DEF ToSet
  <1>. QED BY <1>1, <1>2, <1>3, <1>4 DEF t

(* The cache of n takes an answer to k and gives up the answers to gone.   *)
MakesRoom(n, k, reply, gone) ==
  /\ evicted'[n] = evicted[n] \cup gone
  /\ ToSet(cacheOrder'[n]) = (ToSet(cacheOrder[n]) \cup {k}) \ gone
  /\ \A i \in RequestIds :
        cache'[n][i] = IF i \in gone THEN NoReply
                       ELSE IF i = k THEN reply ELSE cache[n][i]

(* What a new answer does to the cache of a server: either there was room, *)
(* or the oldest answer, perhaps the new one itself, made way for it.      *)
LEMMA Remembered ==
  ASSUME TypeOK, CacheInOrder, NEW n \in Servers, NEW k \in RequestIds,
         NEW reply \in CachedReply, cache[n][k] = NoReply, Remember(n, k, reply)
  PROVE  /\ \A o \in Servers \ {n} : /\ cache'[o] = cache[o]
                                     /\ cacheOrder'[o] = cacheOrder[o]
                                     /\ evicted'[o] = evicted[o]
         /\ \E gone \in SUBSET RequestIds : MakesRoom(n, k, reply, gone)
         /\ IsInjective(cacheOrder'[n])
         /\ Len(cacheOrder'[n]) <= CacheSize
  <1>. DEFINE order == Append(cacheOrder[n], k)
  <1>1. /\ cacheOrder[n] \in Seq(RequestIds)
        /\ Len(cacheOrder[n]) <= CacheSize
        /\ IsInjective(cacheOrder[n])
        /\ k \notin ToSet(cacheOrder[n])
        /\ Len(cacheOrder[n]) \in Nat
    BY LenProperties DEF TypeOK, ServerTypeOK, CacheInOrder
  <1>2. /\ order \in Seq(RequestIds) /\ order # <<>>
        /\ Len(order) = Len(cacheOrder[n]) + 1
        /\ IsInjective(order)
        /\ ToSet(order) = ToSet(cacheOrder[n]) \cup {k}
    BY <1>1, AppendNew, AppendProperties
  <1>3. CASE ~OverLimit(order)
    <2>1. /\ cacheOrder' = [cacheOrder EXCEPT ![n] = order]
          /\ cache' = [cache EXCEPT ![n] = [cache[n] EXCEPT ![k] = reply]]
          /\ evicted' = evicted
      BY <1>3 DEF Remember
    <2>2. Len(order) <= CacheSize
      BY <1>1, <1>2, <1>3, CacheAssumption DEF OverLimit
    <2>. HIDE DEF order
    <2>3. cacheOrder'[n] = order /\ evicted'[n] = evicted[n] \cup {}
      BY <2>1 DEF TypeOK, ServerTypeOK
    <2>4. \A i \in RequestIds :
             cache'[n][i] = IF i = k THEN reply ELSE cache[n][i]
      BY <2>1 DEF TypeOK, ServerTypeOK
    <2>5. MakesRoom(n, k, reply, {})
      BY <1>2, <2>3, <2>4 DEF MakesRoom
    <2>6. \A o \in Servers \ {n} : /\ cache'[o] = cache[o]
                                   /\ cacheOrder'[o] = cacheOrder[o]
                                   /\ evicted'[o] = evicted[o]
      BY <2>1 DEF TypeOK, ServerTypeOK
    <2>. QED BY <1>2, <2>2, <2>3, <2>5, <2>6
  <1>4. CASE OverLimit(order)
    <2>. DEFINE oldest == Head(order)
    <2>1. /\ cacheOrder' = [cacheOrder EXCEPT ![n] = Tail(order)]
          /\ cache' = [cache EXCEPT ![n] = [[cache[n] EXCEPT ![k] = reply]
                                              EXCEPT ![oldest] = NoReply]]
          /\ evicted' = [evicted EXCEPT ![n] = @ \cup {oldest}]
      BY <1>4 DEF Remember
    <2>2. /\ oldest \in RequestIds
          /\ Len(Tail(order)) = Len(order) - 1
          /\ IsInjective(Tail(order))
          /\ ToSet(Tail(order)) = ToSet(order) \ {oldest}
      BY <1>2, HeadTailProperties, TailDropsHead
    <2>3. Len(Tail(order)) <= CacheSize
      BY <1>1, <1>2, <2>2, CacheAssumption
    <2>4. /\ cacheOrder'[n] = Tail(order)
          /\ evicted'[n] = evicted[n] \cup {oldest}
      BY <2>1 DEF TypeOK, ServerTypeOK
    <2>. HIDE DEF oldest
    <2>5. \A i \in RequestIds :
             cache'[n][i] = IF i = oldest THEN NoReply
                            ELSE IF i = k THEN reply ELSE cache[n][i]
      BY <2>1, <2>2 DEF TypeOK, ServerTypeOK
    <2>6. \A o \in Servers \ {n} : /\ cache'[o] = cache[o]
                                   /\ cacheOrder'[o] = cacheOrder[o]
                                   /\ evicted'[o] = evicted[o]
      BY <2>1 DEF TypeOK, ServerTypeOK
    <2>7. MakesRoom(n, k, reply, {oldest})
      BY <1>2, <2>2, <2>4, <2>5 DEF MakesRoom
    <2>. QED BY <2>2, <2>3, <2>4, <2>6, <2>7
  <1>. QED BY <1>3, <1>4

(* The two promises of the cache, which need each other: an id that is not *)
(* listed is not cached, so that an execution of it is the first.          *)
CacheInv == CacheInOrder /\ CachedAnswerIsTrue

(* An empty cache is in order. *)
LEMMA CacheInit == Init => CacheInv
  <1>. SUFFICES ASSUME Init PROVE CacheInv
    OBVIOUS
  <1>1. CacheInOrder
    BY CacheAssumption DEF Init, ServerInit, CacheInOrder, ToSet, IsInjective
  <1>2. CachedAnswerIsTrue
    BY DEF Init, ServerInit, CachedAnswerIsTrue, NoReply
  <1>. QED BY <1>1, <1>2 DEF CacheInv

(* A request with an id keeps the cache in order, whatever it evicts. *)
LEMMA CallerKeepsCache ==
  ASSUME TypeOK, CacheInv, NEW n \in Servers, NEW k \in RequestIds,
         CallerRequest(n, k)
  PROVE  CacheInv'
  <1>. PICK s \in Shards, e \in Epochs, body \in Gets \cup Puts \cup Unknown :
          IdentifiedRequest(n, k, s, e, body)
    BY DEF CallerRequest
  <1>1. CASE CachedRequest(n, k)
    BY <1>1 DEF CachedRequest, cacheVars, CacheInv, CacheInOrder, CachedAnswerIsTrue
  <1>2. CASE NewRequest(n, k, s, e, body)
    <2>. DEFINE reply == Answer(n, s, e, body.op)
    <2>0. cache[n][k] = NoReply
      BY <1>2 DEF NewRequest, IsCached
    <2>1. /\ reply \in CachedReply /\ reply # NoReply
          /\ reply.status = "ok" <=> body.op # "OTHER" /\ Serves(n, s, e)
      BY AnswerType DEF TypeOK
    <2>2. reply.status = "ok" <=> Executes(n, s, e, body.op)
      BY <2>1 DEF Executes, Writes, Gets, Puts, Unknown
    <2>3. Remember(n, k, reply)
      BY <1>2 DEF NewRequest
    <2>. HIDE DEF reply
    <2>4. /\ \A o \in Servers \ {n} : /\ cache'[o] = cache[o]
                                      /\ cacheOrder'[o] = cacheOrder[o]
                                      /\ evicted'[o] = evicted[o]
          /\ IsInjective(cacheOrder'[n])
          /\ Len(cacheOrder'[n]) <= CacheSize
      BY <2>0, <2>1, <2>3, Remembered DEF CacheInv
    <2>a. PICK gone \in SUBSET RequestIds : MakesRoom(n, k, reply, gone)
      BY <2>0, <2>1, <2>3, Remembered DEF CacheInv
    <2>5. /\ evicted'[n] = evicted[n] \cup gone
          /\ ToSet(cacheOrder'[n]) = (ToSet(cacheOrder[n]) \cup {k}) \ gone
          /\ \A i \in RequestIds :
                cache'[n][i] = IF i \in gone THEN NoReply
                               ELSE IF i = k THEN reply ELSE cache[n][i]
      BY <2>a DEF MakesRoom
    <2>6. ToSet(cacheOrder'[n]) = {i \in RequestIds : cache'[n][i] # NoReply}
      BY <2>1, <2>5 DEF CacheInv, CacheInOrder
    <2>7. CacheInOrder'
      BY <2>4, <2>6 DEF CacheInv, CacheInOrder
    <2>8. \A o \in Servers, i \in RequestIds : <<o, i>> # <<n, k>> =>
             runs'[o][i] = runs[o][i]
      BY <1>2 DEF NewRequest, TypeOK, ServerTypeOK
    <2>9. k \notin evicted'[n] =>
             runs'[n][k] = IF cache'[n][k].status = "ok" THEN 1 ELSE 0
      <3>1. k \notin evicted[n] => runs[n][k] = 0
        BY <2>0 DEF CacheInv, CachedAnswerIsTrue, NoReply
      <3>2. runs'[n][k] = IF Executes(n, s, e, body.op) THEN Incremented(runs[n][k])
                          ELSE runs[n][k]
        BY <1>2 DEF NewRequest, TypeOK, ServerTypeOK
      <3>3. k \notin evicted'[n] => k \notin evicted[n] /\ cache'[n][k] = reply
        BY <2>5
      <3>. QED BY <2>2, <3>1, <3>2, <3>3 DEF Incremented
    <2>10. CachedAnswerIsTrue'
      <3>. SUFFICES ASSUME NEW o \in Servers, NEW i \in RequestIds, i \notin evicted'[o]
                    PROVE  runs'[o][i] = IF cache'[o][i].status = "ok" THEN 1 ELSE 0
        BY DEF CachedAnswerIsTrue
      <3>1. CASE o = n /\ i = k
        BY <2>9, <3>1
      <3>2. CASE o = n /\ i # k
        BY <2>5, <2>8, <3>2 DEF CacheInv, CachedAnswerIsTrue
      <3>3. CASE o # n
        BY <2>4, <2>8, <3>3 DEF CacheInv, CachedAnswerIsTrue
      <3>. QED BY <3>1, <3>2, <3>3
    <2>. QED BY <2>7, <2>10 DEF CacheInv
  <1>. QED BY <1>1, <1>2 DEF IdentifiedRequest

(* No other step touches a cache. *)
LEMMA CacheStep == TypeOK /\ CacheInv /\ [Next]_vars => CacheInv'
  <1>. SUFFICES ASSUME TypeOK, CacheInv, [Next]_vars PROVE CacheInv'
    OBVIOUS
  <1>1. ASSUME UNCHANGED cacheVars PROVE CacheInv'
    BY <1>1 DEF cacheVars, CacheInv, CacheInOrder, CachedAnswerIsTrue
  <1>2. ASSUME NEW c \in Clients, DeliverFor(c) PROVE UNCHANGED cacheVars
    BY <1>2 DEF DeliverFor, HandleClientRequest, HandleClientReply
  <1>3. ASSUME NEW c \in Clients, RunResend(c) \/ UserAction(c)
        PROVE  UNCHANGED cacheVars
    BY <1>3 DEF RunResend, UserAction
  <1>4. ASSUME NEW s \in Shards, Transfer(s) PROVE UNCHANGED cacheVars
    BY <1>4 DEF Transfer
  <1>5. CASE UNCHANGED vars
    BY <1>1, <1>5 DEF vars
  <1>. QED BY <1>1, <1>2, <1>3, <1>4, <1>5, CallerKeepsCache DEF Next

(* The cache is always in order. *)
LEMMA CacheInvariant == Spec => []CacheInv
  BY DataPlaneTypeCorrect, CacheInit, CacheStep, PTL DEF Spec

(* An id that a server has never evicted was executed there once if its    *)
(* cached answer is a success, and not at all otherwise: for every size of *)
(* the cache, zero included, and every order of requests and transfers.    *)
THEOREM CacheTellsTheTruth == Spec => []CachedAnswerIsTrue
  <1>1. CacheInv => CachedAnswerIsTrue
    BY DEF CacheInv
  <1>. QED BY <1>1, CacheInvariant, PTL

(* The cache and its eviction order never disagree, and the cache never    *)
(* holds more answers than its limit.                                      *)
THEOREM CacheAgrees == Spec => []CacheInOrder
  <1>1. CacheInv => CacheInOrder
    BY DEF CacheInv
  <1>. QED BY <1>1, CacheInvariant, PTL

-----------------------------------------------------------------------------
(* The client: RequestInv is inductive on links that do not duplicate.     *)
(* Loss is allowed: a client whose message is lost waits for nothing.      *)

(* A message is of exactly one client. *)
LEMMA OneClient ==
  ASSUME TypeOK, NEW m \in DOMAIN net
  PROVE  \E c \in Clients : /\ Of(c, m)
                            /\ \A d \in Clients : Of(d, m) => d = c
  <1>1. CASE m.type = "ClientRequest"
    BY <1>1, RequestFields, RequestAssumption DEF Of
  <1>2. CASE m.type = "ClientReply"
    BY <1>2, ReplyFields, RequestAssumption DEF Of
  <1>. QED BY <1>1, <1>2 DEF TypeOK, ClientRequest, ClientReply

(* What is in flight for a client is about its pending request. *)
LEMMA AboutPending ==
  ASSUME TypeOK, OneInFlight, NEW c \in Clients, NEW m \in DOMAIN net, Of(c, m)
  PROVE  /\ request[c] # NoRequest /\ request[c] \in PendingRequest
         /\ m.seq = request[c].seq
         /\ m.type = "ClientRequest" => m = RequestMessage(c, request[c])
         /\ m.type = "ClientReply" => m.src = request[c].target
         /\ net[m] = 1 /\ resends[c] = 0
         /\ \A d \in DOMAIN net : Of(c, d) => d = m
  BY DEF OneInFlight, WaitsForOne, OfPending, TypeOK, ClientTypeOK

(* The number of a pending request. *)
LEMMA PendingNumber ==
  ASSUME TypeOK, NEW c \in Clients, request[c] # NoRequest
  PROVE  /\ request[c] \in PendingRequest
         /\ request[c].seq \in RequestNumbers
         /\ request[c].seq \in Nat /\ request[c].seq # 0
  BY DEF TypeOK, ClientTypeOK, PendingRequest, RequestNumbers

(* A step of one client, or of a server that answers it, leaves the other  *)
(* clients as they were.                                                   *)
LEMMA OthersWait ==
  ASSUME TypeOK', OneInFlight, NEW c \in Clients,
         \A d \in Clients \ {c} : /\ request'[d] = request[d]
                                  /\ resends'[d] = resends[d],
         \A m \in DOMAIN net' : ~Of(c, m) => m \in DOMAIN net /\ net'[m] = net[m],
         WaitsForOne(c)'
  PROVE  OneInFlight'
  <1>. SUFFICES ASSUME NEW d \in Clients, d # c
                PROVE  WaitsForOne(d)'
    BY DEF OneInFlight
  <1>1. WaitsForOne(d)
    BY DEF OneInFlight
  <1>2. ASSUME NEW m \in DOMAIN net', Of(d, m)
        PROVE  ~Of(c, m)
    <2>1. m \in ClientRequest \cup ClientReply
      BY DEF TypeOK
    <2>. QED BY <1>2, <2>1, RequestAssumption DEF Of, ClientRequest, ClientReply
  <1>3. \A m \in DOMAIN net' : Of(d, m) => OfPending(d, m)' 
    BY <1>1, <1>2 DEF WaitsForOne, OfPending
  <1>. QED BY <1>1, <1>2, <1>3 DEF WaitsForOne

(* What a step that concerns the pending request of one client has to show *)
LEMMA OwnRequest ==
  ASSUME TypeOK, TypeOK', RequestInv, OneInFlight',
         NEW c \in Clients, request[c] # NoRequest,
         \A d \in Clients \ {c} : /\ request'[d] = request[d]
                                  /\ resends'[d] = resends[d],
         \A m \in DOMAIN net' : ~Of(c, m) => m \in DOMAIN net,
         issued' = issued,
         NEW o \in Outcome, o = log'[request[c].seq],
         \A k \in RequestNumbers \ {request[c].seq} : log'[k] = log[k],
         \/ request'[c] = NoRequest
         \/ /\ request'[c].seq = request[c].seq
            /\ o.verdict = "open"
            /\ resends'[c] = 1 => o.executed = 0,
         \A m \in DOMAIN net' : Of(c, m) => Truthful(m, o),
         TrueVerdict(o)
  PROVE  RequestInv'
  <1>. DEFINE k == request[c].seq
  <1>1. k \in RequestNumbers /\ k # 0 /\ k <= issued
    BY PendingNumber DEF RequestInv, Undecided
  <1>2. \A d \in Clients \ {c} : request[d].seq # k
    BY DEF RequestInv, Undecided
  <1>3. ASSUME NEW d \in Clients
        PROVE  Undecided(d)'
    <2>1. CASE d = c
      <3>1. \A x \in Clients : request'[x].seq = k => x = c
        BY <1>2
      <3>. QED BY <1>1, <2>1, <3>1 DEF Undecided
    <2>2. CASE d # c
      <3>. SUFFICES ASSUME request[d] # NoRequest
                    PROVE  /\ request[d].seq <= issued
                           /\ log'[request[d].seq].verdict = "open"
                           /\ resends[d] = 1 => log'[request[d].seq].executed = 0
                           /\ \A x \in Clients : request'[x].seq = request[d].seq => x = d
        BY <2>2 DEF Undecided
      <3>1. request[d].seq \in RequestNumbers \ {k} /\ request[d].seq # 0
        BY <1>2, <2>2, PendingNumber
      <3>2. log'[request[d].seq] = log[request[d].seq]
        BY <3>1
      <3>3. \A x \in Clients : request'[x].seq = request[d].seq => x = d
        BY <1>2, <2>2, <3>1 DEF RequestInv, Undecided, NoRequest
      <3>. QED BY <3>2, <3>3 DEF RequestInv, Undecided
    <2>. QED BY <2>1, <2>2
  <1>4. ASSUME NEW m \in DOMAIN net'
        PROVE  Truthful(m, log'[m.seq])
    <2>1. PICK d \in Clients : Of(d, m)
      <3>1. m \in ClientRequest \cup ClientReply
        BY DEF TypeOK
      <3>. QED BY <3>1 DEF Of, ClientRequest, ClientReply
    <2>2. CASE Of(c, m)
      <3>1. m.seq = request'[c].seq /\ request'[c] # NoRequest
        BY <2>2 DEF OneInFlight, WaitsForOne, OfPending
      <3>. QED BY <2>2, <3>1
    <2>3. CASE ~Of(c, m)
      <3>1. m \in DOMAIN net /\ d # c
        BY <2>1, <2>3
      <3>2. m.seq = request[d].seq /\ request[d] # NoRequest
        BY <2>1, <3>1, AboutPending DEF RequestInv
      <3>3. m.seq \in RequestNumbers \ {k}
        BY <1>2, <3>1, <3>2, PendingNumber
      <3>. QED BY <3>1, <3>3 DEF RequestInv
    <2>. QED BY <2>2, <2>3
  <1>5. FreshNumbers'
    BY <1>1, RequestAssumption
       DEF RequestInv, FreshNumbers, TypeOK, ClientTypeOK, RequestNumbers
  <1>6. VerdictIsTrue'
    BY DEF RequestInv, VerdictIsTrue
  <1>. QED BY <1>3, <1>4, <1>5, <1>6 DEF RequestInv

(* A server that answers executes the pending request of the client, at    *)
(* most once, and its reply says whether it did.                           *)
LEMMA ServeKeeps ==
  ASSUME DupLinks = {}, TypeOK, TypeOK', RequestInv, NEW m \in DOMAIN net,
         HandleClientRequest(m)
  PROVE  RequestInv'
  <1>. DEFINE c == m.src
  <1>. PICK answer : answer = Answer(m.dst, m.shard, m.epoch, m.op)
    OBVIOUS
  <1>. PICK reply : reply = ReplyTo(m, answer)
    OBVIOUS
  <1>1. /\ m.type = "ClientRequest" /\ Receive(m, {reply})
        /\ request' = request /\ resends' = resends /\ issued' = issued
    BY DEF HandleClientRequest
  <1>2. c \in Clients /\ m.dst \in Servers /\ m.seq \in RequestNumbers
    BY <1>1, RequestFields
  <1>3. /\ request[c] # NoRequest /\ m.seq = request[c].seq
        /\ m = RequestMessage(c, request[c])
        /\ net[m] = 1 /\ resends[c] = 0
        /\ \A d \in DOMAIN net : Of(c, d) => d = m
    BY <1>1, <1>2, AboutPending DEF RequestInv, Of
  <1>4. /\ reply.type = "ClientReply" /\ reply.seq = m.seq
        /\ reply.src = m.dst /\ reply.dst = c /\ reply.value = answer.value
        /\ reply.success = (answer.status = "ok")
        /\ reply # m /\ Of(c, reply) /\ reply \notin DOMAIN net
    <2>1. /\ reply.type = "ClientReply" /\ reply.seq = m.seq
          /\ reply.src = m.dst /\ reply.dst = c /\ reply.value = answer.value
          /\ reply.success = (answer.status = "ok")
      BY DEF ReplyTo
    <2>2. reply # m
      BY <1>1, <2>1
    <2>3. Of(c, reply)
      BY <2>1 DEF Of
    <2>. QED BY <1>3, <2>1, <2>2, <2>3
  <1>5. answer.status = "ok" <=> Executes(m.dst, m.shard, m.epoch, m.op)
    <2>1. m.op \in {"GET", "PUT"} /\ m.shard \in Shards
      BY <1>1, RequestFields
    <2>. QED BY <2>1, AnswerType DEF TypeOK, Executes, Writes
  <1>6. \A x \in DOMAIN net' : Of(c, x) => x = reply /\ net'[x] = 1
    <2>1. m \notin DOMAIN net'
      BY <1>1, <1>3, <1>4, ReceiveTakesSingle
    <2>2. DOMAIN net' \subseteq DOMAIN net \cup {reply}
      BY <1>1, ReceiveAdds
    <2>3. reply \in DOMAIN net' => net'[reply] = 1
      BY <1>1, <1>4, ReceiveSendsSingle DEF MayDuplicate
    <2>. QED BY <1>3, <2>1, <2>2, <2>3
  <1>7. \A x \in DOMAIN net' : ~Of(c, x) => x \in DOMAIN net /\ net'[x] = net[x]
    <2>1. Of(c, m)
      BY DEF Of
    <2>. QED BY <1>1, <1>4, <2>1, ReceiveFrame DEF TypeOK
  <1>8. WaitsForOne(c)'
    <2>1. m.dst = request[c].target
      BY <1>3 DEF RequestMessage
    <2>2. OfPending(c, reply)'
      BY <1>1, <1>3, <1>4, <2>1 DEF OfPending
    <2>. QED BY <1>1, <1>2, <1>3, <1>6, <2>2 DEF WaitsForOne
  <1>9. OneInFlight'
    BY <1>1, <1>2, <1>7, <1>8, OthersWait DEF RequestInv
  <1>10. PICK o \in Outcome : o = log[m.seq]
    BY <1>2 DEF TypeOK, ClientTypeOK
  <1>11. o.executed = 0 /\ o.verdict = "open"
    BY <1>1, <1>2, <1>3, <1>10 DEF RequestInv, Truthful, Undecided
  <1>12. PICK p \in Outcome : p = log'[m.seq]
    BY <1>2 DEF TypeOK, ClientTypeOK
  <1>13. /\ p.verdict = "open"
         /\ IF reply.success THEN p.executed = 1 /\ p.result = reply.value
                             ELSE p.executed = 0
    <2>1. CASE Executes(m.dst, m.shard, m.epoch, m.op)
      <3>1. p = [o EXCEPT !.executed = Incremented(@), !.result = answer.value]
        BY <1>2, <1>10, <1>12, <2>1
           DEF HandleClientRequest, TypeOK, ClientTypeOK
      <3>2. p = [o EXCEPT !.executed = 1, !.result = answer.value]
        BY <1>11, <3>1 DEF Incremented
      <3>3. /\ p.executed = 1 /\ p.result = answer.value
            /\ p.verdict = o.verdict
        BY <3>2 DEF Outcome
      <3>. QED BY <1>4, <1>5, <1>11, <2>1, <3>3
    <2>2. CASE ~Executes(m.dst, m.shard, m.epoch, m.op)
      <3>1. log' = log
        BY <2>2 DEF HandleClientRequest
      <3>. QED BY <1>4, <1>5, <1>10, <1>11, <1>12, <2>2, <3>1
    <2>. QED BY <2>1, <2>2
  <1>14. \A k \in RequestNumbers \ {request[c].seq} : log'[k] = log[k]
    BY <1>2, <1>3 DEF HandleClientRequest, TypeOK, ClientTypeOK
  <1>15. \A x \in DOMAIN net' : Of(c, x) => Truthful(x, p)
    BY <1>4, <1>6, <1>13 DEF Truthful
  <1>16. TrueVerdict(p)
    BY <1>13 DEF TrueVerdict
  <1>. QED
    BY <1>1, <1>2, <1>3, <1>7, <1>9, <1>12, <1>13, <1>14, <1>15, <1>16, OwnRequest

(* A client that is given a reply was waiting for it, and for nothing else *)
LEMMA ReplyExpected ==
  ASSUME TypeOK, RequestInv, NEW m \in DOMAIN net, m.type = "ClientReply",
         Receive(m, {})
  PROVE  /\ Expected(m)
         /\ m.dst \in Clients /\ m.seq \in RequestNumbers
         /\ m.seq = request[m.dst].seq /\ resends[m.dst] = 0
         /\ \A x \in DOMAIN net' : ~Of(m.dst, x) /\ x \in DOMAIN net /\ net'[x] = net[x]
  <1>1. m.dst \in Clients /\ m.seq \in RequestNumbers /\ Of(m.dst, m)
    BY ReplyFields DEF Of
  <1>2. /\ request[m.dst] # NoRequest /\ m.src = request[m.dst].target
        /\ m.seq = request[m.dst].seq /\ resends[m.dst] = 0 /\ net[m] = 1
        /\ \A d \in DOMAIN net : Of(m.dst, d) => d = m
    BY <1>1, AboutPending DEF RequestInv
  <1>3. m \notin DOMAIN net'
    BY <1>2, ReceiveTakesSingle
  <1>4. \A x \in DOMAIN net' : x \in DOMAIN net /\ net'[x] = net[x]
    BY <1>3, ReceiveFrame DEF TypeOK
  <1>. QED BY <1>1, <1>2, <1>3, <1>4 DEF Expected

(* What a client concludes from the reply is true. *)
LEMMA ConcludeKeeps ==
  ASSUME TypeOK, TypeOK', RequestInv, NEW m \in DOMAIN net, m.type = "ClientReply",
         NEW verdict \in {"ok", "failed"}, m.success <=> verdict = "ok",
         Conclude(m, verdict)
  PROVE  RequestInv'
  <1>. DEFINE c == m.dst
  <1>1. Receive(m, {}) /\ issued' = issued /\ resends' = resends
    BY DEF Conclude
  <1>2. /\ request[c] # NoRequest
        /\ c \in Clients /\ m.seq \in RequestNumbers
        /\ m.seq = request[c].seq /\ resends[c] = 0
        /\ \A x \in DOMAIN net' : ~Of(c, x) /\ x \in DOMAIN net /\ net'[x] = net[x]
    BY <1>1, ReplyExpected DEF Expected
  <1>3. /\ request'[c] = NoRequest
        /\ \A d \in Clients \ {c} : request'[d] = request[d]
    BY <1>2 DEF Conclude, TypeOK, ClientTypeOK
  <1>4. OneInFlight'
    <2>1. WaitsForOne(c)'
      BY <1>1, <1>2 DEF WaitsForOne
    <2>. QED BY <1>1, <1>2, <1>3, <2>1, OthersWait DEF RequestInv
  <1>5. PICK o \in Outcome : o = log[m.seq]
    BY <1>2 DEF TypeOK, ClientTypeOK
  <1>6. log' = [log EXCEPT ![m.seq] = [o EXCEPT !.verdict = verdict, !.answer = m.value]]
    BY <1>2, <1>5 DEF Conclude
  <1>7. PICK p \in Outcome : p = log'[m.seq]
    BY <1>2 DEF TypeOK, ClientTypeOK
  <1>8. p = [o EXCEPT !.verdict = verdict, !.answer = m.value]
    BY <1>2, <1>6, <1>7 DEF TypeOK, ClientTypeOK
  <1>9. /\ p.verdict = verdict /\ p.answer = m.value
        /\ p.executed = o.executed /\ p.result = o.result
    BY <1>8 DEF Outcome
  <1>10. Truthful(m, o)
    BY <1>5 DEF RequestInv
  <1>11. TrueVerdict(p)
    BY <1>9, <1>10 DEF Truthful, TrueVerdict
  <1>12. \A k \in RequestNumbers \ {request[c].seq} : log'[k] = log[k]
    BY <1>2, <1>6 DEF TypeOK, ClientTypeOK
  <1>. QED BY <1>1, <1>2, <1>3, <1>4, <1>7, <1>11, <1>12, OwnRequest

(* Before a request is tried again it was executed nowhere. *)
LEMMA RetryKeeps ==
  ASSUME TypeOK, TypeOK', RequestInv, NEW m \in DOMAIN net, m.type = "ClientReply",
         RetryRequest(m)
  PROVE  RequestInv'
  <1>. DEFINE c == m.dst
              table == [routes[c] EXCEPT ![request[c].shard] = NoRoute]
  <1>1. /\ Receive(m, {}) /\ issued' = issued /\ log' = log
        /\ request' = [request EXCEPT ![c] = Retried(@, table)]
        /\ resends' = [resends EXCEPT ![c] = Scheduled(c)]
        /\ ~m.success /\ request[c].retries < MaxRetries
    BY DEF RetryRequest, MayRetry
  <1>2. /\ request[c] # NoRequest
        /\ c \in Clients /\ m.seq \in RequestNumbers
        /\ m.seq = request[c].seq /\ resends[c] = 0
        /\ \A x \in DOMAIN net' : ~Of(c, x) /\ x \in DOMAIN net /\ net'[x] = net[x]
    BY <1>1, ReplyExpected DEF Expected
  <1>3. /\ request'[c].seq = request[c].seq /\ request'[c] # NoRequest
        /\ \A d \in Clients \ {c} : /\ request'[d] = request[d]
                                    /\ resends'[d] = resends[d]
    <2>1. table \in [Shards -> Servers \cup {NoRoute}]
      BY <1>2 DEF TypeOK, ClientTypeOK
    <2>2. request'[c] = Retried(request[c], table)
      BY <1>1, <1>2 DEF TypeOK, ClientTypeOK
    <2>3. request'[c].seq = request[c].seq
      BY <1>1, <1>2, <2>1, <2>2, PendingNumber, RetriedType
    <2>4. request'[c] # NoRequest
      BY <1>2, <2>3, PendingNumber DEF NoRequest
    <2>. QED BY <1>1, <1>2, <2>3, <2>4 DEF TypeOK, ClientTypeOK
  <1>4. resends'[c] = 1
    BY <1>1, <1>2 DEF Scheduled, TypeOK, ClientTypeOK
  <1>5. OneInFlight'
    <2>1. WaitsForOne(c)'
      BY <1>2, <1>3, <1>4 DEF WaitsForOne
    <2>. QED BY <1>2, <1>3, <2>1, OthersWait DEF RequestInv
  <1>6. PICK o \in Outcome : o = log[m.seq]
    BY <1>2 DEF TypeOK, ClientTypeOK
  <1>7. o.executed = 0 /\ o.verdict = "open"
    BY <1>1, <1>2, <1>6 DEF RequestInv, Truthful, Undecided
  <1>8. TrueVerdict(o)
    BY <1>7 DEF TrueVerdict
  <1>. QED BY <1>1, <1>2, <1>3, <1>5, <1>6, <1>7, <1>8, OwnRequest

(* A reply concludes its request or has it sent again. *)
LEMMA ReplyKeeps ==
  ASSUME TypeOK, TypeOK', RequestInv, NEW m \in DOMAIN net, HandleClientReply(m)
  PROVE  RequestInv'
  <1>1. m.type = "ClientReply"
    BY DEF HandleClientReply
  <1>2. CASE IgnoreReply(m)
    BY <1>1, <1>2, ReplyExpected DEF IgnoreReply
  <1>3. CASE RequestSuccess(m)
    BY <1>1, <1>3, ConcludeKeeps DEF RequestSuccess
  <1>4. CASE RequestFailed(m)
    BY <1>1, <1>4, ConcludeKeeps DEF RequestFailed
  <1>5. CASE RetryRequest(m)
    BY <1>1, <1>5, RetryKeeps
  <1>. QED BY <1>2, <1>3, <1>4, <1>5 DEF HandleClientReply, ClientOnMessage

(* What a client has sent is the only message of it, in one copy. *)
LEMMA SentAlone ==
  ASSUME DupLinks = {}, TypeOK, NEW c \in Clients, NEW x, Of(c, x), Send({x}),
         \A d \in DOMAIN net : ~Of(c, d)
  PROVE  /\ \A m \in DOMAIN net' : Of(c, m) => m = x /\ net'[m] = 1
         /\ \A m \in DOMAIN net' : ~Of(c, m) => m \in DOMAIN net /\ net'[m] = net[m]
  <1>1. x \notin DOMAIN net
    OBVIOUS
  <1>2. x \in DOMAIN net' => net'[x] = 1
    BY <1>1, SendSendsSingle DEF MayDuplicate
  <1>3. DOMAIN net' \subseteq DOMAIN net \cup {x}
    BY SendAdds
  <1>4. \A m \in DOMAIN net' : ~Of(c, m) => m \in DOMAIN net /\ net'[m] = net[m]
    BY SendFrame DEF TypeOK
  <1>. QED BY <1>2, <1>3, <1>4

(* The request that a client has sent is in flight, and nothing else. *)
LEMMA SentWaits ==
  ASSUME NEW c \in Clients, NEW r, r = request'[c], r # NoRequest,
         \A m \in DOMAIN net' : Of(c, m) => m = RequestMessage(c, r) /\ net'[m] = 1,
         resends'[c] = 0
  PROVE  WaitsForOne(c)'
  <1>1. ASSUME NEW m \in DOMAIN net', Of(c, m) PROVE OfPending(c, m)'
    <2>1. /\ m.type = "ClientRequest" /\ m.seq = r.seq
          /\ m = RequestMessage(c, r)
      BY <1>1 DEF RequestMessage
    <2>. QED BY <2>1 DEF OfPending, RequestMessage
  <1>. QED BY <1>1 DEF WaitsForOne

(* A resend replaces the waiting resend by a request in flight. *)
LEMMA ResendKeeps ==
  ASSUME DupLinks = {}, TypeOK, TypeOK', RequestInv, NEW c \in Clients, RunResend(c)
  PROVE  RequestInv'
  <1>0. WaitsForOne(c)
    BY DEF RequestInv, OneInFlight
  <1>1. /\ resends[c] = 1 /\ request[c] # NoRequest
        /\ \A d \in DOMAIN net : ~Of(c, d)
    BY <1>0 DEF RunResend, ResendPending, WaitsForOne
  <1>2. PICK r \in PendingRequest : r = request[c]
    BY <1>1, PendingNumber
  <1>3. /\ Send({RequestMessage(c, r)})
        /\ request' = request /\ issued' = issued /\ log' = log
        /\ resends' = [resends EXCEPT ![c] = @ - 1]
    BY <1>1, <1>2 DEF RunResend, ResendPending
  <1>4. /\ resends'[c] = 0
        /\ \A d \in Clients \ {c} : resends'[d] = resends[d]
    BY <1>1, <1>3 DEF TypeOK, ClientTypeOK
  <1>5. Of(c, RequestMessage(c, r))
    BY DEF RequestMessage, Of
  <1>6. /\ \A m \in DOMAIN net' : Of(c, m) => m = RequestMessage(c, r) /\ net'[m] = 1
        /\ \A m \in DOMAIN net' : ~Of(c, m) => m \in DOMAIN net /\ net'[m] = net[m]
    BY <1>1, <1>3, <1>5, SentAlone
  <1>7. OneInFlight'
    <2>1. WaitsForOne(c)'
      BY <1>1, <1>2, <1>3, <1>4, <1>6, SentWaits
    <2>. QED BY <1>3, <1>4, <1>6, <2>1, OthersWait DEF RequestInv
  <1>8. PICK o \in Outcome : o = log[r.seq]
    BY <1>1, <1>2, PendingNumber DEF TypeOK, ClientTypeOK
  <1>9. o.executed = 0 /\ o.verdict = "open"
    BY <1>1, <1>2, <1>8 DEF RequestInv, Undecided
  <1>10. \A m \in DOMAIN net' : Of(c, m) => Truthful(m, o)
    BY <1>6, <1>9 DEF Truthful, RequestMessage
  <1>11. TrueVerdict(o)
    BY <1>9 DEF TrueVerdict
  <1>. QED
    BY <1>1, <1>2, <1>3, <1>4, <1>6, <1>7, <1>8, <1>9, <1>10, <1>11, OwnRequest

(* A new request has a number that nobody has used. *)
LEMMA StartKeeps ==
  ASSUME DupLinks = {}, TypeOK, TypeOK', RequestInv, NEW c \in Clients,
         NEW s \in Shards, NEW e \in Epochs, NEW body \in Gets \cup Puts,
         StartRequest(c, s, e, body)
  PROVE  RequestInv'
  <1>0. WaitsForOne(c)
    BY DEF RequestInv, OneInFlight
  <1>1. /\ request[c] = NoRequest /\ resends[c] = 0
        /\ \A d \in DOMAIN net : ~Of(c, d)
    BY <1>0 DEF StartRequest, WaitsForOne, OfPending
  <1>2. /\ issued' = issued + 1 /\ log' = log /\ resends' = resends
        /\ issued \in Nat /\ issued + 1 \in RequestNumbers
    BY RequestAssumption DEF StartRequest, Issue, TypeOK, ClientTypeOK, RequestNumbers
  <1>3. PICK r : /\ r.seq = issued + 1
                 /\ request' = [request EXCEPT ![c] = r]
                 /\ Send({RequestMessage(c, r)})
    BY DEF StartRequest
  <1>4. /\ request'[c] = r /\ r # NoRequest
        /\ \A d \in Clients \ {c} : /\ request'[d] = request[d]
                                    /\ resends'[d] = resends[d]
    BY <1>2, <1>3 DEF TypeOK, ClientTypeOK, NoRequest
  <1>5. Of(c, RequestMessage(c, r))
    BY DEF RequestMessage, Of
  <1>6. /\ \A m \in DOMAIN net' : Of(c, m) => m = RequestMessage(c, r) /\ net'[m] = 1
        /\ \A m \in DOMAIN net' : ~Of(c, m) => m \in DOMAIN net /\ net'[m] = net[m]
    BY <1>1, <1>3, <1>5, SentAlone
  <1>7. OneInFlight'
    <2>1. WaitsForOne(c)'
      BY <1>1, <1>2, <1>4, <1>6, SentWaits
    <2>. QED BY <1>4, <1>6, <2>1, OthersWait DEF RequestInv
  <1>8. log[issued + 1] = OpenOutcome
    BY <1>2 DEF RequestInv, FreshNumbers
  <1>9. \A d \in Clients : request[d] # NoRequest =>
           request[d].seq \in Nat /\ request[d].seq # 0 /\ request[d].seq <= issued
    BY PendingNumber DEF RequestInv, Undecided
  <1>10. ASSUME NEW d \in Clients PROVE Undecided(d)'
    <2>1. CASE d = c
      <3>1. \A x \in Clients : request'[x].seq = r.seq => x = c
        BY <1>2, <1>3, <1>4, <1>9 DEF NoRequest
      <3>2. log'[r.seq].verdict = "open" /\ r.seq <= issued'
        BY <1>2, <1>3, <1>8 DEF OpenOutcome
      <3>. QED BY <1>1, <1>2, <1>4, <2>1, <3>1, <3>2 DEF Undecided
    <2>2. CASE d # c
      <3>1. Undecided(d)
        BY DEF RequestInv
      <3>2. request[d] # NoRequest => request'[c].seq # request[d].seq
        BY <1>2, <1>3, <1>4, <1>9
      <3>3. request[d] # NoRequest => request[d].seq <= issued'
        BY <1>2, <1>9
      <3>. QED BY <1>2, <1>4, <2>2, <3>1, <3>2, <3>3 DEF Undecided
    <2>. QED BY <2>1, <2>2
  <1>11. ASSUME NEW m \in DOMAIN net' PROVE Truthful(m, log'[m.seq])
    <2>1. CASE Of(c, m)
      <3>1. m.type = "ClientRequest" /\ m.seq = issued + 1
        BY <1>3, <1>6, <2>1 DEF RequestMessage
      <3>. QED BY <1>2, <1>8, <3>1 DEF Truthful, OpenOutcome
    <2>2. CASE ~Of(c, m)
      BY <1>2, <1>6, <2>2 DEF RequestInv
    <2>. QED BY <2>1, <2>2
  <1>12. FreshNumbers'
    BY <1>2 DEF RequestInv, FreshNumbers, RequestNumbers
  <1>. QED BY <1>2, <1>7, <1>10, <1>11, <1>12 DEF RequestInv, VerdictIsTrue

(* Other callers and the transfer do nothing that a client could tell.     *)
LEMMA BystanderKeeps ==
  ASSUME TypeOK, RequestInv, net' = net, UNCHANGED <<request, resends, log>>,
         issued' \in Nat, issued <= issued'
  PROVE  RequestInv'
  <1>1. OneInFlight'
    BY DEF RequestInv, OneInFlight, WaitsForOne, OfPending, RequestMessage
  <1>2. ASSUME NEW c \in Clients PROVE Undecided(c)'
    <2>1. Undecided(c)
      BY DEF RequestInv
    <2>2. request[c] # NoRequest => request[c].seq <= issued'
      BY <2>1, PendingNumber DEF Undecided, TypeOK, ClientTypeOK
    <2>. QED BY <2>1, <2>2 DEF Undecided
  <1>3. FreshNumbers'
    BY DEF RequestInv, FreshNumbers, TypeOK, ClientTypeOK, RequestNumbers
  <1>. QED BY <1>1, <1>2, <1>3 DEF RequestInv, VerdictIsTrue

(* Nothing is asked initially. *)
LEMMA RequestInit == Init => RequestInv
  <1>. SUFFICES ASSUME Init PROVE RequestInv
    OBVIOUS
  <1>1. /\ DOMAIN net = {}
        /\ \A c \in Clients : request[c] = NoRequest /\ resends[c] = 0
        /\ \A k \in RequestNumbers : log[k] = OpenOutcome
    BY DEF Init, NetInit, EmptyBag, SetToBag, ClientInit
  <1>2. OneInFlight
    BY <1>1 DEF OneInFlight, WaitsForOne
  <1>3. \A c \in Clients : Undecided(c)
    BY <1>1 DEF Undecided
  <1>4. FreshNumbers /\ VerdictIsTrue
    BY <1>1 DEF FreshNumbers, VerdictIsTrue, TrueVerdict, OpenOutcome
  <1>. QED BY <1>1, <1>2, <1>3, <1>4 DEF RequestInv

(* Every step keeps the invariant, on links that do not duplicate. *)
LEMMA RequestStep ==
  ASSUME DupLinks = {}
  PROVE  TypeOK /\ TypeOK' /\ RequestInv /\ [Next]_vars => RequestInv'
  <1>. SUFFICES ASSUME TypeOK, TypeOK', RequestInv, [Next]_vars
                PROVE  RequestInv'
    OBVIOUS
  <1>0. issued \in Nat /\ issued' \in Nat
    BY RequestAssumption DEF TypeOK, ClientTypeOK
  <1>1. CASE UNCHANGED vars
    BY <1>0, <1>1, BystanderKeeps DEF vars, clientVars
  <1>2. ASSUME NEW c \in Clients, DeliverFor(c) PROVE RequestInv'
    BY <1>2, ServeKeeps, ReplyKeeps DEF DeliverFor
  <1>3. ASSUME NEW c \in Clients, UserAction(c) PROVE RequestInv'
    <2>1. ASSUME NEW s \in Shards, NEW n \in Servers, SetShardOwner(c, s, n)
          PROVE  RequestInv'
      BY <1>0, <2>1, BystanderKeeps DEF SetShardOwner
    <2>. QED BY <1>3, <2>1, StartKeeps DEF UserAction
  <1>4. ASSUME NEW n \in Servers, NEW k \in RequestIds, CallerRequest(n, k)
        PROVE  RequestInv'
    <2>1. /\ net' = net
          /\ issued' = issued \/ issued' = issued + 1
          /\ UNCHANGED clientVars
      BY <1>4 DEF CallerRequest, IdentifiedRequest, CachedRequest, NewRequest, Issue
    <2>2. issued <= issued'
      BY <1>0, <2>1
    <2>. QED BY <1>0, <2>1, <2>2, BystanderKeeps DEF clientVars
  <1>5. ASSUME NEW s \in Shards, Transfer(s), UNCHANGED clientVars
        PROVE  RequestInv'
    BY <1>0, <1>5, BystanderKeeps DEF Transfer, clientVars
  <1>. QED BY <1>1, <1>2, <1>3, <1>4, <1>5, ResendKeeps DEF Next

(* RequestInv, on links that do not duplicate.  They may lose messages.    *)
THEOREM RequestInvariant ==
  ASSUME DupLinks = {}
  PROVE  Spec => []RequestInv
  <1>1. TypeOK /\ TypeOK' /\ RequestInv /\ [Next]_vars => RequestInv'
    BY RequestStep
  <1>. QED BY <1>1, RequestInit, DataPlaneTypeCorrect, PTL DEF Spec

(* A client waits for one thing at most, and it is about the request that  *)
(* is pending now, for any number of retries and of stale routes, while    *)
(* the shards change hands.                                                *)
THEOREM SingleInFlight ==
  ASSUME DupLinks = {}
  PROVE  Spec => []OneInFlight
  <1>1. RequestInv => OneInFlight
    BY DEF RequestInv
  <1>. QED BY <1>1, RequestInvariant, PTL

(* What a client concludes is what happened: done means executed once, by  *)
(* whichever server, and failed means executed nowhere, although replies   *)
(* carry no request id.                                                    *)
THEOREM VerdictsAreTrue ==
  ASSUME DupLinks = {}
  PROVE  Spec => []VerdictIsTrue
  <1>1. RequestInv => VerdictIsTrue
    BY DEF RequestInv
  <1>. QED BY <1>1, RequestInvariant, PTL
=============================================================================
