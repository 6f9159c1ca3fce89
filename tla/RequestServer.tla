--------------------------- MODULE RequestServer ---------------------------
(***************************************************************************)
(* How shard servers answer clients (_handle_client_request and the reply  *)
(* cache of src/shardserver/server.py).                                    *)
(*                                                                         *)
(* Which server serves a shard is the business of the transfer protocol,   *)
(* of which only its promise is used here: the shards change hands as      *)
(* Ownership allows.  epoch is the epoch at which a shard is served; the   *)
(* transfer may set it to anything when service resumes.                   *)
(*                                                                         *)
(* A request may carry an id.  The client library sends none; other        *)
(* callers do, and may send the same id again, to any server, at any time  *)
(* and with any content: the most general caller is modelled, each request *)
(* being handled as it is sent.                                            *)
(***************************************************************************)
EXTENDS RequestTypes, Net, Sequences

CONSTANTS
    RequestIds,      \* pairs (client_id, request_id)
    CacheSize        \* request_cache_max_size

ASSUME CacheAssumption == CacheSize \in Nat

VARIABLES
    owner, serving, contents,  \* the variables of Ownership
    epoch,        \* the epoch at which a shard is served
    cache,        \* request_cache, per server
    cacheOrder,   \* request_cache_order, per server
    runs,         \* history: executions of an identified request (two
                  \* stands for more), per server
    evicted       \* history: the ids a server has ever evicted

shardVars  == <<owner, serving, contents, epoch>>
cacheVars  == <<cache, cacheOrder, runs, evicted>>

Own == INSTANCE Ownership

CachedReply == [status : {"ok", "error"}, value : Answers]

NoReply == [status |-> "none", value |-> NoValue]   \* no entry in the cache

ServerTypeOK ==
    /\ owner \in [Shards -> Servers]
    /\ serving \in [Shards -> SUBSET Servers]
    /\ contents \in [Shards -> Values]
    /\ epoch \in [Shards -> Epochs]
    /\ cache \in [Servers -> [RequestIds -> CachedReply \cup {NoReply}]]
    /\ cacheOrder \in [Servers -> Seq(RequestIds)]
    /\ runs \in [Servers -> [RequestIds -> 0..2]]
    /\ evicted \in [Servers -> SUBSET RequestIds]

ServerInit ==
    /\ Own!Init
    /\ epoch \in [Shards -> Epochs]
    /\ cache = [n \in Servers |-> [k \in RequestIds |-> NoReply]]
    /\ cacheOrder = [n \in Servers |-> <<>>]
    /\ runs = [n \in Servers |-> [k \in RequestIds |-> 0]]
    /\ evicted = [n \in Servers |-> {}]

(***************************************************************************)
(* A step of the transfer protocol.                                        *)
(***************************************************************************)
Transfer(s) ==
    /\ \/ (Own!Suspend(s) \/ \E n \in Servers : Own!Move(s, n)) /\ UNCHANGED epoch
       \/ Own!Resume(s) /\ \E e \in Epochs : epoch' = [epoch EXCEPT ![s] = e]
    /\ UNCHANGED <<net, issued, cacheVars>>

-----------------------------------------------------------------------------
(***************************************************************************)
(* A server executes a request only on a STABLE shard at the epoch the     *)
(* request names.                                                          *)
(***************************************************************************)
Serves(n, s, e) == n \in serving[s] /\ epoch[s] = e

Unknown == [op : {"OTHER"}, value : {NoValue}]      \* an unknown_operation

WritesUnchecked(n, s, e, op) == op = "PUT" /\ serving[s] # {}  \* faulty variant
Writes(n, s, e, op)          == op = "PUT" /\ Serves(n, s, e)

Apply(n, s, e, op, v) ==
    IF Writes(n, s, e, op) THEN Own!Put(s, v)
    ELSE UNCHANGED <<owner, serving, contents>>

Executes(n, s, e, op) == \/ Writes(n, s, e, op)
                         \/ op = "GET" /\ Serves(n, s, e)

Answer(n, s, e, op) ==
    LET ok == op # "OTHER" /\ Serves(n, s, e) IN
    [status |-> IF ok THEN "ok" ELSE "error",
     value  |-> IF ok /\ op = "GET" THEN contents[s] ELSE NoValue]

NeverCached(n, k) == FALSE                              \* faulty variant
IsCached(n, k)    == cache[n][k] # NoReply

(***************************************************************************)
(* _cache_client_reply: the first answer to an id stays, successful or     *)
(* not, until the cache has CacheSize later ones.                          *)
(***************************************************************************)
OverLimitLate(order) == Len(order) > CacheSize + 1      \* faulty variant
OverLimit(order)     == Len(order) > CacheSize

Remember(n, k, reply) ==
    LET order  == Append(cacheOrder[n], k)
        filled == [cache[n] EXCEPT ![k] = reply]
        oldest == Head(order)
    IN  \/ /\ cache[n][k] # NoReply
           /\ UNCHANGED <<cache, cacheOrder, evicted>>
        \/ /\ cache[n][k] = NoReply /\ ~OverLimit(order)
           /\ cacheOrder' = [cacheOrder EXCEPT ![n] = order]
           /\ cache' = [cache EXCEPT ![n] = filled]
           /\ UNCHANGED evicted
        \/ /\ cache[n][k] = NoReply /\ OverLimit(order)
           /\ cacheOrder' = [cacheOrder EXCEPT ![n] = Tail(order)]
           /\ cache' = [cache EXCEPT ![n] = [filled EXCEPT ![oldest] = NoReply]]
           /\ evicted' = [evicted EXCEPT ![n] = @ \cup {oldest}]

(***************************************************************************)
(* A cached request changes nothing: the caller gets the cached reply.     *)
(***************************************************************************)
CachedRequest(n, k) ==
    /\ IsCached(n, k)
    /\ UNCHANGED <<net, issued, shardVars, cacheVars>>

Incremented(i) == IF i = 0 THEN 1 ELSE 2

NewRequest(n, k, s, e, body) ==
    /\ ~IsCached(n, k)
    /\ Apply(n, s, e, body.op, body.value)
    /\ Remember(n, k, Answer(n, s, e, body.op))
    /\ runs' = [runs EXCEPT ![n][k] = IF Executes(n, s, e, body.op)
                                      THEN Incremented(@) ELSE @]
    /\ Issue
    /\ UNCHANGED <<net, epoch>>

IdentifiedRequest(n, k, s, e, body) ==
    CachedRequest(n, k) \/ NewRequest(n, k, s, e, body)
=============================================================================
