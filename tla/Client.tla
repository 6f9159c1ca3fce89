------------------------------- MODULE Client -------------------------------
(***************************************************************************)
(* The client library (src/client/client.py).  A client has at most one    *)
(* request pending; it sends it to the server its routing table or its     *)
(* default names, waits for a reply, and on an error forgets the route,    *)
(* falls back to the default server and sends the request again a little   *)
(* later, at the epoch it was given first.  Nothing but a reply makes a    *)
(* client act: it has no timeout.                                          *)
(***************************************************************************)
EXTENDS RequestTypes, Net

CONSTANTS
    NoRoute,        \* None, where the code expects a server
    DefaultServer,  \* default_server_id
    MaxRetries      \* max_retries

ASSUME ClientAssumption == /\ NoRoute \notin Servers
                           /\ DefaultServer \in Servers \cup {NoRoute}
                           /\ MaxRetries \in Nat

VARIABLES
    request,   \* pending_request, per client
    routes,    \* routing_table, per client and shard
    resends,   \* callbacks of _send_pending_request that wait in the loop
    log        \* history: what became of each request

clientVars == <<request, routes, resends, log>>

NoRequest == [seq |-> 0]

PendingRequest == {r \in [seq     : RequestNumbers,
                          shard   : Shards,
                          epoch   : Epochs,
                          op      : {"GET", "PUT"},
                          value   : Answers,
                          target  : Servers,
                          retries : 0..MaxRetries] : WellFormed(r)}

(***************************************************************************)
(* What became of a request: how often a server executed it (two stands    *)
(* for more) and with which result, what the client concluded and which    *)
(* value it was given.                                                     *)
(***************************************************************************)
Outcome == [executed : 0..2,
            result   : Answers,
            verdict  : {"open", "ok", "failed"},
            answer   : Answers]

OpenOutcome == [executed |-> 0, result |-> NoValue,
                verdict |-> "open", answer |-> NoValue]

ClientTypeOK ==
    /\ request \in [Clients -> PendingRequest \cup {NoRequest}]
    /\ routes \in [Clients -> [Shards -> Servers \cup {NoRoute}]]
    /\ resends \in [Clients -> Nat]
    /\ issued \in 0..MaxRequests
    /\ log \in [RequestNumbers -> Outcome]

ClientInit ==
    /\ request = [c \in Clients |-> NoRequest]
    /\ routes = [c \in Clients |-> [s \in Shards |-> NoRoute]]
    /\ resends = [c \in Clients |-> 0]
    /\ issued = 0
    /\ log = [k \in RequestNumbers |-> OpenOutcome]

-----------------------------------------------------------------------------
(* get_route, over a routing table *)
RouteIn(table, s) == IF table[s] # NoRoute THEN table[s] ELSE DefaultServer

RequestMessage(c, r) ==
    [type |-> "ClientRequest", src |-> c, dst |-> r.target, shard |-> r.shard,
     epoch |-> r.epoch, op |-> r.op, value |-> r.value, seq |-> r.seq]

SetShardOwner(c, s, n) ==
    /\ routes' = [routes EXCEPT ![c][s] = n]
    /\ UNCHANGED <<net, request, resends, issued, log>>

(***************************************************************************)
(* _start_request.  With a request pending it raises, without a route it   *)
(* returns False; neither changes anything.                                *)
(***************************************************************************)
StartRequest(c, s, e, body) ==
    /\ request[c] = NoRequest
    /\ RouteIn(routes[c], s) # NoRoute
    /\ LET r == [seq |-> issued + 1, shard |-> s, epoch |-> e, op |-> body.op,
                 value |-> body.value, target |-> RouteIn(routes[c], s), retries |-> 0]
       IN  /\ request' = [request EXCEPT ![c] = r]
           /\ Send({RequestMessage(c, r)})
    /\ Issue
    /\ UNCHANGED <<routes, resends, log>>

(***************************************************************************)
(* _send_pending_request, run by the event loop retry_delay after an       *)
(* error.  It sends the request that is pending by then, if there is one.  *)
(***************************************************************************)
ResendPending(c) ==
    /\ resends[c] > 0
    /\ resends' = [resends EXCEPT ![c] = @ - 1]
    /\ IF request[c] = NoRequest
       THEN UNCHANGED net
       ELSE Send({RequestMessage(c, request[c])})
    /\ UNCHANGED <<request, routes, issued, log>>

-----------------------------------------------------------------------------
(* on_message *)

(* Neither an orphan nor from another server than the one that was asked *)
Expected(m) == /\ request[m.dst] # NoRequest
               /\ m.src = request[m.dst].target

IgnoreReply(m) ==
    /\ ~Expected(m)
    /\ Receive(m, {})
    /\ UNCHANGED <<issued, clientVars>>

Conclude(m, verdict) ==
    LET c == m.dst IN
    /\ request' = [request EXCEPT ![c] = NoRequest]
    /\ log' = [log EXCEPT ![request[c].seq].verdict = verdict,
                          ![request[c].seq].answer = m.value]
    /\ Receive(m, {})
    /\ UNCHANGED <<issued, routes, resends>>

RequestSuccess(m) ==
    /\ Expected(m) /\ m.success
    /\ Conclude(m, "ok")

MayRetryOnceMore(r) == r.retries <= MaxRetries          \* faulty variant

(* Every error of a GET or a PUT is among RETRYABLE_ERRORS. *)
MayRetry(r) == r.retries < MaxRetries

RequestFailed(m) ==
    /\ Expected(m) /\ ~m.success
    /\ ~MayRetry(request[m.dst])
    /\ Conclude(m, "failed")

(***************************************************************************)
(* The target changes now, to what the route is now; the request is sent   *)
(* when the callback runs.                                                 *)
(***************************************************************************)
Retried(r, table) ==
    [r EXCEPT !.retries = @ + 1,
              !.target = IF RouteIn(table, r.shard) # NoRoute
                         THEN RouteIn(table, r.shard) ELSE @]

ScheduledTwice(c) == resends[c] + 2                     \* faulty variant
ScheduledNever(c) == resends[c]                         \* faulty variant
Scheduled(c)      == resends[c] + 1

RetryRequest(m) ==
    /\ Expected(m) /\ ~m.success
    /\ MayRetry(request[m.dst])
    /\ LET c     == m.dst
           table == [routes[c] EXCEPT ![request[c].shard] = NoRoute]
       IN  /\ routes' = [routes EXCEPT ![c] = table]
           /\ request' = [request EXCEPT ![c] = Retried(@, table)]
           /\ resends' = [resends EXCEPT ![c] = Scheduled(c)]
    /\ Receive(m, {})
    /\ UNCHANGED <<issued, log>>

ClientOnMessage(m) == \/ IgnoreReply(m)
                      \/ RequestSuccess(m)
                      \/ RequestFailed(m)
                      \/ RetryRequest(m)
=============================================================================
