----------------------------- MODULE DataPlane -----------------------------
(***************************************************************************)
(* Clients and shard servers together, while shards change hands: the      *)
(* requests and replies between them travel through the network.  A server *)
(* that has crashed is a lossy link to it.                                 *)
(***************************************************************************)
EXTENDS Client, RequestServer, SequencesExt

vars == <<net, issued, clientVars, shardVars, cacheVars>>

TypeOK ==
    /\ IsABag(net) /\ DOMAIN net \subseteq ClientRequest \cup ClientReply
    /\ ClientTypeOK
    /\ ServerTypeOK

Init ==
    /\ NetInit
    /\ ClientInit
    /\ ServerInit

ReplyTo(m, answer) ==
    [type |-> "ClientReply", src |-> m.dst, dst |-> m.src,
     success |-> answer.status = "ok", value |-> answer.value, seq |-> m.seq]

(***************************************************************************)
(* A server handles a request of the client library, which has no id.      *)
(***************************************************************************)
HandleClientRequest(m) ==
    LET answer == Answer(m.dst, m.shard, m.epoch, m.op) IN
    /\ m.type = "ClientRequest"
    /\ Apply(m.dst, m.shard, m.epoch, m.op, m.value)
    /\ Receive(m, {ReplyTo(m, answer)})
    /\ log' = IF Executes(m.dst, m.shard, m.epoch, m.op)
              THEN [log EXCEPT ![m.seq].executed = Incremented(@),
                               ![m.seq].result = answer.value]
              ELSE log
    /\ UNCHANGED <<request, routes, resends, issued, epoch, cacheVars>>

HandleClientReply(m) ==
    /\ m.type = "ClientReply"
    /\ ClientOnMessage(m)
    /\ UNCHANGED <<shardVars, cacheVars>>

Of(c, m) == c \in {m.src, m.dst}

DeliverFor(c) == \E m \in DOMAIN net :
                    Of(c, m) /\ (HandleClientRequest(m) \/ HandleClientReply(m))

RunResend(c) == ResendPending(c) /\ UNCHANGED <<shardVars, cacheVars>>

UserAction(c) ==
    /\ \/ \E s \in Shards, n \in Servers : SetShardOwner(c, s, n)
       \/ \E s \in Shards, e \in Epochs, body \in Gets \cup Puts :
             StartRequest(c, s, e, body)
    /\ UNCHANGED <<shardVars, cacheVars>>

CallerRequest(n, k) ==
    /\ \E s \in Shards, e \in Epochs, body \in Gets \cup Puts \cup Unknown :
          IdentifiedRequest(n, k, s, e, body)
    /\ UNCHANGED clientVars

Next ==
    \/ \E c \in Clients : DeliverFor(c) \/ RunResend(c) \/ UserAction(c)
    \/ \E n \in Servers, k \in RequestIds : CallerRequest(n, k)
    \/ \E s \in Shards : Transfer(s) /\ UNCHANGED clientVars

Spec == Init /\ [][Next]_vars

(***************************************************************************)
(* The event loop runs every delivery and every resend that is scheduled.  *)
(***************************************************************************)
Fairness == \A c \in Clients : WF_vars(DeliverFor(c)) /\ WF_vars(RunResend(c))

FairSpec == Spec /\ Fairness

-----------------------------------------------------------------------------
(* Single-in-flight, design/09 "Client Model": on links that do not        *)
(* duplicate, a client waits for one thing at most, a request, a reply or  *)
(* a resend, and it is about the request that is pending now.              *)
OfPending(c, m) ==
    /\ request[c] # NoRequest
    /\ m.seq = request[c].seq
    /\ m.type = "ClientRequest" => m = RequestMessage(c, request[c])
    /\ m.type = "ClientReply" => m.src = request[c].target

WaitsForOne(c) ==
    /\ resends[c] \in {0, 1}
    /\ resends[c] = 1 => request[c] # NoRequest
    /\ \A m \in DOMAIN net : Of(c, m) =>
          /\ OfPending(c, m) /\ net[m] = 1
          /\ resends[c] = 0
          /\ \A d \in DOMAIN net : Of(c, d) => d = m

OneInFlight == \A c \in Clients : WaitsForOne(c)

(* What a client concludes is what happened: a request it counts as done   *)
(* was executed exactly once, by whichever server, and its answer is the   *)
(* value read then; one it counts as failed was never executed, after any  *)
(* number of retries at other servers while the shard moved.               *)
TrueVerdict(o) == /\ o.verdict = "ok" => o.executed = 1 /\ o.answer = o.result
                  /\ o.verdict = "failed" => o.executed = 0

VerdictIsTrue == \A k \in RequestNumbers : TrueVerdict(log[k])

(* A request that was started is decided, where no link loses messages:    *)
(* the client has no timeout, so each of its steps must cause the next.    *)
RequestEnds ==
    \A c \in Clients : request[c] # NoRequest ~> request[c] = NoRequest

(* An id that its server has never evicted was executed there once if its  *)
(* cached answer is a success, and not at all if it is a refusal or there  *)
(* is none, however often and in whatever words it is sent again.  Nothing *)
(* is said of evicted ids, nor of the value in the answer.                 *)
CachedAnswerIsTrue ==
    \A n \in Servers, k \in RequestIds : k \notin evicted[n] =>
        runs[n][k] = IF cache[n][k].status = "ok" THEN 1 ELSE 0

(* The cache and its order list agree: what is listed is cached, once, and *)
(* what is cached can still be evicted.                                    *)
CacheInOrder ==
    \A n \in Servers :
        /\ ToSet(cacheOrder[n]) = {k \in RequestIds : cache[n][k] # NoReply}
        /\ IsInjective(cacheOrder[n])
        /\ Len(cacheOrder[n]) <= CacheSize

-----------------------------------------------------------------------------
(* Why VerdictIsTrue holds, as an inductive invariant, on links that do    *)
(* not duplicate.                                                          *)

(* A pending request has a number of its own and is undecided; while its   *)
(* resend waits it has not been executed.                                  *)
Undecided(c) ==
    request[c] # NoRequest =>
        /\ request[c].seq <= issued
        /\ log[request[c].seq].verdict = "open"
        /\ resends[c] = 1 => log[request[c].seq].executed = 0
        /\ \A d \in Clients : request[d].seq = request[c].seq => d = c

(* A request in flight has not been executed; a reply in flight tells what *)
(* the server did.                                                         *)
Truthful(m, o) ==
    IF m.type = "ClientReply" /\ m.success
    THEN o.executed = 1 /\ o.result = m.value
    ELSE o.executed = 0

(* Nothing has happened yet to a number that was not given out.            *)
FreshNumbers ==
    \A k \in RequestNumbers : k > issued => log[k] = OpenOutcome

(* The conclusions of clients are true, and why: with OneInFlight, what a  *)
(* client waits for is about its pending request and tells the truth, so   *)
(* the reply that it matches by its sender alone is the right one.         *)
RequestInv ==
    /\ OneInFlight
    /\ \A c \in Clients : Undecided(c)
    /\ \A m \in DOMAIN net : Truthful(m, log[m.seq])
    /\ FreshNumbers
    /\ VerdictIsTrue
=============================================================================
