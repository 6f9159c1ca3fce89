# SafeShardTransfer in TLA+

A model of this repository: the freeze-based reassignment of shards between
servers, the client requests that go on meanwhile, and the simulated network,
timers and event loop below them, model-checked with TLC and, where marked,
proved with TLAPS. Paths are relative to the repository (`src/...` is its
Python package, `docs/...` its documents).

## 1. The system

A *shard* is a dictionary that exactly one server may serve. The coordinator
moves it from its owner to a target in one *attempt*:

    coordinator          owner                 target
    reassign ──FreezeShard──▶ STABLE→FREEZE
       FREEZE ◀──FreezeAck───
     TRANSFER ──BeginTransfer─▶ FREEZE→TRANSFER
                               ──TransferShard──▶ pending copy
              ◀────────────────────TransferAck──
    commit: owner := target, epoch + 1, STABLE
              ──ActivateShard──────────────────▶ copy becomes STABLE
              ──CleanupShard─▶ shard deleted

A timer per phase repeats the request of the phase a bounded number of times
and then aborts; a crash report of a participant aborts at once. An abort
raises the epoch, keeps the owner and sends `AbortReconfiguration` to both
sides. A recovered server is sent the same message as a resynchronisation.

### Components

| component | state | operations | hard behaviour |
|---|---|---|---|
| coordinator, `metadata/coordinator.py`, `store.py` | per shard: owner, epoch, state, target, attempt id; the counter `_next_attempt_id`; per phase and attempt: `_phase_tokens`, `_phase_retry_counts` | `reassign`, `_handle_freeze_ack`, `_handle_transfer_ack`, `_on_phase_timeout` (retry / abort), `on_node_crash`, `on_node_recover` | late acknowledgements of an earlier attempt; timeouts and crash reports racing with the acknowledgement that commits; timer callbacks that nothing can take back; requests sent once |
| shard server, transfer: `shardserver/server.py` | `shards` (epoch, state, data, attempt id), `pending_incoming` | handlers of `FreezeShard`, `BeginTransfer`, `TransferShard`, `ActivateShard`, `CleanupShard`, `AbortReconfiguration` | messages of two attempts interleaved; duplicated copies; a shard that returns before its cleanup; state that survives a crash |
| shard server, requests: `shardserver/server.py` | `request_cache`, `request_cache_order` | `_handle_client_request`, `_cache_client_reply` | a cached answer that outlives the state it was given in; eviction |
| client, `client/client.py` | `routing_table`, one `pending_request` with its retries | `set_shard_owner`, `get`, `put`, reply handling, the delayed resend. The caller gives the epoch of each call | replies without a request id; no timeout; a resend that runs later than it was decided |
| network, `sim/network.py` | `link_configs`, `in_flight` (reorder buffers) | `send`, delivery callbacks, ready checks, `set_link_config`, `clear_link_configs` | loss, duplication, delay, partitions; a check that takes another check's message; links configured anew under waiting messages |
| event loop, `sim/event_loop.py` | time-ordered queue, `max_steps` | `schedule`, `run` | ties in time, the step limit |
| harness, `sim/harness.py`, `sim/process.py` | `alive` per node, a schedule of faults | `crash_node`, `recover_node`, both reported to the coordinator in the same event; scheduled changes of links | crash between any two messages |
| storage engine, metrics, demos, fault-injection runner | | | no part of the protocol |

Everything communicates by `Network.send` and one callback per event; the
only call between components that is not a message is the harness telling the
coordinator of a crash or a recovery.

### What makes it correct

`README.md` and `docs/design/02-invariants.md` of the repository promise: at
most one server serves a shard (S1); only the owner serves, at the epoch of the
metadata (S3); nobody applies operations during the transfer (S4); epochs never
go backwards (S5);
every reassignment ends in STABLE with a valid owner (L1). To these the model
adds what a client sees: no acknowledged PUT is lost, a GET returns it, and
what a client concludes of a request is what happened to it; and what the
lower layers owe the protocol: a timer acts only for its own phase, and every
message that was scheduled arrives.

## 2. The modules

| module | models | of |
|---|---|---|
| `ShardTypes` | parameters, records, messages of the transfer | `src/src/common/types.py` |
| `Net` | the bag of messages in flight; `Send`, `Receive` | `src/src/sim/network.py` |
| `Coordinator` | the metadata and every operation on it, with an abstract timer per phase | `src/src/metadata/` |
| `ShardServer` | shards, pending copies and every handler of the transfer | `src/src/shardserver/server.py` |
| `ShardTransfer` | the composition: delivery, crashes, recoveries, client writes; the properties of the transfer | `src/src/sim/harness.py`, `process.py`, `event_loop.py` |
| `ShardTransferInv` | the inductive invariants of the transfer | |
| `Ownership`, `OwnershipRefinement` | what the transfer promises its clients, and the mapping under which it implements it | `README.md`, "Guarantees" |
| `PhaseTimers` | tokens, retry counts and timer callbacks, under the whole of `ShardTransfer` | `src/src/metadata/coordinator.py` |
| `RequestTypes`, `Client`, `RequestServer`, `DataPlane` | requests and replies; the client library; the answers and the reply cache; their composition | `src/src/client/client.py`, `server.py`, `types.py` |
| `EventLoop`, `SimNetwork` | the queue of events in time; the network, its fault models and the fault schedule on top of it | `src/src/sim/` |
| `MCShardTransfer`, `MCPhaseTimers`, `MCDataPlane`, `MCSimNetwork` | instances for TLC | |
| `NetProofs` | lemmas about the bag of messages | |
| `BookkeepingProofs`, `EpochProofs`, `OwnershipProofs`, `StorageProofs` | proofs about `ShardTransfer`: types and bookkeeping, epochs, who serves, where data is stored | |
| `RefinementProofs` | proofs that `ShardTransfer` implements `Ownership`, and `PhaseTimers` `ShardTransfer` | |
| `DataPlaneProofs`, `SimNetworkProofs` | proofs about the two other layers | |

How they fit together:

    DataPlane = Client + RequestServer        sees shards change hands as
        │ uses                                 Ownership allows
    Ownership
        ▲ implemented by (safety_return, proved)
    ShardTransfer = Coordinator + ShardServer over Net
        ▲ implemented by (phase_timers,         ▲ Net implemented by
        │ safety proved)                        │ (network, safety proved)
    PhaseTimers                              SimNetwork = EventLoop + network

So a layer is checked against the promise of the layer below instead of being
multiplied with its states. A handler is one operator with the name of its
Python method in camel case; its disjuncts are the branches of the method, the
last one being all early returns.

### State

| variable | code |
|---|---|
| `net` | the delivery callbacks that `Network.send` has scheduled and that will reach a handler |
| `meta[s]` | `MetadataStore.shards[s]` |
| `retries[s]` | `Coordinator._phase_retry_counts` for the current phase and attempt |
| `attempts` | the attempts `reassign` has started; a history of how each was decided, except that its length gives the next attempt id, as `_next_attempt_id` does |
| `local[n][s]` | `ShardServer.shards[s]` of server n, `Absent` if there is no key |
| `pending[n][s]` | `ShardServer.pending_incoming[s]`, `NoCopy` if there is no key |
| `alive[n]` | `Process.alive` |
| `tokens`, `retryCounts` | `_phase_tokens`, `_phase_retry_counts` per phase and attempt, 0 if there is no key |
| `callbacks` | the `on_timeout` closures in the queue of the event loop |
| `request[c]`, `routes[c]` | `pending_request`, `routing_table` of client c |
| `resends[c]` | callbacks of `_send_pending_request` in the queue |
| `cache[n]`, `cacheOrder[n]` | `request_cache`, `request_cache_order` of server n |
| `owner`, `serving`, `contents`, `epoch` | what `DataPlane` knows of the transfer: who serves a shard, with which contents, at which epoch |
| `time`, `queue`, `nextId`, `steps`, `mode` | `EventLoop.time`, `_queue`, `_counter`, the step counter of `run`, and how `run` ended |
| `configs`, `inFlight` | `link_configs`, `in_flight` of the network |

Histories, which no action reads: `lastPut[s]` (the last acknowledged PUT),
`log[k]` (what became of request k), `runs`, `evicted` (executions and
evictions of an identified request). Counters that only bound a run:
`recoveries`, `issued`.

### Abstractions

* One event of the simulation runs one callback to its end, so a callback is
  one step. Logging and metrics are left out.
* The dictionary of a shard is one register. Every PUT overwrites it, so a
  lost or stale dictionary is a lost or stale register.
* `Net`: `Network.send` decides when it is called whether a message is lost,
  delivered once or twice; a message in flight may be delivered at any later
  step. Partitions and drop rules are loss on `LossyLinks`; duplication is on
  `DupLinks`. The run `network` checks that the network in time is a case of
  this, with a drop rule folded into a lossy link. `clear_link_configs`, which
  drops what a reordering link has buffered, is one more step there
  (`Cleared`); for the protocol it is loss.
* `Coordinator`: a timer of the current phase may fire at any time. `PhaseTimers`
  shows that the tokens and callbacks of the code are a case of this. Durations
  and the backoff change only when a callback runs.
* The phases ACTIVATE and CLEANUP of the metadata start and end inside
  `_handle_transfer_ack`, so no step begins or ends in them.
* `ShardTransfer`: a client is a PUT that reaches any live server with any
  epoch, which covers every stale route. A GET is what `Serves` lets a client
  see. The library client is in `DataPlane`.
* `DataPlane`: which server serves is whatever `Ownership` allows, and the
  epoch may become anything when service resumes, so the client meets every
  error: no shard, a frozen shard, a wrong epoch. All of them are in
  `RETRYABLE_ERRORS` and are one answer, `error`. Callers with request ids are
  the most general ones: any id, server and content at any time, handled when
  sent. `seq` in messages is a history: the code sends no such number, and no
  guard of a client reads it.
* `DataPlane` also sees an abort that changes the epoch of a served shard in
  place (`server.py:659-662`): as a `Suspend` followed by a `Resume`.
* `SimNetwork`: a message is known by the event at which it was sent, a node
  that is called may send one message, and a rate only says whether a fault may
  happen. Callbacks that send several, like a commit or an abort, are
  compositions of such sends.
* `EventLoop`: a callback returns. One that raises, like a `reassign` of a shard
  that is not STABLE or a call of a client with a request pending, ends `run` in
  the code; here only the step limit does. The protocol modules treat such a
  call as one that changes nothing.
* `Process.crash` keeps the state of the node; `alive` only suppresses
  sending and receiving. The coordinator is never crashed: `crash_node` of the
  harness takes servers.

### Faulty variants

The modules contain operators marked *faulty variant*: the guard or assignment
that follows them with one condition missing (`RollsBackAnyAttempt` for
`RollsBack`, `CanceledNone` for `Canceled`, `ScheduledTwice` for `Scheduled`,
...). No action uses them. They record which error each property is there to
catch: put in the place of the right operator, each makes TLC report a
violation of the property that PROJECT.json pairs it with.

## 3. The runs

| run | instance | states | shows |
|---|---|---|---|
| `safety_crash` | 3 servers, 1 shard, 2 values, 2 attempts, 1 retry, any server may crash for good | 590,842 | S1, the ownership half of S3, S4 in TRANSFER, reads see the last write, no write is lost |
| `safety_return` | 2 servers, 3 attempts, every `TransferShard` delivered once or twice | 215,441 | a shard returns to a server with the messages of its first move still in flight, and clients still see one register with one owner (`ImplementsOwnership`); the inductive invariants `TransferInv` and `StorageInv`, from which S1 and `LastWriteIsStored` are proved |
| `faults` | 2 servers, 2 attempts, loss on every link, duplicates of everything the servers send, crashes and one recovery | 1,549,957 | the bookkeeping holds under every fault: attempts are decided once, messages follow the decision, the epoch counts the decided attempts, aborted ones included, nobody is ahead of the metadata, a server gets a shard only by a commit towards it; the inductive invariants `CoordInv` and `EpochInv` |
| `live_ends` | 2 servers, 2 attempts, 1 retry, both timers, loss, crashes | 226,204 | every reassignment returns to STABLE |
| `live_completes` | 2 servers, 2 shards, 3 attempts, no faults, no timers | 6,484 | an attempt that finds its owner in sync completes and the target serves |
| `phase_timers` | 2 servers, 1 attempt, 2 retries, both timers, loss on every link, a crash and a recovery | 167,616 | tokens follow the phases, one live callback per timed phase, retry counts kept; the timers of the code implement the abstract ones, fairness included; `TimerInv` |
| `data_plane` | 1 client, 2 servers, 2 retries, 3 requests in all, 2 request ids, a cache of one | 435,360 | the client waits for one thing at a time and concludes what happened; an id that was never evicted ran once if its cached answer is a success and else never; every request ends; the inductive invariant `RequestInv` |
| `network` | 2 nodes, links that reorder and duplicate or lose and are partitioned, 2 steps per run, 3 events | 174,364 | no buffered message without a check, nothing late, a run that returns is complete; the network implements `Net` and delivers every copy; the inductive invariant `DeliveryInv` |
| `duplicate_two_owners` | duplicates on every link into one server | | violates S1 (finding 1) |
| `resync_two_owners` | one recovery | | violates S1 (finding 2) |
| `late_abort_stale_epoch` | two attempts, timers, reordering only | | a server goes back to an older epoch, at which its predecessor served (finding 3) |
| `overtaken_activate_stalls` | two attempts, no timers, no fault | | a reassignment never ends (finding 4) |

The safety runs have no lossy links, and need none: whether a message is lost
or is in flight for ever is the same for a property of states, and messages
are never forced to arrive in a safety run. `faults` has loss as well since
the bag of a lost message should be exercised there, and `live_ends` and
`phase_timers` need it because there a message in flight does arrive.

**Bounds.** `MaxAttempts` bounds calls of `reassign`, `MaxRetries` is the
parameter of the code, `MaxRecoveries` bounds `recover_node`; epochs are
bounded through the attempts, and `RequestEpochs` goes up to the highest epoch
there can be. Two attempts are enough for a message of an old attempt to meet a
new one, in the same or in the opposite direction, also when it is a late abort
(`late_abort_stale_epoch`); three are needed for a shard to leave, return and be
moved again (`safety_return`). Two shards share only
the attempt log and the network; no handler reads two of them, except
`on_node_crash`, which treats each alone. Two values tell a fork of the data
from agreement. `Symmetry` permutes servers and values, which no definition
distinguishes except by equality; it is used only for properties of states and
steps.

`phase_timers` has one attempt, whose two phases and two retries already give
stale callbacks of an earlier token and of an earlier phase. With two attempts
the product of callbacks and messages is too large for TLC; callbacks of an
earlier attempt are covered by the proofs of section 4, which have no bound.

`data_plane`: three requests are the last one of the client, the next one that
a late resend could hit, and one of another caller; the first of two retries
leaves the route for the default server, the second stays there; with a cache
of one, two ids evict each other, and an id can be sent again before and after
its eviction. One value suffices, since a GET, a PUT and an error still have
different answers; the contents of a shard that moves are the business of the
transfer runs. Two clients share nothing but the register of a shard.

`network`: `MaxEvents` bounds everything that is ever scheduled. Three events
are a scenario step, a message and its copy, or two messages that tie; two
steps per run end a run with the queue empty, with the queue not empty, and
with both the queue empty and the limit reached.

Deadlock is not checked: a system with no attempts left, nothing in flight and
no live server rests, and so does a loop whose queue is empty.

**Fairness.** `FairSpec` of `ShardTransfer` assumes weak fairness of `Delivery`
and of the timer of each shard; `TimersFairSpec` of `TimedDelivery` and of the
callbacks of each shard; `FairSpec` of `DataPlane` of the deliveries and the
resends of each client. The event loop justifies these: it runs every callback
that has been scheduled, and deliveries, resends and timers are such callbacks.
That a phase with a timeout always has a callback is what `phase_timers` checks
(`OneTimerPerPhase`, and `ImplementsPhaseTimers`, which has the fairness of
`FairSpec` as its conclusion). That every scheduled message is delivered is what
`network` checks (`EveryCopyArrives`), from the fairness that `run` goes on
once it is called (`RunEvent`, `FinishRun`) and that it is called
(`BeginRun`). The last is an assumption about scenarios and not a fact of the
repository: a scenario ends with a run, but nothing in the repository calls
`run` again after it raised at its step limit, so there `EveryCopyArrives` says
only that the messages are still there to be delivered if somebody does. With
a limit that is not reached, one call delivers everything
(`ReturnedRunIsComplete`). No fairness is assumed of clients, of `reassign`, of
the transfers that `DataPlane` sees, or of crashes and recoveries. `RequestEnds`
is about links that lose nothing and servers that are up: the client has no
timeout, and nothing else could end its request.

## 4. What is proved

Every invariant, step property and refinement that a passing run checks, for
every value of the constants: any number of servers, shards, values, attempts,
retries, recoveries, clients and requests, any size of the reply cache, any
delays, link configurations, step limits and numbers of events, every choice of
links that lose or duplicate, and every set of timed phases. Assumed is only
what the modules state by `ASSUME`: coordinator, servers and clients are
different nodes, `NoData` and `NoValue` are no values, `NoRoute` is no server,
bounds are natural numbers (the step limit of `run` a positive one), faults are
on existing links and servers, and a link has at least one delay, none of them
negative, like the delays of timers (`EventLoop.schedule` raises otherwise). A
theorem that needs more says so.

| theorem | module | says |
|---|---|---|
| `TypeCorrect` | `BookkeepingProofs` | `[]TypeOK` |
| `CoordInvariant` | `BookkeepingProofs` | `[]CoordInv` |
| `MessagesAgree` | `BookkeepingProofs` | activations and cleanups are in flight only for completed attempts, aborts for aborted ones |
| `NothingOrphaned` | `BookkeepingProofs` | the undecided attempts are those the metadata names |
| `DecisionsAreFinal` | `BookkeepingProofs` | an attempt is decided once |
| `EpochInvariant` | `EpochProofs` | `[]EpochInv` |
| `NothingAhead` | `EpochProofs` | no copy and no message is ahead of the metadata |
| `AppearsByCommit` | `EpochProofs` | a server gets a shard only by a commit towards it |
| `EpochsCount` | `EpochProofs` | the epoch counts the decided attempts, completed and aborted |
| `TransferInvariant` * | `OwnershipProofs` | `[]TransferInv` |
| `OneServer` * (S1) | `OwnershipProofs` | at most one server serves a shard |
| `OwnerServes` * (S3, ownership) | `OwnershipProofs` | only the owner serves; nothing is said of its epoch (section 5) |
| `FrozenInTransfer` * (S4) | `OwnershipProofs` | nobody serves a shard in TRANSFER |
| `ServedDataIsCurrent` * | `OwnershipProofs` | a served shard has the last acknowledged PUT |
| `StorageInvariant` * | `StorageProofs` | `[]StorageInv` |
| `WritesAreStored` * | `StorageProofs` | no acknowledged PUT is lost |
| `Refinement` * | `RefinementProofs` | the transfer implements `Ownership` |
| `TimersInvariant` | `RefinementProofs` | `[]TimerInv` |
| `TimersImplement` | `RefinementProofs` | `TimersSpec => Spec`: tokens and callbacks implement the abstract timers |
| `TimersTypeCorrect`, `TokensFollow`, `CountsFollow`, `OneTimer` | `RefinementProofs` | the properties of `phase_timers` |
| `TimersOwnership` * | `RefinementProofs` | with the timers of the code, too, the transfer implements `Ownership` |
| `DataPlaneTypeCorrect` | `DataPlaneProofs` | `[]TypeOK` of `DataPlane` |
| `CacheTellsTheTruth` | `DataPlaneProofs` | an id that was never evicted ran once at its server if its cached answer is a success, and else never |
| `CacheAgrees` | `DataPlaneProofs` | cache and eviction order agree, and the limit is kept |
| `RequestInvariant` ** | `DataPlaneProofs` | `[]RequestInv` |
| `SingleInFlight` ** | `DataPlaneProofs` | a client waits for one thing at most |
| `VerdictsAreTrue` ** | `DataPlaneProofs` | a request counted as done ran once, one counted as failed never |
| `NetworkTypeCorrect` | `SimNetworkProofs` | `[]TypeOK` of `SimNetwork` |
| `DeliveryInvariant` | `SimNetworkProofs` | `[]DeliveryInv` |
| `BufferedAreChecked` | `SimNetworkProofs` | no buffered message without a check left to find it |
| `NothingLate` | `SimNetworkProofs` | nothing that waits is overdue |
| `CompleteRuns` | `SimNetworkProofs` | a run that returns has delivered everything |
| `NetworkImplementsNet` | `SimNetworkProofs` | the network in time implements the bag `Net` |

Those marked * assume *controlled faults*, `ControlledFaults` of
`ShardTransferInv`: no recovery, and no duplication on the links from the
coordinator to the servers. Loss, reordering, crashes, timeouts, and duplicates
of everything that servers send are allowed. Findings 1 and 2 show that neither
condition can be dropped from the code as it is. Those marked ** assume that no
link between clients and servers duplicates (`DupLinks = {}` of `DataPlane`);
links may lose messages. This cannot be dropped either: a reply names no
request, so the second copy of one decides the next request to the same server
(section 5). The others hold under every fault.

**The bookkeeping argument.** `CoordInv` says that the metadata of a shard in
a reassignment agrees with the record of the attempt it names, that an
undecided attempt is named by the metadata of its shard, that every attempt id
in a message or a copy belongs to an attempt at the same shard, and that
messages follow decisions. Each handler compares the attempt id before it
changes anything, so it acts on the named attempt only. No fault can break
this, because faults neither create messages nor change records.

**The epoch argument.** `NothingAheadOfMetadata` is not inductive: an Activate
could carry any epoch up to the one of the metadata. `EpochInv` orders the
attempts of a shard by their epochs and ties the epoch of every message and
every marked copy to the epoch of its attempt, plus one if it follows the
decision. `EpochsCount` adds the cardinality: each decision puts one attempt in
the set of decided ones and one on the epoch, in the same step.

**The ownership argument.** S1 is far from inductive: it says nothing of the
messages that will make a server serve. `TransferInv` adds four parts.

* *The token* (`TokenInv`). A held copy is *retired* when the attempt it is
  marked with has completed, and *live* otherwise. The right to serve is a
  live copy at the owner, or one `ActivateShard`, in one copy, towards the
  owner, never both. A commit retires the source and sends the Activate in the
  same step; an activation consumes the Activate and makes the copy live. This
  is where a duplicated Activate would break the proof.
* *The marks* (`MarkInv`). A copy that is not served is marked with an attempt
  that starts at its server; a retired copy stays in TRANSFER while its Activate
  is in flight; no abort in flight is a resynchronisation. The last part is
  where a recovery would break the proof.
* *The evidence* (`EvidenceInv`). A FreezeAck, a copy, or a TransferAck of an
  undecided attempt, and the phase TRANSFER itself, are evidence that the
  source is frozen for that very attempt, or has sent its copy too. Nothing
  but the decision of the attempt unfreezes the source. Hence a commit finds
  the source marked and frozen, and retiring it takes the only live copy.
* *The data* (`DataInv`). A live copy, and every copy that may still be
  activated, has the last write: a PUT needs a served shard, and while there is
  one no attempt has a copy that may be activated.

A server that serves has a live copy with no mark, so it is the owner (S1, S3 as far as ownership);
in TRANSFER the owner is marked, so nobody serves (S4).

**The storage argument.** Ownership says that what is served is current, not
that anything is stored: between a commit and its activation nobody serves, and
the Activate may be lost. `StorageInv` says where the register is then: in the
pending copy of the owner. No other copy replaces it, because no later attempt
leads back to that owner while it awaits activation (such an attempt would have
to leave from it first, and could not be frozen), and no abort removes it,
because every abort in flight belongs to another attempt. The rest keeps a late
`FreezeShard` of a completed attempt from freezing its source again: every
server is told an epoch only once (`ToldOnce`, `FreshEpoch`), so the source
never serves at the epoch of that attempt again (`LeftBehind`).

**The refinement.** `OwnershipRefinement` maps the register of a shard to the
live copy at its owner or, where there is none, to the pending copy. A PUT
writes it, a freeze suspends, a commit moves, an activation or a rollback
resumes, and every other step leaves all three as they are; `TransferInv`,
`StorageInv` and the invariants before them give the facts about each handler
(`CommitMoves`, `WritePuts`, `OneShard`).

**The timers.** `TokensFollowPhases` alone is not inductive: a callback with a
token that its key has not reached yet would become current by a restart, and
a TRANSFER callback queued in the phase FREEZE of the same attempt would wake
up. `TimerInv` rules both out, and says that the current callback is queued and
that counts are zero outside the phase they count. `PhaseStarts`, `PhaseEnds`
and `TimerRetry` are the three things that can happen to a timer; every step of
the protocol is one of them or leaves all timers alone. A callback that acts
then meets the guards of `Coordinator`'s timer, so that every behaviour is one
of `Spec` and all theorems above apply to it.

**The client.** `VerdictIsTrue` is not inductive, and neither is `OneInFlight`
beside it: a reply decides the pending request by its sender alone, so it has to
be known that the one reply in flight is about that request and tells what the
server did. `RequestInv` says so (`Truthful`), that a pending request is still
undecided and belongs to one client (`Undecided`), that it has not been
executed while its resend waits, and that numbers not given out have no
history (`FreshNumbers`). A client then has one message, one resend or nothing;
each handler consumes the one thing and makes at most one other. A request is
executed when its message is consumed, so a retry, which needs an error, is
never the second execution. What the shards do meanwhile does not matter: any
`Transfer` keeps the invariant.

**The cache.** `CacheInOrder` and `CachedAnswerIsTrue` need each other: an id
is executed only if it is not cached, and an id that is not cached and not
listed has been evicted or never executed. Eviction removes the head of the
order, which is the new id itself when the cache has size zero.

**The delivery argument.** `EveryBufferedIsChecked` compares two cardinalities
and says nothing of which check finds which message, so a step cannot be shown
to keep it. `DeliveryInv` has a *matching* instead: a one-to-one function from
the slots of a buffer to checks in the queue that run exactly when the message
is due. A copy that is sent extends it by its own check. A check takes any ready
message, maybe one that is matched with another check: both are due at the
time of the event, since nothing in a buffer is due before the first event of
the queue, so the message left behind inherits the match of the one that was
taken (`CheckFinds`). A check that finds nothing was no match of anything.
Clearing drops messages and leaves the checks. From the matching follow the
cardinalities, `NothingIsLate` (a match is never overdue, because the loop runs
the first event) and `ReturnedRunIsComplete` (a matching into an empty queue
has no slot).

**The bag.** `NetworkImplementsNet` counts for each message the deliveries in
the queue and the slots in the buffers. Each step changes the counts in one of
the four ways that `BagNext` allows: one message gains up to two copies, one
loses a copy and one gains, all lose their buffered copies, or nothing changes
(`NextStep`); the bags follow from the counts (`AddToBag`, `TakeFromBag`).
Removing a slot shifts the indices behind it, so the count there rests on a
bijection (`SlotTaken`). The mapping lets every link lose and duplicate; which
links do not is what `LossyLinks` and `DupLinks` say in the protocol modules.

The proofs follow the actions: frame lemmas reduce a step of the coordinator
that changes no server, and a step of one server on one shard, to the facts a
handler has to provide; there is one lemma for each handler. `NetProofs` has
the facts about bags they rest on.

**Only model-checked.** `ReassignmentEnds`, `InSyncAttemptCompletes`,
`RequestEnds`, `EveryCopyArrives` and the fairness part of
`ImplementsPhaseTimers`: liveness and enabledness are out of the prover's
reach. Every other property of a passing run is proved.

## 5. Findings

1. **A duplicated Activate makes a second server serve**
   (`duplicate_two_owners`). `_handle_activate_shard` (`server.py:576`)
   activates any pending copy of the right attempt. After the shard has been
   moved to A, then away and cleaned up, a delayed duplicate of the
   `TransferShard` re-creates the copy (no local shard is there to show that it
   is old) and a delayed duplicate of the `ActivateShard` makes A serve old
   data beside the owner. `README.md:255`: "At most one server serves a shard
   at any time"; `docs/design/01-system-model.md:22` allows duplicates.
2. **A resynchronisation unfreezes a running transfer**
   (`resync_two_owners`). `on_node_recover` (`coordinator.py:142`) sends the
   resynchronising abort also for a shard in FREEZE or TRANSFER, and the server
   rolls back whatever attempt it is frozen for, while the attempt goes on to
   commit. The shortest trace recovers a server that is up, as `recover_node`
   permits; it also happens when the attempt starts while the server is down
   and it recovers while the attempt is in its first phases. `README.md:244`
   and `README.md:255` promise otherwise.
3. **A late abort takes a server back to an older epoch**
   (`late_abort_stale_epoch`). `_handle_abort_reconfiguration`
   (`server.py:660`) does not compare epochs for an unmarked shard. In the trace
   attempt 1 is aborted, attempt 2 completes at epoch 3, and the abort of
   attempt 1 reaches the target after its activation. The new owner then serves
   at epoch 2, at which the old owner served until it was frozen: it accepts
   requests with that epoch and rejects those with the current one, until the
   abort of a later attempt, or a resynchronisation, tells it the epoch anew.
   Two aborts that arrive in the wrong order do the same to an owner that keeps
   the shard. `README.md:258`: "Shard configurations never go backwards";
   `docs/design/02-invariants.md:4`: "For any shard s and epoch e, at most one
   process is authorized to serve operations for (s, e)"; line 15: "Stale epochs
   are rejected." At any one time the server is still the only one, and serves
   the current data (`OneServer`, `ServedDataIsCurrent`).
4. **With the default timeouts a reassignment can stall without any fault**
   (`overtaken_activate_stalls`). A `FreezeShard` that overtakes the
   `ActivateShard` of the previous attempt is dropped and never repeated when
   the timeouts are `None`. `docs/design/02-invariants.md:22`: any initiated
   reassignment eventually reaches STABLE. With timers `live_ends` holds.

**The epoch rises at an abort, too.** `docs/design/08-q-and-a.md:120` has the
epoch incremented "only at ownership commit" and
`docs/design/07-project-status.md:526` "only upon ownership commit".
`_abort_reconfiguration` (`coordinator.py:537`) raises it and keeps the owner;
line 479 of the latter document ("even on abort") and the tests agree with the
code. `EpochCountsDecisions` follows the code: its decided attempts include
aborted ones. What the two lines describe is the faulty variant
`AbortedOldEpoch`, which refutes it. The proofs rely on the code's choice: they
use that the attempts at a shard have different epochs (`EpochInv`).

S3 of `docs/design/02-invariants.md` (lines 7-15) has two halves: who serves is
the owner in the metadata, and the epoch it serves at is that of the metadata.
`OnlyOwnerServes`, and the theorem `OwnerServes`, state the first. The second
does not hold: an abort raises the epoch of the metadata at once, and an owner
that was not frozen serves at its old epoch until the message reaches it, or for
ever if it is lost; finding 3 takes a server back even further. What the code keeps is that
no server is ahead of the metadata (`NothingAheadOfMetadata`) and that each
request is compared with the epoch of the server (`Serves`).

S4 of `docs/design/02-invariants.md` also covers the phase FREEZE. The metadata
enters it before the owner has the `FreezeShard`, and the owner serves until
then (`docs/design/03-protocol.md:44`: in FREEZE the owner "is instructed to
freeze"). `NobodyServesInTransfer` states S4 for TRANSFER, where the code keeps
it.

What else the models show, without contradicting a promise that the code makes
precise:

* An `AbortReconfiguration` is sent once; if it is lost, or overtaken, the owner
  stays frozen, or at an old epoch, although the metadata says STABLE, and later
  attempts at the shard abort as well. A lost `TransferShard` is never sent
  again: the repeated `BeginTransfer` finds the shard in TRANSFER and is taken
  for a duplicate, so retries of that phase are in vain.
* When the `ActivateShard` of a committed attempt is lost, the pending copy is
  the only one of the shard, and a resynchronisation of its server deletes it
  (`server.py:683-686`). Without recoveries it stays (`LastWriteIsStored`).
* The client matches a reply by its sender only, and relies on having one
  request at a time (`docs/design/09-data-plane-design.md:110-121`). That is
  enough as long as no link duplicates: `OneInFlight` and `VerdictIsTrue` hold
  in `data_plane`, and with a duplicating link between client and server
  `VerdictIsTrue` does not: the second copy of a reply decides the next request
  to the same server.
* The reply cache is not transferred with its shard: the same request id is
  executed again by the next owner. `CachedAnswerIsTrue` is about one server.
  A refusal is cached like a success: the id stays refused until it is evicted.
* A token that is current and a phase and attempt that are current are the same
  thing (`TokensFollowPhases`), so each of the two checks in `_on_phase_timeout`
  would be enough without the other.
* A reordering link permutes only messages that are due at the same tick
  (`NothingIsLate`); overtaking comes from different delays, on any link whose
  `delay_min` is below its `delay_max`, although `network.py:189-190` calls a
  link without reordering FIFO.
* `run` raises when exactly `max_steps` events were run, also when the queue is
  empty by then. The converse, that it never returns with events waiting, is
  `ReturnedRunIsComplete`.

## 6. Not modelled

* `storage.py`: nothing uses it; servers keep a plain dictionary.
* `metrics/collector.py`: counts events of finished runs.
* The demos and `tools/fault_inject/runner.py`: they build simulations out of
  the parts above, print them and add no behaviour; the faults they inject are
  those of `SimNetwork` and `ShardTransfer`.
* `Network.unregister`, which nothing calls.
* Logs, and the list of replies a client collects for tests.
* Drop rules by message type: each is a case of a lossy link.
