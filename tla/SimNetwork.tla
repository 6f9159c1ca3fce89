----------------------------- MODULE SimNetwork -----------------------------
(***************************************************************************)
(* The simulated network in time (src/sim/network.py over event_loop.py,   *)
(* with the fault schedule of src/sim/harness.py).  Net, which the         *)
(* protocol modules use, is its abstraction: a bag of messages in flight.  *)
(*                                                                         *)
(* A message is known by the event number at which it was sent.  A node    *)
(* that handles a message or runs a timer may send one message.            *)
(***************************************************************************)
EXTENDS EventLoop, FiniteSets, FiniteSetsExt, SequencesExt

CONSTANTS
    Nodes,          \* node ids
    Delays,         \* delays of the timers
    NoConfig,       \* the configuration made of the global defaults
    LinkConfigs     \* the configurations a scenario sets

Links == {l \in Nodes \X Nodes : l[1] # l[2]}

(***************************************************************************)
(* A rate only says whether the fault may happen.  The partition window is *)
(* partition_start_time .. partition_end_time - 1, empty without one.      *)
(***************************************************************************)
Config == [lossy     : BOOLEAN,
           delays    : SUBSET Nat,
           reorder   : BOOLEAN,
           duplicate : BOOLEAN,
           dupDelay  : Nat,
           partition : SUBSET Nat]

ASSUME ConfigAssumption == \A c \in LinkConfigs \cup {NoConfig} :
    /\ DOMAIN c = DOMAIN [lossy |-> 0, delays |-> 0, reorder |-> 0,
                          duplicate |-> 0, dupDelay |-> 0, partition |-> 0]
    /\ c.delays # {} /\ c.delays \subseteq Nat
    /\ c.partition \subseteq Nat
    /\ c.dupDelay \in Nat
    /\ {c.lossy, c.reorder, c.duplicate} \subseteq BOOLEAN

(* EventLoop.schedule raises for a negative delay. *)
ASSUME DelaysAssumption == Delays \subseteq Nat

VARIABLES
    alive,       \* Process.alive
    configs,     \* link_configs
    inFlight     \* in_flight: the buffers of the reordering links

vars == <<loopVars, alive, configs, inFlight>>

Message == {m \in [src : Nodes, dst : Nodes, seq : 0..MaxEvents] : m.src # m.dst}

Calls == [kind : {"deliver"}, msg : Message]
           \cup [kind : {"check"}, link : Links]
           \cup [kind : {"timer"}]

Event == [time : Nat, id : 1..MaxEvents, call : Calls]

TypeOK ==
    /\ time \in Nat
    /\ \A e \in queue : e \in Event
    /\ nextId \in 0..MaxEvents
    /\ steps \in 0..MaxSteps
    /\ mode \in {"idle", "running", "raised", "returned"}
    /\ alive \in [Nodes -> BOOLEAN]
    /\ configs \in [Links -> LinkConfigs \cup {NoConfig}]
    /\ inFlight \in [Links -> Seq([due : Nat, msg : Message])]

Init ==
    /\ LoopInit
    /\ alive = [n \in Nodes |-> TRUE]
    /\ configs = [l \in Links |-> NoConfig]
    /\ inFlight = [l \in Links |-> <<>>]

-----------------------------------------------------------------------------
LinkOf(m) == <<m.src, m.dst>>

(***************************************************************************)
(* Network.send at time now: when the copies of a message are due, none if *)
(* it is lost.                                                             *)
(***************************************************************************)
DueTimes(c, now) ==
    IF now \in c.partition THEN {<<>>}
    ELSE {<<now + d>> : d \in c.delays}
           \cup (IF c.lossy THEN {<<>>} ELSE {})
           \cup (IF c.duplicate
                 THEN {<<now + d, now + d + c.dupDelay>> : d \in c.delays}
                 ELSE {})

(***************************************************************************)
(* _schedule_delivery.  On a reordering link the copies wait in a buffer,  *)
(* and a check is scheduled for each.                                      *)
(***************************************************************************)
Arrival(c, m) == IF c.reorder THEN [kind |-> "check", link |-> LinkOf(m)]
                              ELSE [kind |-> "deliver", msg |-> m]

Buffered(c, m, buffers, due) ==
    IF c.reorder
    THEN [buffers EXCEPT ![LinkOf(m)] =
            @ \o [i \in DOMAIN due |-> [due |-> due[i], msg |-> m]]]
    ELSE buffers

SendAt(now, src, dst, waiting, buffers) ==
    LET m == [src |-> src, dst |-> dst, seq |-> nextId]
        c == configs[LinkOf(m)]
    IN  /\ alive[src]
        /\ \E due \in DueTimes(c, now) :
              /\ Schedule(waiting, [i \in DOMAIN due |->
                                      [due |-> due[i], call |-> Arrival(c, m)]])
              /\ inFlight' = Buffered(c, m, buffers, due)

(***************************************************************************)
(* What node n may do when it is called.                                   *)
(***************************************************************************)
Silent(waiting, buffers) ==
    /\ queue' = waiting
    /\ inFlight' = buffers
    /\ UNCHANGED nextId

React(now, n, waiting, buffers) ==
    \/ Silent(waiting, buffers)
    \/ \E dst \in Nodes \ {n} : SendAt(now, n, dst, waiting, buffers)

Receive(now, m, waiting, buffers) ==
    IF alive[m.dst] THEN React(now, m.dst, waiting, buffers)
                    ELSE Silent(waiting, buffers)

-----------------------------------------------------------------------------
(***************************************************************************)
(* The callbacks of the loop: a delivery, _deliver_with_reorder, a timer.  *)
(***************************************************************************)
DeliverEvent(e) ==
    /\ e.call.kind = "deliver"
    /\ Receive(e.time, e.call.msg, queue \ {e}, inFlight)
    /\ UNCHANGED <<alive, configs>>

ReadyBefore(l, now) ==                                  \* faulty variant
    {i \in DOMAIN inFlight[l] : inFlight[l][i].due < now}

Ready(l, now) == {i \in DOMAIN inFlight[l] : inFlight[l][i].due <= now}

RemainingNone(l, i) == <<>>                             \* faulty variant
Remaining(l, i)     == RemoveAt(inFlight[l], i)

CheckEvent(e) ==
    LET l     == e.call.link
        ready == Ready(l, e.time)
    IN  /\ e.call.kind = "check"
        /\ \/ /\ ready = {}
              /\ Silent(queue \ {e}, inFlight)
           \/ \E i \in ready :
                 Receive(e.time, inFlight[l][i].msg, queue \ {e},
                         [inFlight EXCEPT ![l] = Remaining(l, i)])
        /\ UNCHANGED <<alive, configs>>

(***************************************************************************)
(* What a scenario, a timer or an entry of the failure schedule does: have *)
(* a node send, crash or recover a node, configure links, schedule more.   *)
(***************************************************************************)
SetAlive(n, up, waiting) ==
    /\ alive' = [alive EXCEPT ![n] = up]
    /\ Silent(waiting, inFlight)
    /\ UNCHANGED configs

SetLinkConfig(l, c, waiting) ==
    /\ configs' = [configs EXCEPT ![l] = c]
    /\ Silent(waiting, inFlight)
    /\ UNCHANGED alive

(***************************************************************************)
(* clear_link_configs takes the buffered messages with it; their checks    *)
(* stay in the queue and find nothing, or a message that was sent later.   *)
(***************************************************************************)
ClearLinkConfigs(waiting) ==
    /\ configs' = [l \in Links |-> NoConfig]
    /\ Silent(waiting, [l \in Links |-> <<>>])
    /\ UNCHANGED alive

StartTimer(now, d, waiting) ==
    /\ Schedule(waiting, <<[due |-> now + d, call |-> [kind |-> "timer"]]>>)
    /\ UNCHANGED <<alive, configs, inFlight>>

Effect(now, waiting) ==
    \/ \E n \in Nodes : React(now, n, waiting, inFlight) /\ UNCHANGED <<alive, configs>>
    \/ \E n \in Nodes, up \in BOOLEAN : SetAlive(n, up, waiting)
    \/ \E l \in Links, c \in LinkConfigs : SetLinkConfig(l, c, waiting)
    \/ ClearLinkConfigs(waiting)
    \/ \E d \in Delays : StartTimer(now, d, waiting)

TimerEvent(e) ==
    /\ e.call.kind = "timer"
    /\ Effect(e.time, queue \ {e})

RunEvent == \E e \in queue : Take(e) /\ (DeliverEvent(e) \/ CheckEvent(e) \/ TimerEvent(e))

BeginRun == StartRun /\ UNCHANGED <<alive, configs, inFlight>>
FinishRun == EndRun /\ UNCHANGED <<alive, configs, inFlight>>

Between == /\ mode # "running"
           /\ Effect(time, queue)
           /\ mode' = "idle"
           /\ UNCHANGED <<time, steps>>

Next == RunEvent \/ BeginRun \/ FinishRun \/ Between

Spec == Init /\ [][Next]_vars

(***************************************************************************)
(* A scenario ends with a run.                                             *)
(***************************************************************************)
Fairness == WF_vars(BeginRun) /\ WF_vars(RunEvent) /\ WF_vars(FinishRun)

FairSpec == Spec /\ Fairness

-----------------------------------------------------------------------------
CheckOf(l, e)    == e.call.kind = "check" /\ e.call.link = l
DueBy(l, t)      == {i \in DOMAIN inFlight[l] : inFlight[l][i].due <= t}
ChecksBy(l, t)   == {e \in queue : CheckOf(l, e) /\ e.time <= t}

(* A check takes any ready message, perhaps one that another check was     *)
(* scheduled for: still, up to any time, a buffer never holds more         *)
(* messages that are due than checks are left to deliver them, also when   *)
(* the link is configured anew, or its buffer cleared, in between.         *)
EveryBufferedIsChecked ==
    \A l \in Links : \A t \in {e.time : e \in queue} \cup {time}
                              \cup {inFlight[l][i].due : i \in DOMAIN inFlight[l]} :
        Cardinality(DueBy(l, t)) <= Cardinality(ChecksBy(l, t))

(* Nothing is late: what waits is due now or later.  So a reordering link  *)
(* delays no message beyond its delivery time, and only permutes the       *)
(* messages that are due at the same time.                                 *)
NothingIsLate ==
    /\ \A e \in queue : e.time >= time
    /\ \A l \in Links : \A i \in DOMAIN inFlight[l] : inFlight[l][i].due >= time

(* A run that returns has delivered everything: no message, timer or fault *)
(* of the scenario is left behind when its result is looked at.            *)
ReturnedRunIsComplete ==
    mode = "returned" => queue = {} /\ \A l \in Links : inFlight[l] = <<>>

-----------------------------------------------------------------------------
(* Why: the invariant that makes the properties above inductive.           *)

(* Events have numbers of their own, of those given out.                   *)
Numbered == /\ IsFiniteSet(queue)
            /\ \A e \in queue : /\ e.id <= nextId
                                /\ \A f \in queue : f.id = e.id => f = e

(* A buffer holds messages of its own link.                                *)
OnOwnLink == \A l \in Links : \A i \in DOMAIN inFlight[l] :
                LinkOf(inFlight[l][i].msg) = l

(* The buffered messages can be matched with checks that run when they are *)
(* due.  A check that takes the message of another leaves its own behind,  *)
(* which is due at the same time, so the two trade places.                 *)
Matched(l) ==
    \E f \in [DOMAIN inFlight[l] -> {e \in queue : CheckOf(l, e)}] :
        /\ IsInjective(f)
        /\ \A i \in DOMAIN inFlight[l] : f[i].time = inFlight[l][i].due

DeliveryInv ==
    /\ Numbered
    /\ OnOwnLink
    /\ \A l \in Links : Matched(l)
    /\ NothingIsLate
    /\ ReturnedRunIsComplete

-----------------------------------------------------------------------------
(* The abstraction: a bag that holds every copy that waits, in the queue   *)
(* or in a buffer.                                                         *)

Deliveries(m) == {e \in queue : e.call.kind = "deliver" /\ e.call.msg = m}

BufferedCopies(m) == {i \in DOMAIN inFlight[LinkOf(m)] :
                         inFlight[LinkOf(m)][i].msg = m}

Queued == {e.call.msg : e \in {d \in queue : d.call.kind = "deliver"}}

Waiting == Queued \cup UNION {{inFlight[l][i].msg : i \in DOMAIN inFlight[l]}
                              : l \in Links}

InTransit == [m \in Waiting |-> Cardinality(Deliveries(m))
                                + Cardinality(BufferedCopies(m))]

Bag == INSTANCE Net WITH
          net        <- InTransit,
          LossyLinks <- Links,
          DupLinks   <- Links

(***************************************************************************)
(* A cleared network: what was buffered is lost, what is queued stays.     *)
(***************************************************************************)
Cleared == /\ configs' = [l \in Links |-> NoConfig]
           /\ InTransit' = [m \in Queued |-> Cardinality(Deliveries(m))]

BagNext == \/ \E m \in Message : Bag!Send({m})
           \/ \E m \in Waiting : \/ Bag!Receive(m, {})
                                 \/ \E r \in Message : Bag!Receive(m, {r})
           \/ Cleared

(* The protocol may think of the network as Net: a message is lost or      *)
(* doubled only when it is sent, and each copy is delivered once, unless   *)
(* the scenario clears the link configurations.                            *)
ImplementsNet == Bag!NetInit /\ [][BagNext]_InTransit

(* What the protocol modules take as fairness: every copy in flight is     *)
(* delivered in the end, by run and by the next run when that raised.      *)
EveryCopyArrives == \A m \in Message : m \in Waiting ~> m \notin Waiting
=============================================================================
