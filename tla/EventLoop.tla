----------------------------- MODULE EventLoop -----------------------------
(***************************************************************************)
(* The discrete-event loop (src/sim/event_loop.py): a queue of events that *)
(* are run in the order of their times, and of their insertion at equal    *)
(* times.  Time stands still between two events, and between two runs.     *)
(***************************************************************************)
EXTENDS Naturals, Sequences

CONSTANTS
    MaxSteps,    \* the argument of run
    MaxEvents    \* bound: events scheduled in one behaviour

ASSUME LoopAssumption == /\ MaxSteps \in Nat \ {0}
                         /\ MaxEvents \in Nat

VARIABLES
    time,      \* EventLoop.time
    queue,     \* _queue: the events that wait, as a set
    nextId,    \* _counter
    steps,     \* local variable of run
    mode       \* whether run is active, and how the last call of it ended

loopVars == <<time, queue, nextId, steps, mode>>

LoopInit ==
    /\ time = 0
    /\ queue = {}
    /\ nextId = 0
    /\ steps = 0
    /\ mode = "idle"

(***************************************************************************)
(* schedule, for a sequence of calls [due, call] in the order they are     *)
(* made; waiting are the events that wait already.                         *)
(***************************************************************************)
Schedule(waiting, calls) ==
    /\ nextId + Len(calls) <= MaxEvents
    /\ queue' = waiting \cup {[time |-> calls[i].due,
                               id   |-> nextId + i,
                               call |-> calls[i].call] : i \in DOMAIN calls}
    /\ nextId' = nextId + Len(calls)

-----------------------------------------------------------------------------
(* run *)

PrecedesByInsertion(e, f) == e.id < f.id                \* faulty variant

Precedes(e, f) == \/ e.time < f.time
                  \/ e.time = f.time /\ e.id < f.id

First(e) == \A f \in queue \ {e} : Precedes(e, f)

StartRun ==
    /\ mode # "running"
    /\ mode' = "running"
    /\ steps' = 0
    /\ UNCHANGED <<time, queue, nextId>>

MayStepOnceMore(k) == k <= MaxSteps                     \* faulty variant
MayStep(k)         == k < MaxSteps

(***************************************************************************)
(* One turn of the loop takes e off the queue; its callback is the rest of *)
(* the step.                                                               *)
(***************************************************************************)
Take(e) ==
    /\ mode = "running"
    /\ MayStep(steps)
    /\ First(e)
    /\ time' = e.time
    /\ steps' = steps + 1
    /\ UNCHANGED mode

RaisesLate(k) == k > MaxSteps                           \* faulty variant
Raises(k)     == k >= MaxSteps

(***************************************************************************)
(* It raises after MaxSteps events, also when the queue is empty by then.  *)
(***************************************************************************)
EndRun ==
    /\ mode = "running"
    /\ queue = {} \/ ~MayStep(steps)
    /\ mode' = IF Raises(steps) THEN "raised" ELSE "returned"
    /\ UNCHANGED <<time, queue, nextId, steps>>
=============================================================================
