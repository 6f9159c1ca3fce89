-------------------------------- MODULE Net --------------------------------
(***************************************************************************)
(* The simulated network (src/sim/network.py) as the protocol sees it.     *)
(*                                                                         *)
(* net is the bag of messages that are scheduled for delivery.  It is a    *)
(* bag because a retry sends a message that is equal to one still in       *)
(* flight.  Network.send decides the fate of a message once, when it is    *)
(* sent: a drop rule, a drop rate or a partition loses it, and a duplicate *)
(* rate schedules it a second time.  Delays are drawn from an interval     *)
(* and a reordering link picks any ready message, so deliveries happen in  *)
(* any order.                                                              *)
(***************************************************************************)
EXTENDS Naturals, FiniteSets, Bags

CONSTANTS
    LossyLinks,   \* links <<src, dst>> that may lose a message
    DupLinks      \* links <<src, dst>> that may deliver a message twice

VARIABLE net

NetInit == net = EmptyBag

MayLose(m)      == <<m.src, m.dst>> \in LossyLinks
MayDuplicate(m) == <<m.src, m.dst>> \in DupLinks

(***************************************************************************)
(* What the network may schedule when the messages of S are sent: no copy  *)
(* of a lost message, two of a duplicated one, one of every other.         *)
(***************************************************************************)
Transmissions(S) ==
    {c \in UNION {[T -> {1, 2}] : T \in SUBSET S} :
        \A m \in S : /\ m \notin DOMAIN c => MayLose(m)
                     /\ m \in DOMAIN c /\ c[m] = 2 => MayDuplicate(m)}

(***************************************************************************)
(* Send the messages of S, in a step that no message triggers.             *)
(***************************************************************************)
Send(S) == \E c \in Transmissions(S) : net' = net (+) c

(***************************************************************************)
(* Deliver one copy of m; its handler sends the messages of S.             *)
(***************************************************************************)
Receive(m, S) == \E c \in Transmissions(S) : net' = (net (-) SetToBag({m})) (+) c
=============================================================================
