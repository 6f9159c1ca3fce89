-------------------------- MODULE SimNetworkProofs --------------------------
(***************************************************************************)
(* Nothing that waits in the simulated network is late or forgotten, and   *)
(* the network implements the bag that the protocol modules use.           *)
(*                                                                         *)
(* A callback works on a queue and on buffers that the loop has already    *)
(* taken something from, so the lemmas are about any queue q, buffers b,   *)
(* number n of events and time t.                                          *)
(***************************************************************************)
EXTENDS SimNetwork, FiniteSetTheorems, SequenceTheorems, TLAPS

Slot == [due : Nat, msg : Message]

(* The conjuncts of the invariant, for any queue and buffers.              *)
Events(q, n) ==
    /\ IsFiniteSet(q)
    /\ n \in 0..MaxEvents
    /\ \A e \in q : e \in Event /\ e.id <= n
    /\ \A e \in q : \A g \in q : g.id = e.id => g = e

Buffers(b) ==
    /\ b \in [Links -> Seq(Slot)]
    /\ \A l \in Links : \A i \in DOMAIN b[l] : LinkOf(b[l][i].msg) = l

Matching(f, q, b, l) ==
    /\ f \in [DOMAIN b[l] -> {e \in q : CheckOf(l, e)}]
    /\ \A i, j \in DOMAIN b[l] : f[i] = f[j] => i = j
    /\ \A i \in DOMAIN b[l] : f[i].time = b[l][i].due

HasMatching(q, b, l) == \E f : Matching(f, q, b, l)

NotBefore(q, t) == \A e \in q : e.time >= t

Waits(q, b, n, t) ==
    /\ Events(q, n)
    /\ Buffers(b)
    /\ \A l \in Links : HasMatching(q, b, l)
    /\ NotBefore(q, t)

(* How many copies of message x wait.                                      *)
DeliveriesIn(q, x) == {e \in q : e.call.kind = "deliver" /\ e.call.msg = x}

SlotsIn(b, x) == {i \in DOMAIN b[LinkOf(x)] : b[LinkOf(x)][i].msg = x}

Copies(q, b, x) == Cardinality(DeliveriesIn(q, x)) + Cardinality(SlotsIn(b, x))

(* From one queue and buffers to others, k copies of m come in or go.      *)
Gains(q, b, r, c, m, k) ==
    \A x \in Message : Copies(r, c, x) = Copies(q, b, x) + (IF x = m THEN k ELSE 0)

-----------------------------------------------------------------------------
(* Counting.                                                               *)

LEMMA MessageLink ==
  ASSUME NEW m \in Message
  PROVE  LinkOf(m) \in Links
  BY DEF Message, LinkOf, Links

(* The buffer of a link is a sequence of slots. *)
LEMMA BufferIsSequence ==
  ASSUME NEW b, Buffers(b), NEW l \in Links
  PROVE  /\ b[l] \in Seq(Slot)
         /\ Len(b[l]) \in Nat
         /\ DOMAIN b[l] = 1..Len(b[l])
         /\ \A i \in DOMAIN b[l] : b[l][i] \in Slot
  <1>1. b[l] \in Seq(Slot)
    BY DEF Buffers
  <1>. QED BY <1>1

(* The copies of a message that are buffered can be counted. *)
LEMMA SlotsFinite ==
  ASSUME NEW b, Buffers(b), NEW x \in Message
  PROVE  IsFiniteSet(SlotsIn(b, x))
  <1>1. IsFiniteSet(DOMAIN b[LinkOf(x)])
    BY MessageLink, BufferIsSequence, FS_Interval
  <1>. QED BY <1>1, FS_Subset DEF SlotsIn

(* So can those in the queue. *)
LEMMA DeliveriesFinite ==
  ASSUME NEW q, NEW n, Events(q, n), NEW x
  PROVE  IsFiniteSet(DeliveriesIn(q, x))
  BY FS_Subset DEF DeliveriesIn, Events

(* A new delivery is one more copy of its message, and nothing else is.    *)
LEMMA DeliveryCounts ==
  ASSUME NEW q, NEW n, Events(q, n), NEW b, Buffers(b), NEW e, e \notin q,
         e.call.kind = "deliver"
  PROVE  Gains(q, b, q \cup {e}, b, e.call.msg, 1)
  <1>. SUFFICES ASSUME NEW x \in Message
                PROVE  Copies(q \cup {e}, b, x)
                         = Copies(q, b, x) + (IF x = e.call.msg THEN 1 ELSE 0)
    BY DEF Gains
  <1>1. /\ IsFiniteSet(DeliveriesIn(q, x))
        /\ Cardinality(DeliveriesIn(q, x)) \in Nat
        /\ Cardinality(SlotsIn(b, x)) \in Nat
    BY DeliveriesFinite, SlotsFinite, FS_CardinalityType
  <1>2. CASE x = e.call.msg
    <2>1. /\ DeliveriesIn(q \cup {e}, x) = DeliveriesIn(q, x) \cup {e}
          /\ e \notin DeliveriesIn(q, x)
      BY <1>2 DEF DeliveriesIn
    <2>2. Cardinality(DeliveriesIn(q \cup {e}, x)) = Cardinality(DeliveriesIn(q, x)) + 1
      BY <1>1, <2>1, FS_AddElement
    <2>. QED BY <1>1, <1>2, <2>2 DEF Copies
  <1>3. CASE x # e.call.msg
    <2>1. DeliveriesIn(q \cup {e}, x) = DeliveriesIn(q, x)
      BY <1>3 DEF DeliveriesIn
    <2>. QED BY <1>1, <1>3, <2>1 DEF Copies
  <1>. QED BY <1>2, <1>3

(* Running one takes a copy away.                                          *)
LEMMA DeliveryTaken ==
  ASSUME NEW q, NEW n, Events(q, n), NEW b, Buffers(b), NEW e \in q,
         e.call.kind = "deliver"
  PROVE  Gains(q, b, q \ {e}, b, e.call.msg, -1)
  <1>. SUFFICES ASSUME NEW x \in Message
                PROVE  Copies(q \ {e}, b, x)
                         = Copies(q, b, x) + (IF x = e.call.msg THEN -1 ELSE 0)
    BY DEF Gains
  <1>1. /\ IsFiniteSet(DeliveriesIn(q, x))
        /\ Cardinality(DeliveriesIn(q, x)) \in Nat
        /\ Cardinality(SlotsIn(b, x)) \in Nat
    BY DeliveriesFinite, SlotsFinite, FS_CardinalityType
  <1>2. CASE x = e.call.msg
    <2>1. /\ DeliveriesIn(q \ {e}, x) = DeliveriesIn(q, x) \ {e}
          /\ e \in DeliveriesIn(q, x)
      BY <1>2 DEF DeliveriesIn
    <2>2. Cardinality(DeliveriesIn(q \ {e}, x)) = Cardinality(DeliveriesIn(q, x)) - 1
      BY <1>1, <2>1, FS_RemoveElement
    <2>. QED BY <1>1, <1>2, <2>2 DEF Copies
  <1>3. CASE x # e.call.msg
    <2>1. DeliveriesIn(q \ {e}, x) = DeliveriesIn(q, x)
      BY <1>3 DEF DeliveriesIn
    <2>. QED BY <1>1, <1>3, <2>1 DEF Copies
  <1>. QED BY <1>2, <1>3

(* Another event is no copy of a message.                                  *)
LEMMA OthersDoNotCount ==
  ASSUME NEW q, NEW r, NEW b, NEW e, e.call.kind # "deliver",
         r = q \cup {e} \/ r = q \ {e}
  PROVE  \A x : Copies(r, b, x) = Copies(q, b, x)
  <1>. SUFFICES ASSUME NEW x
                PROVE  Copies(r, b, x) = Copies(q, b, x)
    OBVIOUS
  <1>1. DeliveriesIn(r, x) = DeliveriesIn(q, x)
    BY DEF DeliveriesIn
  <1>. QED BY <1>1 DEF Copies

-----------------------------------------------------------------------------
(* Buffers: a message is appended, or taken out of the middle.             *)

LEMMA Appended ==
  ASSUME NEW s \in Seq(Slot), NEW x \in Slot
  PROVE  /\ s \o <<x>> \in Seq(Slot)
         /\ DOMAIN (s \o <<x>>) = DOMAIN s \cup {Len(s) + 1}
         /\ Len(s) + 1 \notin DOMAIN s
         /\ \A i \in DOMAIN s : (s \o <<x>>)[i] = s[i]
         /\ (s \o <<x>>)[Len(s) + 1] = x
  OBVIOUS

(* Two slots are appended at once as they would be one after the other. *)
LEMMA TwoAppended ==
  ASSUME NEW s \in Seq(Slot), NEW x \in Slot, NEW y \in Slot
  PROVE  s \o <<x, y>> = (s \o <<x>>) \o <<y>>
  <1>0. \A z \in Slot : <<z>> \in Seq(Slot)
    OBVIOUS
  <1>1. PICK p \in Seq(Slot), q \in Seq(Slot) : p = <<x>> /\ q = <<y>>
    BY <1>0
  <1>2. PICK r \in Seq(Slot) : r = <<x, y>>
    <2>1. <<x, y>> \in Seq(Slot)
      OBVIOUS
    <2>. QED BY <2>1
  <1>3. /\ Len(p) = 1 /\ p[1] = x
        /\ Len(q) = 1 /\ q[1] = y
        /\ Len(r) = 2 /\ r[1] = x /\ r[2] = y
    BY <1>1, <1>2
  <1>4. p \o q = r
    <2>1. /\ p \o q \in Seq(Slot)
          /\ Len(p \o q) = 2
          /\ \A i \in 1..2 : (p \o q)[i] = IF i <= 1 THEN p[i] ELSE q[i - 1]
      BY <1>3, ConcatProperties
    <2>2. \A i \in 1..Len(p \o q) : (p \o q)[i] = r[i]
      BY <1>3, <2>1
    <2>. QED BY <1>3, <2>1, <2>2, SeqEqual
  <1>5. (s \o p) \o q = s \o (p \o q)
    BY ConcatAssociative
  <1>. QED BY <1>1, <1>2, <1>4, <1>5

(* The index, before slot i was removed, of what is at j after it.         *)
Before(i, j) == IF j < i THEN j ELSE j + 1

(* Taking slot i out closes the gap. *)
LEMMA Removed ==
  ASSUME NEW s \in Seq(Slot), NEW i \in DOMAIN s
  PROVE  /\ RemoveAt(s, i) \in Seq(Slot)
         /\ DOMAIN RemoveAt(s, i) = 1..(Len(s) - 1)
         /\ \A j \in 1..(Len(s) - 1) : /\ RemoveAt(s, i)[j] = s[Before(i, j)]
                                       /\ Before(i, j) \in DOMAIN s \ {i}
  <1>. DEFINE u == SubSeq(s, 1, i - 1)
              v == SubSeq(s, i + 1, Len(s))
  <1>1. i \in 1..Len(s) /\ Len(s) \in Nat
    OBVIOUS
  <1>2. /\ u \in Seq(Slot)
        /\ Len(u) = i - 1
        /\ \A j \in 1..(i - 1) : u[j] = s[j]
    BY <1>1
  <1>3. /\ v \in Seq(Slot)
        /\ Len(v) = Len(s) - i
        /\ \A j \in 1..(Len(s) - i) : v[j] = s[i + j]
    BY <1>1
  <1>4. /\ u \o v \in Seq(Slot)
        /\ Len(u \o v) = Len(s) - 1
        /\ \A j \in 1..(Len(s) - 1) : (u \o v)[j] = s[Before(i, j)]
    <2>. HIDE DEF u, v
    <2>1. u \o v \in Seq(Slot) /\ Len(u \o v) = Len(s) - 1
      BY <1>1, <1>2, <1>3
    <2>2. ASSUME NEW j \in 1..(Len(s) - 1), j < i
          PROVE  (u \o v)[j] = s[j]
      BY <1>1, <1>2, <1>3, <2>2
    <2>3. ASSUME NEW j \in 1..(Len(s) - 1), ~(j < i)
          PROVE  (u \o v)[j] = s[j + 1]
      <3>1. (u \o v)[j] = v[j - (i - 1)]
        BY <1>1, <1>2, <1>3, <2>3
      <3>2. j - (i - 1) \in 1..(Len(s) - i) /\ i + (j - (i - 1)) = j + 1
        BY <1>1, <2>3
      <3>. QED BY <1>3, <3>1, <3>2
    <2>. QED BY <2>1, <2>2, <2>3 DEF Before
  <1>5. \A j \in 1..(Len(s) - 1) : Before(i, j) \in DOMAIN s \ {i}
    BY <1>1 DEF Before
  <1>6. RemoveAt(s, i) = u \o v
    BY DEF RemoveAt
  <1>. HIDE DEF u, v
  <1>7. PICK t \in Seq(Slot) : t = u \o v
    BY <1>4
  <1>8. DOMAIN t = 1..(Len(s) - 1)
    BY <1>4, <1>7
  <1>. QED BY <1>4, <1>5, <1>6, <1>7, <1>8

(* No two indices come from the same one, and only i has none.             *)
LEMMA BeforeIsOneToOne ==
  ASSUME NEW n \in Nat, NEW i \in 1..n
  PROVE  /\ \A j, k \in 1..(n - 1) : Before(i, j) = Before(i, k) => j = k
         /\ \A k \in (1..n) \ {i} : \E j \in 1..(n - 1) : Before(i, j) = k
  <1>1. \A j, k \in 1..(n - 1) : Before(i, j) = Before(i, k) => j = k
    BY DEF Before
  <1>2. ASSUME NEW k \in (1..n) \ {i}
        PROVE  \E j \in 1..(n - 1) : Before(i, j) = k
    <2>1. CASE k < i
      BY <2>1 DEF Before
    <2>2. CASE k > i
      <3>1. k - 1 \in 1..(n - 1) /\ Before(i, k - 1) = k
        BY <2>2 DEF Before
      <3>. QED BY <3>1
    <2>. QED BY <2>1, <2>2
  <1>. QED BY <1>1, <1>2

(* A slot more is one more copy of its message.                            *)
LEMMA SlotCounts ==
  ASSUME NEW q, NEW n, Events(q, n), NEW b, Buffers(b), NEW s \in Slot, NEW c,
         c = [b EXCEPT ![LinkOf(s.msg)] = @ \o <<s>>]
  PROVE  /\ Buffers(c)
         /\ Gains(q, b, q, c, s.msg, 1)
  <1>. DEFINE l == LinkOf(s.msg)
  <1>0. s.msg \in Message /\ l \in Links
    BY MessageLink DEF Slot
  <1>1. /\ b \in [Links -> Seq(Slot)]
        /\ b[l] \in Seq(Slot)
        /\ c \in [Links -> Seq(Slot)]
        /\ c[l] = b[l] \o <<s>>
        /\ \A k \in Links : k # l => c[k] = b[k]
    BY <1>0, Appended DEF Buffers
  <1>2. Buffers(c)
    <2>. SUFFICES ASSUME NEW k \in Links, NEW i \in DOMAIN c[k]
                  PROVE  LinkOf(c[k][i].msg) = k
      BY <1>1 DEF Buffers
    <2>1. CASE k = l
      BY <1>1, <2>1, Appended DEF Buffers
    <2>2. CASE k # l
      BY <1>1, <2>2 DEF Buffers
    <2>. QED BY <2>1, <2>2
  <1>3. ASSUME NEW x \in Message
        PROVE  Copies(q, c, x) = Copies(q, b, x) + (IF x = s.msg THEN 1 ELSE 0)
    <2>1. /\ IsFiniteSet(SlotsIn(b, x))
          /\ Cardinality(SlotsIn(b, x)) \in Nat
          /\ Cardinality(DeliveriesIn(q, x)) \in Nat
      BY DeliveriesFinite, SlotsFinite, FS_CardinalityType
    <2>2. CASE x = s.msg
      <3>1. /\ SlotsIn(c, x) = SlotsIn(b, x) \cup {Len(b[l]) + 1}
            /\ Len(b[l]) + 1 \notin SlotsIn(b, x)
        BY <1>1, <2>2, Appended DEF SlotsIn
      <3>2. Cardinality(SlotsIn(c, x)) = Cardinality(SlotsIn(b, x)) + 1
        BY <2>1, <3>1, FS_AddElement
      <3>. QED BY <2>1, <2>2, <3>2 DEF Copies
    <2>3. CASE x # s.msg
      <3>1. CASE LinkOf(x) = l
        <4>1. SlotsIn(c, x) = SlotsIn(b, x)
          BY <1>1, <2>3, <3>1, Appended DEF SlotsIn
        <4>. QED BY <2>1, <2>3, <4>1 DEF Copies
      <3>2. CASE LinkOf(x) # l
        <4>1. c[LinkOf(x)] = b[LinkOf(x)]
          BY <1>1, <3>2, MessageLink
        <4>2. SlotsIn(c, x) = SlotsIn(b, x)
          BY <4>1 DEF SlotsIn
        <4>. QED BY <2>1, <2>3, <4>2 DEF Copies
      <3>. QED BY <3>1, <3>2
    <2>. QED BY <2>2, <2>3
  <1>. QED BY <1>2, <1>3 DEF Gains

(* Taking a slot out takes a copy of its message.                          *)
LEMMA SlotTaken ==
  ASSUME NEW q, NEW n, Events(q, n), NEW b, Buffers(b),
         NEW l \in Links, NEW i \in DOMAIN b[l], NEW c,
         c = [b EXCEPT ![l] = RemoveAt(b[l], i)]
  PROVE  /\ Buffers(c)
         /\ Gains(q, b, q, c, b[l][i].msg, -1)
  <1>0. PICK s \in Seq(Slot) : s = b[l]
    BY BufferIsSequence
  <1>1. /\ DOMAIN s = 1..Len(s)
        /\ Len(s) \in Nat
        /\ i \in 1..Len(s)
        /\ \A j \in DOMAIN s : LinkOf(s[j].msg) = l
    BY <1>0 DEF Buffers
  <1>2. /\ b \in [Links -> Seq(Slot)]
        /\ c \in [Links -> Seq(Slot)]
        /\ c[l] = RemoveAt(s, i)
        /\ \A k \in Links : k # l => c[k] = b[k]
    BY <1>0, <1>1, Removed DEF Buffers
  <1>3. /\ DOMAIN c[l] = 1..(Len(s) - 1)
        /\ \A j \in 1..(Len(s) - 1) : /\ c[l][j] = s[Before(i, j)]
                                      /\ Before(i, j) \in DOMAIN s \ {i}
    <2>1. PICK t : t = RemoveAt(s, i)
      OBVIOUS
    <2>2. /\ DOMAIN t = 1..(Len(s) - 1)
          /\ \A j \in 1..(Len(s) - 1) : /\ t[j] = s[Before(i, j)]
                                        /\ Before(i, j) \in DOMAIN s \ {i}
      BY <1>1, <2>1, Removed
    <2>3. c[l] = t
      BY <1>2, <2>1
    <2>. QED BY <2>2, <2>3
  <1>4. Buffers(c)
    <2>. SUFFICES ASSUME NEW k \in Links, NEW j \in DOMAIN c[k]
                  PROVE  LinkOf(c[k][j].msg) = k
      BY <1>2 DEF Buffers
    <2>1. CASE k = l
      BY <1>1, <1>3, <2>1
    <2>2. CASE k # l
      BY <1>2, <2>2 DEF Buffers
    <2>. QED BY <2>1, <2>2
  <1>5. ASSUME NEW x \in Message
        PROVE  Copies(q, c, x) = Copies(q, b, x) + (IF x = s[i].msg THEN -1 ELSE 0)
    <2>1. /\ IsFiniteSet(SlotsIn(b, x))
          /\ Cardinality(SlotsIn(b, x)) \in Nat
          /\ Cardinality(DeliveriesIn(q, x)) \in Nat
      BY DeliveriesFinite, SlotsFinite, FS_CardinalityType
    <2>2. CASE LinkOf(x) # l
      <3>1. c[LinkOf(x)] = b[LinkOf(x)]
        BY <1>2, <2>2, MessageLink
      <3>2. SlotsIn(c, x) = SlotsIn(b, x) /\ x # s[i].msg
        BY <1>1, <2>2, <3>1 DEF SlotsIn
      <3>. QED BY <2>1, <3>2 DEF Copies
    <2>3. CASE LinkOf(x) = l
      <3>. DEFINE S == SlotsIn(c, x)
                  T == SlotsIn(b, x) \ {i}
                  f == [j \in S |-> Before(i, j)]
      <3>1. S = {j \in 1..(Len(s) - 1) : s[Before(i, j)].msg = x}
        BY <1>3, <2>3 DEF SlotsIn
      <3>2. T = {j \in (1..Len(s)) \ {i} : s[j].msg = x}
        BY <1>0, <1>1, <2>3 DEF SlotsIn
      <3>3. /\ \A j \in S : Before(i, j) \in T
            /\ \A j, k \in S : Before(i, j) = Before(i, k) => j = k
            /\ \A k \in T : \E j \in S : Before(i, j) = k
        <4>. HIDE DEF S, T
        <4>1. S \subseteq 1..(Len(s) - 1) /\ T \subseteq (1..Len(s)) \ {i}
          BY <3>1, <3>2
        <4>2. \A j \in S : Before(i, j) \in T
          BY <1>1, <1>3, <3>1, <3>2
        <4>3. \A j, k \in S : Before(i, j) = Before(i, k) => j = k
          BY <1>1, <4>1, BeforeIsOneToOne
        <4>4. \A k \in T : \E j \in S : Before(i, j) = k
          <5>. TAKE k \in T
          <5>1. PICK j \in 1..(Len(s) - 1) : Before(i, j) = k
            BY <1>1, <4>1, BeforeIsOneToOne
          <5>. QED BY <3>1, <3>2, <5>1
        <4>. QED BY <4>2, <4>3, <4>4
      <3>4. /\ f \in [S -> T]
            /\ IsInjective(f)
            /\ \A k \in T : \E j \in S : f[j] = k
        <4>. HIDE DEF S, T
        <4>. QED BY <3>3 DEF IsInjective
      <3>5. f \in Bijection(S, T)
        BY <3>4 DEF Bijection, Injection, Surjection
      <3>6. Cardinality(S) = Cardinality(T)
        <4>. HIDE DEF S, T, f
        <4>1. IsFiniteSet(T)
          BY <2>1, FS_RemoveElement DEF T
        <4>2. ExistsBijection(S, T)
          BY <3>5 DEF ExistsBijection
        <4>3. f \in Injection(S, T)
          BY <3>5 DEF Bijection
        <4>4. IsFiniteSet(S)
          BY <4>1, <4>3, FS_Injection
        <4>. QED BY <4>2, <4>4, FS_Bijection
      <3>7. i \in SlotsIn(b, x) <=> x = s[i].msg
        BY <1>0, <1>1, <2>3 DEF SlotsIn
      <3>8. Cardinality(T)
              = Cardinality(SlotsIn(b, x)) + (IF x = s[i].msg THEN -1 ELSE 0)
        <4>1. Cardinality(T) = IF i \in SlotsIn(b, x) THEN Cardinality(SlotsIn(b, x)) - 1
                                                     ELSE Cardinality(SlotsIn(b, x))
          BY <2>1, FS_RemoveElement
        <4>. QED BY <2>1, <3>7, <4>1
      <3>. QED BY <2>1, <3>6, <3>8 DEF Copies
    <2>. QED BY <2>2, <2>3
  <1>. QED BY <1>0, <1>4, <1>5 DEF Gains

-----------------------------------------------------------------------------
(* Scheduling keeps what waits in order.                                   *)

LEMMA EventAdded ==
  ASSUME NEW q, NEW n, Events(q, n), NEW e \in Event, e.id = n + 1
  PROVE  Events(q \cup {e}, n + 1) /\ e \notin q
  <1>0. n \in Nat /\ n + 1 \in 0..MaxEvents
    BY LoopAssumption DEF Events, Event
  <1>1. IsFiniteSet(q \cup {e})
    BY FS_AddElement DEF Events
  <1>2. ASSUME NEW g \in q PROVE g.id <= n /\ g.id \in Nat
    BY DEF Events, Event
  <1>3. e \notin q
    BY <1>0, <1>2
  <1>. QED BY <1>0, <1>1, <1>2, <1>3 DEF Events

(* An event that is taken off leaves the others in order. *)
LEMMA EventTaken ==
  ASSUME NEW q, NEW n, Events(q, n), NEW e
  PROVE  Events(q \ {e}, n)
  BY FS_RemoveElement DEF Events

(* An event that is no copy of a message: a timer.                         *)
LEMMA EventWaits ==
  ASSUME NEW q, NEW b, NEW n, NEW t, Waits(q, b, n, t),
         NEW e \in Event, e.id = n + 1, e.time >= t
  PROVE  Waits(q \cup {e}, b, n + 1, t)
  <1>1. ASSUME NEW l \in Links PROVE HasMatching(q \cup {e}, b, l)
    <2>. PICK f : Matching(f, q, b, l)
      BY DEF Waits, HasMatching
    <2>. Matching(f, q \cup {e}, b, l)
      BY DEF Matching
    <2>. QED BY DEF HasMatching
  <1>. QED BY <1>1, EventAdded DEF Waits, NotBefore

(* _schedule_delivery, for one copy: at its delivery time there is one     *)
(* event more, the delivery itself or the check that is to find it.        *)
CopyEvent(r, m, d, n) ==
    [time |-> d, id |-> n + 1,
     call |-> IF r THEN [kind |-> "check", link |-> LinkOf(m)]
                   ELSE [kind |-> "deliver", msg |-> m]]

CopySlot(r, m, d, b) ==
    IF r THEN [b EXCEPT ![LinkOf(m)] = @ \o <<[due |-> d, msg |-> m]>>] ELSE b

(* One copy more keeps what waits in order and counts as one. *)
LEMMA CopyWaits ==
  ASSUME NEW q, NEW b, NEW n \in Nat, NEW t \in Nat, Waits(q, b, n, t), n + 1 <= MaxEvents,
         NEW m \in Message, NEW r \in BOOLEAN, NEW d \in Nat, d >= t
  PROVE  /\ Waits(q \cup {CopyEvent(r, m, d, n)}, CopySlot(r, m, d, b), n + 1, t)
         /\ Gains(q, b, q \cup {CopyEvent(r, m, d, n)}, CopySlot(r, m, d, b), m, 1)
  <1>0. PICK e : e = CopyEvent(r, m, d, n)
    OBVIOUS
  <1>1. LinkOf(m) \in Links
    BY MessageLink
  <1>2. e.call \in Calls
    BY <1>0, <1>1 DEF CopyEvent, Calls
  <1>3. e \in Event /\ e.id = n + 1 /\ e.time = d
    BY <1>0, <1>2, LoopAssumption DEF CopyEvent, Event
  <1>4. Events(q \cup {e}, n + 1) /\ e \notin q
    BY <1>3, EventAdded DEF Waits
  <1>5. CASE ~r
    <2>1. Waits(q \cup {e}, b, n + 1, t)
      BY <1>3, EventWaits
    <2>2. e.call.kind = "deliver" /\ e.call.msg = m
      BY <1>0, <1>5 DEF CopyEvent
    <2>3. Gains(q, b, q \cup {e}, b, m, 1)
      BY <1>4, <2>2, DeliveryCounts DEF Waits
    <2>. QED BY <1>0, <1>5, <2>1, <2>3 DEF CopySlot
  <1>6. CASE r
    <2>0. PICK s : s = [due |-> d, msg |-> m]
      OBVIOUS
    <2>1. s \in Slot /\ s.msg = m /\ s.due = d
      BY <2>0 DEF Slot
    <2>2. PICK c : c = [b EXCEPT ![LinkOf(m)] = @ \o <<s>>]
      OBVIOUS
    <2>3. c = CopySlot(r, m, d, b)
      BY <1>6, <2>0, <2>2 DEF CopySlot
    <2>4. CheckOf(LinkOf(m), e) /\ e.call.kind # "deliver"
      BY <1>0, <1>6 DEF CopyEvent, CheckOf
    <2>5. Buffers(c) /\ Gains(q \cup {e}, b, q \cup {e}, c, m, 1)
      BY <1>4, <2>1, <2>2, SlotCounts DEF Waits
    <2>6. Gains(q, b, q \cup {e}, c, m, 1)
      BY <2>4, <2>5, OthersDoNotCount DEF Gains
    <2>7. ASSUME NEW l \in Links PROVE HasMatching(q \cup {e}, c, l)
      <3>1. PICK f : Matching(f, q, b, l)
        BY DEF Waits, HasMatching
      <3>2. CASE l # LinkOf(m)
        <4>1. c[l] = b[l]
          BY <2>2, <3>2 DEF Waits, Buffers
        <4>2. Matching(f, q \cup {e}, c, l)
          BY <3>1, <4>1 DEF Matching
        <4>. QED BY <4>2 DEF HasMatching
      <3>3. CASE l = LinkOf(m)
        <4>1. /\ c[l] = b[l] \o <<s>>
              /\ b[l] \in Seq(Slot)
          BY <2>2, <3>3 DEF Waits, Buffers
        <4>2. /\ DOMAIN c[l] = DOMAIN b[l] \cup {Len(b[l]) + 1}
              /\ Len(b[l]) + 1 \notin DOMAIN b[l]
              /\ \A i \in DOMAIN b[l] : c[l][i] = b[l][i]
              /\ c[l][Len(b[l]) + 1] = s
          BY <2>1, <4>1, Appended
        <4>3. PICK h : h = [i \in DOMAIN c[l] |-> IF i \in DOMAIN b[l] THEN f[i] ELSE e]
          OBVIOUS
        <4>4. \A i \in DOMAIN b[l] : h[i] = f[i] /\ f[i] \in q /\ CheckOf(l, f[i])
          BY <3>1, <4>2, <4>3 DEF Matching
        <4>5. h[Len(b[l]) + 1] = e
          BY <4>2, <4>3
        <4>6. h \in [DOMAIN c[l] -> {g \in q \cup {e} : CheckOf(l, g)}]
          BY <2>4, <3>3, <4>2, <4>3, <4>4, <4>5
        <4>7. \A i, j \in DOMAIN c[l] : h[i] = h[j] => i = j
          BY <1>4, <3>1, <4>2, <4>4, <4>5 DEF Matching
        <4>8. \A i \in DOMAIN c[l] : h[i].time = c[l][i].due
          BY <1>3, <2>1, <3>1, <4>2, <4>4, <4>5 DEF Matching
        <4>9. Matching(h, q \cup {e}, c, l)
          BY <4>6, <4>7, <4>8 DEF Matching
        <4>. QED BY <4>9 DEF HasMatching
      <3>. QED BY <3>2, <3>3
    <2>8. NotBefore(q \cup {e}, t)
      BY <1>3 DEF Waits, NotBefore
    <2>9. Waits(q \cup {e}, c, n + 1, t)
      BY <1>4, <2>5, <2>7, <2>8 DEF Waits
    <2>. QED BY <1>0, <2>3, <2>6, <2>9
  <1>. QED BY <1>5, <1>6

-----------------------------------------------------------------------------
(* Running the next event does too.                                        *)

LEMMA NextTaken ==
  ASSUME NEW q, NEW b, NEW n, NEW t, Waits(q, b, n, t),
         NEW e \in q, NotBefore(q, e.time),
         \A l \in Links : CheckOf(l, e) => \A i \in DOMAIN b[l] : b[l][i].due > e.time
  PROVE  Waits(q \ {e}, b, n, e.time)
  <1>1. ASSUME NEW l \in Links PROVE HasMatching(q \ {e}, b, l)
    <2>1. PICK f : Matching(f, q, b, l)
      BY DEF Waits, HasMatching
    <2>2. ASSUME NEW i \in DOMAIN b[l] PROVE f[i] # e
      <3>1. CheckOf(l, f[i]) /\ f[i].time = b[l][i].due
        BY <2>1 DEF Matching
      <3>2. e.time \in Nat
        BY DEF Waits, Events, Event
      <3>. QED BY <3>1, <3>2
    <2>3. Matching(f, q \ {e}, b, l)
      BY <2>1, <2>2 DEF Matching
    <2>. QED BY <2>3 DEF HasMatching
  <1>. QED BY <1>1, EventTaken DEF Waits, NotBefore

(* A check that finds a message may find one that another check was        *)
(* scheduled for.  The match of the message it takes is then a match for   *)
(* the one it leaves behind.                                               *)
LEMMA CheckFinds ==
  ASSUME NEW q, NEW b, NEW n, NEW t, Waits(q, b, n, t),
         NEW e \in q, NotBefore(q, e.time), NEW l \in Links, CheckOf(l, e),
         NEW i \in DOMAIN b[l], b[l][i].due <= e.time, NEW c,
         c = [b EXCEPT ![l] = RemoveAt(b[l], i)]
  PROVE  Waits(q \ {e}, c, n, e.time)
  <1>0. /\ Events(q, n)
        /\ Buffers(b)
        /\ Buffers(c)
    BY SlotTaken DEF Waits
  <1>1. ASSUME NEW k \in Links, k # l PROVE HasMatching(q \ {e}, c, k)
    <2>1. PICK f : Matching(f, q, b, k)
      BY DEF Waits, HasMatching
    <2>2. c[k] = b[k]
      BY <1>0, <1>1 DEF Buffers
    <2>3. ASSUME NEW j \in DOMAIN b[k] PROVE f[j] # e
      BY <1>1, <2>1 DEF Matching, CheckOf
    <2>4. Matching(f, q \ {e}, c, k)
      BY <2>1, <2>2, <2>3 DEF Matching
    <2>. QED BY <2>4 DEF HasMatching
  <1>2. HasMatching(q \ {e}, c, l)
    <2>1. PICK f : Matching(f, q, b, l)
      BY DEF Waits, HasMatching
    <2>2. PICK s \in Seq(Slot) : s = b[l]
      BY <1>0, BufferIsSequence
    <2>3. /\ DOMAIN s = 1..Len(s)
          /\ Len(s) \in Nat
          /\ i \in 1..Len(s)
          /\ c[l] = RemoveAt(s, i)
      BY <1>0, <2>2 DEF Buffers
    <2>4. /\ DOMAIN c[l] = 1..(Len(s) - 1)
          /\ \A j \in 1..(Len(s) - 1) : /\ c[l][j] = s[Before(i, j)]
                                        /\ Before(i, j) \in DOMAIN s \ {i}
      BY <2>3, Removed
    <2>5. /\ \A j \in DOMAIN s : f[j] \in q /\ CheckOf(l, f[j]) /\ f[j].time = s[j].due
          /\ \A j, k \in DOMAIN s : f[j] = f[k] => j = k
      BY <2>1, <2>2 DEF Matching
    <2>6. s[i].due = e.time
      <3>1. s[i].due \in Nat /\ e.time \in Nat /\ f[i].time >= e.time
        BY <2>2, <2>3, <2>5 DEF Waits, Events, Event, NotBefore, Slot
      <3>. QED BY <2>2, <2>3, <2>5, <3>1
    <2>7. PICK h : h = [j \in DOMAIN c[l] |->
                          IF f[Before(i, j)] = e THEN f[i] ELSE f[Before(i, j)]]
      OBVIOUS
    <2>8. ASSUME NEW j \in 1..(Len(s) - 1)
          PROVE  /\ h[j] = IF f[Before(i, j)] = e THEN f[i] ELSE f[Before(i, j)]
                 /\ Before(i, j) \in DOMAIN s \ {i}
                 /\ f[Before(i, j)] # f[i]
                 /\ h[j] \in q \ {e}
                 /\ CheckOf(l, h[j])
                 /\ h[j].time = c[l][j].due
      <3>1. h[j] = IF f[Before(i, j)] = e THEN f[i] ELSE f[Before(i, j)]
        BY <2>4, <2>7
      <3>2. f[Before(i, j)] # f[i] /\ Before(i, j) \in DOMAIN s /\ i \in DOMAIN s
        BY <2>3, <2>4, <2>5
      <3>3. CASE f[Before(i, j)] = e
        BY <2>3, <2>4, <2>5, <2>6, <3>1, <3>2, <3>3
      <3>4. CASE f[Before(i, j)] # e
        BY <2>4, <2>5, <3>1, <3>2, <3>4
      <3>. QED BY <2>4, <3>1, <3>2, <3>3, <3>4
    <2>9. \A j, k \in 1..(Len(s) - 1) : h[j] = h[k] => j = k
      <3>. SUFFICES ASSUME NEW j \in 1..(Len(s) - 1), NEW k \in 1..(Len(s) - 1),
                           h[j] = h[k]
                    PROVE  j = k
        OBVIOUS
      <3>1. f[Before(i, j)] = f[Before(i, k)]
        BY <2>8
      <3>2. Before(i, j) = Before(i, k)
        BY <2>5, <2>8, <3>1
      <3>. QED BY <2>3, <3>2, BeforeIsOneToOne
    <2>10. h \in [DOMAIN c[l] -> {g \in q \ {e} : CheckOf(l, g)}]
      BY <2>4, <2>7, <2>8
    <2>11. Matching(h, q \ {e}, c, l)
      BY <2>4, <2>8, <2>9, <2>10 DEF Matching
    <2>. QED BY <2>11 DEF HasMatching
  <1>. QED BY <1>0, <1>1, <1>2, EventTaken DEF Waits, NotBefore

(* Clearing the configurations leaves checks that have nothing to find.    *)
LEMMA ClearedWaits ==
  ASSUME NEW q, NEW b, NEW n, NEW t, Waits(q, b, n, t)
  PROVE  Waits(q, [l \in Links |-> <<>>], n, t)
  <1>. DEFINE c == [l \in Links |-> <<>>]
  <1>1. \A l \in Links : c[l] = <<>> /\ DOMAIN c[l] = {}
    OBVIOUS
  <1>2. Buffers(c)
    BY <1>1 DEF Buffers
  <1>3. ASSUME NEW l \in Links PROVE HasMatching(q, c, l)
    <2>1. PICK f : f = [i \in {} |-> i]
      OBVIOUS
    <2>2. Matching(f, q, c, l)
      <3>. HIDE DEF c
      <3>. QED BY <1>1, <2>1 DEF Matching
    <2>. QED BY <2>2 DEF HasMatching
  <1>. QED BY <1>2, <1>3 DEF Waits

(* Nothing buffered is due before the time of the loop.                    *)
LEMMA BufferedLater ==
  ASSUME NEW q, NEW b, NEW n, NEW t, Waits(q, b, n, t)
  PROVE  \A l \in Links : \A i \in DOMAIN b[l] : b[l][i].due >= t
  <1>. TAKE l \in Links
  <1>1. PICK f : Matching(f, q, b, l)
    BY DEF Waits, HasMatching
  <1>. TAKE i \in DOMAIN b[l]
  <1>2. f[i] \in q /\ f[i].time = b[l][i].due
    BY <1>1 DEF Matching
  <1>. QED BY <1>2 DEF Waits, NotBefore

-----------------------------------------------------------------------------
(* What a callback does to the queue and the buffers it is given.          *)

Configured == configs \in [Links -> LinkConfigs \cup {NoConfig}]

(* Network.send schedules no copy, one, or two, each due now or later.     *)
LEMMA DueLater ==
  ASSUME NEW c \in LinkConfigs \cup {NoConfig}, NEW now \in Nat,
         NEW due \in DueTimes(c, now)
  PROVE  \/ due = <<>>
         \/ \E d \in Nat : d >= now /\ due = <<d>>
         \/ \E d \in Nat, f \in Nat : d >= now /\ f >= now /\ due = <<d, f>>
  <1>1. c.delays \subseteq Nat /\ c.dupDelay \in Nat
    BY ConfigAssumption
  <1>2. CASE due = <<>>
    BY <1>2
  <1>3. ASSUME NEW d \in c.delays, due = <<now + d>>
        PROVE  \E g \in Nat : g >= now /\ due = <<g>>
    BY <1>1, <1>3
  <1>4. ASSUME NEW d \in c.delays, due = <<now + d, now + d + c.dupDelay>>
        PROVE  \E g \in Nat, f \in Nat : g >= now /\ f >= now /\ due = <<g, f>>
    <2>1. now + d \in Nat /\ now + d >= now
      BY <1>1
    <2>2. now + d + c.dupDelay \in Nat /\ now + d + c.dupDelay >= now
      BY <1>1
    <2>. QED BY <1>4, <2>1, <2>2
  <1>. QED BY <1>2, <1>3, <1>4 DEF DueTimes

(* Copies of one message are scheduled one after another.                  *)
LEMMA GainsOfBoth ==
  ASSUME NEW q, NEW b, NEW r, NEW c, NEW u, NEW v, NEW m, NEW j \in Int, NEW k \in Int,
         \A x \in Message : Copies(q, b, x) \in Int,
         Gains(q, b, r, c, m, j), Gains(r, c, u, v, m, k)
  PROVE  Gains(q, b, u, v, m, j + k)
  BY DEF Gains

(* A message has copies exactly if one is queued or buffered. *)
LEMMA CopiesCounted ==
  ASSUME NEW q, NEW n, Events(q, n), NEW b, Buffers(b), NEW x \in Message
  PROVE  /\ Copies(q, b, x) \in Nat
         /\ Copies(q, b, x) > 0 <=> \/ \E e \in q : e.call.kind = "deliver" /\ e.call.msg = x
                                    \/ \E i \in DOMAIN b[LinkOf(x)] : b[LinkOf(x)][i].msg = x
  <1>1. /\ IsFiniteSet(DeliveriesIn(q, x))
        /\ IsFiniteSet(SlotsIn(b, x))
        /\ Cardinality(DeliveriesIn(q, x)) \in Nat
        /\ Cardinality(SlotsIn(b, x)) \in Nat
    BY DeliveriesFinite, SlotsFinite, FS_CardinalityType
  <1>2. /\ Cardinality(DeliveriesIn(q, x)) = 0 <=> DeliveriesIn(q, x) = {}
        /\ Cardinality(SlotsIn(b, x)) = 0 <=> SlotsIn(b, x) = {}
    BY <1>1, FS_EmptySet
  <1>3. Copies(q, b, x) \in Nat
    BY <1>1 DEF Copies
  <1>4. Copies(q, b, x) > 0 <=> DeliveriesIn(q, x) # {} \/ SlotsIn(b, x) # {}
    BY <1>1, <1>2 DEF Copies
  <1>. QED BY <1>3, <1>4 DEF DeliveriesIn, SlotsIn

(* The message node src sends in a step in which nextId events were        *)
(* scheduled before.                                                       *)
Sent(src, dst) == [src |-> src, dst |-> dst, seq |-> nextId]

(* Network.send keeps what waits in order, and sends one message. *)
LEMMA SendingWaits ==
  ASSUME NEW w, NEW b, NEW now \in Nat, NEW src \in Nodes, NEW dst \in Nodes \ {src},
         Waits(w, b, nextId, now), Configured, SendAt(now, src, dst, w, b)
  PROVE  /\ Waits(queue', inFlight', nextId', now)
         /\ Sent(src, dst) \in Message
         /\ \E k \in 0..2 : Gains(w, b, queue', inFlight', Sent(src, dst), k)
  <1>0. PICK m : m = Sent(src, dst)
    OBVIOUS
  <1>1. nextId \in Nat /\ m \in Message /\ LinkOf(m) \in Links
    <2>1. nextId \in 0..MaxEvents
      BY DEF Waits, Events
    <2>. QED BY <1>0, <2>1, MessageLink, LoopAssumption DEF Sent, Message
  <1>2. PICK c \in LinkConfigs \cup {NoConfig} : c = configs[LinkOf(m)]
    BY <1>1 DEF Configured
  <1>3. PICK r \in BOOLEAN : r = c.reorder
    BY ConfigAssumption
  <1>4. PICK due \in DueTimes(c, now) :
              /\ Schedule(w, [i \in DOMAIN due |-> [due |-> due[i], call |-> Arrival(c, m)]])
              /\ inFlight' = Buffered(c, m, b, due)
    BY <1>0, <1>2 DEF SendAt, Sent
  <1>5. \A x \in Message : Copies(w, b, x) \in Nat
    BY CopiesCounted DEF Waits
  <1>6. CASE due = <<>>
    <2>1. queue' = w /\ nextId' = nextId
      BY <1>1, <1>4, <1>6 DEF Schedule
    <2>2. inFlight' = b
      <3>1. CASE r
        <4>1. b[LinkOf(m)] \in Seq(Slot)
          BY <1>1, BufferIsSequence DEF Waits
        <4>2. b[LinkOf(m)] \o [i \in DOMAIN due |-> [due |-> due[i], msg |-> m]]
                = b[LinkOf(m)]
          BY <1>6, <4>1
        <4>. QED BY <1>3, <1>4, <3>1, <4>2, <1>1 DEF Buffered, Waits, Buffers
      <3>2. CASE ~r
        BY <1>3, <1>4, <3>2 DEF Buffered
      <3>. QED BY <3>1, <3>2
    <2>3. Gains(w, b, queue', inFlight', m, 0)
      BY <1>5, <2>1, <2>2 DEF Gains
    <2>. QED BY <1>0, <1>1, <2>1, <2>2, <2>3
  <1>7. ASSUME NEW d \in Nat, d >= now, due = <<d>>
        PROVE  /\ Waits(queue', inFlight', nextId', now)
               /\ Gains(w, b, queue', inFlight', m, 1)
    <2>1. /\ queue' = w \cup {CopyEvent(r, m, d, nextId)}
          /\ nextId' = nextId + 1
          /\ nextId + 1 <= MaxEvents
      BY <1>1, <1>3, <1>4, <1>7 DEF Schedule, CopyEvent, Arrival
    <2>2. inFlight' = CopySlot(r, m, d, b)
      <3>1. CASE r
        <4>1. [i \in DOMAIN due |-> [due |-> due[i], msg |-> m]] = <<[due |-> d, msg |-> m]>>
          BY <1>7
        <4>. QED BY <1>3, <1>4, <3>1, <4>1 DEF Buffered, CopySlot
      <3>2. CASE ~r
        BY <1>3, <1>4, <3>2 DEF Buffered, CopySlot
      <3>. QED BY <3>1, <3>2
    <2>. QED BY <1>1, <1>7, <2>1, <2>2, CopyWaits
  <1>8. ASSUME NEW d \in Nat, NEW f \in Nat, d >= now, f >= now, due = <<d, f>>
        PROVE  /\ Waits(queue', inFlight', nextId', now)
               /\ Gains(w, b, queue', inFlight', m, 2)
    <2>1. PICK q : q = w \cup {CopyEvent(r, m, d, nextId)}
      OBVIOUS
    <2>2. PICK a : a = CopySlot(r, m, d, b)
      OBVIOUS
    <2>3. /\ queue' = q \cup {CopyEvent(r, m, f, nextId + 1)}
          /\ nextId' = nextId + 1 + 1
          /\ nextId + 1 + 1 <= MaxEvents
      <3>1. PICK calls : calls = [i \in DOMAIN due |-> [due |-> due[i], call |-> Arrival(c, m)]]
        OBVIOUS
      <3>2. /\ DOMAIN calls = {1, 2}
            /\ Len(calls) = 2
            /\ calls[1] = [due |-> d, call |-> Arrival(c, m)]
            /\ calls[2] = [due |-> f, call |-> Arrival(c, m)]
        BY <1>8, <3>1
      <3>3. /\ queue' = w \cup {[time |-> calls[i].due, id |-> nextId + i,
                                 call |-> calls[i].call] : i \in {1, 2}}
            /\ nextId' = nextId + 2
            /\ nextId + 2 <= MaxEvents
        BY <1>4, <3>1, <3>2 DEF Schedule
      <3>4. nextId + 1 + 1 = nextId + 2
        BY <1>1
      <3>. QED BY <1>1, <1>3, <2>1, <3>2, <3>3, <3>4 DEF CopyEvent, Arrival
    <2>4. inFlight' = CopySlot(r, m, f, a)
      <3>1. CASE r
        <4>1. PICK s \in Seq(Slot) : s = b[LinkOf(m)]
          BY <1>1, BufferIsSequence DEF Waits
        <4>2. [i \in DOMAIN due |-> [due |-> due[i], msg |-> m]]
                = <<[due |-> d, msg |-> m], [due |-> f, msg |-> m]>>
          BY <1>8
        <4>3. s \o <<[due |-> d, msg |-> m], [due |-> f, msg |-> m]>>
                = (s \o <<[due |-> d, msg |-> m]>>) \o <<[due |-> f, msg |-> m]>>
          <5>1. PICK x \in Slot, y \in Slot : /\ x = [due |-> d, msg |-> m]
                                             /\ y = [due |-> f, msg |-> m]
            BY <1>1 DEF Slot
          <5>2. s \o <<x, y>> = (s \o <<x>>) \o <<y>>
            BY TwoAppended
          <5>. QED BY <5>1, <5>2
        <4>4. inFlight' = [b EXCEPT ![LinkOf(m)] =
                             s \o <<[due |-> d, msg |-> m], [due |-> f, msg |-> m]>>]
          BY <1>3, <1>4, <3>1, <4>1, <4>2 DEF Buffered
        <4>5. a = [b EXCEPT ![LinkOf(m)] = s \o <<[due |-> d, msg |-> m]>>]
          BY <2>2, <3>1, <4>1 DEF CopySlot
        <4>6. b \in [Links -> Seq(Slot)]
          BY DEF Waits, Buffers
        <4>. QED BY <1>1, <3>1, <4>3, <4>4, <4>5, <4>6 DEF CopySlot
      <3>2. CASE ~r
        BY <1>3, <1>4, <2>2, <3>2 DEF Buffered, CopySlot
      <3>. QED BY <3>1, <3>2
    <2>5. nextId + 1 \in Nat /\ nextId + 1 <= MaxEvents
      BY <1>1, <2>3, LoopAssumption
    <2>6. Waits(q, a, nextId + 1, now) /\ Gains(w, b, q, a, m, 1)
      BY <1>1, <1>8, <2>1, <2>2, <2>5, CopyWaits
    <2>7. Waits(queue', inFlight', nextId', now) /\ Gains(q, a, queue', inFlight', m, 1)
      BY <1>1, <1>8, <2>5, <2>3, <2>4, <2>6, CopyWaits
    <2>8. Gains(w, b, queue', inFlight', m, 1 + 1)
      BY <1>5, <2>6, <2>7, GainsOfBoth
    <2>. QED BY <2>7, <2>8
  <1>. QED BY <1>0, <1>1, <1>6, <1>7, <1>8, DueLater

(* What may happen to the copies of the messages in a step: nothing; the   *)
(* copies of one message are scheduled; one copy is handled and the copies *)
(* of one message are scheduled; or the buffered ones are cleared.         *)
NoMove(w, b) == \A x \in Message : Copies(queue', inFlight', x) = Copies(w, b, x)

Sends(w, b) == \E r \in Message : \E k \in 0..2 : Gains(w, b, queue', inFlight', r, k)

Delivers ==
    \E m \in Message : \E r \in Message : \E k \in 0..2 :
        /\ Copies(queue, inFlight, m) > 0
        /\ \A x \in Message :
              Copies(queue', inFlight', x) = Copies(queue, inFlight, x)
                  + (IF x = m THEN -1 ELSE 0) + (IF x = r THEN k ELSE 0)

Clears(w) ==
    /\ configs' = [l \in Links |-> NoConfig]
    /\ inFlight' = [l \in Links |-> <<>>]
    /\ \A x \in Message : DeliveriesIn(queue', x) = DeliveriesIn(w, x)

(* A node that is called sends one message or none. *)
LEMMA ReactWaits ==
  ASSUME NEW w, NEW b, NEW now \in Nat, NEW n \in Nodes,
         Waits(w, b, nextId, now), Configured, React(now, n, w, b)
  PROVE  Waits(queue', inFlight', nextId', now) /\ (NoMove(w, b) \/ Sends(w, b))
  <1>1. CASE Silent(w, b)
    BY <1>1 DEF Silent, NoMove
  <1>2. ASSUME NEW dst \in Nodes \ {n}, SendAt(now, n, dst, w, b)
        PROVE  Waits(queue', inFlight', nextId', now) /\ Sends(w, b)
    BY <1>2, SendingWaits DEF Sends
  <1>. QED BY <1>1, <1>2 DEF React

(* So does a message that arrives, also at a node that is down. *)
LEMMA ReceiveWaits ==
  ASSUME NEW w, NEW b, NEW now \in Nat, NEW m \in Message,
         Waits(w, b, nextId, now), Configured, Receive(now, m, w, b)
  PROVE  Waits(queue', inFlight', nextId', now) /\ (NoMove(w, b) \/ Sends(w, b))
  <1>0. m.dst \in Nodes
    BY DEF Message
  <1>1. CASE Silent(w, b)
    BY <1>1 DEF Silent, NoMove
  <1>2. CASE React(now, m.dst, w, b)
    BY <1>0, <1>2, ReactWaits
  <1>. QED BY <1>1, <1>2 DEF Receive

(* The step that delivers a copy: w and b are left when it is taken.       *)
LEMMA DeliveryMoves ==
  ASSUME NEW w, NEW b, NEW m \in Message, Gains(queue, inFlight, w, b, m, -1),
         \A x \in Message : Copies(queue, inFlight, x) \in Nat /\ Copies(w, b, x) \in Nat,
         NoMove(w, b) \/ Sends(w, b)
  PROVE  Delivers
  <1>0. Copies(queue, inFlight, m) > 0
    BY DEF Gains
  <1>1. CASE NoMove(w, b)
    <2>1. \A x \in Message :
            Copies(queue', inFlight', x) = Copies(queue, inFlight, x)
                + (IF x = m THEN -1 ELSE 0) + (IF x = m THEN 0 ELSE 0)
      BY <1>1 DEF NoMove, Gains
    <2>. QED BY <1>0, <2>1 DEF Delivers
  <1>2. CASE Sends(w, b)
    <2>1. PICK r \in Message, k \in 0..2 : Gains(w, b, queue', inFlight', r, k)
      BY <1>2 DEF Sends
    <2>2. \A x \in Message :
            Copies(queue', inFlight', x) = Copies(queue, inFlight, x)
                + (IF x = m THEN -1 ELSE 0) + (IF x = r THEN k ELSE 0)
      BY <2>1 DEF Gains
    <2>. QED BY <1>0, <2>2 DEF Delivers
  <1>. QED BY <1>1, <1>2

(* What a timer or a scenario does keeps what waits in order. *)
LEMMA EffectWaits ==
  ASSUME NEW w, NEW now \in Nat, Waits(w, inFlight, nextId, now), Configured,
         alive \in [Nodes -> BOOLEAN], Effect(now, w)
  PROVE  /\ Waits(queue', inFlight', nextId', now)
         /\ Configured'
         /\ alive' \in [Nodes -> BOOLEAN]
         /\ NoMove(w, inFlight) \/ Sends(w, inFlight) \/ Clears(w)
  <1>1. ASSUME NEW n \in Nodes, React(now, n, w, inFlight), UNCHANGED <<alive, configs>>
        PROVE  /\ Waits(queue', inFlight', nextId', now)
               /\ Configured'
               /\ alive' \in [Nodes -> BOOLEAN]
               /\ NoMove(w, inFlight) \/ Sends(w, inFlight)
    <2>1. Configured' /\ alive' \in [Nodes -> BOOLEAN]
      BY <1>1 DEF Configured
    <2>. QED BY <1>1, <2>1, ReactWaits
  <1>2. ASSUME NEW n \in Nodes, NEW up \in BOOLEAN, SetAlive(n, up, w)
        PROVE  /\ Waits(queue', inFlight', nextId', now)
               /\ Configured'
               /\ alive' \in [Nodes -> BOOLEAN]
               /\ NoMove(w, inFlight)
    BY <1>2 DEF SetAlive, Silent, NoMove, Configured
  <1>3. ASSUME NEW l \in Links, NEW c \in LinkConfigs, SetLinkConfig(l, c, w)
        PROVE  /\ Waits(queue', inFlight', nextId', now)
               /\ Configured'
               /\ alive' \in [Nodes -> BOOLEAN]
               /\ NoMove(w, inFlight)
    BY <1>3 DEF SetLinkConfig, Silent, NoMove, Configured
  <1>4. CASE ClearLinkConfigs(w)
    <2>1. Waits(queue', inFlight', nextId', now)
      BY <1>4, ClearedWaits DEF ClearLinkConfigs, Silent
    <2>2. Configured' /\ alive' \in [Nodes -> BOOLEAN]
      BY <1>4 DEF ClearLinkConfigs, Silent, Configured
    <2>3. Clears(w)
      BY <1>4 DEF ClearLinkConfigs, Silent, Clears
    <2>. QED BY <2>1, <2>2, <2>3
  <1>5. ASSUME NEW d \in Delays, StartTimer(now, d, w)
        PROVE  /\ Waits(queue', inFlight', nextId', now)
               /\ Configured'
               /\ alive' \in [Nodes -> BOOLEAN]
               /\ NoMove(w, inFlight)
    <2>0. PICK e : e = [time |-> now + d, id |-> nextId + 1, call |-> [kind |-> "timer"]]
      OBVIOUS
    <2>1. /\ queue' = w \cup {e}
          /\ nextId' = nextId + 1
          /\ nextId + 1 <= MaxEvents
          /\ UNCHANGED <<alive, configs, inFlight>>
      BY <1>5, <2>0 DEF StartTimer, Schedule
    <2>2. nextId \in Nat /\ d \in Nat
      BY DelaysAssumption DEF Waits, Events
    <2>3. e \in Event /\ e.id = nextId + 1 /\ e.time >= now /\ e.call.kind # "deliver"
      BY <2>0, <2>1, <2>2, LoopAssumption DEF Event, Calls
    <2>4. Waits(queue', inFlight', nextId', now)
      BY <2>1, <2>3, EventWaits
    <2>5. NoMove(w, inFlight)
      BY <2>1, <2>3, OthersDoNotCount DEF NoMove
    <2>. QED BY <2>1, <2>4, <2>5 DEF Configured
  <1>. QED BY <1>1, <1>2, <1>3, <1>4, <1>5 DEF Effect

-----------------------------------------------------------------------------
(* The steps of the loop.                                                  *)

LoopOK ==
    /\ time \in Nat
    /\ steps \in 0..MaxSteps
    /\ mode \in {"idle", "running", "raised", "returned"}

Inv ==
    /\ LoopOK
    /\ alive \in [Nodes -> BOOLEAN]
    /\ Configured
    /\ Waits(queue, inFlight, nextId, time)
    /\ ReturnedRunIsComplete

Moves ==
    \/ NoMove(queue, inFlight)
    \/ Sends(queue, inFlight)
    \/ Delivers
    \/ Clears(queue)

(* The event that is taken is due before all others. *)
LEMMA TakenIsNext ==
  ASSUME Inv, NEW e \in queue, Take(e)
  PROVE  /\ e \in Event /\ e.time \in Nat /\ time' = e.time
         /\ NotBefore(queue, e.time)
         /\ LoopOK' /\ mode' = "running"
  <1>1. \A g \in queue : g \in Event
    BY DEF Inv, Waits, Events
  <1>2. \A g \in queue : g.time \in Nat
    BY <1>1 DEF Event
  <1>3. NotBefore(queue, e.time)
    <2>. SUFFICES ASSUME NEW g \in queue PROVE g.time >= e.time
      BY DEF NotBefore
    <2>1. CASE g = e
      BY <1>2, <2>1
    <2>2. CASE g # e
      BY <1>2, <2>2 DEF Take, First, Precedes
    <2>. QED BY <2>1, <2>2
  <1>4. LoopOK' /\ mode' = "running"
    BY <1>2, LoopAssumption DEF Inv, LoopOK, Take, MayStep
  <1>. QED BY <1>1, <1>2, <1>3, <1>4 DEF Take

(* Every message has a number of copies. *)
LEMMA AllCounted ==
  ASSUME Inv
  PROVE  \A x \in Message : Copies(queue, inFlight, x) \in Nat
  BY CopiesCounted DEF Inv, Waits

(* A delivery takes the copy it delivers. *)
LEMMA DeliverStep ==
  ASSUME Inv, NEW e \in queue, Take(e), DeliverEvent(e)
  PROVE  Inv' /\ Moves
  <1>1. e.call \in Calls /\ e.call.kind = "deliver"
    BY TakenIsNext DEF Event, DeliverEvent
  <1>2. e.call.msg \in Message
    BY <1>1 DEF Calls
  <1>3. Waits(queue \ {e}, inFlight, nextId, e.time)
    <2>1. \A l \in Links : ~CheckOf(l, e)
      BY <1>1 DEF CheckOf
    <2>. QED BY <2>1, TakenIsNext, NextTaken DEF Inv
  <1>4. /\ Waits(queue', inFlight', nextId', e.time)
        /\ NoMove(queue \ {e}, inFlight) \/ Sends(queue \ {e}, inFlight)
    BY <1>2, <1>3, TakenIsNext, ReceiveWaits DEF DeliverEvent, Inv
  <1>5. Gains(queue, inFlight, queue \ {e}, inFlight, e.call.msg, -1)
    BY <1>1, DeliveryTaken DEF Inv, Waits
  <1>6. Delivers
    <2>1. \A x \in Message : Copies(queue \ {e}, inFlight, x) \in Nat
      BY <1>3, CopiesCounted DEF Waits
    <2>. QED BY <1>2, <1>4, <1>5, <2>1, AllCounted, DeliveryMoves
  <1>7. alive' \in [Nodes -> BOOLEAN] /\ Configured'
    BY DEF DeliverEvent, Inv, Configured
  <1>. QED BY <1>4, <1>6, <1>7, TakenIsNext DEF Inv, Moves, ReturnedRunIsComplete

(* A check takes a copy that is due, or nothing. *)
LEMMA CheckStep ==
  ASSUME Inv, NEW e \in queue, Take(e), CheckEvent(e)
  PROVE  Inv' /\ Moves
  <1>1. e.call \in Calls /\ e.call.kind = "check"
    BY TakenIsNext DEF Event, CheckEvent
  <1>2. PICK l \in Links : l = e.call.link /\ CheckOf(l, e)
    BY <1>1 DEF Calls, CheckOf
  <1>3. /\ Events(queue, nextId)
        /\ Buffers(inFlight)
        /\ Events(queue \ {e}, nextId)
    BY EventTaken DEF Inv, Waits
  <1>4. inFlight[l] \in Seq(Slot) /\ \A i \in DOMAIN inFlight[l] : inFlight[l][i] \in Slot
    BY <1>3, BufferIsSequence
  <1>5. alive' \in [Nodes -> BOOLEAN] /\ Configured'
    BY DEF CheckEvent, Inv, Configured
  <1>6. CASE Ready(l, e.time) = {} /\ Silent(queue \ {e}, inFlight)
    <2>1. \A i \in DOMAIN inFlight[l] : inFlight[l][i].due > e.time
      <3>. TAKE i \in DOMAIN inFlight[l]
      <3>1. inFlight[l][i].due \in Nat /\ ~(inFlight[l][i].due <= e.time)
        BY <1>4, <1>6 DEF Ready, Slot
      <3>. QED BY <3>1, TakenIsNext
    <2>2. \A k \in Links : CheckOf(k, e) => k = l
      BY <1>2 DEF CheckOf
    <2>3. Waits(queue \ {e}, inFlight, nextId, e.time)
      BY <2>1, <2>2, TakenIsNext, NextTaken DEF Inv
    <2>4. Waits(queue', inFlight', nextId', e.time)
      BY <1>6, <2>3 DEF Silent
    <2>5. NoMove(queue, inFlight)
      BY <1>1, <1>6, OthersDoNotCount DEF NoMove, Silent
    <2>. QED BY <1>5, <2>4, <2>5, TakenIsNext DEF Inv, Moves, ReturnedRunIsComplete
  <1>7. ASSUME NEW i \in Ready(l, e.time),
               Receive(e.time, inFlight[l][i].msg, queue \ {e},
                       [inFlight EXCEPT ![l] = Remaining(l, i)])
        PROVE  Inv' /\ Moves
    <2>0. PICK c : c = [inFlight EXCEPT ![l] = RemoveAt(inFlight[l], i)]
      OBVIOUS
    <2>1. PICK m \in Message : m = inFlight[l][i].msg
      BY <1>4 DEF Ready, Slot
    <2>2. i \in DOMAIN inFlight[l] /\ inFlight[l][i].due <= e.time
      BY DEF Ready
    <2>3. Waits(queue \ {e}, c, nextId, e.time)
      BY <1>2, <2>0, <2>2, TakenIsNext, CheckFinds DEF Inv
    <2>4. Receive(e.time, m, queue \ {e}, c)
      BY <1>7, <2>0, <2>1 DEF Remaining
    <2>5. /\ Waits(queue', inFlight', nextId', e.time)
          /\ NoMove(queue \ {e}, c) \/ Sends(queue \ {e}, c)
      BY <2>3, <2>4, TakenIsNext, ReceiveWaits DEF Inv
    <2>6. Gains(queue, inFlight, queue, c, m, -1)
      BY <1>3, <2>0, <2>1, <2>2, SlotTaken
    <2>7. Gains(queue, inFlight, queue \ {e}, c, m, -1)
      <3>1. \A x : Copies(queue \ {e}, c, x) = Copies(queue, c, x)
        BY <1>1, OthersDoNotCount
      <3>. QED BY <2>6, <3>1 DEF Gains
    <2>8. Delivers
      <3>1. \A x \in Message : Copies(queue \ {e}, c, x) \in Nat
        BY <2>3, CopiesCounted DEF Waits
      <3>. QED BY <2>5, <2>7, <3>1, AllCounted, DeliveryMoves
    <2>. QED BY <1>5, <2>5, <2>8, TakenIsNext DEF Inv, Moves, ReturnedRunIsComplete
  <1>. QED BY <1>2, <1>6, <1>7 DEF CheckEvent

(* A timer is no copy of a message. *)
LEMMA TimerStep ==
  ASSUME Inv, NEW e \in queue, Take(e), TimerEvent(e)
  PROVE  Inv' /\ Moves
  <1>1. e.call.kind = "timer"
    BY DEF TimerEvent
  <1>2. Waits(queue \ {e}, inFlight, nextId, e.time)
    <2>1. \A l \in Links : ~CheckOf(l, e)
      BY <1>1 DEF CheckOf
    <2>. QED BY <2>1, TakenIsNext, NextTaken DEF Inv
  <1>3. /\ Waits(queue', inFlight', nextId', e.time)
        /\ Configured'
        /\ alive' \in [Nodes -> BOOLEAN]
        /\ \/ NoMove(queue \ {e}, inFlight)
           \/ Sends(queue \ {e}, inFlight)
           \/ Clears(queue \ {e})
    BY <1>2, TakenIsNext, EffectWaits DEF TimerEvent, Inv
  <1>4. \A x : Copies(queue \ {e}, inFlight, x) = Copies(queue, inFlight, x)
    BY <1>1, OthersDoNotCount
  <1>5. \A x : DeliveriesIn(queue \ {e}, x) = DeliveriesIn(queue, x)
    BY <1>1 DEF DeliveriesIn
  <1>6. NoMove(queue \ {e}, inFlight) => NoMove(queue, inFlight)
    BY <1>4 DEF NoMove
  <1>7. Sends(queue \ {e}, inFlight) => Sends(queue, inFlight)
    BY <1>4 DEF Sends, Gains
  <1>8. Clears(queue \ {e}) => Clears(queue)
    BY <1>5 DEF Clears
  <1>. QED BY <1>3, <1>6, <1>7, <1>8, TakenIsNext DEF Inv, Moves, ReturnedRunIsComplete

(* A scenario acts between two runs as a timer does. *)
LEMMA BetweenStep ==
  ASSUME Inv, Between
  PROVE  Inv' /\ Moves
  <1>1. /\ Waits(queue', inFlight', nextId', time)
        /\ Configured'
        /\ alive' \in [Nodes -> BOOLEAN]
        /\ Moves
    BY EffectWaits DEF Between, Inv, LoopOK, Moves
  <1>. QED BY <1>1 DEF Between, Inv, LoopOK, ReturnedRunIsComplete

(* Calling run changes nothing that waits. *)
LEMMA BeginRunStep ==
  ASSUME Inv, BeginRun
  PROVE  Inv' /\ Moves
  <1>1. LoopOK' /\ mode' = "running"
    BY LoopAssumption DEF BeginRun, StartRun, Inv, LoopOK
  <1>2. UNCHANGED <<time, queue, nextId, alive, configs, inFlight>>
    BY DEF BeginRun, StartRun
  <1>. QED BY <1>1, <1>2 DEF Inv, Configured, Moves, NoMove, ReturnedRunIsComplete

(* A run that returns has found its queue empty, and a matching into an    *)
(* empty queue leaves nothing in a buffer.                                 *)
LEMMA FinishRunStep ==
  ASSUME Inv, FinishRun
  PROVE  Inv' /\ Moves
  <1>1. LoopOK'
    BY DEF FinishRun, EndRun, Inv, LoopOK
  <1>2. UNCHANGED <<time, queue, nextId, alive, configs, inFlight>>
    BY DEF FinishRun, EndRun
  <1>3. mode' = "returned" => queue = {}
    BY LoopAssumption DEF FinishRun, EndRun, Raises, MayStep, Inv, LoopOK
  <1>4. ASSUME queue = {}, NEW l \in Links PROVE inFlight[l] = <<>>
    <2>1. PICK f : Matching(f, queue, inFlight, l)
      BY DEF Inv, Waits, HasMatching
    <2>2. DOMAIN inFlight[l] = {}
      BY <1>4, <2>1 DEF Matching
    <2>3. PICK s \in Seq(Slot) : s = inFlight[l]
      BY BufferIsSequence DEF Inv, Waits
    <2>4. s = <<>>
      <3>1. DOMAIN s = 1..Len(s) /\ DOMAIN s = {}
        BY <2>2, <2>3
      <3>2. ~(Len(s) \in Nat \ {0})
        <4>. SUFFICES ASSUME Len(s) \in Nat \ {0} PROVE FALSE
          OBVIOUS
        <4>1. 1 \in 1..Len(s)
          OBVIOUS
        <4>. QED BY <3>1, <4>1
      <3>. QED BY <3>2, EmptySeq
    <2>. QED BY <2>3, <2>4
  <1>5. ReturnedRunIsComplete'
    BY <1>2, <1>3, <1>4 DEF ReturnedRunIsComplete
  <1>. QED BY <1>1, <1>2, <1>5 DEF Inv, Configured, Moves, NoMove

(* Every step keeps the invariant and moves copies as the bag may. *)
LEMMA NextStep ==
  ASSUME Inv, [Next]_vars
  PROVE  Inv' /\ Moves
  <1>1. CASE RunEvent
    BY <1>1, DeliverStep, CheckStep, TimerStep DEF RunEvent
  <1>2. CASE BeginRun
    BY <1>2, BeginRunStep
  <1>3. CASE FinishRun
    BY <1>3, FinishRunStep
  <1>4. CASE Between
    BY <1>4, BetweenStep
  <1>5. CASE UNCHANGED vars
    BY <1>5 DEF vars, loopVars, Inv, LoopOK, Configured, Moves, NoMove, ReturnedRunIsComplete
  <1>. QED BY <1>1, <1>2, <1>3, <1>4, <1>5 DEF Next

(* Nothing waits initially. *)
LEMMA InitHolds == Init => Inv
  <1>. SUFFICES ASSUME Init PROVE Inv
    OBVIOUS
  <1>1. /\ queue = {} /\ nextId = 0 /\ time = 0
        /\ inFlight = [l \in Links |-> <<>>]
    BY DEF Init, LoopInit
  <1>2. Events(queue, nextId)
    BY <1>1, FS_EmptySet, LoopAssumption DEF Events
  <1>3. \A l \in Links : inFlight[l] = <<>> /\ DOMAIN inFlight[l] = {}
    BY <1>1
  <1>4. Buffers(inFlight)
    BY <1>1, <1>3 DEF Buffers
  <1>5. ASSUME NEW l \in Links PROVE HasMatching(queue, inFlight, l)
    <2>1. PICK f : f = [i \in {} |-> i]
      OBVIOUS
    <2>2. Matching(f, queue, inFlight, l)
      BY <1>3, <2>1 DEF Matching
    <2>. QED BY <2>2 DEF HasMatching
  <1>6. Waits(queue, inFlight, nextId, time)
    BY <1>1, <1>2, <1>4, <1>5 DEF Waits, NotBefore
  <1>. QED BY <1>6, LoopAssumption
       DEF Init, LoopInit, Inv, LoopOK, Configured, ReturnedRunIsComplete

(* The invariant, for every scenario and every choice of faults. *)
THEOREM Invariance == Spec => []Inv
  <1>1. Inv /\ [Next]_vars => Inv'
    BY NextStep
  <1>. QED BY <1>1, InitHolds, PTL DEF Spec

-----------------------------------------------------------------------------
(* What follows from the invariant.                                        *)

LEMMA TypeFollows == Inv => TypeOK
  BY DEF Inv, LoopOK, Configured, Waits, Events, Buffers, Slot, TypeOK

(* It contains the one that the run checks. *)
LEMMA DeliveryFollows == Inv => DeliveryInv
  <1>. SUFFICES ASSUME Inv PROVE DeliveryInv
    OBVIOUS
  <1>1. Numbered
    BY DEF Inv, Waits, Events, Numbered
  <1>2. OnOwnLink
    BY DEF Inv, Waits, Buffers, OnOwnLink
  <1>3. ASSUME NEW l \in Links PROVE Matched(l)
    <2>1. PICK f : Matching(f, queue, inFlight, l)
      BY DEF Inv, Waits, HasMatching
    <2>2. IsInjective(f)
      BY <2>1 DEF Matching, IsInjective
    <2>. QED BY <2>1, <2>2 DEF Matching, Matched
  <1>4. NothingIsLate
    BY BufferedLater DEF Inv, Waits, NotBefore, NothingIsLate
  <1>5. ReturnedRunIsComplete
    BY DEF Inv
  <1>. QED BY <1>1, <1>2, <1>3, <1>4, <1>5 DEF DeliveryInv

(* A matching counts: up to any time it maps the messages that are due to  *)
(* different checks that run by then.                                      *)
LEMMA CheckedFollows == Inv => EveryBufferedIsChecked
  <1>. SUFFICES ASSUME Inv, NEW l \in Links, NEW t
                PROVE  Cardinality(DueBy(l, t)) <= Cardinality(ChecksBy(l, t))
    BY DEF EveryBufferedIsChecked
  <1>1. PICK f : Matching(f, queue, inFlight, l)
    BY DEF Inv, Waits, HasMatching
  <1>. DEFINE h == [i \in DueBy(l, t) |-> f[i]]
  <1>2. h \in [DueBy(l, t) -> ChecksBy(l, t)] /\ IsInjective(h)
    BY <1>1 DEF Matching, DueBy, ChecksBy, IsInjective
  <1>3. h \in Injection(DueBy(l, t), ChecksBy(l, t))
    BY <1>2 DEF Injection
  <1>4. IsFiniteSet(ChecksBy(l, t))
    BY FS_Subset DEF ChecksBy, Inv, Waits, Events
  <1>. HIDE DEF h
  <1>. QED BY <1>3, <1>4, FS_Injection

-----------------------------------------------------------------------------
(* The theorems about what waits.                                          *)

(* The state of the network and the loop has its type: a copy is delivered *)
(* to another node than its sender, and every event has a number of its    *)
(* bound.                                                                  *)
THEOREM NetworkTypeCorrect == Spec => []TypeOK
  BY Invariance, TypeFollows, PTL

(* The inductive invariant that the run checks.                            *)
THEOREM DeliveryInvariant == Spec => []DeliveryInv
  BY Invariance, DeliveryFollows, PTL

(* _deliver_with_reorder never leaves a message without a check that will  *)
(* find it.                                                                *)
THEOREM BufferedAreChecked == Spec => []EveryBufferedIsChecked
  BY Invariance, CheckedFollows, PTL

(* Neither the queue nor a buffer holds anything that is overdue.          *)
THEOREM NothingLate == Spec => []NothingIsLate
  BY DeliveryInvariant, PTL DEF DeliveryInv

(* run returns only when everything was delivered.                         *)
THEOREM CompleteRuns == Spec => []ReturnedRunIsComplete
  BY DeliveryInvariant, PTL DEF DeliveryInv

-----------------------------------------------------------------------------
(* The refinement: what waits, counted by message, is the bag of Net.      *)

(* The bag of a counting function, and the bag of k copies of m.           *)
BagOf(F) == [x \in {y \in Message : F[y] > 0} |-> F[x]]

Some(m, k) == [x \in (IF k = 0 THEN {} ELSE {m}) |-> k]

Count(q, b) == [x \in Message |-> Copies(q, b, x)]

(* Copies that come in are added to the bag. *)
LEMMA AddToBag ==
  ASSUME NEW F \in [Message -> Nat], NEW m \in Message, NEW k \in 0..2
  PROVE  Bag!\oplus(BagOf(F), Some(m, k))
           = BagOf([x \in Message |-> F[x] + (IF x = m THEN k ELSE 0)])
  <1>1. PICK G : G = [x \in Message |-> F[x] + (IF x = m THEN k ELSE 0)]
    OBVIOUS
  <1>2. {y \in Message : G[y] > 0} = DOMAIN BagOf(F) \cup DOMAIN Some(m, k)
    BY <1>1 DEF BagOf, Some
  <1>3. ASSUME NEW x \in {y \in Message : G[y] > 0}
        PROVE  G[x] = (IF x \in DOMAIN BagOf(F) THEN BagOf(F)[x] ELSE 0)
                        + (IF x \in DOMAIN Some(m, k) THEN Some(m, k)[x] ELSE 0)
    BY <1>1 DEF BagOf, Some
  <1>4. BagOf(G) = Bag!\oplus(BagOf(F), Some(m, k))
    BY <1>2, <1>3 DEF Bag!\oplus, BagOf
  <1>. QED BY <1>1, <1>4

(* A copy that is delivered is taken from it. *)
LEMMA TakeFromBag ==
  ASSUME NEW F \in [Message -> Nat], NEW m \in Message, F[m] > 0
  PROVE  Bag!\ominus(BagOf(F), Bag!SetToBag({m}))
           = BagOf([x \in Message |-> F[x] + (IF x = m THEN -1 ELSE 0)])
  <1>1. PICK G : G = [x \in Message |-> F[x] + (IF x = m THEN -1 ELSE 0)]
    OBVIOUS
  <1>2. PICK B : B = [x \in DOMAIN BagOf(F) |->
                        IF x \in DOMAIN Bag!SetToBag({m})
                        THEN BagOf(F)[x] - Bag!SetToBag({m})[x] ELSE BagOf(F)[x]]
    OBVIOUS
  <1>3. DOMAIN B = {y \in Message : F[y] > 0} /\ \A x \in DOMAIN B : B[x] = G[x]
    BY <1>1, <1>2 DEF BagOf, Bag!SetToBag
  <1>4. {d \in DOMAIN B : B[d] > 0} = {y \in Message : G[y] > 0}
    BY <1>1, <1>3
  <1>5. [x \in {d \in DOMAIN B : B[d] > 0} |-> B[x]] = BagOf(G)
    BY <1>3, <1>4 DEF BagOf
  <1>6. Bag!\ominus(BagOf(F), Bag!SetToBag({m})) = [x \in {d \in DOMAIN B : B[d] > 0} |-> B[x]]
    BY <1>2 DEF Bag!\ominus
  <1>. QED BY <1>1, <1>5, <1>6

(* The network may lose or double any message when it is sent.             *)
LEMMA Transmitted ==
  ASSUME NEW m \in Message, NEW k \in 0..2
  PROVE  Some(m, k) \in Bag!Transmissions({m})
  <1>1. Bag!MayLose(m) /\ Bag!MayDuplicate(m)
    BY MessageLink DEF Bag!MayLose, Bag!MayDuplicate, LinkOf
  <1>2. PICK T \in SUBSET {m} : T = IF k = 0 THEN {} ELSE {m}
    OBVIOUS
  <1>3. Some(m, k) \in [T -> {1, 2}]
    BY <1>2 DEF Some
  <1>. QED BY <1>1, <1>3 DEF Bag!Transmissions

(* InTransit, for any queue and buffers.                                   *)
WaitingIn(q, b) ==
    {e.call.msg : e \in {d \in q : d.call.kind = "deliver"}}
      \cup UNION {{b[l][i].msg : i \in DOMAIN b[l]} : l \in Links}

(* The messages that wait are those with a copy. *)
LEMMA WaitingCounted ==
  ASSUME NEW q, NEW b, NEW n, Events(q, n), Buffers(b)
  PROVE  /\ Count(q, b) \in [Message -> Nat]
         /\ WaitingIn(q, b) = {x \in Message : Copies(q, b, x) > 0}
  <1>1. Count(q, b) \in [Message -> Nat]
    BY CopiesCounted DEF Count
  <1>2. ASSUME NEW e \in q, e.call.kind = "deliver"
        PROVE  e.call.msg \in Message /\ Copies(q, b, e.call.msg) > 0
    <2>1. e.call \in Calls
      BY DEF Events, Event
    <2>2. e.call.msg \in Message
      BY <1>2, <2>1 DEF Calls
    <2>. QED BY <1>2, <2>2, CopiesCounted
  <1>3. ASSUME NEW l \in Links, NEW i \in DOMAIN b[l]
        PROVE  b[l][i].msg \in Message /\ Copies(q, b, b[l][i].msg) > 0
    <2>1. b[l][i].msg \in Message
      BY BufferIsSequence DEF Slot
    <2>2. LinkOf(b[l][i].msg) = l
      BY DEF Buffers
    <2>. QED BY <2>1, <2>2, CopiesCounted
  <1>4. ASSUME NEW x \in Message, Copies(q, b, x) > 0
        PROVE  x \in WaitingIn(q, b)
    BY <1>4, CopiesCounted, MessageLink DEF WaitingIn
  <1>5. WaitingIn(q, b) \subseteq {x \in Message : Copies(q, b, x) > 0}
    BY <1>2, <1>3 DEF WaitingIn
  <1>. QED BY <1>1, <1>4, <1>5

(* The bag in transit counts the copies. *)
LEMMA TransitCounted ==
  ASSUME NEW q, NEW b, NEW n, Events(q, n), Buffers(b)
  PROVE  [x \in WaitingIn(q, b) |-> Copies(q, b, x)] = BagOf(Count(q, b))
  <1>1. WaitingIn(q, b) = {x \in Message : Count(q, b)[x] > 0}
    BY WaitingCounted DEF Count
  <1>. QED BY <1>1 DEF BagOf, Count

(* So the bag is known in a state, *)
LEMMA InTransitIs ==
  ASSUME Inv
  PROVE  /\ InTransit = BagOf(Count(queue, inFlight))
         /\ Waiting = WaitingIn(queue, inFlight)
  <1>1. InTransit = [x \in WaitingIn(queue, inFlight) |-> Copies(queue, inFlight, x)]
    BY DEF InTransit, Waiting, Queued, WaitingIn, Copies, Deliveries, DeliveriesIn,
           BufferedCopies, SlotsIn
  <1>. QED BY <1>1, TransitCounted DEF Inv, Waits, Waiting, Queued, WaitingIn

(* and in the next one. *)
LEMMA InTransitNext ==
  ASSUME Inv'
  PROVE  InTransit' = BagOf(Count(queue', inFlight'))
  <1>1. InTransit' = [x \in WaitingIn(queue', inFlight') |-> Copies(queue', inFlight', x)]
    BY DEF InTransit, Waiting, Queued, WaitingIn, Copies, Deliveries, DeliveriesIn,
           BufferedCopies, SlotsIn
  <1>. QED BY <1>1, TransitCounted DEF Inv, Waits

(* Every move of copies is a step of the bag. *)
LEMMA BagStep ==
  ASSUME Inv, Inv', Moves
  PROVE  [BagNext]_InTransit
  <1>. DEFINE F == Count(queue, inFlight)
              G == Count(queue', inFlight')
  <1>1. /\ F \in [Message -> Nat]
        /\ G \in [Message -> Nat]
        /\ InTransit = BagOf(F)
        /\ InTransit' = BagOf(G)
    BY InTransitIs, InTransitNext, WaitingCounted DEF Inv, Waits
  <1>2. /\ \A x \in Message : F[x] = Copies(queue, inFlight, x)
        /\ \A x \in Message : G[x] = Copies(queue', inFlight', x)
    BY DEF Count
  <1>. HIDE DEF F, G
  <1>3. CASE NoMove(queue, inFlight)
    <2>1. F = G
      BY <1>1, <1>2, <1>3 DEF NoMove
    <2>. QED BY <1>1, <2>1
  <1>4. CASE Sends(queue, inFlight)
    <2>1. PICK r \in Message, k \in 0..2 :
              Gains(queue, inFlight, queue', inFlight', r, k)
      BY <1>4 DEF Sends
    <2>2. G = [x \in Message |-> F[x] + (IF x = r THEN k ELSE 0)]
      BY <1>1, <1>2, <2>1 DEF Gains
    <2>3. InTransit' = Bag!\oplus(InTransit, Some(r, k))
      BY <1>1, <2>2, AddToBag
    <2>4. Bag!Send({r})
      BY <2>3, Transmitted DEF Bag!Send
    <2>. QED BY <2>4 DEF BagNext
  <1>5. CASE Delivers
    <2>1. PICK m \in Message, r \in Message, k \in 0..2 :
              /\ Copies(queue, inFlight, m) > 0
              /\ \A x \in Message :
                    Copies(queue', inFlight', x) = Copies(queue, inFlight, x)
                        + (IF x = m THEN -1 ELSE 0) + (IF x = r THEN k ELSE 0)
      BY <1>5 DEF Delivers
    <2>2. /\ F[m] > 0
          /\ \A x \in Message : G[x] = F[x] + (IF x = m THEN -1 ELSE 0)
                                            + (IF x = r THEN k ELSE 0)
      BY <1>2, <2>1
    <2>3. PICK H : H = [x \in Message |-> F[x] + (IF x = m THEN -1 ELSE 0)]
      OBVIOUS
    <2>4. H \in [Message -> Nat] /\ G = [x \in Message |-> H[x] + (IF x = r THEN k ELSE 0)]
      BY <1>1, <2>2, <2>3
    <2>5. BagOf(H) = Bag!\ominus(InTransit, Bag!SetToBag({m}))
      BY <1>1, <2>2, <2>3, TakeFromBag
    <2>6. BagOf(G) = Bag!\oplus(BagOf(H), Some(r, k))
      BY <2>4, AddToBag
    <2>7. InTransit' = Bag!\oplus(Bag!\ominus(InTransit, Bag!SetToBag({m})), Some(r, k))
      BY <1>1, <2>5, <2>6
    <2>8. Bag!Receive(m, {r})
      BY <2>7, Transmitted DEF Bag!Receive
    <2>9. m \in Waiting
      BY <2>1, InTransitIs, WaitingCounted DEF Inv, Waits
    <2>. QED BY <2>8, <2>9 DEF BagNext
  <1>6. CASE Clears(queue)
    <2>1. /\ configs' = [l \in Links |-> NoConfig]
          /\ inFlight' = [l \in Links |-> <<>>]
          /\ \A x \in Message : DeliveriesIn(queue', x) = DeliveriesIn(queue, x)
      BY <1>6 DEF Clears
    <2>2. /\ Events(queue, nextId) /\ Buffers(inFlight)
          /\ Events(queue', nextId') /\ Buffers(inFlight')
      BY DEF Inv, Waits
    <2>3. ASSUME NEW x \in Message
          PROVE  /\ Copies(queue', inFlight', x) = Cardinality(DeliveriesIn(queue, x))
                 /\ Cardinality(DeliveriesIn(queue, x)) \in Nat
                 /\ Cardinality(DeliveriesIn(queue, x)) > 0 <=> x \in Queued
      <3>1. inFlight'[LinkOf(x)] = <<>>
        BY <2>1, MessageLink
      <3>2. SlotsIn(inFlight', x) = {}
        BY <3>1 DEF SlotsIn
      <3>3. Cardinality(SlotsIn(inFlight', x)) = 0
        BY <3>2, FS_EmptySet
      <3>4. /\ IsFiniteSet(DeliveriesIn(queue, x))
            /\ Cardinality(DeliveriesIn(queue, x)) \in Nat
        BY <2>2, DeliveriesFinite, FS_CardinalityType
      <3>5. Cardinality(DeliveriesIn(queue, x)) = 0 <=> DeliveriesIn(queue, x) = {}
        BY <3>4, FS_EmptySet
      <3>6. DeliveriesIn(queue, x) # {} <=> x \in Queued
        BY DEF DeliveriesIn, Queued
      <3>7. Copies(queue', inFlight', x) = Cardinality(DeliveriesIn(queue, x))
        BY <2>1, <3>3, <3>4 DEF Copies
      <3>. QED BY <3>4, <3>5, <3>6, <3>7
    <2>4. Queued \subseteq Message
      BY InTransitIs, WaitingCounted, <2>2 DEF Waiting
    <2>5. {x \in Message : G[x] > 0} = Queued
      BY <1>2, <2>3, <2>4
    <2>6. BagOf(G) = [m \in Queued |-> Cardinality(Deliveries(m))]
      BY <1>2, <2>3, <2>4, <2>5 DEF BagOf, Deliveries, DeliveriesIn
    <2>7. Cleared
      BY <1>1, <2>1, <2>6 DEF Cleared
    <2>. QED BY <2>7 DEF BagNext
  <1>. QED BY <1>3, <1>4, <1>5, <1>6 DEF Moves

(* The bag is empty initially. *)
LEMMA BagInit == Init /\ Inv => Bag!NetInit
  <1>. SUFFICES ASSUME Init, Inv PROVE InTransit = Bag!EmptyBag
    BY DEF Bag!NetInit
  <1>1. Queued = {} /\ \A l \in Links : DOMAIN inFlight[l] = {}
    BY DEF Init, LoopInit, Queued
  <1>2. Waiting = {}
    BY <1>1 DEF Waiting
  <1>. QED BY <1>2 DEF InTransit, Bag!EmptyBag, Bag!SetToBag

(* The network in time implements the bag: a step of it sends a message,   *)
(* of which the bag takes none, one or two copies, delivers one copy that  *)
(* the bag holds, clears the buffers, or leaves the bag as it is.          *)
THEOREM NetworkImplementsNet == Spec => ImplementsNet
  <1>1. Inv /\ Inv' /\ [Next]_vars => [BagNext]_InTransit
    BY NextStep, BagStep
  <1>2. Init => Bag!NetInit
    BY InitHolds, BagInit
  <1>. QED BY <1>1, <1>2, Invariance, PTL DEF Spec, ImplementsNet

=============================================================================
