----------------------------- MODULE NetProofs -----------------------------
(***************************************************************************)
(* What sending and delivering do to the bag of messages in flight.        *)
(***************************************************************************)
EXTENDS Net, TLAPS

(* Sending puts nothing in flight but what is sent. *)
LEMMA SendAdds ==
  ASSUME NEW S, Send(S)
  PROVE  DOMAIN net' \subseteq DOMAIN net \cup S
  BY DEF Send, Transmissions, (+)

(* So does the handler of a delivered message. *)
LEMMA ReceiveAdds ==
  ASSUME NEW d, NEW S, Receive(d, S)
  PROVE  DOMAIN net' \subseteq DOMAIN net \cup S
  BY DEF Receive, Transmissions, (+), (-), SetToBag

(* The messages in flight stay a bag. *)
LEMMA SendBag ==
  ASSUME NEW S, Send(S), IsABag(net)
  PROVE  IsABag(net')
  <1>. PICK c \in Transmissions(S) : net' = net (+) c
    BY DEF Send
  <1>1. \A m \in DOMAIN c : c[m] \in {1, 2}
    BY DEF Transmissions
  <1>. QED BY <1>1 DEF IsABag, (+)

(* Delivering keeps it a bag too. *)
LEMMA ReceiveBag ==
  ASSUME NEW d, NEW S, Receive(d, S), IsABag(net)
  PROVE  IsABag(net')
  <1>0. PICK rest : rest = net (-) SetToBag({d})
    OBVIOUS
  <1>1. PICK c \in Transmissions(S) : net' = rest (+) c
    BY <1>0 DEF Receive
  <1>2. \A m \in DOMAIN c : c[m] \in {1, 2}
    BY DEF Transmissions
  <1>3. IsABag(rest)
    BY <1>0 DEF IsABag, (-), SetToBag
  <1>. QED BY <1>1, <1>2, <1>3 DEF IsABag, (+)

(* A message of which one copy is in flight has at most one afterwards,    *)
(* unless it is sent again.                                                *)
LEMMA SendKeepsSingle ==
  ASSUME NEW S, Send(S), NEW m \in DOMAIN net, net[m] = 1, m \notin S
  PROVE  net'[m] = 1
  BY DEF Send, Transmissions, (+)

(* The same for the handler of a delivered message. *)
LEMMA ReceiveKeepsSingle ==
  ASSUME NEW d, NEW S, Receive(d, S), NEW m \in DOMAIN net, net[m] = 1, m \notin S
  PROVE  m \in DOMAIN net' => net'[m] = 1
  BY DEF Receive, Transmissions, (+), (-), SetToBag

(* A message that is not in flight and that its link does not duplicate is *)
(* sent as one copy.                                                       *)
LEMMA ReceiveSendsSingle ==
  ASSUME NEW d, NEW S, Receive(d, S), NEW m \in S, m \notin DOMAIN net,
         ~MayDuplicate(m)
  PROVE  m \in DOMAIN net' => net'[m] = 1
  <1>. PICK c \in Transmissions(S) : net' = (net (-) SetToBag({d})) (+) c
    BY DEF Receive
  <1>1. m \in DOMAIN c => c[m] = 1
    BY DEF Transmissions
  <1>2. m \notin DOMAIN (net (-) SetToBag({d}))
    BY DEF (-), SetToBag
  <1>. QED BY <1>1, <1>2 DEF (+)

(* So is one that a timer or a crash report sends. *)
LEMMA SendSendsSingle ==
  ASSUME NEW S, Send(S), NEW m \in S, m \notin DOMAIN net, ~MayDuplicate(m)
  PROVE  m \in DOMAIN net' => net'[m] = 1
  BY DEF Send, Transmissions, (+)

(* Delivering the only copy of a message removes it. *)
LEMMA ReceiveTakesSingle ==
  ASSUME NEW d \in DOMAIN net, NEW S, Receive(d, S), net[d] = 1, d \notin S
  PROVE  d \notin DOMAIN net'
  BY DEF Receive, Transmissions, (+), (-), SetToBag

(* Neither sending nor delivering touches another message. *)
LEMMA SendFrame ==
  ASSUME NEW S, Send(S), IsABag(net), NEW m, m \notin S
  PROVE  /\ m \in DOMAIN net' <=> m \in DOMAIN net
         /\ m \in DOMAIN net => net'[m] = net[m]
  <1>. PICK c \in Transmissions(S) : net' = net (+) c
    BY DEF Send
  <1>1. m \notin DOMAIN c
    BY DEF Transmissions
  <1>. QED BY <1>1 DEF IsABag, (+)

(* The same for the handler of a delivered message. *)
LEMMA ReceiveFrame ==
  ASSUME NEW d, NEW S, Receive(d, S), IsABag(net), NEW m, m # d, m \notin S
  PROVE  /\ m \in DOMAIN net' <=> m \in DOMAIN net
         /\ m \in DOMAIN net => net'[m] = net[m]
  <1>0. PICK rest : rest = net (-) SetToBag({d})
    OBVIOUS
  <1>1. PICK c \in Transmissions(S) : net' = rest (+) c
    BY <1>0 DEF Receive
  <1>2. m \notin DOMAIN c
    BY DEF Transmissions
  <1>3. /\ m \in DOMAIN rest <=> m \in DOMAIN net
        /\ m \in DOMAIN net => rest[m] = net[m] /\ net[m] \in Nat
    BY <1>0 DEF IsABag, (-), SetToBag
  <1>. QED BY <1>1, <1>2, <1>3 DEF (+)
=============================================================================
