-------------------------- MODULE ShardTransferInv --------------------------
(***************************************************************************)
(* The inductive invariants of the shard-transfer protocol.                *)
(*                                                                         *)
(* CoordInv holds under every fault.  TransferInv needs control links that *)
(* do not duplicate and servers that do not recover.  Its argument is that *)
(* the right to serve a shard is a token: the owner has it as a live copy, *)
(* or an undelivered Activate carries it to the owner.  A copy loses the   *)
(* token when its attempt completes, and it cannot serve by then, because  *)
(* an attempt completes only on evidence that its source is frozen for it. *)
(***************************************************************************)
EXTENDS ShardTransfer

-----------------------------------------------------------------------------
(* Bookkeeping *)

(* The metadata of a shard in a reassignment agrees with the record of its *)
(* attempt, and that attempt is undecided.                                 *)
MetaMatchesAttempt ==
    \A s \in Shards :
        IF meta[s].state = "STABLE"
        THEN meta[s].attempt = NoAttempt
        ELSE /\ meta[s].attempt \in DOMAIN attempts
             /\ attempts[meta[s].attempt] = [shard   |-> s,
                                             from    |-> meta[s].owner,
                                             to      |-> meta[s].target,
                                             epoch   |-> meta[s].epoch,
                                             outcome |-> "pending"]

UndecidedIsCurrent ==
    \A a \in DOMAIN attempts : ~Decided(a) => meta[attempts[a].shard].attempt = a

(* Every attempt id in a message, a shard or a copy is that of an attempt  *)
(* at the same shard.                                                      *)
KnownIn(a, s) == a \in AttemptsOf(s)

KnownAttempts ==
    /\ \A m \in DOMAIN net :
          \/ KnownIn(m.attempt, m.shard)
          \/ m.type = "AbortReconfiguration" /\ m.resync
    /\ \A n \in Servers, s \in Shards :
          /\ local[n][s].attempt # NoAttempt => KnownIn(local[n][s].attempt, s)
          /\ HasPending(n, s) => KnownIn(pending[n][s].attempt, s)

CoordInv == /\ MetaMatchesAttempt
            /\ UndecidedIsCurrent
            /\ KnownAttempts
            /\ MessagesFollowDecision

-----------------------------------------------------------------------------
(* The token *)

(* A copy that an attempt has moved elsewhere is retired; any other copy   *)
(* is live.                                                                *)
Retired(n, s) == /\ local[n][s].attempt # NoAttempt
                 /\ attempts[local[n][s].attempt].outcome = "complete"

Live(n, s) == Held(n, s) /\ ~Retired(n, s)

Activations(s) == {m \in DOMAIN net : m.type = "ActivateShard" /\ m.shard = s}

TokenInv ==
    \A s \in Shards :
        /\ \A n \in Servers : Live(n, s) => meta[s].owner = n
        /\ \A m \in Activations(s) :
              /\ meta[s].owner = m.dst
              /\ ~Live(m.dst, s)
              /\ net[m] = 1
              /\ \A o \in Activations(s) : o = m

(* Copies made for attempt a may still become live.                        *)
MayActivate(a) ==
    \/ ~Decided(a)
    \/ \E m \in DOMAIN net : m.type = "ActivateShard" /\ m.attempt = a

(* A server marks its copy with an attempt exactly while it does not serve *)
(* it, and the attempt starts at that server.  A retired copy stays in     *)
(* TRANSFER until the Activate of its attempt is gone.                     *)
CopyMark(n, s) ==
    /\ Serving(n, s) => local[n][s].attempt = NoAttempt
    /\ local[n][s].attempt # NoAttempt => attempts[local[n][s].attempt].from = n
    /\ Retired(n, s) /\ MayActivate(local[n][s].attempt) =>
          local[n][s].state = "TRANSFER"

MessageMark(m) ==
    /\ m.type = "FreezeShard" => m.dst = attempts[m.attempt].from
    /\ m.type = "AbortReconfiguration" => ~m.resync

MarkInv == /\ \A n \in Servers, s \in Shards : CopyMark(n, s)
           /\ \A m \in DOMAIN net : MessageMark(m)

(* Everything that lets an undecided attempt proceed is evidence that its  *)
(* source is frozen for it, or is past that and has sent its copy.         *)
SourceOf(a) == local[attempts[a].from][attempts[a].shard]

SourceFrozen(a)  == SourceOf(a).attempt = a
SourceSending(a) == SourceOf(a).attempt = a /\ SourceOf(a).state = "TRANSFER"

EvidenceInv ==
    /\ \A m \in DOMAIN net :
          /\ m.type = "FreezeAck" /\ ~Decided(m.attempt) => SourceFrozen(m.attempt)
          /\ m.type \in {"TransferShard", "TransferAck"} /\ ~Decided(m.attempt) =>
                SourceSending(m.attempt)
    /\ \A s \in Shards : meta[s].state = "TRANSFER" => SourceFrozen(meta[s].attempt)
    /\ \A n \in Servers, s \in Shards :
          HasPending(n, s) /\ ~Decided(pending[n][s].attempt) =>
              SourceSending(pending[n][s].attempt)

(* A live copy has the last write, and so has every copy that may still    *)
(* be activated.                                                           *)
DataInv ==
    /\ \A n \in Servers, s \in Shards : Live(n, s) => local[n][s].data = lastPut[s]
    /\ \A m \in DOMAIN net :
          m.type = "TransferShard" /\ MayActivate(m.attempt) =>
              m.data = lastPut[m.shard]
    /\ \A n \in Servers, s \in Shards :
          HasPending(n, s) /\ MayActivate(pending[n][s].attempt) =>
              pending[n][s].data = lastPut[s]

(* The deployments in which the transfer is safe, and the inductive        *)
(* strengthening of the safety properties of ShardTransfer in them.        *)
ControlledFaults == /\ MaxRecoveries = 0
                    /\ \A n \in Servers : <<Coord, n>> \notin DupLinks

TransferInv == /\ CoordInv
               /\ TokenInv
               /\ MarkInv
               /\ EvidenceInv
               /\ DataInv

-----------------------------------------------------------------------------
(* Epochs, under every fault *)

(* The attempts at a shard have increasing epochs, and only an undecided   *)
(* one has the epoch that the shard has now.                               *)
AttemptEpochs ==
    /\ \A a, b \in DOMAIN attempts :
          attempts[a].shard = attempts[b].shard /\ a < b =>
              attempts[a].epoch < attempts[b].epoch
    /\ \A a \in DOMAIN attempts : LET now == meta[attempts[a].shard].epoch IN
          /\ attempts[a].epoch <= now
          /\ Decided(a) => attempts[a].epoch < now

(* A message agrees with the record of its attempt: what is sent before    *)
(* the decision has the epoch of the attempt, what announces it the next.  *)
MessageEpoch(m) == LET r == attempts[m.attempt] IN
    /\ m.type \in {"FreezeShard", "BeginTransfer", "TransferShard",
                   "FreezeAck", "TransferAck"} => m.epoch = r.epoch
    /\ m.type \in {"ActivateShard", "CleanupShard"} => m.epoch = r.epoch + 1
    /\ m.type = "BeginTransfer" => m.target = r.to
    /\ m.type \in {"TransferShard", "ActivateShard"} => m.dst = r.to
    /\ m.type = "TransferAck" => m.src = r.to
    /\ m.epoch <= meta[m.shard].epoch

CopyEpoch(n, s) == LET r == attempts[pending[n][s].attempt] IN
    /\ pending[n][s].epoch = r.epoch
    /\ n = r.to

EpochInv ==
    /\ AttemptEpochs
    /\ \A m \in DOMAIN net : MessageEpoch(m)
    /\ \A n \in Servers, s \in Shards :
          /\ HasPending(n, s) => CopyEpoch(n, s)
          /\ local[n][s].epoch <= meta[s].epoch

-----------------------------------------------------------------------------
(* Storage, with controlled faults.  The register of a shard is the live   *)
(* copy at its owner or, from a commit to its activation, the copy that    *)
(* the new owner has received: no later attempt leads back to that owner,  *)
(* so no other copy replaces it.                                           *)
Awaiting(n, s) ==
    /\ HasPending(n, s)
    /\ attempts[pending[n][s].attempt].outcome = "complete"
    /\ pending[n][s].data = lastPut[s]
    /\ \A b \in AttemptsOf(s) : b > pending[n][s].attempt => attempts[b].from = n

Stored(s) == LET n == meta[s].owner IN Live(n, s) \/ Awaiting(n, s)

(* A TransferAck is evidence of the copy it acknowledges until its attempt *)
(* is decided.                                                             *)
AckedCopy(m) ==
    m.type = "TransferAck" /\ ~Decided(m.attempt) =>
        pending[m.src][m.shard].attempt = m.attempt

(* A server is told an epoch only once, so a shard that has it does not    *)
(* get it again.                                                           *)
Announcement(m) == m.type \in {"ActivateShard", "AbortReconfiguration"}

Announces(m, n, s, e) ==
    Announcement(m) /\ m.dst = n /\ m.shard = s /\ m.epoch = e

ToldOnce(m) == /\ net[m] = 1
               /\ m.epoch = attempts[m.attempt].epoch + 1

FreshEpoch(n, s) ==
    Held(n, s) => \A m \in DOMAIN net : ~Announces(m, n, s, local[n][s].epoch)

(* Hence the source of a completed attempt never again serves at the epoch *)
(* of that attempt, and a late FreezeShard of it finds nothing to freeze.  *)
Entered(a) == \/ ~Decided(a) /\ SourceFrozen(a)
              \/ attempts[a].outcome = "complete"

LeftBehind(a) == LET n == attempts[a].from
                     s == attempts[a].shard
                     e == attempts[a].epoch IN
    /\ \A m \in DOMAIN net : ~Announces(m, n, s, e)
    /\ Held(n, s) /\ local[n][s].epoch = e => local[n][s].attempt = a

StorageInv ==
    /\ \A s \in Shards : Stored(s)
    /\ \A m \in DOMAIN net : AckedCopy(m)
    /\ \A m \in DOMAIN net : Announcement(m) => ToldOnce(m)
    /\ \A n \in Servers, s \in Shards : FreshEpoch(n, s)
    /\ \A a \in DOMAIN attempts : /\ attempts[a].from # attempts[a].to
                                  /\ Entered(a) => LeftBehind(a)
=============================================================================
