----------------------------- MODULE ShardTypes -----------------------------
(***************************************************************************)
(* The vocabulary of the shard-transfer protocol (src/common/types.py):    *)
(* the parameters of a deployment, the records that the coordinator and    *)
(* the shard servers keep per shard, and the messages they exchange.       *)
(*                                                                         *)
(* Data abstraction: the dictionary a shard stores is one register, whose  *)
(* contents are a member of Values.  Every PUT overwrites the register, so *)
(* losing, duplicating or forking the dictionary is losing, duplicating or *)
(* forking the register.                                                   *)
(***************************************************************************)
EXTENDS Naturals, FiniteSets

CONSTANTS
    Servers,      \* node ids of the shard servers
    Coord,        \* node id of the coordinator
    Shards,       \* shard ids
    Values,       \* contents of a shard
    NoData,       \* stands for the contents of a missing shard
    MaxAttempts,  \* bound: reassignments started in one behaviour
    MaxRetries,   \* Coordinator.max_retries
    TimedPhases,  \* phases whose timeout is configured (not None)
    CrashNodes,   \* servers the failure schedule may crash
    MaxRecoveries \* bound: recover_node events in one behaviour

Nodes == Servers \cup {Coord}

Links == Nodes \X Nodes

ASSUME NodesAssumption == /\ Coord \notin Servers
                          /\ NoData \notin Values

ASSUME BoundsAssumption == /\ MaxAttempts \in Nat
                           /\ MaxRetries \in Nat
                           /\ MaxRecoveries \in Nat

ASSUME FaultsAssumption == /\ TimedPhases \subseteq {"FREEZE", "TRANSFER"}
                           /\ CrashNodes \subseteq Servers

(***************************************************************************)
(* ShardState.  ACTIVATE and CLEANUP exist only between two assignments of *)
(* one handler call of the coordinator, never between two events.          *)
(***************************************************************************)
MetaStates == {"STABLE", "FREEZE", "TRANSFER"}

AttemptIds == 1..MaxAttempts

NoAttempt == 0      \* attempt_id is None
NoNode    == Coord  \* target is None: no shard is ever assigned to Coord

(***************************************************************************)
(* MetadataStore.shards[s]: target and attempt_id are None exactly when    *)
(* the shard is STABLE.                                                    *)
(***************************************************************************)
StableRecord == [owner   : Servers,
                 epoch   : Nat,
                 state   : {"STABLE"},
                 target  : {NoNode},
                 attempt : {NoAttempt}]

ReassignedRecord == [owner   : Servers,
                     epoch   : Nat,
                     state   : {"FREEZE", "TRANSFER"},
                     target  : Servers,
                     attempt : AttemptIds]

MetaRecord == StableRecord \cup ReassignedRecord

(***************************************************************************)
(* ShardServer.shards[s]; Absent stands for a missing key.                 *)
(***************************************************************************)
Absent == [epoch   |-> 0,
           state   |-> "ABSENT",
           data    |-> NoData,
           attempt |-> NoAttempt]

HeldRecord == [epoch   : Nat,
               state   : MetaStates,
               data    : Values,
               attempt : AttemptIds \cup {NoAttempt}]

LocalRecord == HeldRecord \cup {Absent}

(***************************************************************************)
(* ShardServer.pending_incoming[s]; NoCopy stands for a missing key.       *)
(***************************************************************************)
NoCopy == [epoch   |-> 0,
           attempt |-> NoAttempt,
           data    |-> NoData,
           source  |-> NoNode]

PendingRecord == [epoch   : Nat,
                  attempt : AttemptIds,
                  data    : Values,
                  source  : Servers] \cup {NoCopy}

(***************************************************************************)
(* The messages.  src and dst are the arguments of Network.send.           *)
(***************************************************************************)
ControlMsg == [type    : {"FreezeShard", "ActivateShard", "CleanupShard"},
               src     : {Coord},
               dst     : Servers,
               shard   : Shards,
               epoch   : Nat,
               attempt : AttemptIds]

BeginTransferMsg == [type    : {"BeginTransfer"},
                     src     : {Coord},
                     dst     : Servers,
                     shard   : Shards,
                     epoch   : Nat,
                     target  : Servers,
                     attempt : AttemptIds]

AbortMsg == [type    : {"AbortReconfiguration"},
             src     : {Coord},
             dst     : Servers,
             shard   : Shards,
             epoch   : Nat,
             attempt : AttemptIds \cup {NoAttempt},
             resync  : BOOLEAN]  \* reason = "resync_on_recover"

AckMsg == [type    : {"FreezeAck", "TransferAck"},
           src     : Servers,
           dst     : {Coord},
           shard   : Shards,
           epoch   : Nat,
           attempt : AttemptIds]

TransferShardMsg == [type    : {"TransferShard"},
                     src     : Servers,
                     dst     : Servers,
                     shard   : Shards,
                     epoch   : Nat,
                     attempt : AttemptIds,
                     data    : Values]

Message == ControlMsg \cup BeginTransferMsg \cup AbortMsg
             \cup AckMsg \cup TransferShardMsg
=============================================================================
