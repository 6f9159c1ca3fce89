---------------------------- MODULE RequestTypes ----------------------------
(***************************************************************************)
(* The vocabulary of client requests (ClientRequest and ClientReply of     *)
(* src/common/types.py).  The dictionary of a shard is one register, as in *)
(* ShardTypes, so a request names no key.                                  *)
(***************************************************************************)
EXTENDS Naturals, FiniteSets

CONSTANTS
    Clients,      \* node ids of the clients
    Servers,      \* node ids of the shard servers
    Shards,       \* shard ids
    Epochs,       \* epochs a request may name
    Values,       \* what a PUT may write
    NoValue,      \* None, where the code expects a value
    MaxRequests   \* bound: requests issued in one behaviour

ASSUME RequestAssumption == /\ Clients \cap Servers = {}
                            /\ NoValue \notin Values
                            /\ MaxRequests \in Nat

Answers == Values \cup {NoValue}

Gets == [op : {"GET"}, value : {NoValue}]
Puts == [op : {"PUT"}, value : Values]

(***************************************************************************)
(* The messages of the client library carry no request id: their field seq *)
(* is history, the number of the request, and no step depends on it.       *)
(***************************************************************************)
RequestNumbers == 1..MaxRequests

VARIABLE issued   \* history: the number of requests so far

Issue == issued < MaxRequests /\ issued' = issued + 1

(* A PUT names what it writes, a GET names no value. *)
WellFormed(r) == r.op = "PUT" <=> r.value \in Values

ClientRequest == {m \in [type  : {"ClientRequest"},
                         src   : Clients,
                         dst   : Servers,
                         shard : Shards,
                         epoch : Epochs,
                         op    : {"GET", "PUT"},
                         value : Answers,
                         seq   : RequestNumbers] : WellFormed(m)}

ClientReply == [type    : {"ClientReply"},
                src     : Servers,
                dst     : Clients,
                success : BOOLEAN,
                value   : Answers,
                seq     : RequestNumbers]
=============================================================================
