---------------------------- MODULE NetworkTools ----------------------------
(***************************************************************************)
(* The network_* tools of the bridge (clawshake-bridge/src/network_tools.rs*)
(* behind ipc_server.rs), the table of peers that they read                *)
(* (clawshake-core/src/peer_table.rs), and the part of the event loop that *)
(* serves them (p2p/mod.rs, on_kademlia of p2p/event.rs).                  *)
(*                                                                         *)
(* An IPC connection carries one request and has a task of its own.  The   *)
(* tools network_tools and network_record first look the peer up in the    *)
(* DHT, for 10 s, and then in the table; network_call has the loop call    *)
(* the peer, for 60 s.  The loop and the tasks run side by side, and meet  *)
(* in bounded channels, in the table, and in one oneshot channel for each  *)
(* request.                                                                *)
(*                                                                         *)
(* A record is only found or not found: of two records of a peer the table *)
(* keeps the one that came last, whichever is newer.  Left out: requests   *)
(* that do not parse and peer ids that are none, answered with an error at *)
(* once, and the requests tunnel_register and tunnel_unregister, which are *)
(* in Tunnels.                                                             *)
(***************************************************************************)
EXTENDS Naturals, FiniteSets

CONSTANTS
  Peers,     \* other nodes
  MaxAsks    \* bound of the model: requests over IPC

ASSUME NetworkToolsAssumption == MaxAsks \in Nat

VARIABLES
  table,     \* PeerTable: the peers it has a record of
  ask,       \* ask[k]: where the task of the k-th request is
  queue,     \* requests in the channels to the loop, DhtLookupTx and OutboundCallTx
  queries,   \* external: the requests whose DHT query is under way
  pending,   \* NodeState::pending_dht_queries, by request
  slot,      \* slot[k]: what the oneshot channel of k holds
  found,     \* the request whose record the loop has stored and not yet sent, 0 if none
  calling,   \* requests whose call is under way, each in a task that the loop spawned
  fetching   \* peers that the loop has queried the DHT for on first contact

toolVars == <<table, ask, queue, queries, pending, slot, found, calling, fetching>>

Asks == 1 .. MaxAsks

ToolsInit ==
  /\ table = {}
  /\ ask = [k \in Asks |-> [at |-> "none"]]
  /\ queue = {} /\ queries = {} /\ pending = {} /\ calling = {} /\ fetching = {}
  /\ slot = [k \in Asks |-> "empty"]
  /\ found = 0
-----------------------------------------------------------------------------
(* The tasks of the requests *)

\* What network_peers lists and network_search goes through.
Listed == table

\* A connection's task reads the request and hands it to the loop, for as long
\* as it takes.  `known` is history: the table had the peer.
Send(k, tool, p) ==
  /\ ask[k].at = "none"
  /\ ask' = [ask EXCEPT ![k] = [at |-> "waiting", tool |-> tool, peer |-> p, known |-> p \in table]]
  /\ queue' = queue \cup {k}
  /\ UNCHANGED <<table, queries, pending, slot, found, calling, fetching>>

\* network_tools and network_record: dht_lookup_peer
Lookup(k, p) == Send(k, "lookup", p)

\* network_call
Call(k, p) == Send(k, "call", p)

Answer(k, record) ==
  ask' = [ask EXCEPT ![k] = [at |-> "answered", tool |-> @.tool, peer |-> @.peer,
                             record |-> record, known |-> @.known, missed |-> FALSE]]

\* The lookup's record, or the result of the call.
Receive(k) ==
  /\ ask[k].at = "waiting"
  /\ slot[k] \in {"record", "result"}
  /\ Answer(k, slot[k] = "record")
  /\ UNCHANGED <<table, queue, queries, pending, slot, found, calling, fetching>>

\* dht_lookup_peer returns nothing: an error, or 10 s are over.
LookupFails(k) ==
  /\ ask[k].at = "waiting"
  /\ ask[k].tool = "lookup"
  /\ slot[k] \in {"empty", "error"}
  /\ ask' = [ask EXCEPT ![k].at = "looking in the table"]
  /\ UNCHANGED <<table, queue, queries, pending, slot, found, calling, fetching>>

\* Mutant: without a record from the DHT there is none.
BugInTable(k) == FALSE

\* table.get
InTable(k) == ask[k].peer \in table

\* The record in the table, or "not found in table or DHT".  `missed` is
\* history: a record has been sent to this request after its time was up.
FallBack(k) ==
  /\ ask[k].at = "looking in the table"
  /\ ask' = [ask EXCEPT ![k] = [at |-> "answered", tool |-> @.tool, peer |-> @.peer,
                                record |-> InTable(k), known |-> @.known,
                                missed |-> slot[k] = "record"]]
  /\ UNCHANGED <<table, queue, queries, pending, slot, found, calling, fetching>>
-----------------------------------------------------------------------------
(* The loop, and the tasks that it spawns for calls *)

\* recv from one of the channels: a query, or a task.
Take(k) ==
  /\ k \in queue
  /\ queue' = queue \ {k}
  /\ IF ask[k].tool = "lookup"
       THEN queries' = queries \cup {k} /\ pending' = pending \cup {k} /\ UNCHANGED calling
       ELSE calling' = calling \cup {k} /\ UNCHANGED <<queries, pending>>
  /\ UNCHANGED <<table, ask, slot, found, fetching>>

\* FoundRecord: the table first ...  The code stores the record under the
\* peer_id that the record itself names, and nothing compares that with the key
\* asked for: here records name the peer under whose key they are stored.
Found(k) ==
  /\ k \in queries
  /\ queries' = queries \ {k}
  /\ table' = table \cup {ask[k].peer}
  /\ found' = k
  /\ UNCHANGED <<ask, queue, pending, slot, calling, fetching>>

\* ... then whoever waits, or waits no longer.
Deliver ==
  /\ found # 0
  /\ slot' = [slot EXCEPT ![found] = "record"]
  /\ pending' = pending \ {found}
  /\ found' = 0
  /\ UNCHANGED <<table, ask, queue, queries, calling, fetching>>

\* Mutant: a query that fails keeps its entry.
BugNotFound(k) ==
  /\ k \in queries
  /\ queries' = queries \ {k}
  /\ slot' = [slot EXCEPT ![k] = "error"]
  /\ UNCHANGED <<table, ask, queue, pending, found, calling, fetching>>

\* GetRecord(Err), no additional record, or a record that does not parse.
NotFound(k) ==
  /\ k \in queries
  /\ queries' = queries \ {k}
  /\ slot' = [slot EXCEPT ![k] = "error"]
  /\ pending' = pending \ {k}
  /\ UNCHANGED <<table, ask, queue, found, calling, fetching>>

QueryEnds(k) == Found(k) \/ NotFound(k)

\* send_rpc_via_tunnel returns, or its 60 s are over.
CallEnds(k) ==
  /\ k \in calling
  /\ calling' = calling \ {k}
  /\ slot' = [slot EXCEPT ![k] = "result"]
  /\ UNCHANGED <<table, ask, queue, queries, pending, found, fetching>>

\* The query on first contact, which nobody waits for and nobody repeats.
FetchEnds(p) ==
  /\ p \in fetching
  /\ fetching' = fetching \ {p}
  /\ table' \in {table, table \cup {p}}
  /\ UNCHANGED <<ask, queue, queries, pending, slot, found, calling>>
-----------------------------------------------------------------------------
Request(k) ==
  \/ \E p \in Peers : Lookup(k, p) \/ Call(k, p)
  \/ Receive(k)
  \/ LookupFails(k)
  \/ FallBack(k)

Serve ==
  IF found # 0 THEN Deliver
  ELSE \/ \E k \in Asks : Take(k) \/ QueryEnds(k)
       \/ \E p \in Peers : FetchEnds(p)

ToolsNext ==
  \/ \E k \in Asks : Request(k) \/ CallEnds(k)
  \/ Serve
-----------------------------------------------------------------------------
(***************************************************************************)
(* A lookup is told that the peer is not known only when it was not known  *)
(* at its start either and no record has been sent to it, in time or late; *)
(* and what one tool has shown of a peer, network_peers lists.             *)
(* (upsert before the oneshot, the table read after the timeout)           *)
(***************************************************************************)
AnswersUseWhatIsKnown ==
  \A k \in Asks : ask[k].at = "answered" /\ ask[k].tool = "lookup" =>
    IF ask[k].record THEN ask[k].peer \in Listed
                     ELSE ~ask[k].known /\ ~ask[k].missed

(***************************************************************************)
(* Every request is answered, and every lookup leaves pending_dht_queries, *)
(* whatever its query finds and whether or not it still waits.             *)
(* (a removal for each way that a query ends, and two timeouts)            *)
(***************************************************************************)
CallersAreAnswered ==
  \A k \in Asks :
    /\ ask[k].at # "none" ~> ask[k].at = "answered"
    /\ k \in pending ~> k \notin pending
=============================================================================
