------------------------------ MODULE Tunnels -------------------------------
(***************************************************************************)
(* Sharing a local TCP port with the peers.                                *)
(*                                                                         *)
(* The broker keeps the expose table and one connect_{name} tool per entry *)
(* (clawshake-broker/src/expose.rs, invoke/expose.rs) and tells the bridge *)
(* of each change over IPC (clawshake-core/src/ipc.rs), one connection per *)
(* request; the bridge keeps a tunnel table of its own                     *)
(* (clawshake-bridge/src/ipc_server.rs), from which it serves the streams  *)
(* that peers open (p2p/tunnel.rs).  Both processes may restart, and both  *)
(* tables are in memory only.                                              *)
(*                                                                         *)
(* The peers run the same program: an agent there calls connect_{name}, or *)
(* an operator has declared the tunnel, whose task probes this node until  *)
(* a probe is acknowledged.  Either way the peer then listens locally and  *)
(* opens one stream per connection.                                        *)
(***************************************************************************)
EXTENDS Naturals

CONSTANTS
  Names,     \* names of exposed services
  Ports,     \* local TCP ports
  Peers,     \* remote peers
  Conns,     \* streams for connections (a probe has a stream of its own)
  Calls,     \* callers of network_expose and network_unexpose
  None,      \* no port
  MaxOps,    \* bound of the model: calls begun
  MaxFaults  \* bound of the model: restarts and bind errors

ASSUME TunnelsAssumption ==
  /\ None \notin Ports
  /\ None \notin Names \cup Peers
  /\ Conns \cap (Peers \X Names) = {}
  /\ MaxOps \in Nat
  /\ MaxFaults \in Nat

VARIABLES
  exposed,     \* ExposeTable: the port of each name, or None
  tools,       \* names whose connect_{name} tool is registered
  call,        \* where each caller is in handle_expose or handle_unexpose
  wire,        \* IPC requests written and not yet handled
  ops,         \* calls begun (bound)
  table,       \* TunnelTable of the bridge
  up,          \* the bridge is running
  granted,     \* <<p, n, kind>> that the permission store allows
  stream,      \* the handler of each inbound stream
  connected,   \* ConnectedPeers
  probe,       \* what the peer has read from its probe of each name
  established, \* the entries auto_connect_task is done with
  listener,    \* <<p, n>>: peer p listens locally for name n
  rpc,         \* where the connect_{name} call of each peer's agent is
  faults,      \* faults so far (bound)
  disturbed    \* history: names on which the tables need not agree

brokerVars == <<exposed, tools, call, wire, ops, disturbed>>
peerVars == <<connected, probe, established, listener, rpc>>
vars == <<exposed, tools, call, wire, ops, disturbed, table, up, granted, stream,
          connected, probe, established, listener, rpc, faults>>

Probes == Peers \X Names
Streams == Conns \cup Probes

\* The resources `tunnel:{name}` and `connect_{name}`.
Kinds == {"tunnel", "connect"}

Request == [id : 1 .. MaxOps, op : {"expose", "unexpose"}, name : Names,
            port : Ports \cup {None}]

Idle == [pc |-> "idle", id |-> 0, op |-> "expose", name |-> None, port |-> None,
         alone |-> FALSE]
NoRpc == [pc |-> "none", name |-> None]
Closed == [pc |-> "closed", peer |-> None, name |-> None, port |-> None,
           wasShared |-> FALSE, wasAllowed |-> FALSE]

Init ==
  /\ exposed = [n \in Names |-> None]
  /\ tools = {}
  /\ call = [c \in Calls |-> Idle]
  /\ wire = {}
  /\ ops = 0
  /\ table = [n \in Names |-> None]
  /\ up = TRUE
  /\ granted = {}
  /\ stream = [s \in Streams |-> Closed]
  /\ connected = Peers
  /\ probe = [e \in Probes |-> "none"]
  /\ established = {}
  /\ listener = {}
  /\ rpc = [p \in Peers |-> NoRpc]
  /\ faults = 0
  /\ disturbed = {}

Fault == faults < MaxFaults /\ faults' = faults + 1
-----------------------------------------------------------------------------
(* handle_expose and handle_unexpose *)

InProgress(n) == \E c \in Calls : call[c].pc # "idle" /\ call[c].name = n
OnTheWire(n) == \E r \in wire : r.name = n
Busy(n) == InProgress(n) \/ OnTheWire(n)

\* Nobody acts on n alone any more.
Disturb(n, calls) ==
  [c \in Calls |-> IF calls[c].name = n THEN [calls[c] EXCEPT !.alone = FALSE] ELSE calls[c]]

\* A call arrives.
Begin(c) ==
  /\ call[c].pc = "idle"
  /\ ops < MaxOps
  /\ ops' = ops + 1
  /\ \E n \in Names : \E new \in [op : {"expose"}, port : Ports]
                              \cup [op : {"unexpose"}, port : {None}] :
       /\ call' = [(IF Busy(n) THEN Disturb(n, call) ELSE call) EXCEPT ![c] =
                     [pc |-> "check", id |-> ops + 1, op |-> new.op, name |-> n,
                      port |-> new.port, alone |-> ~Busy(n)]]
       /\ disturbed' = IF Busy(n) THEN disturbed \cup {n} ELSE disturbed
  /\ UNCHANGED <<exposed, tools, wire, table, up, granted, stream, peerVars, faults>>

Goto(c, pc) == call' = [call EXCEPT ![c].pc = pc]
Finish(c) == call' = [call EXCEPT ![c] = Idle]

\* The duplicate check of handle_expose.
CheckName(c) ==
  /\ call[c].pc = "check"
  /\ call[c].op = "expose"
  /\ IF exposed[call[c].name] = None THEN Goto(c, "insert") ELSE Finish(c)
  /\ UNCHANGED <<exposed, tools, wire, ops, disturbed, table, up, granted, stream,
                 peerVars, faults>>

\* ExposeTable::insert replaces whatever is there.
InsertName(c) ==
  /\ call[c].pc = "insert"
  /\ exposed' = [exposed EXCEPT ![call[c].name] = call[c].port]
  /\ Goto(c, "send")
  /\ UNCHANGED <<tools, wire, ops, disturbed, table, up, granted, stream, peerVars, faults>>

\* ExposeTable::remove, whose answer decides.
RemoveName(c) ==
  /\ call[c].pc = "check"
  /\ call[c].op = "unexpose"
  /\ exposed' = [exposed EXCEPT ![call[c].name] = None]
  /\ IF exposed[call[c].name] # None THEN Goto(c, "send") ELSE Finish(c)
  /\ UNCHANGED <<tools, wire, ops, disturbed, table, up, granted, stream, peerVars, faults>>

\* register_builtin and unload_source
ToolsAfter(c) ==
  IF call[c].op = "expose" THEN tools \cup {call[c].name} ELSE tools \ {call[c].name}

RequestOf(c) ==
  [id |-> call[c].id, op |-> call[c].op, name |-> call[c].name, port |-> call[c].port]

\* The tool, and send_request over a fresh connection.
Send(c) ==
  /\ call[c].pc = "send"
  /\ up
  /\ tools' = ToolsAfter(c)
  /\ wire' = wire \cup {RequestOf(c)}
  /\ Goto(c, "wait")
  /\ UNCHANGED <<exposed, ops, disturbed, table, up, granted, stream, peerVars, faults>>

\* Nobody listens on the socket: a warning, and the call has succeeded.
SendFails(c) ==
  /\ call[c].pc = "send"
  /\ ~up
  /\ tools' = ToolsAfter(c)
  /\ Finish(c)
  /\ disturbed' = disturbed \cup {call[c].name}
  /\ UNCHANGED <<exposed, wire, ops, table, up, granted, stream, peerVars, faults>>

\* The connection has an answer, or has been closed.
Return(c) ==
  /\ call[c].pc = "wait"
  /\ RequestOf(c) \notin wire
  /\ Finish(c)
  /\ disturbed' = IF call[c].alone THEN disturbed \ {call[c].name} ELSE disturbed
  /\ UNCHANGED <<exposed, tools, wire, ops, table, up, granted, stream, peerVars, faults>>

\* Mutant: send_request waits for ever.
BugTimeOut(c) == FALSE /\ UNCHANGED vars

\* 15 s: the call succeeds all the same, and its request is still read.
TimeOut(c) ==
  /\ call[c].pc = "wait"
  /\ RequestOf(c) \in wire
  /\ Finish(c)
  /\ disturbed' = disturbed \cup {call[c].name}
  /\ UNCHANGED <<exposed, tools, wire, ops, table, up, granted, stream, peerVars, faults>>

CallStep(c) ==
  \/ CheckName(c) \/ InsertName(c) \/ RemoveName(c)
  \/ Send(c) \/ SendFails(c) \/ Return(c) \/ TimeOut(c)
-----------------------------------------------------------------------------
(* The bridge's IPC server: each connection has a task of its own *)

\* Mutant: an unregistration answers without looking at the table.
BugTableAfter(r) == IF r.op = "expose" THEN [table EXCEPT ![r.name] = r.port] ELSE table

\* handle_tunnel_register and handle_tunnel_unregister
TableAfter(r) == [table EXCEPT ![r.name] = IF r.op = "expose" THEN r.port ELSE None]

Handle(r) ==
  /\ table' = TableAfter(r)
  /\ wire' = wire \ {r}
  /\ UNCHANGED <<exposed, tools, call, ops, disturbed, up, granted, stream, peerVars, faults>>
-----------------------------------------------------------------------------
(* Inbound streams: handle_inbound_tunnel *)

\* Mutant: an entry that was tried is done with.
BugAfterFailure(e) == established \cup {e}

\* A failed entry is tried again at a later tick.
AfterFailure(e) == established

\* The handler drops the stream; a probing peer that waits reads the end.
DropStream(s) ==
  /\ stream' = [stream EXCEPT ![s] = Closed]
  /\ IF s \in Probes /\ probe[s] = "waiting"
     THEN probe' = [probe EXCEPT ![s] = "none"] /\ established' = AfterFailure(s)
     ELSE UNCHANGED <<probe, established>>
  /\ UNCHANGED <<brokerVars, table, up, granted, connected, listener, rpc, faults>>

\* Mutant: the tool's grant is taken for the tunnel's.
BugMayTunnel(p, n) == \E k \in Kinds : <<p, n, k>> \in granted

\* PermissionStore::check of `tunnel:{name}`, where `ask` is a refusal.
MayTunnel(p, n) == <<p, n, "tunnel">> \in granted

\* The header of a new stream is read and its name looked up.
Lookup(s, p, n) ==
  /\ stream[s].pc = "closed"
  /\ up
  /\ p \in connected
  /\ table[n] # None
  /\ stream' = [stream EXCEPT ![s] =
       [pc |-> "check", peer |-> p, name |-> n, port |-> table[n],
        wasShared |-> exposed[n] = table[n] \/ Busy(n) \/ n \in disturbed,
        wasAllowed |-> <<p, n, "tunnel">> \in granted]]
  /\ UNCHANGED <<brokerVars, table, up, granted, connected, established, listener, rpc, faults>>

\* A connection to a peer's local listener, whose name is in the table; if it
\* is not, the stream ends and nothing changes.
OpenConn(s) ==
  /\ \E e \in listener : Lookup(s, e[1], e[2])
  /\ UNCHANGED probe

\* The byte 0x01 goes out before the service is connected to.
CheckStream(s) ==
  /\ stream[s].pc = "check"
  /\ MayTunnel(stream[s].peer, stream[s].name)
  /\ stream' = [stream EXCEPT ![s].pc = "acked"]
  /\ probe' = IF s \in Probes THEN [probe EXCEPT ![s] = "acked"] ELSE probe
  /\ UNCHANGED <<brokerVars, table, up, granted, connected, established, listener, rpc, faults>>

\* The byte 0x00, and the end of the stream.
CheckFails(s) ==
  /\ stream[s].pc = "check"
  /\ ~MayTunnel(stream[s].peer, stream[s].name)
  /\ DropStream(s)

\* TcpStream::connect to the port that the lookup returned.
ConnectService(s) ==
  /\ stream[s].pc = "acked"
  /\ stream' = [stream EXCEPT ![s].pc = "spliced"]
  /\ UNCHANGED <<brokerVars, table, up, granted, peerVars, faults>>

\* Nothing listens on the port.
ConnectFails(s) ==
  /\ stream[s].pc = "acked"
  /\ DropStream(s)

\* splice returns: either side has closed.
HangUp(s) ==
  /\ stream[s].pc = "spliced"
  /\ DropStream(s)

StreamStep(s) == CheckStream(s) \/ CheckFails(s) \/ ConnectService(s) \/ ConnectFails(s)
-----------------------------------------------------------------------------
(* The peers: auto_connect_task, and an agent's call of connect_{name} *)

\* A tick comes to an entry that is not done with while its peer is connected;
\* the entries are tried one by one.
Due(e) ==
  /\ e \notin established
  /\ e[1] \in connected
  /\ \A n \in Names : probe[<<e[1], n>>] = "none"

\* A probe of a name that is not in the table fails at once.
Probe(e) ==
  /\ Due(e)
  /\ Lookup(e, e[1], e[2])
  /\ probe' = [probe EXCEPT ![e] = "waiting"]

ProbeFails(e) ==
  /\ Due(e)
  /\ up /\ table[e[2]] = None
  /\ established' = AfterFailure(e)
  /\ UNCHANGED <<brokerVars, table, up, granted, stream, connected, probe, listener, rpc, faults>>

\* Acknowledged, and the local port is free.
Establish(e) ==
  /\ probe[e] = "acked"
  /\ probe' = [probe EXCEPT ![e] = "none"]
  /\ established' = established \cup {e}
  /\ listener' = listener \cup {e}
  /\ UNCHANGED <<brokerVars, table, up, granted, stream, connected, rpc, faults>>

BindFails(e) ==
  /\ Fault
  /\ probe[e] = "acked"
  /\ probe' = [probe EXCEPT ![e] = "none"]
  /\ established' = AfterFailure(e)
  /\ UNCHANGED <<brokerVars, table, up, granted, stream, connected, listener, rpc>>

\* network_call: send_rpc_via_tunnel opens a stream, whose request waits for
\* the bridge's handle_rpc_stream.
AgentCalls(p) ==
  /\ rpc[p] = NoRpc
  /\ up
  /\ p \in connected
  /\ \E n \in Names : rpc' = [rpc EXCEPT ![p] = [pc |-> "sent", name |-> n]]
  /\ UNCHANGED <<brokerVars, table, up, granted, stream, connected, probe, established,
                 listener, faults>>

\* PermissionStore::check of the tool, where `ask` is a refusal.  Nothing opens
\* after a refusal, nor after the error of a bridge that has no backend or
\* fails to reach it.
RpcForward(p) ==
  /\ rpc[p].pc = "sent"
  /\ \/ /\ <<p, rpc[p].name, "connect">> \in granted
        /\ rpc' = [rpc EXCEPT ![p] = [rpc[p] EXCEPT !.pc = "forwarded"]]
     \/ rpc' = [rpc EXCEPT ![p] = NoRpc]
  /\ UNCHANGED <<brokerVars, table, up, granted, stream, connected, probe, established,
                 listener, faults>>

\* The broker finds the tool, and handle_connect the name; if not, the answer
\* is an error.
HandleConnect(p) ==
  /\ rpc[p].pc = "forwarded"
  /\ rpc' = [rpc EXCEPT ![p] =
       IF rpc[p].name \in tools /\ exposed[rpc[p].name] # None
       THEN [rpc[p] EXCEPT !.pc = "authorized"] ELSE NoRpc]
  /\ UNCHANGED <<brokerVars, table, up, granted, stream, connected, probe, established,
                 listener, faults>>

\* maybe_open_tunnel on the peer's side: a listener, or the error of bind,
\* after which the agent is handed the authorization as it is.
OpenListener(p) ==
  /\ rpc[p].pc = "authorized"
  /\ listener' \in {listener \cup {<<p, rpc[p].name>>}, listener}
  /\ rpc' = [rpc EXCEPT ![p] = NoRpc]
  /\ UNCHANGED <<brokerVars, table, up, granted, stream, connected, probe, established, faults>>
-----------------------------------------------------------------------------
(* Faults and the operator *)

\* The streams of these peers end, and so do their calls.
CutOff(peers) ==
  /\ stream' = [s \in Streams |-> IF stream[s].peer \in peers THEN Closed ELSE stream[s]]
  /\ probe' = [e \in Probes |->
                 IF e[1] \in peers /\ probe[e] = "waiting" THEN "none" ELSE probe[e]]
  /\ established' = established
       \cup (UNION {AfterFailure(e) : e \in {x \in Probes : x[1] \in peers /\ probe[x] = "waiting"}})
  /\ rpc' = [p \in Peers |-> IF p \in peers THEN NoRpc ELSE rpc[p]]

Disconnect(p) ==
  /\ p \in connected
  /\ connected' = connected \ {p}
  /\ CutOff({p})
  /\ UNCHANGED <<brokerVars, table, up, granted, listener, faults>>

Reconnect(p) ==
  /\ p \notin connected
  /\ connected' = connected \cup {p}
  /\ UNCHANGED <<brokerVars, table, up, granted, stream, probe, established, listener, rpc, faults>>

BridgeStops ==
  /\ Fault
  /\ up
  /\ up' = FALSE
  /\ table' = [n \in Names |-> None]
  /\ wire' = {}
  /\ call' = [c \in Calls |-> [call[c] EXCEPT !.alone = FALSE]]
  /\ disturbed' = disturbed \cup {n \in Names : exposed[n] # None \/ Busy(n)}
  /\ CutOff(Peers)
  /\ UNCHANGED <<exposed, tools, ops, granted, connected, listener>>

BridgeStarts ==
  /\ ~up
  /\ up' = TRUE
  /\ UNCHANGED <<brokerVars, table, granted, stream, peerVars, faults>>

\* The expose table is lost; what is on the wire is not.
BrokerRestarts ==
  /\ Fault
  /\ exposed' = [n \in Names |-> None]
  /\ tools' = {}
  /\ call' = [c \in Calls |-> Idle]
  /\ disturbed' = disturbed \cup {n \in Names : table[n] # None \/ Busy(n)}
  /\ rpc' = [p \in Peers |-> IF rpc[p].pc = "forwarded" THEN NoRpc ELSE rpc[p]]
  /\ UNCHANGED <<wire, ops, table, up, granted, stream, connected, probe, established, listener>>

\* `clawshake permissions allow` and `deny`
EditPermission(p, n, k) ==
  /\ \/ granted' = granted \cup {<<p, n, k>>}
     \/ granted' = granted \ {<<p, n, k>>}
  /\ stream' = [s \in Streams |->
       [stream[s] EXCEPT !.wasAllowed =
          @ \/ (stream[s].pc # "closed" /\ <<stream[s].peer, stream[s].name, "tunnel">> \in granted')]]
  /\ UNCHANGED <<brokerVars, table, up, peerVars, faults>>
-----------------------------------------------------------------------------
Next ==
  \/ \E c \in Calls : Begin(c) \/ CallStep(c)
  \/ \E r \in wire : Handle(r)
  \/ \E s \in Conns : OpenConn(s)
  \/ \E s \in Streams : StreamStep(s) \/ HangUp(s)
  \/ \E e \in Probes : Probe(e) \/ ProbeFails(e) \/ Establish(e) \/ BindFails(e)
  \/ \E p \in Peers : AgentCalls(p) \/ RpcForward(p) \/ HandleConnect(p) \/ OpenListener(p)
                     \/ Disconnect(p) \/ Reconnect(p)
  \/ \E p \in Peers, n \in Names, k \in Kinds : EditPermission(p, n, k)
  \/ BridgeStops \/ BridgeStarts \/ BrokerRestarts

Spec == Init /\ [][Next]_vars

\* The runtime runs every task that can go on; auto_connect_task comes to each
\* entry again and again, and a peer drops the probe that it has read.  Nothing
\* is assumed of the bridge's IPC tasks, for which a client does not wait
\* longer than its timeout, nor of agents and connections.
Fairness ==
  /\ \A c \in Calls : WF_vars(CallStep(c))
  /\ \A s \in Streams : WF_vars(StreamStep(s))
  /\ \A e \in Probes : /\ WF_vars(Probe(e))
                       /\ WF_vars(Establish(e))
                       /\ WF_vars(probe[e] = "none" /\ HangUp(e))

FairSpec == Spec /\ Fairness
-----------------------------------------------------------------------------
(* Every variable keeps its type. *)
TypeOK ==
  /\ exposed \in [Names -> Ports \cup {None}]
  /\ tools \subseteq Names
  /\ call \in [Calls -> {Idle} \cup
                 [pc : {"check", "insert", "send", "wait"}, id : 1 .. MaxOps,
                  op : {"expose", "unexpose"}, name : Names, port : Ports \cup {None},
                  alone : BOOLEAN]]
  /\ \A c \in Calls : call[c].op = "expose" /\ call[c].pc # "idle" => call[c].port # None
  /\ wire \subseteq Request
  /\ ops \in 0 .. MaxOps
  /\ table \in [Names -> Ports \cup {None}]
  /\ up \in BOOLEAN
  /\ granted \subseteq Peers \X Names \X Kinds
  /\ stream \in [Streams -> {Closed} \cup
                   [pc : {"check", "acked", "spliced"}, peer : Peers, name : Names,
                    port : Ports, wasShared : BOOLEAN, wasAllowed : BOOLEAN]]
  /\ connected \subseteq Peers
  /\ probe \in [Probes -> {"none", "waiting", "acked"}]
  /\ established \subseteq listener
  /\ listener \subseteq Probes
  /\ rpc \in [Peers -> {NoRpc} \cup [pc : {"sent", "forwarded", "authorized"}, name : Names]]
  /\ faults \in 0 .. MaxFaults
  /\ disturbed \subseteq Names

(* The broker's table, its tools and the bridge's table say the same of a name *)
(* that nothing is being done about, unless calls for it have overlapped, an   *)
(* IPC request has timed out or found no bridge, or a process has restarted    *)
(* with something to forget.  A call that nobody disturbs restores agreement.  *)
(* The three are changed by three steps in two processes.                      *)
TablesAgree ==
  \A n \in Names : n \notin disturbed /\ ~Busy(n) =>
    /\ exposed[n] = table[n]
    /\ n \in tools <=> exposed[n] # None

(* A stream that was acknowledged or spliced leads to a port that the broker   *)
(* shared under its name, unless the name was disturbed or being worked on,    *)
(* for a peer that `tunnel:{name}` was granted to, since the stream was        *)
(* opened: no listener that outlived its name, no port of an earlier expose    *)
(* and no grant of the tool gets a connection.                                 *)
TunnelsWereGranted ==
  \A s \in Streams : stream[s].pc # "closed" =>
    /\ stream[s].wasShared
    /\ stream[s].pc # "check" => stream[s].wasAllowed

(* Every call of network_expose and network_unexpose returns, also when the    *)
(* bridge never answers, and every stream is refused or spliced.               *)
EveryoneIsAnswered ==
  /\ \A c \in Calls : call[c].pc # "idle" ~> call[c].pc = "idle"
  /\ \A s \in Streams : stream[s].pc # "closed" ~> stream[s].pc \in {"closed", "spliced"}

(* A peer listens for a declared tunnel once it stays connected, the name      *)
(* stays in the table and the permission stays granted, however often probes   *)
(* failed before that: auto_connect_task retries a failed attempt at every     *)
(* round of five seconds.  Its doc comment promises less: one attempt per      *)
(* appearance of the peer, and the next when the peer connects again.          *)
AutoConnects ==
  \A e \in Probes :
    <>[](up /\ e[1] \in connected /\ table[e[2]] # None /\ MayTunnel(e[1], e[2]))
      => <>(e \in listener)
=============================================================================
