---------------------------- MODULE TunnelsProofs ----------------------------
(***************************************************************************)
(* Proofs that the broker's table, its tools and the bridge's table agree  *)
(* on every name that nobody disturbs, and that no stream gets past the    *)
(* permission check without a grant and a shared port, for every number of *)
(* callers, names, ports, peers, streams, restarts and calls.              *)
(***************************************************************************)
EXTENDS Tunnels, TLAPS

(* The types by what they are about. *)

Calling == [pc : {"check", "insert", "send", "wait"}, id : 1 .. MaxOps,
            op : {"expose", "unexpose"}, name : Names, port : Ports \cup {None},
            alone : BOOLEAN]

CallState == {Idle} \cup Calling

BrokerTypes ==
  /\ exposed \in [Names -> Ports \cup {None}]
  /\ tools \subseteq Names
  /\ call \in [Calls -> CallState]
  /\ wire \subseteq Request
  /\ ops \in 0 .. MaxOps
  /\ disturbed \subseteq Names

BridgeTypes ==
  /\ table \in [Names -> Ports \cup {None}]
  /\ up \in BOOLEAN
  /\ granted \subseteq Peers \X Names \X Kinds
  /\ faults \in 0 .. MaxFaults

Streaming == [pc : {"check", "acked", "spliced"}, peer : Peers, name : Names,
              port : Ports, wasShared : BOOLEAN, wasAllowed : BOOLEAN]

StreamState == {Closed} \cup Streaming

StreamTypes == stream \in [Streams -> StreamState]

Asking == [pc : {"sent", "forwarded", "authorized"}, name : Names]

PeerTypes ==
  /\ connected \subseteq Peers
  /\ probe \in [Probes -> {"none", "waiting", "acked"}]
  /\ established \subseteq listener
  /\ listener \subseteq Probes
  /\ rpc \in [Peers -> {NoRpc} \cup Asking]

Types == BrokerTypes /\ BridgeTypes /\ StreamTypes /\ PeerTypes

Live(c) == call[c].pc # "idle"

\* Only an expose has a port.
PortsFit == \A c \in Calls : Live(c) => (call[c].op = "expose" <=> call[c].port # None)

RequestsFit == \A r \in wire : r.op = "expose" <=> r.port # None

(***************************************************************************)
(* A call that began alone and was not disturbed is the only one for its   *)
(* name, and no request for it but its own is on the wire.                 *)
(***************************************************************************)
AloneIsAlone ==
  \A c \in Calls : Live(c) /\ call[c].alone =>
    /\ \A d \in Calls : Live(d) /\ call[d].name = call[c].name => d = c
    /\ \A r \in wire : r.name = call[c].name => r = RequestOf(c) /\ call[c].pc = "wait"

(***************************************************************************)
(* Such a call has its name, and not more than that, where its steps say:  *)
(* so it restores agreement, whatever there was before.                    *)
(***************************************************************************)
AloneHasDone ==
  \A c \in Calls : Live(c) /\ call[c].alone =>
    /\ call[c].pc \in {"send", "wait"} => exposed[call[c].name] = call[c].port
    /\ call[c].pc = "wait" =>
         /\ call[c].name \in tools <=> call[c].port # None
         /\ RequestOf(c) \in wire \/ table[call[c].name] = call[c].port

(***************************************************************************)
(* On a name that is not disturbed every call is of that kind, and the     *)
(* tables agree until the call has passed its first check.                 *)
(***************************************************************************)
QuietIsAlone ==
  \A n \in Names : n \notin disturbed =>
    /\ \A c \in Calls : Live(c) /\ call[c].name = n => call[c].alone
    /\ OnTheWire(n) => InProgress(n)

Agree(n) == exposed[n] = table[n] /\ (n \in tools <=> exposed[n] # None)

UntouchedAgrees ==
  \A n \in Names :
    (/\ n \notin disturbed
     /\ \A c \in Calls : Live(c) /\ call[c].name = n => call[c].pc = "check"
     /\ ~OnTheWire(n))
    => Agree(n)

Agreement ==
  PortsFit /\ RequestsFit /\ AloneIsAlone /\ AloneHasDone /\ QuietIsAlone /\ UntouchedAgrees

(***************************************************************************)
(* What the streams keep: a grant that a stream at its permission check    *)
(* could use has been noticed.                                             *)
(***************************************************************************)
GoodStream(s) ==
  /\ stream[s].pc = "check" /\ MayTunnel(stream[s].peer, stream[s].name) => stream[s].wasAllowed
  /\ stream[s].pc # "closed" => stream[s].wasShared
  /\ stream[s].pc \notin {"closed", "check"} => stream[s].wasAllowed

StreamsAreGood == \A s \in Streams : GoodStream(s)

\* The inductive invariant.
IInv == Types /\ Agreement /\ StreamsAreGood
-----------------------------------------------------------------------------
(* Types *)

LEMMA NamesAreReal ==
  ASSUME BrokerTypes, NEW c \in Calls
  PROVE  /\ Live(c) <=> call[c] \in Calling
         /\ ~Live(c) <=> call[c] = Idle
         /\ Live(c) <=> call[c].name \in Names
<1>1. call[c] \in CallState
  BY DEF BrokerTypes
<1>2. CASE call[c] = Idle
  BY <1>2, TunnelsAssumption DEF Idle, Calling, Live
<1>3. CASE call[c] \in Calling
  BY <1>3, TunnelsAssumption DEF Idle, Calling, Live
<1> QED
  BY <1>1, <1>2, <1>3 DEF CallState

\* Setting a field to the value that it has changes nothing.
LEMMA IdleIsIdle == \A x : x = Idle => [x EXCEPT !.alone = FALSE] = Idle
<1> DEFINE R == [pc : {"idle"}, id : {0}, op : {"expose"}, name : {None}, port : {None},
                 alone : {FALSE}]
<1> TAKE x
<1> HAVE x = Idle
<1>1. x \in R
  BY DEF Idle
<1>2. [x EXCEPT !.alone = FALSE] \in R
  BY <1>1
<1> QED
  BY <1>1, <1>2

LEMMA ClosedIsClosed == \A x : x = Closed => [x EXCEPT !.wasAllowed = FALSE] = Closed
<1> DEFINE R == [pc : {"closed"}, peer : {None}, name : {None}, port : {None},
                 wasShared : {FALSE}, wasAllowed : {FALSE}]
<1> TAKE x
<1> HAVE x = Closed
<1>1. x \in R
  BY DEF Closed
<1>2. [x EXCEPT !.wasAllowed = FALSE] \in R
  BY <1>1
<1> QED
  BY <1>1, <1>2

LEMMA BrokerTypesStep == BrokerTypes /\ [Next]_vars => BrokerTypes'
<1> SUFFICES ASSUME BrokerTypes, [Next]_vars PROVE BrokerTypes'
  OBVIOUS
<1> USE TunnelsAssumption
<1>0. None \notin Names /\ Idle \in CallState
  BY DEF CallState
<1>1. ASSUME NEW c \in Calls, Begin(c) PROVE BrokerTypes'
  <2>1. ops' = ops + 1 /\ ops' \in 0 .. MaxOps /\ ops + 1 \in 1 .. MaxOps
    BY <1>1 DEF Begin, BrokerTypes
  <2>2. PICK n \in Names, new \in [op : {"expose"}, port : Ports] \cup [op : {"unexpose"}, port : {None}] :
          /\ call' = [(IF Busy(n) THEN Disturb(n, call) ELSE call) EXCEPT ![c] =
                     [pc |-> "check", id |-> ops + 1, op |-> new.op, name |-> n,
                      port |-> new.port, alone |-> ~Busy(n)]]
          /\ disturbed' = IF Busy(n) THEN disturbed \cup {n} ELSE disturbed
    BY <1>1 DEF Begin
  <2>3. [pc |-> "check", id |-> ops + 1, op |-> new.op, name |-> n,
         port |-> new.port, alone |-> ~Busy(n)] \in Calling
    BY <2>1, <2>2 DEF Calling
  <2>4. ASSUME NEW d \in Calls PROVE Disturb(n, call)[d] \in CallState
    <3>1. call[d] \in CallState
      BY DEF BrokerTypes
    <3>2. CASE call[d].name # n
      BY <3>1, <3>2 DEF Disturb
    <3>3. CASE call[d].name = n
      <4>1. call[d] # Idle
        BY <3>3, <1>0 DEF Idle
      <4>2. call[d] \in Calling
        BY <3>1, <4>1 DEF CallState
      <4>3. [call[d] EXCEPT !.alone = FALSE] \in Calling
        BY <4>2 DEF Calling
      <4> QED
        BY <3>3, <4>3 DEF Disturb, CallState
    <3> QED
      BY <3>2, <3>3
  <2>5. Disturb(n, call) \in [Calls -> CallState]
    BY <2>4 DEF Disturb
  <2>6. call' \in [Calls -> CallState]
    BY <2>2, <2>3, <2>5 DEF BrokerTypes, CallState
  <2> QED
    BY <1>1, <2>1, <2>2, <2>6 DEF Begin, BrokerTypes
<1>2. ASSUME NEW c \in Calls, CallStep(c) PROVE BrokerTypes'
  <2>1. call[c].pc # "idle" /\ call[c] \in Calling
    BY <1>2, NamesAreReal DEF CallStep, CheckName, InsertName, RemoveName, Send, SendFails,
       Return, TimeOut, Live
  <2>2. ASSUME NEW to \in {"check", "insert", "send", "wait"}, Goto(c, to)
        PROVE  call' \in [Calls -> CallState]
    <3>1. [call[c] EXCEPT !.pc = to] \in Calling
      BY <2>1 DEF Calling
    <3>2. call' = [call EXCEPT ![c] = [call[c] EXCEPT !.pc = to]]
      BY <2>2 DEF Goto
    <3> QED
      BY <3>1, <3>2 DEF BrokerTypes, CallState
  <2>3. Finish(c) => call' \in [Calls -> CallState]
    BY DEF Finish, BrokerTypes, CallState
  <2>4. call[c].name \in Names /\ call[c].port \in Ports \cup {None} /\ RequestOf(c) \in Request
    BY <2>1 DEF Calling, RequestOf, Request
  <2>5. CASE CheckName(c)
    BY <2>2, <2>3, <2>5 DEF CheckName, BrokerTypes
  <2>6. CASE InsertName(c)
    BY <2>2, <2>4, <2>6 DEF InsertName, BrokerTypes
  <2>7. CASE RemoveName(c)
    BY <2>2, <2>3, <2>4, <2>7 DEF RemoveName, BrokerTypes
  <2>8. CASE Send(c)
    BY <2>2, <2>4, <2>8 DEF Send, ToolsAfter, BrokerTypes
  <2>9. CASE SendFails(c)
    BY <2>3, <2>4, <2>9 DEF SendFails, ToolsAfter, BrokerTypes
  <2>10. CASE Return(c)
    BY <2>3, <2>10 DEF Return, BrokerTypes
  <2>11. CASE TimeOut(c)
    BY <2>3, <2>4, <2>11 DEF TimeOut, BrokerTypes
  <2> QED
    BY <1>2, <2>5, <2>6, <2>7, <2>8, <2>9, <2>10, <2>11 DEF CallStep
<1>3. ASSUME NEW r \in wire, Handle(r) PROVE BrokerTypes'
  BY <1>3 DEF Handle, BrokerTypes
<1>4. CASE BridgeStops
  <2>1. ASSUME NEW d \in Calls PROVE [call[d] EXCEPT !.alone = FALSE] \in CallState
    <3>1. CASE call[d] = Idle
      <4>1. [call[d] EXCEPT !.alone = FALSE] = Idle
        BY <3>1, IdleIsIdle
      <4> QED
        BY <4>1, <1>0
    <3>2. CASE call[d] \in Calling
      BY <3>2 DEF CallState, Calling
    <3> QED
      BY <3>1, <3>2 DEF BrokerTypes, CallState
  <2> QED
    BY <1>4, <2>1 DEF BridgeStops, BrokerTypes
<1>5. CASE BrokerRestarts
  BY <1>5, <1>0 DEF BrokerRestarts, BrokerTypes
<1>6. CASE UNCHANGED brokerVars
  BY <1>6 DEF brokerVars, BrokerTypes
<1>7. (\E s \in Conns : OpenConn(s)) => UNCHANGED brokerVars
  BY DEF OpenConn, Lookup
<1>8. (\E s \in Streams : StreamStep(s) \/ HangUp(s)) => UNCHANGED brokerVars
  BY DEF StreamStep, HangUp, CheckStream, CheckFails, ConnectService, ConnectFails, DropStream
<1>9. (\E e \in Probes : Probe(e) \/ ProbeFails(e) \/ Establish(e) \/ BindFails(e))
        => UNCHANGED brokerVars
  BY DEF Probe, Lookup, ProbeFails, Establish, BindFails
<1>10. (\E p \in Peers : AgentCalls(p) \/ RpcForward(p) \/ HandleConnect(p) \/ OpenListener(p)
                       \/ Disconnect(p) \/ Reconnect(p))
         => UNCHANGED brokerVars
  BY DEF AgentCalls, RpcForward, HandleConnect, OpenListener, Disconnect, Reconnect
<1>11. (\E p \in Peers, n \in Names, k \in Kinds : EditPermission(p, n, k)) => UNCHANGED brokerVars
  BY DEF EditPermission
<1>12. BridgeStarts \/ UNCHANGED vars => UNCHANGED brokerVars
  BY DEF BridgeStarts, vars, brokerVars
<1> QED
  BY <1>1, <1>2, <1>3, <1>4, <1>5, <1>6, <1>7, <1>8, <1>9, <1>10, <1>11, <1>12 DEF Next

LEMMA BridgeTypesStep == BrokerTypes /\ BridgeTypes /\ [Next]_vars => BridgeTypes'
<1> SUFFICES ASSUME BrokerTypes, BridgeTypes, [Next]_vars PROVE BridgeTypes'
  OBVIOUS
<1> USE TunnelsAssumption DEF BridgeTypes
<1>1. Fault => faults' \in 0 .. MaxFaults
  BY DEF Fault
<1>2. ASSUME NEW r \in wire, Handle(r) PROVE BridgeTypes'
  BY <1>2 DEF Handle, TableAfter, Request, BrokerTypes
<1>3. CASE BridgeStops
  BY <1>1, <1>3 DEF BridgeStops
<1>4. CASE BrokerRestarts
  BY <1>1, <1>4 DEF BrokerRestarts
<1>5. ASSUME NEW e \in Probes, BindFails(e) PROVE BridgeTypes'
  BY <1>1, <1>5 DEF BindFails
<1>6. ASSUME NEW p \in Peers, NEW n \in Names, NEW k \in Kinds, EditPermission(p, n, k)
      PROVE  BridgeTypes'
  BY <1>6 DEF EditPermission
<1>7. CASE BridgeStarts
  BY <1>7 DEF BridgeStarts
<1>8. CASE UNCHANGED <<table, up, granted, faults>>
  BY <1>8
<1>9. (\E c \in Calls : Begin(c) \/ CallStep(c)) => UNCHANGED <<table, up, granted, faults>>
  BY DEF Begin, CallStep, CheckName, InsertName, RemoveName, Send, SendFails, Return, TimeOut
<1>10. (\E s \in Conns : OpenConn(s)) => UNCHANGED <<table, up, granted, faults>>
  BY DEF OpenConn, Lookup
<1>11. (\E s \in Streams : StreamStep(s) \/ HangUp(s)) => UNCHANGED <<table, up, granted, faults>>
  BY DEF StreamStep, HangUp, CheckStream, CheckFails, ConnectService, ConnectFails, DropStream
<1>12. (\E e \in Probes : Probe(e) \/ ProbeFails(e) \/ Establish(e))
         => UNCHANGED <<table, up, granted, faults>>
  BY DEF Probe, Lookup, ProbeFails, Establish
<1>13. (\E p \in Peers : AgentCalls(p) \/ RpcForward(p) \/ HandleConnect(p) \/ OpenListener(p)
                       \/ Disconnect(p) \/ Reconnect(p))
         => UNCHANGED <<table, up, granted, faults>>
  BY DEF AgentCalls, RpcForward, HandleConnect, OpenListener, Disconnect, Reconnect
<1>14. UNCHANGED vars => UNCHANGED <<table, up, granted, faults>>
  BY DEF vars
<1> QED
  BY <1>2, <1>3, <1>4, <1>5, <1>6, <1>7, <1>8, <1>9, <1>10, <1>11, <1>12, <1>13, <1>14 DEF Next

(* What each step does to the streams. *)

LEMMA StreamsAreReal ==
  ASSUME StreamTypes, NEW s \in Streams
  PROVE  /\ stream[s].pc # "closed" <=> stream[s] \in Streaming
         /\ stream[s].pc = "closed" <=> stream[s] = Closed
<1>1. CASE stream[s] = Closed
  BY <1>1 DEF Closed, Streaming
<1>2. CASE stream[s] \in Streaming
  BY <1>2 DEF Closed, Streaming
<1> QED
  BY <1>1, <1>2 DEF StreamTypes, StreamState


LEMMA LookupTypes ==
  ASSUME BrokerTypes, BridgeTypes, StreamTypes,
         NEW s \in Streams, NEW p \in Peers, NEW n \in Names, Lookup(s, p, n)
  PROVE  StreamTypes'
<1>1. table[n] \in Ports
  BY DEF Lookup, BridgeTypes
<1>2. stream'[s] \in Streaming
  BY <1>1 DEF Lookup, Streaming, StreamTypes
<1> QED
  BY <1>2 DEF Lookup, StreamTypes, StreamState

LEMMA StreamTypesStep ==
  BrokerTypes /\ BridgeTypes /\ StreamTypes /\ PeerTypes /\ [Next]_vars => StreamTypes'
<1> SUFFICES ASSUME BrokerTypes, BridgeTypes, StreamTypes, PeerTypes, [Next]_vars PROVE StreamTypes'
  OBVIOUS
<1> USE TunnelsAssumption
<1>1. ASSUME NEW s \in Conns, OpenConn(s) PROVE StreamTypes'
  <2>1. PICK e \in listener : Lookup(s, e[1], e[2])
    BY <1>1 DEF OpenConn
  <2>2. e[1] \in Peers /\ e[2] \in Names
    BY DEF PeerTypes, Probes
  <2> QED
    BY <2>1, <2>2, LookupTypes DEF Streams
<1>2. ASSUME NEW e \in Probes, Probe(e) PROVE StreamTypes'
  <2>1. e[1] \in Peers /\ e[2] \in Names /\ e \in Streams
    BY DEF Probes, Streams
  <2> QED
    BY <1>2, <2>1, LookupTypes DEF Probe
<1>3. ASSUME NEW s \in Streams, DropStream(s) PROVE StreamTypes'
  BY <1>3 DEF DropStream, StreamTypes, StreamState
<1>4. ASSUME NEW s \in Streams, CheckStream(s) \/ ConnectService(s) PROVE StreamTypes'
  <2>1. stream[s] \in Streaming
    BY <1>4, StreamsAreReal DEF CheckStream, ConnectService
  <2>2. ASSUME NEW to \in {"acked", "spliced"}
        PROVE  [stream[s] EXCEPT !.pc = to] \in Streaming
    BY <2>1 DEF Streaming
  <2>3. PICK to \in {"acked", "spliced"} : stream' = [stream EXCEPT ![s] = [stream[s] EXCEPT !.pc = to]]
    BY <1>4 DEF CheckStream, ConnectService
  <2> QED
    BY <2>2, <2>3 DEF StreamTypes, StreamState
<1>5. ASSUME NEW peers, CutOff(peers) PROVE StreamTypes'
  BY <1>5 DEF CutOff, StreamTypes, StreamState
<1>6. ASSUME NEW p \in Peers, NEW n \in Names, NEW k \in Kinds, EditPermission(p, n, k)
      PROVE  StreamTypes'
  <2> DEFINE Usable(s) == stream[s].pc # "closed" /\ <<stream[s].peer, stream[s].name, "tunnel">> \in granted'
  <2>1. stream' = [s \in Streams |-> [stream[s] EXCEPT !.wasAllowed = stream[s].wasAllowed \/ Usable(s)]]
    BY <1>6 DEF EditPermission
  <2>2. ASSUME NEW s \in Streams
        PROVE  [stream[s] EXCEPT !.wasAllowed = stream[s].wasAllowed \/ Usable(s)] \in StreamState
    <3>1. CASE stream[s] = Closed
      <4>1. (stream[s].wasAllowed \/ Usable(s)) = FALSE
        BY <3>1 DEF Closed
      <4>2. [stream[s] EXCEPT !.wasAllowed = FALSE] = Closed
        BY <3>1, ClosedIsClosed
      <4> HIDE DEF Usable
      <4> QED
        BY <3>1, <4>1, <4>2 DEF StreamState
    <3>2. CASE stream[s] \in Streaming
      <4>1. (stream[s].wasAllowed \/ Usable(s)) \in BOOLEAN
        OBVIOUS
      <4> HIDE DEF Usable
      <4> QED
        BY <3>2, <4>1 DEF Streaming, StreamState
    <3> QED
      BY <3>1, <3>2 DEF StreamTypes, StreamState
  <2> HIDE DEF Usable
  <2> QED
    BY <2>1, <2>2 DEF StreamTypes
<1>7. CASE UNCHANGED stream
  BY <1>7 DEF StreamTypes
<1>8. (\E c \in Calls : Begin(c) \/ CallStep(c)) => UNCHANGED stream
  BY DEF Begin, CallStep, CheckName, InsertName, RemoveName, Send, SendFails, Return, TimeOut
<1>9. (\E r \in wire : Handle(r)) \/ BridgeStarts \/ BrokerRestarts \/ UNCHANGED vars => UNCHANGED stream
  BY DEF Handle, BridgeStarts, BrokerRestarts, vars
<1>10. (\E e \in Probes : ProbeFails(e) \/ Establish(e) \/ BindFails(e)) => UNCHANGED stream
  BY DEF ProbeFails, Establish, BindFails
<1>11. (\E p \in Peers : AgentCalls(p) \/ RpcForward(p) \/ HandleConnect(p) \/ OpenListener(p)
                       \/ Reconnect(p)) => UNCHANGED stream
  BY DEF AgentCalls, RpcForward, HandleConnect, OpenListener, Reconnect
<1>12. ASSUME NEW s \in Streams, StreamStep(s) \/ HangUp(s)
       PROVE  DropStream(s) \/ CheckStream(s) \/ ConnectService(s)
  BY <1>12 DEF StreamStep, HangUp, CheckFails, ConnectFails
<1>13. (\E p \in Peers : Disconnect(p)) \/ BridgeStops => \E peers : CutOff(peers)
  BY DEF Disconnect, BridgeStops
<1> QED
  BY <1>1, <1>2, <1>3, <1>4, <1>5, <1>6, <1>7, <1>8, <1>9, <1>10, <1>11, <1>12, <1>13 DEF Next

LEMMA PeerTypesStep == BridgeTypes /\ PeerTypes /\ [Next]_vars => PeerTypes'
<1> SUFFICES ASSUME BridgeTypes, PeerTypes, [Next]_vars PROVE PeerTypes'
  OBVIOUS
<1> USE DEF PeerTypes
<1>0. ASSUME NEW p \in Peers PROVE rpc[p].pc # "none" => rpc[p] \in Asking
  BY DEF NoRpc
<1>1. ASSUME NEW s \in Streams, DropStream(s) PROVE PeerTypes'
  BY <1>1 DEF DropStream, AfterFailure
<1>2. ASSUME NEW s \in Streams, CheckStream(s) PROVE PeerTypes'
  BY <1>2 DEF CheckStream
<1>3. ASSUME NEW e \in Probes, Probe(e) \/ ProbeFails(e) PROVE PeerTypes'
  BY <1>3 DEF Probe, Lookup, ProbeFails, AfterFailure
<1>4. ASSUME NEW e \in Probes, Establish(e) \/ BindFails(e) PROVE PeerTypes'
  BY <1>4 DEF Establish, BindFails, AfterFailure
<1>5. ASSUME NEW p \in Peers, AgentCalls(p) \/ Reconnect(p) PROVE PeerTypes'
  BY <1>5 DEF AgentCalls, Reconnect, Asking
<1>6. ASSUME NEW p \in Peers, RpcForward(p) \/ HandleConnect(p) PROVE PeerTypes'
  <2>1. rpc[p] \in Asking
    BY <1>6, <1>0 DEF RpcForward, HandleConnect
  <2>2. ASSUME NEW to \in {"forwarded", "authorized"} PROVE [rpc[p] EXCEPT !.pc = to] \in Asking
    BY <2>1 DEF Asking
  <2>3. UNCHANGED <<connected, probe, established, listener>>
    BY <1>6 DEF RpcForward, HandleConnect
  <2>4. \E v \in {NoRpc, [rpc[p] EXCEPT !.pc = "forwarded"], [rpc[p] EXCEPT !.pc = "authorized"]} :
          rpc' = [rpc EXCEPT ![p] = v]
    BY <1>6 DEF RpcForward, HandleConnect
  <2>5. rpc' \in [Peers -> {NoRpc} \cup Asking]
    BY <2>2, <2>4
  <2> QED
    BY <2>3, <2>5
<1>7. ASSUME NEW peers, CutOff(peers), connected' \subseteq Peers, UNCHANGED listener PROVE PeerTypes'
  <2> DEFINE S == {x \in Probes : x[1] \in peers /\ probe[x] = "waiting"}
             Added == UNION {AfterFailure(e) : e \in S}
  <2>a. Added \subseteq established
    BY DEF AfterFailure
  <2>b. established' = established \cup Added
    BY <1>7 DEF CutOff
  <2> HIDE DEF Added
  <2>1. established' = established
    BY <2>a, <2>b
  <2>2. probe' \in [Probes -> {"none", "waiting", "acked"}]
    BY <1>7 DEF CutOff
  <2>3. rpc' \in [Peers -> {NoRpc} \cup Asking]
    BY <1>7 DEF CutOff
  <2> QED
    BY <1>7, <2>1, <2>2, <2>3
<1>8. (\E p \in Peers : Disconnect(p)) \/ BridgeStops
        => UNCHANGED listener /\ connected' \subseteq Peers /\ \E peers : CutOff(peers)
  BY DEF Disconnect, BridgeStops
<1>9. CASE BrokerRestarts
  BY <1>9 DEF BrokerRestarts
<1>10. CASE UNCHANGED peerVars
  BY <1>10 DEF peerVars
<1>11. (\E c \in Calls : Begin(c) \/ CallStep(c)) => UNCHANGED peerVars
  BY DEF Begin, CallStep, CheckName, InsertName, RemoveName, Send, SendFails, Return, TimeOut
<1>12. (\E r \in wire : Handle(r)) \/ BridgeStarts \/ UNCHANGED vars => UNCHANGED peerVars
  BY DEF Handle, BridgeStarts, vars, peerVars
<1>13. (\E p \in Peers, n \in Names, k \in Kinds : EditPermission(p, n, k)) => UNCHANGED peerVars
  BY DEF EditPermission
<1>14. (\E s \in Conns : OpenConn(s)) \/ (\E s \in Streams : ConnectService(s)) => UNCHANGED peerVars
  BY DEF OpenConn, Lookup, ConnectService, peerVars
<1>15. ASSUME NEW s \in Streams, StreamStep(s) \/ HangUp(s)
       PROVE  DropStream(s) \/ CheckStream(s) \/ ConnectService(s)
  BY <1>15 DEF StreamStep, HangUp, CheckFails, ConnectFails
<1>16. ASSUME NEW p \in Peers, OpenListener(p) PROVE PeerTypes'
  <2>1. rpc[p] \in Asking
    BY <1>16, <1>0 DEF OpenListener
  <2>2. <<p, rpc[p].name>> \in Probes
    BY <2>1 DEF Probes, Asking
  <2>3. UNCHANGED <<connected, probe, established>> /\ rpc' = [rpc EXCEPT ![p] = NoRpc]
    BY <1>16 DEF OpenListener
  <2>4. listener' = listener \cup {<<p, rpc[p].name>>} \/ listener' = listener
    BY <1>16 DEF OpenListener
  <2> QED
    BY <2>2, <2>3, <2>4
<1> QED
  BY <1>1, <1>2, <1>3, <1>4, <1>5, <1>6, <1>7, <1>8, <1>9, <1>10, <1>11, <1>12, <1>13, <1>14, <1>15,
     <1>16
  DEF Next

LEMMA TypesStep == Types /\ [Next]_vars => Types'
  BY BrokerTypesStep, BridgeTypesStep, StreamTypesStep, PeerTypesStep DEF Types
-----------------------------------------------------------------------------
(* Agreement *)

\* The variables that agreement is about.
agreeVars == <<exposed, tools, call, wire, table, disturbed>>

\* The other calls stay as they are when one of them goes on or is done.
LEMMA FinishKeeps ==
  ASSUME Types, NEW c \in Calls, Finish(c)
  PROVE  /\ call'[c] = Idle /\ call'[c].pc = "idle"
         /\ \A d \in Calls : d # c => call'[d] = call[d]
  BY DEF Finish, Types, BrokerTypes, Idle

LEMMA GotoKeeps ==
  ASSUME Types, NEW c \in Calls, NEW to \in {"insert", "send", "wait"}, Goto(c, to), Live(c)
  PROVE  /\ call'[c].pc = to /\ call'[c].id = call[c].id /\ call'[c].op = call[c].op
         /\ call'[c].name = call[c].name /\ call'[c].port = call[c].port
         /\ call'[c].alone = call[c].alone
         /\ \A d \in Calls : d # c => call'[d] = call[d]
<1>1. call[c] \in Calling
  BY NamesAreReal DEF Types
<1>2. call'[c] = [call[c] EXCEPT !.pc = to] /\ \A d \in Calls : d # c => call'[d] = call[d]
  BY DEF Goto, Types, BrokerTypes
<1> QED
  BY <1>1, <1>2 DEF Calling

(* One lemma per step that touches these variables. *)

LEMMA CheckNameAgrees ==
  ASSUME Types, Agreement, NEW c \in Calls, CheckName(c) PROVE Agreement'
<1> DEFINE n == call[c].name
<1>1. /\ Live(c) /\ n \in Names /\ call[c].pc = "check"
      /\ UNCHANGED <<exposed, tools, wire, table, disturbed>>
      /\ Goto(c, "insert") \/ Finish(c)
  BY NamesAreReal DEF CheckName, Live, Types
<1>2. CASE Goto(c, "insert")
  <2>1. PortsFit' /\ RequestsFit'
    BY <1>1, <1>2, GotoKeeps DEF Agreement, PortsFit, RequestsFit, Live
  <2>2. AloneIsAlone'
    BY <1>1, <1>2, GotoKeeps DEF Agreement, AloneIsAlone, Live, RequestOf
  <2>3. AloneHasDone'
    BY <1>1, <1>2, GotoKeeps DEF Agreement, AloneHasDone, Live, RequestOf
  <2>4. QuietIsAlone'
    BY <1>1, <1>2, GotoKeeps DEF Agreement, QuietIsAlone, OnTheWire, InProgress, Live
  <2>5. UntouchedAgrees'
    BY <1>1, <1>2, GotoKeeps DEF Agreement, UntouchedAgrees, OnTheWire, Agree, Live
  <2> QED
    BY <2>1, <2>2, <2>3, <2>4, <2>5 DEF Agreement
<1>3. CASE Finish(c)
  <2>1. PortsFit' /\ RequestsFit'
    BY <1>1, <1>3, FinishKeeps DEF Agreement, PortsFit, RequestsFit, Live
  <2>2. AloneIsAlone'
    BY <1>1, <1>3, FinishKeeps DEF Agreement, AloneIsAlone, RequestOf, Live
  <2>3. AloneHasDone'
    BY <1>1, <1>3, FinishKeeps DEF Agreement, AloneHasDone, RequestOf, Live
  <2>4. QuietIsAlone'
    BY <1>1, <1>3, FinishKeeps
    DEF Agreement, QuietIsAlone, AloneIsAlone, OnTheWire, InProgress, Live
  <2>5. UntouchedAgrees'
    BY <1>1, <1>3, FinishKeeps DEF Agreement, UntouchedAgrees, OnTheWire, Agree, Live
  <2> QED
    BY <2>1, <2>2, <2>3, <2>4, <2>5 DEF Agreement
<1> QED
  BY <1>1, <1>2, <1>3

LEMMA InsertNameAgrees ==
  ASSUME Types, Agreement, NEW c \in Calls, InsertName(c) PROVE Agreement'
<1> DEFINE n == call[c].name
<1>1. /\ Live(c) /\ n \in Names /\ call[c].pc = "insert"
      /\ UNCHANGED <<tools, wire, table, disturbed>> /\ Goto(c, "send")
  BY NamesAreReal DEF InsertName, Live, Types
<1>2. exposed'[n] = call[c].port /\ \A m \in Names : m # n => exposed'[m] = exposed[m]
  BY <1>1 DEF InsertName, Types, BrokerTypes
<1>3. PortsFit' /\ RequestsFit'
  BY <1>1, <1>2, NamesAreReal, GotoKeeps DEF Agreement, PortsFit, RequestsFit, Live
<1>4. AloneIsAlone'
  BY <1>1, <1>2, NamesAreReal, GotoKeeps DEF Agreement, AloneIsAlone, Live, RequestOf
<1>5. AloneHasDone'
  BY <1>1, <1>2, NamesAreReal, GotoKeeps
  DEF Agreement, AloneHasDone, Live, RequestOf, AloneIsAlone, Types
<1>6. QuietIsAlone'
  BY <1>1, <1>2, NamesAreReal, GotoKeeps DEF Agreement, QuietIsAlone, OnTheWire, InProgress, Live
<1>7. UntouchedAgrees'
  BY <1>1, <1>2, NamesAreReal, GotoKeeps DEF Agreement, UntouchedAgrees, OnTheWire, Agree, Live
<1> QED
  BY <1>3, <1>4, <1>5, <1>6, <1>7 DEF Agreement

LEMMA RemoveNameAgrees ==
  ASSUME Types, Agreement, NEW c \in Calls, RemoveName(c) PROVE Agreement'
<1> DEFINE n == call[c].name
<1>1. /\ Live(c) /\ n \in Names /\ call[c].pc = "check"
      /\ UNCHANGED <<tools, wire, table, disturbed>>
      /\ (Goto(c, "send") \/ (Finish(c) /\ exposed[n] = None))
  BY NamesAreReal DEF RemoveName, Live, Types
<1>2. exposed'[n] = None /\ \A m \in Names : m # n => exposed'[m] = exposed[m]
  BY <1>1 DEF RemoveName, Types, BrokerTypes
<1>3. call[c].port = None
  BY <1>1 DEF RemoveName, Agreement, PortsFit
<1>4. CASE Goto(c, "send")
  <2>1. PortsFit' /\ RequestsFit'
    BY <1>1, <1>2, <1>3, <1>4, NamesAreReal, GotoKeeps DEF Agreement, PortsFit, RequestsFit, Live
  <2>2. AloneIsAlone'
    BY <1>1, <1>2, <1>3, <1>4, NamesAreReal, GotoKeeps
    DEF Agreement, AloneIsAlone, Live, RequestOf
  <2>3. AloneHasDone'
    BY <1>1, <1>2, <1>3, <1>4, NamesAreReal, GotoKeeps
    DEF Agreement, AloneHasDone, Live, RequestOf, AloneIsAlone, Types
  <2>4. QuietIsAlone'
    BY <1>1, <1>2, <1>3, <1>4, NamesAreReal, GotoKeeps
    DEF Agreement, QuietIsAlone, OnTheWire, InProgress, Live
  <2>5. UntouchedAgrees'
    BY <1>1, <1>2, <1>3, <1>4, NamesAreReal, GotoKeeps
    DEF Agreement, UntouchedAgrees, OnTheWire, Agree, Live
  <2> QED
    BY <2>1, <2>2, <2>3, <2>4, <2>5 DEF Agreement
<1>5. CASE Finish(c) /\ exposed[n] = None
  <2>1. PortsFit' /\ RequestsFit'
    BY <1>1, <1>2, <1>5, NamesAreReal, FinishKeeps DEF Agreement, PortsFit, RequestsFit, Live
  <2>2. AloneIsAlone'
    BY <1>1, <1>2, <1>5, NamesAreReal, FinishKeeps DEF Agreement, AloneIsAlone, Live, RequestOf
  <2>3. AloneHasDone'
    BY <1>1, <1>2, <1>5, NamesAreReal, FinishKeeps
    DEF Agreement, AloneHasDone, Live, RequestOf, Types
  <2>4. QuietIsAlone'
    BY <1>1, <1>2, <1>5, NamesAreReal, FinishKeeps
    DEF Agreement, QuietIsAlone, OnTheWire, InProgress, Live, AloneIsAlone
  <2>5. UntouchedAgrees'
    BY <1>1, <1>2, <1>5, NamesAreReal, FinishKeeps
    DEF Agreement, UntouchedAgrees, OnTheWire, Agree, Live
  <2> QED
    BY <2>1, <2>2, <2>3, <2>4, <2>5 DEF Agreement
<1> QED
  BY <1>1, <1>4, <1>5

LEMMA SendAgrees ==
  ASSUME Types, Agreement, NEW c \in Calls, Send(c) PROVE Agreement'
<1> DEFINE n == call[c].name
<1>1. /\ Live(c) /\ n \in Names /\ call[c].pc = "send"
      /\ UNCHANGED <<exposed, table, disturbed>> /\ Goto(c, "wait")
      /\ wire' = wire \cup {RequestOf(c)}
  BY NamesAreReal DEF Send, Live, Types
<1>2. /\ n \in tools' <=> call[c].op = "expose"
      /\ \A m \in Names : m # n => (m \in tools' <=> m \in tools)
  BY <1>1 DEF Send, ToolsAfter
<1>3. call[c].op = "expose" <=> call[c].port # None
  BY <1>1 DEF Agreement, PortsFit
<1>4. PortsFit' /\ RequestsFit'
  BY <1>1, <1>2, <1>3, NamesAreReal, GotoKeeps
  DEF Agreement, PortsFit, RequestsFit, Live, RequestOf
<1>5. AloneIsAlone'
  BY <1>1, <1>2, <1>3, NamesAreReal, GotoKeeps DEF Agreement, AloneIsAlone, Live, RequestOf
<1>6. AloneHasDone'
  BY <1>1, <1>2, <1>3, NamesAreReal, GotoKeeps
  DEF Agreement, AloneHasDone, Live, RequestOf, AloneIsAlone, Types
<1>7. QuietIsAlone'
  BY <1>1, <1>2, <1>3, NamesAreReal, GotoKeeps
  DEF Agreement, QuietIsAlone, OnTheWire, InProgress, Live, RequestOf
<1>8. UntouchedAgrees'
  BY <1>1, <1>2, <1>3, NamesAreReal, GotoKeeps
  DEF Agreement, UntouchedAgrees, OnTheWire, Agree, Live, RequestOf
<1> QED
  BY <1>4, <1>5, <1>6, <1>7, <1>8 DEF Agreement

LEMMA SendFailsAgrees ==
  ASSUME Types, Agreement, NEW c \in Calls, SendFails(c) PROVE Agreement'
<1> DEFINE n == call[c].name
<1>1. /\ Live(c) /\ n \in Names /\ call[c].pc = "send"
      /\ UNCHANGED <<exposed, table, wire>> /\ Finish(c) /\ disturbed' = disturbed \cup {n}
  BY NamesAreReal DEF SendFails, Live, Types
<1>2. \A m \in Names : m # n => (m \in tools' <=> m \in tools)
  BY <1>1 DEF SendFails, ToolsAfter
<1>3. PortsFit' /\ RequestsFit'
  BY <1>1, <1>2, NamesAreReal, FinishKeeps DEF Agreement, PortsFit, RequestsFit, Live
<1>4. AloneIsAlone'
  BY <1>1, <1>2, NamesAreReal, FinishKeeps DEF Agreement, AloneIsAlone, Live, RequestOf
<1>5. AloneHasDone'
  BY <1>1, <1>2, NamesAreReal, FinishKeeps
  DEF Agreement, AloneHasDone, Live, RequestOf, AloneIsAlone, Types
<1>6. QuietIsAlone'
  BY <1>1, <1>2, NamesAreReal, FinishKeeps
  DEF Agreement, QuietIsAlone, OnTheWire, InProgress, Live
<1>7. UntouchedAgrees'
  BY <1>1, <1>2, NamesAreReal, FinishKeeps DEF Agreement, UntouchedAgrees, OnTheWire, Agree, Live
<1> QED
  BY <1>3, <1>4, <1>5, <1>6, <1>7 DEF Agreement

LEMMA ReturnAgrees ==
  ASSUME Types, Agreement, NEW c \in Calls, Return(c) PROVE Agreement'
<1> DEFINE n == call[c].name
<1>1. /\ Live(c) /\ n \in Names /\ call[c].pc = "wait" /\ RequestOf(c) \notin wire
      /\ UNCHANGED <<exposed, tools, table, wire>> /\ Finish(c)
      /\ disturbed' = IF call[c].alone THEN disturbed \ {n} ELSE disturbed
  BY NamesAreReal DEF Return, Live, Types
<1>2. call[c].alone => Agree(n)
  BY <1>1 DEF Agreement, AloneHasDone, Agree
<1>3. call[c].alone => ~OnTheWire(n)
  BY <1>1 DEF Agreement, AloneIsAlone, OnTheWire
<1>4. ~call[c].alone => n \in disturbed
  BY <1>1 DEF Agreement, QuietIsAlone
<1>5. PortsFit' /\ RequestsFit'
  BY <1>1, <1>2, <1>3, <1>4, NamesAreReal, FinishKeeps DEF Agreement, PortsFit, RequestsFit, Live
<1>6. AloneIsAlone'
  BY <1>1, <1>2, <1>3, <1>4, NamesAreReal, FinishKeeps
  DEF Agreement, AloneIsAlone, Live, RequestOf
<1>7. AloneHasDone'
  BY <1>1, <1>2, <1>3, <1>4, NamesAreReal, FinishKeeps
  DEF Agreement, AloneHasDone, Live, RequestOf, AloneIsAlone, Types
<1>8. QuietIsAlone'
  BY <1>1, <1>2, <1>3, <1>4, NamesAreReal, FinishKeeps
  DEF Agreement, QuietIsAlone, OnTheWire, InProgress, Live, AloneIsAlone
<1>9. UntouchedAgrees'
  BY <1>1, <1>2, <1>3, <1>4, NamesAreReal, FinishKeeps
  DEF Agreement, UntouchedAgrees, OnTheWire, Agree, Live
<1> QED
  BY <1>5, <1>6, <1>7, <1>8, <1>9 DEF Agreement

LEMMA TimeOutAgrees ==
  ASSUME Types, Agreement, NEW c \in Calls, TimeOut(c) PROVE Agreement'
<1> DEFINE n == call[c].name
<1>1. /\ Live(c) /\ n \in Names
      /\ UNCHANGED <<exposed, tools, table, wire>> /\ Finish(c) /\ disturbed' = disturbed \cup {n}
  BY NamesAreReal DEF TimeOut, Live, Types
<1>2. PortsFit' /\ RequestsFit'
  BY <1>1, NamesAreReal, FinishKeeps DEF Agreement, PortsFit, RequestsFit, Live
<1>3. AloneIsAlone'
  BY <1>1, NamesAreReal, FinishKeeps DEF Agreement, AloneIsAlone, Live, RequestOf
<1>4. AloneHasDone'
  BY <1>1, NamesAreReal, FinishKeeps DEF Agreement, AloneHasDone, Live, RequestOf
<1>5. QuietIsAlone'
  BY <1>1, NamesAreReal, FinishKeeps DEF Agreement, QuietIsAlone, OnTheWire, InProgress, Live
<1>6. UntouchedAgrees'
  BY <1>1, NamesAreReal, FinishKeeps DEF Agreement, UntouchedAgrees, OnTheWire, Agree, Live
<1> QED
  BY <1>2, <1>3, <1>4, <1>5, <1>6 DEF Agreement

LEMMA BeginAgrees ==
  ASSUME Types, Agreement, NEW c \in Calls, Begin(c) PROVE Agreement'
<1> USE TunnelsAssumption
<1>1. PICK n \in Names, new \in [op : {"expose"}, port : Ports] \cup [op : {"unexpose"}, port : {None}] :
        /\ call' = [(IF Busy(n) THEN Disturb(n, call) ELSE call) EXCEPT ![c] =
                   [pc |-> "check", id |-> ops + 1, op |-> new.op, name |-> n,
                    port |-> new.port, alone |-> ~Busy(n)]]
        /\ disturbed' = IF Busy(n) THEN disturbed \cup {n} ELSE disturbed
  BY DEF Begin
<1>2. ~Live(c) /\ UNCHANGED <<exposed, tools, table, wire>> /\ (new.op = "expose" <=> new.port # None)
  BY DEF Begin, Live
<1>3. /\ call'[c].pc = "check" /\ call'[c].name = n /\ call'[c].op = new.op
      /\ call'[c].port = new.port /\ (call'[c].alone <=> ~Busy(n))
  BY <1>1 DEF Disturb, Types, BrokerTypes
<1>4. \A d \in Calls : d # c =>
        call'[d] = IF Busy(n) /\ call[d].name = n THEN [call[d] EXCEPT !.alone = FALSE] ELSE call[d]
  BY <1>1 DEF Disturb, Types, BrokerTypes
<1>5. \A d \in Calls : d # c =>
        /\ call'[d].pc = call[d].pc /\ call'[d].name = call[d].name /\ call'[d].op = call[d].op
        /\ call'[d].port = call[d].port /\ call'[d].id = call[d].id
        /\ call'[d].alone <=> call[d].alone /\ ~(Busy(n) /\ call[d].name = n)
  <2> SUFFICES ASSUME NEW d \in Calls, d # c
      PROVE  /\ call'[d].pc = call[d].pc /\ call'[d].name = call[d].name /\ call'[d].op = call[d].op
             /\ call'[d].port = call[d].port /\ call'[d].id = call[d].id
             /\ call'[d].alone <=> call[d].alone /\ ~(Busy(n) /\ call[d].name = n)
    OBVIOUS
  <2>1. CASE Busy(n) /\ call[d].name = n
    <3>1. call[d] \in Calling
      BY <2>1, NamesAreReal DEF Types
    <3> QED
      BY <1>4, <2>1, <3>1 DEF Calling
  <2>2. CASE ~(Busy(n) /\ call[d].name = n)
    BY <1>4, <2>2
  <2> QED
    BY <2>1, <2>2
<1>6. Busy(n) => n \in disturbed'
  BY <1>1
<1>7. ~Busy(n) => disturbed' = disturbed /\ ~OnTheWire(n) /\ \A d \in Calls : Live(d) => call[d].name # n
  BY <1>1 DEF Busy, InProgress, Live
<1>8. \A m \in Names : m # n => (m \in disturbed' <=> m \in disturbed)
  BY <1>1
<1>9. PortsFit' /\ RequestsFit'
  BY <1>2, <1>3, <1>5, <1>6, <1>7, <1>8, NamesAreReal DEF Agreement, PortsFit, RequestsFit, Live
<1>10. AloneIsAlone'
  BY <1>2, <1>3, <1>5, <1>6, <1>7, <1>8, NamesAreReal
  DEF Agreement, AloneIsAlone, Live, RequestOf, OnTheWire
<1>11. AloneHasDone'
  BY <1>2, <1>3, <1>5, <1>6, <1>7, <1>8, NamesAreReal DEF Agreement, AloneHasDone, Live, RequestOf
<1>12. QuietIsAlone'
  BY <1>2, <1>3, <1>5, <1>6, <1>7, <1>8, NamesAreReal
  DEF Agreement, QuietIsAlone, OnTheWire, InProgress, Live
<1>13. UntouchedAgrees'
  BY <1>2, <1>3, <1>5, <1>6, <1>7, <1>8, NamesAreReal
  DEF Agreement, UntouchedAgrees, OnTheWire, Agree, Live
<1> QED
  BY <1>9, <1>10, <1>11, <1>12, <1>13 DEF Agreement

LEMMA BridgeStopsAgrees ==
  ASSUME Types, Agreement, BridgeStops PROVE Agreement'
<1>1. /\ UNCHANGED <<exposed, tools>> /\ wire' = {} /\ table' = [n \in Names |-> None]
      /\ disturbed' = disturbed \cup {n \in Names : exposed[n] # None \/ Busy(n)}
  BY DEF BridgeStops
<1>2. \A d \in Calls :
        /\ call'[d].pc = call[d].pc /\ call'[d].name = call[d].name /\ call'[d].op = call[d].op
        /\ call'[d].port = call[d].port /\ ~call'[d].alone
  <2> SUFFICES ASSUME NEW d \in Calls
      PROVE  /\ call'[d].pc = call[d].pc /\ call'[d].name = call[d].name /\ call'[d].op = call[d].op
             /\ call'[d].port = call[d].port /\ ~call'[d].alone
    OBVIOUS
  <2>1. call'[d] = [call[d] EXCEPT !.alone = FALSE] /\ call[d] \in {Idle} \cup Calling
    BY DEF BridgeStops, Types, BrokerTypes, CallState
  <2>2. CASE call[d] = Idle
    BY <2>1, <2>2, IdleIsIdle DEF Idle
  <2>3. CASE call[d] \in Calling
    BY <2>1, <2>3 DEF Calling
  <2> QED
    BY <2>1, <2>2, <2>3
<1>3. PortsFit' /\ RequestsFit'
  BY <1>1, <1>2, NamesAreReal DEF Agreement, PortsFit, RequestsFit, Live
<1>4. AloneIsAlone'
  BY <1>1, <1>2, NamesAreReal DEF Agreement, AloneIsAlone, Live, RequestOf
<1>5. AloneHasDone'
  BY <1>1, <1>2, NamesAreReal DEF Agreement, AloneHasDone, Live, RequestOf
<1>6. QuietIsAlone'
  BY <1>1, <1>2, NamesAreReal DEF Agreement, QuietIsAlone, OnTheWire, InProgress, Live, Busy
<1>7. UntouchedAgrees'
  BY <1>1, <1>2, NamesAreReal
  DEF Agreement, UntouchedAgrees, OnTheWire, Agree, Live, Busy, InProgress
<1> QED
  BY <1>3, <1>4, <1>5, <1>6, <1>7 DEF Agreement

LEMMA BrokerRestartsAgrees ==
  ASSUME Types, Agreement, BrokerRestarts PROVE Agreement'
<1>1. /\ UNCHANGED <<table, wire>> /\ tools' = {} /\ exposed' = [n \in Names |-> None]
      /\ call' = [c \in Calls |-> Idle]
      /\ disturbed' = disturbed \cup {n \in Names : table[n] # None \/ Busy(n)}
  BY DEF BrokerRestarts
<1>2. \A d \in Calls : call'[d].pc = "idle"
  BY <1>1 DEF Idle
<1>3. PortsFit' /\ RequestsFit'
  BY <1>1, <1>2 DEF Agreement, PortsFit, RequestsFit, Live
<1>4. AloneIsAlone'
  BY <1>1, <1>2 DEF Agreement, AloneIsAlone, Live, RequestOf
<1>5. AloneHasDone'
  BY <1>1, <1>2 DEF Agreement, AloneHasDone, Live, RequestOf
<1>6. QuietIsAlone'
  BY <1>1, <1>2 DEF Agreement, QuietIsAlone, OnTheWire, InProgress, Live, Busy
<1>7. UntouchedAgrees'
  BY <1>1, <1>2 DEF Agreement, UntouchedAgrees, OnTheWire, Agree, Live, Busy, InProgress
<1> QED
  BY <1>3, <1>4, <1>5, <1>6, <1>7 DEF Agreement

LEMMA HandleAgrees ==
  ASSUME Types, Agreement, NEW r \in wire, Handle(r) PROVE Agreement'
<1>1. /\ r \in Request /\ r.name \in Names /\ wire' = wire \ {r}
      /\ UNCHANGED <<exposed, tools, call, disturbed>>
  BY DEF Handle, Types, BrokerTypes, Request
<1>2. table'[r.name] = r.port
  BY <1>1 DEF Handle, TableAfter, Types, BridgeTypes, Agreement, RequestsFit, Request
<1>3. \A m \in Names : m # r.name => table'[m] = table[m]
  BY DEF Handle, TableAfter, Types, BridgeTypes
<1>4. PortsFit' /\ RequestsFit'
  BY <1>1, <1>2, <1>3, NamesAreReal DEF Agreement, PortsFit, RequestsFit, Live
<1>5. AloneIsAlone'
  BY <1>1, <1>2, <1>3, NamesAreReal DEF Agreement, AloneIsAlone, Live, RequestOf
<1>6. AloneHasDone'
  BY <1>1, <1>2, <1>3, NamesAreReal
  DEF Agreement, AloneHasDone, Live, RequestOf, AloneIsAlone, Types
<1>7. QuietIsAlone'
  BY <1>1, <1>2, <1>3, NamesAreReal DEF Agreement, QuietIsAlone, OnTheWire, InProgress, Live
<1>8. UntouchedAgrees'
  BY <1>1, <1>2, <1>3, NamesAreReal
  DEF Agreement, UntouchedAgrees, OnTheWire, Agree, Live, QuietIsAlone, InProgress, AloneIsAlone
<1> QED
  BY <1>4, <1>5, <1>6, <1>7, <1>8 DEF Agreement

LEMMA AgreementStep == Types /\ Agreement /\ [Next]_vars => Agreement'
<1> SUFFICES ASSUME Types, Agreement, [Next]_vars PROVE Agreement'
  OBVIOUS
<1>1. ASSUME NEW c \in Calls, Begin(c) \/ CallStep(c) PROVE Agreement'
  BY <1>1, BeginAgrees, CheckNameAgrees, InsertNameAgrees, RemoveNameAgrees, SendAgrees,
     SendFailsAgrees, ReturnAgrees, TimeOutAgrees DEF CallStep
<1>2. CASE UNCHANGED agreeVars
  BY <1>2
  DEF agreeVars, Agreement, PortsFit, RequestsFit, AloneIsAlone, AloneHasDone, QuietIsAlone,
     UntouchedAgrees, Live, RequestOf, OnTheWire, InProgress, Agree
<1>3. (\E s \in Conns : OpenConn(s)) => UNCHANGED agreeVars
  BY DEF OpenConn, Lookup, brokerVars, agreeVars
<1>4. (\E s \in Streams : StreamStep(s) \/ HangUp(s)) => UNCHANGED agreeVars
  BY DEF StreamStep, HangUp, CheckStream, CheckFails, ConnectService, ConnectFails, DropStream,
     brokerVars, agreeVars
<1>5. (\E e \in Probes : Probe(e) \/ ProbeFails(e) \/ Establish(e) \/ BindFails(e))
        => UNCHANGED agreeVars
  BY DEF Probe, Lookup, ProbeFails, Establish, BindFails, brokerVars, agreeVars
<1>6. (\E p \in Peers : AgentCalls(p) \/ RpcForward(p) \/ HandleConnect(p) \/ OpenListener(p)
                       \/ Disconnect(p) \/ Reconnect(p))
        => UNCHANGED agreeVars
  BY DEF AgentCalls, RpcForward, HandleConnect, OpenListener, Disconnect, Reconnect, brokerVars, agreeVars
<1>7. (\E p \in Peers, n \in Names, k \in Kinds : EditPermission(p, n, k)) => UNCHANGED agreeVars
  BY DEF EditPermission, brokerVars, agreeVars
<1>8. BridgeStarts \/ UNCHANGED vars => UNCHANGED agreeVars
  BY DEF BridgeStarts, vars, brokerVars, agreeVars
<1> QED
  BY <1>1, <1>2, <1>3, <1>4, <1>5, <1>6, <1>7, <1>8, HandleAgrees, BridgeStopsAgrees,
     BrokerRestartsAgrees DEF Next
-----------------------------------------------------------------------------
(* Streams *)

LEMMA LookupIsGood ==
  ASSUME Types, Agreement, StreamsAreGood, NEW s \in Streams, NEW p \in Peers, NEW n \in Names,
         Lookup(s, p, n)
  PROVE  StreamsAreGood'
<1>1. exposed[n] = table[n] \/ Busy(n) \/ n \in disturbed
  BY DEF Agreement, UntouchedAgrees, Busy, InProgress, Agree, Live
<1>2. stream'[s] = [pc |-> "check", peer |-> p, name |-> n, port |-> table[n],
                    wasShared |-> TRUE, wasAllowed |-> MayTunnel(p, n)]
  BY <1>1 DEF Lookup, MayTunnel, Types, StreamTypes
<1>3. \A t \in Streams : t # s => stream'[t] = stream[t]
  BY DEF Lookup, Types, StreamTypes
<1>4. UNCHANGED granted
  BY DEF Lookup
<1>5. /\ stream'[s].pc = "check" /\ stream'[s].peer = p /\ stream'[s].name = n /\ stream'[s].wasShared
      /\ stream'[s].wasAllowed <=> MayTunnel(p, n)
  BY <1>2
<1> QED
  BY <1>3, <1>4, <1>5 DEF StreamsAreGood, GoodStream, MayTunnel

LEMMA StreamsStep == Types /\ Agreement /\ StreamsAreGood /\ [Next]_vars => StreamsAreGood'
<1> SUFFICES ASSUME Types, Agreement, StreamsAreGood, [Next]_vars PROVE StreamsAreGood'
  OBVIOUS
<1> USE DEF StreamsAreGood, GoodStream, MayTunnel
<1>1. ASSUME NEW s \in Conns, OpenConn(s) PROVE StreamsAreGood'
  <2>1. PICK e \in listener : Lookup(s, e[1], e[2])
    BY <1>1 DEF OpenConn
  <2>2. e[1] \in Peers /\ e[2] \in Names
    BY DEF Types, PeerTypes, Probes
  <2> QED
    BY <2>1, <2>2, LookupIsGood DEF Streams
<1>2. ASSUME NEW e \in Probes, Probe(e) PROVE StreamsAreGood'
  <2>1. e[1] \in Peers /\ e[2] \in Names /\ e \in Streams
    BY DEF Probes, Streams
  <2> QED
    BY <1>2, <2>1, LookupIsGood DEF Probe
<1>3. ASSUME NEW s \in Streams, DropStream(s) PROVE StreamsAreGood'
  BY <1>3 DEF DropStream, Types, StreamTypes, Closed
<1>4. ASSUME NEW s \in Streams, CheckStream(s) \/ ConnectService(s) PROVE StreamsAreGood'
  <2>1. stream[s] \in Streaming /\ stream[s].wasShared /\ stream[s].wasAllowed
    BY <1>4, StreamsAreReal DEF CheckStream, ConnectService, Types
  <2>2. PICK to \in {"acked", "spliced"} : stream' = [stream EXCEPT ![s] = [stream[s] EXCEPT !.pc = to]]
    BY <1>4 DEF CheckStream, ConnectService
  <2>3. UNCHANGED granted /\ \A t \in Streams : t # s => stream'[t] = stream[t]
    BY <1>4, <2>2 DEF CheckStream, ConnectService, Types, StreamTypes
  <2>4. stream'[s].pc = to /\ stream'[s].wasShared /\ stream'[s].wasAllowed
    BY <2>1, <2>2 DEF Types, StreamTypes, Streaming
  <2> QED
    BY <2>3, <2>4
<1>5. ASSUME NEW peers, CutOff(peers), UNCHANGED granted PROVE StreamsAreGood'
  BY <1>5 DEF CutOff, Types, StreamTypes, Closed
<1>6. ASSUME NEW p \in Peers, NEW n \in Names, NEW k \in Kinds, EditPermission(p, n, k)
      PROVE  StreamsAreGood'
  <2> DEFINE Usable(s) == stream[s].pc # "closed" /\ <<stream[s].peer, stream[s].name, "tunnel">> \in granted'
  <2> SUFFICES ASSUME NEW s \in Streams PROVE GoodStream(s)'
    OBVIOUS
  <2>1. stream'[s] = [stream[s] EXCEPT !.wasAllowed = stream[s].wasAllowed \/ Usable(s)]
    BY <1>6 DEF EditPermission
  <2>2. CASE stream[s] = Closed
    <3>1. (stream[s].wasAllowed \/ Usable(s)) = FALSE
      BY <2>2 DEF Closed
    <3>2. stream'[s] = Closed
      BY <2>1, <2>2, <3>1, ClosedIsClosed
    <3> QED
      BY <3>2 DEF Closed
  <2>3. CASE stream[s] \in Streaming
    <3>1. /\ stream'[s].pc = stream[s].pc /\ stream'[s].peer = stream[s].peer
          /\ stream'[s].name = stream[s].name /\ stream'[s].wasShared = stream[s].wasShared
          /\ stream'[s].wasAllowed <=> (stream[s].wasAllowed \/ Usable(s))
      BY <2>1, <2>3 DEF Streaming
    <3> QED
      BY <3>1
  <2> QED
    BY <2>2, <2>3 DEF Types, StreamTypes, StreamState
<1>7. CASE UNCHANGED <<stream, granted>>
  BY <1>7
<1>8. (\E c \in Calls : Begin(c) \/ CallStep(c)) => UNCHANGED <<stream, granted>>
  BY DEF Begin, CallStep, CheckName, InsertName, RemoveName, Send, SendFails, Return, TimeOut
<1>9. (\E r \in wire : Handle(r)) \/ BridgeStarts \/ BrokerRestarts \/ UNCHANGED vars
        => UNCHANGED <<stream, granted>>
  BY DEF Handle, BridgeStarts, BrokerRestarts, vars
<1>10. (\E e \in Probes : ProbeFails(e) \/ Establish(e) \/ BindFails(e)) => UNCHANGED <<stream, granted>>
  BY DEF ProbeFails, Establish, BindFails
<1>11. (\E p \in Peers : AgentCalls(p) \/ RpcForward(p) \/ HandleConnect(p) \/ OpenListener(p)
                       \/ Reconnect(p)) => UNCHANGED <<stream, granted>>
  BY DEF AgentCalls, RpcForward, HandleConnect, OpenListener, Reconnect
<1>12. ASSUME NEW s \in Streams, StreamStep(s) \/ HangUp(s)
       PROVE  DropStream(s) \/ CheckStream(s) \/ ConnectService(s)
  BY <1>12 DEF StreamStep, HangUp, CheckFails, ConnectFails
<1>13. (\E p \in Peers : Disconnect(p)) \/ BridgeStops => UNCHANGED granted /\ \E peers : CutOff(peers)
  BY DEF Disconnect, BridgeStops
<1> HIDE DEF StreamsAreGood
<1> QED
  BY <1>1, <1>2, <1>3, <1>4, <1>5, <1>6, <1>7, <1>8, <1>9, <1>10, <1>11, <1>12, <1>13 DEF Next
-----------------------------------------------------------------------------
(* The inductive invariant and the theorems *)

LEMMA InvInit == Init => IInv
<1> SUFFICES ASSUME Init PROVE IInv
  OBVIOUS
<1> USE TunnelsAssumption DEF Init
<1>1. BrokerTypes /\ BridgeTypes /\ PeerTypes
  BY DEF BrokerTypes, BridgeTypes, PeerTypes, CallState
<1>2. StreamTypes
  BY DEF StreamTypes, StreamState
<1>3. Agreement
  BY
  DEF Agreement, PortsFit, RequestsFit, AloneIsAlone, AloneHasDone, QuietIsAlone,
      UntouchedAgrees,
     Live, OnTheWire, Agree, Idle
<1>4. StreamsAreGood
  BY DEF StreamsAreGood, GoodStream, Closed
<1> QED
  BY <1>1, <1>2, <1>3, <1>4 DEF IInv, Types

LEMMA InvStep == IInv /\ [Next]_vars => IInv'
  BY TypesStep, AgreementStep, StreamsStep DEF IInv

LEMMA Invariance == Spec => []IInv
  BY InvInit, InvStep, PTL DEF Spec

\* Every variable keeps its type.
THEOREM TypeCorrect == Spec => []TypeOK
<1>1. IInv => TypeOK
  <2> SUFFICES ASSUME IInv PROVE TypeOK
    OBVIOUS
  <2>1. \A c \in Calls : call[c].op = "expose" /\ call[c].pc # "idle" => call[c].port # None
    BY DEF IInv, Agreement, PortsFit, Live
  <2> QED
    BY <2>1 DEF IInv, Types, BrokerTypes, BridgeTypes, StreamTypes, PeerTypes, CallState, Calling,
       StreamState, Streaming, Asking, TypeOK
<1> QED
  BY Invariance, <1>1, PTL

(***************************************************************************)
(* However calls, IPC requests, time-outs and restarts interleave, the two *)
(* tables and the tools agree on every name that is not disturbed and that *)
(* nobody works on.                                                        *)
(***************************************************************************)
THEOREM TablesStayInStep == Spec => []TablesAgree
<1>1. IInv => TablesAgree
  BY DEF IInv, Agreement, UntouchedAgrees, Agree, TablesAgree, Busy, InProgress, Live
<1> QED
  BY Invariance, <1>1, PTL

(***************************************************************************)
(* Whoever opens streams, and whatever is shared, revoked or restarted     *)
(* meanwhile, a stream beyond the permission check was granted and leads   *)
(* to a port that was shared.                                              *)
(***************************************************************************)
THEOREM TunnelsStayGranted == Spec => []TunnelsWereGranted
<1>1. IInv => TunnelsWereGranted
  BY DEF IInv, StreamsAreGood, GoodStream, TunnelsWereGranted
<1> QED
  BY Invariance, <1>1, PTL
=============================================================================
