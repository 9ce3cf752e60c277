---------------------------- MODULE ClientProofs ----------------------------
(***************************************************************************)
(* Proofs that the MCP client keeps its types and routes each answer to    *)
(* the caller it belongs to, for every number of overlapping calls, every  *)
(* size of the pipe and every process at its other end; and that the       *)
(* programs that talk through the event queue, the REPL, the agent that    *)
(* answers it, and cron, keep what they print and fire in order, for every *)
(* number of them and of events.                                           *)
(***************************************************************************)
EXTENDS McpClient, Clients, WellFoundedInduction, TLAPS

(***************************************************************************)
(* Ids are handed out once, and a call that has not registered its sender  *)
(* has an untouched channel.                                               *)
(***************************************************************************)
IdsAreFresh == \A i \in Calls : i >= nextId => call[i] = "none"

ChannelsStartOpen == \A i \in Calls : call[i] \in {"none", "insert"} => slot[i] = Open

(***************************************************************************)
(* A request is in at most one place: in the pipe once, or with the        *)
(* server, or answered; and it has been written.                           *)
(***************************************************************************)
Written == {i \in Calls : call[i] \notin {"none", "insert", "write"}}

InPipe == {stdin[n] : n \in 1 .. Len(stdin)}

Answered == Written \ (todo \cup InPipe)

RequestsAreInOnePlace ==
  /\ \A m, n \in 1 .. Len(stdin) : m < n /\ stdin[m] = stdin[n] => stdin[m] = Initialized
  /\ InPipe \subseteq Written \cup {Initialized}
  /\ todo \subseteq Written /\ todo \cap InPipe = {}
  /\ \A n \in 1 .. Len(stdout) : stdout[n].kind = "response" => stdout[n].id \in Answered

\* What lies in a caller's channel is addressed to it and, if it is a response, final.
ChannelsAreOwn ==
  \A i \in Calls :
    /\ slot[i] \notin {Open, Dropped} => slot[i].id = i
    /\ slot[i].kind = "response" => i \in Answered

\* The inductive invariant, together with the types.
Inv ==
  /\ IdsAreFresh
  /\ ChannelsStartOpen
  /\ WaitersAreReachable
  /\ SendersAreUnused
  /\ RequestsAreInOnePlace
  /\ ChannelsAreOwn
-----------------------------------------------------------------------------
(***************************************************************************)
(* The types hold initially and are preserved by every step.               *)
(***************************************************************************)
ClientTypes ==
  /\ nextId \in 1 .. MaxCalls + 1
  /\ call \in [Calls -> {"none", "insert", "write", "wait"} \cup Ended]
  /\ pending \subseteq Calls
  /\ slot \in [Calls -> Message \cup {Open, Dropped}]
  /\ handshake \in {"calling", "notifying", "ready", "failed"}
  /\ shutdown \in {"none", "cleared", "done"}
  /\ freed \subseteq Calls

Line == [kind : {"response", "request"}, id : Nat]

PipeTypes == stdin \in Seq({Initialized} \cup Calls) /\ stdout \in Seq(Line)

ServerTypes ==
  /\ todo \subseteq Calls
  /\ pings \in 0 .. MaxPings
  /\ server \in {"running", "exited"}
  /\ reader \in {"running", "stopped"}

LEMMA TypesByPart == TypeOK <=> ClientTypes /\ PipeTypes /\ ServerTypes
  BY DEF TypeOK, ClientTypes, PipeTypes, ServerTypes, Line

LEMMA TypeOKInit == Init => TypeOK
<1> SUFFICES ASSUME Init PROVE ClientTypes /\ PipeTypes /\ ServerTypes
  BY TypesByPart
<1>1. ClientTypes
  BY McpClientAssumption DEF Init, ClientTypes, FirstId, Calls
<1>2. PipeTypes
  BY DEF Init, PipeTypes
<1>3. ServerTypes
  BY McpClientAssumption DEF Init, ServerTypes
<1> QED
  BY <1>1, <1>2, <1>3

\* What the reader finds at the head of stdout.
LEMMA HeadIsLine ==
  ASSUME PipeTypes, stdout # <<>>
  PROVE  /\ Head(stdout) \in Line /\ Tail(stdout) \in Seq(Line)
         /\ Head(stdout) \notin {Open, Dropped}
         /\ \A i \in Addressee(Head(stdout)) : i = Head(stdout).id
<1>1. Head(stdout) \in Line /\ Tail(stdout) \in Seq(Line)
  BY DEF PipeTypes
<1>2. Head(stdout).kind \in {"response", "request"}
  BY <1>1 DEF Line
<1>3. Head(stdout) \notin {Open, Dropped}
  BY <1>2 DEF Open, Dropped
<1> QED
  BY <1>1, <1>3 DEF Addressee

LEMMA ClientTypesStep == TypeOK /\ [Next]_vars => ClientTypes'
<1> SUFFICES ASSUME ClientTypes, PipeTypes, [Next]_vars PROVE ClientTypes'
  BY TypesByPart
<1>1. CASE Begin
  <2>1. nextId' \in 1 .. MaxCalls + 1
    BY <1>1, McpClientAssumption DEF Begin, ClientTypes
  <2> QED
    BY <1>1, <2>1 DEF Begin, ClientTypes
<1>2. CASE \E i \in Calls : CallStep(i)
  BY <1>2 DEF CallStep, Insert, Write, WriteFails, Receive, TimeOut, ClientTypes, Ended
<1>3. CASE Handshake
  BY <1>3 DEF Handshake, HandshakeAnswered, SendNotification, HandshakeFails, ClientTypes
<1>4. CASE Route
  <2>1. \A i \in Addressee(Head(stdout)) \cap Calls : Head(stdout) \in Message
    BY <1>4, HeadIsLine DEF Route, Line, Message
  <2>2. slot' \in [Calls -> Message \cup {Open, Dropped}]
    BY <1>4, <2>1 DEF Route, ClientTypes
  <2> QED
    BY <1>4, <2>2 DEF Route, Remaining, ClientTypes
<1>5. CASE ShutdownClear
  BY <1>5 DEF ShutdownClear, DropSenders, Waiting, ClientTypes
<1>6. CASE StopChild
  BY <1>6 DEF StopChild, ClientTypes
<1>7. CASE UNCHANGED clientVars
  BY <1>7 DEF clientVars, ClientTypes
<1>8. CASE ReaderStops \/ Server
  BY <1>7, <1>8 DEF ReaderStops, Server, ServerReads, ServerAnswers, ServerPings, ServerExits
<1> QED
  BY <1>1, <1>2, <1>3, <1>4, <1>5, <1>6, <1>7, <1>8 DEF Next, Reader, vars, clientVars

LEMMA PipeTypesStep == TypeOK /\ [Next]_vars => PipeTypes'
<1> SUFFICES ASSUME PipeTypes, ServerTypes, [Next]_vars PROVE PipeTypes'
  BY TypesByPart
<1>1. CASE UNCHANGED <<stdin, stdout>>
  BY <1>1 DEF PipeTypes
<1>2. ASSUME NEW i \in {Initialized} \cup Calls, stdin' = Append(stdin, i), UNCHANGED stdout
      PROVE  PipeTypes'
  BY <1>2 DEF PipeTypes
<1>3. CASE \E i \in Calls : CallStep(i)
  BY <1>1, <1>2, <1>3
  DEF CallStep, Insert, Write, WriteFails, Receive, TimeOut, serverVars
<1>4. CASE Handshake
  BY <1>1, <1>2, <1>4 DEF Handshake, HandshakeAnswered, SendNotification, HandshakeFails, serverVars
<1>5. CASE Route
  BY <1>5, HeadIsLine DEF Route, PipeTypes
<1>6. CASE ServerReads
  BY <1>6 DEF ServerReads, PipeTypes
<1>7. ASSUME NEW m \in Line, stdout' = Append(stdout, m), UNCHANGED stdin
      PROVE  PipeTypes'
  BY <1>7 DEF PipeTypes
<1>8. ASSUME NEW i \in Calls, ServerAnswers(i) PROVE PipeTypes'
  <2>1. [kind |-> "response", id |-> i] \in Line
    BY DEF Line, Calls
  <2> QED
    BY <1>7, <1>8, <2>1 DEF ServerAnswers
<1>9. CASE ServerPings
  <2>1. pings' \in Nat
    BY <1>9 DEF ServerPings, ServerTypes
  <2>2. [kind |-> "request", id |-> pings'] \in Line
    BY <2>1 DEF Line
  <2> QED
    BY <1>7, <1>9, <2>2 DEF ServerPings
<1>10. CASE Begin \/ ReaderStops \/ ShutdownClear \/ StopChild \/ ServerExits
  BY <1>1, <1>10 DEF Begin, ReaderStops, ShutdownClear, StopChild, ServerExits, serverVars
<1> QED
  BY <1>1, <1>3, <1>4, <1>5, <1>6, <1>8, <1>9, <1>10 DEF Next, Reader, Server, vars

LEMMA ServerTypesStep == TypeOK /\ [Next]_vars => ServerTypes'
<1> SUFFICES ASSUME ServerTypes, PipeTypes, [Next]_vars PROVE ServerTypes'
  BY TypesByPart
<1>1. CASE UNCHANGED <<todo, pings, server, reader>>
  BY <1>1 DEF ServerTypes
<1>2. CASE Begin \/ (\E i \in Calls : CallStep(i)) \/ Handshake \/ Route \/ ShutdownClear
  BY <1>1, <1>2 DEF Begin, CallStep, Insert, Write, WriteFails, Receive, TimeOut, Handshake,
     HandshakeAnswered, SendNotification, HandshakeFails, Route, ShutdownClear, serverVars
<1>3. CASE ServerReads
  <2>1. Head(stdin) \in {Initialized} \cup Calls
    BY <1>3 DEF ServerReads, PipeTypes
  <2> QED
    BY <1>3, <2>1 DEF ServerReads, ServerTypes
<1>4. CASE \E i \in Calls : ServerAnswers(i)
  BY <1>4 DEF ServerAnswers, ServerTypes
<1>5. CASE ServerPings
  <2>1. pings' \in 0 .. MaxPings
    BY <1>5, McpClientAssumption DEF ServerPings, ServerTypes
  <2> QED
    BY <1>5, <2>1 DEF ServerPings, ServerTypes
<1>6. CASE ServerExits \/ ReaderStops \/ StopChild
  BY <1>6 DEF ServerExits, ReaderStops, StopChild, ServerTypes
<1> QED
  BY <1>1, <1>2, <1>3, <1>4, <1>5, <1>6 DEF Next, Reader, Server, vars

LEMMA TypeOKStep == TypeOK /\ [Next]_vars => TypeOK'
<1>1. ClientTypes' /\ PipeTypes' /\ ServerTypes' => TypeOK'
  BY DEF TypeOK, ClientTypes, PipeTypes, ServerTypes, Line
<1> QED
  BY <1>1, ClientTypesStep, PipeTypesStep, ServerTypesStep

\* Every variable keeps its type.
THEOREM TypeCorrect == Spec => []TypeOK
  BY TypeOKInit, TypeOKStep, PTL DEF Spec
-----------------------------------------------------------------------------
(***************************************************************************)
(* The callers, the map of senders and the channels.                       *)
(***************************************************************************)
LEMMA InvInit == Init => Inv
<1> SUFFICES ASSUME Init PROVE Inv
  OBVIOUS
<1>1. stdin = <<>> /\ stdout = <<>> /\ todo = {} /\ pending = {}
  BY DEF Init
<1>2. \A i \in Calls : call[i] = "none" /\ slot[i] = Open
  BY DEF Init
<1>3. RequestsAreInOnePlace
  BY <1>1 DEF RequestsAreInOnePlace, InPipe
<1> QED
  BY <1>1, <1>2, <1>3 DEF Inv, IdsAreFresh, ChannelsStartOpen, WaitersAreReachable,
     SendersAreUnused, ChannelsAreOwn, Open

\* What each step does to the callers; the steps not named leave them alone.
Callers ==
  IdsAreFresh /\ ChannelsStartOpen /\ WaitersAreReachable /\ SendersAreUnused

\* An id that is still to be given out is not past the end.
LEMMA BeginIsNew ==
  ASSUME ClientTypes, Begin
  PROVE  /\ nextId \in Calls
         /\ \A i \in Calls : i = nextId => i >= nextId
         /\ \A i \in Calls : i >= nextId' => i >= nextId /\ i # nextId
<1>1. nextId \in 1 .. MaxCalls + 1 /\ nextId <= MaxCalls /\ nextId' = nextId + 1
  BY DEF Begin, ClientTypes
<1>2. nextId \in 1 .. MaxCalls
  BY <1>1, McpClientAssumption
<1>3. \A i \in 1 .. MaxCalls : i >= nextId + 1 => i >= nextId /\ i # nextId
  BY <1>2, McpClientAssumption
<1>4. \A i \in 1 .. MaxCalls : i = nextId => i >= nextId
  BY <1>2, McpClientAssumption
<1> QED
  BY <1>1, <1>2, <1>3, <1>4 DEF Calls

LEMMA CallersStep == TypeOK /\ Callers /\ [Next]_vars => Callers'
<1> SUFFICES ASSUME ClientTypes, PipeTypes, Callers, [Next]_vars PROVE Callers'
  BY TypesByPart
<1> USE DEF Callers, IdsAreFresh, ChannelsStartOpen, WaitersAreReachable, SendersAreUnused
<1>1. CASE Begin
  <2>1. /\ nextId \in Calls
        /\ \A i \in Calls : i = nextId => i >= nextId
        /\ \A i \in Calls : i >= nextId' => i >= nextId /\ i # nextId
    BY <1>1, BeginIsNew
  <2>2. call[nextId] = "none"
    BY <2>1
  <2>3. \A i \in Calls : call'[i] = IF i = nextId THEN "insert" ELSE call[i]
    BY <1>1 DEF Begin, ClientTypes
  <2>4. UNCHANGED <<pending, slot>>
    BY <1>1 DEF Begin
  <2>5. IdsAreFresh'
    BY <2>1, <2>3
  <2>6. ChannelsStartOpen' /\ WaitersAreReachable'
    BY <2>2, <2>3, <2>4
  <2>7. SendersAreUnused'
    BY <1>1, <2>2, <2>3, <2>4 DEF ClientTypes
  <2> QED
    BY <2>5, <2>6, <2>7
<1>2. ASSUME NEW i \in Calls, Insert(i) PROVE Callers'
  BY <1>2 DEF Insert, ClientTypes
<1>3. ASSUME NEW i \in Calls, Write(i) PROVE Callers'
  BY <1>3 DEF Write, ClientTypes
<1>4. ASSUME NEW i \in Calls, WriteFails(i) PROVE Callers'
  BY <1>4 DEF WriteFails, ClientTypes
<1>5. ASSUME NEW i \in Calls, Receive(i) PROVE Callers'
  BY <1>5 DEF Receive, ClientTypes
<1>6. ASSUME NEW i \in Calls, TimeOut(i) PROVE Callers'
  BY <1>6 DEF TimeOut, ClientTypes
<1>7. CASE Route
  <2>1. Head(stdout) # Open
    BY <1>7, HeadIsLine DEF Route
  <2>2. \A i \in Calls : /\ i \in pending' => i \in pending /\ slot'[i] = slot[i]
                         /\ i \in pending /\ i \notin pending' => slot'[i] # Open
                         /\ i \notin pending => slot'[i] = slot[i]
    BY <1>7, <2>1 DEF Route, Remaining, Addressee
  <2>3. UNCHANGED <<nextId, call>> /\ pending' \subseteq pending /\ pending \subseteq Calls
    BY <1>7 DEF Route, Remaining, ClientTypes
  <2> QED
    BY <2>2, <2>3
<1>8. CASE ShutdownClear
  <2>1. Dropped # Open
    BY DEF Dropped, Open
  <2>2. \A i \in Calls : slot'[i] = IF i \in pending THEN Dropped ELSE slot[i]
    BY <1>8 DEF ShutdownClear, DropSenders
  <2>3. UNCHANGED <<nextId, call>> /\ pending' = {}
    BY <1>8 DEF ShutdownClear
  <2> QED
    BY <2>1, <2>2, <2>3
<1>9. CASE UNCHANGED <<nextId, call, pending, slot>>
  BY <1>9
<1>10. CASE Handshake \/ ReaderStops \/ StopChild \/ Server
  BY <1>10, <1>9 DEF Handshake, HandshakeAnswered, SendNotification, HandshakeFails,
     ReaderStops, StopChild, Server, ServerReads, ServerAnswers, ServerPings, ServerExits,
     clientVars
<1> QED
  BY <1>1, <1>2, <1>3, <1>4, <1>5, <1>6, <1>7, <1>8, <1>9, <1>10
  DEF Next, CallStep, Reader, vars
-----------------------------------------------------------------------------
(***************************************************************************)
(* The requests on their way.  What has been written stays written, and    *)
(* nothing is written twice.                                               *)
(***************************************************************************)
LEMMA WrittenStays ==
  ASSUME TypeOK, Callers, [Next]_vars
  PROVE  Written \subseteq Written'
<1> USE TypesByPart DEF Written
<1>1. CASE Begin
  <2>1. \A i \in Calls : call[i] # "none" => call'[i] = call[i]
    BY <1>1, BeginIsNew, McpClientAssumption
    DEF Begin, Callers, IdsAreFresh, ClientTypes, Calls
  <2> QED
    BY <2>1
<1>2. CASE \E j \in Calls : CallStep(j)
  BY <1>2 DEF CallStep, Insert, Write, WriteFails, Receive, TimeOut, ClientTypes, Ended
<1>3. CASE UNCHANGED call
  BY <1>3
<1>4. CASE Handshake \/ Reader \/ ShutdownClear \/ StopChild \/ Server
  BY <1>3, <1>4 DEF Handshake, HandshakeAnswered, SendNotification, HandshakeFails,
     Reader, Route, ReaderStops, ShutdownClear, StopChild, Server, ServerReads,
     ServerAnswers, ServerPings, ServerExits, clientVars
<1> QED
  BY <1>1, <1>2, <1>3, <1>4 DEF Next, vars

\* While what is on its way stays, what has been answered stays answered.
LEMMA SamePlace ==
  ASSUME TypeOK, Callers, RequestsAreInOnePlace, [Next]_vars, UNCHANGED <<stdin, stdout, todo>>
  PROVE  RequestsAreInOnePlace' /\ Answered \subseteq Answered'
<1>1. Written \subseteq Written'
  BY WrittenStays
<1>2. InPipe' = InPipe
  BY DEF InPipe
<1>3. Answered \subseteq Answered'
  BY <1>1, <1>2 DEF Answered
<1> QED
  BY <1>1, <1>2, <1>3 DEF RequestsAreInOnePlace

\* A line at the end of the pipe, for a request that had not been written.
LEMMA PipeGrows ==
  ASSUME TypeOK, Callers, RequestsAreInOnePlace, [Next]_vars, UNCHANGED <<stdout, todo>>,
         NEW k \in {Initialized} \cup Calls, stdin' = Append(stdin, k),
         k # Initialized => k \in Written' \ Written
  PROVE  RequestsAreInOnePlace' /\ Answered \subseteq Answered'
<1> DEFINE n == Len(stdin)
<1>1. Written \subseteq Written'
  BY WrittenStays
<1>2. /\ n \in Nat /\ Len(stdin') = n + 1
      /\ \A m \in 1 .. n : stdin'[m] = stdin[m]
      /\ stdin'[n + 1] = k
  BY TypesByPart DEF PipeTypes
<1>3. Initialized \notin Written
  BY DEF Written, Initialized, Calls
<1>4. k \notin Written
  BY <1>3
<1>5. InPipe' = InPipe \cup {k}
  BY <1>2 DEF InPipe
<1>6. Answered \subseteq Answered'
  BY <1>1, <1>4, <1>5 DEF Answered
<1>7. ASSUME NEW a \in 1 .. Len(stdin'), NEW b \in 1 .. Len(stdin'), a < b,
             stdin'[a] = stdin'[b]
      PROVE  stdin'[a] = Initialized
  <2>1. a \in 1 .. n
    BY <1>2, <1>7
  <2>2. CASE b = n + 1
    <3>1. stdin[a] = k /\ stdin[a] \in InPipe
      BY <1>2, <1>7, <2>1, <2>2 DEF InPipe
    <3> QED
      BY <1>2, <1>4, <2>1, <3>1 DEF RequestsAreInOnePlace
  <2>3. CASE b # n + 1
    <3>1. b \in 1 .. n
      BY <1>2, <2>3
    <3> QED
      BY <1>2, <1>7, <2>1, <3>1 DEF RequestsAreInOnePlace
  <2> QED
    BY <2>2, <2>3
<1>8. InPipe' \subseteq Written' \cup {Initialized}
  BY <1>1, <1>5 DEF RequestsAreInOnePlace
<1>9. todo' \subseteq Written' /\ todo' \cap InPipe' = {}
  BY <1>1, <1>4, <1>5 DEF RequestsAreInOnePlace
<1> QED
  BY <1>6, <1>7, <1>8, <1>9 DEF RequestsAreInOnePlace

\* The server reads a line: a request goes from the pipe to the server.
LEMMA ServerReadsStep ==
  ASSUME TypeOK, Callers, RequestsAreInOnePlace, ServerReads
  PROVE  RequestsAreInOnePlace' /\ Answered \subseteq Answered'
<1> DEFINE n == Len(stdin)  h == stdin[1]
<1>1. Written' = Written
  BY DEF ServerReads, clientVars, Written
<1>2. /\ n \in Nat /\ 1 \in 1 .. n /\ Len(stdin') = n - 1
      /\ \A m \in 1 .. n - 1 : stdin'[m] = stdin[m + 1]
      /\ todo' = todo \cup ({h} \ {Initialized}) /\ UNCHANGED stdout
  BY TypesByPart DEF PipeTypes, ServerReads
<1>3. \A m \in 1 .. n - 1 : m + 1 \in 1 .. n /\ 1 < m + 1
  BY <1>2
<1>4. InPipe' \subseteq InPipe /\ h \in InPipe
  BY <1>2, <1>3 DEF InPipe
<1>5. h # Initialized => h \notin InPipe'
  <2>1. ASSUME h # Initialized, NEW m \in 1 .. n - 1, stdin'[m] = h PROVE FALSE
    <3>1. stdin[1] = stdin[m + 1]
      BY <1>2, <2>1
    <3> QED
      BY <1>2, <1>3, <2>1, <3>1 DEF RequestsAreInOnePlace
  <2> QED
    BY <1>2, <2>1 DEF InPipe
<1>6. Answered \subseteq Answered'
  BY <1>1, <1>2, <1>4 DEF Answered
<1>7. todo' \subseteq Written' /\ todo' \cap InPipe' = {} /\ InPipe' \subseteq Written' \cup {Initialized}
  BY <1>1, <1>2, <1>4, <1>5 DEF RequestsAreInOnePlace
<1>8. ASSUME NEW a \in 1 .. Len(stdin'), NEW b \in 1 .. Len(stdin'), a < b,
             stdin'[a] = stdin'[b]
      PROVE  stdin'[a] = Initialized
  <2>1. a + 1 \in 1 .. n /\ b + 1 \in 1 .. n /\ a + 1 < b + 1
    BY <1>2, <1>8
  <2>2. stdin'[a] = stdin[a + 1] /\ stdin'[b] = stdin[b + 1]
    BY <1>2
  <2> QED
    BY <1>8, <2>1, <2>2 DEF RequestsAreInOnePlace
<1> QED
  BY <1>2, <1>6, <1>7, <1>8 DEF RequestsAreInOnePlace

\* Messages come and go on stdout: what is a response there is final.
LEMMA StdoutStep ==
  ASSUME TypeOK, Callers, RequestsAreInOnePlace, [Next]_vars, UNCHANGED stdin,
         todo' \subseteq todo,
         \A m \in 1 .. Len(stdout') : stdout'[m].kind = "response" =>
           \/ \E k \in 1 .. Len(stdout) : stdout'[m] = stdout[k]
           \/ stdout'[m].id \in todo \ todo'
  PROVE  RequestsAreInOnePlace' /\ Answered \subseteq Answered'
<1>1. Written \subseteq Written'
  BY WrittenStays
<1>2. InPipe' = InPipe
  BY DEF InPipe
<1>3. Answered \subseteq Answered'
  BY <1>1, <1>2 DEF Answered
<1>4. todo \ todo' \subseteq Answered'
  BY <1>1, <1>2 DEF Answered, RequestsAreInOnePlace
<1>5. \A m \in 1 .. Len(stdout') : stdout'[m].kind = "response" => stdout'[m].id \in Answered'
  BY <1>3, <1>4 DEF RequestsAreInOnePlace
<1>6. todo' \subseteq Written' /\ todo' \cap InPipe' = {} /\ InPipe' \subseteq Written' \cup {Initialized}
  BY <1>1, <1>2 DEF RequestsAreInOnePlace
<1> QED
  BY <1>3, <1>5, <1>6 DEF RequestsAreInOnePlace

\* Every step leaves each request in one place and the answered ones answered.
LEMMA PlacesStep ==
  ASSUME TypeOK, Callers, RequestsAreInOnePlace, [Next]_vars
  PROVE  RequestsAreInOnePlace' /\ Answered \subseteq Answered'
<1> DEFINE Goal == RequestsAreInOnePlace' /\ Answered \subseteq Answered'
<1>1. CASE UNCHANGED <<stdin, stdout, todo>>
  BY <1>1, SamePlace
<1>2. ASSUME NEW i \in Calls, Write(i) PROVE Goal
  <2>1. i \notin Written /\ i \in Written'
    BY <1>2, TypesByPart DEF Write, Written, ClientTypes
  <2> QED
    BY <1>2, <2>1, PipeGrows DEF Write
<1>3. CASE SendNotification
  BY <1>3, PipeGrows DEF SendNotification
<1>4. CASE Route
  <2>1. /\ Len(stdout) \in Nat /\ Len(stdout') = Len(stdout) - 1
        /\ \A m \in 1 .. Len(stdout) - 1 : stdout'[m] = stdout[m + 1]
    BY <1>4, TypesByPart DEF Route, PipeTypes
  <2>2. \A m \in 1 .. Len(stdout') : \E k \in 1 .. Len(stdout) : stdout'[m] = stdout[k]
    <3>1. ASSUME NEW m \in 1 .. Len(stdout')
          PROVE  m + 1 \in 1 .. Len(stdout) /\ stdout'[m] = stdout[m + 1]
      BY <2>1
    <3> QED
      BY <3>1
  <2> QED
    BY <1>4, <2>2, StdoutStep DEF Route
<1>5. CASE ServerReads
  BY <1>5, ServerReadsStep
<1>6. ASSUME NEW x \in Line, stdout' = Append(stdout, x)
      PROVE  \A m \in 1 .. Len(stdout') :
               (\E k \in 1 .. Len(stdout) : stdout'[m] = stdout[k]) \/ stdout'[m] = x
  BY <1>6, TypesByPart DEF PipeTypes
<1>7. ASSUME NEW i \in Calls, ServerAnswers(i) PROVE Goal
  <2>1. [kind |-> "response", id |-> i] \in Line
    BY McpClientAssumption DEF Line, Calls
  <2>2. /\ \A m \in 1 .. Len(stdout') :
             \/ \E k \in 1 .. Len(stdout) : stdout'[m] = stdout[k]
             \/ stdout'[m].id \in todo \ todo'
        /\ todo' \subseteq todo /\ UNCHANGED stdin
    BY <1>6, <1>7, <2>1 DEF ServerAnswers
  <2> QED
    BY <2>2, StdoutStep
<1>8. CASE ServerPings
  <2>1. [kind |-> "request", id |-> pings'] \in Line
    BY <1>8, TypesByPart DEF ServerPings, ServerTypes, Line
  <2>2. /\ \A m \in 1 .. Len(stdout') : stdout'[m].kind = "response" =>
             \E k \in 1 .. Len(stdout) : stdout'[m] = stdout[k]
        /\ todo' \subseteq todo /\ UNCHANGED stdin
    BY <1>6, <1>8, <2>1 DEF ServerPings
  <2> QED
    BY <2>2, StdoutStep
<1>9. CASE \E i \in Calls : CallStep(i)
  BY <1>1, <1>2, <1>9 DEF CallStep, Insert, WriteFails, Receive, TimeOut, serverVars
<1>10. CASE Handshake
  BY <1>1, <1>3, <1>10 DEF Handshake, HandshakeAnswered, HandshakeFails, serverVars
<1>11. CASE Begin \/ ReaderStops \/ ShutdownClear \/ StopChild \/ ServerExits
  BY <1>1, <1>11 DEF Begin, ReaderStops, ShutdownClear, StopChild, ServerExits, serverVars
<1> QED
  BY <1>1, <1>4, <1>5, <1>7, <1>8, <1>9, <1>10, <1>11 DEF Next, Reader, Server, vars

\* A message enters a channel by its id only, and a response is final by then.
LEMMA ChannelsStep ==
  ASSUME TypeOK, Callers, RequestsAreInOnePlace, ChannelsAreOwn, [Next]_vars
  PROVE  ChannelsAreOwn'
<1>1. Answered \subseteq Answered'
  BY PlacesStep
<1>2. CASE UNCHANGED slot
  BY <1>1, <1>2 DEF ChannelsAreOwn
<1>3. CASE Route
  <2> DEFINE h == Head(stdout)
  <2>1. \A i \in Calls : slot'[i] = slot[i] \/ (slot'[i] = h /\ h.id = i)
    BY <1>3 DEF Route, Addressee
  <2>2. h.kind = "response" => h.id \in Answered
    <3>1. Len(stdout) \in Nat /\ 1 \in 1 .. Len(stdout) /\ h = stdout[1]
      BY <1>3, TypesByPart DEF Route, PipeTypes
    <3> QED
      BY <3>1 DEF RequestsAreInOnePlace
  <2> HIDE DEF h
  <2> QED
    BY <1>1, <2>1, <2>2 DEF ChannelsAreOwn
<1>4. CASE ShutdownClear
  <2>1. \A i \in Calls : slot'[i] = slot[i] \/ slot'[i] = Dropped
    BY <1>4 DEF ShutdownClear, DropSenders
  <2>2. Dropped.kind # "response"
    BY DEF Dropped
  <2> QED
    BY <1>1, <2>1, <2>2 DEF ChannelsAreOwn
<1>5. CASE \E i \in Calls : CallStep(i)
  BY <1>2, <1>5 DEF CallStep, Insert, Write, WriteFails, Receive, TimeOut
<1>6. CASE Begin \/ Handshake \/ ReaderStops \/ StopChild \/ Server
  BY <1>2, <1>6 DEF Begin, Handshake, HandshakeAnswered, SendNotification, HandshakeFails,
     ReaderStops, StopChild, Server, ServerReads, ServerAnswers, ServerPings, ServerExits,
     clientVars
<1> QED
  BY <1>2, <1>3, <1>4, <1>5, <1>6 DEF Next, Reader, vars
-----------------------------------------------------------------------------
LEMMA InvStep == TypeOK /\ Inv /\ [Next]_vars => Inv'
  BY CallersStep, PlacesStep, ChannelsStep DEF Inv, Callers

LEMMA Invariance == Spec => [](TypeOK /\ Inv)
  BY TypeOKInit, TypeOKStep, InvInit, InvStep, PTL DEF Spec

(***************************************************************************)
(* No caller ever waits for an answer that can no longer reach it.         *)
(***************************************************************************)
THEOREM WaitersStayReachable == Spec => []WaitersAreReachable
<1>1. TypeOK /\ Inv => WaitersAreReachable
  BY DEF Inv
<1> QED
  BY Invariance, <1>1, PTL

(***************************************************************************)
(* The map of senders holds only senders that nobody has used.             *)
(***************************************************************************)
THEOREM SendersStayUnused == Spec => []SendersAreUnused
<1>1. TypeOK /\ Inv => SendersAreUnused
  BY DEF Inv
<1> QED
  BY Invariance, <1>1, PTL

(***************************************************************************)
(* No answer reaches a caller that it does not belong to, in whatever      *)
(* order the server answers.                                               *)
(***************************************************************************)
THEOREM AnswersReachTheirCaller == Spec => []AnswersAreOwn
<1>1. TypeOK /\ Inv => AnswersAreOwn
  BY DEF Inv, ChannelsAreOwn, Answered, InPipe, AnswersAreOwn
<1> QED
  BY Invariance, <1>1, PTL
-----------------------------------------------------------------------------
(***************************************************************************)
(* The programs that talk through the event queue: Clients                 *)
(***************************************************************************)
(* The types that the steps rely on. *)
LogTypes ==
  /\ log \in Seq(Event)
  /\ cursor \in [Repls \cup {Agent} -> Nat]
  /\ \A l \in Repls \cup {Agent} : cursor[l] <= Len(log)

ReplTypes ==
  /\ repl \in [Repls -> {"down", "prompt", "listening"}]
  /\ asker \in Seq(Repls)
  /\ printed \in [Repls -> SUBSET (Nat \X Nat)]
  /\ strayed \subseteq Repls
  /\ unanswered \subseteq 1 .. Len(asker)

(***************************************************************************)
(* Events about questions: each is pushed once, and answered once, after   *)
(* the agent has come past it.                                             *)
(***************************************************************************)
About(topic, q) == {i \in 1 .. Len(log) : log[i].topic = topic /\ log[i].of = q}

Questions == 1 .. Len(asker)

AskedOnce ==
  /\ \A i \in 1 .. Len(log) : log[i].topic \in {"cli", "cli.response"} => log[i].of \in Questions
  /\ \A q \in Questions : \A i, k \in About("cli", q) : i = k

AnsweredOnce ==
  /\ \A q \in Questions : \A i, k \in About("cli.response", q) : i = k
  /\ \A q \in unanswered : About("cli.response", q) = {}

Ahead ==
  \A q \in Questions : \A i \in About("cli", q) :
    i > cursor[Agent] => q \notin unanswered /\ About("cli.response", q) = {}

(***************************************************************************)
(* What a REPL has printed: answers it has come past, each once.           *)
(***************************************************************************)
PrintedOnce ==
  \A r \in Repls :
    /\ \A p \in printed[r] : /\ p[1] \in 1 .. Len(log) /\ p[1] <= cursor[r]
                             /\ log[p[1]].topic = "cli.response"
    /\ \A p, s \in printed[r] : p[1] = s[1] => p = s
    /\ repl[r] = "listening" => \E q \in Questions : asker[q] = r

\* A REPL that has the agent for itself and has never strayed.
Undistracted(r) == r \notin strayed /\ \A q \in Questions : asker[q] = r

InTurn ==
  \A r \in Repls : Undistracted(r) =>
    /\ \A p \in printed[r] : log[p[1]].of = p[2]
    /\ \A q \in Questions :
         (\E p \in printed[r] : p[2] = q) \/ (repl[r] = "listening" /\ q = Len(asker))

Talk == LogTypes /\ ReplTypes /\ AskedOnce /\ AnsweredOnce /\ Ahead /\ PrintedOnce /\ InTurn

(***************************************************************************)
(* A job that is gone has no task, or one that is told to end.  That one   *)
(* has at most this firing and the ticks that are due still to push, and   *)
(* was excused them.                                                       *)
(***************************************************************************)
Workers == {"none", "ticking", "firing", "aborted", "ended"}

CronTypes ==
  /\ worker \in [Jobs -> Workers]
  /\ due \in [Jobs -> Nat]
  /\ late \in [Jobs -> Nat]
  /\ excused \in [Jobs -> Nat]

Silent(j) ==
  /\ j \in jobs <=> worker[j] \in {"ticking", "firing"}
  /\ worker[j] \in {"none", "ticking", "firing"} => late[j] = 0
  /\ IF worker[j] = "aborted" THEN late[j] + 1 + due[j] <= excused[j]
                             ELSE late[j] <= excused[j]

Fired == CronTypes /\ \A j \in Jobs : Silent(j)

-----------------------------------------------------------------------------
\* An event more: what was said of the older ones holds on.
LEMMA Pushed ==
  ASSUME LogTypes, NEW t, NEW o, log' = Append(log, [topic |-> t, of |-> o])
  PROVE  /\ Len(log) \in Nat /\ Len(log') = Len(log) + 1
         /\ \A i \in 1 .. Len(log) : log'[i] = log[i]
         /\ log'[Len(log) + 1].topic = t /\ log'[Len(log) + 1].of = o
         /\ About(t, o)' = About(t, o) \cup {Len(log) + 1}
         /\ \A topic, q : topic # t \/ q # o => About(topic, q)' = About(topic, q)
<1>1. /\ Len(log) \in Nat /\ Len(log') = Len(log) + 1
      /\ \A i \in 1 .. Len(log) : log'[i] = log[i]
      /\ log'[Len(log) + 1] = [topic |-> t, of |-> o]
  BY DEF LogTypes
<1>2. ASSUME NEW i \in 1 .. Len(log) + 1 PROVE i \in 1 .. Len(log) \/ i = Len(log) + 1
  BY <1>1
<1>3. About(t, o)' = About(t, o) \cup {Len(log) + 1}
  BY <1>1, <1>2 DEF About
<1>4. ASSUME NEW topic, NEW q, topic # t \/ q # o PROVE About(topic, q)' = About(topic, q)
  BY <1>1, <1>2, <1>4 DEF About
<1> QED
  BY <1>1, <1>3, <1>4

\* What of the log and the cursors the rest relies on: a position moves on.
LEMMA LogTypesKept ==
  ASSUME LogTypes,
         log' = log \/ \E e \in Event : log' = Append(log, e),
         cursor' \in [Repls \cup {Agent} -> Nat],
         \A l \in Repls \cup {Agent} : cursor'[l] = cursor[l] \/ cursor'[l] <= Len(log)
  PROVE  LogTypes'
<1>1. Len(log) \in Nat /\ log' \in Seq(Event) /\ Len(log') \in {Len(log), Len(log) + 1}
  BY DEF LogTypes
<1>2. ASSUME NEW l \in Repls \cup {Agent} PROVE cursor'[l] <= Len(log')
  BY <1>1, <1>2 DEF LogTypes
<1> QED
  BY <1>1, <1>2 DEF LogTypes

\* An event that is about no question.
LEMMA OthersPush ==
  ASSUME Talk, NEW t \in {"cron.fired", "task.done", "task.failed"}, NEW o \in Nat, Push(t, o),
         UNCHANGED <<replVars, unanswered>>
  PROVE  Talk'
<1>1. log' = Append(log, [topic |-> t, of |-> o]) /\ UNCHANGED cursor
  BY DEF Push, Queue!Publish
<1>2. LogTypes /\ [topic |-> t, of |-> o] \in Event
  BY DEF Talk, Event
<1>3. LogTypes'
  BY <1>1, <1>2, LogTypesKept DEF LogTypes
<1>4. ReplTypes'
  BY DEF Talk, ReplTypes, replVars
<1>5. /\ Len(log) \in Nat /\ Len(log') = Len(log) + 1
      /\ \A i \in 1 .. Len(log) : log'[i] = log[i]
      /\ log'[Len(log) + 1].topic = t
      /\ \A q : About("cli", q)' = About("cli", q)
                /\ About("cli.response", q)' = About("cli.response", q)
  BY <1>1, <1>2, Pushed
<1>6. Questions' = Questions
  BY DEF Questions, replVars
<1>7. ASSUME NEW i \in 1 .. Len(log'), log'[i].topic \in {"cli", "cli.response"}
      PROVE  log'[i].of \in Questions'
  <2>1. i \in 1 .. Len(log)
    BY <1>5, <1>7
  <2> QED
    BY <1>5, <1>6, <1>7, <2>1 DEF Talk, AskedOnce
<1>8. AskedOnce'
  BY <1>5, <1>6, <1>7 DEF Talk, AskedOnce
<1>9. AnsweredOnce' /\ Ahead'
  BY <1>1, <1>5, <1>6 DEF Talk, AnsweredOnce, Ahead
<1>10. \A r \in Repls : \A p \in printed[r] : p[1] \in 1 .. Len(log) /\ log'[p[1]] = log[p[1]]
  BY <1>5 DEF Talk, PrintedOnce
<1>11. PrintedOnce'
  BY <1>1, <1>5, <1>6, <1>10 DEF Talk, PrintedOnce, replVars
<1>12. InTurn'
  BY <1>6, <1>10 DEF Talk, InTurn, Undistracted, replVars
<1> QED
  BY <1>3, <1>4, <1>8, <1>9, <1>11, <1>12 DEF Talk

LEMMA AgentAnswersStep ==
  ASSUME Talk, NEW q \in unanswered, AgentAnswers(q)
  PROVE  Talk'
<1>1. /\ log' = Append(log, [topic |-> "cli.response", of |-> q])
      /\ UNCHANGED <<cursor, replVars>> /\ unanswered' = unanswered \ {q}
  BY DEF AgentAnswers, Push, Queue!Publish
<1>2. LogTypes /\ ReplTypes /\ q \in Questions
  BY DEF Talk, ReplTypes, Questions
<1>3. q \in Nat /\ [topic |-> "cli.response", of |-> q] \in Event
  BY <1>2 DEF Event, Questions
<1>4. LogTypes'
  BY <1>1, <1>2, <1>3, LogTypesKept DEF LogTypes
<1>5. ReplTypes'
  BY <1>1, <1>2 DEF ReplTypes, replVars
<1>6. /\ Len(log) \in Nat /\ Len(log') = Len(log) + 1
      /\ \A i \in 1 .. Len(log) : log'[i] = log[i]
      /\ log'[Len(log) + 1].of = q
      /\ \A p : About("cli", p)' = About("cli", p)
      /\ \A p : p # q => About("cli.response", p)' = About("cli.response", p)
      /\ About("cli.response", q)' = About("cli.response", q) \cup {Len(log) + 1}
  BY <1>1, <1>2, Pushed
<1>7. Questions' = Questions
  BY <1>1 DEF Questions, replVars
<1>8. ASSUME NEW i \in 1 .. Len(log'), log'[i].topic \in {"cli", "cli.response"}
      PROVE  log'[i].of \in Questions'
  <2>1. i \in 1 .. Len(log) \/ i = Len(log) + 1
    BY <1>6, <1>8
  <2> QED
    BY <1>2, <1>6, <1>7, <1>8, <2>1 DEF Talk, AskedOnce
<1>9. AskedOnce'
  BY <1>6, <1>7, <1>8 DEF Talk, AskedOnce
<1>10. About("cli.response", q) = {}
  BY DEF Talk, AnsweredOnce
<1>11. AnsweredOnce'
  BY <1>1, <1>6, <1>7, <1>10 DEF Talk, AnsweredOnce
<1>12. Ahead'
  <2> SUFFICES ASSUME NEW p \in Questions, NEW i \in About("cli", p), i > cursor[Agent]
               PROVE  p \notin unanswered' /\ About("cli.response", p)' = {}
    BY <1>1, <1>6, <1>7 DEF Ahead
  <2>1. p \notin unanswered /\ About("cli.response", p) = {}
    BY DEF Talk, Ahead
  <2> QED
    BY <1>1, <1>6, <2>1
<1>13. \A r \in Repls : \A p \in printed[r] : p[1] \in 1 .. Len(log) /\ log'[p[1]] = log[p[1]]
  BY <1>6 DEF Talk, PrintedOnce
<1>14. PrintedOnce'
  BY <1>1, <1>6, <1>7, <1>13 DEF Talk, PrintedOnce, replVars
<1>15. InTurn'
  BY <1>1, <1>7, <1>13 DEF Talk, InTurn, Undistracted, replVars
<1> QED
  BY <1>4, <1>5, <1>9, <1>11, <1>12, <1>14, <1>15 DEF Talk

LEMMA ReplAsksStep ==
  ASSUME Talk, NEW r \in Repls, ReplAsks(r)
  PROVE  Talk'
<1>0. PICK n \in Nat : n = Len(asker) + 1
  BY DEF Talk, ReplTypes
<1>1. /\ repl[r] = "prompt" /\ asker' = Append(asker, r) /\ UNCHANGED <<cursor, printed, unanswered>>
      /\ log' = log \/ log' = Append(log, [topic |-> "cli", of |-> n])
      /\ \/ repl' = repl /\ strayed' = strayed \cup {r}
         \/ repl' = [repl EXCEPT ![r] = "listening"] /\ strayed' = strayed
  BY <1>0 DEF ReplAsks, Push, Queue!Publish, logVars
<1>2. LogTypes /\ ReplTypes
  BY DEF Talk
<1>3. /\ n \in Nat /\ n \notin Questions /\ Questions' = Questions \cup {n}
      /\ asker'[n] = r /\ \A q \in Questions : asker'[q] = asker[q]
      /\ Len(asker') = n
  BY <1>0, <1>1, <1>2 DEF ReplTypes, Questions
<1>4. LogTypes'
  <2>1. [topic |-> "cli", of |-> n] \in Event
    BY <1>3 DEF Event
  <2> QED
    BY <1>1, <1>2, <2>1, LogTypesKept DEF LogTypes
<1>5. ReplTypes'
  <2>1. repl' \in [Repls -> {"down", "prompt", "listening"}] /\ strayed' \subseteq Repls
    BY <1>1, <1>2 DEF ReplTypes
  <2>2. asker' \in Seq(Repls) /\ unanswered' \subseteq 1 .. Len(asker')
    BY <1>1, <1>2, <1>3 DEF ReplTypes, Questions
  <2> QED
    BY <1>1, <1>2, <2>1, <2>2 DEF ReplTypes
<1>6. About("cli", n) = {} /\ About("cli.response", n) = {} /\ n \notin unanswered
  BY <1>2, <1>3 DEF Talk, AskedOnce, About, ReplTypes, Questions
<1>7. /\ Len(log) \in Nat /\ Len(log') \in {Len(log), Len(log) + 1}
      /\ \A i \in 1 .. Len(log) : log'[i] = log[i]
      /\ Len(log') # Len(log) => log'[Len(log) + 1].of = n
      /\ \A q : q # n => About("cli", q)' = About("cli", q)
      /\ \A q : About("cli.response", q)' = About("cli.response", q)
      /\ About("cli", n)' \subseteq {Len(log) + 1}
  <2>1. CASE log' = log
    <3>1. \A t, q : About(t, q)' = About(t, q)
      BY <2>1 DEF About
    <3>2. Len(log) \in Nat
      BY <1>2 DEF LogTypes
    <3>3. About("cli", n)' = {}
      BY <1>6, <3>1, Zenon
    <3> QED
      BY <2>1, <3>1, <3>2, <3>3
  <2>2. CASE log' = Append(log, [topic |-> "cli", of |-> n])
    <3>1. /\ Len(log) \in Nat /\ Len(log') = Len(log) + 1
          /\ \A i \in 1 .. Len(log) : log'[i] = log[i]
          /\ log'[Len(log) + 1].of = n
          /\ About("cli", n)' = About("cli", n) \cup {Len(log) + 1}
          /\ \A q : q # n => About("cli", q)' = About("cli", q)
          /\ \A q : About("cli.response", q)' = About("cli.response", q)
      BY <1>2, <2>2, Pushed
    <3>2. About("cli", n)' \subseteq {Len(log) + 1}
      BY <1>6, <3>1, Zenon
    <3> QED
      BY <3>1, <3>2
  <2> QED
    BY <1>1, <2>1, <2>2
<1>8. ASSUME NEW i \in 1 .. Len(log'), log'[i].topic \in {"cli", "cli.response"}
      PROVE  log'[i].of \in Questions'
  <2>1. CASE i \in 1 .. Len(log)
    BY <1>3, <1>7, <1>8, <2>1 DEF Talk, AskedOnce
  <2>2. CASE i \notin 1 .. Len(log)
    <3>1. i = Len(log) + 1 /\ Len(log') # Len(log)
      BY <1>7, <1>8, <2>2
    <3> QED
      BY <1>3, <1>7, <3>1
  <2> QED
    BY <2>1, <2>2
<1>9. AskedOnce'
  <2>1. ASSUME NEW q \in Questions', NEW i \in About("cli", q)', NEW k \in About("cli", q)'
        PROVE  i = k
    <3>1. CASE q = n
      <4>1. i \in {Len(log) + 1} /\ k \in {Len(log) + 1}
        BY <1>7, <2>1, <3>1, Zenon
      <4> QED
        BY <4>1
    <3>2. CASE q # n
      <4>1. q \in Questions /\ About("cli", q)' = About("cli", q)
        BY <1>3, <1>7, <3>2
      <4> QED
        BY <2>1, <4>1 DEF Talk, AskedOnce
    <3> QED
      BY <3>1, <3>2
  <2> QED
    BY <1>8, <2>1 DEF AskedOnce
<1>10. AnsweredOnce'
  BY <1>1, <1>3, <1>6, <1>7 DEF Talk, AnsweredOnce
<1>11. Ahead'
  BY <1>1, <1>3, <1>6, <1>7 DEF Talk, Ahead
<1>12. \A s \in Repls : \A p \in printed[s] : p[1] \in 1 .. Len(log) /\ log'[p[1]] = log[p[1]]
  BY <1>7 DEF Talk, PrintedOnce
<1>13. ASSUME NEW s \in Repls, repl'[s] = "listening"
       PROVE  \E q \in Questions' : asker'[q] = s
  <2>1. CASE s = r
    BY <1>3, <2>1
  <2>2. CASE s # r
    <3>1. repl[s] = "listening"
      BY <1>1, <1>2, <1>13, <2>2 DEF ReplTypes
    <3> QED
      BY <1>3, <3>1 DEF Talk, PrintedOnce
  <2> QED
    BY <2>1, <2>2
<1>14. PrintedOnce'
  <2>1. ASSUME NEW s \in Repls, NEW p \in printed[s]
        PROVE  p[1] \in 1 .. Len(log') /\ p[1] <= cursor[s] /\ log'[p[1]].topic = "cli.response"
    BY <1>7, <1>12 DEF Talk, PrintedOnce
  <2> QED
    BY <1>1, <1>13, <2>1 DEF Talk, PrintedOnce
<1>15. InTurn'
  <2> SUFFICES ASSUME NEW s \in Repls, Undistracted(s)'
               PROVE  /\ \A p \in printed[s] : log'[p[1]].of = p[2]
                      /\ \A q \in Questions' : \/ \E p \in printed[s] : p[2] = q
                                               \/ repl'[s] = "listening" /\ q = n
    BY <1>1, <1>3 DEF InTurn
  <2>1. s = r
    BY <1>3 DEF Undistracted
  <2>2. s \notin strayed /\ \A q \in Questions : asker[q] = s
    BY <1>1, <1>3 DEF Undistracted
  <2>3. /\ \A p \in printed[s] : log[p[1]].of = p[2]
        /\ \A q \in Questions : \E p \in printed[s] : p[2] = q
    BY <1>1, <2>1, <2>2 DEF Talk, InTurn, Undistracted
  <2>4. repl'[r] = "listening"
    BY <1>1, <1>2, <2>1 DEF Undistracted, ReplTypes
  <2> QED
    BY <1>3, <1>12, <2>1, <2>3, <2>4
<1> QED
  BY <1>4, <1>5, <1>9, <1>10, <1>11, <1>14, <1>15 DEF Talk

\* Positions move on, and a REPL comes back to the prompt without an answer.
LEMMA MovesOn ==
  ASSUME Talk, UNCHANGED <<log, asker, printed, unanswered>>,
         cursor' \in [Repls \cup {Agent} -> Nat],
         \A l \in Repls \cup {Agent} : cursor'[l] \in {cursor[l], Len(log)},
         repl' \in [Repls -> {"down", "prompt", "listening"}],
         strayed \subseteq strayed', strayed' \subseteq Repls,
         \A r \in Repls : /\ repl'[r] = "listening" => repl[r] = "listening"
                          /\ repl[r] = "listening" => repl'[r] = "listening" \/ r \in strayed'
  PROVE  Talk'
<1>1. LogTypes /\ ReplTypes /\ Len(log) \in Nat
  BY DEF Talk, LogTypes
<1>2. LogTypes'
  BY <1>1, LogTypesKept
<1>3. ReplTypes'
  BY <1>1 DEF ReplTypes
<1>4. Questions' = Questions /\ \A t, q : About(t, q)' = About(t, q)
  BY DEF Questions, About
<1>5. \A l \in Repls \cup {Agent} : cursor[l] \in Nat /\ cursor'[l] \in Nat /\ cursor[l] <= cursor'[l]
  BY <1>1 DEF LogTypes
<1>6. AskedOnce' /\ AnsweredOnce'
  BY <1>4 DEF Talk, AskedOnce, AnsweredOnce
<1>7. \A t, q : About(t, q) \subseteq Nat
  BY <1>1 DEF About
<1>8. Ahead'
  <2> SUFFICES ASSUME NEW q \in Questions, NEW i \in About("cli", q), i > cursor'[Agent]
               PROVE  q \notin unanswered /\ About("cli.response", q) = {}
    BY <1>4 DEF Ahead
  <2>1. i > cursor[Agent]
    BY <1>5, <1>7
  <2> QED
    BY <2>1 DEF Talk, Ahead
<1>9. PrintedOnce'
  <2>1. ASSUME NEW r \in Repls, NEW p \in printed[r] PROVE p[1] <= cursor'[r]
    <3>1. p[1] \in Nat /\ p[1] <= cursor[r]
      BY <1>1 DEF Talk, PrintedOnce
    <3> QED
      BY <1>5, <3>1
  <2> QED
    BY <1>4, <2>1 DEF Talk, PrintedOnce
<1>10. InTurn'
  <2> SUFFICES ASSUME NEW r \in Repls, Undistracted(r)'
               PROVE  /\ \A p \in printed[r] : log[p[1]].of = p[2]
                      /\ \A q \in Questions :
                           (\E p \in printed[r] : p[2] = q) \/ (repl'[r] = "listening" /\ q = Len(asker))
    BY <1>4 DEF InTurn
  <2>1. Undistracted(r) /\ (repl[r] = "listening" => repl'[r] = "listening")
    BY <1>4 DEF Undistracted
  <2> QED
    BY <2>1 DEF Talk, InTurn
<1> QED
  BY <1>2, <1>3, <1>6, <1>8, <1>9, <1>10 DEF Talk

LEMMA AgentReadsStep ==
  ASSUME Talk, AgentReads
  PROVE  Talk'
<1>1. PICK last \in Queue!Owed(Agent) :
        /\ \A i \in Queue!Owed(Agent) : i <= last
        /\ cursor' = [cursor EXCEPT ![Agent] = last]
  BY DEF AgentReads, Queue!Read
<1>2. /\ UNCHANGED <<log, replVars>>
      /\ unanswered' = unanswered \cup {log[i].of : i \in {k \in Queue!Owed(Agent) : log[k].topic = "cli"}}
  BY DEF AgentReads, Queue!Read
<1>3. LogTypes /\ ReplTypes /\ Len(log) \in Nat /\ cursor[Agent] \in Nat
  BY DEF Talk, LogTypes
<1>4. ASSUME NEW i \in Queue!Owed(Agent) PROVE i \in 1 .. Len(log) /\ i > cursor[Agent]
  BY DEF Queue!Owed, Queue!Retained
<1>5. last \in 1 .. Len(log) /\ last > cursor[Agent] /\ last \in Nat
  BY <1>1, <1>4
<1>6. cursor'[Agent] = last /\ \A l \in Repls : cursor'[l] = cursor[l]
  BY <1>1, <1>3, ClientsAssumption DEF LogTypes
<1>7. LogTypes'
  <2>1. cursor' \in [Repls \cup {Agent} -> Nat]
    BY <1>1, <1>3, <1>5 DEF LogTypes
  <2>2. \A l \in Repls \cup {Agent} : cursor'[l] = cursor[l] \/ cursor'[l] <= Len(log)
    BY <1>5, <1>6
  <2> QED
    BY <1>2, <1>3, <2>1, <2>2, LogTypesKept
<1>8. Questions' = Questions /\ \A t, q : About(t, q)' = About(t, q)
  BY <1>2 DEF Questions, About, replVars
<1>9. ASSUME NEW q \in unanswered' \ unanswered
      PROVE  \E i \in Queue!Owed(Agent) : i \in About("cli", q) /\ q \in Questions
  <2>1. PICK i \in Queue!Owed(Agent) : log[i].topic = "cli" /\ q = log[i].of
    BY <1>2, <1>9
  <2>2. i \in 1 .. Len(log)
    BY <1>4
  <2> QED
    BY <2>1, <2>2 DEF About, Talk, AskedOnce
<1>10. ReplTypes'
  BY <1>2, <1>3, <1>9 DEF ReplTypes, Questions, replVars
<1>11. AskedOnce'
  BY <1>2, <1>8 DEF Talk, AskedOnce
<1>12. AnsweredOnce'
  <2>1. ASSUME NEW q \in unanswered' PROVE About("cli.response", q) = {}
    <3>1. CASE q \in unanswered
      BY <3>1 DEF Talk, AnsweredOnce
    <3>2. CASE q \notin unanswered
      <4>1. PICK i \in Queue!Owed(Agent) : i \in About("cli", q) /\ q \in Questions
        BY <1>9, <2>1, <3>2
      <4> QED
        BY <1>4, <4>1 DEF Talk, Ahead
    <3> QED
      BY <3>1, <3>2
  <2> QED
    BY <1>8, <2>1 DEF Talk, AnsweredOnce
<1>13. Ahead'
  <2> SUFFICES ASSUME NEW q \in Questions, NEW i \in About("cli", q), i > last
               PROVE  q \notin unanswered' /\ About("cli.response", q) = {}
    BY <1>6, <1>8 DEF Ahead
  <2>1. i \in Nat /\ i > cursor[Agent]
    BY <1>3, <1>5 DEF About
  <2>2. q \notin unanswered /\ About("cli.response", q) = {}
    BY <2>1 DEF Talk, Ahead
  <2>3. ASSUME q \in unanswered' PROVE FALSE
    <3>1. PICK k \in Queue!Owed(Agent) : k \in About("cli", q)
      BY <1>9, <2>2, <2>3
    <3>2. k = i
      BY <3>1 DEF Talk, AskedOnce
    <3>3. i <= last
      BY <1>1, <3>1, <3>2
    <3> QED
      BY <1>5, <2>1, <3>3
  <2> QED
    BY <2>2, <2>3
<1>14. PrintedOnce'
  BY <1>2, <1>6, <1>8 DEF Talk, PrintedOnce, replVars
<1>15. InTurn'
  BY <1>2, <1>8 DEF Talk, InTurn, Undistracted, replVars
<1> QED
  BY <1>7, <1>10, <1>11, <1>12, <1>13, <1>14, <1>15 DEF Talk

\* A set of questions has a last one.
LEMMA HasLastOne ==
  ASSUME NEW n \in Nat, NEW S \in SUBSET (1 .. n), S # {}
  PROVE  \E i \in S : \A j \in S : j <= i
<1> DEFINE T == {n - i : i \in S}
<1>1. \A i \in S : n - i \in Nat
  OBVIOUS
<1>2. T \in SUBSET Nat /\ T # {}
  BY <1>1
<1>3. PICK k \in T : \A m \in T : ~(<<m, k>> \in OpToRel(<, Nat))
  BY <1>2, NatLessThanWellFounded, WFMin
<1>4. PICK i \in S : k = n - i
  OBVIOUS
<1>5. \A j \in S : ~(n - j < n - i)
  BY <1>1, <1>3, <1>4 DEF OpToRel
<1> QED
  BY <1>5

\* While only r asks, the question it asked last is the last of all.
LEMMA LastQuestion ==
  ASSUME Talk, NEW r \in Repls, repl[r] = "listening"
  PROVE  /\ Question(r) \in Nat
         /\ (\A q \in Questions : asker[q] = r) => Question(r) = Len(asker) /\ Len(asker) \in Questions
<1>1. Len(asker) \in Nat /\ \E q \in Questions : asker[q] = r
  BY DEF Talk, ReplTypes, PrintedOnce
<1> DEFINE Its(q) == q \in Questions /\ asker[q] = r /\ \A p \in Questions : asker[p] = r => p <= q
<1>2. Question(r) = CHOOSE q \in Questions : asker[q] = r /\ \A p \in Questions : asker[p] = r => p <= q
  BY DEF Question, Questions
<1>3. \E q : Its(q)
  <2> DEFINE mine == {p \in Questions : asker[p] = r}
  <2>1. mine \in SUBSET (1 .. Len(asker)) /\ mine # {}
    BY <1>1 DEF Questions
  <2>2. \E q \in mine : \A p \in mine : p <= q
    <3> HIDE DEF mine
    <3> QED
      BY <1>1, <2>1, HasLastOne
  <2> QED
    BY <2>2
<1>4. Its(Question(r))
  BY <1>2, <1>3
<1>5. Question(r) \in Nat
  BY <1>4 DEF Questions
<1>6. ASSUME \A q \in Questions : asker[q] = r
      PROVE  Question(r) = Len(asker) /\ Len(asker) \in Questions
  <2>1. Len(asker) \in Questions
    BY <1>1 DEF Questions
  <2>2. Len(asker) <= Question(r) /\ Question(r) <= Len(asker)
    BY <1>1, <1>4, <1>6, <2>1 DEF Questions
  <2> QED
    BY <1>1, <1>5, <2>1, <2>2
<1> QED
  BY <1>5, <1>6

LEMMA ReplReadsStep ==
  ASSUME Talk, NEW r \in Repls, ReplReads(r)
  PROVE  Talk'
<1> DEFINE new == Queue!Owed(r) \X {Question(r)}
<1>1. PICK last \in Queue!Owed(r) :
        /\ \A i \in Queue!Owed(r) : i <= last
        /\ cursor' = [cursor EXCEPT ![r] = last]
  BY DEF ReplReads, Queue!Read
<1>2. /\ repl[r] = "listening" /\ UNCHANGED <<log, asker, strayed, unanswered>>
      /\ printed' = [printed EXCEPT ![r] = @ \cup new]
      /\ repl' = [repl EXCEPT ![r] = "prompt"]
  BY DEF ReplReads, Queue!Read
<1>3. LogTypes /\ ReplTypes /\ Len(log) \in Nat /\ cursor[r] \in Nat /\ r # Agent
  BY ClientsAssumption DEF Talk, LogTypes
<1>4. ASSUME NEW i \in Queue!Owed(r)
      PROVE  i \in 1 .. Len(log) /\ i > cursor[r] /\ log[i].topic = "cli.response"
  <2>1. log[i] \in Answers
    BY <1>3 DEF Queue!Owed
  <2> QED
    BY <2>1 DEF Queue!Owed, Queue!Retained, Answers
<1>5. last \in 1 .. Len(log) /\ last > cursor[r] /\ last \in Nat
  BY <1>1, <1>4
<1>6. cursor'[r] = last /\ \A l \in (Repls \cup {Agent}) \ {r} : cursor'[l] = cursor[l]
  BY <1>1, <1>3 DEF LogTypes
<1>7. LogTypes'
  <2>1. cursor' \in [Repls \cup {Agent} -> Nat]
    BY <1>1, <1>3, <1>5 DEF LogTypes
  <2>2. \A l \in Repls \cup {Agent} : cursor'[l] = cursor[l] \/ cursor'[l] <= Len(log)
    BY <1>5, <1>6
  <2> QED
    BY <1>2, <1>3, <2>1, <2>2, LogTypesKept
<1>8. Question(r) \in Nat
  BY <1>2, LastQuestion
<1>9. new \subseteq Nat \X Nat
  BY <1>4, <1>8
<1>10. /\ printed'[r] = printed[r] \cup new /\ repl'[r] = "prompt"
       /\ \A s \in Repls \ {r} : printed'[s] = printed[s] /\ repl'[s] = repl[s]
  BY <1>2, <1>3 DEF ReplTypes
<1>11. ReplTypes'
  <2> HIDE DEF new
  <2> QED
    BY <1>2, <1>3, <1>9 DEF ReplTypes
<1>12. Questions' = Questions /\ \A t, q : About(t, q)' = About(t, q)
  BY <1>2 DEF Questions, About
<1>13. AskedOnce' /\ AnsweredOnce'
  BY <1>2, <1>12 DEF Talk, AskedOnce, AnsweredOnce
<1>14. Ahead'
  BY <1>2, <1>3, <1>6, <1>12 DEF Talk, Ahead
<1>15. ASSUME NEW p \in new
       PROVE  /\ p[1] \in Queue!Owed(r) /\ p[2] = Question(r)
              /\ p = <<p[1], p[2]>>
  OBVIOUS
<1>16. ASSUME NEW p \in printed[r]
       PROVE  /\ p[1] \in 1 .. Len(log) /\ p[1] <= cursor[r] /\ p[1] \in Nat
              /\ log[p[1]].topic = "cli.response"
  BY <1>3 DEF Talk, PrintedOnce
<1> HIDE DEF new
<1>17. ASSUME NEW p \in printed'[r], NEW s \in printed'[r], p[1] = s[1] PROVE p = s
  <2>1. CASE p \in printed[r] /\ s \in printed[r]
    BY <1>17, <2>1 DEF Talk, PrintedOnce
  <2>2. CASE p \in new /\ s \in new
    BY <1>15, <1>17, <2>2
  <2>3. ASSUME NEW a \in printed[r], NEW b \in new, a[1] = b[1] PROVE FALSE
    <3>1. a[1] <= cursor[r] /\ a[1] \in Nat /\ b[1] > cursor[r]
      BY <1>4, <1>15, <1>16
    <3> QED
      BY <1>3, <2>3, <3>1
  <2> QED
    BY <1>10, <1>17, <2>1, <2>2, <2>3
<1>18. ASSUME NEW p \in printed'[r]
       PROVE  p[1] \in 1 .. Len(log) /\ p[1] <= last /\ log[p[1]].topic = "cli.response"
  <2>1. CASE p \in printed[r]
    BY <1>3, <1>5, <1>16, <2>1
  <2>2. CASE p \in new
    BY <1>1, <1>4, <1>15, <2>2
  <2> QED
    BY <1>10, <2>1, <2>2
<1>19. PrintedOnce'
  <2>1. ASSUME NEW s \in Repls
        PROVE  /\ \A p \in printed'[s] : /\ p[1] \in 1 .. Len(log) /\ p[1] <= cursor'[s]
                                         /\ log[p[1]].topic = "cli.response"
               /\ \A p, q \in printed'[s] : p[1] = q[1] => p = q
               /\ repl'[s] = "listening" => \E q \in Questions : asker[q] = s
    <3>1. CASE s = r
      BY <1>6, <1>10, <1>17, <1>18, <3>1
    <3>2. CASE s # r
      BY <1>6, <1>10, <3>2 DEF Talk, PrintedOnce
    <3> QED
      BY <3>1, <3>2
  <2> QED
    BY <1>2, <1>12, <2>1 DEF PrintedOnce
<1>20. ASSUME Undistracted(r)
       PROVE  /\ \A p \in printed'[r] : log[p[1]].of = p[2]
              /\ \A q \in Questions : \E p \in printed'[r] : p[2] = q
  <2>1. Question(r) = Len(asker) /\ Len(asker) \in Questions
    BY <1>2, <1>20, LastQuestion DEF Undistracted
  <2>2. /\ \A p \in printed[r] : log[p[1]].of = p[2]
        /\ \A q \in Questions : q # Len(asker) => \E p \in printed[r] : p[2] = q
    BY <1>20 DEF Talk, InTurn
  <2>3. ASSUME NEW i \in Queue!Owed(r) PROVE log[i].of = Len(asker)
    <3>1. i \in About("cli.response", log[i].of) /\ log[i].of \in Questions
      BY <1>4 DEF About, Talk, AskedOnce
    <3>2. SUFFICES ASSUME log[i].of # Len(asker) PROVE FALSE
      OBVIOUS
    <3>3. PICK p \in printed[r] : p[2] = log[i].of
      BY <2>2, <3>1, <3>2
    <3>4. p[1] \in About("cli.response", log[i].of)
      BY <1>16, <2>2, <3>3 DEF About
    <3>5. p[1] = i
      BY <3>1, <3>4 DEF Talk, AnsweredOnce
    <3>6. p[1] <= cursor[r] /\ p[1] \in Nat /\ i > cursor[r]
      BY <1>4, <1>16
    <3> QED
      BY <1>3, <3>5, <3>6
  <2>4. \A p \in printed'[r] : log[p[1]].of = p[2]
    BY <1>10, <1>15, <2>1, <2>2, <2>3
  <2>5. <<last, Question(r)>> \in new
    BY <1>1 DEF new
  <2>6. ASSUME NEW q \in Questions PROVE \E p \in printed'[r] : p[2] = q
    <3>1. CASE q = Len(asker)
      BY <1>10, <2>1, <2>5, <3>1
    <3>2. CASE q # Len(asker)
      BY <1>10, <2>2, <3>2
    <3> QED
      BY <3>1, <3>2
  <2> QED
    BY <2>4, <2>6
<1>21. InTurn'
  <2> SUFFICES ASSUME NEW s \in Repls, Undistracted(s)
               PROVE  /\ \A p \in printed'[s] : log[p[1]].of = p[2]
                      /\ \A q \in Questions : \/ \E p \in printed'[s] : p[2] = q
                                              \/ repl'[s] = "listening" /\ q = Len(asker)
    BY <1>2, <1>12 DEF InTurn, Undistracted
  <2>1. CASE s = r
    BY <1>20, <2>1
  <2>2. CASE s # r
    BY <1>10, <2>2 DEF Talk, InTurn
  <2> QED
    BY <2>1, <2>2
<1> QED
  BY <1>7, <1>11, <1>13, <1>14, <1>19, <1>21 DEF Talk

LEMMA ReplStep ==
  ASSUME Talk, NEW r \in Repls, Repl(r)
  PROVE  Talk'
<1>1. LogTypes /\ ReplTypes /\ Len(log) \in Nat
  BY DEF Talk, LogTypes
<1>2. CASE ReplStarts(r) \/ ReplGivesUp(r) \/ ReplExits(r)
  <2>1. /\ UNCHANGED <<log, asker, printed, unanswered>>
        /\ cursor' = cursor \/ cursor' = [cursor EXCEPT ![r] = Len(log)]
        /\ repl' \in {[repl EXCEPT ![r] = "prompt"], [repl EXCEPT ![r] = "down"]}
        /\ strayed' = strayed \/ strayed' = strayed \cup {r}
        /\ repl[r] = "listening" => r \in strayed'
    BY <1>2 DEF ReplStarts, ReplGivesUp, ReplExits, Queue!Join, Queue!TimeOut, logVars
  <2>2. /\ cursor' \in [Repls \cup {Agent} -> Nat]
        /\ \A l \in Repls \cup {Agent} : cursor'[l] \in {cursor[l], Len(log)}
    BY <1>1, <2>1 DEF LogTypes
  <2>3. /\ repl' \in [Repls -> {"down", "prompt", "listening"}]
        /\ strayed \subseteq strayed' /\ strayed' \subseteq Repls
        /\ \A s \in Repls : /\ repl'[s] = "listening" => repl[s] = "listening"
                            /\ repl[s] = "listening" => repl'[s] = "listening" \/ s \in strayed'
    BY <1>1, <2>1 DEF ReplTypes
  <2> QED
    BY <2>1, <2>2, <2>3, MovesOn
<1> QED
  BY <1>2, ReplAsksStep, ReplReadsStep DEF Repl

LEMMA TalkStep == Talk /\ [ClientsNext]_talkVars => Talk'
<1> SUFFICES ASSUME Talk, [ClientsNext]_talkVars PROVE Talk'
  OBVIOUS
<1>1. LogTypes /\ ReplTypes /\ Len(log) \in Nat
  BY DEF Talk, LogTypes
<1>2. ASSUME UNCHANGED <<log, cursor, replVars, unanswered>> PROVE Talk'
  <2>1. /\ cursor' \in [Repls \cup {Agent} -> Nat]
        /\ \A l \in Repls \cup {Agent} : cursor'[l] \in {cursor[l], Len(log)}
    BY <1>1, <1>2 DEF LogTypes
  <2> QED
    BY <1>1, <1>2, <2>1, MovesOn DEF ReplTypes, replVars
<1>3. CASE AgentStartsOver \/ AgentTimesOut
  <2>1. /\ UNCHANGED <<log, replVars, unanswered>>
        /\ cursor' = [cursor EXCEPT ![Agent] = Len(log)]
    BY <1>3 DEF AgentStartsOver, AgentTimesOut, Queue!Join, Queue!TimeOut
  <2>2. /\ cursor' \in [Repls \cup {Agent} -> Nat]
        /\ \A l \in Repls \cup {Agent} : cursor'[l] \in {cursor[l], Len(log)}
    BY <1>1, <2>1 DEF LogTypes
  <2> QED
    BY <1>1, <2>1, <2>2, MovesOn DEF ReplTypes, replVars
<1>4. CASE AgentNext
  BY <1>3, <1>4, AgentReadsStep, AgentAnswersStep DEF AgentNext
<1>5. ASSUME NEW j \in Jobs, Cron(j) PROVE Talk'
  <2>1. j \in Nat
    BY DEF Jobs
  <2>2. CASE CronPushes(j)
    BY <2>1, <2>2, OthersPush DEF CronPushes
  <2>3. CASE CronAdd(j) \/ CronDue(j) \/ CronTicks(j) \/ CronEnds(j) \/ CronRemove(j)
    BY <1>2, <2>3 DEF CronAdd, CronDue, CronTicks, CronEnds, CronRemove, logVars
  <2> QED
    BY <1>5, <2>2, <2>3 DEF Cron
<1>6. ASSUME NEW t \in Tasks, Background(t) PROVE Talk'
  <2>1. t \in Nat
    BY DEF Tasks
  <2>2. CASE TaskPublishes(t)
    BY <2>1, <2>2, OthersPush DEF TaskPublishes
  <2>3. CASE Spawn(t) \/ TaskReturns(t)
    BY <1>2, <2>3 DEF Spawn, TaskReturns, logVars
  <2> QED
    BY <1>6, <2>2, <2>3 DEF Background
<1>7. CASE UNCHANGED talkVars
  BY <1>2, <1>7 DEF talkVars, logVars
<1> QED
  BY <1>4, <1>5, <1>6, <1>7, ReplStep DEF ClientsNext

LEMMA TalkInit == ClientsInit => Talk
<1> SUFFICES ASSUME ClientsInit PROVE Talk
  OBVIOUS
<1>1. log = <<>> /\ cursor = [l \in Repls \cup {Agent} |-> 0]
  BY DEF ClientsInit, Queue!Init
<1>2. LogTypes
  BY <1>1 DEF LogTypes
<1>3. Questions = {} /\ \A t, q : About(t, q) = {}
  BY <1>1 DEF ClientsInit, Questions, About
<1>4. ReplTypes
  BY DEF ClientsInit, ReplTypes
<1>5. AskedOnce /\ AnsweredOnce /\ Ahead
  BY <1>1, <1>3 DEF ClientsInit, AskedOnce, AnsweredOnce, Ahead
<1>6. PrintedOnce /\ InTurn
  BY <1>3 DEF ClientsInit, PrintedOnce, InTurn
<1> QED
  BY <1>2, <1>4, <1>5, <1>6 DEF Talk

(***************************************************************************)
(* No REPL prints an event twice, and one that has the agent for itself    *)
(* and has had every answer prints each answer under its question, though  *)
(* nothing in an event says which question it answers.                     *)
(* (repl_loop: the cursor, and the order of emit and listen)               *)
(***************************************************************************)
THEOREM AnswersAreInTurn == ClientsSpec => []AnswersFollowQuestions
<1>1. Talk => AnswersFollowQuestions
  BY DEF Talk, PrintedOnce, InTurn, Undistracted, Questions, AnswersFollowQuestions
<1> QED
  BY TalkInit, TalkStep, <1>1, PTL DEF ClientsSpec
-----------------------------------------------------------------------------
LEMMA FiredInit == ClientsInit => Fired
  BY DEF ClientsInit, Fired, CronTypes, Silent, Workers

\* A step of one job is none of another.
LEMMA OneJob ==
  ASSUME Fired, NEW j \in Jobs, CronTypes', Silent(j)',
         \A k \in Jobs \ {j} : /\ worker'[k] = worker[k] /\ due'[k] = due[k]
                               /\ late'[k] = late[k] /\ excused'[k] = excused[k]
                               /\ k \in jobs' <=> k \in jobs
  PROVE  Fired'
  BY DEF Fired, Silent

LEMMA FiredStep == Fired /\ [ClientsNext]_talkVars => Fired'
<1> SUFFICES ASSUME Fired, [ClientsNext]_talkVars PROVE Fired'
  OBVIOUS
<1>1. ASSUME UNCHANGED cronVars PROVE Fired'
  BY <1>1 DEF Fired, CronTypes, Silent, cronVars
<1>2. CASE \E r \in Repls : Repl(r)
  BY <1>1, <1>2 DEF Repl, ReplStarts, ReplAsks, ReplReads, ReplGivesUp, ReplExits
<1>3. CASE AgentNext
  BY <1>1, <1>3 DEF AgentNext, AgentStartsOver, AgentReads, AgentTimesOut, AgentAnswers
<1>4. ASSUME NEW j \in Jobs, Cron(j) PROVE Fired'
  <2>1. CronTypes /\ Silent(j)
    BY DEF Fired
  <2>2. worker[j] \in Workers /\ due[j] \in Nat /\ late[j] \in Nat /\ excused[j] \in Nat
    BY <2>1 DEF CronTypes
  <2>3. CASE CronAdd(j)
    <3>1. CronTypes' /\ Silent(j)'
      BY <2>1, <2>2, <2>3 DEF CronAdd, CronTypes, Silent, Workers
    <3> QED
      BY <2>1, <2>3, <3>1, OneJob DEF CronAdd, CronTypes
  <2>4. CASE CronDue(j)
    <3>1. CronTypes' /\ Silent(j)'
      BY <2>1, <2>2, <2>4 DEF CronDue, CronTypes, Silent
    <3> QED
      BY <2>1, <2>4, <3>1, OneJob DEF CronDue, CronTypes
  <2>5. CASE CronTicks(j)
    <3>1. CronTypes' /\ Silent(j)'
      BY <2>1, <2>2, <2>5 DEF CronTicks, CronTypes, Silent, Workers
    <3> QED
      BY <2>1, <2>5, <3>1, OneJob DEF CronTicks, CronTypes
  <2>6. CASE CronPushes(j)
    <3>1. /\ worker[j] \in {"firing", "aborted"}
          /\ late' = [late EXCEPT ![j] = IF j \in jobs THEN @ ELSE @ + 1]
          /\ \/ /\ due[j] > 0
                /\ due' = [due EXCEPT ![j] = @ - 1]
                /\ UNCHANGED worker
             \/ /\ worker' = [worker EXCEPT ![j] = IF @ = "firing" THEN "ticking" ELSE "ended"]
                /\ UNCHANGED due
          /\ UNCHANGED <<jobs, excused>>
      BY <2>6 DEF CronPushes
    <3>2. CronTypes'
      BY <2>1, <2>2, <3>1 DEF CronTypes, Workers
    <3>3. CASE worker[j] = "firing"
      <4>1. Silent(j)'
        BY <2>1, <2>2, <3>1, <3>3 DEF CronTypes, Silent
      <4> QED
        BY <2>1, <3>1, <3>2, <4>1, OneJob DEF CronTypes
    <3>4. CASE worker[j] = "aborted"
      <4>1. Silent(j)'
        BY <2>1, <2>2, <3>1, <3>4 DEF CronTypes, Silent
      <4> QED
        BY <2>1, <3>1, <3>2, <4>1, OneJob DEF CronTypes
    <3> QED
      BY <3>1, <3>3, <3>4
  <2>7. CASE CronEnds(j)
    <3>1. CronTypes' /\ Silent(j)'
      BY <2>1, <2>2, <2>7 DEF CronEnds, CronTypes, Silent, Workers
    <3> QED
      BY <2>1, <2>7, <3>1, OneJob DEF CronEnds, CronTypes
  <2>8. CASE CronRemove(j)
    <3>1. CronTypes' /\ Silent(j)'
      BY <2>1, <2>2, <2>8 DEF CronRemove, CronTypes, Silent, Workers
    <3> QED
      BY <2>1, <2>8, <3>1, OneJob DEF CronRemove, CronTypes
  <2> QED
    BY <1>4, <2>3, <2>4, <2>5, <2>6, <2>7, <2>8 DEF Cron
<1>5. CASE \E t \in Tasks : Background(t)
  BY <1>1, <1>5 DEF Background, Spawn, TaskReturns, TaskPublishes
<1>6. CASE UNCHANGED talkVars
  BY <1>1, <1>6 DEF talkVars
<1> QED
  BY <1>2, <1>3, <1>4, <1>5, <1>6 DEF ClientsNext

(***************************************************************************)
(* After cron_remove has answered, a job whose task waited never fires     *)
(* again, and one that was being polled at most as often as it had ticks   *)
(* to serve, for any number of jobs and of ticks that were missed.         *)
(* (handle_remove: jobs and handles change together, abort)                *)
(***************************************************************************)
THEOREM JobsFallSilent == ClientsSpec => []RemovedJobsFallSilent
<1>1. Fired => RemovedJobsFallSilent
  <2> SUFFICES ASSUME Fired, NEW j \in Jobs
               PROVE  /\ late[j] <= excused[j]
                      /\ j \notin jobs => worker[j] \in {"none", "aborted", "ended"}
    BY DEF RemovedJobsFallSilent
  <2>1. /\ worker[j] \in Workers /\ due[j] \in Nat /\ late[j] \in Nat /\ excused[j] \in Nat
        /\ Silent(j)
    BY DEF Fired, CronTypes
  <2> QED
    BY <2>1 DEF Silent, Workers
<1> QED
  BY FiredInit, FiredStep, <1>1, PTL DEF ClientsSpec
=============================================================================
