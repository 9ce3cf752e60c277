----------------------------- MODULE McpClient ------------------------------
(***************************************************************************)
(* The client of an MCP server that runs as a child process                *)
(* (StdioClient of clawshake-core/src/mcp_client.rs): JSON-RPC requests    *)
(* are lines on the child's stdin, and a reader task routes the lines on   *)
(* its stdout to the waiting callers.                                      *)
(*                                                                         *)
(* Clones of the client share one process, so calls overlap.  Call i is    *)
(* the one that fresh_id gives the id i; call 1 is the handshake.  A line  *)
(* is written under the stdin lock and so is one step; a full pipe blocks  *)
(* the writer.  The server is any process: it answers in any order, sends  *)
(* requests of its own (MCP lets it ping), whose ids it counts by itself,  *)
(* stops reading, or exits.                                                *)
(***************************************************************************)
EXTENDS Naturals, Sequences

CONSTANTS
  MaxCalls,  \* bound of the model: number of calls
  MaxPings,  \* bound of the model: number of requests the server sends
  PipeSize   \* lines that fit in the stdin pipe

ASSUME McpClientAssumption ==
  /\ MaxCalls \in Nat \ {0}
  /\ MaxPings \in Nat
  /\ PipeSize \in Nat \ {0}

VARIABLES
  nextId,    \* StdioClient.next_id
  call,      \* call[i]: where the call with id i is in call_with_id
  pending,   \* StdioClient.pending: ids whose sender is in the map
  slot,      \* slot[i]: what the oneshot channel of call i holds
  handshake, \* where spawn is in initialize
  shutdown,  \* where the one call of shutdown is
  freed,     \* history: the calls under way when shutdown cleared the map
  stdin,     \* lines in the stdin pipe
  stdout,    \* messages in the stdout pipe
  todo,      \* requests that the server has read and not answered
  pings,     \* requests that the server has sent (bound)
  server,    \* who holds the other ends of the pipes: the shell or what it runs
  reader     \* the background reader

clientVars == <<nextId, call, pending, slot, handshake, shutdown, freed>>
serverVars == <<stdin, stdout, todo, pings, server, reader>>
vars == <<nextId, call, pending, slot, handshake, shutdown, freed,
          stdin, stdout, todo, pings, server, reader>>

Calls == 1 .. MaxCalls

\* The line of `notifications/initialized`.
Initialized == 0

Message == [kind : {"response", "request"}, id : Calls]

\* No message yet, and the sender dropped without one.
Open == [kind |-> "open", id |-> 0]
Dropped == [kind |-> "dropped", id |-> 0]

Ended == {"answered", "closed", "timed out", "failed"}

\* AtomicU64::new(1)
FirstId == 1

Init ==
  /\ nextId = FirstId
  /\ call = [i \in Calls |-> "none"]
  /\ pending = {}
  /\ slot = [i \in Calls |-> Open]
  /\ handshake = "calling"
  /\ shutdown = "none"
  /\ freed = {}
  /\ stdin = <<>>
  /\ stdout = <<>>
  /\ todo = {}
  /\ pings = 0
  /\ server = "running"
  /\ reader = "running"
-----------------------------------------------------------------------------
(* call, call_with_id and initialize *)

\* The handshake comes first; spawn hands out the client when it is over.
MayCall == IF nextId = 1 THEN handshake = "calling" ELSE handshake = "ready"

\* fresh_id
Begin ==
  /\ nextId <= MaxCalls
  /\ MayCall
  /\ nextId' = nextId + 1
  /\ call' = [call EXCEPT ![nextId] = "insert"]
  /\ UNCHANGED <<pending, slot, handshake, shutdown, freed, serverVars>>

\* The sender goes into the map before the request is written.
Insert(i) ==
  /\ call[i] = "insert"
  /\ call' = [call EXCEPT ![i] = "write"]
  /\ pending' = pending \cup {i}
  /\ UNCHANGED <<nextId, slot, handshake, shutdown, freed, serverVars>>

Write(i) ==
  /\ call[i] = "write"
  /\ server = "running"
  /\ Len(stdin) < PipeSize
  /\ call' = [call EXCEPT ![i] = "wait"]
  /\ stdin' = Append(stdin, i)
  /\ UNCHANGED <<nextId, pending, slot, handshake, shutdown, freed, stdout, todo,
                 pings, server, reader>>

\* The pipe is broken: `?` returns, and the sender stays in the map.
WriteFails(i) ==
  /\ call[i] = "write"
  /\ server = "exited"
  /\ call' = [call EXCEPT ![i] = "failed"]
  /\ UNCHANGED <<nextId, pending, slot, handshake, shutdown, freed, serverVars>>

\* The receiver yields the message, or the error of a dropped sender.
Receive(i) ==
  /\ call[i] = "wait"
  /\ slot[i] # Open
  /\ call' = [call EXCEPT ![i] = IF slot[i] = Dropped THEN "closed" ELSE "answered"]
  /\ UNCHANGED <<nextId, pending, slot, handshake, shutdown, freed, serverVars>>

\* Mutant: no timeout around the receiver.
BugNoTimeOut(i) == FALSE /\ UNCHANGED vars

\* 120 s without an answer: the sender stays in the map.
TimeOut(i) ==
  /\ call[i] = "wait"
  /\ slot[i] = Open
  /\ call' = [call EXCEPT ![i] = "timed out"]
  /\ UNCHANGED <<nextId, pending, slot, handshake, shutdown, freed, serverVars>>

\* An answer to `initialize`, whatever it says, is followed by a notification.
HandshakeAnswered ==
  /\ handshake = "calling"
  /\ call[1] = "answered"
  /\ handshake' = "notifying"
  /\ UNCHANGED <<nextId, call, pending, slot, shutdown, freed, serverVars>>

SendNotification ==
  /\ handshake = "notifying"
  /\ server = "running"
  /\ Len(stdin) < PipeSize
  /\ handshake' = "ready"
  /\ stdin' = Append(stdin, Initialized)
  /\ UNCHANGED <<nextId, call, pending, slot, shutdown, freed, stdout, todo,
                 pings, server, reader>>

\* spawn returns an error; the reader holds the client, so the child lives on.
HandshakeFails ==
  /\ \/ handshake = "calling" /\ call[1] \in Ended \ {"answered"}
     \/ handshake = "notifying" /\ server = "exited"
  /\ handshake' = "failed"
  /\ UNCHANGED <<nextId, call, pending, slot, shutdown, freed, serverVars>>
-----------------------------------------------------------------------------
(* The background reader *)

\* Mutant: an answer goes to the oldest caller in the map.
BugAddressee(msg) == {i \in pending : \A j \in pending : i <= j}

\* pending.remove(&id)
Addressee(msg) == {msg.id} \cap pending

Remaining(msg) == pending \ Addressee(msg)

\* Any line with a numeric id counts as the answer to that id.
Route ==
  /\ reader = "running"
  /\ stdout # <<>>
  /\ stdout' = Tail(stdout)
  /\ pending' = Remaining(Head(stdout))
  /\ slot' = [i \in Calls |->
                IF i \in Addressee(Head(stdout)) THEN Head(stdout) ELSE slot[i]]
  /\ UNCHANGED <<nextId, call, handshake, shutdown, freed, stdin, todo, pings, server,
                 reader>>

(***************************************************************************)
(* The loop ends on a read error, at any time (a line that is not UTF-8 is *)
(* one), or at the end of file, which waits for the last process that      *)
(* holds the pipe and may never come.  The senders stay in the map, and    *)
(* the server may run on.                                                  *)
(***************************************************************************)
ReaderStops ==
  /\ reader = "running"
  /\ reader' = "stopped"
  /\ UNCHANGED <<clientVars, stdin, stdout, todo, pings, server>>
-----------------------------------------------------------------------------
(***************************************************************************)
(* shutdown.  Its one caller is the task that McpServerMap's remove wants  *)
(* to spawn and, from the watcher's thread, cannot: see Registry.          *)
(***************************************************************************)

\* Mutant: the map is emptied and the senders are kept elsewhere.
BugDropSenders == slot

\* Clearing the map drops its senders.
DropSenders == [i \in Calls |-> IF i \in pending THEN Dropped ELSE slot[i]]

\* Calls that have asked and have no answer in their channel.
Waiting == {i \in Calls : call[i] \in {"write", "wait"} /\ slot[i] = Open}

ShutdownClear ==
  /\ handshake = "ready"
  /\ shutdown = "none"
  /\ shutdown' = "cleared"
  /\ pending' = {}
  /\ slot' = DropSenders
  /\ freed' = Waiting
  /\ UNCHANGED <<nextId, call, handshake, serverVars>>

(***************************************************************************)
(* The child has exited within 100 ms, or is killed, which may fail.  It   *)
(* is the shell of `sh -c` or `cmd /C`: the server that the shell started  *)
(* may run on, with both pipes open.  The reader holds the client, so its  *)
(* end of stdin is not closed either.                                      *)
(***************************************************************************)
StopChild ==
  /\ shutdown = "cleared"
  /\ shutdown' = "done"
  /\ server' \in {"exited", server}
  /\ UNCHANGED <<nextId, call, pending, slot, handshake, freed, stdin, stdout, todo,
                 pings, reader>>
-----------------------------------------------------------------------------
(* The server process *)

ServerReads ==
  /\ server = "running"
  /\ stdin # <<>>
  /\ stdin' = Tail(stdin)
  /\ todo' = todo \cup ({Head(stdin)} \ {Initialized})
  /\ UNCHANGED <<clientVars, stdout, pings, server, reader>>

ServerAnswers(i) ==
  /\ server = "running"
  /\ i \in todo
  /\ todo' = todo \ {i}
  /\ stdout' = Append(stdout, [kind |-> "response", id |-> i])
  /\ UNCHANGED <<clientVars, stdin, pings, server, reader>>

ServerPings ==
  /\ server = "running"
  /\ pings < MaxPings
  /\ pings' = pings + 1
  /\ stdout' = Append(stdout, [kind |-> "request", id |-> pings'])
  /\ UNCHANGED <<clientVars, stdin, todo, server, reader>>

ServerExits ==
  /\ server = "running"
  /\ server' = "exited"
  /\ UNCHANGED <<clientVars, stdin, stdout, todo, pings, reader>>
-----------------------------------------------------------------------------
CallStep(i) == Insert(i) \/ Write(i) \/ WriteFails(i) \/ Receive(i) \/ TimeOut(i)

Handshake == HandshakeAnswered \/ SendNotification \/ HandshakeFails

Reader == Route \/ ReaderStops

Server ==
  \/ ServerReads
  \/ \E i \in Calls : ServerAnswers(i)
  \/ ServerPings
  \/ ServerExits

Next ==
  \/ Begin
  \/ \E i \in Calls : CallStep(i)
  \/ Handshake
  \/ Reader
  \/ ShutdownClear
  \/ StopChild
  \/ Server

Spec == Init /\ [][Next]_vars

(***************************************************************************)
(* The runtime polls every task that can go on, and the timeouts of 120 s  *)
(* and 100 ms expire.  Nothing is assumed of the server, and nothing ends  *)
(* the reader.                                                             *)
(***************************************************************************)
Fairness ==
  /\ \A i \in Calls : WF_vars(CallStep(i))
  /\ WF_vars(Handshake)
  /\ WF_vars(Route)
  /\ WF_vars(StopChild)

FairSpec == Spec /\ Fairness
-----------------------------------------------------------------------------
(* Properties *)

\* Every variable keeps its type.
TypeOK ==
  /\ nextId \in 1 .. MaxCalls + 1
  /\ call \in [Calls -> {"none", "insert", "write", "wait"} \cup Ended]
  /\ pending \subseteq Calls
  /\ slot \in [Calls -> Message \cup {Open, Dropped}]
  /\ handshake \in {"calling", "notifying", "ready", "failed"}
  /\ shutdown \in {"none", "cleared", "done"}
  /\ freed \subseteq Calls
  /\ stdin \in Seq({Initialized} \cup Calls)
  /\ stdout \in Seq([kind : {"response", "request"}, id : Nat])
  /\ todo \subseteq Calls
  /\ pings \in 0 .. MaxPings
  /\ server \in {"running", "exited"}
  /\ reader \in {"running", "stopped"}

(***************************************************************************)
(* A caller that waits with nothing in its channel can still be reached:   *)
(* its sender is in the map, for an answer to find or a shutdown to drop.  *)
(* No answer overtakes the registration of its call, and no call's end     *)
(* takes the sender of another.                                            *)
(***************************************************************************)
WaitersAreReachable ==
  \A i \in Calls : call[i] \in {"write", "wait"} /\ slot[i] = Open => i \in pending

(***************************************************************************)
(* A sender in the map has not been used, and belongs to a call under way  *)
(* or to one that timed out or could not be written: those two endings     *)
(* leak their entry, the others do not.                                    *)
(***************************************************************************)
SendersAreUnused ==
  \A i \in pending :
    /\ slot[i] = Open
    /\ call[i] \in {"write", "wait", "timed out", "failed"}

(***************************************************************************)
(* However the server orders its answers and however late they are, what a *)
(* caller is handed carries its own id, and a response is to a request the *)
(* server has read.                                                        *)
(***************************************************************************)
AnswersAreOwn ==
  \A i \in Calls :
    slot[i] \notin {Open, Dropped} =>
      /\ slot[i].id = i
      /\ slot[i].kind = "response" => i \notin todo /\ \A n \in 1 .. Len(stdin) : stdin[n] # i

\* The server has stopped reading its stdin and a full pipe blocks the writers.
StdinStuck == server = "running" /\ Len(stdin) = PipeSize

(***************************************************************************)
(* Every call returns, whatever the server does and when it dies, unless   *)
(* it blocks on writing: no timeout covers the write.                      *)
(***************************************************************************)
CallsReturn ==
  \A i \in Calls : call[i] # "none" ~> (call[i] \in Ended \/ StdinStuck)

(***************************************************************************)
(* A shutdown lets go of every caller that waits, whichever of writing,    *)
(* answering and timing out it meets: none of them waits out its 120 s,    *)
(* or is answered later.  Only a writer that a full pipe holds up stays.   *)
(* That the server ends is not promised.                                   *)
(* (shutdown: "Let all waiting callers unblock immediately")               *)
(***************************************************************************)
ShutdownFreesWaiters ==
  freed # {} ~> (StdinStuck \/ \A i \in freed : call[i] \in {"closed", "failed"})
=============================================================================
