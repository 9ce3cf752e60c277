------------------------------ MODULE WebView ------------------------------
(***************************************************************************)
(* The frames that agents render and the pages that show them: the broker's*)
(* FrameStore and its UI sockets (clawshake-broker/src/webview.rs,         *)
(* src/http_server/mod.rs) and the tools in front of it                    *)
(* (src/invoke/webview.rs, src/invoke/window.rs).                          *)
(*                                                                         *)
(* The store and the list of sockets are two locks.  A tool changes the    *)
(* store first and tells the sockets next; a new socket is sent what is in *)
(* the store first and put on the list next; a page that closes a frame    *)
(* tells the store, and nobody else.                                       *)
(*                                                                         *)
(* A render message carries no content.  The page that handles it sets the *)
(* address of an iframe, which fetches what the store then holds and shows *)
(* its new document some time later; the document of before stays until    *)
(* then.  A snapshot is asked of the document that is there; it answers    *)
(* when it comes to it, or not within 5 s.  Left out: a fetch that fails.  *)
(*                                                                         *)
(* A client of a socket is a browser tab, whose page it is, or the window  *)
(* daemon of the module Window.  Left out: what changes nothing that lasts *)
(* in a page, as pushes of data into a frame and the popups by which a tab *)
(* plays a message for a window; what a frame's own script says, which the *)
(* socket's reader publishes as an event; and filters of pages (?frame,    *)
(* ?window).                                                               *)
(***************************************************************************)
EXTENDS Naturals, Sequences, FiniteSets, SequencesExt

CONSTANTS
  Frames,      \* frame ids
  Sockets,     \* clients of /ui/ws
  Viewers,     \* pages that show frames
  Tabs,        \* those that are a browser tab, with a socket of its own
  SocketOf,    \* SocketOf[v]: the socket through which viewer v is reached
  Callers,     \* agents that call the tools, one call at a time
  None,        \* no frame shown, no answer
  MaxRenders,  \* bound of the model: versions ever rendered
  Budgets      \* bounds of the model: pairs of a number of calls and a number
               \* of connections lost and frames closed by users

ASSUME WebViewAssumption ==
  /\ SocketOf \in [Viewers -> Sockets]
  /\ Tabs \subseteq Viewers
  /\ \A t, u \in Tabs : SocketOf[t] = SocketOf[u] => t = u
  /\ MaxRenders \in Nat
  /\ None \notin 0 .. MaxRenders
  /\ Budgets \subseteq Nat \X Nat

VARIABLES
  store,     \* FrameStore::frames: the version of each frame, 0 when it is not open
  conn,      \* conn[s]: whether s is in ws_senders, or on its way there
  wire,      \* wire[s]: messages on their way to the client
  uplink,    \* uplink[s]: messages on their way to the broker
  shown,     \* shown[v][f]: the version that v fetched last for its frame f
  doc,       \* doc[v][f]: the version whose document is in v's frame f
  loading,   \* loading[v]: frames whose address is set and whose load is under way
  asked,     \* asked[v]: answers that v's documents were asked for by postMessage
  call,      \* the call each agent has under way
  waiters,   \* snapshot_waiters and list_waiters: ids of requests
  answer,    \* what each agent was last answered
  renders,   \* number of versions rendered
  calls,     \* number of calls made, and id of the newest request
  faults,    \* number of connections lost and of frames closed by users
  budget,    \* the bounds of this behaviour
  behind     \* history: behind[v]: frames on which nothing is promised to v

(***************************************************************************)
(* In shown and doc, 0 stands for a document that answers no snapshot: an  *)
(* empty one, or "Frame not found" in the place of a frame that is closed. *)
(***************************************************************************)
pageVars == <<shown, doc, loading, asked>>
brokerVars == <<store, conn, wire, uplink, waiters, renders, calls, faults, budget>>
webVars == <<brokerVars, pageVars, call, answer, behind>>

Idle == [op |-> "idle"]

\* Calls under way that have changed f in the store and not yet told the sockets.
Changing(f) == {c \in Callers : call[c].op \in {"render", "close"} /\ call[c].frame = f}

(***************************************************************************)
(* The calls once f is changed beside them: a change under way is no       *)
(* longer alone, and a snapshot of a frame that is removed may be of none. *)
(***************************************************************************)
Beside(f, removed) ==
  [c \in Callers |->
     IF c \in Changing(f) THEN [call[c] EXCEPT !.alone = FALSE]
     ELSE IF removed /\ call[c].op = "snapshot" /\ call[c].frame = f
            THEN [call[c] EXCEPT !.least = 0]
     ELSE call[c]]

Up == {s \in Sockets : conn[s] = "up"}

\* What list_all queues for one connection.
Replay == SetToSeq({[type |-> "render", frame |-> f] : f \in {g \in Frames : store[g] # 0}})

\* FrameStore::broadcast: every sender on the list, under its lock.
ToAll(m) == [s \in Sockets |-> IF s \in Up THEN Append(wire[s], m) ELSE wire[s]]

WebInit ==
  /\ store = [f \in Frames |-> 0]
  /\ conn = [s \in Sockets |-> "down"]
  /\ wire = [s \in Sockets |-> <<>>]
  /\ uplink = [s \in Sockets |-> <<>>]
  /\ shown = [v \in Viewers |-> [f \in Frames |-> None]]
  /\ doc = [v \in Viewers |-> [f \in Frames |-> None]]
  /\ loading = [v \in Viewers |-> {}]
  /\ asked = [v \in Viewers |-> {}]
  /\ call = [c \in Callers |-> Idle]
  /\ waiters = {}
  /\ answer = [c \in Callers |-> None]
  /\ renders = 0
  /\ calls = 0
  /\ faults = 0
  /\ budget \in Budgets
  /\ behind = [v \in Viewers |-> {}]
-----------------------------------------------------------------------------
(* The tools *)

Start(c) ==
  /\ call[c] = Idle
  /\ calls < budget[1]
  /\ calls' = calls + 1
  /\ answer' = [answer EXCEPT ![c] = None]

\* handle_render: the frame is stored.
RenderInsert(c, f) ==
  /\ Start(c)
  /\ renders < MaxRenders
  /\ renders' = renders + 1
  /\ store' = [store EXCEPT ![f] = renders + 1]
  /\ call' = [Beside(f, FALSE) EXCEPT
       ![c] = [op |-> "render", frame |-> f, alone |-> Changing(f) = {}]]
  /\ UNCHANGED <<conn, wire, uplink, pageVars, waiters, faults, budget, behind>>

\* handle_close: the frame is removed, whether it was there or not.
CloseRemove(c, f) ==
  /\ Start(c)
  /\ store' = [store EXCEPT ![f] = 0]
  /\ call' = [Beside(f, TRUE) EXCEPT
       ![c] = [op |-> "close", frame |-> f, alone |-> Changing(f) = {}]]
  /\ UNCHANGED <<conn, wire, uplink, pageVars, waiters, renders, faults, budget, behind>>

(***************************************************************************)
(* The second half of both: every page is told.  A page that is connected  *)
(* and was told last by a call that nothing disturbed is in step again.    *)
(***************************************************************************)
Broadcast(c) ==
  /\ call[c].op \in {"render", "close"}
  /\ LET f == call[c].frame IN
       /\ wire' = ToAll([type |-> call[c].op, frame |-> f])
       /\ behind' = [v \in Viewers |->
            IF call[c].alone /\ SocketOf[v] \in Up THEN behind[v] \ {f} ELSE behind[v] \cup {f}]
  /\ call' = [call EXCEPT ![c] = Idle]
  /\ UNCHANGED <<store, conn, uplink, pageVars, waiters, answer, renders, calls, faults, budget>>

\* handle_snapshot: the frame is there, and a waiter is registered.
SnapshotRegister(c, f) ==
  /\ store[f] # 0
  /\ Start(c)
  /\ waiters' = waiters \cup {calls'}
  /\ call' = [call EXCEPT ![c] =
       [op |-> "snapshot", frame |-> f, id |-> calls', sent |-> FALSE,
        least |-> IF Changing(f) = {} THEN store[f] ELSE 0]]
  /\ UNCHANGED <<store, conn, wire, uplink, pageVars, renders, faults, budget, behind>>

\* The message of a request; a snapshot's notes which tabs are in step now.
Request(c) ==
  IF call[c].op = "list" THEN [type |-> "list", id |-> call[c].id]
  ELSE [type |-> "snapshot", id |-> call[c].id, frame |-> call[c].frame,
        sure |-> {t \in Tabs : call[c].frame \notin behind[t]}]

\* The request goes to every page: whoever answers first is believed.
SendRequest(c) ==
  /\ call[c].op \in {"snapshot", "list"}
  /\ ~call[c].sent
  /\ wire' = ToAll(Request(c))
  /\ call' = [call EXCEPT ![c].sent = TRUE]
  /\ UNCHANGED <<store, conn, uplink, pageVars, waiters, answer, renders, calls, faults, budget,
                 behind>>

\* The timeout of a request: its waiter stays in the map.
RequestTimesOut(c) ==
  /\ call[c].op \in {"snapshot", "list"}
  /\ call[c].sent
  /\ call' = [call EXCEPT ![c] = Idle]
  /\ answer' = [answer EXCEPT ![c] = None]
  /\ UNCHANGED <<brokerVars, pageVars, behind>>
-----------------------------------------------------------------------------
(* A socket: ui_websocket *)

\* Mutant: the frames are not replayed to a new socket.
BugOpening == <<>>

\* What a new socket is sent first.
Opening == Replay

\* Frames that v may go on showing although they are closed.
MayShow(v, f) ==
  \/ v \notin Tabs
  \/ shown[v][f] # None
  \/ [type |-> "render", frame |-> f] \in Range(wire[SocketOf[v]])

\* list_all, into the connection's own channel.
Connect(s) ==
  /\ conn[s] = "down"
  /\ conn' = [conn EXCEPT ![s] = "joining"]
  /\ wire' = [wire EXCEPT ![s] = Opening]
  /\ UNCHANGED <<store, uplink, pageVars, call, waiters, answer, renders, calls, faults, budget>>

\* A tab that connects again keeps what it shows, also what was closed meanwhile.
TabConnects(t) ==
  /\ Connect(SocketOf[t])
  /\ behind' = [behind EXCEPT ![t] = {f \in Frames : store[f] = 0 /\ MayShow(t, f)}]

\* add_ws_sender: from here on the socket is told of changes.
Join(s) ==
  /\ conn[s] = "joining"
  /\ conn' = [conn EXCEPT ![s] = "up"]
  /\ UNCHANGED <<store, wire, uplink, pageVars, call, waiters, answer, renders, calls, faults,
                 budget, behind>>

\* The connection is lost, with what was on its way.
Drop(s) ==
  /\ conn[s] = "up"
  /\ faults < budget[2]
  /\ faults' = faults + 1
  /\ conn' = [conn EXCEPT ![s] = "down"]
  /\ wire' = [wire EXCEPT ![s] = <<>>]
  /\ uplink' = [uplink EXCEPT ![s] = <<>>]
  /\ UNCHANGED <<store, pageVars, call, waiters, answer, renders, calls, budget, behind>>

\* A page's close: the frame leaves the store, and no page is told.
ReadClose(s, f) ==
  /\ conn[s] = "up"
  /\ uplink[s] # <<>>
  /\ Head(uplink[s]) = [type |-> "close", frame |-> f]
  /\ store' = [store EXCEPT ![f] = 0]
  /\ call' = Beside(f, TRUE)
  /\ uplink' = [uplink EXCEPT ![s] = Tail(@)]
  /\ behind' = [v \in Viewers |-> IF MayShow(v, f) THEN behind[v] \cup {f} ELSE behind[v]]
  /\ UNCHANGED <<conn, wire, pageVars, waiters, answer, renders, calls, faults, budget>>

\* Mutant: a request is taken for any waiter, not the one of its id.
BugWaiterOf(id) == {c \in Callers : call[c].op \in {"snapshot", "list"}}

\* The agent that holds the receiver of a request's oneshot channel.
WaiterOf(id) == {c \in Callers : call[c].op \in {"snapshot", "list"} /\ call[c].id = id}

\* resolve_snapshot and resolve_list_request: the first answer is handed over.
ReadAnswer(s) ==
  /\ conn[s] = "up"
  /\ uplink[s] # <<>>
  /\ Head(uplink[s]).type = "answer"
  /\ LET m == Head(uplink[s])
         to == {c \in WaiterOf(m.id) : m.id \in waiters}
     IN  /\ waiters' = waiters \ {m.id}
         /\ answer' = [c \in Callers |->
              IF c \in to THEN [call |-> call[c], from |-> m] ELSE answer[c]]
         /\ call' = [c \in Callers |-> IF c \in to THEN Idle ELSE call[c]]
  /\ uplink' = [uplink EXCEPT ![s] = Tail(@)]
  /\ UNCHANGED <<store, conn, wire, pageVars, renders, calls, faults, budget, behind>>

\* A replay_request: list_all again, to this connection only.
ReadReplay(s) ==
  /\ conn[s] = "up"
  /\ uplink[s] # <<>>
  /\ Head(uplink[s]).type = "replay"
  /\ wire' = [wire EXCEPT ![s] = @ \o Replay]
  /\ uplink' = [uplink EXCEPT ![s] = Tail(@)]
  /\ UNCHANGED <<store, conn, pageVars, call, waiters, answer, renders, calls, faults, budget>>
-----------------------------------------------------------------------------
(* A page *)

\* What v has fetched, at the earliest, once it has handled a message.
Shows(v, m) ==
  IF m.type = "render" THEN [shown[v] EXCEPT ![m.frame] = store[m.frame]]
  ELSE IF m.type = "close" THEN [shown[v] EXCEPT ![m.frame] = None]
  ELSE shown[v]

\* renderFrame leaves the document where it is, or creates an empty one; closeFrame removes it.
Documents(v, m) ==
  IF m.type = "render" /\ doc[v][m.frame] = None THEN [doc[v] EXCEPT ![m.frame] = 0]
  ELSE IF m.type = "close" THEN [doc[v] EXCEPT ![m.frame] = None]
  ELSE doc[v]

Loads(v, m) ==
  IF m.type = "render" THEN loading[v] \cup {m.frame}
  ELSE IF m.type = "close" THEN loading[v] \ {m.frame}
  ELSE loading[v]

\* v's user has closed f, which is on its way to the broker.
Closes(v, f) == [type |-> "close", frame |-> f] \in Range(uplink[SocketOf[v]])

(***************************************************************************)
(* handleSnapshot posts the request to the document that is in the frame.  *)
(* The answer notes whether the tab was in step when the request was sent  *)
(* and is neither loading nor closing the frame now.                       *)
(***************************************************************************)
Posts(v, m) ==
  IF m.type = "snapshot" /\ shown[v][m.frame] # None
    THEN asked[v] \cup {[type |-> "answer", id |-> m.id, got |-> doc[v][m.frame],
                         sure |-> /\ v \in m.sure
                                  /\ m.frame \notin loading[v]
                                  /\ ~Closes(v, m.frame)]}
    ELSE asked[v]

\* Mutant: a page that has no windows answers requests for them too.
BugReplies(v, m) ==
  IF m.type = "list" THEN <<[type |-> "answer", id |-> m.id, got |-> {}]>> ELSE <<>>

\* What v sends back at once: that it has no such frame.
Replies(v, m) ==
  IF m.type = "snapshot" /\ shown[v][m.frame] = None
    THEN <<[type |-> "answer", id |-> m.id, got |-> None, sure |-> v \in m.sure]>>
    ELSE <<>>

\* A page handles a message; what it sends on a lost connection is dropped.
Handle(v, m) ==
  /\ shown' = [shown EXCEPT ![v] = Shows(v, m)]
  /\ doc' = [doc EXCEPT ![v] = Documents(v, m)]
  /\ loading' = [loading EXCEPT ![v] = Loads(v, m)]
  /\ asked' = [asked EXCEPT ![v] = Posts(v, m)]
  /\ uplink' = [uplink EXCEPT ![SocketOf[v]] =
       IF conn[SocketOf[v]] # "down" THEN @ \o Replies(v, m) ELSE @]

\* The iframe's request reaches the broker, which serves what is stored now.
FrameFetches(v, f) ==
  /\ f \in loading[v]
  /\ shown' = [shown EXCEPT ![v][f] = store[f]]
  /\ UNCHANGED <<brokerVars, doc, loading, asked, call, answer, behind>>

\* The document that was fetched takes the place of the one before.
FrameLoads(v, f) ==
  /\ f \in loading[v]
  /\ loading' = [loading EXCEPT ![v] = @ \ {f}]
  /\ doc' = [doc EXCEPT ![v][f] = shown[v][f]]
  /\ UNCHANGED <<brokerVars, shown, asked, call, answer, behind>>

(***************************************************************************)
(* The document answers, or the page's timer of 5 s fires first, as it     *)
(* does when the document is gone: its error is 0 here.                    *)
(***************************************************************************)
FrameAnswers(v, a) ==
  /\ a \in asked[v]
  /\ asked' = [asked EXCEPT ![v] = @ \ {a}]
  /\ \E got \in {0, a.got} :
       uplink' = [uplink EXCEPT ![SocketOf[v]] =
         IF conn[SocketOf[v]] # "down" THEN Append(@, [a EXCEPT !.got = got]) ELSE @]
  /\ UNCHANGED <<store, conn, wire, shown, doc, loading, call, waiters, answer, renders, calls,
                 faults, budget, behind>>

\* The user closes a frame on its page.
UserCloses(v, f) ==
  /\ shown[v][f] # None
  /\ faults < budget[2]
  /\ faults' = faults + 1
  /\ shown' = [shown EXCEPT ![v][f] = None]
  /\ doc' = [doc EXCEPT ![v][f] = None]
  /\ loading' = [loading EXCEPT ![v] = @ \ {f}]
  /\ uplink' = [uplink EXCEPT ![SocketOf[v]] =
       IF conn[SocketOf[v]] # "down" THEN Append(@, [type |-> "close", frame |-> f]) ELSE @]
  /\ UNCHANGED <<store, conn, wire, asked, call, waiters, answer, renders, calls, budget, behind>>

\* A tab handles the next message; those for windows leave its frames alone.
TabHandles(t) ==
  /\ conn[SocketOf[t]] = "up"
  /\ wire[SocketOf[t]] # <<>>
  /\ Handle(t, Head(wire[SocketOf[t]]))
  /\ wire' = [wire EXCEPT ![SocketOf[t]] = Tail(@)]
  /\ UNCHANGED <<store, conn, call, waiters, answer, renders, calls, faults, budget, behind>>
=============================================================================
