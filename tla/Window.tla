------------------------------- MODULE Window -------------------------------
(***************************************************************************)
(* The web view with its browser tabs and with the window daemon           *)
(* (clawshake-window/src/lib.rs, dist/index.html), whose native windows    *)
(* share one socket.                                                       *)
(*                                                                         *)
(* Rust reads the socket.  It opens and closes windows itself, and passes  *)
(* the other messages to the pages: by an event once some page has said    *)
(* that it listens, and through a buffer before.  A page registers its     *)
(* listener, asks the broker for a replay, says that it is ready and is    *)
(* handed the buffer, while events go on arriving.                         *)
(*                                                                         *)
(* Left out: sizes, titles, focus and notifications of windows, which are  *)
(* single messages without an answer, and the daemon's exit after 10 s     *)
(* without a broker, which here is a connection that is not made again.    *)
(***************************************************************************)
EXTENDS WebView

CONSTANTS
  Windows,  \* labels of native windows, and the pages in them
  Openers,  \* agents that call the tools for windows
  Daemon    \* the daemon's socket

ASSUME WindowAssumption ==
  /\ Viewers = Tabs \cup Windows
  /\ Openers \subseteq Callers
  /\ Daemon \in Sockets
  /\ Tabs \cap Windows = {}
  /\ \A v \in Viewers : SocketOf[v] = Daemon <=> v \in Windows

VARIABLES
  stage,    \* stage[w]: how far the page of window w has come
  asking,   \* windows whose send_to_broker(replay_request) is under way
  ready,    \* BridgeState::ready
  pending,  \* BridgeState::pending
  holding,  \* the message that emit_or_buffer has found no listener for
  emitted,  \* emitted[w]: events on their way to the page
  backlog,  \* backlog[w]: messages that client_ready returned to the page
  closing,  \* windows that were asked to close and still exist
  opened    \* history: windows each agent has opened and nothing has closed since

windowVars == <<stage, asking, ready, pending, holding, emitted, backlog, closing, opened>>
uiVars == <<webVars, windowVars>>

Stages == {"none", "loading", "listening", "set", "taken", "draining", "running"}

Open == {w \in Windows : stage[w] # "none"}

Listening == {w \in Windows : stage[w] \notin {"none", "loading"}}

FramesOf(msgs) == {m.frame : m \in {n \in Range(msgs) : n.type \in {"render", "close"}}}

WindowInit ==
  /\ WebInit
  /\ stage = [w \in Windows |-> "none"]
  /\ asking = {}
  /\ ready = FALSE
  /\ pending = <<>>
  /\ holding = <<>>
  /\ emitted = [w \in Windows |-> <<>>]
  /\ backlog = [w \in Windows |-> <<>>]
  /\ closing = {}
  /\ opened = [c \in Callers |-> {}]
-----------------------------------------------------------------------------
(* The tools for windows *)

\* handle_open: one message to every socket.
WindowOpen(c, w) ==
  /\ Start(c)
  /\ wire' = ToAll([type |-> "open", label |-> w])
  /\ opened' = [opened EXCEPT ![c] = IF Daemon \in Up THEN @ \cup {w} ELSE @]
  /\ UNCHANGED <<store, conn, uplink, pageVars, call, waiters, renders, faults, budget,
                 behind, stage, asking, ready, pending, holding, emitted, backlog, closing>>

\* handle_close
WindowClose(c, w) ==
  /\ Start(c)
  /\ wire' = ToAll([type |-> "shut", label |-> w])
  /\ opened' = [d \in Callers |-> opened[d] \ {w}]
  /\ UNCHANGED <<store, conn, uplink, pageVars, call, waiters, renders, faults, budget,
                 behind, stage, asking, ready, pending, holding, emitted, backlog, closing>>

\* handle_list: a waiter, if anybody is connected.
ListRegister(c) ==
  /\ Start(c)
  /\ Up # {}
  /\ waiters' = waiters \cup {calls'}
  /\ call' = [call EXCEPT ![c] = [op |-> "list", id |-> calls', sent |-> FALSE]]
  /\ UNCHANGED <<store, conn, wire, uplink, pageVars, renders, faults, budget, behind,
                 windowVars>>
-----------------------------------------------------------------------------
(* The daemon reads its socket *)

Incoming(m) ==
  /\ conn[Daemon] = "up"
  /\ wire[Daemon] # <<>>
  /\ holding = <<>>
  /\ m = Head(wire[Daemon])
  /\ wire' = [wire EXCEPT ![Daemon] = Tail(@)]

\* A window's page is gone with its queues.
Blank(w) ==
  /\ shown' = [shown EXCEPT ![w] = [f \in Frames |-> None]]
  /\ doc' = [doc EXCEPT ![w] = [f \in Frames |-> None]]
  /\ loading' = [loading EXCEPT ![w] = {}]
  /\ asked' = [asked EXCEPT ![w] = {}]
  /\ behind' = [behind EXCEPT ![w] = Frames]
  /\ emitted' = [emitted EXCEPT ![w] = <<>>]
  /\ backlog' = [backlog EXCEPT ![w] = <<>>]
  /\ asking' = asking \ {w}

(***************************************************************************)
(* handle_window_open.  A label that exists is left alone, also when its   *)
(* window is about to go; a window that cannot be built is only logged.    *)
(***************************************************************************)
DaemonOpens(w) ==
  /\ Incoming([type |-> "open", label |-> w])
  /\ \/ w \notin Open /\ stage' = [stage EXCEPT ![w] = "loading"] /\ Blank(w) /\ UNCHANGED opened
     \/ /\ opened' = IF w \in Open \ closing THEN opened ELSE [c \in Callers |-> opened[c] \ {w}]
        /\ UNCHANGED <<stage, pageVars, behind, emitted, backlog, asking>>
  /\ UNCHANGED <<store, conn, uplink, call, waiters, answer, renders, calls, faults, budget,
                 ready, pending, holding, closing>>

\* handle_window_close: the window is asked to close.
DaemonCloses(w) ==
  /\ Incoming([type |-> "shut", label |-> w])
  /\ closing' = closing \cup ({w} \cap Open)
  /\ UNCHANGED <<store, conn, uplink, pageVars, call, waiters, answer, renders, calls, faults,
                 budget, behind, stage, asking, ready, pending, holding, emitted, backlog, opened>>

\* The event loop destroys a window that was asked to close.
WindowGoes(w) ==
  /\ w \in closing
  /\ closing' = closing \ {w}
  /\ stage' = [stage EXCEPT ![w] = "none"]
  /\ Blank(w)
  /\ UNCHANGED <<brokerVars, call, answer, ready, pending, holding, opened>>

\* handle_window_list: the windows that are open now.
DaemonLists ==
  /\ \E id \in 1 .. calls :
       /\ Incoming([type |-> "list", id |-> id])
       /\ uplink' = [uplink EXCEPT ![Daemon] =
            Append(@, [type |-> "answer", id |-> id, got |-> Open])]
  /\ UNCHANGED <<store, conn, pageVars, call, waiters, answer, renders, calls, faults, budget,
                 behind, windowVars>>

\* Frames that the daemon is sent again are as good as told to every window.
Resent ==
  [v \in Viewers |-> IF v \in Windows THEN {f \in Frames : store[f] = 0} ELSE behind[v]]

DaemonConnects == Connect(Daemon) /\ behind' = Resent /\ UNCHANGED windowVars

\* The broker replays at a page's request: to all windows, since they share the socket.
Replays == ReadReplay(Daemon) /\ behind' = Resent /\ UNCHANGED windowVars

\* The connection is lost; send_to_broker and the windows' history notice.
Drops(s) ==
  /\ Drop(s)
  /\ opened' = [c \in Callers |-> IF s = Daemon THEN {} ELSE opened[c]]
  /\ UNCHANGED <<stage, asking, ready, pending, holding, emitted, backlog, closing>>

IsForPages(m) == m.type \in {"render", "close", "snapshot"}

\* emit_or_buffer with a listener: an event, which every page that listens is given.
DaemonEmits ==
  /\ ready
  /\ wire[Daemon] # <<>>
  /\ IsForPages(Head(wire[Daemon]))
  /\ LET m == Head(wire[Daemon]) IN
       /\ Incoming(m)
       /\ emitted' = [w \in Windows |->
            IF w \in Listening THEN Append(emitted[w], m) ELSE emitted[w]]
       /\ behind' = [v \in Viewers |->
            IF v \in Windows \ Listening THEN behind[v] \cup FramesOf(<<m>>) ELSE behind[v]]
  /\ UNCHANGED <<store, conn, uplink, pageVars, call, waiters, answer, renders, calls, faults,
                 budget, stage, asking, ready, pending, holding, backlog, closing, opened>>

\* emit_or_buffer without one: the flag has been read, the lock is not yet taken.
DaemonHolds ==
  /\ ~ready
  /\ wire[Daemon] # <<>>
  /\ IsForPages(Head(wire[Daemon]))
  /\ Incoming(Head(wire[Daemon]))
  /\ holding' = <<Head(wire[Daemon])>>
  /\ UNCHANGED <<store, conn, uplink, pageVars, call, waiters, answer, renders, calls, faults,
                 budget, behind, stage, asking, ready, pending, emitted, backlog, closing, opened>>

(***************************************************************************)
(* The message enters the buffer.  If a page has taken the buffer in the   *)
(* meantime, no page but a later one will see it.                          *)
(***************************************************************************)
DaemonBuffers ==
  /\ holding # <<>>
  /\ pending' = pending \o holding
  /\ holding' = <<>>
  /\ behind' = [v \in Viewers |->
       IF ready /\ v \in Windows THEN behind[v] \cup FramesOf(holding) ELSE behind[v]]
  /\ UNCHANGED <<brokerVars, pageVars, call, answer, stage, asking, ready, emitted, backlog,
                 closing, opened>>
-----------------------------------------------------------------------------
(* The page of a window: init() of index.html *)

\* listen('broker-msg'), and the replay request that nobody awaits.
PageListens(w) ==
  /\ stage[w] = "loading"
  /\ stage' = [stage EXCEPT ![w] = "listening"]
  /\ asking' = asking \cup {w}
  /\ UNCHANGED <<webVars, ready, pending, holding, emitted, backlog, closing, opened>>

\* send_to_broker: an error when there is no connection, which the page ignores.
PageAsksReplay(w) ==
  /\ w \in asking
  /\ asking' = asking \ {w}
  /\ uplink' = [uplink EXCEPT ![Daemon] =
       IF conn[Daemon] = "up" THEN Append(@, [type |-> "replay"]) ELSE @]
  /\ UNCHANGED <<store, conn, wire, pageVars, call, waiters, answer, renders, calls, faults, budget,
                 behind, stage, ready, pending, holding, emitted, backlog, closing, opened>>

\* client_ready: the flag first ...
ClientReady(w) ==
  /\ stage[w] = "listening"
  /\ stage' = [stage EXCEPT ![w] = "set"]
  /\ ready' = TRUE
  /\ UNCHANGED <<webVars, asking, pending, holding, emitted, backlog, closing, opened>>

(***************************************************************************)
(* ... and then the buffer, which goes to this page alone: pages that were *)
(* opened together with it are not given these messages.                   *)
(***************************************************************************)
TakePending(w) ==
  /\ stage[w] = "set"
  /\ stage' = [stage EXCEPT ![w] = "taken"]
  /\ backlog' = [backlog EXCEPT ![w] = pending]
  /\ pending' = <<>>
  /\ behind' = [v \in Viewers |->
       IF v \in Windows \ {w} THEN behind[v] \cup FramesOf(pending) ELSE behind[v]]
  /\ UNCHANGED <<brokerVars, pageVars, call, answer, asking, ready, holding, emitted, closing,
                 opened>>

\* The page handles the buffered messages, one after another, before any event.
HandleBacklog(w) ==
  /\ stage[w] \in {"taken", "draining"}
  /\ IF backlog[w] = <<>>
       THEN /\ stage' = [stage EXCEPT ![w] = "running"]
            /\ UNCHANGED <<pageVars, uplink, backlog>>
       ELSE /\ stage' = [stage EXCEPT ![w] = "draining"]
            /\ Handle(w, Head(backlog[w]))
            /\ backlog' = [backlog EXCEPT ![w] = Tail(@)]
  /\ UNCHANGED <<store, conn, wire, call, waiters, answer, renders, calls, faults, budget, behind,
                 asking, ready, pending, holding, emitted, closing, opened>>

(***************************************************************************)
(* An event.  One that is handled while older messages about its frame are *)
(* still in the buffer is undone by them.                                  *)
(***************************************************************************)
HandleEvent(w) ==
  /\ stage[w] \in {"listening", "set", "taken", "running"}
  /\ emitted[w] # <<>>
  /\ Handle(w, Head(emitted[w]))
  /\ emitted' = [emitted EXCEPT ![w] = Tail(@)]
  /\ behind' = [behind EXCEPT ![w] =
       IF stage[w] # "running"
         THEN @ \cup (FramesOf(<<Head(emitted[w])>>) \cap FramesOf(pending \o backlog[w])) ELSE @]
  /\ UNCHANGED <<store, conn, wire, call, waiters, answer, renders, calls, faults, budget,
                 stage, asking, ready, pending, holding, backlog, closing, opened>>

\* The user closes a native window.
UserClosesWindow(w) ==
  /\ w \in Open
  /\ faults < budget[2]
  /\ faults' = faults + 1
  /\ stage' = [stage EXCEPT ![w] = "none"]
  /\ Blank(w)
  /\ closing' = closing \ {w}
  /\ opened' = [c \in Callers |-> opened[c] \ {w}]
  /\ UNCHANGED <<store, conn, wire, uplink, call, waiters, answer, renders, calls, budget,
                 ready, pending, holding>>
-----------------------------------------------------------------------------
Agent(c) ==
  \/ \E f \in Frames : RenderInsert(c, f) \/ CloseRemove(c, f) \/ SnapshotRegister(c, f)
  \/ Broadcast(c)
  \/ SendRequest(c)
  \/ RequestTimesOut(c)

WindowAgent(c) == ListRegister(c) \/ \E w \in Windows : WindowOpen(c, w) \/ WindowClose(c, w)

Socket(s) ==
  \/ Join(s)
  \/ \E f \in Frames : ReadClose(s, f)
  \/ ReadAnswer(s)

Bridge ==
  \/ \E w \in Windows : DaemonOpens(w) \/ DaemonCloses(w) \/ WindowGoes(w)
  \/ DaemonLists
  \/ DaemonEmits
  \/ DaemonHolds
  \/ DaemonBuffers

Page(w) ==
  \/ PageListens(w)
  \/ PageAsksReplay(w)
  \/ ClientReady(w)
  \/ TakePending(w)
  \/ HandleBacklog(w)
  \/ HandleEvent(w)

User ==
  \/ \E v \in Viewers, f \in Frames : UserCloses(v, f) /\ UNCHANGED windowVars
  \/ \E w \in Windows : UserClosesWindow(w)

\* What goes on in v's iframes by itself.
Iframes(v) ==
  \/ \E f \in Frames : FrameFetches(v, f) \/ FrameLoads(v, f)
  \/ \E a \in asked[v] : FrameAnswers(v, a)

WindowNext ==
  \/ \E c \in Callers : Agent(c) /\ UNCHANGED windowVars
  \/ \E c \in Openers : WindowAgent(c)
  \/ \E s \in Sockets : Socket(s) /\ UNCHANGED windowVars
  \/ \E t \in Tabs : (TabConnects(t) \/ TabHandles(t)) /\ UNCHANGED windowVars
  \/ \E v \in Viewers : Iframes(v) /\ UNCHANGED windowVars
  \/ DaemonConnects
  \/ Replays
  \/ \E s \in Sockets : Drops(s)
  \/ Bridge
  \/ \E w \in Windows : Page(w)
  \/ User

WindowSpec == WindowInit /\ [][WindowNext]_uiVars
-----------------------------------------------------------------------------
(* Properties *)

\* Nothing about f is on its way to v, and its document is not either.
Told(v, f) ==
  /\ SocketOf[v] \in Up
  /\ wire[SocketOf[v]] = <<>>
  /\ ~Closes(v, f)
  /\ Changing(f) = {}
  /\ f \notin loading[v]
  /\ v \in Windows => holding = <<>> /\ stage[v] = "running" /\ emitted[v] = <<>>

(***************************************************************************)
(* A page that has been told everything and has loaded it shows the frames *)
(* that are open, in the version that is stored, and no other: whatever    *)
(* connects, closes and renders in between, and through the daemon's       *)
(* buffer as well.  `behind` holds the exceptions, which the code does not *)
(* repair: a change that falls between the replay to a socket and its      *)
(* registration or overtakes another, a frame closed by the user of        *)
(* another page or while the page was disconnected, and messages that a    *)
(* window's page misses or handles in the wrong order while it starts.     *)
(***************************************************************************)
PagesShowTheStore ==
  \A v \in Viewers, f \in Frames :
    Told(v, f) /\ f \notin behind[v]
      => doc[v][f] = IF store[f] = 0 THEN None ELSE store[f]

(***************************************************************************)
(* A snapshot answered by a tab that was in step when the request was sent *)
(* and neither loading the frame nor closing it when it came is not stale: *)
(* it is of the version that was stored when the tool was called, or of a  *)
(* later one, unless the frame has been removed or was being changed.  It  *)
(* may be the error of a document that does not answer in time, but not    *)
(* that the frame is not found, and it is not another request's answer.    *)
(***************************************************************************)
SnapshotsAreCurrent ==
  \A c \in Callers :
    answer[c] # None /\ answer[c].call.op = "snapshot" =>
      /\ answer[c].from.id = answer[c].call.id
      /\ answer[c].from.sure /\ answer[c].call.least # 0
           => /\ answer[c].from.got # None
              /\ answer[c].from.got = 0 \/ answer[c].from.got >= answer[c].call.least

(***************************************************************************)
(* window_list tells an agent of every window that it has opened, unless   *)
(* somebody has closed it or the daemon's connection was lost since, or    *)
(* the daemon could not build it or found its label still taken by a       *)
(* window that was about to go: the request cannot overtake the opening,   *)
(* and no page but the daemon answers.                                     *)
(***************************************************************************)
OpenedIsListed ==
  [][\A c \in Callers :
       call[c].op = "list" /\ answer'[c] # answer[c] /\ answer'[c] # None
         => opened[c] \subseteq answer'[c].from.got]_uiVars
=============================================================================
