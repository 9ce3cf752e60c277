------------------------------ MODULE Registry ------------------------------
(***************************************************************************)
(* The broker's tool registry and the manifest watcher that keeps it in    *)
(* step with a directory of manifest files                                 *)
(* (clawshake-broker/src/watcher.rs).                                      *)
(*                                                                         *)
(* Three kinds of actors share the registry, the map of running MCP        *)
(* servers and the snapshot file: the thread that called `start` and the   *)
(* watcher thread it spawns (one after the other, here the Watcher), and   *)
(* one task per connection to an MCP server.  Each lock is held for one    *)
(* operation only, so every operation on the shared state is a step.       *)
(*                                                                         *)
(* Manifest files change at any time (the operator edits them).  A file    *)
(* that changes after the initial load read it but before the directory is *)
(* watched raises no event.                                                *)
(*                                                                         *)
(* McpServerMap::remove calls tokio::spawn while it holds the map's lock.  *)
(* Its only caller is the watcher's thread, which has entered no runtime,  *)
(* and there tokio::spawn panics.  So the first time that it takes a       *)
(* handle out of the map it ends the thread and poisons the lock: every    *)
(* later use of the map panics too, no file event is handled any more, and *)
(* the handle is dropped without a shutdown.                               *)
(***************************************************************************)
EXTENDS Naturals, Sequences, FiniteSets

CONSTANTS
  Sources,     \* manifest file stems
  Tools,       \* tool names
  Builtins,    \* tools registered by register_builtin before `start`
  BuiltinTag,  \* the source that builtins carry
  NoSource,    \* no source: the tool is not in the registry
  Contents,    \* Contents[s]: what the operator may write to the file of s
  MaxChanges,  \* bound of the model: number of file changes, the files that
               \* are there at the start included
  MaxTasks     \* bound of the model: number of connection attempts, at most
               \* one for each change

(***************************************************************************)
(* A file's content: whether it is there at all, whether it parses as a    *)
(* manifest, its static tools, whether it names an MCP server and, if so,  *)
(* the tools that the server lists.                                        *)
(***************************************************************************)
Content == [there : BOOLEAN, parses : BOOLEAN, static : SUBSET Tools,
            mcp : BOOLEAN, serves : SUBSET Tools]

Absent == [there |-> FALSE, parses |-> FALSE, static |-> {},
           mcp |-> FALSE, serves |-> {}]

ASSUME RegistryAssumption ==
  /\ Builtins \subseteq Tools
  /\ BuiltinTag \notin Sources
  /\ NoSource \notin Sources \cup {BuiltinTag}
  /\ \A s \in Sources : Contents[s] \subseteq Content
  /\ MaxChanges \in Nat
  /\ MaxTasks \in Nat
  /\ MaxChanges <= MaxTasks

VARIABLES
  file,      \* file[s]: content on disk
  changes,   \* number of files written or removed so far (bound)
  fsEvents,  \* the notify channel: file events not yet handled
  registry,  \* registry[t]: [src, mcp], the source and the kind of the entry
  servers,   \* servers[s]: the connection in McpServerMap, 0 when none
  child,     \* child[k]: the server process of connection k, an orphan once
             \* the last handle on it has been dropped
  tasks,     \* tasks[k]: the task of connection k
  watcher,   \* the thread that loads and watches
  copy,      \* copy[a]: registry.all() as read by a snapshot writer
  snapshot,  \* registry.json: for each tool the source it lists, or NoSource
  dirty,     \* tools have been added that no signal has announced
  raced      \* history: sources changed behind the loader's back

vars == <<file, changes, fsEvents, registry, servers, child, tasks, watcher,
          copy, snapshot, dirty, raced>>

TaskIds == 1 .. MaxTasks

NoEntry == [src |-> NoSource, mcp |-> FALSE]

\* Only a manifest's tools can be those of an MCP server.
Entry == [src : Sources, mcp : BOOLEAN]
         \cup {[src |-> BuiltinTag, mcp |-> FALSE], NoEntry}

TaskPC == {"unused", "connect", "list", "load", "insert", "read", "write",
           "signal", "done", "failed", "panicked"}

\* The watcher's program counter; "todo" is the initial directory scan.
WatcherPC == {"todo", "idle", "unload", "evict", "load", "read", "write",
              "spawn", "finish", "dead"}

\* What a snapshot of the registry lists.
Listing == [t \in Tools |-> registry[t].src]

-----------------------------------------------------------------------------
Init ==
  /\ file \in [Sources -> UNION {Contents[s] : s \in Sources}]
  /\ \A s \in Sources : file[s] \in Contents[s]
  /\ changes = Cardinality({s \in Sources : file[s].there})
  /\ changes \in 0 .. MaxChanges
  /\ fsEvents = <<>>
  /\ registry = [t \in Tools |-> IF t \in Builtins
                                 THEN [src |-> BuiltinTag, mcp |-> FALSE]
                                 ELSE NoEntry]
  /\ servers = [s \in Sources |-> 0]
  /\ child = [k \in TaskIds |-> "none"]
  /\ tasks = [k \in TaskIds |-> [pc |-> "unused", src |-> NoSource, serves |-> {}]]
  /\ watcher = [pc |-> "todo", src |-> NoSource, content |-> Absent, changed |-> FALSE,
                todo |-> {s \in Sources : file[s].there}, watching |-> FALSE]
  /\ copy = [a \in {0} \cup TaskIds |-> [t \in Tools |-> NoSource]]
  /\ snapshot = [t \in Tools |-> NoSource]
  /\ dirty = FALSE
  /\ raced = {}
-----------------------------------------------------------------------------
(* ManifestRegistry and McpServerMap *)

\* load_manifest and load_mcp_tools insert by name and overwrite.
Loaded(s, names, isMcp) ==
  [t \in Tools |-> IF t \in names THEN [src |-> s, mcp |-> isMcp] ELSE registry[t]]

\* Mutant: the old version is not unloaded, so renamed tools linger.
BugUnloaded(s) == registry

\* unload_source keeps the entries of every other source.
Unloaded(s) == [t \in Tools |-> IF registry[t].src = s THEN NoEntry ELSE registry[t]]

\* Mutant: the handle stays in the map.
BugEvicted(s) == servers

\* Mutant: remove empties the map.
BugRemoved(s) == {servers[r] : r \in Sources} \ {0}

\* The handles that McpServerMap::remove takes out of the map.
Removed(s) == {servers[s]} \ {0}

Evicted(s) == [r \in Sources |-> IF servers[r] \in Removed(s) THEN 0 ELSE servers[r]]

\* Nothing stops a process whose handle is dropped: McpClient has no Drop,
\* and its reader keeps the pipes.
Orphaned(dropped) == [k \in TaskIds |-> IF k \in dropped THEN "orphan" ELSE child[k]]
-----------------------------------------------------------------------------
(* The operator *)

\* The initial load has still to read the file of s.
YetToLoad(s) == s \in watcher.todo \/ (watcher.pc = "load" /\ watcher.src = s)

\* A manifest is created, rewritten or deleted.
ChangeFile(s, c) ==
  /\ changes < MaxChanges
  /\ c \in Contents[s]
  /\ c.there \/ file[s].there
  /\ changes' = changes + 1
  /\ file' = [file EXCEPT ![s] = c]
  /\ IF watcher.watching
     THEN /\ fsEvents' = Append(fsEvents, [src |-> s, removed |-> ~c.there])
          /\ UNCHANGED raced
     ELSE /\ raced' = IF YetToLoad(s) THEN raced ELSE raced \cup {s}
          /\ UNCHANGED fsEvents
  /\ UNCHANGED <<registry, servers, child, tasks, watcher, copy, snapshot, dirty>>
-----------------------------------------------------------------------------
(* start, handle_event and load_file, on the watcher's thread *)

WatcherUnchanged == <<file, changes, registry, servers, child, tasks, copy,
                      snapshot, dirty, raced>>

\* The initial load takes the files of the directory in any order.
InitialLoad(s) ==
  /\ watcher.pc = "todo"
  /\ s \in watcher.todo
  /\ watcher' = [watcher EXCEPT !.pc = "load", !.src = s, !.changed = FALSE,
                                !.todo = @ \ {s}]
  /\ UNCHANGED <<WatcherUnchanged, fsEvents>>

\* After the scan the snapshot is always written.
InitialScanDone ==
  /\ watcher.pc = "todo"
  /\ watcher.todo = {}
  /\ watcher' = [watcher EXCEPT !.pc = "read", !.src = NoSource]
  /\ UNCHANGED <<WatcherUnchanged, fsEvents>>

\* handle_event, for a file that was created, modified or removed.
TakeEvent ==
  /\ watcher.pc = "idle"
  /\ fsEvents # <<>>
  /\ watcher' = [watcher EXCEPT !.pc = "unload", !.src = Head(fsEvents).src,
                                !.changed = Head(fsEvents).removed]
  /\ fsEvents' = Tail(fsEvents)
  /\ UNCHANGED WatcherUnchanged

\* Tasks that are still connecting to the server of s.
Connecting(s) ==
  {k \in TaskIds : tasks[k].src = s /\ tasks[k].pc \in {"connect", "list", "load", "insert"}}

\* registry.unload_source
WatcherUnload ==
  /\ watcher.pc = "unload"
  /\ registry' = Unloaded(watcher.src)
  /\ raced' = IF Connecting(watcher.src) = {} THEN raced ELSE raced \cup {watcher.src}
  /\ watcher' = [watcher EXCEPT !.pc = "evict"]
  /\ UNCHANGED <<file, changes, fsEvents, servers, child, tasks, copy, snapshot, dirty>>

\* servers.remove finds nothing; a removal goes on to the snapshot, a change
\* to load_file.
WatcherEvict ==
  /\ watcher.pc = "evict"
  /\ Removed(watcher.src) = {}
  /\ watcher' = [watcher EXCEPT !.pc = IF watcher.changed THEN "read" ELSE "load",
                                !.content = Absent]
  /\ UNCHANGED <<file, changes, fsEvents, registry, servers, child, tasks, copy,
                 snapshot, dirty, raced>>

\* servers.remove takes a handle out, and the thread panics.  The events that
\* are queued, and all later ones, are lost with it.
WatcherDies ==
  /\ watcher.pc = "evict"
  /\ Removed(watcher.src) # {}
  /\ servers' = Evicted(watcher.src)
  /\ child' = Orphaned(Removed(watcher.src))
  /\ watcher' = [watcher EXCEPT !.pc = "dead", !.watching = FALSE]
  /\ raced' = raced \cup {fsEvents[i].src : i \in DOMAIN fsEvents}
  /\ fsEvents' = <<>>
  /\ UNCHANGED <<file, changes, registry, tasks, copy, snapshot, dirty>>

\* load_file: read, parse and load the static tools of the file as it is now.
WatcherLoad ==
  /\ watcher.pc = "load"
  /\ LET c == file[watcher.src]
     IN  IF c.there /\ c.parses
         THEN /\ registry' = Loaded(watcher.src, c.static, FALSE)
              /\ watcher' = [watcher EXCEPT !.pc = IF c.static = {} THEN "spawn" ELSE "read",
                                            !.content = c, !.changed = c.static # {}]
              /\ dirty' = (dirty \/ (c.static # {} /\ watcher.watching))
         ELSE /\ watcher' = [watcher EXCEPT !.pc = "finish", !.content = Absent]
              /\ UNCHANGED <<registry, dirty>>
  /\ UNCHANGED <<file, changes, fsEvents, servers, child, tasks, copy, snapshot, raced>>

\* write_registry_snapshot: first all() under the registry's lock ...
WatcherReadRegistry ==
  /\ watcher.pc = "read"
  /\ copy' = [copy EXCEPT ![0] = Listing]
  /\ watcher' = [watcher EXCEPT !.pc = "write"]
  /\ UNCHANGED <<file, changes, fsEvents, registry, servers, child, tasks, snapshot,
                 dirty, raced>>

\* ... then the file, written aside and renamed into place.
WatcherWriteSnapshot ==
  /\ watcher.pc = "write"
  /\ snapshot' = copy[0]
  /\ copy' = [copy EXCEPT ![0] = [t \in Tools |-> NoSource]]
  /\ watcher' = [watcher EXCEPT !.pc = IF watcher.content.mcp THEN "spawn" ELSE "finish"]
  /\ UNCHANGED <<file, changes, fsEvents, registry, servers, child, tasks, dirty, raced>>

\* load_file: skip a running server, otherwise spawn the task that connects.
WatcherSpawn ==
  /\ watcher.pc = "spawn"
  /\ \/ /\ ~watcher.content.mcp \/ servers[watcher.src] # 0
        /\ UNCHANGED tasks
     \/ /\ watcher.content.mcp /\ servers[watcher.src] = 0
        /\ \E k \in TaskIds :
             /\ tasks[k].pc = "unused"
             /\ \A j \in 1 .. (k - 1) : tasks[j].pc # "unused"
             /\ tasks' = [tasks EXCEPT ![k] = [pc |-> "connect", src |-> watcher.src,
                                               serves |-> watcher.content.serves]]
  /\ watcher' = [watcher EXCEPT !.pc = "finish"]
  /\ UNCHANGED <<file, changes, fsEvents, registry, servers, child, copy, snapshot,
                 dirty, raced>>

\* Mutant: the loop does not signal what handle_event changed.
BugUnannounced == dirty

\* The additions that no signal has announced when the loop goes on.
Unannounced == dirty /\ ~(watcher.watching /\ watcher.changed)

\* The loop around load_file and handle_event: signal a change, then go on.
WatcherFinish ==
  /\ watcher.pc = "finish"
  /\ dirty' = Unannounced
  /\ watcher' = [watcher EXCEPT
       !.pc = IF watcher.src = NoSource \/ watcher.watching THEN "idle" ELSE "todo",
       !.watching = @ \/ watcher.src = NoSource,
       !.src = NoSource, !.content = Absent, !.changed = FALSE]
  /\ UNCHANGED <<file, changes, fsEvents, registry, servers, child, tasks, copy,
                 snapshot, raced>>
-----------------------------------------------------------------------------
(* The task that load_file spawns for an MCP source *)

TaskAt(k, from, to) ==
  /\ tasks[k].pc = from
  /\ tasks' = [tasks EXCEPT ![k].pc = to]

\* connect_mcp_source: the process is spawned and answers the handshake.
TaskConnect(k) ==
  /\ TaskAt(k, "connect", "list")
  /\ child' = [child EXCEPT ![k] = "running"]
  /\ UNCHANGED <<file, changes, fsEvents, registry, servers, watcher, copy, snapshot,
                 dirty, raced>>

\* Mutant: a server that cannot list its tools is connected to again, for ever.
BugTaskFail(k) ==
  /\ TaskAt(k, "list", "connect")
  /\ child' = [child EXCEPT ![k] = "orphan"]
  /\ UNCHANGED <<file, changes, fsEvents, registry, servers, watcher, copy, snapshot,
                 dirty, raced>>

\* The handshake or tools_list fails: nothing stops a process that runs.
TaskFail(k) ==
  /\ \/ /\ TaskAt(k, "connect", "failed")
        /\ child' \in {child, [child EXCEPT ![k] = "orphan"]}
     \/ /\ TaskAt(k, "list", "failed")
        /\ child' = [child EXCEPT ![k] = "orphan"]
  /\ UNCHANGED <<file, changes, fsEvents, registry, servers, watcher, copy, snapshot,
                 dirty, raced>>

\* tools_list answers.
TaskList(k) ==
  /\ TaskAt(k, "list", "load")
  /\ UNCHANGED <<file, changes, fsEvents, registry, servers, child, watcher, copy,
                 snapshot, dirty, raced>>

\* registry.load_mcp_tools
TaskLoad(k) ==
  /\ TaskAt(k, "load", "insert")
  /\ registry' = Loaded(tasks[k].src, tasks[k].serves, TRUE)
  /\ dirty' = TRUE
  /\ UNCHANGED <<file, changes, fsEvents, servers, child, watcher, copy, snapshot, raced>>

\* The panic of the watcher came while it held the lock of the map.
Poisoned == watcher.pc = "dead"

\* servers.insert; a handle it replaces is dropped, not shut down.
TaskInsert(k) ==
  /\ ~Poisoned
  /\ TaskAt(k, "insert", "read")
  /\ servers' = [servers EXCEPT ![tasks[k].src] = k]
  /\ child' = Orphaned({servers[tasks[k].src]})
  /\ UNCHANGED <<file, changes, fsEvents, registry, watcher, copy, snapshot,
                 dirty, raced>>

\* The lock is poisoned: the task ends with its tools loaded, its server
\* dropped, and neither a snapshot nor a signal.
TaskPanics(k) ==
  /\ Poisoned
  /\ TaskAt(k, "insert", "panicked")
  /\ child' = Orphaned({k})
  /\ UNCHANGED <<file, changes, fsEvents, registry, servers, watcher, copy, snapshot,
                 dirty, raced>>

\* write_registry_snapshot
TaskReadRegistry(k) ==
  /\ TaskAt(k, "read", "write")
  /\ copy' = [copy EXCEPT ![k] = Listing]
  /\ UNCHANGED <<file, changes, fsEvents, registry, servers, child, watcher, snapshot,
                 dirty, raced>>

TaskWriteSnapshot(k) ==
  /\ TaskAt(k, "write", "signal")
  /\ snapshot' = copy[k]
  /\ copy' = [copy EXCEPT ![k] = [t \in Tools |-> NoSource]]
  /\ UNCHANGED <<file, changes, fsEvents, registry, servers, child, watcher, dirty, raced>>

\* change_tx and sse_notify_tx.  One signal stands for every addition before
\* it, since the receivers read the registry afterwards; so does the one that
\* is in a channel too full for this one.
TaskSignal(k) ==
  /\ TaskAt(k, "signal", "done")
  /\ dirty' = FALSE
  /\ UNCHANGED <<file, changes, fsEvents, registry, servers, child, watcher, copy,
                 snapshot, raced>>
-----------------------------------------------------------------------------
Watcher ==
  \/ \E s \in Sources : InitialLoad(s)
  \/ InitialScanDone
  \/ TakeEvent
  \/ WatcherUnload
  \/ WatcherEvict
  \/ WatcherDies
  \/ WatcherLoad
  \/ WatcherReadRegistry
  \/ WatcherWriteSnapshot
  \/ WatcherSpawn
  \/ WatcherFinish

Task(k) ==
  \/ TaskConnect(k)
  \/ TaskFail(k)
  \/ TaskList(k)
  \/ TaskLoad(k)
  \/ TaskInsert(k)
  \/ TaskPanics(k)
  \/ TaskReadRegistry(k)
  \/ TaskWriteSnapshot(k)
  \/ TaskSignal(k)

Operator == \E s \in Sources : \E c \in Contents[s] : ChangeFile(s, c)

Next == Operator \/ Watcher \/ \E k \in TaskIds : Task(k)

Spec == Init /\ [][Next]_vars

(***************************************************************************)
(* The watcher's thread and the spawned tasks are scheduled; a connection  *)
(* attempt ends, because each of its requests has a timeout of 120 s.      *)
(***************************************************************************)
Fairness == WF_vars(Watcher) /\ \A k \in TaskIds : WF_vars(Task(k))

FairSpec == Spec /\ Fairness
-----------------------------------------------------------------------------
(* Properties *)

\* Every variable keeps its type.
TypeOK ==
  /\ file \in [Sources -> Content]
  /\ changes \in 0 .. MaxChanges
  /\ fsEvents \in Seq([src : Sources, removed : BOOLEAN])
  /\ registry \in [Tools -> Entry]
  /\ servers \in [Sources -> {0} \cup TaskIds]
  /\ child \in [TaskIds -> {"none", "running", "orphan"}]
  /\ tasks \in [TaskIds -> [pc : TaskPC, src : Sources \cup {NoSource},
                            serves : SUBSET Tools]]
  /\ watcher \in [pc : WatcherPC, src : Sources \cup {NoSource}, content : Content,
                   changed : BOOLEAN, todo : SUBSET Sources, watching : BOOLEAN]
  /\ copy \in [{0} \cup TaskIds -> [Tools -> Sources \cup {BuiltinTag, NoSource}]]
  /\ snapshot \in [Tools -> Sources \cup {BuiltinTag, NoSource}]
  /\ dirty \in BOOLEAN
  /\ raced \subseteq Sources

\* Nothing is under way: the operator has stopped, every task has ended, and
\* the watcher has handled every event or has died.
Settled ==
  /\ watcher.pc \in {"idle", "dead"}
  /\ fsEvents = <<>>
  /\ \A k \in TaskIds : tasks[k].pc \in {"unused", "done", "failed", "panicked"}

(***************************************************************************)
(* A handle that McpServerMap gives out belongs to the manifest it is      *)
(* looked up by and still has its process: nothing that was taken out of   *)
(* the map, or replaced in it, is ever in it again.                        *)
(***************************************************************************)
HandlesAreLive ==
  \A s \in Sources :
    servers[s] # 0 => child[servers[s]] = "running" /\ tasks[servers[s]].src = s

\* The manifest on whose change, or removal, the watcher died.
Lost(s) == Poisoned /\ watcher.src = s

\* The server of s has listed its tools and could not be put in the map.
Unreachable(s) == \E k \in TaskIds : tasks[k].src = s /\ tasks[k].pc = "panicked"

(***************************************************************************)
(* Once settled, a source that did not change behind the loader's back     *)
(* lists only tools that its manifest still names, and its MCP tools have  *)
(* a server in the map, unless the map was poisoned before it got there.   *)
(* Of the manifest on which the watcher died nothing is listed.            *)
(***************************************************************************)
NothingStale ==
  Settled => \A s \in Sources \ raced : \A t \in Tools :
    registry[t].src = s =>
      /\ ~Lost(s)
      /\ IF registry[t].mcp
         THEN /\ t \in file[s].serves
              /\ servers[s] # 0 \/ Unreachable(s)
         ELSE t \in file[s].static

\* Tools that only the manifests of s can name.
Exclusive(s) ==
  {t \in Tools \ Builtins :
     \A r \in Sources \ {s} : \A c \in Contents[r] : t \notin c.static \cup c.serves}

(***************************************************************************)
(* Once settled, such a source's manifest is served in full, unless the    *)
(* watcher died on it: its static tools are registered, and those of its   *)
(* server unless the connection failed.  (A tool that a second manifest    *)
(* also names may be gone with it.)                                        *)
(***************************************************************************)
NothingMissing ==
  Settled => \A s \in Sources \ raced :
    file[s].there /\ file[s].parses /\ ~Lost(s) =>
      /\ \A t \in file[s].static \cap Exclusive(s) : registry[t].src = s
      /\ servers[s] # 0 => \A t \in file[s].serves \cap Exclusive(s) : registry[t].mcp
      /\ file[s].mcp => \/ servers[s] # 0
                        \/ Unreachable(s)
                        \/ \E k \in TaskIds : tasks[k].src = s /\ tasks[k].pc = "failed"

\* Once settled, the registry is what the manifests say, no more, no less,
\* but for the one manifest that the watcher may have died on.
ManifestsAreServed == NothingStale /\ NothingMissing

(***************************************************************************)
(* The broker loses track of a server process of such a source only when   *)
(* the connection failed half-way, when the watcher dies on the source, or *)
(* when the map is poisoned before the server is in it.  As long as the    *)
(* watcher lives, a source has one server at a time, and it is in the map  *)
(* or on its way there.                                                    *)
(***************************************************************************)
NoServerForgotten ==
  \A k \in TaskIds :
    tasks[k].src \notin raced =>
      /\ child[k] = "orphan" =>
           tasks[k].pc \in {"failed", "panicked"} \/ Lost(tasks[k].src)
      /\ child[k] = "running" =>
           \/ servers[tasks[k].src] = k
           \/ tasks[k].pc \in {"list", "load", "insert"} /\ servers[tasks[k].src] = 0

(***************************************************************************)
(* Once settled, every tool that was added while watching has been         *)
(* signalled to the bridge and to SSE clients, who read the registry anew: *)
(* no signal was dropped between a task and the loop.  The exception is a  *)
(* task that found the map poisoned after it had loaded its tools.         *)
(***************************************************************************)
AdditionsAreAnnounced ==
  Settled /\ dirty => \E s \in Sources : Unreachable(s)

\* The watcher and its tasks come to rest once the operator stops.
EventuallySettles == <>[]Settled

(***************************************************************************)
(* What the comment on `start` promises: the background task "keeps the    *)
(* registry live", so that a manifest is served once its event has been    *)
(* handled.  (watcher.rs:442-444)                                          *)
(***************************************************************************)
RegistryIsKeptLive ==
  Settled => \A s \in Sources \ raced :
    file[s].there /\ file[s].parses =>
      \A t \in file[s].static \cap Exclusive(s) : registry[t].src = s

=============================================================================
