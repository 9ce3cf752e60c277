# Clawshake in TLA+

A verification development kept beside the Clawshake sources: TLA+ modules
translated from the Rust code, TLC runs that check them on small instances, and
proofs that TLAPS checks for every value of the constants. Paths below are
relative to `src/crates/`, without the prefix `clawshake-` of a crate and without its `src/`:
`broker/watcher.rs` is `src/crates/clawshake-broker/src/watcher.rs`.

## 1. The system

Clawshake turns a machine into a node of a peer-to-peer tool network. One
process (or two) runs a **broker**, an MCP server that dispatches tool calls, and
a **bridge**, a libp2p node that announces the broker's tools and forwards
remote calls to it. Agents reach the broker over stdio, SSE or HTTP; operators
use the command line; the two processes share `~/.clawshake/` (manifests, the
permission database, `registry.json`, the memory database and its directories).

### Inventory

Each row: the state a component keeps, what happens to it, whom it meets, what
is hard about it, and what makes it correct.

| component (source) | state | operations | meets | hard | correct when | module |
|---|---|---|---|---|---|---|
| event queue (`broker/event_queue.rs`, `invoke/events.rs`) | ring of events, next id, `Notify` | `push`, `wait_for`, `cursor`; `emit`, `listen` | spawn, cron, web view and REPL push and listen | the scan and the wake-up are not one step; eviction; timeouts | cursors hand out each event once, in order; whoever waits is woken | `EventQueue` |
| manifest registry (`broker/watcher.rs`) | tools by name, running MCP servers, `registry.json` | load, unload, builtins, snapshot; one task per server connection | file system, MCP servers, all dispatch | a connection takes seconds while files change; three actors write; a panic under a lock | when all is quiet the registry is what the files say; no server is forgotten; callers hold live handles (until the watcher panics, see `registry_kept`) | `Registry` |
| MCP client (`core/mcp_client.rs`) | ids, map of waiting senders, child process | `spawn` (handshake), `call`, reader task, `shutdown` | registry, any MCP server | answers in any order, a server that stops reading, dies, or outlives the shell it runs in; timeouts | an answer reaches its caller and nobody else; every call returns | `McpClient` |
| permission store (`core/permissions.rs`) | rules (agent, resource, decision) in SQLite | `check`, `set`, `remove`, seeds, `consolidate`, `is_network_exposed` | router, bridge, commands of the operator, in several processes | statements commit one by one; wildcards and classes overlap | consolidation never changes an answer; a command does what it says; what is announced is callable | `Permissions` |
| router (`broker/router.rs`) | none of its own | permission gate, choice of backend | everything that calls a tool | gate, stored answer and dispatch are separate | an unknown or denied tool is never run | gate in `Permissions` |
| expose table and tunnels (`broker/expose.rs`, `invoke/expose.rs`, `core/ipc.rs`, `bridge/ipc_server.rs`, `bridge/p2p/tunnel.rs`) | the broker's names and ports, the bridge's copy, a tool per name, streams, the peers' listeners | expose, unexpose, IPC requests, inbound streams, auto-connect, calls of `connect_{name}` | registry, permissions, peers | two processes, one connection per request, timeouts, restarts | the tables agree; a stream reaches only a shared port, for a granted peer; declared tunnels come up | `Tunnels` |
| transcripts (`memory/write.rs`, `ingest/transcript.rs`, `watch.rs`) | JSONL file, chunk rows, cursor row | append, ingest, watch | agents, tools, command line | reading while writing, overlapping passes, passes that fail, crashes | nothing said is skipped or mixed with another conversation | `Transcript` |
| dream pass (`memory/ingest/dream.rs`) | chunk rows | replaces a session's chunks batch by batch | called by no binary | a language model's answers, partial failure | nothing is deleted before it is replaced | `Transcript` |
| file index (`memory/ingest/files.rs`, `lib.rs`, `db/chunks.rs`) | chunk rows, vectors, file hashes | ingest, embed | watcher, tools, command line | each statement commits alone, row ids are used again | the index says what the files say; a vector is its text's | `FileIndex` |
| chunking (`memory/ingest/mod.rs`) | none | split | both ingestors | loop bounds, characters of several bytes | ends, covers the text | `Chunking` |
| memory search (`memory/db/search.rs`, `lib.rs`) | none | two recalls | agents | cut-offs before and after fusion, ties, rows that go meanwhile | a better row is never ranked behind | `Search` |
| spawn, cron (`invoke/spawn.rs`, `cron.rs`) | jobs, tasks | add, remove, fire; run in the background | event queue | firing against removing, ticks that pile up | no event after removal, but for those under way; one result per task | `Clients` |
| REPL (`channels/cli_repl.rs`) | cursor | ask, listen | event queue | late answers | an answer follows its question | `Clients` |
| web view (`broker/webview.rs`, `invoke/webview.rs`, `http_server/`) | frames, sockets, waiters | render, close, snapshot, replay | browser tabs, the window daemon | replay against broadcast, the user against the agent, iframes that load in their own time | pages show what the store holds; an answer is the caller's own | `WebView` |
| window daemon (`window/lib.rs`, `index.html`, `invoke/window.rs`) | native windows, message buffer, ready flag | open, close, list, buffer, start of a page | web view | messages before, while and after a page starts; windows that are not built, or go late | as above, and opened windows are listed | `Window` |
| p2p node (`bridge/p2p/mod.rs`, `event.rs`) | connections, relays reserved, rendezvous registrations, DHT queries | swarm events, retries | libp2p, other nodes | order of events | tables follow the swarm; refusals are retried; isolation ends | `P2pNode` |
| network tools (`bridge/network_tools.rs`, `ipc_server.rs`, `core/peer_table.rs`) | peer table, oneshot channels | list, look up, call | p2p node, broker | a timeout racing a late answer | every request is answered, with what is known | `NetworkTools` |
| announcements, sessions, code mode (`bridge/announce.rs`, `http_server/mod.rs`, `mcp_server.rs`, `invoke/codemode.rs`) | channels of signals, SSE sessions, shim cache, DHT record | signal, build, publish, list, generate | registry, permissions | dropped signals, a list read before the change, DHT queries that end in any order | whoever is told of changes ends up with the last of them | `ToolLists` |
| prompt and skills (`memory/procedural.rs`, `skills.rs`) | `prompt.md`, folders of skills | load, render | their owner, who edits them | failed reads and writes, names that clash | the agent is told what its owner wrote, each skill once and from the first directory | `Procedural` |
| sandbox, configuration, other backends | little or none | | | | | not modelled, see 7 |

`PROJECT.json` lists every component with its status, every modelled
definition with the lines it stands for, and the hazards with the properties
that would catch them.

## 2. The modules

All modules are parameterised by CONSTANTS with named assumptions; every bound
is a constant called `Max...`, `Bounds`, `Budgets` (or `PipeSize`) that guards an
action. `Budgets` and `Bounds` are sets of tuples of which a behaviour picks one at
its start, so that one run can take each part of a component far and not all of
them at once. An `MC` module extends its specification and holds only values for the
constants. Definitions called `Bug...` are single plausible mistakes, kept beside the
definition they would replace: with the mistake in its place the property under
test must fail. No specification refers to them. Variables marked *history* in
their comment record what has happened, for the properties; no guard of the code
reads them.

**EventLog / EventQueue.** `EventLog` is what the queue promises: an unbounded
log, listeners that wait for a topic after a cursor, and answers that carry the
next matches still within reach. `EventQueue` is the code: `PushAppend` (under
the lock) and `PushNotify` are the two halves of `push`; a listener's `pc` goes
through `ScanHit`, `ScanTimedOut`, `ScanMiss` (one pass of the loop of
`wait_for`), `NoTimeRemaining`, `Register` (`notified()`) and `WakeUp`.
`notify_waiters` wakes exactly those that have registered. `ImplementsEventLog`
is the refinement: the log is a history variable and the other variables map to
themselves.

**Clients** composes the queue's clients with `EventLog` by `INSTANCE`, which the
refinement allows: a call of the queue is one step here. `ReplAsks` to `ReplExits`
are `repl_loop` with the ways its calls fail; `AgentReads` and `AgentAnswers` an
agent's `listen` and `emit`. `CronDue` is the passing of time, which does not wait for a job's
task (ticks that are missed are kept, `MissedTickBehavior::Burst`); `CronTicks` and `CronPushes`
are the two halves of that task. `CronRemove` may abort it between them (`"aborted"`): what is
being polled then goes on, through every tick that it finds due, until it has to wait
(`CronEnds`, or the end of `CronPushes`). `excused` counts those. `Spawn`, `TaskReturns`,
`TaskPublishes` are a background call; one whose tool panics stays `"running"`, since its
task ends without an event.

**Registry.** The thread that calls `start` and the watcher thread (`Watcher`,
one after the other) and one task per connection attempt (`Task(k)`) share the
registry, the server map and the snapshot. Every lock or await is a step:
`WatcherUnload`, `WatcherEvict`, `WatcherLoad`, `WatcherSpawn`; `TaskConnect`,
`TaskList`, `TaskLoad`, `TaskInsert`, `TaskSignal`; reading the registry for the
snapshot and renaming it into place. `ChangeFile` is the operator.

`McpServerMap::remove` calls `tokio::spawn` under the map's write lock, and its only
callers run on a plain thread in which no runtime is entered, so that it panics
whenever it takes a handle out. `WatcherEvict` is the case in which there is none,
`WatcherDies` the panic: the manifest is unloaded and not loaded again, the server's process
is an `"orphan"` (nothing shuts it down), queued and later file events are lost, and the lock
is poisoned, so that a task that has loaded its tools panics at `servers.insert`
(`TaskPanics`). The router's `servers.get` panics from then on as well; no tool of an MCP
server can be called any more, which `Unreachable` and `Lost` in the properties allow for.

**ToolLists** is what happens after a change to the registry or the permissions,
which are version numbers here. A change is one step and its signal (`Signal`, a
`try_send` on channels of `Cap` slots) another; `WatcherPanics` is a change whose signal never
comes, and `SignalLost` one that was owed when the watcher panicked, so that nothing is
claimed on that channel (`lost`) until the next signal on it. `Notify` and `TellSessions` are the
notify task; `SessionAsks`, `ListIsRead` and `ListArrives` one `tools/list`, whose
tasks run in any order; `GetShim` and `StoreShim` the two halves of
`get_or_generate`; `BuildStarts` to `BuildFails` the announcer, `Publish` the loop that hands a
record to Kademlia, which may refuse it or start a query, and `PutEnds` the end of a query, in
any order and with or without success. `due` is history: the newest version each channel was
told of. The announcer is the one of a bridge in the broker's own process: a bridge
that runs as a process of its own has no channel from the broker and announces by its tick.

**McpClient.** A call is at `insert`, `write` or `wait`; `stdin` and `stdout` are
pipes, the first of `PipeSize` lines. `Route` is the reader task, `ShutdownClear`
and `StopChild` the steps of `shutdown`; the server answers in any order, pings
with ids of its own, stops reading, or exits. `server` is whoever holds the other ends of the
pipes: the child is `sh -c` or `cmd /C`, and killing that (which may fail) need not stop
what it has started, so after `StopChild` the server may run on. `ReaderStops` is a read
error, at any time, or the end of file, which may never come.

**Permissions.** `Check`, `Exposed` and the three levels of `Redundant` are the
code's functions over the table `rules`. Processes issue commands, and every
row's statement is a step (`Edit`, `SeedLocal`, `SeedP2p`, `ListRules`,
`RemoveRule`); a process may be killed between any two (`Leave`). The router's
`RouterAsks` and `RouterStores` interleave. `base` and `alone` are history: the
table that a consolidation listed, and whether anyone else has written since.

**Tunnels.** `call[c]` walks through `handle_expose` or `handle_unexpose`; `wire`
holds IPC requests, each on a connection of its own, so that they are handled in
any order and also after `TimeOut`. `stream[s]` is the handler of an inbound
stream (lookup, permission, acknowledgement, connection, splice); `probe`,
`established` and `listener` are a peer's `auto_connect_task`. `rpc[p]` is the call of
`connect_{name}` by an agent at a peer: `AgentCalls`, then at this node `RpcForward` (the
permission on the tool), `HandleConnect` (the table), and at the peer again
`OpenListener`. `BridgeStops`, `BridgeStarts` and `BrokerRestarts` are
the crashes. `disturbed` is history: names on which nobody promises agreement.

**P2pNode** (with **NetworkTools**). One task runs the bridge's loop, so each handler of a
swarm event is a step: `Established`, `Closed`, `IdentifyServer`, `Identify`,
`Registered`, `RegisterFailed`, `RegistrationExpired`, `ExternalAddrConfirmed`,
`UpnpMapping`, `BootstrapRetry` and so on. libp2p is modelled by what the handlers read
and call: dials, circuit listeners and registrations that succeed or fail in their own
time. `NetworkTools` is the part behind IPC: each request has a task (`Send`, `Receive`,
`LookupFails`, `FallBack`), the loop takes it from a channel (`Take`), and a record
that is found is stored in the table and handed over in two steps (`Found`,
`Deliver`), between which the task may time out.

**WebView / Window.** The store and the list of sockets are two locks, so that a
tool's change and its broadcast are two steps (`RenderInsert`, `CloseRemove`, then
`Broadcast`), and so are the replay to a new socket and its registration (`Connect`,
`Join`). `wire[s]` and `uplink[s]` are the two directions of a socket. A render carries no
content: the page sets the address of an iframe, which fetches what is stored in its own time
(`FrameFetches`) and replaces its document later (`FrameLoads`). `shown` is what was
fetched, `doc` what is on the page, `loading` the frames in between. A request for a snapshot is
posted to the document that is there (`Posts`), which answers or does not before the
page's timer fires (`FrameAnswers`); `sure` notes whether the tab was in step when it was asked.
Requests with an answer (`SnapshotRegister`, `SendRequest`, `RequestTimesOut`; `ListRegister`)
leave a waiter, which `ReadAnswer` finds by the id alone. `Window` adds the daemon, which
reads one socket for all its windows: `DaemonOpens`, which leaves a label alone that exists and
whose build may fail; `DaemonCloses`, which asks a window to close, and `WindowGoes`, when it
does; `DaemonEmits` when some page has said that it is
ready, else `DaemonHolds` and `DaemonBuffers` (the flag is read before the lock is
taken); `PageListens`, `PageAsksReplay`, `ClientReady`, `TakePending`, `HandleBacklog`
and `HandleEvent` are the start of a page. `behind` is history: frames of which a page has
missed something that the code does not repair.

**Transcript.** The file is a sequence of tokens: an entry, and its newline, are
separate writes (`WriteLine`, `WriteNewline`), as `writeln!` on a `File` makes
them. A pass (`ReadCursor`, `ReadFile`, `Flush` for each segment, `Save`) is run
by the watcher (`TakeEvents`, `Expire`) or by a tool, with nothing between them. It may fail at any
of its steps (`PassFails`); the watcher then waits for the next event, and `gaveUp` notes that.
A dream pass reads the file once, sends it to the model batch by batch, and after each
reply replaces the chunks of what it sent (`DreamStarts`, `Consolidate`,
`ReplaceChunks`, or `DreamFails`). A line of one entry's tokens reaches a reader whole; the page-wise
visibility of one very large write is left out.

**FileIndex.** `ingest_files` file by file and statement by statement (`Walk` to
`EndIngest`), `embed_pending` row by row (`Load` to `EndEmbed`), edits at any
time, a failing statement (`Fail`), a crash. Row ids are SQLite's: one more than
the largest. `half` and `stale` are history: files on which a pass stopped
halfway, and those that changed before the next.

**Chunking**, **Search** and **Procedural** are pure. `Chunking` has `split_into_chunks_ranged` as a
recursive function over a text that is a length and the set of positions where a
character begins, and the reference `Covers`. `Search` has both recalls as operators from
SQLite's two rankings to the set of answers that may be given (scores come out of a
hash map, so ties may fall either way), with scores as exact fractions, and the
references `KeepsDominance`, `FallsBack` and `AgreementWins`. `Procedural` has the
seeding of `prompt.md`, with writes that fail, and the discovery of skills with
`read_dir` in any order, and the references `FirstDirectoryWins`, `LoadsAgree` and
`KeepsFile`.

## 3. The runs

Bounds are chosen so that the case each property is about takes place, which the
mutants confirm: each is found under the same bounds.

| run | instance | shows |
|---|---|---|
| `event_queue` | 2 pushers, a timed and an untimed listener, 2 topics, ring of 2, 3 events | Each resuming client is handed each event once, in order; an arrival is answered while it is in the ring; the queue implements `EventLog`. Three events on two slots evict one. |
| `lost_wakeup` | the same with a ring of 3, violation | A push between scan and registration wakes nobody: an untimed listener sleeps beside its event. |
| `registry` | a manifest with a server (and perhaps a static tool), one with a static tool or a server of the same tool, a builtin they overwrite, 3 changes, 3 tasks | Handles in the map are live; once quiet, the registry is what the manifests say and no server is forgotten, with three exceptions that the code leaves: a source that changed behind the loader's back (`raced`: while a connection to it was being made, before it was watched, or with its event queued when the watcher died), the source that the watcher died on (`Lost`), and servers that the poisoned map kept out (`Unreachable`). Every addition is announced, but for the last of these; everything settles. Two changes are what it takes to overtake a connection attempt or to kill the watcher, the third comes beside. |
| `registry_kept` | the same, violation | The manifest of a running MCP server changes: the watcher panics after unloading it, and the new content is not loaded, where the comment on `start` says that the background task keeps the registry live. |
| `permissions` | 81 stores (four rules, each absent, allowing or denying) over a peer, its class and `*`; a second peer without rules; 2 processes, 2 commands, the router | No consolidation changes an answer; a command does what it says; a tool is announced exactly when some peer may call it. Every such store is an initial state. |
| `tunnels` | 1 caller, 1 name, 2 ports, a peer with a stream and its probe, 2 calls, 1 fault | The broker's table, its tools and the bridge's table agree on every undisturbed name, and an undisturbed call restores agreement; a stream beyond the permission check leads to a port that was shared, for a peer that was granted the tunnel, since the stream was opened; every call returns, every stream is refused or spliced, and a declared tunnel comes up however often a probe failed, while its peer stays connected (the code retries every 5 s, more than its comment says, see 7). One caller's second call overlaps the request of the first when that has timed out; what two callers do at a time, the proof covers. |
| `transcript` | 2 writers, the watcher and a tool; up to 3 entries, one pass of the tool or one dream pass, one crash or failed pass, of which at most 4 together | The cursor never runs ahead of the chunks, however passes overlap, fail or crash and wherever in a line they stop, and a dream pass deletes only what the model has answered for; chunks keep to their conversation; an undisturbed index says nothing twice; everything is indexed in the end, unless the watcher's last pass failed and no event has come since: that pass is not retried. On the side TLC evaluates `Procedural`: over all contents of two directories of two folders, and three of which two agree, each skill is told once and from the first directory that has it; a prompt survives a load unless it is no UTF-8. |
| `file_index` | 1 file, 2 contents of two pieces and one, 2 changes, 1 pass of another caller, 1 fault | After a whole pass the index says what the file says, whatever failed before (except a blank file, or one that changed after a pass stopped halfway through it); a vector is that of the text under its id; everything is embedded. Files do not interact: every statement names one path, and the row ids that they share come back within one file too. On the side TLC evaluates the pure modules: the chunks of every text of at most 13 bytes cover it, for overlaps up to 2 and windows 7 larger; every two rankings of at most 3 out of 4 rows, any rows deleted since, keep dominance; without vectors the order is that of the words; a row in both lists beats a row in one up to a limit of 20, and not at 21. |
| `clients` | 2 REPLs, an agent, ring of 2, 4 events; two questions, or a question and a background call, or a job with two ticks due and a call. Or, in behaviours of their own, the MCP client: handshake and 2 calls, 2 pings, a pipe of one line | No event is printed twice; a REPL that had every answer in time has each under its question; a removed job never fires again if its task waited, else only for the firing under way and the ticks found due; the outcome of a background call comes past the agent. Two REPLs and a late answer are what it takes to shift answers. Of the MCP client: no waiting caller is unreachable; answers keep to their ids; every call returns unless it is stuck in a full pipe; a shutdown lets go of every caller that waits. The two parts share no variable and take no turns within a behaviour; one run stands for both. |
| `window` | a browser tab and a window of the daemon over one frame, 2 agents, 2 versions; 3 calls and a fault with the tab or the daemon connected, or with both 2 calls and a fault, or 1 call and 2 faults | A page that has been told everything and has loaded it shows what is stored, but for the frames in `behind`; a snapshot is the caller's own, and one by a tab in step that was not loading the frame is not older than when it was asked for, or is the error of a document that does not answer; windows opened are listed, unless they could not be built or their label was about to go. |
| `p2p_node` | a relay that is the bootstrap peer, another node; 2 connections, or a connection and a request, or 2 requests | The loop's tables follow the swarm; refusals are retried and no relay is asked twice; isolation ends; answers use what is known; every request is answered and leaves nothing behind. Two connections to one peer are what the cleanup after the last one is about. |
| `tool_lists` | 3 changes beside a session with 3 requests in flight, or beside 2 calls of code mode, or 2 changes beside the announcer with 2 puts under way; channels of one slot, with a bridge and without; the panic of the watcher among the changes | A session that acted on what it was told has a list no older than the last change it is told of; so has the cached shim, and a script that made its shim can call back; the record handed to Kademlia last has every change that is signalled, and peers find it if its query succeeded with no other beside it. Two changes and an address on one slot drop a signal. |

The exceptions in `PagesShowTheStore` (`behind`) are the cases in which the code does leave
a page out of step until the frame changes again: a change between the replay to a
socket and its registration, two changes of a frame whose broadcasts overtake each other, a frame closed
by the user of another page or while the page was disconnected (nobody is told), and
for a window's page the messages that went to the buffer after another page had taken it or
that are handled before older ones while it starts.

Symmetry is declared in `permissions` only, which checks
invariants. `CHECK_DEADLOCK FALSE` stands in every configuration but that of `p2p_node`, whose
swarm never stops: callers, operators and writers may stop, and with the bounds
used up nothing is left to do.

## 4. Fairness

Liveness assumes only what the code's scheduling gives: tokio polls a task that
can go on, a thread that can run does, and a timeout that is set expires. So
weak fairness stands on a listener's own steps and its deadline, on the second
half of a push, on the watcher and the connection tasks (each of whose requests
has a timeout of 120 s), on a call of the MCP client, on the reader's routing of a line that is
there (not on its end) and on the last step of a shutdown, on a call
of expose or unexpose, on a stream's handler and the auto-connect loop, on
the memory watcher, on the task of a background call, and on the tasks of network requests. In `Clients` the agent
goes on listening, with a timeout; `TaskIsHeard` is about such an agent.

Strong fairness stands in `P2pNode` only: on taking a request and on the end of a query,
because the loop chooses among several ready branches and the step is enabled again
and again between records that it is storing (`set_query_timeout` ends every query
after 30 s); and on dials to a bootstrap peer, which says that dials to a peer that
can be reached again and again do not fail each time.

Nothing is assumed of operators, writers, peers'
connections, MCP servers, pages, or of the bridge answering an IPC request about tunnels. The
transcript run also assumes that a broker that went down is started again. `Permissions`, `Window`
and `ToolLists` check safety only.

## 5. What is proved

Eight modules hold proofs, checked by TLAPS to the last step for every value of
the constants.

**`BrokerProofs`** is about `EventQueue` and about `Window` with `WebView`. For the queue it
assumes `ConstantsAssumption` (a ring of at least one
slot, natural bounds, listeners with a timeout are listeners). The inductive
invariant `QueueInv` is `TypeOK`, `BufferIsNewestEvents`, `HandedOnceInOrder`,
`LaterPushWakes` and `DeadlinesAreTimed`. None of the parts about listeners is
inductive without the one about the buffer: that a cursor lands on the newest
matching event, and that a scan which found nothing has seen all there was,
hold because ids in the ring are the last ones of the log, in order, up to
`HeadCursor`. The steps are by action; `PushKeepsBuffer` is where `pop_front` and
`push_back` meet the arithmetic of ids.

| theorem | establishes |
|---|---|
| `QueueTypeCorrect` | types, for every number of pushers and listeners |
| `BufferCorrect` | the ring is the newest `MaxSize` events, gapless and in order, whatever two pushers and the wrap of the ring do |
| `CursorCorrect` | no resuming client is handed an event twice or out of order |
| `NoWakeLostAfterRegistration` | a push after registration leaves the listener woken or about to be |
| `QueueRefinement` | the queue implements `EventLog`: each listener's hand-out is the matching events of its window |

For the web view it assumes `WebViewAssumption` and `WindowAssumption` (a tab has a socket of
its own, the windows share the daemon's, no window is a tab). The three properties are about
the end of a way that a message takes, through up to five queues: the socket, the
message in the daemon's hand, the buffer, a window's backlog and its events. Their
invariants are in terms of what is *said last* about a frame on that way (`LastOf`, `Says`,
`Latest`), with lemmas for one message more, one less, and two queues in sequence.

`PageInv` is for `PagesShowTheStore`. `Pages`: unless the frame is being changed, what is said last to a
page is what the store holds, and if nothing is said the page shows it already. That
rests on `Bufs` (a socket that is down holds nothing; no page has events or a backlog of
its own before the page is ready; a page that runs has handled its backlog) and on `AloneIsLast`
(a change that was alone is the only one of its frame, so its broadcast says what is stored).
`ShotInv` follows a request for a snapshot: `Versions` (the version it has noted is stored, or a later
one), `WillShow` (a tab in step has fetched it, or will when it has handled what was said
last), `Asked` (and before it handles the request), `Posted` (so what the page's documents were
asked for has it, if the frame was not loading then), `Answered` (and the answer on its way back,
unless the user's close of the frame is read first). It needs that `doc` is `shown` wherever
nothing is loading, which is part of the types (`WebTypes`). `ListInv` does the same for
lists: `WillOpen`, `ListAsked` and `Listed`, for windows that are *standing*: open and not about to
go.

| theorem | establishes |
|---|---|
| `PagesAreInSync` | a page that was told everything and has loaded it shows what is stored, for all frames, tabs, windows, agents and faults |
| `SnapshotsCurrent` | an answer is the caller's own, and one by a tab that was in step and neither loading nor closing the frame is no older than the version noted when it was asked for, or an error for want of an answer |
| `OpenedAreListed` | the list an agent is handed has the windows it opened, except those closed since, not built, or opened under a label that was about to go |

**`PermissionsProofs`** assumes `PermissionsAssumption` (resources belong to
known kinds, classes to peers). `consolidate` computes its list of
rules to delete from one snapshot and deletes them one statement at a time, while
checks run. The step that carries the proof is `RemovalKeepsPeer` and
`RemovalKeepsLocal`: deleting *any subset* of the redundant rules leaves every
decision as it is, so no order of deletions and no check between two of them can
see a difference. The invariant adds `ListedWhileRemoving` (a listing is
kept only while its rows are being deleted) and `PlanCarriedOut` (undisturbed, the table
is the listing without the redundant rows deleted so far). `CommandTakesEffect` follows a
command on: the rows it is through with hold its decision (`Stands`) until `consolidate`
lists them; then the listing holds it, and what is deleted from there changes no decision.

| theorem | establishes |
|---|---|
| `TypeCorrect` | types, for all peers, classes and resources |
| `RemovalKeepsDecisions` | deleting any of the redundant rules changes no decision |
| `CommandsTakeEffect` | an undisturbed command that sets decisions has them in force when it is done, whatever was in the store before |
| `ConsolidateCorrect` | no `consolidate` that runs alone changes a decision, at any point between its deletions |
| `ExposureCorrect` | a tool is announced exactly when some peer may call it |

**`TranscriptProofs`** assumes `TranscriptAssumption` (the tools' passes are not
the watcher's; natural bounds). `NothingSkipped` and `ChunksKeepToSegments` are not
inductive: a pass holds a copy of the cursor and of what it read, and stores
both later, beside other passes and beside the writer. The strengthening is in
terms of `Said(i)`: the entry at `i` has a line of its own, as far as the file goes now.
The last entry counts too while its newline is missing, since a pass may store
a cursor behind it. `CursorBacked`: everything said before the stored cursor is
in a chunk. `PassesBacked`: a pass's own copy of the cursor is backed in the same way, and
the end of what it read by the chunks together with the segments it has still to
store. `ChunksKept`: chunks and those segments keep to one conversation. `DreamBacked`: what a
dream pass has read, the model has answered for or will be sent, so that the chunks it
deletes take nothing with them but what was written since. `NothingTwice` needs
`Undisturbed`: while passes neither overlap nor are cut short there is one pass, it works from
the stored cursor (`OnePass`, `FromCursor`), what is in a chunk is behind the cursor or
behind where this pass will put it (`Behind`), and its segments are disjoint from the
chunks and from each other (`Apart`), because being between the same resets is transitive
(`SegmentsMeet`).

| theorem | establishes |
|---|---|
| `TypeCorrect` | types, for all writers, passes and bounds |
| `NothingIsSkipped` | whatever overlaps or crashes, no entry before the cursor is missing from the chunks |
| `ConversationsAreKeptApart` | no chunk reaches across a reset |
| `NothingIsStoredTwice` | undisturbed, no entry is in two chunks |

**`ClientProofs`** is about `McpClient` and about `Clients`. It assumes
`McpClientAssumption` (the handshake is a call, a pipe has room for a line) and
`ClientsAssumption` (the agent is no REPL, the ring has a slot). The invariant of the first follows an id on its way: `IdsAreFresh` and
`ChannelsStartOpen` (no id is used before it is drawn), `WaitersAreReachable`,
`SendersAreUnused`, `ChannelsAreOwn`, and `RequestsAreInOnePlace`: a request is written at
most once, and is then in the pipe, or with the server, or answered, and never two
of these. That is why a second answer to one id cannot meet a sender that is in
the map again.

For the REPLs the invariant `Talk` follows a question: `AskedOnce` and `AnsweredOnce` (the log has at most one
event of each kind about it, and none about an answer that the agent still owes), `Ahead`
(what the agent has not come to it has not answered) and `PrintedOnce` (a REPL prints what its
cursor passes). Together they make `InTurn`, the property itself, inductive. For cron, `Fired`
says of each job (`Silent`) that its task ticks or fires exactly while it is there, that nothing
was late before, and that an `"aborted"` task has still to use up what it was excused: the
firing under way and the ticks that are due.

| theorem | establishes |
|---|---|
| `TypeCorrect` | types, for all calls, pings and pipe sizes |
| `WaitersStayReachable` | no caller waits for an answer that can no longer reach it |
| `SendersStayUnused` | the map holds only senders that nobody has used, or whose caller gave up |
| `AnswersReachTheirCaller` | what arrives on a call's channel answers its own request |
| `AnswersAreInTurn` | no REPL prints an event twice, and one that had its answers in time has each under its question |
| `JobsFallSilent` | a removed job's task goes on no further than the firings that its abort cannot stop, none if it waited, and is no longer among the ticking ones |

**`RegistryProofs`** is about `Registry` and about `ToolLists`. It assumes
`RegistryAssumption` (builtins are tools, tags differ from sources, no more changes than tasks)
and `ToolListsAssumption` (a channel has a slot, `None` is no record). That a handle in the map is
live (`HandlesAreLive`: nobody has taken it out or replaced it, so that its process has not become
an orphan, and it is the one of the manifest that it is looked up by) holds because an entry
stems from a task that is past its insertion (`MappedIsInserted`), a connected task's process
runs until its entry goes (`ConnectedRuns`), and the one step that drops a handle from the
map, the panic, takes the entry out in the same step; no entry comes after it, since the map is
poisoned. `LoaderHasSource` and `TasksHaveSource` type the steps on the way.

What holds once all is quiet has to be carried through everything before. `LoaderPhases`
says where in its loop the loader can have what in hand. `SignalToCome`: a registry
with something unsignalled has a task or a loop that will signal, or a task that panicked. `OneServerEach`: unless a
source raced, at most one of its tasks is connecting or connected, and none of them
is forgotten as long as the watcher has not died on it or poisoned the map before it. `Knowledge`: the last event queued for a source says what its file is now, or
the loader has the file's content in hand. On these rests, source by source, `InStep`:
after an unload no tool is left of it (`Cleared`), its MCP tools have a server or a task that is
about to insert one or has found the map poisoned (`Backed`), and when no change of its file is pending its tools are
among those that the file names (`Fresh`) and all of them (`Complete`). `raced` is the exception that the
code leaves by itself: a manifest that changes while its own connection is being made. A source
whose events are lost with the watcher's thread joins it, and the source that the watcher is
dead on counts as one with a change pending (`Pending`), since the thread never gets to it.

`ListInv` is about the signals. `ToBeTold`: a session whose list is too old has a signal, a
notice or an answer to come, and *the last* answer under way is read late enough.
`ToBeAnnounced`: with no signal in the channel and none owed, the record that is being built,
or is on its way, or was handed to Kademlia last, has the changes. A dropped signal costs nothing,
because it is dropped only when one is in the channel. `OneByOne`: while queries do not overlap,
the one under way is that of the record handed over last, and is what peers find
when it has succeeded.

| theorem | establishes |
|---|---|
| `TypeCorrect` | types, for all sources, tools and numbers of tasks |
| `HandlesStayLive` | `McpServerMap` never holds a handle that was taken out of it or replaced in it, or another manifest's, also when it is poisoned |
| `AdditionsAnnounced` | once settled, no added tool is left without its signal, unless its task found the map poisoned |
| `ServersRemembered` | a running server of a source that did not race is in the map or on its way there, and only a failed connection, the watcher's panic on its source, or a poisoned map makes it an orphan |
| `ManifestsServed` | once settled, the registry serves what the manifests say, no more and no less, but for races, the manifest the watcher died on, and servers kept out by the poisoned map |
| `SessionsCatchUp` | a session that acted on what it was told has a list no older than the last change |
| `AnnouncementsCurrent` | so has the record that an idle announcer handed to Kademlia last, and what peers find, if its query succeeded and no other overlapped it |

**`TunnelsProofs`** assumes `TunnelsAssumption` (`None` is no port, name or peer; a
probe's stream is not a connection's). Agreement of the tables is restored at the
end of a call that ran alone, so the invariant has to carry it through the call,
across two processes: `AloneIsAlone` (nobody else has a call or a request for its
name), `AloneHasDone` (how much of its change is made at each of its steps; once it
waits, its request is on the wire or has been handled), `QuietIsAlone` (on an undisturbed name
every call is of that kind), `UntouchedAgrees` (until such a call has passed its first
check, the tables agree) and the shapes `PortsFit` and `RequestsFit`. `StreamsAreGood` adds
to `TunnelsWereGranted` what holds between a stream's lookup and its permission check, and
rests on the agreement for the port.

| theorem | establishes |
|---|---|
| `TypeCorrect` | types, for all names, ports, peers, streams and callers |
| `TablesStayInStep` | the two tables and the tools agree on every undisturbed name that nobody works on |
| `TunnelsStayGranted` | a stream beyond the permission check was granted, and leads to a port that was shared |

**`FileIndexProofs`** assumes `FileIndexAssumption` (a content has pieces; the watcher is no
other caller). The types include that a row id is unique, which rests on `Bounded`: there is
a largest id, so that the next one is fresh. `VectorsAreTrue` needs four more facts. `Alone`:
nobody ingests while another ingests or embeds, as long as no two callers have got into
each other's way. `LoadedIsThere`: the rows that an embedder has loaded are still
there. `VectorsGone`: past the deletion of a file's vectors, none of its rows has one. `Backed`:
every vector has its row. The order of two statements carries the proof: vectors are
deleted before rows, so that no failure between the two leaves one behind for the next
row with the same id.

`IndexMirrorsDisk` speaks of the end of a whole pass, and the invariant `Mirror` of each statement
on the way, unless callers have crossed. `RowsFollowHashes`: a file with a stored hash has the rows
of that content, but for the file that a pass is replacing. `HalfIsSeen`: a file that a failure left half replaced
has a hash that is not its content's, so that the next pass takes it up. `PassesInStep`: what a pass has walked, loaded,
and still has to do, fits the disk and the hashes (`InLists`, `InHand`), and one that began after the last
change is settled with all but what is still in its lists (`IsWhole`). The order of statements
matters here too: rows before the hash, and the hash deleted after the rows.

`WindowsAdvance` is about the pure module `Chunking`: for every length, every placement of characters of up
to four bytes, and every `max` and `overlap` more than six bytes apart, the next window starts after
the last one and not after its end; `SnapCorrect` is the lemma about
`snap_to_char_boundary`. The code has no such guard; the defaults (1600 and 320) satisfy it.

| theorem | establishes |
|---|---|
| `TypeCorrect` | types and keys, for all files, contents and callers |
| `VectorsTrue` | undisturbed, every vector is that of the text under its id, whatever statements fail |
| `IndexIsMirror` | undisturbed, after a whole pass each file's rows are the pieces of what it says |
| `WindowsAdvance` | cutting a text goes forward and leaves nothing out |

**`P2pNodeProofs`** is about `P2pNode` and about `NetworkTools`, which it includes. It assumes
`P2pAssumption` (servers and bootstrap peers are peers). The node's invariant adds to
the two properties that each circuit rides on a connection, to a relay that counts as reserved (`CircuitsRide`): that is
why the cleanup after the last connection forgets nothing that is in use. For the
requests, what the channels, the queries and the oneshot hold of a request fits the state of its
task, and a record that was handed over is in the table already.

| theorem | establishes |
|---|---|
| `PeersTracked` | the loop's set of peers follows the connections, and what was learnt of a server goes with the last of them |
| `ServersAsked` | a refusal is retried and no relay serves two circuits |
| `LookupsAnswered` | a lookup fails only when its peer was unknown and no record was sent to it |

## 6. Only model-checked

* `ShimsAreUsable`: with the code's two exceptions (a shim stored after its invalidation, and a cached
  shim with another call's port) what is left follows closely from the steps of one call, and
  no argument over many steps is needed.
* Everything about liveness (`EventQueue`, `Registry`, `McpClient`, `Tunnels`,
  `Transcript`, `FileIndex`, `Clients`, `P2pNode`, `NetworkTools`): fairness and ENABLED are out of the prover's reach.
* That `Windows` covers a text, by evaluation over short texts: it is recursive, and
  induction over data is out of the prover's reach; `Search`, over short rankings; `Procedural`, over small directories.

## 7. Not modelled, and why

* **Tool search, configuration, the other backends
  (`invoke/app.rs`, `http.rs`, `process.rs`), shell commands, network detection, key
  files**: little state, one call in and one answer out; unit tests reach them.
* **The dispatch of the router**, a match on the tool's name: its gate is in `Permissions`, what the
  tools do is in their modules.
* **Sandbox** (`clawshake-sandbox`): builds a container's arguments; correct or not by
  what the operating system does with them.
* **The HTTP client for MCP servers, login, the frame proxy**: one request per call, no shared state.
* **Addresses**: which ones a node keeps and dials (`p2p/addr.rs`), and NAT status, which sets a
  mode of libp2p.
* **The bytes of a tunnel** once it is spliced; libp2p, Kademlia, SQLite, tokio, the window system: used,
  and modelled by what the code relies on.
* **Texts**: prompts and replies of the dream pass, the generated JavaScript of code mode, what a record
  says of its tools, sizes and titles of windows.

Seen while reading, outside what the properties promise:

| where | what |
|---|---|
| `broker/invoke/events.rs:37` | `Duration::from_secs_f64` panics on a timeout too large for a `Duration`; the value is an argument of the tool |
| `broker/watcher.rs:157` | `tokio::spawn` on a thread without a runtime, under the map's write lock (the finding of `registry_kept`): the server is not shut down, `McpClient::shutdown` has no other caller, and `router.rs:225` panics at every later look at the map; tools that went with the manifest are announced to nobody |
| `broker/watcher.rs:178` | `registry.json` is not rewritten when a manifest stops parsing or loses its static tools, and of two writers the one with the older copy may rename last: the file can keep tools that the registry no longer has |
| `broker/watcher.rs:49` | two manifests that name one tool: the later load wins, and when it is unloaded the earlier one's tool does not come back until a reload |
| `core/mcp_client.rs:328` | a handshake that fails drops the client without killing its child |
| `core/mcp_client.rs:413` | the child is the shell of `sh -c` or `cmd /C`; killing it need not stop the server, and a failed kill is only logged |
| `core/mcp_client.rs:406` | a call that draws its id after `shutdown` has cleared the map waits for its timeout |
| `core/permissions.rs:444` | one `consolidate` can leave rules that the next one removes, where the test at line 1157 expects none |
| `broker/invoke/expose.rs:97` | a name exposed while no bridge runs never reaches the bridge |
| `broker/invoke/expose.rs:124` | says that existing tunnels are torn down; unexposing ends no stream that is already spliced |
| `bridge/cli.rs:127` | says that the resource `*` removes all rules of the agent; the command (line 247) removes only the rule whose resource is `*` |
| `bridge/p2p/tunnel.rs:539` | says that a declared tunnel is attempted once per appearance of its peer, and again when the peer reconnects; the loop (lines 553-593) attempts it every 5 s while the peer stays connected, which is what `AutoConnects` is about |
| `bridge/p2p/tunnel.rs:514` | the splice ends both directions when one of them ends |
| `broker/http_server/mod.rs:86`, `broker/invoke/codemode.rs:36` | say that every change of the registry is signalled; those of the expose table, and manifests replaced by ones without tools, are not signalled to sessions and code mode |
| `broker/invoke/codemode.rs:278` | in stdio mode the shim is cached with the first call's port (or with none, when `describe_tools` made it), so that a later script calls a port that is gone |
| `broker/invoke/codemode.rs:355`, `shell.rs:135` | a child whose time is up is dropped, which does not kill it without `kill_on_drop` |
| `broker/invoke/cron.rs:212` | says that a removed job stops at once; a firing under way may still be pushed, and with it one for each tick that piled up (`MissedTickBehavior::Burst` is the default) |
| `broker/invoke/spawn.rs:79` | a panic in the tool ends the task without an event |
| `broker/invoke/spawn.rs:81` | a caller that spawns and then listens without `after` misses a quick result |
| `channels/lib.rs:7` | topics match by prefix, so an agent that listens on `channel` or `channel.cli` is handed its own answers; an answer names neither its question nor its REPL |
| `broker/webview.rs:555` | a frame is loaded asynchronously: a snapshot right after a render is taken of the old document, or is lost with it and answered with a timeout after 5 s (line 670) |
| `broker/webview.rs:689` | says that no bridge script is injected; lines 703-721 inject one |
| `window/lib.rs:285` | a window that cannot be built is only logged, after the tool has answered that it is open; closing (line 293) is a request, and an open of the same label before the window is gone is skipped (line 260) |
| `bridge/p2p/mod.rs:441` | `put_record` only starts a query; two of them may reach peers in either order, so that the older record stays until the next announcement |
| `bridge/p2p/mod.rs:405` | a remote REPL listens for 120 s through a call that ends after 60 s |
| `bridge/announce.rs:5` | says that a record is published on start-up; the first tick is consumed (`p2p/mod.rs:303`) |
| `bridge/p2p/event.rs:623` | a relay counts as reserved though `listen_on` failed or its listener has closed |
| `bridge/p2p/event.rs:662` | a record is stored under the peer it names itself, which nothing compares with the key that was asked for |
| `bridge/p2p/event.rs:664` | the peer table keeps the record that came last, not the newest; an invalid first copy of a record answers the caller with an error although a valid one may follow |
| `bridge/p2p/event.rs:378` | the query on first contact is never repeated: a peer met before its first announcement is missing from `network_peers` |
| `sandbox/handle.rs:51` | the scratch directory is deleted before the child has ended |
| `memory/watch.rs:202` | a pass that failed is logged and forgotten: what it left out waits for the next file event |
| `memory/write.rs:102` | a chunk's line numbers are too high when a pass reads an entry before its newline |
| `memory/ingest/files.rs:110` | a file that became blank keeps its old chunks |
| `memory/ingest/files.rs:164` | a configured directory that does not exist counts as one without files: what was indexed from it is removed |
| `memory/ingest/dream.rs:125` | chunks that are ingested while the model answers are deleted unseen; a blank reply deletes its sources too; blank sessions and notes use up `max_sessions`, and a note's path ends the pass |
| `memory/ingest/dream.rs:187` | `batch_text` makes no progress on a line longer than `max_chars` minus the tail of the last batch, and puts one longer than `max_chars` in a batch that does not fit |
| `memory/ingest/mod.rs:94` | cutting makes no progress when `overlap` plus six is not below `max` and characters take several bytes |
| `memory/procedural.rs:107` | the default is written over every `prompt.md` that cannot be read, as one in another encoding than UTF-8, where line 103 says "absent or empty" (`OnlyUndecodableIsLost`); also over a text that is written between the reading and the seeding |
| `memory/db/search.rs:102` | each list is cut before the fusion, so a row just beyond the cut in both is lost |
| `memory/db/search.rs:126` | ids are ranked first and rows fetched later: ids of deleted rows are used again, and another process may have put a row there that neither list ranked |

## 8. Plan

Done: every module above with its run, and the proofs of section 5, which state every
safety property the runs check but `ShimsAreUsable`. Next: two frames in `Window` and two names in `Tunnels`, if the
state spaces can be brought down. The proofs cover any number of them; the runs would
cover the liveness of `Tunnels` too.
