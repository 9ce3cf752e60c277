----------------------------- MODULE ToolLists -----------------------------
(***************************************************************************)
(* Who learns of a change to the registry, and when.  Sessions of the HTTP *)
(* server are sent tools/list_changed and ask again                        *)
(* (clawshake-broker/src/http_server/mod.rs, mcp_server.rs); scripts run   *)
(* with a cached shim of all tools (invoke/codemode.rs); peers read the    *)
(* announcement that the bridge publishes in the DHT                       *)
(* (clawshake-bridge/src/announce.rs, p2p/mod.rs, watcher.rs).             *)
(*                                                                         *)
(* A change is made first and signalled later, by a try_send on a bounded  *)
(* channel that is dropped when the channel is full.  Which change is      *)
(* signalled to whom follows the callers: a manifest's tools to both       *)
(* channels, an expose and a permission to the announcer only, and tools   *)
(* that go because their manifest was replaced by one without tools, or by *)
(* one that does not parse, to nobody.  The manifest of a running MCP      *)
(* server goes, or changes, without a signal too: the watcher panics on it *)
(* (see Registry), and it notices no file from then on.                    *)
(*                                                                         *)
(* The registry and the permissions are versions here; Registry and        *)
(* Permissions say what is in them.  The announcer is the one of a bridge  *)
(* that runs in the broker's process: the broker has no channel to one     *)
(* that runs in a process of its own.  Left out: hidden tools and the      *)
(* shorter list of code mode, and what a script does with its tools.       *)
(***************************************************************************)
EXTENDS Naturals, SequencesExt

CONSTANTS
  Sessions,   \* clients of GET /sse
  Cap,        \* capacity of the channels (4)
  None,
  Budgets     \* bounds of the model: <<changes, sessions' requests in flight,
              \* calls of run_code and describe_tools, puts under way>>

\* An announcement, as far as versions go.  The permissions are looked up for
\* one tool after the other: perms is the version at the first look.
Record == [tools : Nat, perms : Nat]

ASSUME ToolListsAssumption ==
  /\ Cap \in Nat \ {0}
  /\ None \notin Nat \cup Record
  /\ Budgets \subseteq Nat \X Nat \X Nat \X Nat

VARIABLES
  mode,      \* "http", with a bridge, or "stdio", without
  budget,    \* the bounds of this behaviour
  tools,     \* version of the registry
  perms,     \* version of the permission store
  watching,  \* the manifest watcher's thread has not panicked
  owed,      \* changes made and not signalled yet
  lost,      \* history: channels on which a signal that was owed, and any
             \* after it, never came
  due,       \* history: the newest versions that each channel was, or will be, told of
  sse,       \* length of the channel to the notify task
  announce,  \* length of the channel to the announce task
  noticed,   \* the notify task has still to write to the sessions
  view,      \* view[s]: the newest list s has, 0 for none, None if s is not open
  changed,   \* sessions with a list_changed they have not acted on
  inflight,  \* inflight[s]: requests of s, oldest first, with the version they read
  cache,     \* ShimCache::inner
  calls,     \* calls[k]: where the k-th call is, and the shim it uses
  serving,   \* calls whose ephemeral server is up
  stale,     \* history: the cached shim was made before the last invalidate
  record,    \* the announcement that is being built, None when idle
  dht,       \* the channel of finished records
  puts,      \* the put queries under way, oldest first
  handed,    \* the record that was handed to Kademlia last
  published, \* the record that peers find
  failed     \* history: the last build failed, the last put_record was
             \* refused, the last query to end failed, and queries overlapped

changeVars == <<tools, perms, watching, owed, lost, due>>
sessionVars == <<noticed, view, changed, inflight>>
shimVars == <<cache, calls, serving, stale>>
putVars == <<puts, handed, published>>
announceVars == <<record, dht, putVars, failed>>
listVars == <<mode, budget, changeVars, sse, announce, sessionVars, shimVars, announceVars>>

Calls == 1 .. 2

\* The port of the broker's own server.
Main == 0

\* A record that is being built has none of its two parts at first.
Unbuilt == [tools |-> 0, perms |-> 0]

ListsInit ==
  /\ mode \in {"http", "stdio"}
  /\ budget \in Budgets
  /\ tools = 1 /\ perms = 1
  /\ watching = TRUE
  /\ owed = {} /\ lost = {}
  /\ due = [sse |-> 0, tools |-> 0, perms |-> 0]
  /\ sse = 0 /\ announce = 0
  /\ noticed = FALSE
  /\ view = [s \in Sessions |-> None]
  /\ changed = {}
  /\ inflight = [s \in Sessions |-> <<>>]
  /\ cache = None
  /\ calls = [k \in Calls |-> [at |-> "none"]]
  /\ serving = {} /\ stale = FALSE
  /\ record = None /\ dht = <<>>
  /\ puts = <<>>
  /\ handed = Unbuilt /\ published = Unbuilt
  /\ failed = [build |-> FALSE, refused |-> FALSE, put |-> FALSE, overlap |-> FALSE]
-----------------------------------------------------------------------------
(* Changes and their signals *)

MayChange == tools + perms < 2 + budget[1]

\* Static tools of a manifest are loaded, or removed, or tools of an MCP server
\* are loaded.
ManifestChanges ==
  /\ MayChange
  /\ watching
  /\ tools' = tools + 1
  /\ owed' = owed \cup {{"sse", "announce"}}
  /\ due' = [due EXCEPT !.sse = tools', !.tools = tools']
  /\ UNCHANGED <<mode, budget, perms, watching, lost, sse, announce, sessionVars, shimVars, announceVars>>

\* network_expose, network_unexpose
ExposeChanges ==
  /\ MayChange
  /\ mode = "http"
  /\ tools' = tools + 1
  /\ owed' = owed \cup {{"announce"}}
  /\ due' = [due EXCEPT !.tools = tools']
  /\ UNCHANGED <<mode, budget, perms, watching, lost, sse, announce, sessionVars, shimVars, announceVars>>

\* A manifest is replaced by one that has no tools, or that does not parse; or
\* a task loads tools and then finds the map of servers poisoned.
ToolsGoUnannounced ==
  /\ MayChange
  /\ tools' = tools + 1
  /\ UNCHANGED <<mode, budget, perms, watching, owed, lost, due, sse, announce, sessionVars, shimVars, announceVars>>

\* The manifest of a running MCP server is removed or changes: its tools go,
\* and the watcher panics before it has sent a signal.
WatcherPanics ==
  /\ MayChange
  /\ watching
  /\ tools' = tools + 1
  /\ watching' = FALSE
  /\ UNCHANGED <<mode, budget, perms, owed, lost, due, sse, announce, sessionVars, shimVars, announceVars>>

\* So do tasks that have loaded the tools of a server and have not inserted it.
SignalLost ==
  /\ ~watching
  /\ {"sse", "announce"} \in owed
  /\ owed' \in {owed, owed \ {{"sse", "announce"}}}
  /\ lost' = {"sse", "announce"}
  /\ UNCHANGED <<mode, budget, tools, perms, watching, due, sse, announce, sessionVars, shimVars, announceVars>>

\* By another process; the watcher of permissions.db, or its WAL, sees it.
PermissionsChange ==
  /\ MayChange
  /\ mode = "http"
  /\ perms' = perms + 1
  /\ owed' = owed \cup {{"announce"}}
  /\ due' = [due EXCEPT !.perms = perms']
  /\ UNCHANGED <<mode, budget, tools, watching, lost, sse, announce, sessionVars, shimVars, announceVars>>

\* try_send
TrySend(length) == IF length < Cap THEN length + 1 ELSE length

\* Changes made together are signalled together or one by one.  A signal stands
\* for every change before it.
Signal(o) ==
  /\ o \in owed
  /\ owed' \in {owed, owed \ {o}}
  /\ lost' = lost \ o
  /\ sse' = IF "sse" \in o THEN TrySend(sse) ELSE sse
  /\ announce' = IF mode = "http" THEN TrySend(announce) ELSE announce
  /\ UNCHANGED <<mode, budget, tools, perms, watching, due, sessionVars, shimVars, announceVars>>

\* ExternalAddrConfirmed: a signal without a change.
AddressConfirmed ==
  /\ mode = "http"
  /\ budget[4] > 0
  /\ announce' = TrySend(announce)
  /\ UNCHANGED <<mode, budget, changeVars, sse, sessionVars, shimVars, announceVars>>
-----------------------------------------------------------------------------
(* The notify task, which in stdio mode only drops the shim *)

\* Calls that have read the registry and not yet stored their shim.
Generating == {k \in Calls : calls[k].at = "generated"}

\* Mutant: the shim is dropped only when there is a session to tell.
BugNotify ==
  /\ sse > 0 /\ ~noticed
  /\ sse' = sse - 1
  /\ noticed' = (mode = "http")
  /\ cache' = IF \E s \in Sessions : view[s] # None THEN None ELSE cache
  /\ stale' = FALSE
  /\ calls' = [k \in Calls |->
                IF k \in Generating THEN [calls[k] EXCEPT !.old = TRUE] ELSE calls[k]]
  /\ UNCHANGED <<mode, budget, changeVars, announce, view, changed, inflight, serving, announceVars>>

\* recv, and ShimCache::invalidate
Notify ==
  /\ sse > 0 /\ ~noticed
  /\ sse' = sse - 1
  /\ noticed' = (mode = "http")
  /\ cache' = None
  /\ stale' = FALSE
  /\ calls' = [k \in Calls |->
                IF k \in Generating THEN [calls[k] EXCEPT !.old = TRUE] ELSE calls[k]]
  /\ UNCHANGED <<mode, budget, changeVars, announce, view, changed, inflight, serving, announceVars>>

Open == {s \in Sessions : view[s] # None}

\* Mutant: a session is told only while it has a request outstanding.
BugTellSessions ==
  /\ noticed
  /\ noticed' = FALSE
  /\ changed' = changed \cup {s \in Open : inflight[s] # <<>>}
  /\ UNCHANGED <<mode, budget, changeVars, sse, announce, view, inflight, shimVars, announceVars>>

\* list_changed to every session in the map.
TellSessions ==
  /\ noticed
  /\ noticed' = FALSE
  /\ changed' = changed \cup Open
  /\ UNCHANGED <<mode, budget, changeVars, sse, announce, view, inflight, shimVars, announceVars>>
-----------------------------------------------------------------------------
(* Sessions.  A client asks for the list at its start and after each       *)
(* list_changed, and keeps the answer to the request it made last.         *)

SessionOpens(s) ==
  /\ mode = "http"
  /\ budget[2] > 0
  /\ view[s] = None
  /\ view' = [view EXCEPT ![s] = 0]
  /\ UNCHANGED <<mode, budget, changeVars, sse, announce, noticed, changed, inflight, shimVars, announceVars>>

\* The stream is dropped; the session leaves the map a moment later.
SessionCloses(s) ==
  /\ s \in Open
  /\ view' = [view EXCEPT ![s] = None]
  /\ changed' = changed \ {s}
  /\ inflight' = [inflight EXCEPT ![s] = <<>>]
  /\ UNCHANGED <<mode, budget, changeVars, sse, announce, noticed, shimVars, announceVars>>

\* POST /messages: 202, and a task of its own.
SessionAsks(s) ==
  /\ s \in Open
  /\ s \in changed \/ (view[s] = 0 /\ inflight[s] = <<>>)
  /\ Len(inflight[s]) < budget[2]
  /\ changed' = changed \ {s}
  /\ inflight' = [inflight EXCEPT ![s] = Append(@, 0)]
  /\ UNCHANGED <<mode, budget, changeVars, sse, announce, noticed, view, shimVars, announceVars>>

\* tools/list: the task of the i-th request reads the registry.
ListIsRead(s, i) ==
  /\ i \in DOMAIN inflight[s]
  /\ inflight[s][i] = 0
  /\ inflight' = [inflight EXCEPT ![s][i] = tools]
  /\ UNCHANGED <<mode, budget, changeVars, sse, announce, noticed, view, changed, shimVars, announceVars>>

\* Its answer arrives, before or after those of other requests.  What was
\* asked before it does not count any more.
ListArrives(s, i) ==
  /\ i \in DOMAIN inflight[s]
  /\ inflight[s][i] # 0
  /\ view' = [view EXCEPT ![s] = inflight[s][i]]
  /\ inflight' = [inflight EXCEPT ![s] = SubSeq(@, i + 1, Len(@))]
  /\ UNCHANGED <<mode, budget, changeVars, sse, announce, noticed, changed, shimVars, announceVars>>
-----------------------------------------------------------------------------
(* Shims *)

\* invoke_run_code starts a server of its own in stdio mode.
CallStarts(k, kind) ==
  /\ k <= budget[3]
  /\ calls[k].at = "none"
  /\ LET ephemeral == mode = "stdio" /\ kind = "run_code"
     IN  /\ calls' = [calls EXCEPT ![k] =
              [at |-> "started", kind |-> kind, port |-> IF ephemeral THEN k ELSE Main]]
         /\ serving' = IF ephemeral THEN serving \cup {k} ELSE serving
  /\ UNCHANGED <<mode, budget, changeVars, sse, announce, sessionVars, cache, stale, announceVars>>

\* get_or_generate: the cached shim, or the registry is read ...
GetShim(k) ==
  /\ calls[k].at = "started"
  /\ calls' = [calls EXCEPT ![k] =
       IF cache # None
         THEN [at |-> "running", kind |-> @.kind, shim |-> cache]
         ELSE [at |-> "generated", kind |-> @.kind, old |-> FALSE,
               shim |-> [tools |-> tools, port |-> @.port]]]
  /\ UNCHANGED <<mode, budget, changeVars, sse, announce, sessionVars, cache, serving, stale, announceVars>>

\* ... and the shim made from it is stored.
StoreShim(k) ==
  /\ calls[k].at = "generated"
  /\ cache' = calls[k].shim
  /\ stale' = calls[k].old
  /\ calls' = [calls EXCEPT ![k] = [at |-> "running", kind |-> @.kind, shim |-> @.shim]]
  /\ UNCHANGED <<mode, budget, changeVars, sse, announce, sessionVars, serving, announceVars>>

\* The script ends, or its time is up; the guard is dropped.
CallEnds(k) ==
  /\ calls[k].at = "running"
  /\ calls' = [calls EXCEPT ![k] = [at |-> "over"]]
  /\ serving' = serving \ {k}
  /\ UNCHANGED <<mode, budget, changeVars, sse, announce, sessionVars, cache, stale, announceVars>>
-----------------------------------------------------------------------------
(* The announce task, and the loop that publishes *)

\* The 300 s tick, or a signal.
BuildStarts ==
  /\ mode = "http"
  /\ budget[4] > 0
  /\ record = None
  /\ \/ UNCHANGED announce
     \/ announce > 0 /\ announce' = announce - 1
  /\ record' = Unbuilt
  /\ UNCHANGED <<mode, budget, changeVars, sse, sessionVars, shimVars, dht, putVars, failed>>

\* tools_list, over HTTP
BuildLists ==
  /\ record = Unbuilt
  /\ record' = [record EXCEPT !.tools = tools]
  /\ UNCHANGED <<mode, budget, changeVars, sse, announce, sessionVars, shimVars, dht, putVars, failed>>

\* is_network_exposed of the tools listed, one lookup after the other
BuildFilters ==
  /\ record # None
  /\ record.tools # 0 /\ record.perms = 0
  /\ record' = [record EXCEPT !.perms = perms]
  /\ UNCHANGED <<mode, budget, changeVars, sse, announce, sessionVars, shimVars, dht, putVars, failed>>

\* Mutant: the signals that came during the build are thrown away.
BugBuildSends ==
  /\ record # None
  /\ record.tools # 0 /\ record.perms # 0
  /\ Len(dht) < Cap
  /\ announce' = 0
  /\ dht' = Append(dht, record)
  /\ record' = None
  /\ failed' = [failed EXCEPT !.build = FALSE]
  /\ UNCHANGED <<mode, budget, changeVars, sse, sessionVars, shimVars, putVars>>

\* The record waits for room in the channel to the loop.
BuildSends ==
  /\ record # None
  /\ record.tools # 0 /\ record.perms # 0
  /\ Len(dht) < Cap
  /\ dht' = Append(dht, record)
  /\ record' = None
  /\ failed' = [failed EXCEPT !.build = FALSE]
  /\ UNCHANGED <<mode, budget, changeVars, sse, announce, sessionVars, shimVars, putVars>>

\* tools_list failed; nothing is tried again before the next tick or signal.
BuildFails ==
  /\ record = Unbuilt
  /\ record' = None
  /\ failed' = [failed EXCEPT !.build = TRUE]
  /\ UNCHANGED <<mode, budget, changeVars, sse, announce, sessionVars, shimVars, dht, putVars>>

\* put_record keeps the record and starts a query, or refuses it.
Publish ==
  /\ dht # <<>>
  /\ Len(puts) < budget[4]
  /\ dht' = Tail(dht)
  /\ \/ /\ puts' = Append(puts, Head(dht))
        /\ handed' = Head(dht)
        /\ failed' = [failed EXCEPT !.refused = FALSE, !.put = FALSE,
                                    !.overlap = puts # <<>>]
     \/ /\ failed' = [failed EXCEPT !.refused = TRUE]
        /\ UNCHANGED <<puts, handed>>
  /\ UNCHANGED <<mode, budget, changeVars, sse, announce, sessionVars, shimVars, record, published>>

\* Queries end in any order.  One that fails may have reached some peers.
PutEnds(i) ==
  /\ i \in DOMAIN puts
  /\ puts' = RemoveAt(puts, i)
  /\ \/ published' = puts[i] /\ UNCHANGED failed
     \/ published' \in {published, puts[i]} /\ failed' = [failed EXCEPT !.put = TRUE]
  /\ UNCHANGED <<mode, budget, changeVars, sse, announce, sessionVars, shimVars, record, dht, handed>>
-----------------------------------------------------------------------------
Change ==
  \/ ManifestChanges
  \/ ExposeChanges
  \/ ToolsGoUnannounced
  \/ WatcherPanics
  \/ SignalLost
  \/ PermissionsChange
  \/ \E o \in owed : Signal(o)
  \/ AddressConfirmed

Session(s) ==
  \/ SessionOpens(s)
  \/ SessionCloses(s)
  \/ SessionAsks(s)
  \/ \E i \in DOMAIN inflight[s] : ListIsRead(s, i) \/ ListArrives(s, i)

Call(k) ==
  \/ \E kind \in {"run_code", "describe_tools"} : CallStarts(k, kind)
  \/ GetShim(k)
  \/ StoreShim(k)
  \/ CallEnds(k)

Announcer ==
  \/ BuildStarts
  \/ BuildLists
  \/ BuildFilters
  \/ BuildSends
  \/ BuildFails
  \/ Publish
  \/ \E i \in DOMAIN puts : PutEnds(i)

ListsNext ==
  \/ Change
  \/ Notify
  \/ TellSessions
  \/ \E s \in Sessions : Session(s)
  \/ \E k \in Calls : Call(k)
  \/ Announcer

ListsSpec == ListsInit /\ [][ListsNext]_listVars
-----------------------------------------------------------------------------
Told == {o \in owed : "sse" \in o} = {} /\ "sse" \notin lost /\ sse = 0 /\ ~noticed

(***************************************************************************)
(* Once the notify task has caught up, every session that has acted on     *)
(* what it was told has a list no older than the last change to a manifest *)
(* that somebody signals, whenever it opened and in whatever order its     *)
(* answers came.                                                           *)
(* (the change before its signal, the session in the map before its first  *)
(* request, and the registry read after the request)                       *)
(***************************************************************************)
SessionsAreTold ==
  Told => \A s \in Open :
            s \in changed \/ inflight[s] # <<>> \/ view[s] = 0 \/ view[s] >= due.sse

(***************************************************************************)
(* Likewise the cached shim has all the tools of that change, unless the   *)
(* call that stored it was overtaken by the invalidation; then it stays    *)
(* until the next one.  And a script that made its shim itself can call    *)
(* back for as long as it runs: the server of the port in the shim is up.  *)
(* (ShimCache between its read and its write, the server's guard)          *)
(***************************************************************************)
ShimsAreUsable ==
  /\ Told /\ cache # None /\ ~stale => cache.tools >= due.sse
  /\ \A k \in Calls :
       calls[k].at \in {"generated", "running"} /\ calls[k].kind = "run_code" =>
         /\ mode = "http" => calls[k].shim.port = Main
         /\ calls[k].shim.port = k => k \in serving

Current(r) == r.tools >= due.tools /\ r.perms >= due.perms

\* Nothing is owed to the announcer, and it has nothing left to do.
Announced ==
  /\ mode = "http" /\ budget[4] > 0
  /\ owed = {} /\ "announce" \notin lost /\ announce = 0
  /\ record = None /\ dht = <<>>

(***************************************************************************)
(* When the announcer has nothing left to do and its last attempt did not  *)
(* fail, the record it handed to Kademlia last has the tools and the       *)
(* permissions of every change that is signalled to it, though it drops    *)
(* signals and reads the two one after the other.  Peers find that record  *)
(* once its query has succeeded, if no other was under way with it: queries*)
(* that overlap may leave them an older one until the next announcement.   *)
(* (try_send on a full channel, build_record, put_record)                  *)
(***************************************************************************)
AnnouncementIsCurrent ==
  Announced /\ ~failed.build /\ ~failed.refused =>
    /\ Current(handed)
    /\ puts = <<>> /\ ~failed.put /\ ~failed.overlap => Current(published)
=============================================================================
