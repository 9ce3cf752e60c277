--------------------------- MODULE RegistryProofs ---------------------------
(***************************************************************************)
(* Proofs about the registry of tools, for every set of manifests and      *)
(* every number of changes and connection attempts: it keeps its types,    *)
(* the map of MCP servers gives out live handles only, no server is        *)
(* forgotten as long as the watcher lives, and once all is quiet the       *)
(* registry serves what the manifests say, but for the manifest that the   *)
(* watcher died on, and nothing is left to signal.  And about those who    *)
(* are told of its changes, for every number of sessions and changes:      *)
(* sessions and the network end up with the last one.                      *)
(***************************************************************************)
EXTENDS Registry, ToolLists, TLAPS

(***************************************************************************)
(* The types by what they are about, and where the loader and the tasks    *)
(* have a source in hand.                                                  *)
(***************************************************************************)
FsEvent == [src : Sources, removed : BOOLEAN]

FileTypes ==
  /\ file \in [Sources -> Content]
  /\ changes \in 0 .. MaxChanges
  /\ fsEvents \in Seq(FsEvent)

RegistryTypes ==
  /\ registry \in [Tools -> Entry]
  /\ dirty \in BOOLEAN
  /\ raced \subseteq Sources

TaskRecord == [pc : TaskPC, src : Sources \cup {NoSource}, serves : SUBSET Tools]

ServerTypes ==
  /\ servers \in [Sources -> {0} \cup TaskIds]
  /\ child \in [TaskIds -> {"none", "running", "orphan"}]
  /\ tasks \in [TaskIds -> TaskRecord]

WatcherRecord == [pc : WatcherPC, src : Sources \cup {NoSource}, content : Content,
                  changed : BOOLEAN, todo : SUBSET Sources, watching : BOOLEAN]

SnapshotTypes ==
  /\ copy \in [{0} \cup TaskIds -> [Tools -> Sources \cup {BuiltinTag, NoSource}]]
  /\ snapshot \in [Tools -> Sources \cup {BuiltinTag, NoSource}]

Types ==
  FileTypes /\ RegistryTypes /\ ServerTypes /\ watcher \in WatcherRecord /\ SnapshotTypes

LoaderHasSource ==
  /\ watcher.pc \in {"unload", "evict", "load", "spawn"} => watcher.src \in Sources
  /\ watcher.content.mcp => watcher.src \in Sources /\ watcher.pc \notin {"todo", "idle"}

TasksHaveSource == \A k \in TaskIds : tasks[k].pc # "unused" => tasks[k].src \in Sources

(***************************************************************************)
(* The process that a task is about to put into the map runs, and a task   *)
(* whose process is in the map has nothing left to do to either.           *)
(***************************************************************************)
ConnectedRuns ==
  \A k \in TaskIds : tasks[k].pc \in {"list", "load", "insert"} => child[k] = "running"

MappedIsInserted ==
  \A s \in Sources :
    servers[s] # 0 => tasks[servers[s]].pc \in {"read", "write", "signal", "done"}

\* The inductive invariant.
IInv ==
  /\ Types
  /\ LoaderHasSource
  /\ TasksHaveSource
  /\ ConnectedRuns
  /\ MappedIsInserted
  /\ HandlesAreLive
-----------------------------------------------------------------------------
(* Lemmas on the operators of the registry *)

LEMMA TypesAreTypes == Types <=> TypeOK
  BY DEF Types, FileTypes, FsEvent, RegistryTypes, ServerTypes, SnapshotTypes, WatcherRecord,
     TaskRecord, TypeOK

LEMMA AbsentIsContent == Absent \in Content /\ ~Absent.mcp
  BY DEF Absent, Content

\* Loading and unloading a source makes a registry of a registry.
LEMMA LoadedType ==
  ASSUME registry \in [Tools -> Entry], NEW s \in Sources, NEW names, NEW isMcp \in BOOLEAN
  PROVE  Loaded(s, names, isMcp) \in [Tools -> Entry]
<1>1. [src |-> s, mcp |-> isMcp] \in Entry
  BY DEF Entry
<1> QED
  BY <1>1 DEF Loaded

LEMMA UnloadedType ==
  ASSUME registry \in [Tools -> Entry], NEW s
  PROVE  Unloaded(s) \in [Tools -> Entry]
<1>1. NoEntry \in Entry
  BY DEF Entry
<1> QED
  BY <1>1 DEF Unloaded

LEMMA ListingType ==
  ASSUME registry \in [Tools -> Entry]
  PROVE  Listing \in [Tools -> Sources \cup {BuiltinTag, NoSource}]
<1>1. \A e \in Entry : e.src \in Sources \cup {BuiltinTag, NoSource}
  BY DEF Entry, NoEntry
<1> QED
  BY <1>1 DEF Listing
-----------------------------------------------------------------------------
(***************************************************************************)
(* The invariant holds initially.                                          *)
(***************************************************************************)
LEMMA InvInit == Init => IInv
<1> SUFFICES ASSUME Init PROVE IInv
  OBVIOUS
<1>1. FileTypes
  <2>1. file \in [Sources -> Content]
    BY RegistryAssumption DEF Init
  <2> QED
    BY <2>1 DEF Init, FileTypes
<1>2. RegistryTypes
  <2>1. [src |-> BuiltinTag, mcp |-> FALSE] \in Entry /\ NoEntry \in Entry
    BY DEF Entry
  <2> QED
    BY <2>1 DEF Init, RegistryTypes
<1>3. ServerTypes
  <2>1. [pc |-> "unused", src |-> NoSource, serves |-> {}] \in TaskRecord
    BY DEF TaskRecord, TaskPC
  <2> QED
    BY <2>1 DEF Init, ServerTypes
<1>4. watcher \in WatcherRecord
  BY AbsentIsContent DEF Init, WatcherRecord, WatcherPC
<1>5. SnapshotTypes
  BY DEF Init, SnapshotTypes
<1>6. \A k \in TaskIds : tasks[k].pc = "unused"
  BY DEF Init
<1>7. LoaderHasSource
  BY AbsentIsContent DEF Init, LoaderHasSource
<1>8. \A s \in Sources : servers[s] = 0
  BY DEF Init
<1> QED
  BY <1>1, <1>2, <1>3, <1>4, <1>5, <1>6, <1>7, <1>8
  DEF IInv, Types, TasksHaveSource, ConnectedRuns, MappedIsInserted, HandlesAreLive
-----------------------------------------------------------------------------
(***************************************************************************)
(* Each part of the invariant is preserved by every step.                  *)
(***************************************************************************)
LEMMA FileTypesStep == IInv /\ [Next]_vars => FileTypes'
<1> SUFFICES ASSUME FileTypes, [Next]_vars PROVE FileTypes'
  BY DEF IInv, Types
<1>1. CASE UNCHANGED <<file, changes, fsEvents>>
  BY <1>1 DEF FileTypes
<1>2. ASSUME NEW s \in Sources, NEW c \in Contents[s], ChangeFile(s, c) PROVE FileTypes'
  <2>1. changes' \in 0 .. MaxChanges
    BY <1>2, RegistryAssumption DEF ChangeFile, FileTypes
  <2>2. file' \in [Sources -> Content]
    BY <1>2, RegistryAssumption DEF ChangeFile, FileTypes
  <2>3. fsEvents' \in Seq(FsEvent)
    <3>1. [src |-> s, removed |-> ~c.there] \in FsEvent
      BY DEF FsEvent
    <3> QED
      BY <1>2, <3>1 DEF ChangeFile, FileTypes
  <2> QED
    BY <2>1, <2>2, <2>3 DEF FileTypes
<1>3. CASE TakeEvent
  BY <1>3 DEF TakeEvent, WatcherUnchanged, FileTypes
<1>6. CASE WatcherDies
  BY <1>6 DEF WatcherDies, FileTypes
<1>4. CASE Watcher
  BY <1>1, <1>3, <1>4, <1>6 DEF Watcher, InitialLoad, InitialScanDone, WatcherUnload, WatcherEvict,
     WatcherLoad, WatcherReadRegistry, WatcherWriteSnapshot, WatcherSpawn, WatcherFinish,
     WatcherUnchanged
<1>5. CASE \E k \in TaskIds : Task(k)
  BY <1>1, <1>5 DEF Task, TaskConnect, TaskFail, TaskList, TaskLoad, TaskInsert, TaskPanics,
     TaskReadRegistry, TaskWriteSnapshot, TaskSignal
<1> QED
  BY <1>1, <1>2, <1>4, <1>5 DEF Next, Operator, vars

LEMMA RegistryTypesStep == IInv /\ [Next]_vars => RegistryTypes'
<1> SUFFICES ASSUME IInv, RegistryTypes, [Next]_vars PROVE RegistryTypes'
  BY DEF IInv, Types
<1>1. CASE UNCHANGED <<registry, dirty, raced>>
  BY <1>1 DEF RegistryTypes
<1>2. CASE Operator
  BY <1>2 DEF Operator, ChangeFile, RegistryTypes
<1>3. CASE WatcherUnload
  <2>1. watcher.src \in Sources
    BY <1>3 DEF WatcherUnload, IInv, LoaderHasSource
  <2> QED
    BY <1>3, <2>1, UnloadedType DEF WatcherUnload, RegistryTypes
<1>4. CASE WatcherLoad
  <2>1. watcher.src \in Sources
    BY <1>4 DEF WatcherLoad, IInv, LoaderHasSource
  <2>2. registry' \in [Tools -> Entry]
    <3>1. registry \in [Tools -> Entry]
      BY DEF RegistryTypes
    <3>2. Loaded(watcher.src, file[watcher.src].static, FALSE) \in [Tools -> Entry]
      BY <2>1, <3>1, LoadedType
    <3> QED
      BY <1>4, <3>1, <3>2 DEF WatcherLoad
  <2>3. dirty' \in BOOLEAN
    BY <1>4 DEF WatcherLoad, RegistryTypes
  <2> QED
    BY <1>4, <2>2, <2>3 DEF WatcherLoad, RegistryTypes
<1>5. CASE WatcherFinish
  <2>1. dirty' \in BOOLEAN
    BY <1>5 DEF WatcherFinish, Unannounced
  <2> QED
    BY <1>5, <2>1 DEF WatcherFinish, RegistryTypes
<1>9. CASE WatcherDies
  <2>1. \A i \in DOMAIN fsEvents : fsEvents[i].src \in Sources
    <3>1. fsEvents \in Seq(FsEvent)
      BY DEF IInv, Types, FileTypes
    <3>2. \A i \in DOMAIN fsEvents : fsEvents[i] \in FsEvent
      BY <3>1
    <3> QED
      BY <3>2 DEF FsEvent
  <2> QED
    BY <1>9, <2>1 DEF WatcherDies, RegistryTypes
<1>6. CASE Watcher
  BY <1>1, <1>3, <1>4, <1>5, <1>6, <1>9 DEF Watcher, InitialLoad, InitialScanDone, TakeEvent,
     WatcherEvict, WatcherReadRegistry, WatcherWriteSnapshot, WatcherSpawn, WatcherUnchanged
<1>7. ASSUME NEW k \in TaskIds, TaskLoad(k) PROVE RegistryTypes'
  <2>1. tasks[k].src \in Sources
    BY <1>7 DEF TaskLoad, TaskAt, IInv, TasksHaveSource
  <2> QED
    BY <1>7, <2>1, LoadedType DEF TaskLoad, RegistryTypes
<1>8. CASE \E k \in TaskIds : Task(k)
  BY <1>1, <1>7, <1>8 DEF Task, TaskConnect, TaskFail, TaskList, TaskInsert, TaskPanics,
     TaskReadRegistry, TaskWriteSnapshot, TaskSignal, RegistryTypes
<1> QED
  BY <1>1, <1>2, <1>6, <1>8 DEF Next, vars

LEMMA ServerTypesStep == IInv /\ [Next]_vars => ServerTypes'
<1> SUFFICES ASSUME IInv, ServerTypes, [Next]_vars PROVE ServerTypes'
  BY DEF IInv, Types
<1>1. CASE UNCHANGED <<servers, child, tasks>>
  BY <1>1 DEF ServerTypes
<1>2. CASE WatcherDies
  BY <1>2 DEF WatcherDies, Evicted, Orphaned, ServerTypes
<1>3. CASE WatcherSpawn
  <2>1. watcher.src \in Sources /\ watcher.content.serves \in SUBSET Tools
    BY <1>3 DEF WatcherSpawn, IInv, LoaderHasSource, Types, WatcherRecord, Content
  <2>2. [pc |-> "connect", src |-> watcher.src, serves |-> watcher.content.serves] \in TaskRecord
    BY <2>1 DEF TaskRecord, TaskPC
  <2> QED
    BY <1>3, <2>2 DEF WatcherSpawn, ServerTypes
<1>4. CASE Operator \/ Watcher
  BY <1>1, <1>2, <1>3, <1>4 DEF Operator, ChangeFile, Watcher, InitialLoad, InitialScanDone,
     TakeEvent, WatcherUnload, WatcherEvict, WatcherLoad, WatcherReadRegistry,
     WatcherWriteSnapshot, WatcherFinish, WatcherUnchanged
<1>5. ASSUME NEW k \in TaskIds, Task(k) PROVE ServerTypes'
  <2>1. ASSUME NEW from, NEW to \in TaskPC, TaskAt(k, from, to)
        PROVE  tasks' \in [TaskIds -> TaskRecord]
    BY <2>1 DEF TaskAt, ServerTypes, TaskRecord
  <2>2. tasks' \in [TaskIds -> TaskRecord]
    BY <1>5, <2>1 DEF Task, TaskConnect, TaskFail, TaskList, TaskLoad, TaskInsert, TaskPanics,
       TaskReadRegistry, TaskWriteSnapshot, TaskSignal, TaskPC
  <2>3. child' \in [TaskIds -> {"none", "running", "orphan"}]
    BY <1>5 DEF Task, TaskConnect, TaskFail, TaskList, TaskLoad, TaskInsert, TaskPanics,
       TaskReadRegistry, TaskWriteSnapshot, TaskSignal, Orphaned, ServerTypes
  <2>4. servers' \in [Sources -> {0} \cup TaskIds]
    BY <1>5 DEF Task, TaskConnect, TaskFail, TaskList, TaskLoad, TaskInsert, TaskPanics,
       TaskReadRegistry, TaskWriteSnapshot, TaskSignal, ServerTypes
  <2> QED
    BY <2>2, <2>3, <2>4 DEF ServerTypes
<1> QED
  BY <1>1, <1>4, <1>5 DEF Next, vars

LEMMA SnapshotTypesStep == IInv /\ [Next]_vars => SnapshotTypes'
<1> SUFFICES ASSUME RegistryTypes, SnapshotTypes, [Next]_vars PROVE SnapshotTypes'
  BY DEF IInv, Types
<1>1. CASE UNCHANGED <<copy, snapshot>>
  BY <1>1 DEF SnapshotTypes
<1>2. Listing \in [Tools -> Sources \cup {BuiltinTag, NoSource}]
  BY ListingType DEF RegistryTypes
<1>3. CASE WatcherReadRegistry \/ WatcherWriteSnapshot
  BY <1>2, <1>3 DEF WatcherReadRegistry, WatcherWriteSnapshot, SnapshotTypes
<1>4. CASE Operator \/ Watcher
  BY <1>1, <1>3, <1>4 DEF Operator, ChangeFile, Watcher, InitialLoad, InitialScanDone,
     TakeEvent, WatcherUnload, WatcherEvict, WatcherDies, WatcherLoad, WatcherSpawn,
     WatcherFinish, WatcherUnchanged
<1>5. ASSUME NEW k \in TaskIds, TaskReadRegistry(k) \/ TaskWriteSnapshot(k) PROVE SnapshotTypes'
  <2>1. [t \in Tools |-> NoSource] \in [Tools -> Sources \cup {BuiltinTag, NoSource}]
    OBVIOUS
  <2>2. CASE TaskReadRegistry(k)
    BY <1>2, <2>2 DEF TaskReadRegistry, SnapshotTypes
  <2>3. CASE TaskWriteSnapshot(k)
    BY <2>1, <2>3 DEF TaskWriteSnapshot, SnapshotTypes
  <2> QED
    BY <1>5, <2>2, <2>3
<1>6. CASE \E k \in TaskIds : Task(k)
  BY <1>1, <1>5, <1>6 DEF Task, TaskConnect, TaskFail, TaskList, TaskLoad, TaskInsert, TaskPanics, TaskSignal
<1> QED
  BY <1>1, <1>4, <1>6 DEF Next, vars

LEMMA WatcherStep ==
  IInv /\ [Next]_vars => watcher' \in WatcherRecord /\ LoaderHasSource'
<1> SUFFICES ASSUME watcher \in WatcherRecord, LoaderHasSource, FileTypes, [Next]_vars
             PROVE  watcher' \in WatcherRecord /\ LoaderHasSource'
  BY DEF IInv, Types
<1> USE DEF WatcherRecord, WatcherPC, LoaderHasSource
<1>1. CASE UNCHANGED watcher
  BY <1>1
<1>2. ASSUME NEW s \in Sources, InitialLoad(s)
      PROVE  watcher' \in WatcherRecord /\ LoaderHasSource'
  BY <1>2 DEF InitialLoad
<1>3. CASE InitialScanDone
  BY <1>3 DEF InitialScanDone
<1>4. CASE TakeEvent
  <2>1. Head(fsEvents) \in FsEvent
    BY <1>4 DEF TakeEvent, FileTypes
  <2>2. Head(fsEvents).src \in Sources /\ Head(fsEvents).removed \in BOOLEAN
    BY <2>1 DEF FsEvent
  <2>3. watcher' = [watcher EXCEPT !.pc = "unload", !.src = Head(fsEvents).src,
                                   !.changed = Head(fsEvents).removed]
    BY <1>4 DEF TakeEvent
  <2> QED
    BY <2>2, <2>3
<1>5. CASE WatcherUnload
  BY <1>5 DEF WatcherUnload
<1>6. CASE WatcherEvict
  BY <1>6, AbsentIsContent DEF WatcherEvict
<1>13. CASE WatcherDies
  BY <1>13 DEF WatcherDies
<1>7. CASE WatcherLoad
  <2>1. watcher.src \in Sources /\ file[watcher.src] \in Content
    BY <1>7 DEF WatcherLoad, FileTypes
  <2>2. \E c \in Content, q \in {"spawn", "read", "finish"}, b \in BOOLEAN :
          watcher' = [watcher EXCEPT !.pc = q, !.content = c, !.changed = b]
    <3>1. (file[watcher.src].static # {}) \in BOOLEAN /\ watcher.changed \in BOOLEAN
      OBVIOUS
    <3>2. CASE file[watcher.src].there /\ file[watcher.src].parses
      BY <1>7, <2>1, <3>1, <3>2 DEF WatcherLoad
    <3>3. CASE ~(file[watcher.src].there /\ file[watcher.src].parses)
      <4>1. watcher' = [watcher EXCEPT !.pc = "finish", !.content = Absent]
        BY <1>7, <3>3 DEF WatcherLoad
      <4>2. watcher' = [watcher EXCEPT !.pc = "finish", !.content = Absent,
                                       !.changed = watcher.changed]
        BY <4>1
      <4> QED
        BY <3>1, <4>2, AbsentIsContent
    <3> QED
      BY <3>2, <3>3
  <2> QED
    BY <2>1, <2>2
<1>8. CASE WatcherReadRegistry
  BY <1>8 DEF WatcherReadRegistry
<1>9. CASE WatcherWriteSnapshot
  BY <1>9 DEF WatcherWriteSnapshot
<1>10. CASE WatcherSpawn
  BY <1>10 DEF WatcherSpawn
<1>11. CASE WatcherFinish
  <2>1. PICK q \in {"idle", "todo"}, b \in BOOLEAN :
          watcher' = [watcher EXCEPT !.pc = q, !.watching = b, !.src = NoSource,
                                     !.content = Absent, !.changed = FALSE]
    BY <1>11 DEF WatcherFinish
  <2> QED
    BY <2>1, AbsentIsContent
<1>12. CASE Operator \/ \E k \in TaskIds : Task(k)
  BY <1>1, <1>12 DEF Operator, ChangeFile, Task, TaskConnect, TaskFail, TaskList, TaskLoad,
     TaskInsert, TaskPanics, TaskReadRegistry, TaskWriteSnapshot, TaskSignal
<1> QED
  BY <1>1, <1>2, <1>3, <1>4, <1>5, <1>6, <1>7, <1>8, <1>9, <1>10, <1>11, <1>12, <1>13
  DEF Next, Watcher, vars
-----------------------------------------------------------------------------
(***************************************************************************)
(* The map of servers.  Steps of a task concern its own process, and that  *)
(* of a handle it replaces; the handle that the watcher takes out, when it *)
(* dies, is in the map under no other source.                              *)
(***************************************************************************)
Servers == TasksHaveSource /\ ConnectedRuns /\ MappedIsInserted /\ HandlesAreLive

LEMMA TaskIdsArePositive == 0 \notin TaskIds
  BY RegistryAssumption DEF TaskIds

LEMMA WhatDies ==
  ASSUME IInv, WatcherDies
  PROVE  /\ watcher.src \in Sources
         /\ servers[watcher.src] \in TaskIds
         /\ servers' = [servers EXCEPT ![watcher.src] = 0]
         /\ child' = [child EXCEPT ![servers[watcher.src]] = "orphan"]
<1> DEFINE w == watcher.src
<1>1. w \in Sources
  BY DEF WatcherDies, IInv, LoaderHasSource
<1>2. servers[w] # 0 /\ Removed(w) = {servers[w]}
  BY DEF WatcherDies, Removed
<1>3. servers \in [Sources -> {0} \cup TaskIds] /\ child \in [TaskIds -> {"none", "running", "orphan"}]
  BY DEF IInv, Types, ServerTypes
<1>4. \A s \in Sources : servers[s] = servers[w] => s = w
  <2> SUFFICES ASSUME NEW s \in Sources, servers[s] = servers[w] PROVE s = w
    OBVIOUS
  <2>1. tasks[servers[s]].src = s /\ tasks[servers[w]].src = w
    BY <1>1, <1>2 DEF IInv, HandlesAreLive
  <2> QED
    BY <2>1
<1>5. servers' = [servers EXCEPT ![w] = 0]
  BY <1>1, <1>2, <1>3, <1>4 DEF WatcherDies, Evicted
<1>6. child' = [child EXCEPT ![servers[w]] = "orphan"]
  BY <1>1, <1>2, <1>3 DEF WatcherDies, Orphaned
<1> QED
  BY <1>1, <1>2, <1>3, <1>5, <1>6

LEMMA ServersStep == IInv /\ [Next]_vars => Servers'
<1> SUFFICES ASSUME IInv, ServerTypes, Servers, [Next]_vars PROVE Servers'
  BY DEF IInv, Types, Servers
<1> USE TaskIdsArePositive
    DEF Servers, TasksHaveSource, ConnectedRuns, MappedIsInserted, HandlesAreLive
<1>1. CASE UNCHANGED <<servers, child, tasks>>
  BY <1>1
<1>2. CASE WatcherDies
  <2> DEFINE w == watcher.src
  <2>1. /\ w \in Sources
        /\ servers' = [servers EXCEPT ![w] = 0]
        /\ child' = [child EXCEPT ![servers[w]] = "orphan"]
    BY <1>2, WhatDies
  <2>2. /\ \A s \in Sources : servers'[s] = IF s = w THEN 0 ELSE servers[s]
        /\ \A k \in TaskIds : child'[k] = IF servers[w] = k THEN "orphan" ELSE child[k]
        /\ UNCHANGED tasks
    BY <1>2, <2>1 DEF WatcherDies, ServerTypes
  <2>3. \A s \in Sources : servers[s] # 0 => servers[s] \in TaskIds
    BY DEF ServerTypes
  <2> QED
    BY <2>1, <2>2, <2>3
<1>3. CASE WatcherSpawn
  <2>1. CASE UNCHANGED tasks
    BY <1>1, <1>3, <2>1 DEF WatcherSpawn
  <2>2. CASE \E k \in TaskIds : /\ tasks[k].pc = "unused"
                                /\ tasks' = [tasks EXCEPT ![k] =
                                     [pc |-> "connect", src |-> watcher.src,
                                      serves |-> watcher.content.serves]]
    <3>1. watcher.src \in Sources /\ UNCHANGED <<servers, child>>
      BY <1>3 DEF WatcherSpawn, IInv, LoaderHasSource
    <3>2. \A s \in Sources : servers[s] # 0 => servers[s] \in TaskIds
      BY DEF ServerTypes
    <3> QED
      BY <2>2, <3>1, <3>2 DEF ServerTypes
  <2> QED
    BY <1>3, <2>1, <2>2 DEF WatcherSpawn
<1>4. CASE Operator \/ Watcher
  BY <1>1, <1>2, <1>3, <1>4 DEF Operator, ChangeFile, Watcher, InitialLoad, InitialScanDone,
     TakeEvent, WatcherUnload, WatcherEvict, WatcherLoad, WatcherReadRegistry,
     WatcherWriteSnapshot, WatcherFinish, WatcherUnchanged
<1>5. ASSUME NEW k \in TaskIds, Task(k) PROVE Servers'
  <2>1. \A s \in Sources : servers[s] # 0 => servers[s] \in TaskIds
    BY DEF ServerTypes
  <2>2. ASSUME NEW from, NEW to, TaskAt(k, from, to)
        PROVE  /\ tasks[k].pc = from
               /\ \A j \in TaskIds : /\ tasks'[j].src = tasks[j].src
                                     /\ tasks'[j].pc = IF j = k THEN to ELSE tasks[j].pc
    BY <2>2 DEF TaskAt, ServerTypes, TaskRecord
  <2>3. CASE TaskConnect(k)
    BY <2>1, <2>2, <2>3 DEF TaskConnect, ServerTypes
  <2>4. CASE TaskFail(k)
    <3>1. CASE TaskAt(k, "connect", "failed") /\ child' = child
      BY <2>1, <2>2, <2>4, <3>1 DEF TaskFail
    <3>2. CASE TaskAt(k, "connect", "failed") /\ child' = [child EXCEPT ![k] = "orphan"]
      BY <2>1, <2>2, <2>4, <3>2 DEF TaskFail, ServerTypes
    <3>3. CASE TaskAt(k, "list", "failed") /\ child' = [child EXCEPT ![k] = "orphan"]
      BY <2>1, <2>2, <2>4, <3>3 DEF TaskFail, ServerTypes
    <3> QED
      BY <2>4, <3>1, <3>2, <3>3 DEF TaskFail
  <2>5. CASE TaskList(k)
    BY <2>1, <2>2, <2>5 DEF TaskList
  <2>6. CASE TaskLoad(k)
    BY <2>1, <2>2, <2>6 DEF TaskLoad
  <2>7. CASE TaskInsert(k)
    <3>1. tasks[k].src \in Sources /\ child[k] = "running"
      BY <2>2, <2>7 DEF TaskInsert
    <3>2. \A s \in Sources : servers'[s] = IF s = tasks[k].src THEN k ELSE servers[s]
      BY <2>7 DEF TaskInsert, ServerTypes
    <3>3. /\ \A j \in TaskIds : /\ tasks'[j].src = tasks[j].src
                                /\ tasks'[j].pc = IF j = k THEN "read" ELSE tasks[j].pc
          /\ tasks[k].pc = "insert"
      BY <2>2, <2>7 DEF TaskInsert
    <3>4. \A j \in TaskIds :
            child'[j] = IF j = servers[tasks[k].src] THEN "orphan" ELSE child[j]
      BY <2>7 DEF TaskInsert, Orphaned
    <3>5. servers[tasks[k].src] \in TaskIds =>
            /\ tasks[servers[tasks[k].src]].pc \in {"read", "write", "signal", "done"}
            /\ tasks[servers[tasks[k].src]].src = tasks[k].src
      BY <3>1
    <3>6. TasksHaveSource'
      BY <3>3
    <3>7. ConnectedRuns'
      BY <3>3, <3>4, <3>5
    <3>8. MappedIsInserted' /\ HandlesAreLive'
      <4> SUFFICES ASSUME NEW s \in Sources, servers'[s] # 0
                   PROVE  /\ tasks'[servers'[s]].pc \in {"read", "write", "signal", "done"}
                          /\ child'[servers'[s]] = "running" /\ tasks'[servers'[s]].src = s
        OBVIOUS
      <4>1. CASE s = tasks[k].src
        BY <3>1, <3>2, <3>3, <3>4, <3>5, <4>1
      <4>2. CASE s # tasks[k].src
        <5>1. /\ servers'[s] = servers[s] /\ servers[s] \in TaskIds /\ servers[s] # k
              /\ tasks[servers[s]].src = s /\ child[servers[s]] = "running"
              /\ tasks[servers[s]].pc \in {"read", "write", "signal", "done"}
          BY <2>1, <3>2, <3>3, <4>2
        <5>2. servers[s] # servers[tasks[k].src]
          BY <3>5, <4>2, <5>1
        <5> QED
          BY <3>3, <3>4, <5>1, <5>2
      <4> QED
        BY <4>1, <4>2
    <3> QED
      BY <3>6, <3>7, <3>8
  <2>11. CASE TaskPanics(k)
    <3>1. /\ \A j \in TaskIds : /\ tasks'[j].src = tasks[j].src
                                /\ tasks'[j].pc = IF j = k THEN "panicked" ELSE tasks[j].pc
          /\ tasks[k].pc = "insert" /\ UNCHANGED servers
      BY <2>2, <2>11 DEF TaskPanics
    <3>2. \A j \in TaskIds : child'[j] = IF j = k THEN "orphan" ELSE child[j]
      BY <2>11 DEF TaskPanics, Orphaned
    <3>3. \A s \in Sources : servers[s] # k
      BY <3>1
    <3> QED
      BY <2>1, <3>1, <3>2, <3>3
  <2>8. CASE TaskReadRegistry(k)
    BY <2>1, <2>2, <2>8 DEF TaskReadRegistry
  <2>9. CASE TaskWriteSnapshot(k)
    BY <2>1, <2>2, <2>9 DEF TaskWriteSnapshot
  <2>10. CASE TaskSignal(k)
    BY <2>1, <2>2, <2>10 DEF TaskSignal
  <2> QED
    BY <1>5, <2>3, <2>4, <2>5, <2>6, <2>7, <2>8, <2>9, <2>10, <2>11 DEF Task
<1> QED
  BY <1>1, <1>4, <1>5 DEF Next, vars
-----------------------------------------------------------------------------
LEMMA InvStep == IInv /\ [Next]_vars => IInv'
  BY FileTypesStep, RegistryTypesStep, ServerTypesStep, SnapshotTypesStep, WatcherStep,
     ServersStep
  DEF IInv, Types, Servers

LEMMA Invariance == Spec => []IInv
  BY InvInit, InvStep, PTL DEF Spec

\* Every variable keeps its type.
THEOREM TypeCorrect == Spec => []TypeOK
<1>1. IInv => TypeOK
  BY TypesAreTypes DEF IInv
<1> QED
  BY Invariance, <1>1, PTL

(***************************************************************************)
(* No caller is ever given the handle of a server that had been taken out  *)
(* of the map, or replaced in it, or of another manifest's server.         *)
(***************************************************************************)
THEOREM HandlesStayLive == Spec => []HandlesAreLive
<1>1. IInv => HandlesAreLive
  BY DEF IInv
<1> QED
  BY Invariance, <1>1, PTL
-----------------------------------------------------------------------------
(***************************************************************************)
(* Where the loader is.  It scans the directory before it watches, and     *)
(* handles events only then.                                               *)
(***************************************************************************)
LoaderPhases ==
  /\ watcher.watching => watcher.todo = {}
  /\ ~watcher.watching => fsEvents = <<>>
  /\ watcher.pc \in {"idle", "unload", "evict"} => watcher.watching
  /\ watcher.pc = "todo" => ~watcher.watching
  /\ watcher.pc = "dead" => watcher.todo = {}
  /\ watcher.src \notin watcher.todo
  /\ watcher.src = NoSource /\ watcher.pc # "todo" => watcher.todo = {}

LEMMA PhasesInit == Init => LoaderPhases
BY RegistryAssumption DEF Init, LoaderPhases

LEMMA PhasesStep == IInv /\ LoaderPhases /\ [Next]_vars => LoaderPhases'
<1> SUFFICES ASSUME watcher \in WatcherRecord, fsEvents \in Seq(FsEvent), LoaderPhases,
                    [Next]_vars
             PROVE  LoaderPhases'
  BY DEF IInv, Types, FileTypes
<1> USE RegistryAssumption DEF WatcherRecord, WatcherPC, LoaderPhases
<1>1. CASE UNCHANGED <<watcher, fsEvents>>
  BY <1>1
<1>2. CASE Operator
  BY <1>2 DEF Operator, ChangeFile
<1>3. CASE \E s \in Sources : InitialLoad(s)
  BY <1>3 DEF InitialLoad
<1>4. CASE InitialScanDone
  BY <1>4 DEF InitialScanDone
<1>5. CASE TakeEvent
  BY <1>5 DEF TakeEvent
<1>6. CASE WatcherUnload
  BY <1>6 DEF WatcherUnload
<1>7. CASE WatcherEvict
  BY <1>7 DEF WatcherEvict
<1>12. CASE WatcherDies
  BY <1>12 DEF WatcherDies
<1>8. CASE WatcherLoad
  <2>1. /\ watcher'.src = watcher.src /\ watcher'.todo = watcher.todo
        /\ watcher'.watching = watcher.watching
        /\ watcher'.pc \in {"spawn", "read", "finish"} /\ fsEvents' = fsEvents
    BY <1>8 DEF WatcherLoad
  <2>2. watcher.pc = "load"
    BY <1>8 DEF WatcherLoad
  <2> QED
    BY <2>1, <2>2
<1>9. CASE WatcherReadRegistry \/ WatcherWriteSnapshot \/ WatcherSpawn
  BY <1>9 DEF WatcherReadRegistry, WatcherWriteSnapshot, WatcherSpawn
<1>10. CASE WatcherFinish
  BY <1>10 DEF WatcherFinish
<1>11. CASE \E k \in TaskIds : Task(k)
  BY <1>1, <1>11 DEF Task, TaskConnect, TaskFail, TaskList, TaskLoad, TaskInsert,
     TaskPanics, TaskReadRegistry, TaskWriteSnapshot, TaskSignal
<1> QED
  BY <1>1, <1>2, <1>3, <1>4, <1>5, <1>6, <1>7, <1>8, <1>9, <1>10, <1>11, <1>12
  DEF Next, Watcher, vars
-----------------------------------------------------------------------------
(***************************************************************************)
(* What has been added and not announced has a signal to come, of the task *)
(* that added it or another, or of the loop, or a task has panicked.       *)
(***************************************************************************)
TaskToSignal == \E k \in TaskIds : tasks[k].pc \in {"insert", "read", "write", "signal"}

LoopToSignal ==
  /\ watcher.watching /\ watcher.changed
  /\ watcher.pc \in {"read", "write", "spawn", "finish"}

TaskPanicked == \E k \in TaskIds : tasks[k].pc = "panicked"

SignalToCome == dirty => TaskToSignal \/ LoopToSignal \/ TaskPanicked

\* What one step of a task's does to the tasks.
LEMMA TaskMoves ==
  ASSUME ServerTypes, NEW k \in TaskIds, NEW from, NEW to, TaskAt(k, from, to)
  PROVE  /\ tasks[k].pc = from
         /\ \A j \in TaskIds : /\ tasks'[j].src = tasks[j].src
                               /\ tasks'[j].serves = tasks[j].serves
                               /\ tasks'[j].pc = IF j = k THEN to ELSE tasks[j].pc
BY DEF TaskAt, ServerTypes, TaskRecord

LEMMA SignalInit == Init => SignalToCome
BY DEF Init, SignalToCome

LEMMA SignalStep == IInv /\ SignalToCome /\ [Next]_vars => SignalToCome'
<1> SUFFICES ASSUME watcher \in WatcherRecord, ServerTypes, SignalToCome, [Next]_vars
             PROVE  SignalToCome'
  BY DEF IInv, Types
<1> USE DEF WatcherRecord, WatcherPC, SignalToCome, LoopToSignal, TaskPanicked
<1>1. CASE UNCHANGED <<watcher, tasks, dirty>>
  BY <1>1 DEF TaskToSignal
<1>2. CASE Operator
  BY <1>1, <1>2 DEF Operator, ChangeFile
<1>3. CASE \E s \in Sources : InitialLoad(s)
  BY <1>3 DEF InitialLoad, WatcherUnchanged, TaskToSignal
<1>4. CASE InitialScanDone \/ TakeEvent
  BY <1>4 DEF InitialScanDone, TakeEvent, WatcherUnchanged, TaskToSignal
<1>5. CASE WatcherUnload \/ WatcherEvict \/ WatcherDies
  BY <1>5 DEF WatcherUnload, WatcherEvict, WatcherDies, TaskToSignal
<1>6. CASE WatcherLoad
  BY <1>6 DEF WatcherLoad, TaskToSignal
<1>7. CASE WatcherReadRegistry \/ WatcherWriteSnapshot
  BY <1>7 DEF WatcherReadRegistry, WatcherWriteSnapshot, TaskToSignal
<1>8. CASE WatcherSpawn
  <2>1. (TaskToSignal => TaskToSignal') /\ (TaskPanicked => TaskPanicked')
    BY <1>8 DEF WatcherSpawn, TaskToSignal, ServerTypes
  <2> QED
    BY <1>8, <2>1 DEF WatcherSpawn
<1>9. CASE WatcherFinish
  BY <1>9 DEF WatcherFinish, Unannounced, TaskToSignal
<1>10. ASSUME NEW k \in TaskIds, Task(k) PROVE SignalToCome'
  <2>1. CASE TaskSignal(k)
    BY <2>1 DEF TaskSignal
  <2>2. CASE TaskLoad(k)
    <3>1. TaskToSignal'
      BY <2>2, TaskMoves DEF TaskLoad, TaskToSignal
    <3> QED
      BY <3>1
  <2>3. CASE TaskInsert(k) \/ TaskReadRegistry(k) \/ TaskWriteSnapshot(k)
    <3>1. TaskToSignal'
      BY <2>3, TaskMoves DEF TaskInsert, TaskReadRegistry, TaskWriteSnapshot, TaskToSignal
    <3> QED
      BY <3>1
  <2>4. CASE TaskConnect(k) \/ TaskFail(k) \/ TaskList(k)
    <3>1. UNCHANGED <<watcher, dirty>>
      BY <2>4 DEF TaskConnect, TaskFail, TaskList
    <3>2. tasks[k].pc \in {"connect", "list"}
      BY <2>4, TaskMoves DEF TaskConnect, TaskFail, TaskList
    <3>3. \A j \in TaskIds : j # k => tasks'[j].pc = tasks[j].pc
      BY <2>4, TaskMoves DEF TaskConnect, TaskFail, TaskList
    <3>4. (TaskToSignal => TaskToSignal') /\ (TaskPanicked => TaskPanicked')
      BY <3>2, <3>3 DEF TaskToSignal
    <3> QED
      BY <3>1, <3>4
  <2>5. CASE TaskPanics(k)
    <3>1. TaskPanicked'
      BY <2>5, TaskMoves DEF TaskPanics
    <3> QED
      BY <3>1
  <2> QED
    BY <1>10, <2>1, <2>2, <2>3, <2>4, <2>5 DEF Task
<1> QED
  BY <1>1, <1>2, <1>3, <1>4, <1>5, <1>6, <1>7, <1>8, <1>9, <1>10 DEF Next, Watcher, vars

(***************************************************************************)
(* No tool that was added while watching stays unannounced, whichever of   *)
(* the loop and the tasks signals first, unless a task found the map       *)
(* poisoned between its load and its signal.                               *)
(* (the try_sends of load_file's task and of the event loop)               *)
(***************************************************************************)
THEOREM AdditionsAnnounced == Spec => []AdditionsAreAnnounced
<1>1. IInv /\ SignalToCome => AdditionsAreAnnounced
  <2> SUFFICES ASSUME IInv, SignalToCome, Settled, dirty
               PROVE  \E s \in Sources : Unreachable(s)
    BY DEF AdditionsAreAnnounced
  <2>1. PICK k \in TaskIds : tasks[k].pc = "panicked"
    BY DEF SignalToCome, Settled, TaskToSignal, LoopToSignal, TaskPanicked
  <2>2. tasks[k].src \in Sources
    BY <2>1 DEF IInv, TasksHaveSource
  <2> QED
    BY <2>1, <2>2 DEF Unreachable
<1> QED
  BY Invariance, SignalInit, SignalStep, <1>1, PTL DEF Spec
-----------------------------------------------------------------------------
(***************************************************************************)
(* Of a source that was not changed behind the loader's back at most one   *)
(* task is connecting, and only while the map has no handle: so a process  *)
(* that runs is that task's or in the map, and one that nobody can reach   *)
(* is of a task that failed or panicked, or the watcher died on its        *)
(* source.  The loader, once it has found no handle to take out, has no    *)
(* task and no handle to reckon with until it spawns the next task.        *)
(***************************************************************************)
At(s, pcs) == watcher.src = s /\ watcher.pc \in pcs

OneServer(s) ==
  /\ \A j, k \in Connecting(s) : j = k
  /\ Connecting(s) # {} => servers[s] = 0
  /\ At(s, {"evict", "load", "read", "write", "spawn", "dead"}) => Connecting(s) = {}
  /\ At(s, {"load", "read", "write", "spawn"}) => servers[s] = 0
  /\ s \in watcher.todo => Connecting(s) = {} /\ servers[s] = 0
  /\ \A k \in TaskIds :
       child[k] = "running" /\ tasks[k].src = s => k \in Connecting(s) \/ servers[s] = k
  /\ Lost(s) \/ \A k \in TaskIds :
       child[k] = "orphan" /\ tasks[k].src = s => tasks[k].pc \in {"failed", "panicked"}

NotYetStarted == \A k \in TaskIds : tasks[k].pc \in {"unused", "connect"} => child[k] = "none"

OneServerEach ==
  LoaderPhases /\ NotYetStarted /\ \A s \in Sources \ raced : OneServer(s)

LEMMA OneServerInit == Init => OneServerEach
<1> SUFFICES ASSUME Init PROVE OneServerEach
  OBVIOUS
<1>1. /\ \A k \in TaskIds : tasks[k].pc = "unused" /\ child[k] = "none"
      /\ \A s \in Sources : servers[s] = 0
      /\ watcher.pc = "todo"
  BY DEF Init
<1>2. \A s \in Sources : Connecting(s) = {}
  BY <1>1 DEF Connecting
<1> QED
  BY <1>1, <1>2, PhasesInit DEF OneServerEach, NotYetStarted, OneServer, At

\* A step of the loader, or of the operator, that leaves servers and tasks alone.
LEMMA QuietServers ==
  ASSUME NEW s \in Sources, OneServer(s), UNCHANGED <<servers, child, tasks>>,
         s \in watcher'.todo => s \in watcher.todo,
         Lost(s) => Lost(s)',
         At(s, {"evict", "load", "read", "write", "spawn", "dead"})' => Connecting(s) = {},
         At(s, {"load", "read", "write", "spawn"})' => servers[s] = 0
  PROVE  OneServer(s)'
<1>1. Connecting(s)' = Connecting(s)
  BY DEF Connecting
<1> QED
  BY <1>1 DEF OneServer

LEMMA WatcherOneServer ==
  ASSUME IInv, OneServerEach, Operator \/ Watcher, NEW s \in Sources \ raced'
  PROVE  OneServer(s)'
<1>1. s \in Sources \ raced
  BY DEF Operator, Watcher, ChangeFile, InitialLoad, InitialScanDone, TakeEvent,
     WatcherUnload, WatcherEvict, WatcherDies, WatcherLoad, WatcherReadRegistry,
     WatcherWriteSnapshot, WatcherSpawn, WatcherFinish, WatcherUnchanged
<1>2. OneServer(s) /\ LoaderPhases
  BY <1>1 DEF OneServerEach
<1>3. watcher \in WatcherRecord /\ ServerTypes /\ s # NoSource
  BY RegistryAssumption DEF IInv, Types
<1> USE DEF WatcherRecord, Lost, Poisoned
<1>4. CASE Operator
  <2>1. UNCHANGED <<servers, child, tasks, watcher>>
    BY <1>4 DEF Operator, ChangeFile
  <2>2. Connecting(s)' = Connecting(s)
    BY <2>1 DEF Connecting
  <2> QED
    BY <1>2, <2>1, <2>2 DEF OneServer, At
<1>5. ASSUME NEW r \in Sources, InitialLoad(r) PROVE OneServer(s)'
  <2>1. /\ UNCHANGED <<servers, child, tasks>> /\ r \in watcher.todo
        /\ watcher'.src = r /\ watcher'.pc = "load" /\ watcher'.todo \subseteq watcher.todo
        /\ watcher.pc = "todo"
    BY <1>3, <1>5 DEF InitialLoad, WatcherUnchanged
  <2>2. s = r => Connecting(s) = {} /\ servers[s] = 0
    BY <1>2, <2>1 DEF OneServer
  <2> QED
    BY <1>2, <2>1, <2>2, QuietServers DEF At
<1>6. CASE InitialScanDone
  BY <1>2, <1>3, <1>6, QuietServers DEF InitialScanDone, WatcherUnchanged, At
<1>7. CASE TakeEvent
  BY <1>2, <1>3, <1>7, QuietServers DEF TakeEvent, WatcherUnchanged, At
<1>8. CASE WatcherUnload
  BY <1>1, <1>2, <1>3, <1>8, QuietServers DEF WatcherUnload, At
<1>9. CASE WatcherEvict
  <2>1. /\ UNCHANGED <<servers, child, tasks>> /\ watcher.pc = "evict"
        /\ watcher'.src = watcher.src /\ watcher'.todo = watcher.todo
        /\ servers[watcher.src] = 0
    BY <1>3, <1>9 DEF WatcherEvict, Removed
  <2> QED
    BY <1>2, <2>1, QuietServers DEF OneServer, At
<1>14. CASE WatcherDies
  <2> DEFINE w == watcher.src
  <2>1. w \in Sources /\ watcher.watching /\ watcher.todo = {}
    BY <1>2, <1>14 DEF WatcherDies, IInv, LoaderHasSource, LoaderPhases
  <2>2. /\ servers[w] \in TaskIds
        /\ servers' = [servers EXCEPT ![w] = 0]
        /\ child' = [child EXCEPT ![servers[w]] = "orphan"]
    BY <1>14, WhatDies
  <2>3. /\ \A r \in Sources : servers'[r] = IF r = w THEN 0 ELSE servers[r]
        /\ \A k \in TaskIds : child'[k] = IF servers[w] = k THEN "orphan" ELSE child[k]
        /\ UNCHANGED tasks
        /\ watcher'.todo = {} /\ watcher'.src = w /\ watcher'.pc = "dead"
    BY <1>3, <1>14, <2>1, <2>2 DEF WatcherDies, ServerTypes
  <2>4. Connecting(s)' = Connecting(s)
    BY <2>3 DEF Connecting
  <2>5. s = w => Connecting(s) = {} /\ servers'[s] = 0 /\ Lost(s)'
    BY <1>2, <1>14, <2>3 DEF WatcherDies, OneServer, At
  <2>6. s # w => servers'[s] = servers[s]
    BY <2>3
  <2>7. \A k \in TaskIds : child'[k] = "running" /\ tasks[k].src = s =>
                             k \in Connecting(s) \/ servers'[s] = k
    BY <1>2, <2>3, <2>6 DEF OneServer
  <2>8. tasks[servers[w]].src = w
    BY <2>1, <2>2, TaskIdsArePositive DEF IInv, HandlesAreLive
  <2>9. Lost(s)' \/ \A k \in TaskIds :
          child'[k] = "orphan" /\ tasks[k].src = s => tasks[k].pc \in {"failed", "panicked"}
    BY <1>2, <1>14, <2>3, <2>5, <2>8 DEF OneServer, WatcherDies
  <2> HIDE DEF w
  <2>10. /\ \A j, k \in Connecting(s) : j = k
         /\ Connecting(s) # {} => servers'[s] = 0
    BY <1>2, <2>5, <2>6 DEF OneServer
  <2> QED
    BY <2>3, <2>4, <2>5, <2>7, <2>9, <2>10 DEF OneServer, At
<1>10. CASE WatcherLoad
  <2>1. /\ UNCHANGED <<servers, child, tasks>> /\ watcher.pc = "load"
        /\ watcher'.src = watcher.src /\ watcher'.todo = watcher.todo
    BY <1>3, <1>10 DEF WatcherLoad
  <2> QED
    BY <1>2, <2>1, QuietServers DEF OneServer, At
<1>11. CASE WatcherReadRegistry \/ WatcherWriteSnapshot
  BY <1>2, <1>3, <1>11, QuietServers DEF WatcherReadRegistry, WatcherWriteSnapshot, OneServer, At
<1>12. CASE WatcherSpawn
  <2>1. /\ watcher.pc = "spawn"
        /\ watcher'.pc = "finish" /\ watcher'.todo = watcher.todo /\ UNCHANGED <<servers, child>>
    BY <1>3, <1>12 DEF WatcherSpawn
  <2>2. CASE UNCHANGED tasks
    BY <1>2, <2>1, <2>2, QuietServers DEF At
  <2>3. ASSUME NEW k \in TaskIds, tasks[k].pc = "unused",
               tasks' = [tasks EXCEPT ![k] = [pc |-> "connect", src |-> watcher.src,
                                              serves |-> watcher.content.serves]]
        PROVE  OneServer(s)'
    <3>1. /\ tasks'[k].src = watcher.src /\ tasks'[k].pc = "connect"
          /\ \A j \in TaskIds \ {k} : tasks'[j] = tasks[j]
      BY <1>3, <2>3 DEF ServerTypes
    <3>2. child[k] = "none" /\ k \notin Connecting(s)
      BY <2>3 DEF OneServerEach, NotYetStarted, Connecting
    <3>3. CASE watcher.src = s
      <4>1. Connecting(s) = {} /\ servers[s] = 0 /\ s \notin watcher.todo
        BY <1>2, <1>12, <3>3 DEF WatcherSpawn, OneServer, At, LoaderPhases
      <4>2. Connecting(s)' = {k}
        BY <3>1, <3>3, <4>1 DEF Connecting
      <4>3. \A j \in TaskIds : child[j] = "running" /\ tasks'[j].src = s =>
                                 j \in {k} \/ servers[s] = j
        BY <1>2, <3>1, <4>1 DEF OneServer
      <4>4. \A j \in TaskIds : child[j] = "orphan" /\ tasks'[j].src = s =>
                                 tasks'[j].pc \in {"failed", "panicked"}
        BY <1>2, <2>1, <3>1, <3>2 DEF OneServer
      <4> QED
        BY <2>1, <4>1, <4>2, <4>3, <4>4 DEF OneServer, At
    <3>4. CASE watcher.src # s
      <4>1. Connecting(s)' = Connecting(s)
        BY <2>3, <3>1, <3>2, <3>4 DEF Connecting
      <4>2. \A j \in TaskIds : child[j] = "running" /\ tasks'[j].src = s =>
                                 j \in Connecting(s) \/ servers[s] = j
        BY <1>2, <3>1, <3>2 DEF OneServer
      <4>3. \A j \in TaskIds : child[j] = "orphan" /\ tasks'[j].src = s =>
                                 tasks'[j].pc \in {"failed", "panicked"}
        BY <1>2, <2>1, <3>1, <3>2 DEF OneServer
      <4> QED
        BY <1>2, <2>1, <4>1, <4>2, <4>3 DEF OneServer, At
    <3> QED
      BY <3>3, <3>4
  <2> QED
    BY <1>12, <2>2, <2>3 DEF WatcherSpawn
<1>13. CASE WatcherFinish
  BY <1>2, <1>3, <1>13, QuietServers DEF WatcherFinish, At
<1> QED
  BY <1>4, <1>5, <1>6, <1>7, <1>8, <1>9, <1>10, <1>11, <1>12, <1>13, <1>14
  DEF Watcher

(***************************************************************************)
(* A step of a task that goes on connecting, or has nothing to do with it. *)
(***************************************************************************)
LEMMA TaskOneServer ==
  ASSUME IInv, OneServerEach, NEW k \in TaskIds, Task(k), NEW s \in Sources \ raced'
  PROVE  OneServer(s)'
<1>1. s \in Sources \ raced /\ UNCHANGED watcher
  BY DEF Task, TaskConnect, TaskFail, TaskList, TaskLoad, TaskInsert, TaskPanics, TaskReadRegistry,
     TaskWriteSnapshot, TaskSignal
<1>2. OneServer(s) /\ NotYetStarted
  BY <1>1 DEF OneServerEach
<1>15. Lost(s)' <=> Lost(s)
  BY <1>1 DEF Lost, Poisoned
<1>3. ServerTypes /\ (\A j \in TaskIds : j # 0)
  BY RegistryAssumption DEF IInv, Types, TaskIds
<1> DEFINE busy == {"connect", "list", "load", "insert"}
\* The task's process is set to run, or left as it is, as the task goes on.
<1>4. ASSUME NEW to \in busy, tasks[k].pc \in busy, UNCHANGED servers,
             \A j \in TaskIds : /\ tasks'[j].src = tasks[j].src
                                /\ tasks'[j].pc = IF j = k THEN to ELSE tasks[j].pc,
             \A j \in TaskIds : child'[j] = child[j] \/ (j = k /\ child'[j] = "running")
      PROVE  OneServer(s)'
  <2>1. Connecting(s)' = Connecting(s)
    BY <1>4 DEF Connecting
  <2>2. \A j \in TaskIds : child'[j] = "running" /\ tasks'[j].src = s =>
                             j \in Connecting(s) \/ servers[s] = j
    BY <1>2, <1>4 DEF OneServer, Connecting
  <2>3. Lost(s)' \/ \A j \in TaskIds : child'[j] = "orphan" /\ tasks'[j].src = s =>
                                         tasks'[j].pc \in {"failed", "panicked"}
    BY <1>2, <1>4, <1>15 DEF OneServer
  <2> QED
    BY <1>1, <1>2, <1>4, <2>1, <2>2, <2>3 DEF OneServer, At
\* The task has come to an end, and left no process, or one that nobody knows.
<1>5. ASSUME NEW to \in {"failed", "panicked"}, UNCHANGED servers, child'[k] # "running",
             \A j \in TaskIds : /\ tasks'[j].src = tasks[j].src
                                /\ tasks'[j].pc = IF j = k THEN to ELSE tasks[j].pc,
             \A j \in TaskIds \ {k} : child'[j] = child[j]
      PROVE  OneServer(s)'
  <2>1. Connecting(s)' = Connecting(s) \ {k}
    BY <1>5 DEF Connecting
  <2>2. \A j \in TaskIds : child'[j] = "running" /\ tasks'[j].src = s =>
                             j \in Connecting(s)' \/ servers[s] = j
    BY <1>2, <1>5, <2>1 DEF OneServer
  <2>3. Lost(s)' \/ \A j \in TaskIds : child'[j] = "orphan" /\ tasks'[j].src = s =>
                                         tasks'[j].pc \in {"failed", "panicked"}
    BY <1>2, <1>5, <1>15 DEF OneServer
  <2> QED
    BY <1>1, <1>2, <1>5, <2>1, <2>2, <2>3 DEF OneServer, At
\* The task has its handle in the map already.
<1>6. ASSUME NEW to, to \notin busy, tasks[k].pc \notin busy \cup {"failed", "panicked"}, UNCHANGED <<servers, child>>,
             \A j \in TaskIds : /\ tasks'[j].src = tasks[j].src
                                /\ tasks'[j].pc = IF j = k THEN to ELSE tasks[j].pc
      PROVE  OneServer(s)'
  <2>1. Connecting(s)' = Connecting(s)
    BY <1>6 DEF Connecting
  <2>2. Lost(s)' \/ \A j \in TaskIds : child[j] = "orphan" /\ tasks'[j].src = s =>
                                         tasks'[j].pc \in {"failed", "panicked"}
    BY <1>2, <1>6, <1>15 DEF OneServer
  <2> QED
    BY <1>1, <1>2, <1>6, <2>1, <2>2 DEF OneServer, At
<1>7. CASE TaskConnect(k)
  <2>1. \A j \in TaskIds : child'[j] = child[j] \/ (j = k /\ child'[j] = "running")
    BY <1>3, <1>7 DEF TaskConnect, ServerTypes
  <2> QED
    BY <1>3, <1>4, <1>7, <2>1, TaskMoves DEF TaskConnect
<1>8. CASE TaskFail(k)
  <2>1. /\ TaskAt(k, "connect", "failed") \/ TaskAt(k, "list", "failed")
        /\ \A j \in TaskIds \ {k} : child'[j] = child[j]
        /\ UNCHANGED servers
    BY <1>3, <1>8 DEF TaskFail, ServerTypes
  <2>2. child'[k] # "running"
    <3>1. child'[k] = "orphan" \/ (tasks[k].pc = "connect" /\ child' = child)
      BY <1>3, <1>8 DEF TaskFail, TaskAt, ServerTypes
    <3> QED
      BY <1>2, <3>1 DEF NotYetStarted
  <2> QED
    BY <1>3, <1>5, <2>1, <2>2, TaskMoves
<1>9. CASE TaskList(k)
  BY <1>3, <1>4, <1>9, TaskMoves DEF TaskList
<1>10. CASE TaskLoad(k)
  BY <1>3, <1>4, <1>10, TaskMoves DEF TaskLoad
<1>11. CASE TaskInsert(k)
  <2>1. /\ tasks[k].pc = "insert"
        /\ \A j \in TaskIds : /\ tasks'[j].src = tasks[j].src
                              /\ tasks'[j].pc = IF j = k THEN "read" ELSE tasks[j].pc
    BY <1>3, <1>11, TaskMoves DEF TaskInsert
  <2> DEFINE r == tasks[k].src
  <2>2. r \in Sources /\ child[k] = "running"
    BY <1>11, <2>1 DEF TaskInsert, IInv, TasksHaveSource, ConnectedRuns
  <2>3. /\ \A q \in Sources : servers'[q] = IF q = r THEN k ELSE servers[q]
        /\ \A j \in TaskIds : child'[j] = IF j = servers[r] THEN "orphan" ELSE child[j]
    BY <1>3, <1>11 DEF TaskInsert, Orphaned, ServerTypes
  <2>4. Connecting(s)' = Connecting(s) \ {k}
    BY <2>1 DEF Connecting
  <2>5. CASE r = s
    <3>1. Connecting(s) = {k} /\ servers[s] = 0
      BY <1>2, <2>1, <2>5 DEF OneServer, Connecting
    <3>2. ~At(s, {"evict", "load", "read", "write", "spawn", "dead"}) /\ s \notin watcher.todo
      BY <1>2, <3>1 DEF OneServer
    <3>3. Connecting(s)' = {} /\ servers'[s] = k
      BY <1>1, <2>3, <2>4, <2>5, <3>1
    <3>4. \A j \in TaskIds : child'[j] = child[j]
      BY <1>3, <2>3, <2>5, <3>1
    <3>5. \A j \in TaskIds : child[j] = "running" /\ tasks[j].src = s => j = k
      BY <1>2, <1>3, <3>1 DEF OneServer
    <3>6. Lost(s)' \/ \A j \in TaskIds : child[j] = "orphan" /\ tasks[j].src = s =>
                                           tasks'[j].pc \in {"failed", "panicked"}
      BY <1>2, <1>15, <2>1, <2>2 DEF OneServer
    <3> QED
      BY <1>1, <2>1, <3>2, <3>3, <3>4, <3>5, <3>6 DEF OneServer, At
  <2>6. CASE r # s
    <3>1. Connecting(s)' = Connecting(s) /\ servers'[s] = servers[s]
      BY <1>1, <2>3, <2>4, <2>6 DEF Connecting
    <3>2. \A j \in TaskIds : tasks[j].src = s => child'[j] = child[j]
      <4>1. servers[r] # 0 => tasks[servers[r]].src = r
        BY <2>2 DEF IInv, HandlesAreLive
      <4> QED
        BY <1>3, <2>3, <2>6, <4>1
    <3>3. Lost(s)' \/ \A j \in TaskIds : child'[j] = "orphan" /\ tasks[j].src = s =>
                                           tasks'[j].pc \in {"failed", "panicked"}
      BY <1>2, <1>15, <2>1, <2>2, <3>2 DEF OneServer
    <3>4. \A j \in TaskIds : child'[j] = "running" /\ tasks[j].src = s =>
                               j \in Connecting(s) \/ servers[s] = j
      BY <1>2, <3>2 DEF OneServer
    <3> QED
      BY <1>1, <1>2, <2>1, <3>1, <3>3, <3>4 DEF OneServer, At
  <2> QED
    BY <2>5, <2>6
<1>16. CASE TaskPanics(k)
  <2>1. /\ TaskAt(k, "insert", "panicked") /\ UNCHANGED servers
        /\ child'[k] = "orphan" /\ \A j \in TaskIds \ {k} : child'[j] = child[j]
    BY <1>16 DEF TaskPanics, Orphaned
  <2> QED
    BY <1>3, <1>5, <2>1, TaskMoves
<1>12. CASE TaskReadRegistry(k)
  <2>1. TaskAt(k, "read", "write") /\ UNCHANGED <<servers, child>>
    BY <1>12 DEF TaskReadRegistry
  <2> QED
    BY <1>3, <1>6, <2>1, TaskMoves
<1>13. CASE TaskWriteSnapshot(k)
  <2>1. TaskAt(k, "write", "signal") /\ UNCHANGED <<servers, child>>
    BY <1>13 DEF TaskWriteSnapshot
  <2> QED
    BY <1>3, <1>6, <2>1, TaskMoves
<1>14. CASE TaskSignal(k)
  <2>1. TaskAt(k, "signal", "done") /\ UNCHANGED <<servers, child>>
    BY <1>14 DEF TaskSignal
  <2> QED
    BY <1>3, <1>6, <2>1, TaskMoves
<1> QED
  BY <1>7, <1>8, <1>9, <1>10, <1>11, <1>12, <1>13, <1>14, <1>16 DEF Task

LEMMA NotYetStartedStep == IInv /\ NotYetStarted /\ [Next]_vars => NotYetStarted'
<1> SUFFICES ASSUME IInv, NotYetStarted, [Next]_vars PROVE NotYetStarted'
  OBVIOUS
<1>1. ServerTypes
  BY DEF IInv, Types
<1>2. CASE UNCHANGED <<child, tasks>>
  BY <1>2 DEF NotYetStarted
<1>3. CASE WatcherDies
  <2> DEFINE w == watcher.src
  <2>1. /\ w \in Sources /\ servers[w] \in TaskIds
        /\ child' = [child EXCEPT ![servers[w]] = "orphan"]
    BY <1>3, WhatDies
  <2>2. tasks[servers[w]].pc \notin {"unused", "connect"}
    BY <2>1, TaskIdsArePositive DEF IInv, MappedIsInserted
  <2> QED
    BY <1>1, <1>3, <2>1, <2>2 DEF WatcherDies, NotYetStarted, ServerTypes
<1>4. CASE WatcherSpawn
  BY <1>1, <1>4 DEF WatcherSpawn, NotYetStarted, ServerTypes
<1>5. CASE Operator \/ Watcher
  BY <1>2, <1>3, <1>4, <1>5 DEF Operator, ChangeFile, Watcher, InitialLoad, InitialScanDone,
     TakeEvent, WatcherUnload, WatcherEvict, WatcherLoad, WatcherReadRegistry,
     WatcherWriteSnapshot, WatcherFinish, WatcherUnchanged
<1>6. ASSUME NEW k \in TaskIds, Task(k) PROVE NotYetStarted'
  <2>0. PICK from \in TaskPC, to \in TaskPC \ {"unused", "connect"} : TaskAt(k, from, to)
    BY <1>6 DEF Task, TaskConnect, TaskFail, TaskList, TaskLoad, TaskInsert,
       TaskPanics, TaskReadRegistry, TaskWriteSnapshot, TaskSignal, TaskPC
  <2>1. tasks'[k].pc \notin {"unused", "connect"}
    BY <1>1, <2>0, TaskMoves
  <2>2. \A j \in TaskIds \ {k} : tasks'[j].pc = tasks[j].pc
    BY <1>1, <2>0, TaskMoves
  <2>3. \A j \in TaskIds \ {k} : child'[j] = child[j] \/ tasks[j].pc \notin {"unused", "connect"}
    <3>1. CASE TaskInsert(k)
      <4>1. \A j \in TaskIds : child'[j] = child[j] \/ j = servers[tasks[k].src]
        BY <3>1 DEF TaskInsert, Orphaned
      <4>2. tasks[k].src \in Sources
        BY <3>1 DEF TaskInsert, TaskAt, IInv, TasksHaveSource
      <4>3. servers[tasks[k].src] # 0 =>
              tasks[servers[tasks[k].src]].pc \notin {"unused", "connect"}
        BY <4>2 DEF IInv, MappedIsInserted
      <4> QED
        BY <4>1, <4>3, TaskIdsArePositive
    <3>2. CASE TaskPanics(k)
      BY <3>2 DEF TaskPanics, Orphaned
    <3> QED
      BY <1>1, <1>6, <3>1, <3>2 DEF Task, TaskConnect, TaskFail, TaskList, TaskLoad, TaskInsert,
       TaskPanics, TaskReadRegistry, TaskWriteSnapshot, TaskSignal, ServerTypes
  <2> QED
    BY <2>1, <2>2, <2>3 DEF NotYetStarted
<1> QED
  BY <1>2, <1>5, <1>6 DEF Next, vars

LEMMA OneServerStep == IInv /\ OneServerEach /\ [Next]_vars => OneServerEach'
<1> SUFFICES ASSUME IInv, OneServerEach, [Next]_vars PROVE OneServerEach'
  OBVIOUS
<1>1. LoaderPhases' /\ NotYetStarted'
  BY PhasesStep, NotYetStartedStep DEF OneServerEach
<1>2. ASSUME NEW s \in Sources \ raced' PROVE OneServer(s)'
  <2>1. CASE UNCHANGED vars
    <3>1. UNCHANGED <<servers, child, tasks, watcher, raced>>
      BY <2>1 DEF vars
    <3>2. OneServer(s)
      BY <1>2, <3>1 DEF OneServerEach
    <3> QED
      BY <3>1, <3>2, QuietServers DEF OneServer, At, Lost, Poisoned
  <2> QED
    BY <1>2, <2>1, WatcherOneServer, TaskOneServer DEF Next
<1> QED
  BY <1>1, <1>2 DEF OneServerEach

LEMMA OneServerAlways == Spec => [](IInv /\ OneServerEach)
BY InvInit, InvStep, OneServerInit, OneServerStep, PTL DEF Spec

(***************************************************************************)
(* A server process is lost only by a connection that fails half-way, by   *)
(* the death of the watcher on its source, or by a map that is poisoned    *)
(* before the server is in it: no other task of that source can have       *)
(* replaced its handle.                                                    *)
(* (handle_event against the tasks of earlier versions of the manifest)    *)
(***************************************************************************)
THEOREM ServersRemembered == Spec => []NoServerForgotten
<1>1. IInv /\ OneServerEach => NoServerForgotten
  <2> SUFFICES ASSUME IInv, OneServerEach, NEW k \in TaskIds, tasks[k].src \notin raced,
                      child[k] \in {"orphan", "running"}
               PROVE  /\ child[k] = "orphan" =>
                           tasks[k].pc \in {"failed", "panicked"} \/ Lost(tasks[k].src)
                      /\ child[k] = "running" =>
                           \/ servers[tasks[k].src] = k
                           \/ /\ tasks[k].pc \in {"list", "load", "insert"}
                              /\ servers[tasks[k].src] = 0
    BY DEF NoServerForgotten
  <2>1. tasks[k].pc \notin {"unused", "connect"}
    BY DEF OneServerEach, NotYetStarted
  <2>2. OneServer(tasks[k].src)
    BY <2>1 DEF OneServerEach, IInv, TasksHaveSource
  <2> QED
    BY <2>1, <2>2 DEF OneServer, Connecting
<1> QED
  BY OneServerAlways, <1>1, PTL
-----------------------------------------------------------------------------
(***************************************************************************)
(* What the loader and the tasks have in hand is what the operator wrote.  *)
(***************************************************************************)
Written ==
  /\ \A s \in Sources : file[s] \in Contents[s]
  /\ watcher.content.mcp => watcher.content.there /\ watcher.content \in Contents[watcher.src]
  /\ \A k \in TaskIds : tasks[k].pc # "unused" =>
       \E c \in Contents[tasks[k].src] : tasks[k].serves = c.serves

LEMMA WrittenInit == Init => Written
BY AbsentIsContent DEF Init, Written

LEMMA WrittenStep == IInv /\ Written /\ [Next]_vars => Written'
<1> SUFFICES ASSUME IInv, Written, [Next]_vars PROVE Written'
  OBVIOUS
<1>1. /\ watcher \in WatcherRecord /\ ServerTypes /\ LoaderHasSource
      /\ file \in [Sources -> Content]
  BY DEF IInv, Types, FileTypes
<1> USE DEF WatcherRecord
<1>2. CASE UNCHANGED <<file, watcher, tasks>>
  BY <1>2 DEF Written
<1>3. CASE Operator
  <2>1. UNCHANGED <<watcher, tasks>> /\ \A s \in Sources : file'[s] \in Contents[s]
    BY <1>1, <1>3 DEF Operator, ChangeFile, Written
  <2> QED
    BY <2>1 DEF Written
<1>4. CASE \E s \in Sources : InitialLoad(s)
  BY <1>1, <1>4 DEF InitialLoad, WatcherUnchanged, Written, LoaderHasSource
<1>5. CASE InitialScanDone \/ TakeEvent
  <2>1. /\ UNCHANGED <<file, tasks>> /\ watcher'.content = watcher.content
        /\ watcher.pc \in {"todo", "idle"}
    BY <1>1, <1>5 DEF InitialScanDone, TakeEvent, WatcherUnchanged
  <2> QED
    BY <1>1, <2>1 DEF Written, LoaderHasSource
<1>6. CASE WatcherUnload \/ WatcherReadRegistry \/ WatcherWriteSnapshot
  BY <1>1, <1>6 DEF WatcherUnload, WatcherReadRegistry, WatcherWriteSnapshot, Written
<1>12. CASE WatcherDies
  <2>1. /\ UNCHANGED <<file, tasks>> /\ watcher'.content = watcher.content
        /\ watcher'.src = watcher.src
    BY <1>1, <1>12 DEF WatcherDies
  <2> QED
    BY <2>1 DEF Written
<1>7. CASE WatcherEvict
  <2>1. UNCHANGED <<file, tasks>> /\ watcher'.content = Absent
    BY <1>1, <1>7 DEF WatcherEvict
  <2> QED
    BY <2>1, AbsentIsContent DEF Written
<1>8. CASE WatcherLoad
  <2>1. watcher.src \in Sources /\ UNCHANGED <<file, tasks>> /\ watcher'.src = watcher.src
    BY <1>1, <1>8 DEF WatcherLoad, LoaderHasSource
  <2>2. watcher'.content = Absent \/ (watcher'.content = file[watcher.src] /\ watcher'.content.there)
    BY <1>1, <1>8 DEF WatcherLoad
  <2> QED
    BY <2>1, <2>2, AbsentIsContent DEF Written
<1>9. CASE WatcherSpawn
  <2>1. /\ UNCHANGED file /\ watcher'.src = watcher.src /\ watcher'.content = watcher.content
    BY <1>1, <1>9 DEF WatcherSpawn
  <2>2. CASE UNCHANGED tasks
    BY <2>1, <2>2 DEF Written
  <2>3. ASSUME NEW k \in TaskIds, watcher.content.mcp,
               tasks' = [tasks EXCEPT ![k] = [pc |-> "connect", src |-> watcher.src,
                                              serves |-> watcher.content.serves]]
        PROVE  Written'
    <3>1. /\ tasks'[k].src = watcher.src /\ tasks'[k].serves = watcher.content.serves
          /\ \A j \in TaskIds \ {k} : tasks'[j] = tasks[j]
      BY <1>1, <2>3 DEF ServerTypes
    <3>2. watcher.content \in Contents[watcher.src]
      BY <2>3 DEF Written
    <3>3. \A j \in TaskIds : tasks'[j].pc # "unused" =>
            \E c \in Contents[tasks'[j].src] : tasks'[j].serves = c.serves
      BY <3>1, <3>2 DEF Written
    <3> QED
      BY <2>1, <3>3 DEF Written
  <2> QED
    BY <1>9, <2>2, <2>3 DEF WatcherSpawn
<1>10. CASE WatcherFinish
  BY <1>1, <1>10, AbsentIsContent DEF WatcherFinish, Written
<1>11. ASSUME NEW k \in TaskIds, Task(k) PROVE Written'
  <2>1. UNCHANGED <<file, watcher>>
    BY <1>11 DEF Task, TaskConnect, TaskFail, TaskList, TaskLoad, TaskInsert, TaskPanics,
       TaskReadRegistry, TaskWriteSnapshot, TaskSignal
  <2>2. \E from \in TaskPC \ {"unused"}, to \in TaskPC : TaskAt(k, from, to)
    BY <1>11 DEF Task, TaskConnect, TaskFail, TaskList, TaskLoad, TaskInsert, TaskPanics,
       TaskReadRegistry, TaskWriteSnapshot, TaskSignal, TaskPC
  <2>3. \A j \in TaskIds : /\ tasks'[j].src = tasks[j].src
                           /\ tasks'[j].serves = tasks[j].serves
                           /\ tasks'[j].pc # "unused" => tasks[j].pc # "unused"
    BY <1>1, <2>2, TaskMoves
  <2> QED
    BY <2>1, <2>3 DEF Written
<1> QED
  BY <1>2, <1>3, <1>4, <1>5, <1>6, <1>7, <1>8, <1>9, <1>10, <1>11, <1>12 DEF Next, Watcher, vars
-----------------------------------------------------------------------------
(***************************************************************************)
(* How a file's last change reaches the loader.  The last event that waits *)
(* says whether the file is there; without one, the loader acts on what    *)
(* the file is.                                                            *)
(***************************************************************************)
Queued(s) == \E i \in DOMAIN fsEvents : fsEvents[i].src = s

LastEvent(s) ==
  \A i \in DOMAIN fsEvents :
    fsEvents[i].src = s /\ (\A j \in DOMAIN fsEvents : j > i => fsEvents[j].src # s) =>
      (fsEvents[i].removed <=> ~file[s].there)

LoaderKnows(s) ==
  ~Queued(s) =>
    /\ At(s, {"unload", "evict"}) /\ watcher.changed => ~file[s].there
    /\ At(s, {"read", "write", "spawn"}) =>
         IF watcher.content.there THEN watcher.content = file[s] ELSE ~file[s].there

LastEvents == \A s \in Sources : LastEvent(s)

Knowledge == LastEvents /\ \A s \in Sources \ raced : LoaderKnows(s)

LEMMA LastEventsStep == IInv /\ LoaderPhases /\ LastEvents /\ [Next]_vars => LastEvents'
<1> SUFFICES ASSUME FileTypes, LoaderPhases, LastEvents, [Next]_vars, NEW s \in Sources
             PROVE  LastEvent(s)'
  BY DEF IInv, Types, LastEvents
<1>1. LastEvent(s) /\ fsEvents \in Seq(FsEvent) /\ file \in [Sources -> Content]
  BY DEF LastEvents, FileTypes
<1>2. CASE UNCHANGED <<file, fsEvents>>
  BY <1>1, <1>2 DEF LastEvent
<1>3. ASSUME NEW r \in Sources, NEW c \in Contents[r], ChangeFile(r, c) PROVE LastEvent(s)'
  <2> DEFINE e == [src |-> r, removed |-> ~c.there]
  <2>1. file' = [file EXCEPT ![r] = c] /\ fsEvents' \in {fsEvents, Append(fsEvents, e)}
    BY <1>3 DEF ChangeFile
  <2>2. r # s => file'[s] = file[s]
    BY <1>1, <2>1
  <2>3. r = s => file'[s] = c
    BY <1>1, <2>1
  <2>4. CASE fsEvents' = Append(fsEvents, e)
    <3>1. e \in FsEvent /\ e.src = r /\ (e.removed <=> ~c.there)
      BY DEF FsEvent
    <3> HIDE DEF e
    <3>2. /\ DOMAIN fsEvents = 1 .. Len(fsEvents) /\ Len(fsEvents) \in Nat
          /\ DOMAIN fsEvents' = 1 .. (Len(fsEvents) + 1)
          /\ fsEvents'[Len(fsEvents) + 1] = e
          /\ \A i \in 1 .. Len(fsEvents) : fsEvents'[i] = fsEvents[i]
      BY <1>1, <2>4, <3>1
    <3>3. CASE r = s
      <4>1. ASSUME NEW i \in DOMAIN fsEvents', fsEvents'[i].src = s,
                   \A j \in DOMAIN fsEvents' : j > i => fsEvents'[j].src # s
            PROVE  i = Len(fsEvents) + 1
        BY <3>1, <3>2, <3>3, <4>1
      <4> QED
        BY <2>3, <3>1, <3>2, <3>3, <4>1 DEF LastEvent
    <3>4. CASE r # s
      BY <1>1, <2>2, <3>1, <3>2, <3>4 DEF LastEvent
    <3> QED
      BY <3>3, <3>4
  <2>5. CASE fsEvents' = fsEvents /\ r # s
    BY <1>1, <2>2, <2>5 DEF LastEvent
  <2>6. CASE fsEvents' = fsEvents /\ ~watcher.watching
    <3>1. fsEvents' = <<>>
      BY <2>6 DEF LoaderPhases
    <3> QED
      BY <3>1 DEF LastEvent
  <2> QED
    BY <1>3, <2>4, <2>6 DEF ChangeFile
<1>4. CASE TakeEvent
  <2>1. /\ UNCHANGED file /\ DOMAIN fsEvents = 1 .. Len(fsEvents) /\ Len(fsEvents) \in Nat
        /\ DOMAIN fsEvents' = 1 .. (Len(fsEvents) - 1)
        /\ \A i \in 1 .. (Len(fsEvents) - 1) : fsEvents'[i] = fsEvents[i + 1]
    BY <1>1, <1>4 DEF TakeEvent, WatcherUnchanged
  <2>2. ASSUME NEW i \in DOMAIN fsEvents', fsEvents'[i].src = s,
               \A j \in DOMAIN fsEvents' : j > i => fsEvents'[j].src # s
        PROVE  fsEvents'[i].removed <=> ~file'[s].there
    <3>1. i + 1 \in DOMAIN fsEvents /\ fsEvents[i + 1] = fsEvents'[i]
      BY <2>1, <2>2
    <3>2. ASSUME NEW j \in DOMAIN fsEvents, j > i + 1 PROVE fsEvents[j].src # s
      <4>1. j - 1 \in DOMAIN fsEvents' /\ j - 1 > i /\ fsEvents'[j - 1] = fsEvents[(j - 1) + 1]
        BY <2>1, <3>2
      <4>2. (j - 1) + 1 = j
        BY <2>1
      <4> QED
        BY <2>2, <4>1, <4>2
    <3> QED
      BY <1>1, <2>1, <2>2, <3>1, <3>2 DEF LastEvent
  <2> QED
    BY <2>2 DEF LastEvent
<1>7. CASE WatcherDies
  BY <1>7 DEF WatcherDies, LastEvent
<1>5. CASE Watcher
  BY <1>2, <1>4, <1>5, <1>7 DEF Watcher, InitialLoad, InitialScanDone, WatcherUnload, WatcherEvict,
     WatcherLoad, WatcherReadRegistry, WatcherWriteSnapshot, WatcherSpawn, WatcherFinish,
     WatcherUnchanged
<1>6. CASE \E k \in TaskIds : Task(k)
  BY <1>2, <1>6 DEF Task, TaskConnect, TaskFail, TaskList, TaskLoad, TaskInsert, TaskPanics,
     TaskReadRegistry, TaskWriteSnapshot, TaskSignal
<1> QED
  BY <1>2, <1>3, <1>5, <1>6 DEF Next, Operator, vars

\* A step that gives the loader nothing new to know of s, and takes no event.
LEMMA QuietKnowledge ==
  ASSUME NEW s \in Sources, LoaderKnows(s), UNCHANGED file, UNCHANGED fsEvents,
         At(s, {"unload", "evict"})' /\ watcher'.changed =>
           At(s, {"unload", "evict"}) /\ watcher.changed,
         At(s, {"read", "write", "spawn"})' =>
           At(s, {"read", "write", "spawn"}) /\ watcher'.content = watcher.content
  PROVE  LoaderKnows(s)'
BY DEF LoaderKnows, Queued

LEMMA AppendQueued ==
  ASSUME fsEvents \in Seq(FsEvent), NEW s, NEW e \in FsEvent, fsEvents' = Append(fsEvents, e)
  PROVE  Queued(s)' <=> Queued(s) \/ e.src = s
<1>1. /\ DOMAIN fsEvents = 1 .. Len(fsEvents) /\ Len(fsEvents) \in Nat
      /\ DOMAIN fsEvents' = 1 .. (Len(fsEvents) + 1)
      /\ fsEvents'[Len(fsEvents) + 1] = e
      /\ \A i \in 1 .. Len(fsEvents) : fsEvents'[i] = fsEvents[i]
  OBVIOUS
<1>2. Queued(s)' => Queued(s) \/ e.src = s
  BY <1>1 DEF Queued
<1>3. Queued(s) => Queued(s)'
  BY <1>1 DEF Queued
<1>4. e.src = s => Queued(s)'
  BY <1>1 DEF Queued
<1> QED
  BY <1>2, <1>3, <1>4

LEMMA KnowledgeStep == IInv /\ OneServerEach /\ Knowledge /\ [Next]_vars => Knowledge'
<1> SUFFICES ASSUME IInv, LoaderPhases, Knowledge, [Next]_vars, NEW s \in Sources \ raced'
             PROVE  LoaderKnows(s)'
  BY LastEventsStep DEF Knowledge, OneServerEach
<1>1. s \in Sources \ raced
  BY DEF Next, vars, Operator, Watcher, ChangeFile, InitialLoad, InitialScanDone, TakeEvent,
     WatcherUnload, WatcherEvict, WatcherDies, WatcherLoad, WatcherReadRegistry, WatcherWriteSnapshot,
     WatcherSpawn, WatcherFinish, WatcherUnchanged, Task, TaskConnect, TaskFail, TaskList,
     TaskLoad, TaskInsert, TaskPanics,
     TaskReadRegistry, TaskWriteSnapshot, TaskSignal
<1>2. /\ LoaderKnows(s) /\ LastEvent(s) /\ watcher \in WatcherRecord /\ s # NoSource
      /\ fsEvents \in Seq(FsEvent) /\ file \in [Sources -> Content] /\ ~Absent.there
  BY <1>1, RegistryAssumption DEF Knowledge, LastEvents, IInv, Types, FileTypes, Absent
<1> USE DEF WatcherRecord
<1>3. CASE UNCHANGED <<file, fsEvents, watcher>>
  BY <1>2, <1>3, QuietKnowledge DEF At
<1>4. ASSUME NEW r \in Sources, NEW c \in Contents[r], ChangeFile(r, c) PROVE LoaderKnows(s)'
  <2> DEFINE e == [src |-> r, removed |-> ~c.there]
  <2>1. file' = [file EXCEPT ![r] = c] /\ UNCHANGED watcher
    BY <1>4 DEF ChangeFile
  <2>2. CASE r # s
    <3>1. file'[s] = file[s]
      BY <1>2, <2>1, <2>2
    <3>2. Queued(s) => Queued(s)'
      <4>1. CASE fsEvents' = Append(fsEvents, e)
        <5>1. e \in FsEvent
          BY DEF FsEvent
        <5> HIDE DEF e
        <5> QED
          BY <1>2, <4>1, <5>1, AppendQueued
      <4>2. CASE fsEvents' = fsEvents
        BY <4>2 DEF Queued
      <4> QED
        BY <1>4, <4>1, <4>2 DEF ChangeFile
    <3> QED
      BY <1>2, <2>1, <3>1, <3>2 DEF LoaderKnows, At
  <2>3. CASE r = s /\ watcher.watching
    <3>1. fsEvents' = Append(fsEvents, e) /\ e \in FsEvent /\ e.src = s
      BY <1>4, <2>3 DEF ChangeFile, FsEvent
    <3> HIDE DEF e
    <3>2. Queued(s)'
      BY <1>2, <3>1, AppendQueued
    <3> QED
      BY <3>2 DEF LoaderKnows
  <2>4. CASE r = s /\ ~watcher.watching
    <3>1. YetToLoad(s)
      BY <1>4, <2>4 DEF ChangeFile
    <3>2. ~At(s, {"unload", "evict"}) /\ ~At(s, {"read", "write", "spawn"})
      BY <2>4, <3>1 DEF YetToLoad, LoaderPhases, At
    <3> QED
      BY <2>1, <3>2 DEF LoaderKnows, At
  <2> QED
    BY <2>2, <2>3, <2>4
<1>5. CASE \E r \in Sources : InitialLoad(r)
  BY <1>2, <1>5, QuietKnowledge DEF InitialLoad, WatcherUnchanged, At
<1>6. CASE InitialScanDone
  BY <1>2, <1>6, QuietKnowledge DEF InitialScanDone, WatcherUnchanged, At
<1>7. CASE TakeEvent
  <2>1. /\ watcher'.pc = "unload" /\ UNCHANGED file /\ fsEvents # <<>>
        /\ watcher'.src = fsEvents[1].src /\ watcher'.changed = fsEvents[1].removed
    BY <1>2, <1>7 DEF TakeEvent, WatcherUnchanged
  <2>2. /\ DOMAIN fsEvents = 1 .. Len(fsEvents) /\ Len(fsEvents) \in Nat \ {0}
        /\ DOMAIN fsEvents' = 1 .. (Len(fsEvents) - 1)
        /\ \A i \in 1 .. (Len(fsEvents) - 1) : fsEvents'[i] = fsEvents[i + 1]
    BY <1>2, <1>7 DEF TakeEvent
  <2>3. SUFFICES ASSUME ~Queued(s)', fsEvents[1].src = s, fsEvents[1].removed
                 PROVE  ~file[s].there
    BY <2>1 DEF LoaderKnows, At
  <2>4. ASSUME NEW j \in DOMAIN fsEvents, j > 1 PROVE fsEvents[j].src # s
    <3>1. j - 1 \in DOMAIN fsEvents' /\ fsEvents'[j - 1] = fsEvents[(j - 1) + 1]
      BY <2>2, <2>4
    <3>2. (j - 1) + 1 = j
      BY <2>2
    <3> QED
      BY <2>3, <3>1, <3>2 DEF Queued
  <2>5. 1 \in DOMAIN fsEvents
    BY <2>2
  <2> QED
    BY <1>2, <2>3, <2>4, <2>5 DEF LastEvent
<1>8. CASE WatcherUnload
  BY <1>2, <1>8, QuietKnowledge DEF WatcherUnload, At
<1>9. CASE WatcherEvict
  BY <1>2, <1>9 DEF WatcherEvict, LoaderKnows, At, Queued
<1>13. CASE WatcherDies
  BY <1>2, <1>13 DEF WatcherDies, LoaderKnows, At
<1>10. CASE WatcherLoad
  <2>1. UNCHANGED <<file, fsEvents>> /\ watcher'.src = watcher.src
    BY <1>2, <1>10 DEF WatcherLoad
  <2>2. CASE file[watcher.src].there /\ file[watcher.src].parses
    <3>1. watcher'.pc \in {"read", "spawn"} /\ watcher'.content = file[watcher.src]
      BY <1>2, <1>10, <2>2 DEF WatcherLoad
    <3> QED
      BY <2>1, <2>2, <3>1 DEF LoaderKnows, At
  <2>3. CASE ~(file[watcher.src].there /\ file[watcher.src].parses)
    <3>1. watcher'.pc = "finish"
      BY <1>2, <1>10, <2>3 DEF WatcherLoad
    <3> QED
      BY <3>1 DEF LoaderKnows, At
  <2> QED
    BY <2>2, <2>3
<1>11. CASE WatcherReadRegistry \/ WatcherWriteSnapshot \/ WatcherSpawn \/ WatcherFinish
  BY <1>2, <1>11, QuietKnowledge
     DEF WatcherReadRegistry, WatcherWriteSnapshot, WatcherSpawn, WatcherFinish, At
<1>12. CASE \E k \in TaskIds : Task(k)
  BY <1>3, <1>12 DEF Task, TaskConnect, TaskFail, TaskList, TaskLoad, TaskInsert, TaskPanics,
     TaskReadRegistry, TaskWriteSnapshot, TaskSignal
<1> QED
  BY <1>3, <1>4, <1>5, <1>6, <1>7, <1>8, <1>9, <1>10, <1>11, <1>12,
     <1>13 DEF Next, Operator, Watcher, vars

LEMMA KnowledgeInit == Init => Knowledge
BY DEF Init, Knowledge, LastEvents, LastEvent, LoaderKnows, At
-----------------------------------------------------------------------------
(***************************************************************************)
(* What the registry has of a source.  Until the loader has handled the    *)
(* last change of its file, only that none of its tools is left without a  *)
(* server, and none at all once they are unloaded; from then on, its tools *)
(* are those that the file names, and complete.  The change on which the   *)
(* watcher dies is never handled.                                          *)
(***************************************************************************)
Pending(s) == Queued(s) \/ s \in watcher.todo \/ At(s, {"unload", "evict", "load", "dead"})

Inserting(s) == \E k \in Connecting(s) : tasks[k].pc = "insert"

Failed(s) == \E k \in TaskIds : tasks[k].src = s /\ tasks[k].pc = "failed"

Cleared(s) ==
  s \in watcher.todo \/ At(s, {"evict", "load", "dead"}) => \A t \in Tools : registry[t].src # s

Backed(s) ==
  \A t \in Tools : registry[t].src = s /\ registry[t].mcp =>
    servers[s] # 0 \/ Inserting(s) \/ Unreachable(s)

Named(s, t) ==
  IF registry[t].mcp THEN t \in file[s].serves
                     ELSE file[s].there /\ file[s].parses /\ t \in file[s].static

Fresh(s) ==
  ~Pending(s) =>
    /\ \A t \in Tools : registry[t].src = s => Named(s, t)
    /\ \A k \in Connecting(s) : tasks[k].serves = file[s].serves

Complete(s) ==
  ~Pending(s) /\ file[s].there /\ file[s].parses =>
    /\ \A t \in file[s].static \cap Exclusive(s) : registry[t].src = s
    /\ servers[s] # 0 \/ Inserting(s) =>
         \A t \in file[s].serves \cap Exclusive(s) : registry[t].src = s /\ registry[t].mcp
    /\ file[s].mcp => \/ servers[s] # 0
                      \/ Connecting(s) # {}
                      \/ Failed(s) \/ Unreachable(s)
                      \/ At(s, {"read", "write", "spawn"})

InStep(s) == Cleared(s) /\ Backed(s) /\ Fresh(s) /\ Complete(s)

\* The invariant that the served manifests need.
ServedInv ==
  IInv /\ OneServerEach /\ Written /\ Knowledge /\ \A s \in Sources \ raced : InStep(s)

\* What a step of another source's does to the entries of s: it may overwrite
\* those that the other manifest names too.
LEMMA OthersLoad ==
  ASSUME registry \in [Tools -> Entry], NEW s \in Sources, NEW r \in Sources, r # s,
         NEW c \in Contents[r], NEW names, names \in {c.static, c.serves},
         NEW isMcp \in BOOLEAN, registry' = Loaded(r, names, isMcp)
  PROVE  /\ \A t \in Tools : registry'[t].src = s => registry'[t] = registry[t]
         /\ \A t \in Exclusive(s) : registry'[t] = registry[t]
BY DEF Loaded, Exclusive

LEMMA OthersUnload ==
  ASSUME registry \in [Tools -> Entry], NEW s \in Sources, NEW r \in Sources, r # s,
         registry' = Unloaded(r)
  PROVE  \A t \in Tools : registry'[t].src = s \/ registry[t].src = s =>
           registry'[t] = registry[t]
BY RegistryAssumption DEF Unloaded, NoEntry

(***************************************************************************)
(* A step that is not about s: neither its file, nor its entries, nor its  *)
(* server, nor how far its tasks are, nor what the loader has to do for it.*)
(***************************************************************************)
LEMMA OthersInStep ==
  ASSUME NEW s \in Sources, InStep(s), file'[s] = file[s], servers'[s] = servers[s],
         \A t \in Tools : registry'[t].src = s => registry'[t] = registry[t],
         \A t \in Exclusive(s) : registry[t].src = s => registry'[t] = registry[t],
         Connecting(s)' = Connecting(s),
         \A k \in Connecting(s) : /\ tasks'[k].serves = tasks[k].serves
                                  /\ tasks'[k].pc = "insert" <=> tasks[k].pc = "insert",
         Failed(s) => Failed(s)', Unreachable(s) => Unreachable(s)',
         Pending(s) => Pending(s)',
         s \in watcher'.todo \/ At(s, {"evict", "load", "dead"})' =>
           s \in watcher.todo \/ At(s, {"evict", "load", "dead"}),
         At(s, {"read", "write", "spawn"}) =>
           \/ At(s, {"read", "write", "spawn"})'
           \/ Pending(s)' \/ ~file[s].mcp \/ ~file[s].there
  PROVE  InStep(s)'
<1>1. Inserting(s)' <=> Inserting(s)
  BY DEF Inserting
<1>2. Exclusive(s) \subseteq Tools /\ Exclusive(s)' = Exclusive(s)
  BY DEF Exclusive
<1>3. Cleared(s)'
  BY DEF InStep, Cleared
<1>4. Backed(s)'
  BY <1>1 DEF InStep, Backed
<1>5. Fresh(s)'
  BY DEF InStep, Fresh, Named
<1>6. Complete(s)'
  <2> SUFFICES ASSUME ~Pending(s)', file[s].there, file[s].parses
               PROVE  /\ \A t \in file[s].static \cap Exclusive(s) : registry'[t].src = s
                      /\ servers[s] # 0 \/ Inserting(s) =>
                           \A t \in file[s].serves \cap Exclusive(s) :
                             registry'[t].src = s /\ registry'[t].mcp
                      /\ file[s].mcp => \/ servers[s] # 0
                                        \/ Connecting(s) # {}
                                        \/ Failed(s)' \/ Unreachable(s)'
                                        \/ At(s, {"read", "write", "spawn"})'
    BY <1>1, <1>2 DEF Complete
  <2> QED
    BY DEF InStep, Complete
<1> QED
  BY <1>3, <1>4, <1>5, <1>6 DEF InStep

LEMMA PendingInStep ==
  ASSUME NEW s, Pending(s)', Cleared(s)', Backed(s)'
  PROVE  InStep(s)'
BY DEF InStep, Fresh, Complete

\* The first event leaves the queue for the loader's hands.
LEMMA TakenIsPending ==
  ASSUME NEW s, fsEvents \in Seq(FsEvent), fsEvents # <<>>, fsEvents' = Tail(fsEvents),
         Queued(s)
  PROVE  Queued(s)' \/ Head(fsEvents).src = s
<1>1. /\ DOMAIN fsEvents = 1 .. Len(fsEvents) /\ Len(fsEvents) \in Nat
      /\ DOMAIN fsEvents' = 1 .. (Len(fsEvents) - 1)
      /\ \A i \in 1 .. (Len(fsEvents) - 1) : fsEvents'[i] = fsEvents[i + 1]
      /\ Head(fsEvents) = fsEvents[1]
  OBVIOUS
<1>2. PICK i \in DOMAIN fsEvents : fsEvents[i].src = s
  BY DEF Queued
<1>3. CASE i = 1
  BY <1>1, <1>2, <1>3
<1>4. CASE i # 1
  <2>1. i - 1 \in DOMAIN fsEvents' /\ fsEvents'[i - 1] = fsEvents[(i - 1) + 1] /\ (i - 1) + 1 = i
    BY <1>1, <1>2, <1>4
  <2> QED
    BY <1>2, <2>1 DEF Queued
<1> QED
  BY <1>3, <1>4

\* What the steps on s have in hand, and that nothing changes the raced sources
\* but the step that says so.
LEMMA InHand ==
  ASSUME ServedInv, [Next]_vars, NEW s \in Sources \ raced'
  PROVE  /\ s \in Sources \ raced /\ InStep(s) /\ OneServer(s) /\ LoaderKnows(s)
         /\ LoaderPhases /\ watcher \in WatcherRecord /\ s # NoSource
         /\ registry \in [Tools -> Entry] /\ fsEvents \in Seq(FsEvent)
         /\ file \in [Sources -> Content] /\ ServerTypes /\ LoaderHasSource
<1>1. s \in Sources \ raced
  BY DEF Next, vars, Operator, Watcher, ChangeFile, InitialLoad, InitialScanDone, TakeEvent,
     WatcherUnload, WatcherEvict, WatcherDies, WatcherLoad, WatcherReadRegistry, WatcherWriteSnapshot,
     WatcherSpawn, WatcherFinish, WatcherUnchanged, Task, TaskConnect, TaskFail, TaskList,
     TaskLoad, TaskInsert, TaskPanics,
     TaskReadRegistry, TaskWriteSnapshot, TaskSignal
<1> QED
  BY <1>1, RegistryAssumption
     DEF ServedInv, OneServerEach, Knowledge, IInv, Types, RegistryTypes, FileTypes

LEMMA OperatorInStep ==
  ASSUME ServedInv, NEW r \in Sources, NEW c \in Contents[r], ChangeFile(r, c),
         NEW s \in Sources \ raced'
  PROVE  InStep(s)'
<1> DEFINE e == [src |-> r, removed |-> ~c.there]
<1>1. /\ InStep(s) /\ fsEvents \in Seq(FsEvent) /\ file \in [Sources -> Content]
      /\ LoaderPhases
  BY InHand DEF Next, Operator
<1>2. /\ file' = [file EXCEPT ![r] = c]
      /\ UNCHANGED <<registry, servers, tasks, watcher>>
      /\ fsEvents' = Append(fsEvents, e) \/ (~watcher.watching /\ UNCHANGED fsEvents)
  BY DEF ChangeFile
<1>3. e \in FsEvent /\ e.src = r
  BY DEF FsEvent
<1>4. Connecting(s)' = Connecting(s)
  BY <1>2 DEF Connecting
<1>5. fsEvents' = Append(fsEvents, e) \/ UNCHANGED fsEvents => (Queued(s) => Queued(s)')
  <2> HIDE DEF e
  <2> QED
    BY <1>1, <1>3, AppendQueued DEF Queued
<1>6. CASE r # s
  <2>1. file'[s] = file[s]
    BY <1>1, <1>2, <1>6
  <2>2. Pending(s) => Pending(s)'
    BY <1>2, <1>5 DEF Pending, At
  <2> QED
    BY <1>1, <1>2, <1>4, <2>1, <2>2, OthersInStep DEF At, Failed, Unreachable
<1>7. CASE r = s
  <2>1. Pending(s)'
    <3>1. CASE watcher.watching
      <4>1. fsEvents' = Append(fsEvents, e)
        BY <3>1 DEF ChangeFile
      <4> HIDE DEF e
      <4> QED
        BY <1>1, <1>3, <1>7, <4>1, AppendQueued DEF Pending
    <3>2. CASE ~watcher.watching
      <4>1. YetToLoad(s)
        BY <1>7, <3>2 DEF ChangeFile
      <4> QED
        BY <1>2, <4>1 DEF YetToLoad, Pending, At
    <3> QED
      BY <3>1, <3>2
  <2>2. Cleared(s)' /\ Backed(s)'
    BY <1>1, <1>2, <1>4 DEF InStep, Cleared, Backed, Inserting, Unreachable, At
  <2> QED
    BY <2>1, <2>2, PendingInStep
<1> QED
  BY <1>6, <1>7

\* The steps of the loader that touch neither the registry nor the servers.
LEMMA LoaderInStep ==
  ASSUME ServedInv, NEW s \in Sources \ raced',
         \/ \E r \in Sources : InitialLoad(r)
         \/ InitialScanDone \/ TakeEvent
         \/ WatcherReadRegistry \/ WatcherWriteSnapshot \/ WatcherFinish
  PROVE  InStep(s)'
<1>1. /\ InStep(s) /\ LoaderKnows(s) /\ LoaderPhases /\ watcher \in WatcherRecord
      /\ s # NoSource /\ fsEvents \in Seq(FsEvent)
  BY InHand DEF Next, Watcher
<1>2. UNCHANGED <<file, registry, servers, tasks>>
  BY DEF InitialLoad, InitialScanDone, TakeEvent, WatcherReadRegistry, WatcherWriteSnapshot,
     WatcherFinish, WatcherUnchanged
<1>3. Connecting(s)' = Connecting(s)
      /\ (Failed(s) => Failed(s)') /\ (Unreachable(s) => Unreachable(s)')
  BY <1>2 DEF Connecting, Failed, Unreachable
<1> SUFFICES /\ Pending(s) => Pending(s)'
             /\ s \in watcher'.todo \/ At(s, {"evict", "load", "dead"})' =>
                  s \in watcher.todo \/ At(s, {"evict", "load", "dead"})
             /\ At(s, {"read", "write", "spawn"}) =>
                  \/ At(s, {"read", "write", "spawn"})'
                  \/ Pending(s)' \/ ~file[s].mcp \/ ~file[s].there
  BY <1>1, <1>2, <1>3, OthersInStep
<1> USE DEF WatcherRecord, At, Pending
<1>4. ASSUME NEW r \in Sources, InitialLoad(r)
      PROVE  /\ Pending(s) => Pending(s)'
             /\ s \in watcher'.todo \/ At(s, {"evict", "load", "dead"})' =>
                  s \in watcher.todo \/ At(s, {"evict", "load", "dead"})
             /\ ~At(s, {"read", "write", "spawn"})
  <2>1. /\ watcher.pc = "todo" /\ r \in watcher.todo /\ watcher'.todo = watcher.todo \ {r}
        /\ watcher'.pc = "load" /\ watcher'.src = r
    BY <1>1, <1>4 DEF InitialLoad
  <2>2. Queued(s)' = Queued(s)
    BY <1>4 DEF InitialLoad, Queued
  <2> QED
    BY <2>1, <2>2
<1>5. CASE InitialScanDone
  BY <1>1, <1>5 DEF InitialScanDone, Queued
<1>6. CASE TakeEvent
  <2>1. /\ watcher'.src = Head(fsEvents).src /\ watcher'.pc = "unload"
        /\ watcher'.todo = watcher.todo /\ watcher.pc = "idle"
    BY <1>1, <1>6 DEF TakeEvent
  <2>2. Queued(s) => Queued(s)' \/ Head(fsEvents).src = s
    BY <1>1, <1>6, TakenIsPending DEF TakeEvent
  <2> QED
    BY <2>1, <2>2
<1>7. CASE WatcherReadRegistry
  BY <1>1, <1>7 DEF WatcherReadRegistry, Queued
<1>8. CASE WatcherWriteSnapshot
  <2>1. /\ watcher.pc = "write" /\ watcher'.src = watcher.src /\ watcher'.todo = watcher.todo
        /\ watcher'.pc = IF watcher.content.mcp THEN "spawn" ELSE "finish"
        /\ Queued(s)' = Queued(s)
    BY <1>1, <1>8 DEF WatcherWriteSnapshot, Queued
  <2>2. At(s, {"read", "write", "spawn"}) /\ ~Queued(s) /\ ~watcher.content.mcp =>
          ~file[s].mcp \/ ~file[s].there
    BY <1>1 DEF LoaderKnows
  <2> QED
    BY <2>1, <2>2
<1>9. CASE WatcherFinish
  BY <1>1, <1>9 DEF WatcherFinish, Queued
<1> QED
  BY <1>4, <1>5, <1>6, <1>7, <1>8, <1>9

LEMMA UnloadInStep ==
  ASSUME ServedInv, WatcherUnload, NEW s \in Sources \ raced'
  PROVE  InStep(s)'
<1>1. /\ InStep(s) /\ LoaderPhases /\ watcher \in WatcherRecord /\ s # NoSource
      /\ registry \in [Tools -> Entry] /\ watcher.src \in Sources
  BY InHand DEF Next, Watcher, WatcherUnload, LoaderHasSource
<1>2. /\ UNCHANGED <<file, fsEvents, servers, tasks>> /\ registry' = Unloaded(watcher.src)
      /\ watcher.pc = "unload" /\ watcher'.pc = "evict"
      /\ watcher'.src = watcher.src /\ watcher'.todo = watcher.todo
  BY <1>1 DEF WatcherUnload
<1>3. Connecting(s)' = Connecting(s)
      /\ (Failed(s) => Failed(s)') /\ (Unreachable(s) => Unreachable(s)')
      /\ Queued(s)' = Queued(s)
  BY <1>2 DEF Connecting, Failed, Unreachable, Queued
<1>4. CASE watcher.src = s
  <2>1. \A t \in Tools : registry'[t].src # s
    BY <1>1, <1>2, <1>4 DEF Unloaded, NoEntry
  <2>2. Pending(s)'
    BY <1>2, <1>4 DEF Pending, At
  <2>3. Cleared(s)' /\ Backed(s)'
    BY <2>1 DEF Cleared, Backed
  <2> QED
    BY <2>2, <2>3, PendingInStep
<1>5. CASE watcher.src # s
  <2>1. \A t \in Tools : registry'[t].src = s \/ registry[t].src = s =>
                           registry'[t] = registry[t]
    BY <1>1, <1>2, <1>5, OthersUnload
  <2>2. Exclusive(s) \subseteq Tools
    BY DEF Exclusive
  <2> QED
    BY <1>1, <1>2, <1>3, <1>5, <2>1, <2>2, OthersInStep DEF Pending, At
<1> QED
  BY <1>4, <1>5

\* There was nothing to take out: the loader goes on.
LEMMA EvictInStep ==
  ASSUME ServedInv, WatcherEvict, NEW s \in Sources \ raced'
  PROVE  InStep(s)'
<1>1. /\ InStep(s) /\ OneServer(s) /\ LoaderKnows(s) /\ LoaderPhases
      /\ watcher \in WatcherRecord /\ s # NoSource /\ watcher.src \in Sources
  BY InHand DEF Next, Watcher, WatcherEvict, LoaderHasSource
<1>2. /\ UNCHANGED <<file, fsEvents, registry, servers, tasks>>
      /\ watcher.pc = "evict" /\ watcher'.pc = IF watcher.changed THEN "read" ELSE "load"
      /\ watcher'.src = watcher.src /\ watcher'.todo = watcher.todo
  BY <1>1 DEF WatcherEvict
<1>3. Connecting(s)' = Connecting(s) /\ Queued(s)' = Queued(s)
      /\ (Failed(s) => Failed(s)') /\ (Unreachable(s) => Unreachable(s)')
  BY <1>2 DEF Connecting, Failed, Unreachable, Queued
<1>4. CASE watcher.src = s
  <2>1. (\A t \in Tools : registry'[t].src # s) /\ Connecting(s)' = {}
    BY <1>1, <1>2, <1>3, <1>4 DEF InStep, Cleared, OneServer, At
  <2>2. Cleared(s)' /\ Backed(s)' /\ Fresh(s)'
    BY <2>1 DEF Cleared, Backed, Fresh
  <2>3. ~Pending(s)' => ~file'[s].there
    BY <1>1, <1>2, <1>3, <1>4 DEF Pending, LoaderKnows, At
  <2> QED
    BY <2>2, <2>3 DEF InStep, Complete
<1>5. CASE watcher.src # s
  BY <1>1, <1>2, <1>3, <1>5, OthersInStep DEF Pending, At
<1> QED
  BY <1>4, <1>5

\* The watcher dies: what was registered stays, but for the source it died on.
LEMMA DeathInStep ==
  ASSUME ServedInv, WatcherDies, NEW s \in Sources \ raced'
  PROVE  InStep(s)'
<1>1. /\ InStep(s) /\ OneServer(s) /\ LoaderPhases
      /\ watcher \in WatcherRecord /\ s # NoSource /\ watcher.src \in Sources /\ IInv
  BY InHand DEF Next, Watcher, WatcherDies, LoaderHasSource, ServedInv
<1>2. /\ UNCHANGED <<file, registry, tasks>>
      /\ watcher.pc = "evict" /\ watcher'.pc = "dead"
      /\ watcher'.src = watcher.src /\ watcher'.todo = watcher.todo
  BY <1>1 DEF WatcherDies
<1>3. Connecting(s)' = Connecting(s)
      /\ (Failed(s) => Failed(s)') /\ (Unreachable(s) => Unreachable(s)')
  BY <1>2 DEF Connecting, Failed, Unreachable
<1>4. ~Queued(s)
  BY DEF Queued, WatcherDies
<1>5. CASE watcher.src = s
  <2>1. \A t \in Tools : registry'[t].src # s
    BY <1>1, <1>2, <1>5 DEF InStep, Cleared, At
  <2>2. Pending(s)'
    BY <1>2, <1>5 DEF Pending, At
  <2>3. Cleared(s)' /\ Backed(s)'
    BY <2>1 DEF Cleared, Backed
  <2> QED
    BY <2>2, <2>3, PendingInStep
<1>6. CASE watcher.src # s
  <2>1. servers' = [servers EXCEPT ![watcher.src] = 0]
    BY <1>1, WhatDies
  <2>2. servers'[s] = servers[s]
    BY <1>1, <1>6, <2>1 DEF IInv, Types, ServerTypes
  <2> QED
    BY <1>1, <1>2, <1>3, <1>4, <1>6, <2>2, OthersInStep DEF Pending, At
<1> QED
  BY <1>5, <1>6

LEMMA LoadInStep ==
  ASSUME ServedInv, WatcherLoad, NEW s \in Sources \ raced'
  PROVE  InStep(s)'
<1> DEFINE c == file[watcher.src]
           sound == c.there /\ c.parses
<1>1. /\ InStep(s) /\ OneServer(s) /\ LoaderPhases
      /\ watcher \in WatcherRecord /\ s # NoSource /\ watcher.src \in Sources
      /\ registry \in [Tools -> Entry] /\ watcher.src \notin watcher.todo
  BY InHand DEF Next, Watcher, WatcherLoad, LoaderHasSource, LoaderPhases
<1>2. /\ UNCHANGED <<file, fsEvents, servers, tasks>> /\ watcher.pc = "load"
      /\ watcher'.src = watcher.src /\ watcher'.todo = watcher.todo
      /\ watcher'.pc \in IF sound THEN {"spawn", "read"} ELSE {"finish"}
      /\ registry' = IF sound THEN Loaded(watcher.src, c.static, FALSE) ELSE registry
  <2>1. UNCHANGED <<file, fsEvents, servers, tasks>> /\ watcher.pc = "load"
    BY DEF WatcherLoad
  <2>2. CASE sound
    <3>1. /\ registry' = Loaded(watcher.src, c.static, FALSE)
          /\ watcher' = [watcher EXCEPT !.pc = IF c.static = {} THEN "spawn" ELSE "read",
                                        !.content = c, !.changed = c.static # {}]
      BY <2>2 DEF WatcherLoad
    <3> QED
      BY <1>1, <2>1, <2>2, <3>1
  <2>3. CASE ~sound
    <3>1. registry' = registry /\ watcher' = [watcher EXCEPT !.pc = "finish", !.content = Absent]
      BY <2>3 DEF WatcherLoad
    <3> QED
      BY <1>1, <2>1, <2>3, <3>1
  <2> QED
    BY <2>2, <2>3
<1>3. Connecting(s)' = Connecting(s)
      /\ (Failed(s) => Failed(s)') /\ (Unreachable(s) => Unreachable(s)')
      /\ Queued(s)' = Queued(s)
  BY <1>2 DEF Connecting, Failed, Unreachable, Queued
<1>4. CASE watcher.src = s
  <2>1. /\ \A t \in Tools : registry[t].src # s
        /\ Connecting(s) = {} /\ servers[s] = 0 /\ c = file[s]
    BY <1>1, <1>2, <1>4 DEF InStep, Cleared, OneServer, At
  <2>2. ~At(s, {"evict", "load", "dead"})' /\ s \notin watcher'.todo
    BY <1>1, <1>2, <1>4 DEF At
  <2>3. CASE sound
    <3>1. registry' = Loaded(s, c.static, FALSE)
      BY <1>2, <1>4, <2>3
    <3>2. \A t \in Tools : /\ registry'[t].src = s => t \in c.static /\ ~registry'[t].mcp
                           /\ t \in c.static => registry'[t].src = s
      BY <2>1, <3>1 DEF Loaded
    <3>3. Cleared(s)' /\ Backed(s)'
      BY <2>2, <3>2 DEF Cleared, Backed
    <3>4. Fresh(s)'
      BY <1>2, <1>3, <1>4, <2>1, <2>3, <3>2 DEF Fresh, Named
    <3>5. At(s, {"read", "write", "spawn"})'
      BY <1>2, <1>4, <2>3 DEF At
    <3>6. Exclusive(s) \subseteq Tools /\ ~Inserting(s)'
      BY <1>3, <2>1 DEF Exclusive, Inserting
    <3>7. Complete(s)'
      BY <1>2, <2>1, <3>2, <3>5, <3>6 DEF Complete
    <3> QED
      BY <3>3, <3>4, <3>7 DEF InStep
  <2>4. CASE ~sound
    <3>1. \A t \in Tools : registry'[t].src # s
      BY <1>2, <2>1, <2>4
    <3>2. ~(file'[s].there /\ file'[s].parses)
      BY <1>2, <2>1, <2>4
    <3> QED
      BY <1>3, <2>1, <3>1, <3>2 DEF InStep, Cleared, Backed, Fresh, Complete
  <2> QED
    BY <2>3, <2>4
<1>5. CASE watcher.src # s
  <2>1. c \in Contents[watcher.src] /\ c.static \in {c.static, c.serves}
    BY <1>1 DEF ServedInv, Written
  <2> HIDE DEF c
  <2>2. /\ \A t \in Tools : registry'[t].src = s => registry'[t] = registry[t]
        /\ \A t \in Exclusive(s) : registry'[t] = registry[t]
    <3>1. CASE registry' = Loaded(watcher.src, c.static, FALSE)
      BY <1>1, <1>5, <2>1, <3>1, OthersLoad
    <3>2. CASE registry' = registry
      BY <3>2
    <3> QED
      BY <1>2, <3>1, <3>2
  <2> QED
    BY <1>1, <1>2, <1>3, <1>5, <2>2, OthersInStep DEF Pending, At
<1> QED
  BY <1>4, <1>5

LEMMA SpawnInStep ==
  ASSUME ServedInv, WatcherSpawn, NEW s \in Sources \ raced'
  PROVE  InStep(s)'
<1>1. /\ InStep(s) /\ OneServer(s) /\ LoaderKnows(s) /\ LoaderPhases /\ Written
      /\ watcher \in WatcherRecord /\ s # NoSource /\ watcher.src \in Sources /\ ServerTypes
  BY InHand DEF Next, Watcher, WatcherSpawn, LoaderHasSource, ServedInv
<1>2. /\ UNCHANGED <<file, fsEvents, registry, servers>>
      /\ watcher.pc = "spawn" /\ watcher'.pc = "finish"
      /\ watcher'.src = watcher.src /\ watcher'.todo = watcher.todo
  BY <1>1 DEF WatcherSpawn
<1>3. Queued(s)' = Queued(s)
  BY <1>2 DEF Queued
<1>4. watcher.src = s => Connecting(s) = {} /\ servers[s] = 0
  BY <1>1, <1>2 DEF OneServer, At
<1>5. CASE UNCHANGED tasks /\ (watcher.src = s => ~watcher.content.mcp)
  <2>1. Connecting(s)' = Connecting(s)
      /\ (Failed(s) => Failed(s)') /\ (Unreachable(s) => Unreachable(s)')
    BY <1>5 DEF Connecting, Failed, Unreachable
  <2>2. At(s, {"read", "write", "spawn"}) => Pending(s)' \/ ~file[s].mcp \/ ~file[s].there
    BY <1>1, <1>3, <1>5 DEF LoaderKnows, Pending, At
  <2> QED
    BY <1>1, <1>2, <1>3, <1>5, <2>1, <2>2, OthersInStep DEF Pending, At
<1>6. ASSUME NEW k \in TaskIds, watcher.content.mcp, tasks[k].pc = "unused",
             tasks' = [tasks EXCEPT ![k] = [pc |-> "connect", src |-> watcher.src,
                                            serves |-> watcher.content.serves]]
      PROVE  InStep(s)'
  <2>1. /\ tasks'[k].src = watcher.src /\ tasks'[k].pc = "connect"
        /\ tasks'[k].serves = watcher.content.serves
        /\ \A j \in TaskIds \ {k} : tasks'[j] = tasks[j]
    BY <1>1, <1>6 DEF ServerTypes
  <2>2. (Failed(s) => Failed(s)') /\ (Unreachable(s) => Unreachable(s)')
    BY <1>6, <2>1 DEF Failed, Unreachable
  <2>3. CASE watcher.src # s
    <3>1. Connecting(s)' = Connecting(s) /\ k \notin Connecting(s)
      BY <1>6, <2>1, <2>3 DEF Connecting
    <3>2. \A j \in Connecting(s) : tasks'[j] = tasks[j]
      BY <2>1, <3>1 DEF Connecting
    <3> QED
      BY <1>1, <1>2, <1>3, <2>2, <2>3, <3>1, <3>2, OthersInStep DEF Pending, At
  <2>4. CASE watcher.src = s
    <3>1. Connecting(s)' = {k}
      BY <1>4, <1>6, <2>1, <2>4 DEF Connecting
    <3>2. ~Inserting(s) /\ ~Inserting(s)'
      BY <1>4, <2>1, <2>4, <3>1 DEF Inserting
    <3>3. Cleared(s)' /\ Backed(s)'
      BY <1>1, <1>2, <1>4, <2>2, <2>4, <3>2 DEF InStep, Cleared, Backed, At
    <3>4. ~Pending(s)' => ~Pending(s) /\ (file[s].there => watcher.content = file[s])
                          /\ watcher.content = file[s]
      BY <1>1, <1>2, <1>3, <1>6, <2>4 DEF Pending, LoaderKnows, Written, At
    <3>5. Fresh(s)'
      BY <1>1, <1>2, <2>1, <3>1, <3>4 DEF InStep, Fresh, Named
    <3>6. Complete(s)'
      BY <1>1, <1>2, <1>4, <2>4, <3>1, <3>2, <3>4 DEF InStep, Complete, Exclusive
    <3> QED
      BY <3>3, <3>5, <3>6 DEF InStep
  <2> QED
    BY <2>3, <2>4
<1> QED
  BY <1>4, <1>5, <1>6 DEF WatcherSpawn

LEMMA TaskInStep ==
  ASSUME ServedInv, NEW k \in TaskIds, Task(k), NEW s \in Sources \ raced'
  PROVE  InStep(s)'
<1>1. /\ InStep(s) /\ OneServer(s) /\ Written /\ ServerTypes
      /\ registry \in [Tools -> Entry] /\ s # NoSource
  BY InHand DEF Next, ServedInv
<1>2. UNCHANGED <<file, fsEvents, watcher>>
  BY DEF Task, TaskConnect, TaskFail, TaskList, TaskLoad, TaskInsert, TaskPanics,
     TaskReadRegistry,
     TaskWriteSnapshot, TaskSignal
<1>3. PICK from \in TaskPC \ {"unused", "failed", "panicked"}, to \in TaskPC : TaskAt(k, from, to)
  BY DEF Task, TaskConnect, TaskFail, TaskList, TaskLoad, TaskInsert, TaskPanics,
     TaskReadRegistry,
     TaskWriteSnapshot, TaskSignal, TaskPC
<1>4. /\ tasks[k].pc = from
      /\ \A j \in TaskIds : /\ tasks'[j].src = tasks[j].src
                            /\ tasks'[j].serves = tasks[j].serves
                            /\ tasks'[j].pc = IF j = k THEN to ELSE tasks[j].pc
  BY <1>1, <1>3, TaskMoves
<1>5. tasks[k].src \in Sources
  BY <1>4 DEF ServedInv, IInv, TasksHaveSource
<1>6. Pending(s)' = Pending(s) /\ (\A pcs : At(s, pcs)' = At(s, pcs))
  BY <1>2 DEF Pending, Queued, At
<1>7. (Failed(s) => Failed(s)') /\ (Unreachable(s) => Unreachable(s)')
  BY <1>4 DEF Failed, Unreachable
<1>8. Exclusive(s) \subseteq Tools /\ Exclusive(s)' = Exclusive(s)
  BY DEF Exclusive
\* Steps that do not go past the load, and those that come after the insert.
<1>9. CASE TaskConnect(k) \/ TaskList(k) \/ TaskReadRegistry(k) \/ TaskWriteSnapshot(k)
           \/ TaskSignal(k)
  <2>1. UNCHANGED <<registry, servers>>
    BY <1>9 DEF TaskConnect, TaskList, TaskReadRegistry, TaskWriteSnapshot, TaskSignal
  <2>2. \/ tasks[k].pc \in {"connect", "list"} /\ tasks'[k].pc \in {"list", "load"}
        \/ /\ tasks[k].pc \in {"read", "write", "signal"}
           /\ tasks'[k].pc \in {"write", "signal", "done"}
    BY <1>1, <1>9, TaskMoves DEF TaskConnect, TaskList, TaskReadRegistry, TaskWriteSnapshot, TaskSignal
  <2>3. Connecting(s)' = Connecting(s)
    BY <1>4, <2>2 DEF Connecting
  <2>4. \A j \in Connecting(s) : /\ tasks'[j].serves = tasks[j].serves
                                 /\ tasks'[j].pc = "insert" <=> tasks[j].pc = "insert"
    BY <1>4, <2>2 DEF Connecting
  <2> QED
    BY <1>1, <1>2, <1>6, <1>7, <2>1, <2>3, <2>4, OthersInStep
<1>10. CASE TaskFail(k)
  <2>1. /\ UNCHANGED <<registry, servers>> /\ tasks[k].pc \in {"connect", "list"}
        /\ tasks'[k].pc = "failed"
    BY <1>1, <1>10, TaskMoves DEF TaskFail
  <2>2. Connecting(s)' = Connecting(s) \ {k}
    BY <1>4, <2>1 DEF Connecting
  <2>3. Inserting(s)' <=> Inserting(s)
    <3>1. /\ \A j \in Connecting(s) : j # k => tasks'[j].pc = tasks[j].pc
          /\ tasks[k].pc # "insert" /\ tasks'[k].pc # "insert"
      BY <1>4, <2>1 DEF Connecting
    <3> QED
      BY <2>2, <3>1 DEF Inserting
  <2>4. Cleared(s)' /\ Backed(s)'
    BY <1>1, <1>2, <1>6, <1>7, <2>1, <2>3 DEF InStep, Cleared, Backed
  <2>5. Fresh(s)'
    BY <1>1, <1>2, <1>4, <1>6, <2>1, <2>2 DEF InStep, Fresh, Named, Connecting
  <2>6. k \in Connecting(s) => Failed(s)'
    BY <1>4, <2>1 DEF Failed, Connecting
  <2>7. Connecting(s) # {} => Connecting(s)' # {} \/ Failed(s)'
    BY <2>2, <2>6
  <2>8. Complete(s)'
    BY <1>1, <1>2, <1>6, <1>7, <1>8, <2>1, <2>3, <2>7 DEF InStep, Complete
  <2> QED
    BY <2>4, <2>5, <2>8 DEF InStep
<1>11. CASE TaskLoad(k)
  <2> DEFINE names == tasks[k].serves
  <2>1. /\ UNCHANGED servers /\ tasks[k].pc = "load" /\ tasks'[k].pc = "insert"
        /\ registry' = Loaded(tasks[k].src, names, TRUE)
    BY <1>1, <1>11, TaskMoves DEF TaskLoad
  <2>2. Connecting(s)' = Connecting(s)
    BY <1>4, <2>1 DEF Connecting
  <2>3. CASE tasks[k].src # s
    <3>1. PICK c \in Contents[tasks[k].src] : names = c.serves
      BY <1>1, <2>1 DEF Written
    <3> HIDE DEF names
    <3>2. /\ \A t \in Tools : registry'[t].src = s => registry'[t] = registry[t]
          /\ \A t \in Exclusive(s) : registry'[t] = registry[t]
      <4>1. names \in {c.static, c.serves} /\ TRUE \in BOOLEAN
        BY <3>1
      <4> QED
        BY <1>1, <1>5, <2>1, <2>3, <4>1, OthersLoad
    <3>3. \A j \in Connecting(s) : /\ tasks'[j].serves = tasks[j].serves
                                   /\ tasks'[j].pc = "insert" <=> tasks[j].pc = "insert"
      BY <1>4, <2>3 DEF Connecting
    <3> QED
      BY <1>1, <1>2, <1>6, <1>7, <2>1, <2>2, <3>2, <3>3, OthersInStep
  <2>4. CASE tasks[k].src = s
    <3>1. k \in Connecting(s) /\ Inserting(s)'
      BY <1>4, <2>1, <2>2, <2>4 DEF Inserting, Connecting
    <3>2. \A t \in Tools :
            registry'[t] = IF t \in names THEN [src |-> s, mcp |-> TRUE] ELSE registry[t]
      BY <2>1, <2>4 DEF Loaded
    <3>3. ~At(s, {"evict", "load", "dead"}) /\ s \notin watcher.todo
      BY <1>1, <3>1 DEF OneServer, At
    <3>4. Cleared(s)' /\ Backed(s)'
      BY <1>2, <1>6, <3>1, <3>3 DEF Cleared, Backed
    <3>5. ~Pending(s) => names = file[s].serves
      BY <1>1, <3>1 DEF InStep, Fresh
    <3>6. Fresh(s)'
      <4> SUFFICES ASSUME ~Pending(s)
                   PROVE  /\ \A t \in Tools : registry'[t].src = s => Named(s, t)'
                          /\ \A j \in Connecting(s) : tasks'[j].serves = file'[s].serves
        BY <1>6, <2>2 DEF Fresh
      <4>1. \A j \in Connecting(s) : tasks'[j].serves = file'[s].serves
        BY <1>1, <1>2, <1>4 DEF InStep, Fresh, Connecting
      <4>2. ASSUME NEW t \in Tools, registry'[t].src = s PROVE Named(s, t)'
        <5>1. CASE t \in names
          BY <1>2, <3>2, <3>5, <5>1 DEF Named
        <5>2. CASE t \notin names
          BY <1>1, <1>2, <3>2, <4>2, <5>2 DEF Named, InStep, Fresh
        <5> QED
          BY <5>1, <5>2
      <4> QED
        BY <4>1, <4>2
    <3>7. Complete(s)'
      <4> SUFFICES ASSUME ~Pending(s), file[s].there, file[s].parses
                   PROVE  /\ \A t \in file[s].static \cap Exclusive(s) : registry'[t].src = s
                          /\ \A t \in file[s].serves \cap Exclusive(s) :
                               registry'[t].src = s /\ registry'[t].mcp
        BY <1>2, <1>6, <1>8, <2>2, <3>1 DEF Complete
      <4>1. \A t \in file[s].static \cap Exclusive(s) : registry[t].src = s
        BY <1>1 DEF InStep, Complete
      <4> QED
        BY <1>8, <3>2, <3>5, <4>1
    <3> QED
      BY <3>4, <3>6, <3>7 DEF InStep
  <2> QED
    BY <2>3, <2>4
<1>12. CASE TaskInsert(k)
  <2>1. /\ UNCHANGED registry /\ tasks[k].pc = "insert" /\ tasks'[k].pc = "read"
        /\ servers' = [servers EXCEPT ![tasks[k].src] = k]
    BY <1>1, <1>12, TaskMoves DEF TaskInsert
  <2>2. Connecting(s)' = Connecting(s) \ {k}
    BY <1>4, <2>1 DEF Connecting
  <2>3. CASE tasks[k].src # s
    <3>1. servers'[s] = servers[s] /\ Connecting(s)' = Connecting(s)
      BY <1>1, <2>1, <2>2, <2>3 DEF ServerTypes, Connecting
    <3>2. \A j \in Connecting(s) : /\ tasks'[j].serves = tasks[j].serves
                                   /\ tasks'[j].pc = "insert" <=> tasks[j].pc = "insert"
      BY <1>4, <2>3 DEF Connecting
    <3> QED
      BY <1>1, <1>2, <1>6, <1>7, <2>1, <3>1, <3>2, OthersInStep
  <2>4. CASE tasks[k].src = s
    <3>1. servers'[s] = k /\ k # 0
      BY <1>1, <2>1, <2>4, TaskIdsArePositive DEF ServerTypes
    <3>2. Inserting(s)
      BY <2>1, <2>4 DEF Inserting, Connecting
    <3>3. Cleared(s)' /\ Backed(s)'
      BY <1>1, <1>2, <1>6, <2>1, <3>1 DEF InStep, Cleared, Backed
    <3>4. Fresh(s)'
      BY <1>1, <1>2, <1>4, <1>6, <2>1, <2>2 DEF InStep, Fresh, Named, Connecting
    <3>5. Complete(s)'
      BY <1>1, <1>2, <1>6, <1>8, <2>1, <3>1, <3>2 DEF InStep, Complete
    <3> QED
      BY <3>3, <3>4, <3>5 DEF InStep
  <2> QED
    BY <2>3, <2>4
<1>13. CASE TaskPanics(k)
  <2>1. /\ UNCHANGED <<registry, servers>> /\ tasks[k].pc = "insert"
        /\ tasks'[k].pc = "panicked"
    BY <1>1, <1>13, TaskMoves DEF TaskPanics
  <2>2. Connecting(s)' = Connecting(s) \ {k}
    BY <1>4, <2>1 DEF Connecting
  <2>3. k \in Connecting(s) => Unreachable(s)'
    BY <1>4, <2>1 DEF Unreachable, Connecting
  <2>4. \A j \in Connecting(s) : j # k => tasks'[j].pc = tasks[j].pc
    BY <1>4 DEF Connecting
  <2>5. /\ Inserting(s) => Inserting(s)' \/ Unreachable(s)'
        /\ Inserting(s)' => Inserting(s)
    BY <2>2, <2>3, <2>4 DEF Inserting
  <2>6. Cleared(s)' /\ Backed(s)'
    BY <1>1, <1>2, <1>6, <1>7, <2>1, <2>5 DEF InStep, Cleared, Backed
  <2>7. Fresh(s)'
    BY <1>1, <1>2, <1>4, <1>6, <2>1, <2>2 DEF InStep, Fresh, Named, Connecting
  <2>8. Connecting(s) # {} => Connecting(s)' # {} \/ Unreachable(s)'
    BY <2>2, <2>3
  <2>9. Complete(s)'
    BY <1>1, <1>2, <1>6, <1>7, <1>8, <2>1, <2>5, <2>8 DEF InStep, Complete
  <2> QED
    BY <2>6, <2>7, <2>9 DEF InStep
<1> QED
  BY <1>9, <1>10, <1>11, <1>12, <1>13 DEF Task

LEMMA ServedStep == ServedInv /\ [Next]_vars => ServedInv'
<1> SUFFICES ASSUME ServedInv, [Next]_vars PROVE ServedInv'
  OBVIOUS
<1>1. IInv' /\ OneServerEach' /\ Written' /\ Knowledge'
  BY InvStep, OneServerStep, WrittenStep, KnowledgeStep DEF ServedInv
<1>2. ASSUME NEW s \in Sources \ raced' PROVE InStep(s)'
  <2>1. CASE UNCHANGED vars
    <3>1. InStep(s) /\ UNCHANGED <<file, fsEvents, registry, servers, tasks, watcher>>
      BY <1>2, <2>1, InHand DEF vars
    <3> QED
      BY <3>1 DEF InStep, Cleared, Backed, Fresh, Complete, Named, Pending, Queued, At,
                  Inserting, Connecting, Failed, Unreachable, Exclusive
  <2>2. CASE Operator
    BY <1>2, <2>2, OperatorInStep DEF Operator
  <2>3. CASE Watcher
    BY <1>2, <2>3, LoaderInStep, UnloadInStep, EvictInStep, DeathInStep, LoadInStep,
       SpawnInStep DEF Watcher
  <2>4. CASE \E k \in TaskIds : Task(k)
    BY <1>2, <2>4, TaskInStep
  <2> QED
    BY <2>1, <2>2, <2>3, <2>4 DEF Next
<1> QED
  BY <1>1, <1>2 DEF ServedInv

LEMMA ServedInit == Init => ServedInv
<1> SUFFICES ASSUME Init PROVE ServedInv
  OBVIOUS
<1>1. IInv /\ OneServerEach /\ Written /\ Knowledge
  BY InvInit, OneServerInit, WrittenInit, KnowledgeInit
<1>2. ASSUME NEW s \in Sources PROVE InStep(s)
  <2>1. \A t \in Tools : registry[t].src # s
    BY RegistryAssumption DEF Init, NoEntry
  <2>2. Connecting(s) = {} /\ servers[s] = 0
    BY DEF Init, Connecting
  <2>3. ~Pending(s) => ~file[s].there
    BY DEF Init, Pending
  <2> QED
    BY <2>1, <2>2, <2>3 DEF InStep, Cleared, Backed, Fresh, Complete
<1> QED
  BY <1>1, <1>2 DEF ServedInv

(***************************************************************************)
(* Once settled, the registry is what the manifests say, no more and no    *)
(* less, however changes, events and connecting servers overtook each      *)
(* other: every tool is one that its manifest names and has a server if it *)
(* needs one, and every tool that only one manifest names is there.  Only  *)
(* the manifest that the watcher died on has no tools at all, and a server *)
(* may be out of reach when its task came to a map that was poisoned.      *)
(* (handle_event, load_file and the tasks it spawns, McpServerMap)         *)
(***************************************************************************)
THEOREM ManifestsServed == Spec => []ManifestsAreServed
<1>1. ServedInv => ManifestsAreServed
  <2> SUFFICES ASSUME ServedInv, Settled, NEW s \in Sources \ raced
               PROVE  /\ \A t \in Tools : registry[t].src = s =>
                           /\ ~Lost(s)
                           /\ IF registry[t].mcp
                              THEN /\ t \in file[s].serves
                                   /\ servers[s] # 0 \/ Unreachable(s)
                              ELSE t \in file[s].static
                      /\ file[s].there /\ file[s].parses /\ ~Lost(s) =>
                           /\ \A t \in file[s].static \cap Exclusive(s) : registry[t].src = s
                           /\ servers[s] # 0 =>
                                \A t \in file[s].serves \cap Exclusive(s) : registry[t].mcp
                           /\ file[s].mcp => servers[s] # 0 \/ Unreachable(s) \/ Failed(s)
    BY DEF ManifestsAreServed, NothingStale, NothingMissing, Failed
  <2>1. InStep(s) /\ LoaderPhases
    BY DEF ServedInv, OneServerEach
  <2>2. Connecting(s) = {} /\ ~Inserting(s)
    BY DEF Settled, Connecting, Inserting
  <2>3. watcher.todo = {} /\ ~Queued(s) /\ watcher.pc \in {"idle", "dead"}
    BY <2>1 DEF Settled, Queued, LoaderPhases
  <2>4. Lost(s) <=> At(s, {"dead"})
    BY DEF Lost, Poisoned, At
  <2>5. CASE Lost(s)
    <3>1. \A t \in Tools : registry[t].src # s
      BY <2>1, <2>4, <2>5 DEF InStep, Cleared, At
    <3> QED
      BY <2>5, <3>1
  <2>6. CASE ~Lost(s)
    <3>1. ~Pending(s) /\ ~At(s, {"read", "write", "spawn"})
      BY <2>3, <2>4, <2>6 DEF Pending, At
    <3>2. Backed(s) /\ Fresh(s) /\ Complete(s)
      BY <2>1 DEF InStep
    <3> QED
      BY <2>2, <2>6, <3>1, <3>2 DEF Backed, Fresh, Named, Complete
  <2> QED
    BY <2>5, <2>6
<1> QED
  BY ServedInit, ServedStep, <1>1, PTL DEF Spec
-----------------------------------------------------------------------------
(***************************************************************************)
(* Who learns of a change: ToolLists                                       *)
(***************************************************************************)
\* The versions; what a channel is, or will be, told of has happened.
ChangeTypes ==
  /\ tools \in Nat /\ perms \in Nat /\ sse \in Nat /\ announce \in Nat
  /\ due \in [sse : Nat, tools : Nat, perms : Nat]
  /\ due.sse <= tools /\ due.tools <= tools /\ due.perms <= perms

\* Only the HTTP server has sessions.
SessionTypes ==
  /\ mode \in {"http", "stdio"}
  /\ view \in [Sessions -> Nat \cup {None}]
  /\ inflight \in [Sessions -> Seq(Nat)]
  /\ \A s \in Sessions : view[s] # None => mode = "http"
  /\ \A s \in Sessions : view[s] = None => inflight[s] = <<>>

RecordTypes ==
  /\ record \in Record \cup {None}
  /\ dht \in Seq(Record)
  /\ puts \in Seq(Record)
  /\ handed \in Record /\ published \in Record
  /\ failed \in [build : BOOLEAN, refused : BOOLEAN, put : BOOLEAN, overlap : BOOLEAN]

ListTypes == ChangeTypes /\ SessionTypes /\ RecordTypes

(***************************************************************************)
(* A session whose list is too old has something to come: the signal       *)
(* (unless the signal was lost, and no other has come since), what         *)
(* the notify task has to write, a list_changed it has not acted on, or an *)
(* answer, the last of those it waits for, which is, or will be, read late *)
(* enough.                                                                 *)
(***************************************************************************)
Coming == sse > 0 \/ "sse" \in lost \/ \E o \in owed : "sse" \in o

Late(n) == n = 0 \/ n >= due.sse

LastLate(s) ==
  IF inflight[s] = <<>> THEN Late(view[s]) ELSE Late(inflight[s][Len(inflight[s])])

ToBeTold == \A s \in Open : s \in changed \/ noticed \/ Coming \/ LastLate(s)

(***************************************************************************)
(* With nothing owed and no signal waiting, the record that is built, or   *)
(* was built last, has the changes, unless the attempt failed.             *)
(***************************************************************************)
AllSignalled ==
  mode = "http" /\ budget[4] > 0 /\ owed = {} /\ "announce" \notin lost /\ announce = 0

LastBuilt == IF dht = <<>> THEN failed.refused \/ Current(handed)
                           ELSE Current(dht[Len(dht)])

Building ==
  record.tools = 0 \/ (record.tools >= due.tools /\ (record.perms = 0 \/ record.perms >= due.perms))

ToBeAnnounced ==
  AllSignalled => IF record = None THEN failed.build \/ LastBuilt ELSE Building

\* A query that is alone ends with the record that was handed over last.
OneByOne ==
  ~failed.overlap => IF puts = <<>> THEN failed.put \/ published = handed
                                    ELSE puts = <<handed>>

ListInv == ListTypes /\ ToBeTold /\ ToBeAnnounced /\ OneByOne

LEMMA NoneIsNot == Cap \in Nat \ {0} /\ None \notin Nat /\ None \notin Record
BY ToolListsAssumption

LEMMA ListInvInit == ListsInit => ListInv
<1> SUFFICES ASSUME ListsInit PROVE ListInv
  OBVIOUS
<1>1. ChangeTypes
  BY DEF ListsInit, ChangeTypes
<1>2. SessionTypes
  BY DEF ListsInit, SessionTypes
<1>3. RecordTypes /\ OneByOne
  BY DEF ListsInit, RecordTypes, OneByOne, Record, Unbuilt
<1>4. ToBeTold
  BY DEF ListsInit, ToBeTold, Open
<1>5. ToBeAnnounced
  BY DEF ListsInit, ToBeAnnounced, LastBuilt, Current, Unbuilt
<1> QED
  BY <1>1, <1>2, <1>3, <1>4, <1>5 DEF ListInv, ListTypes

\* Changes: due runs ahead of what anyone was sent, but a signal is owed.
LEMMA ChangeMade ==
  ASSUME ListInv,
         \/ ManifestChanges \/ ExposeChanges \/ ToolsGoUnannounced
         \/ WatcherPanics \/ SignalLost \/ PermissionsChange
  PROVE  ListInv'
<1> USE DEF ManifestChanges, ExposeChanges, ToolsGoUnannounced, WatcherPanics, SignalLost,
            PermissionsChange
<1>1. UNCHANGED <<mode, budget, sse, announce, sessionVars, shimVars, announceVars>>
  OBVIOUS
<1>2. SessionTypes' /\ RecordTypes' /\ OneByOne'
  BY <1>1 DEF ListInv, ListTypes, SessionTypes, RecordTypes, OneByOne, sessionVars, announceVars,
              putVars
<1>3. ChangeTypes
  BY DEF ListInv, ListTypes
<1>4. ChangeTypes'
  <2>1. CASE ManifestChanges
    <3>1. /\ tools' = tools + 1 /\ UNCHANGED <<perms, sse, announce>>
          /\ due' = [due EXCEPT !.sse = tools', !.tools = tools']
      BY <2>1
    <3>2. PICK n \in Nat : n = tools + 1
      BY <1>3 DEF ChangeTypes
    <3>3. due' = [due EXCEPT !.sse = n, !.tools = n]
      BY <3>1, <3>2
    <3>4. due' \in [sse : Nat, tools : Nat, perms : Nat]
          /\ due'.sse = n /\ due'.tools = n /\ due'.perms = due.perms
      BY <1>3, <3>2, <3>3 DEF ChangeTypes
    <3> QED
      BY <1>3, <3>1, <3>2, <3>4 DEF ChangeTypes
  <2>2. CASE ExposeChanges
    BY <1>3, <2>2 DEF ChangeTypes
  <2>3. CASE ToolsGoUnannounced \/ WatcherPanics \/ SignalLost
    BY <1>3, <2>3 DEF ChangeTypes
  <2>4. CASE PermissionsChange
    BY <1>3, <2>4 DEF ChangeTypes
  <2> QED
    BY <2>1, <2>2, <2>3, <2>4
<1>5. Coming' \/ (due'.sse = due.sse /\ (Coming => Coming'))
  <2>1. CASE ManifestChanges
    <3>1. {"sse", "announce"} \in owed'
      BY <2>1
    <3> QED
      BY <3>1 DEF Coming
  <2>2. CASE ExposeChanges \/ ToolsGoUnannounced \/ WatcherPanics \/ PermissionsChange
    BY <1>1, <1>3, <2>2 DEF ChangeTypes, Coming
  <2>3. CASE SignalLost
    BY <2>3 DEF Coming
  <2> QED
    BY <2>1, <2>2, <2>3
<1>6. AllSignalled' => AllSignalled /\ due'.tools = due.tools /\ due'.perms = due.perms
  BY <1>1 DEF AllSignalled
<1>7. ToBeTold'
  BY <1>1, <1>5 DEF ListInv, ToBeTold, Open, LastLate, Late, sessionVars
<1>8. ToBeAnnounced'
  BY <1>1, <1>6 DEF ListInv, ToBeAnnounced, LastBuilt, Building, Current, announceVars, putVars
<1> QED
  BY <1>2, <1>4, <1>7, <1>8 DEF ListInv, ListTypes

LEMMA TrySendArrives ==
  ASSUME NEW n \in Nat
  PROVE  TrySend(n) \in Nat /\ TrySend(n) > 0 /\ TrySend(n) >= n
BY NoneIsNot DEF TrySend

\* A signal goes into the channel, or the channel is full of them.
LEMMA SignalSent ==
  ASSUME ListInv, (\E o \in owed : Signal(o)) \/ AddressConfirmed
  PROVE  ListInv'
<1>1. UNCHANGED <<mode, budget, tools, perms, due, sessionVars, announceVars>>
  BY DEF Signal, AddressConfirmed, changeVars
<1>2. ChangeTypes
  BY DEF ListInv, ListTypes
<1>3. sse' \in Nat /\ announce' \in Nat
  BY <1>2, TrySendArrives DEF ChangeTypes, Signal, AddressConfirmed, changeVars
<1>4. ListTypes' /\ OneByOne'
  BY <1>1, <1>3 DEF ListInv, ListTypes, ChangeTypes, SessionTypes, RecordTypes, OneByOne,
                    sessionVars, announceVars, putVars
<1>5. Coming => Coming'
  <2> SUFFICES ASSUME Coming PROVE Coming'
    OBVIOUS
  <2>1. CASE AddressConfirmed
    BY <2>1 DEF AddressConfirmed, changeVars, Coming
  <2>2. ASSUME NEW o \in owed, Signal(o), "sse" \in o PROVE Coming'
    <3>1. sse' > 0
      BY <1>2, <2>2, TrySendArrives DEF Signal, ChangeTypes
    <3> QED
      BY <3>1 DEF Coming
  <2>3. ASSUME NEW o \in owed, Signal(o), "sse" \notin o PROVE Coming'
    BY <2>3 DEF Signal, Coming
  <2> QED
    BY <2>1, <2>2, <2>3
<1>6. mode = "http" => announce' > 0
  BY <1>2, TrySendArrives DEF ChangeTypes, Signal, AddressConfirmed
<1>7. ToBeTold'
  BY <1>1, <1>5 DEF ListInv, ToBeTold, Open, LastLate, Late, sessionVars
<1>8. ToBeAnnounced'
  BY <1>1, <1>3, <1>6 DEF ToBeAnnounced, AllSignalled
<1> QED
  BY <1>4, <1>7, <1>8 DEF ListInv

\* The notify task.
LEMMA NotifyTakes ==
  ASSUME ListInv, Notify
  PROVE  ListInv'
<1>1. /\ UNCHANGED <<mode, budget, changeVars, announce, view, changed, inflight, announceVars>>
      /\ sse > 0 /\ sse' = sse - 1 /\ noticed' = (mode = "http")
  BY DEF Notify
<1>2. ChangeTypes /\ SessionTypes /\ RecordTypes
  BY DEF ListInv, ListTypes
<1>3. ChangeTypes'
  BY <1>1, <1>2 DEF ChangeTypes, changeVars
<1>4. SessionTypes' /\ RecordTypes' /\ OneByOne'
  BY <1>1, <1>2 DEF ListInv, SessionTypes, RecordTypes, OneByOne, announceVars, putVars
<1>5. ToBeTold'
  <2>1. ASSUME NEW s \in Open' PROVE noticed'
    BY <1>1, <1>2, <2>1 DEF Open, SessionTypes
  <2> QED
    BY <2>1 DEF ToBeTold
<1>6. ToBeAnnounced'
  BY <1>1 DEF ListInv, ToBeAnnounced, AllSignalled, LastBuilt, Building, Current, changeVars,
              announceVars, putVars
<1> QED
  BY <1>3, <1>4, <1>5, <1>6 DEF ListInv, ListTypes

\* The steps of sessions, and of what is written to them, leave the rest alone.
LEMMA SessionFrame ==
  ASSUME ListInv, SessionTypes', ToBeTold',
         UNCHANGED <<mode, budget, changeVars, sse, announce, announceVars>>
  PROVE  ListInv'
<1>1. ChangeTypes' /\ RecordTypes' /\ OneByOne'
  BY DEF ListInv, ListTypes, ChangeTypes, RecordTypes, OneByOne, changeVars, announceVars, putVars
<1>2. ToBeAnnounced'
  BY DEF ListInv, ToBeAnnounced, AllSignalled, LastBuilt, Building, Current, changeVars,
         announceVars, putVars
<1> QED
  BY <1>1, <1>2 DEF ListInv, ListTypes

LEMMA SessionsTold ==
  ASSUME ListInv, TellSessions
  PROVE  ListInv'
<1>1. SessionTypes'
  BY DEF ListInv, ListTypes, SessionTypes, TellSessions
<1>2. ToBeTold'
  BY DEF ToBeTold, TellSessions, Open
<1> QED
  BY <1>1, <1>2, SessionFrame DEF TellSessions

\* A step of one session's: the others are told as before.
LEMMA SessionMoves ==
  ASSUME ListInv, NEW s \in Sessions,
         UNCHANGED <<mode, budget, changeVars, sse, announce, noticed, announceVars>>,
         SessionTypes',
         \A r \in Sessions \ {s} : /\ view'[r] = view[r] /\ inflight'[r] = inflight[r]
                                   /\ r \in changed => r \in changed',
         view'[s] # None => s \in changed' \/ LastLate(s)' \/ (noticed \/ Coming)
  PROVE  ListInv'
<1>1. Coming => Coming'
  BY DEF Coming, changeVars
<1>2. ASSUME NEW r \in Open' PROVE r \in changed' \/ noticed' \/ Coming' \/ LastLate(r)'
  <2>1. CASE r = s
    BY <1>1, <1>2, <2>1 DEF Open
  <2>2. CASE r # s
    <3>1. r \in Open /\ (r \in changed \/ noticed \/ Coming \/ LastLate(r))
      BY <1>2, <2>2 DEF ListInv, ToBeTold, Open
    <3>2. LastLate(r) => LastLate(r)'
      BY <1>2, <2>2 DEF LastLate, Late, Open, changeVars
    <3> QED
      BY <1>1, <1>2, <2>2, <3>1, <3>2 DEF Open
  <2> QED
    BY <2>1, <2>2
<1>3. ToBeTold'
  BY <1>2 DEF ToBeTold
<1> QED
  BY <1>3, SessionFrame

\* What an answer leaves of the requests of its session.
LEMMA LaterOnes ==
  ASSUME NEW S, NEW q \in Seq(S), NEW i \in DOMAIN q, NEW rest,
         rest = SubSeq(q, i + 1, Len(q))
  PROVE  /\ q # <<>> /\ rest \in Seq(S)
         /\ i = Len(q) => rest = <<>>
         /\ i # Len(q) => rest # <<>> /\ rest[Len(rest)] = q[Len(q)]
<1>1. i \in 1 .. Len(q) /\ Len(q) \in Nat
  OBVIOUS
<1>2. \A j \in 1 .. Len(q) : q[j] \in S
  OBVIOUS
<1>3. rest = [j \in 1 .. Len(q) - i |-> q[i + j]]
  BY <1>1, <1>2
<1>4. rest \in Seq(S) /\ Len(rest) = Len(q) - i
  BY <1>1, <1>2, <1>3
<1>5. q # <<>>
  BY <1>1
<1>6. CASE i = Len(q)
  BY <1>1, <1>3, <1>4, <1>5, <1>6
<1>7. CASE i # Len(q)
  <2>1. PICK n \in 1 .. Len(q) - i : n = Len(q) - i
    BY <1>1, <1>7
  <2>2. rest[n] = q[i + n]
    BY <1>3, <2>1
  <2>3. i + n = Len(q) /\ n # 0
    <3>1. ASSUME NEW a \in Nat, NEW b \in 1 .. a, NEW c \in 1 .. a - b, c = a - b
          PROVE  b + c = a /\ c # 0
      BY <3>1
    <3> QED
      BY <1>1, <2>1, <3>1, Zenon
  <2>4. n = Len(rest)
    BY <1>4, <2>1
  <2>5. rest # <<>>
    BY <2>3, <2>4
  <2>6. rest[Len(rest)] = q[Len(q)]
    BY <2>2, <2>3, <2>4, Zenon
  <2> QED
    BY <1>4, <1>7, <1>5, <2>5, <2>6, Zenon
<1> QED
  BY <1>4, <1>5, <1>6, <1>7

LEMMA SessionStep ==
  ASSUME ListInv, NEW s \in Sessions, Session(s)
  PROVE  ListInv'
<1>1. /\ SessionTypes /\ ChangeTypes
      /\ view \in [Sessions -> Nat \cup {None}] /\ inflight \in [Sessions -> Seq(Nat)]
  BY DEF ListInv, ListTypes, SessionTypes
<1>2. s \in Open => s \in changed \/ noticed \/ Coming \/ LastLate(s)
  BY DEF ListInv, ToBeTold
<1>3. CASE SessionOpens(s)
  <2>1. /\ mode = "http" /\ view[s] = None /\ view' = [view EXCEPT ![s] = 0]
        /\ UNCHANGED <<mode, budget, changeVars, sse, announce, noticed, changed, inflight,
                       shimVars, announceVars>>
    BY <1>3 DEF SessionOpens
  <2>2. inflight[s] = <<>>
    BY <1>1, <2>1 DEF SessionTypes
  <2>3. SessionTypes'
    BY <1>1, <2>1 DEF SessionTypes
  <2>4. LastLate(s)'
    BY <1>1, <2>1, <2>2 DEF LastLate, Late
  <2> QED
    BY <1>1, <2>1, <2>3, <2>4, SessionMoves
<1>4. CASE SessionCloses(s)
  <2>1. /\ view' = [view EXCEPT ![s] = None] /\ changed' = changed \ {s}
        /\ inflight' = [inflight EXCEPT ![s] = <<>>]
        /\ UNCHANGED <<mode, budget, changeVars, sse, announce, noticed, shimVars, announceVars>>
    BY <1>4 DEF SessionCloses
  <2>2. SessionTypes'
    BY <1>1, <2>1 DEF SessionTypes
  <2> QED
    BY <1>1, <2>1, <2>2, SessionMoves
<1>5. CASE SessionAsks(s)
  <2>1. /\ s \in Open /\ changed' = changed \ {s}
        /\ inflight' = [inflight EXCEPT ![s] = Append(@, 0)]
        /\ UNCHANGED <<mode, budget, changeVars, sse, announce, noticed, view, shimVars,
                       announceVars>>
    BY <1>5 DEF SessionAsks
  <2>2. /\ inflight'[s] = Append(inflight[s], 0) /\ inflight[s] \in Seq(Nat)
        /\ \A r \in Sessions \ {s} : inflight'[r] = inflight[r]
    BY <1>1, <2>1
  <2>3. /\ inflight'[s] \in Seq(Nat) /\ inflight'[s] # <<>>
        /\ inflight'[s][Len(inflight'[s])] = 0
    BY <2>2
  <2>4. SessionTypes'
    BY <1>1, <2>1, <2>2, <2>3 DEF SessionTypes, Open
  <2>5. LastLate(s)'
    BY <2>3 DEF LastLate, Late
  <2> QED
    BY <2>1, <2>2, <2>4, <2>5, SessionMoves
<1>6. ASSUME NEW i \in DOMAIN inflight[s], ListIsRead(s, i) PROVE ListInv'
  <2>1. /\ inflight' = [inflight EXCEPT ![s][i] = tools]
        /\ UNCHANGED <<mode, budget, changeVars, sse, announce, noticed, view, changed,
                       shimVars, announceVars>>
    BY <1>6 DEF ListIsRead
  <2>2. /\ inflight'[s] = [inflight[s] EXCEPT ![i] = tools] /\ inflight[s] \in Seq(Nat)
        /\ \A r \in Sessions \ {s} : inflight'[r] = inflight[r]
    BY <1>1, <2>1
  <2>3. tools \in Nat /\ tools >= due.sse
    BY <1>1 DEF ChangeTypes
  <2>4. /\ inflight'[s] \in Seq(Nat) /\ inflight'[s] # <<>> /\ inflight[s] # <<>>
        /\ Len(inflight'[s]) = Len(inflight[s])
        /\ inflight'[s][Len(inflight[s])] \in {tools, inflight[s][Len(inflight[s])]}
    BY <1>6, <2>2, <2>3
  <2>5. SessionTypes'
    BY <1>1, <2>1, <2>2, <2>4 DEF SessionTypes
  <2>6. LastLate(s) => LastLate(s)'
    BY <2>1, <2>3, <2>4 DEF LastLate, Late, changeVars
  <2>7. view'[s] # None => s \in changed' \/ LastLate(s)' \/ (noticed \/ Coming)
    BY <1>2, <2>1, <2>6 DEF Open
  <2> QED
    BY <2>1, <2>2, <2>5, <2>7, SessionMoves
<1>7. ASSUME NEW i \in DOMAIN inflight[s], ListArrives(s, i) PROVE ListInv'
  <2>1. /\ inflight[s][i] # 0 /\ view' = [view EXCEPT ![s] = inflight[s][i]]
        /\ inflight' = [inflight EXCEPT ![s] = SubSeq(@, i + 1, Len(@))]
        /\ UNCHANGED <<mode, budget, changeVars, sse, announce, noticed, changed,
                       shimVars, announceVars>>
    BY <1>7 DEF ListArrives
  <2>2. /\ inflight'[s] = SubSeq(inflight[s], i + 1, Len(inflight[s]))
        /\ inflight[s] \in Seq(Nat) /\ view'[s] = inflight[s][i]
        /\ \A r \in Sessions \ {s} : inflight'[r] = inflight[r] /\ view'[r] = view[r]
    BY <1>1, <2>1
  <2>3. /\ inflight'[s] \in Seq(Nat) /\ view'[s] \in Nat /\ inflight[s] # <<>>
        /\ i = Len(inflight[s]) => inflight'[s] = <<>>
        /\ i # Len(inflight[s]) =>
             /\ inflight'[s] # <<>>
             /\ inflight'[s][Len(inflight'[s])] = inflight[s][Len(inflight[s])]
    <3>1. inflight[s][i] \in Nat
      BY <1>7, <2>2
    <3> DEFINE q == inflight[s]
               rest == inflight'[s]
    <3>2. q \in Seq(Nat) /\ i \in DOMAIN q /\ rest = SubSeq(q, i + 1, Len(q))
      BY <1>7, <2>2
    <3> HIDE DEF q, rest
    <3>3. q # <<>> /\ rest \in Seq(Nat)
      BY <3>2, LaterOnes
    <3>4. i = Len(q) => rest = <<>>
      BY <3>2, LaterOnes
    <3>5. i # Len(q) => rest # <<>> /\ rest[Len(rest)] = q[Len(q)]
      BY <3>2, LaterOnes
    <3> QED
      BY <2>2, <3>1, <3>3, <3>4, <3>5 DEF q, rest
  <2>4. view[s] # None /\ view'[s] # None
    BY <1>1, <2>3, NoneIsNot DEF SessionTypes
  <2>5. SessionTypes'
    BY <1>1, <2>1, <2>2, <2>3, <2>4 DEF SessionTypes
  <2>6. LastLate(s) => LastLate(s)'
    BY <2>1, <2>2, <2>3 DEF LastLate, Late, changeVars
  <2>7. s \in changed' \/ LastLate(s)' \/ (noticed \/ Coming)
    BY <1>2, <2>1, <2>4, <2>6 DEF Open
  <2> QED
    BY <2>1, <2>2, <2>5, <2>7, SessionMoves
<1> QED
  BY <1>3, <1>4, <1>5, <1>6, <1>7 DEF Session

\* Calls of code mode, and whatever changes nothing here.
LEMMA NothingStep ==
  ASSUME ListInv,
         UNCHANGED <<mode, budget, changeVars, sse, announce, sessionVars, announceVars>>
  PROVE  ListInv'
<1>1. SessionTypes'
  BY DEF ListInv, ListTypes, SessionTypes, sessionVars
<1>2. ToBeTold'
  BY DEF ListInv, ToBeTold, Coming, Open, LastLate, Late, changeVars, sessionVars
<1> QED
  BY <1>1, <1>2, SessionFrame

\* The steps of the announcer leave the rest alone.
LEMMA AnnouncerFrame ==
  ASSUME ListInv, RecordTypes', ToBeAnnounced', OneByOne', announce' \in Nat,
         UNCHANGED <<mode, budget, changeVars, sse, sessionVars>>
  PROVE  ListInv'
<1>1. ChangeTypes' /\ SessionTypes'
  BY DEF ListInv, ListTypes, ChangeTypes, SessionTypes, changeVars, sessionVars
<1>2. ToBeTold'
  BY DEF ListInv, ToBeTold, Coming, Open, LastLate, Late, changeVars, sessionVars
<1> QED
  BY <1>1, <1>2 DEF ListInv, ListTypes

LEMMA UnbuiltIs == Unbuilt \in Record /\ Unbuilt # None
BY NoneIsNot DEF Unbuilt, Record

\* What is left of the queue of finished records.
LEMMA LastStays ==
  ASSUME NEW q \in Seq(Record), q # <<>>
  PROVE  /\ Head(q) \in Record /\ Tail(q) \in Seq(Record)
         /\ Tail(q) = <<>> => Head(q) = q[Len(q)]
         /\ Tail(q) # <<>> => Tail(q)[Len(Tail(q))] = q[Len(q)]
<1>1. 1 \in DOMAIN q /\ Head(q) = q[1] /\ q[1] \in Record /\ Tail(q) \in Seq(Record)
  OBVIOUS
<1>2. Tail(q) = SubSeq(q, 1 + 1, Len(q))
  OBVIOUS
<1>3. 1 = Len(q) => Tail(q) = <<>>
  BY <1>1, <1>2, LaterOnes, Zenon
<1>4. 1 # Len(q) => Tail(q) # <<>> /\ Tail(q)[Len(Tail(q))] = q[Len(q)]
  BY <1>1, <1>2, LaterOnes, Zenon
<1> QED
  BY <1>1, <1>3, <1>4

LEMMA OneMore ==
  ASSUME NEW S, NEW q \in Seq(S), NEW x \in S
  PROVE  /\ Append(q, x) \in Seq(S) /\ Append(q, x) # <<>>
         /\ q = <<>> => Append(q, x) = <<x>>
<1>1. Append(q, x) \in Seq(S) /\ Len(Append(q, x)) = Len(q) + 1 /\ Len(q) \in Nat
  OBVIOUS
<1>2. Append(q, x) # <<>>
  BY <1>1
<1>3. ASSUME q = <<>> PROVE Append(q, x) = <<x>>
  <2>1. Append(q, x)[1] = x /\ Len(Append(q, x)) = 1
    BY <1>3
  <2> DEFINE a == Append(q, x)
             b == <<x>>
  <2>2. b \in Seq(S) /\ Len(b) = 1 /\ b[1] = x
    OBVIOUS
  <2>3. a \in Seq(S) /\ Len(a) = 1 /\ a[1] = x
    BY <1>1, <2>1
  <2> HIDE DEF a, b
  <2>4. a = b
    BY <2>2, <2>3
  <2> QED
    BY <2>4 DEF a, b
<1> QED
  BY <1>1, <1>2, <1>3, Zenon

LEMMA AnnouncerStep ==
  ASSUME ListInv, Announcer
  PROVE  ListInv'
<1>1. /\ ChangeTypes /\ RecordTypes /\ ToBeAnnounced /\ OneByOne
      /\ record \in Record \cup {None} /\ dht \in Seq(Record) /\ puts \in Seq(Record)
      /\ handed \in Record /\ published \in Record
      /\ failed \in [build : BOOLEAN, refused : BOOLEAN, put : BOOLEAN, overlap : BOOLEAN]
      /\ tools \in Nat /\ perms \in Nat /\ announce \in Nat
      /\ due.tools <= tools /\ due.perms <= perms /\ due \in [sse : Nat, tools : Nat, perms : Nat]
  BY DEF ListInv, ListTypes, RecordTypes, ChangeTypes
<1>2. CASE BuildStarts
  <2>1. record' = Unbuilt /\ UNCHANGED <<dht, puts, handed, published, failed>>
    BY <1>2 DEF BuildStarts, putVars
  <2>2. announce' \in Nat
    BY <1>1, <1>2 DEF BuildStarts
  <2>3. RecordTypes' /\ ToBeAnnounced' /\ OneByOne'
    BY <1>1, <2>1, UnbuiltIs DEF RecordTypes, ToBeAnnounced, Building, OneByOne, Unbuilt
  <2> QED
    BY <1>2, <2>2, <2>3, AnnouncerFrame DEF BuildStarts
<1>3. CASE BuildLists
  <2>1. /\ record = Unbuilt /\ record' = [record EXCEPT !.tools = tools]
        /\ UNCHANGED <<changeVars, dht, puts, handed, published, failed>>
    BY <1>3 DEF BuildLists, putVars
  <2>2. record' \in Record /\ record'.tools = tools /\ record'.perms = 0 /\ record' # None
    BY <1>1, <2>1, UnbuiltIs, NoneIsNot DEF Record, Unbuilt
  <2>3. RecordTypes' /\ ToBeAnnounced' /\ OneByOne'
    BY <1>1, <2>1, <2>2 DEF RecordTypes, ToBeAnnounced, Building, OneByOne, changeVars
  <2> QED
    BY <1>1, <1>3, <2>3, AnnouncerFrame DEF BuildLists
<1>4. CASE BuildFilters
  <2>1. /\ record # None /\ record.tools # 0 /\ record' = [record EXCEPT !.perms = perms]
        /\ UNCHANGED <<mode, budget, changeVars, announce, dht, puts, handed, published, failed>>
    BY <1>4 DEF BuildFilters, putVars
  <2>2. record' \in Record /\ record'.tools = record.tools /\ record'.perms = perms
    BY <1>1, <2>1 DEF Record
  <2>3. record' # None
    BY <2>2, NoneIsNot
  <2>4. RecordTypes' /\ OneByOne'
    BY <1>1, <2>1, <2>2 DEF RecordTypes, OneByOne
  <2>5. AllSignalled' => record.tools >= due.tools
    BY <1>1, <2>1 DEF ToBeAnnounced, AllSignalled, Building, changeVars
  <2>6. ToBeAnnounced'
    BY <1>1, <2>1, <2>2, <2>3, <2>5 DEF ToBeAnnounced, Building, changeVars
  <2> QED
    BY <1>1, <1>4, <2>4, <2>6, AnnouncerFrame DEF BuildFilters
<1>5. CASE BuildSends
  <2>1. /\ record # None /\ record.tools # 0 /\ record.perms # 0
        /\ dht' = Append(dht, record) /\ record' = None
        /\ failed' = [failed EXCEPT !.build = FALSE]
        /\ UNCHANGED <<mode, budget, changeVars, announce, puts, handed, published>>
    BY <1>5 DEF BuildSends, putVars
  <2>2. dht' \in Seq(Record) /\ dht' # <<>> /\ dht'[Len(dht')] = record
    BY <1>1, <2>1
  <2>3. RecordTypes' /\ OneByOne'
    BY <1>1, <2>1, <2>2 DEF RecordTypes, OneByOne
  <2>4. AllSignalled' => Current(record)
    BY <1>1, <2>1 DEF ToBeAnnounced, AllSignalled, Building, Current, changeVars
  <2>5. ToBeAnnounced'
    BY <2>1, <2>2, <2>4 DEF ToBeAnnounced, LastBuilt, Current, changeVars
  <2> QED
    BY <1>1, <1>5, <2>3, <2>5, AnnouncerFrame DEF BuildSends
<1>6. CASE BuildFails
  <2>1. /\ record' = None /\ failed' = [failed EXCEPT !.build = TRUE]
        /\ UNCHANGED <<dht, puts, handed, published>>
    BY <1>6 DEF BuildFails, putVars
  <2>2. RecordTypes' /\ ToBeAnnounced' /\ OneByOne'
    BY <1>1, <2>1 DEF RecordTypes, ToBeAnnounced, OneByOne
  <2> QED
    BY <1>1, <1>6, <2>2, AnnouncerFrame DEF BuildFails
<1>7. CASE Publish
  <2>1. /\ dht # <<>> /\ dht' = Tail(dht)
        /\ UNCHANGED <<mode, budget, changeVars, announce, record, published>>
    BY <1>7 DEF Publish
  <2>2. /\ Head(dht) \in Record /\ dht' \in Seq(Record)
        /\ dht' = <<>> => Head(dht) = dht[Len(dht)]
        /\ dht' # <<>> => dht'[Len(dht')] = dht[Len(dht)]
    BY <1>1, <2>1, LastStays
  <2>3. CASE puts' = Append(puts, Head(dht)) /\ handed' = Head(dht)
             /\ failed' = [failed EXCEPT !.refused = FALSE, !.put = FALSE,
                                         !.overlap = puts # <<>>]
    <3>1. /\ failed'.build = failed.build /\ failed'.overlap = (puts # <<>>)
          /\ failed' \in [build : BOOLEAN, refused : BOOLEAN, put : BOOLEAN, overlap : BOOLEAN]
      BY <1>1, <2>3
    <3>2. puts' \in Seq(Record) /\ puts' # <<>> /\ (puts = <<>> => puts' = <<Head(dht)>>)
      <4>1. PICK h \in Record : h = Head(dht)
        BY <2>2
      <4>2. puts' = Append(puts, h)
        BY <2>3, <4>1
      <4> QED
        BY <1>1, <4>1, <4>2, OneMore
    <3>3. RecordTypes' /\ OneByOne'
      BY <1>1, <2>1, <2>2, <2>3, <3>1, <3>2 DEF RecordTypes, OneByOne
    <3>4. LastBuilt => LastBuilt'
      BY <2>1, <2>2, <2>3 DEF LastBuilt, Current, changeVars
    <3>5. ToBeAnnounced'
      BY <1>1, <2>1, <3>1, <3>4 DEF ToBeAnnounced, AllSignalled, Building, changeVars
    <3> QED
      BY <1>1, <1>7, <3>3, <3>5, AnnouncerFrame DEF Publish
  <2>4. CASE failed' = [failed EXCEPT !.refused = TRUE] /\ UNCHANGED <<puts, handed>>
    <3>1. /\ failed'.build = failed.build /\ failed'.overlap = failed.overlap
          /\ failed'.put = failed.put /\ failed'.refused
          /\ failed' \in [build : BOOLEAN, refused : BOOLEAN, put : BOOLEAN, overlap : BOOLEAN]
      BY <1>1, <2>4
    <3>2. RecordTypes' /\ OneByOne'
      BY <1>1, <2>1, <2>2, <2>4, <3>1 DEF RecordTypes, OneByOne
    <3>3. LastBuilt => LastBuilt'
      BY <2>1, <2>2, <2>4, <3>1 DEF LastBuilt, Current, changeVars
    <3>4. ToBeAnnounced'
      BY <1>1, <2>1, <3>1, <3>3 DEF ToBeAnnounced, AllSignalled, Building, changeVars
    <3> QED
      BY <1>1, <1>7, <3>2, <3>4, AnnouncerFrame DEF Publish
  <2> QED
    BY <1>7, <2>3, <2>4 DEF Publish
<1>8. ASSUME NEW i \in DOMAIN puts, PutEnds(i) PROVE ListInv'
  <2>1. /\ puts' = RemoveAt(puts, i)
        /\ UNCHANGED <<mode, budget, changeVars, announce, record, dht, handed>>
        /\ published' \in {published, puts[i]}
        /\ \/ published' = puts[i] /\ UNCHANGED failed
           \/ failed' = [failed EXCEPT !.put = TRUE]
    BY <1>8 DEF PutEnds
  <2>2. puts' \in Seq(Record) /\ puts[i] \in Record
        /\ (Len(puts) = 1 => i = 1 /\ puts' = <<>>)
    <3>1. i \in 1 .. Len(puts) /\ Len(puts) \in Nat /\ puts[i] \in Record
      BY <1>1, <1>8
    <3>2. SubSeq(puts, 1, i - 1) \in Seq(Record) /\ SubSeq(puts, i + 1, Len(puts)) \in Seq(Record)
      BY <1>1, <3>1
    <3>3. Len(puts) = 1 => i = 1 /\ SubSeq(puts, 1, i - 1) = <<>>
                                /\ SubSeq(puts, i + 1, Len(puts)) = <<>>
      BY <1>1, <3>1
    <3> QED
      BY <2>1, <3>1, <3>2, <3>3 DEF RemoveAt
  <2>3. /\ failed'.build = failed.build /\ failed'.overlap = failed.overlap
        /\ failed'.refused = failed.refused
        /\ failed'.put \/ published' = puts[i]
        /\ failed' \in [build : BOOLEAN, refused : BOOLEAN, put : BOOLEAN, overlap : BOOLEAN]
    BY <1>1, <2>1
  <2>4. RecordTypes'
    BY <1>1, <2>1, <2>2, <2>3 DEF RecordTypes
  <2>5. OneByOne'
    <3> SUFFICES ASSUME ~failed.overlap PROVE puts' = <<>> /\ (failed'.put \/ published' = handed)
      BY <2>1, <2>3 DEF OneByOne
    <3>1. puts # <<>>
      BY <1>8
    <3>2. puts = <<handed>>
      BY <1>1, <3>1 DEF OneByOne
    <3>3. Len(puts) = 1 /\ puts[1] = handed
      BY <3>2
    <3> QED
      BY <2>2, <2>3, <3>3
  <2>6. LastBuilt => LastBuilt'
    BY <2>1, <2>3 DEF LastBuilt, Current, changeVars
  <2>7. ToBeAnnounced'
    BY <1>1, <2>1, <2>3, <2>6 DEF ToBeAnnounced, AllSignalled, Building, changeVars
  <2> QED
    BY <1>1, <1>8, <2>4, <2>5, <2>7, AnnouncerFrame DEF PutEnds
<1> QED
  BY <1>2, <1>3, <1>4, <1>5, <1>6, <1>7, <1>8 DEF Announcer

LEMMA ListStep == ListInv /\ [ListsNext]_listVars => ListInv'
<1> SUFFICES ASSUME ListInv, [ListsNext]_listVars PROVE ListInv'
  OBVIOUS
<1>1. CASE Change
  BY <1>1, ChangeMade, SignalSent DEF Change
<1>2. CASE \E s \in Sessions : Session(s)
  BY <1>2, SessionStep
<1>3. CASE \E k \in Calls : Call(k)
  BY <1>3, NothingStep DEF Call, CallStarts, GetShim, StoreShim, CallEnds
<1>4. CASE UNCHANGED listVars
  BY <1>4, NothingStep DEF listVars
<1> QED
  BY <1>1, <1>2, <1>3, <1>4, NotifyTakes, SessionsTold, AnnouncerStep DEF ListsNext

(***************************************************************************)
(* Once the notify task has caught up, a session that has acted on what it *)
(* was told has a list no older than the last change to a manifest that is *)
(* signalled, whenever it opened and in whatever order its answers came.              *)
(* (notifications/tools/list_changed and tools/list)                       *)
(***************************************************************************)
THEOREM SessionsCatchUp == ListsSpec => []SessionsAreTold
<1>1. ListInv => SessionsAreTold
  <2> SUFFICES ASSUME ListInv, Told, NEW s \in Open, s \notin changed, inflight[s] = <<>>,
                      view[s] # 0
               PROVE  view[s] >= due.sse
    BY DEF SessionsAreTold
  <2>1. ~Coming /\ ~noticed
    BY DEF Told, Coming
  <2> QED
    BY <2>1 DEF ListInv, ToBeTold, LastLate, Late
<1> QED
  BY ListInvInit, ListStep, <1>1, PTL DEF ListsSpec

(***************************************************************************)
(* When the announcer is idle and its last attempt did not fail, the       *)
(* record that Kademlia was given last has the tools and the permissions   *)
(* of every change signalled to it, though signals are dropped and the two *)
(* are read one after the other; and peers find that record if its query   *)
(* succeeded and none was under way beside it.                             *)
(* (try_send on a full channel, build_record, put_record)                  *)
(***************************************************************************)
THEOREM AnnouncementsCurrent == ListsSpec => []AnnouncementIsCurrent
<1>1. ListInv => AnnouncementIsCurrent
  <2> SUFFICES ASSUME ListInv, Announced, ~failed.build, ~failed.refused
               PROVE  /\ Current(handed)
                      /\ puts = <<>> /\ ~failed.put /\ ~failed.overlap => Current(published)
    BY DEF AnnouncementIsCurrent
  <2>1. AllSignalled /\ record = None /\ dht = <<>>
    BY DEF Announced, AllSignalled
  <2>2. Current(handed)
    BY <2>1 DEF ListInv, ToBeAnnounced, LastBuilt
  <2>3. puts = <<>> /\ ~failed.put /\ ~failed.overlap => published = handed
    BY DEF ListInv, OneByOne
  <2> QED
    BY <2>2, <2>3
<1> QED
  BY ListInvInit, ListStep, <1>1, PTL DEF ListsSpec
=============================================================================
