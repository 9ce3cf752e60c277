----------------------------- MODULE EventQueue -----------------------------
(***************************************************************************)
(* The broker's in-memory event queue (clawshake-broker/src/event_queue.rs)*)
(* and the tools in front of it, `listen` and `emit`                       *)
(* (clawshake-broker/src/invoke/events.rs).                                *)
(*                                                                         *)
(* A push appends under the lock, drops the lock, and only then calls      *)
(* Notify::notify_waiters, which wakes the futures that exist at that      *)
(* moment and stores no permit for later ones.  A listener scans under the *)
(* lock, drops the lock, and only then creates its Notified future.  Each  *)
(* of these is a step of its own here, because tasks run on several        *)
(* threads.                                                                *)
(*                                                                         *)
(* A client of `listen` either resumes from the cursor of its last answer  *)
(* or omits `after`; it keeps its topics from call to call.                *)
(***************************************************************************)
EXTENDS Naturals, Sequences

CONSTANTS
  Listeners,      \* clients of the `listen` tool
  TimedListeners, \* those that pass timeout_secs > 0; the others block forever
  Pushers,        \* tasks that push: emit, cron, spawn, watcher, http, ws
  Topics,         \* topics of events
  Subscription,   \* Subscription[l]: the topics that a prefix of l matches
  MaxSize,        \* capacity of the ring buffer (DEFAULT_MAX_SIZE)
  MaxEvents       \* bound of the model: number of events ever pushed

ASSUME ConstantsAssumption ==
  /\ TimedListeners \subseteq Listeners
  /\ Subscription \in [Listeners -> SUBSET Topics]
  /\ MaxSize \in Nat \ {0}
  /\ MaxEvents \in Nat

VARIABLES
  events,    \* Inner.events: the ring buffer, oldest first
  nextId,    \* Inner.next_id
  pushing,   \* pushers between drop(inner) and notify_waiters()
  pc,        \* where each listener is in wait_for
  expired,   \* expired[l]: the deadline of l's call has passed
  woken,     \* woken[l]: notify_waiters has completed l's Notified future
  cursor,    \* cursor[l]: the cursor of l's last answer, or its `after`
  handed,    \* history: how often each id was handed to l since it last omitted `after`
  log,       \* history: topics of all events ever pushed
  seen       \* history: head of the queue when l's Notified future was created

queueVars == <<events, nextId, pushing, log>>
vars == <<events, nextId, pushing, pc, expired, woken, cursor, handed, log, seen>>

PC == {"idle", "scan", "scanned", "waiting"}

Event == [id : Nat \ {0}, topic : Topics]

Ids == 1 .. MaxEvents

\* The id of the newest event, 0 when there has been none.
HeadCursor == nextId - 1

\* Mutant: `>=` for `>`, so a resumed call gets its last event again.
BugMatching(l) ==
  {i \in 1 .. Len(events) :
     events[i].id >= cursor[l] /\ events[i].topic \in Subscription[l]}

\* Indices in the buffer of the events a scan by l collects.
Matching(l) ==
  {i \in 1 .. Len(events) :
     events[i].id > cursor[l] /\ events[i].topic \in Subscription[l]}

MatchingIds(l) == {events[i].id : i \in Matching(l)}

\* Mutant: the answer's cursor is that of the first match.
BugLastMatch(l) == {i \in Matching(l) : \A j \in Matching(l) : i <= j}

\* matches.last(), as a set of at most one index.
LastMatch(l) == {i \in Matching(l) : \A j \in Matching(l) : j <= i}

Init ==
  /\ events = <<>>
  /\ nextId = 1
  /\ pushing = {}
  /\ pc = [l \in Listeners |-> "idle"]
  /\ expired = [l \in Listeners |-> FALSE]
  /\ woken = [l \in Listeners |-> FALSE]
  /\ cursor = [l \in Listeners |-> 0]
  /\ handed = [l \in Listeners |-> [i \in Ids |-> 0]]
  /\ log = <<>>
  /\ seen = [l \in Listeners |-> 0]
-----------------------------------------------------------------------------
(* EventQueue::push *)

\* What push keeps of the buffer: a full one loses its oldest event.
RoomFor == IF Len(events) >= MaxSize THEN Tail(events) ELSE events

\* Under the lock: take an id, evict the oldest event of a full buffer, append.
PushAppend(p, t) ==
  /\ p \notin pushing
  /\ nextId <= MaxEvents
  /\ nextId' = nextId + 1
  /\ events' = Append(RoomFor, [id |-> nextId, topic |-> t])
  /\ log' = Append(log, t)
  /\ pushing' = pushing \cup {p}
  /\ UNCHANGED <<pc, expired, woken, cursor, handed, seen>>

\* Mutant: Notify::notify_one, which wakes a single listener.
BugPushNotify(p) ==
  /\ p \in pushing
  /\ pushing' = pushing \ {p}
  /\ \E l \in Listeners :
       woken' = [woken EXCEPT ![l] = @ \/ pc[l] = "waiting"]
  /\ UNCHANGED <<events, nextId, pc, expired, cursor, handed, log, seen>>

\* After the lock is dropped: wake the listeners that are registered now.
PushNotify(p) ==
  /\ p \in pushing
  /\ pushing' = pushing \ {p}
  /\ woken' = [l \in Listeners |-> woken[l] \/ pc[l] = "waiting"]
  /\ UNCHANGED <<events, nextId, pc, expired, cursor, handed, log, seen>>
-----------------------------------------------------------------------------
(* invoke_listen and EventQueue::wait_for *)

\* A call that passes the cursor of the previous answer as `after`.
Resume(l) ==
  /\ pc[l] = "idle"
  /\ pc' = [pc EXCEPT ![l] = "scan"]
  /\ UNCHANGED <<queueVars, expired, woken, cursor, handed, seen>>

\* A call without `after`: EventQueue::cursor() supplies the head.
ListenFromHead(l) ==
  /\ pc[l] = "idle"
  /\ pc' = [pc EXCEPT ![l] = "scan"]
  /\ cursor' = [cursor EXCEPT ![l] = HeadCursor]
  /\ handed' = [handed EXCEPT ![l] = [i \in Ids |-> 0]]
  /\ UNCHANGED <<queueVars, expired, woken, seen>>

\* The end of a call: its deadline and its future are dropped.
Return(l) ==
  /\ pc' = [pc EXCEPT ![l] = "idle"]
  /\ expired' = [expired EXCEPT ![l] = FALSE]

\* A scan that finds events answers with all of them and the last one's id.
ScanHit(l) ==
  /\ pc[l] = "scan"
  /\ \E last \in LastMatch(l) :
       cursor' = [cursor EXCEPT ![l] = events[last].id]
  /\ handed' = [handed EXCEPT ![l] =
       [i \in Ids |-> IF i \in MatchingIds(l) THEN @[i] + 1 ELSE @[i]]]
  /\ Return(l)
  /\ UNCHANGED <<queueVars, woken, seen>>

\* A scan that finds nothing past the deadline answers with the head.
ScanTimedOut(l) ==
  /\ pc[l] = "scan"
  /\ Matching(l) = {}
  /\ expired[l]
  /\ cursor' = [cursor EXCEPT ![l] = HeadCursor]
  /\ Return(l)
  /\ UNCHANGED <<queueVars, woken, handed, seen>>

\* A scan that finds nothing before the deadline drops the lock and goes on.
ScanMiss(l) ==
  /\ pc[l] = "scan"
  /\ Matching(l) = {}
  /\ ~expired[l]
  /\ pc' = [pc EXCEPT ![l] = "scanned"]
  /\ UNCHANGED <<queueVars, expired, woken, cursor, handed, seen>>

\* No time remains: the lock is taken again for the head, without a scan.
NoTimeRemaining(l) ==
  /\ pc[l] = "scanned"
  /\ expired[l]
  /\ cursor' = [cursor EXCEPT ![l] = HeadCursor]
  /\ Return(l)
  /\ UNCHANGED <<queueVars, woken, handed, seen>>

\* The Notified future is created; from here on notify_waiters reaches it.
Register(l) ==
  /\ pc[l] = "scanned"
  /\ ~expired[l]
  /\ pc' = [pc EXCEPT ![l] = "waiting"]
  /\ woken' = [woken EXCEPT ![l] = FALSE]
  /\ seen' = [seen EXCEPT ![l] = HeadCursor]
  /\ UNCHANGED <<queueVars, expired, cursor, handed>>

\* select!: the future has been notified, or the sleep is over.
CanWake(l) == woken[l] \/ expired[l]

\* The future, or the sleep that runs beside it, completes: scan again.
WakeUp(l) ==
  /\ pc[l] = "waiting"
  /\ CanWake(l)
  /\ pc' = [pc EXCEPT ![l] = "scan"]
  /\ woken' = [woken EXCEPT ![l] = FALSE]
  /\ seen' = [seen EXCEPT ![l] = 0]
  /\ UNCHANGED <<queueVars, expired, cursor, handed>>

\* The clock reaches the deadline of a call that has one.
DeadlinePasses(l) ==
  /\ l \in TimedListeners
  /\ pc[l] # "idle"
  /\ ~expired[l]
  /\ expired' = [expired EXCEPT ![l] = TRUE]
  /\ UNCHANGED <<queueVars, pc, woken, cursor, handed, seen>>
-----------------------------------------------------------------------------
Push == \E p \in Pushers : PushNotify(p) \/ \E t \in Topics : PushAppend(p, t)

\* The steps a listener's task takes once its call is made.
Advance(l) ==
  \/ ScanHit(l)
  \/ ScanTimedOut(l)
  \/ ScanMiss(l)
  \/ NoTimeRemaining(l)
  \/ Register(l)
  \/ WakeUp(l)

Listen(l) == Resume(l) \/ ListenFromHead(l) \/ Advance(l) \/ DeadlinePasses(l)

Next == Push \/ \E l \in Listeners : Listen(l)

Spec == Init /\ [][Next]_vars

(***************************************************************************)
(* The tokio runtime polls every runnable task, a push that has appended   *)
(* goes on to notify, and clocks advance.  Nobody has to call or to push.  *)
(***************************************************************************)
Fairness ==
  /\ \A p \in Pushers : WF_vars(PushNotify(p))
  /\ \A l \in Listeners : WF_vars(Advance(l)) /\ WF_vars(DeadlinePasses(l))

FairSpec == Spec /\ Fairness
-----------------------------------------------------------------------------
(* Properties *)

\* Every variable keeps its type (struct Inner and the locals of wait_for).
TypeOK ==
  /\ events \in Seq(Event)
  /\ nextId \in Nat \ {0}
  /\ pushing \in SUBSET Pushers
  /\ pc \in [Listeners -> PC]
  /\ expired \in [Listeners -> BOOLEAN]
  /\ woken \in [Listeners -> BOOLEAN]
  /\ cursor \in [Listeners -> Nat]
  /\ handed \in [Listeners -> [Ids -> Nat]]
  /\ log \in Seq(Topics)
  /\ seen \in [Listeners -> Nat]

(***************************************************************************)
(* The buffer is exactly the newest MaxSize events, in order and without a *)
(* gap in the ids: push takes the id, evicts and appends as one step, so   *)
(* neither two pushers nor the wrap of the ring can lose, duplicate or     *)
(* reorder an event.                                                       *)
(***************************************************************************)
BufferIsNewestEvents ==
  /\ nextId = Len(log) + 1
  /\ Len(events) = IF Len(log) < MaxSize THEN Len(log) ELSE MaxSize
  /\ \A i \in 1 .. Len(events) :
       /\ events[i].id = Len(log) - Len(events) + i
       /\ events[i].topic = log[events[i].id]

(***************************************************************************)
(* A client that resumes from the cursor of its last answer is handed no   *)
(* event twice, and nothing it was handed lies past its cursor, nor its    *)
(* cursor past the head.                                                   *)
(***************************************************************************)
HandedOnceInOrder ==
  \A l \in Listeners :
    /\ cursor[l] <= HeadCursor
    /\ \A i \in Ids :
         /\ handed[l][i] <= 1
         /\ handed[l][i] = 1 => i <= cursor[l]

(***************************************************************************)
(* A listener asleep on its future misses no push that follows its         *)
(* registration: either it has been woken or the pusher has still to       *)
(* notify.                                                                 *)
(***************************************************************************)
LaterPushWakes ==
  \A l \in Listeners :
    pc[l] = "waiting" /\ seen[l] < HeadCursor => woken[l] \/ pushing # {}

(***************************************************************************)
(* A listener asleep when a matching event arrives answers, timeout or not,*)
(* unless the ring wraps and drops the event before it has scanned again.  *)
(***************************************************************************)
ArrivalIsAnswered ==
  \A l \in Listeners :
    (/\ pc[l] = "waiting"
     /\ \E i \in Matching(l) : events[i].id > seen[l])
      ~> (pc[l] = "idle" \/ Matching(l) = {})

(***************************************************************************)
(* Every listener sees the log the way EventLog promises: each answer      *)
(* hands over all retained matching events past the cursor, none twice.    *)
(***************************************************************************)
Log == INSTANCE EventLog WITH log <- log, cursor <- cursor, handed <- handed
ImplementsEventLog == Log!Spec

(***************************************************************************)
(* The comment on push, "Wakes all blocked listeners", and the one on      *)
(* invoke_listen, "Blocks until matching events arrive": a call answers    *)
(* once the buffer holds an event for it.  False: a push between a         *)
(* listener's scan and the creation of its future wakes nobody.            *)
(***************************************************************************)
BlockedListenerAnswers ==
  \A l \in Listeners :
    pc[l] # "idle" /\ Matching(l) # {} ~> pc[l] = "idle"
=============================================================================
