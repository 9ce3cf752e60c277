---------------------------- MODULE BrokerProofs -----------------------------
(***************************************************************************)
(* Proofs about two parts of the broker process.                           *)
(*                                                                         *)
(* The event queue keeps its invariants and implements EventLog, for every *)
(* number of listeners and pushers, every capacity of the ring and every   *)
(* bound on the number of events.                                          *)
(*                                                                         *)
(* The web view: every page that is shown comes to show what the store     *)
(* holds, a snapshot is no older than the caller's last change, and a      *)
(* window an agent has opened is in the list it then asks for, for every   *)
(* number of frames, tabs, windows and agents and every budget of calls    *)
(* and faults.                                                             *)
(***************************************************************************)
EXTENDS EventQueue, Window, FiniteSetTheorems, WellFoundedInduction, TLAPS

(***************************************************************************)
(*                            The event queue                              *)
(***************************************************************************)
\* Only a call with a timeout has a deadline to pass.
DeadlinesAreTimed == \A l \in Listeners : expired[l] => l \in TimedListeners

\* The inductive invariant.
QueueInv ==
  /\ TypeOK
  /\ BufferIsNewestEvents
  /\ HandedOnceInOrder
  /\ LaterPushWakes
  /\ DeadlinesAreTimed
-----------------------------------------------------------------------------
(***************************************************************************)
(* The types hold initially and are preserved by every step of push and    *)
(* wait_for.                                                               *)
(***************************************************************************)
LEMMA TypeOKInit == Init => TypeOK
  BY DEF Init, TypeOK, PC

\* What a scan collects are events of the buffer.
LEMMA EventsAreEvents ==
  ASSUME TypeOK
  PROVE  /\ \A i \in 1 .. Len(events) : /\ events[i] \in Event
                                      /\ events[i].id \in Nat \ {0}
         /\ \A l \in Listeners : \A i \in Matching(l) :
              i \in 1 .. Len(events) /\ events[i].id \in Nat \ {0}
<1>1. \A i \in 1 .. Len(events) : events[i] \in Event
  BY DEF TypeOK
<1>2. \A i \in 1 .. Len(events) : events[i].id \in Nat \ {0}
  BY <1>1 DEF Event
<1> QED
  BY <1>1, <1>2 DEF Matching

\* What push makes of the buffer is a buffer: Tail of a full one is one.
LEMMA PushKeepsType ==
  ASSUME TypeOK, NEW p \in Pushers, NEW t \in Topics, PushAppend(p, t)
  PROVE  TypeOK'
<1> DEFINE kept == RoomFor
           e == [id |-> nextId, topic |-> t]
<1>1. kept \in Seq(Event)
  <2> USE DEF RoomFor
  <2>1. CASE Len(events) >= MaxSize
    <3>1. events # <<>>
      BY <2>1, ConstantsAssumption
    <3> QED
      BY <2>1, <3>1 DEF TypeOK
  <2>2. CASE ~(Len(events) >= MaxSize)
    BY <2>2 DEF TypeOK
  <2> QED
    BY <2>1, <2>2
<1>2. e \in Event
  BY DEF TypeOK, Event
<1>3. events' = Append(kept, e) /\ nextId' = nextId + 1 /\ log' = Append(log, t)
  BY DEF PushAppend
<1>4. events' \in Seq(Event) /\ log' \in Seq(Topics) /\ nextId' \in Nat \ {0}
  <2> HIDE DEF kept, e
  <2> QED
    BY <1>1, <1>2, <1>3 DEF TypeOK
<1> QED
  BY <1>4 DEF TypeOK, PushAppend

LEMMA TypeOKStep == TypeOK /\ [Next]_vars => TypeOK'
<1> SUFFICES ASSUME TypeOK, [Next]_vars PROVE TypeOK'
  OBVIOUS
<1>1. ASSUME NEW p \in Pushers, NEW t \in Topics, PushAppend(p, t) PROVE TypeOK'
  BY <1>1, PushKeepsType
<1>2. ASSUME NEW p \in Pushers, PushNotify(p) PROVE TypeOK'
  BY <1>2 DEF TypeOK, PushNotify
<1>3. ASSUME NEW l \in Listeners, Resume(l) PROVE TypeOK'
  BY <1>3 DEF TypeOK, Resume, queueVars, PC
<1>4. ASSUME NEW l \in Listeners, ListenFromHead(l) PROVE TypeOK'
  BY <1>4 DEF TypeOK, ListenFromHead, queueVars, PC, HeadCursor
<1>5. ASSUME NEW l \in Listeners, ScanHit(l) PROVE TypeOK'
  <2>1. \A i \in Matching(l) : events[i].id \in Nat \ {0}
    BY EventsAreEvents
  <2>2. cursor' \in [Listeners -> Nat]
    BY <1>5, <2>1 DEF TypeOK, ScanHit, LastMatch
  <2>3. handed' \in [Listeners -> [Ids -> Nat]]
    BY <1>5 DEF TypeOK, ScanHit
  <2> QED
    BY <1>5, <2>2, <2>3 DEF TypeOK, ScanHit, Return, queueVars, PC
<1>6. ASSUME NEW l \in Listeners, ScanTimedOut(l) PROVE TypeOK'
  BY <1>6 DEF TypeOK, ScanTimedOut, Return, queueVars, PC, HeadCursor
<1>7. ASSUME NEW l \in Listeners, ScanMiss(l) PROVE TypeOK'
  BY <1>7 DEF TypeOK, ScanMiss, queueVars, PC
<1>8. ASSUME NEW l \in Listeners, NoTimeRemaining(l) PROVE TypeOK'
  BY <1>8 DEF TypeOK, NoTimeRemaining, Return, queueVars, PC, HeadCursor
<1>9. ASSUME NEW l \in Listeners, Register(l) PROVE TypeOK'
  BY <1>9 DEF TypeOK, Register, queueVars, PC, HeadCursor
<1>10. ASSUME NEW l \in Listeners, WakeUp(l) PROVE TypeOK'
  BY <1>10 DEF TypeOK, WakeUp, queueVars, PC
<1>11. ASSUME NEW l \in Listeners, DeadlinePasses(l) PROVE TypeOK'
  BY <1>11 DEF TypeOK, DeadlinePasses, queueVars
<1>12. CASE UNCHANGED vars
  BY <1>12 DEF TypeOK, vars
<1> QED
  BY <1>1, <1>2, <1>3, <1>4, <1>5, <1>6, <1>7, <1>8, <1>9, <1>10, <1>11, <1>12
     DEF Next, Push, Listen, Advance

\* The variables of the event queue keep their types.
THEOREM QueueTypeCorrect == Spec => []TypeOK
  BY TypeOKInit, TypeOKStep, PTL DEF Spec
-----------------------------------------------------------------------------
(***************************************************************************)
(* The buffer stays the newest MaxSize events.  Only PushAppend touches    *)
(* it; a full buffer loses its first event, whose id is the smallest.      *)
(***************************************************************************)
LEMMA PushKeepsBuffer ==
  ASSUME TypeOK, BufferIsNewestEvents,
         NEW p \in Pushers, NEW t \in Topics, PushAppend(p, t)
  PROVE  BufferIsNewestEvents'
<1> DEFINE n == Len(events)
           k == Len(log)
           e == [id |-> nextId, topic |-> t]
<1>1. /\ n \in Nat /\ k \in Nat /\ nextId = k + 1 /\ MaxSize \in Nat \ {0}
      /\ n = IF k < MaxSize THEN k ELSE MaxSize
  BY ConstantsAssumption DEF TypeOK, BufferIsNewestEvents
<1>2. /\ Len(log') = k + 1 /\ log'[k + 1] = t
      /\ \A i \in 1 .. k : log'[i] = log[i]
  BY DEF TypeOK, PushAppend
<1>3. nextId' = Len(log') + 1
  BY <1>1, <1>2 DEF PushAppend
<1>4. \A i \in 1 .. n : events[i].id = k - n + i /\ events[i].topic = log[k - n + i]
  BY DEF BufferIsNewestEvents
<1>5. e.id = k + 1 /\ e.topic = t
  BY <1>1
<1>6. CASE n >= MaxSize
  <2>1. events # <<>> /\ n = MaxSize /\ k >= n
    BY <1>1, <1>6
  <2>2. events' = Append(Tail(events), e)
    BY <1>6 DEF PushAppend, RoomFor
  <2>3. /\ Tail(events) \in Seq(Event)
        /\ Len(Tail(events)) = n - 1
        /\ \A i \in 1 .. n - 1 : Tail(events)[i] = events[i + 1]
    BY <2>1 DEF TypeOK
  <2>4. /\ Len(events') = n
        /\ events'[n] = e
        /\ \A i \in 1 .. n - 1 : events'[i] = events[i + 1]
    <3> HIDE DEF e
    <3> QED
      BY <2>2, <2>3, <1>1
  <2>5. \A i \in 1 .. n : /\ events'[i].id = (k + 1) - n + i
                           /\ events'[i].topic = log'[(k + 1) - n + i]
    <3> TAKE i \in 1 .. n
    <3>1. CASE i = n
      BY <3>1, <2>4, <1>5, <1>2, <1>1
    <3>2. CASE i # n
      <4>1. i + 1 \in 1 .. n /\ events'[i] = events[i + 1]
        BY <3>2, <2>4, <1>1
      <4>2. k - n + (i + 1) \in 1 .. k
        BY <4>1, <2>1, <1>1
      <4> HIDE DEF n, k
      <4> QED
        BY <4>1, <4>2, <1>4, <1>2, <1>1
    <3> QED
      BY <3>1, <3>2
  <2>6. \A i \in 1 .. Len(events') :
          /\ events'[i].id = Len(log') - Len(events') + i
          /\ events'[i].topic = log'[events'[i].id]
    <3> HIDE DEF n, k
    <3> QED
      BY <2>4, <2>5, <1>1, <1>2
  <2>7. Len(events') = IF Len(log') < MaxSize THEN Len(log') ELSE MaxSize
    BY <2>1, <2>4, <1>1, <1>2
  <2> HIDE DEF n, k, e
  <2> QED
    BY <2>6, <2>7, <1>3 DEF BufferIsNewestEvents
<1>7. CASE ~(n >= MaxSize)
  <2>1. n = k /\ k < MaxSize
    BY <1>1, <1>7
  <2>2. events' = Append(events, e)
    BY <1>7 DEF PushAppend, RoomFor
  <2>3. /\ Len(events') = n + 1
        /\ events'[n + 1] = e
        /\ \A i \in 1 .. n : events'[i] = events[i]
    <3> HIDE DEF e
    <3> QED
      BY <2>2, <1>1 DEF TypeOK
  <2>4. \A i \in 1 .. n + 1 : events'[i].id = i /\ events'[i].topic = log'[i]
    <3> TAKE i \in 1 .. n + 1
    <3>1. CASE i = n + 1
      BY <3>1, <2>1, <2>3, <1>5, <1>2
    <3>2. CASE i # n + 1
      <4>1. i \in 1 .. n /\ i \in 1 .. k /\ k - n + i = i
        BY <3>2, <2>1, <1>1
      <4> HIDE DEF n, k
      <4> QED
        BY <4>1, <2>3, <1>4, <1>2
    <3> QED
      BY <3>1, <3>2
  <2>5. \A i \in 1 .. Len(events') :
          /\ events'[i].id = Len(log') - Len(events') + i
          /\ events'[i].topic = log'[events'[i].id]
    <3> HIDE DEF n, k
    <3> QED
      BY <2>1, <2>3, <2>4, <1>1, <1>2
  <2>6. Len(events') = IF Len(log') < MaxSize THEN Len(log') ELSE MaxSize
    BY <2>1, <2>3, <1>1, <1>2
  <2> HIDE DEF n, k, e
  <2> QED
    BY <2>5, <2>6, <1>3 DEF BufferIsNewestEvents
<1> QED
  BY <1>6, <1>7
-----------------------------------------------------------------------------
\* The head never exceeds the log, and the buffer's ids are below or at it.
LEMMA HeadIsLogLength ==
  ASSUME TypeOK, BufferIsNewestEvents
  PROVE  /\ HeadCursor = Len(log) /\ HeadCursor \in Nat
         /\ \A i \in 1 .. Len(events) : events[i].id <= HeadCursor
<1>1. HeadCursor = Len(log) /\ HeadCursor \in Nat
  BY DEF TypeOK, BufferIsNewestEvents, HeadCursor
<1>2. Len(events) \in Nat /\ \A i \in 1 .. Len(events) : events[i].id = Len(log) - Len(events) + i
  BY DEF TypeOK, BufferIsNewestEvents
<1>3. \A i \in 1 .. Len(events) : events[i].id <= HeadCursor
  <2> DEFINE k == Len(log) n == Len(events)
  <2>1. k \in Nat /\ n \in Nat
    BY <1>1, <1>2
  <2>2. \A i \in 1 .. n : k - n + i <= k
    <3> HIDE DEF k, n
    <3> QED
      BY <2>1
  <2> QED
    BY <2>2, <1>1, <1>2
<1> QED
  BY <1>1, <1>3

\* Everything a scan collects has an id at most that of its last match.
LEMMA LastMatchIsNewest ==
  ASSUME TypeOK, BufferIsNewestEvents, NEW l \in Listeners,
         NEW last \in LastMatch(l)
  PROVE  /\ cursor[l] < events[last].id
         /\ events[last].id <= HeadCursor
         /\ \A i \in MatchingIds(l) : i > cursor[l] /\ i <= events[last].id
<1> DEFINE k == Len(log) n == Len(events)
<1>0. k \in Nat /\ n \in Nat
  BY DEF TypeOK
<1>1. k \in Nat /\ n \in Nat /\ \A i \in 1 .. n : events[i].id = k - n + i
  BY <1>0 DEF BufferIsNewestEvents
<1>2. last \in 1 .. n /\ events[last].id > cursor[l] /\ last \in Matching(l)
  BY DEF Matching, LastMatch
<1>3. \A i \in Matching(l) : i \in 1 .. n /\ i <= last /\ events[i].id > cursor[l]
  BY DEF Matching, LastMatch
<1>4. \A i \in Matching(l) : events[i].id <= events[last].id
  <2> HIDE DEF k, n
  <2> QED
    BY <1>1, <1>2, <1>3
<1>5. cursor[l] \in Nat /\ events[last].id \in Nat
  BY <1>2, EventsAreEvents DEF TypeOK
<1> QED
  BY <1>2, <1>3, <1>4, <1>5, HeadIsLogLength DEF MatchingIds
-----------------------------------------------------------------------------
\* The invariant holds before anything is pushed.
LEMMA QueueInvInit == Init => QueueInv
<1> SUFFICES ASSUME Init PROVE QueueInv
  OBVIOUS
<1>1. TypeOK
  BY TypeOKInit
<1>2. BufferIsNewestEvents
  BY ConstantsAssumption DEF Init, BufferIsNewestEvents
<1>3. HandedOnceInOrder
  <2>1. nextId = 1 /\ \A l \in Listeners : cursor[l] = 0 /\ \A i \in Ids : handed[l][i] = 0
    BY DEF Init
  <2>2. \A l \in Listeners : cursor[l] <= HeadCursor
    <3>1. HeadCursor = 0
      BY <2>1 DEF HeadCursor
    <3>2. \A n \in {0} : n <= 0
      OBVIOUS
    <3> QED
      BY <2>1, <3>1, <3>2, Zenon
  <2>3. \A l \in Listeners : \A i \in Ids :
          handed[l][i] <= 1 /\ (handed[l][i] = 1 => i <= cursor[l])
    BY <2>1
  <2> QED
    BY <2>2, <2>3 DEF HandedOnceInOrder
<1>4. LaterPushWakes /\ DeadlinesAreTimed
  BY DEF Init, LaterPushWakes, DeadlinesAreTimed
<1> QED
  BY <1>1, <1>2, <1>3, <1>4 DEF QueueInv

(***************************************************************************)
(* The cursor of a listener never runs ahead of the log nor falls behind   *)
(* what it was handed: an answer moves it to its last event, an empty      *)
(* answer and a fresh call to the head.                                    *)
(***************************************************************************)
LEMMA HandedStep ==
  ASSUME TypeOK, TypeOK', BufferIsNewestEvents, HandedOnceInOrder, [Next]_vars
  PROVE  HandedOnceInOrder'
<1>1. CASE \E p \in Pushers, t \in Topics : PushAppend(p, t)
  BY <1>1 DEF PushAppend, HandedOnceInOrder, TypeOK, HeadCursor
<1>2. CASE \E p \in Pushers : PushNotify(p)
  BY <1>2 DEF PushNotify, HandedOnceInOrder, HeadCursor
<1>3. ASSUME NEW l \in Listeners, ListenFromHead(l) PROVE HandedOnceInOrder'
  BY <1>3 DEF ListenFromHead, HandedOnceInOrder, queueVars, TypeOK, HeadCursor
<1>4. ASSUME NEW l \in Listeners, ScanHit(l) PROVE HandedOnceInOrder'
  <2>1. PICK last \in LastMatch(l) : cursor' = [cursor EXCEPT ![l] = events[last].id]
    BY <1>4 DEF ScanHit
  <2>2. /\ cursor[l] < events[last].id
        /\ events[last].id <= HeadCursor
        /\ \A i \in MatchingIds(l) : i > cursor[l] /\ i <= events[last].id
    BY <2>1, LastMatchIsNewest
  <2>3. HeadCursor' = HeadCursor
    BY <1>4 DEF ScanHit, queueVars, HeadCursor
  <2>4. /\ \A i \in Ids : handed'[l][i] = IF i \in MatchingIds(l)
                                         THEN handed[l][i] + 1 ELSE handed[l][i]
        /\ \A m \in Listeners : m # l => handed'[m] = handed[m]
    BY <1>4 DEF ScanHit, TypeOK
  <2>5. cursor'[l] = events[last].id /\ \A m \in Listeners : m # l => cursor'[m] = cursor[m]
    BY <2>1 DEF TypeOK
  <2>6. \A i \in Ids : /\ i \in Nat /\ handed[l][i] \in Nat
                       /\ handed[l][i] <= 1
                       /\ handed[l][i] = 1 => i <= cursor[l]
    BY ConstantsAssumption DEF TypeOK, HandedOnceInOrder, Ids
  <2>7. cursor[l] \in Nat /\ events[last].id \in Nat
    BY EventsAreEvents DEF TypeOK, LastMatch
  <2>8. \A i \in Ids : handed'[l][i] <= 1 /\ (handed'[l][i] = 1 => i <= cursor'[l])
    <3> TAKE i \in Ids
    <3>1. CASE i \in MatchingIds(l)
      BY <3>1, <2>2, <2>4, <2>5, <2>6, <2>7
    <3>2. CASE i \notin MatchingIds(l)
      BY <3>2, <2>2, <2>4, <2>5, <2>6, <2>7
    <3> QED
      BY <3>1, <3>2
  <2> QED
    BY <2>2, <2>3, <2>4, <2>5, <2>8 DEF HandedOnceInOrder
<1>5. ASSUME NEW l \in Listeners, ScanTimedOut(l) \/ NoTimeRemaining(l)
      PROVE  HandedOnceInOrder'
  <2>1. /\ cursor' = [cursor EXCEPT ![l] = HeadCursor] /\ handed' = handed
        /\ HeadCursor' = HeadCursor /\ HeadCursor \in Nat
    BY <1>5, HeadIsLogLength DEF ScanTimedOut, NoTimeRemaining, queueVars, HeadCursor
  <2>2. \A i \in Ids : handed[l][i] = 1 => i <= HeadCursor
    BY <2>1 DEF HandedOnceInOrder, TypeOK, Ids
  <2> QED
    BY <2>1, <2>2 DEF HandedOnceInOrder, TypeOK
<1>6. ASSUME NEW l \in Listeners,
             Resume(l) \/ ScanMiss(l) \/ Register(l) \/ WakeUp(l) \/ DeadlinePasses(l)
      PROVE  HandedOnceInOrder'
  BY <1>6 DEF Resume, ScanMiss, Register, WakeUp, DeadlinePasses, queueVars,
              HandedOnceInOrder, HeadCursor
<1>7. CASE UNCHANGED vars
  BY <1>7 DEF vars, HandedOnceInOrder, HeadCursor
<1> QED
  BY <1>1, <1>2, <1>3, <1>4, <1>5, <1>6, <1>7 DEF Next, Push, Listen, Advance

(***************************************************************************)
(* No push after a listener's registration is lost on it: the pusher stays *)
(* between append and notify until notify_waiters has reached every future *)
(* that exists.                                                            *)
(***************************************************************************)
LEMMA WakeStep ==
  ASSUME TypeOK, TypeOK', BufferIsNewestEvents, LaterPushWakes, [Next]_vars
  PROVE  LaterPushWakes'
<1>1. CASE \E p \in Pushers, t \in Topics : PushAppend(p, t)
  BY <1>1 DEF PushAppend, LaterPushWakes
<1>2. CASE \E p \in Pushers : PushNotify(p)
  BY <1>2 DEF PushNotify, LaterPushWakes
<1>3. ASSUME NEW l \in Listeners, Register(l) PROVE LaterPushWakes'
  <2>1. /\ HeadCursor' = HeadCursor /\ HeadCursor \in Nat /\ pushing' = pushing
        /\ pc' = [pc EXCEPT ![l] = "waiting"]
        /\ woken' = [woken EXCEPT ![l] = FALSE]
        /\ seen' = [seen EXCEPT ![l] = HeadCursor]
    BY <1>3, HeadIsLogLength DEF Register, queueVars, HeadCursor
  <2> QED
    BY <2>1 DEF LaterPushWakes, TypeOK
<1>4. ASSUME NEW l \in Listeners,
             \/ Resume(l) \/ ListenFromHead(l) \/ ScanHit(l) \/ ScanTimedOut(l)
             \/ ScanMiss(l) \/ NoTimeRemaining(l) \/ WakeUp(l)
      PROVE  LaterPushWakes'
  <2>1. /\ HeadCursor' = HeadCursor /\ pushing' = pushing
        /\ pc'[l] # "waiting"
        /\ \A m \in Listeners : m # l => /\ pc'[m] = pc[m]
                                        /\ woken'[m] = woken[m]
                                        /\ seen'[m] = seen[m]
    BY <1>4 DEF Resume, ListenFromHead, ScanHit, ScanTimedOut, ScanMiss,
                NoTimeRemaining, WakeUp, Return, queueVars, HeadCursor, TypeOK
  <2> QED
    BY <2>1 DEF LaterPushWakes
<1>5. ASSUME NEW l \in Listeners, DeadlinePasses(l) PROVE LaterPushWakes'
  BY <1>5 DEF DeadlinePasses, LaterPushWakes, queueVars, HeadCursor
<1>6. CASE UNCHANGED vars
  BY <1>6 DEF vars, LaterPushWakes, HeadCursor
<1> QED
  BY <1>1, <1>2, <1>3, <1>4, <1>5, <1>6 DEF Next, Push, Listen, Advance

LEMMA BufferStep ==
  ASSUME TypeOK, BufferIsNewestEvents, [Next]_vars
  PROVE  BufferIsNewestEvents'
<1>1. CASE \E p \in Pushers, t \in Topics : PushAppend(p, t)
  BY <1>1, PushKeepsBuffer
<1>2. CASE UNCHANGED <<events, nextId, log>>
  BY <1>2 DEF BufferIsNewestEvents
<1> QED
  BY <1>1, <1>2
     DEF Next, Push, Listen, Advance, vars, queueVars, PushNotify, Resume,
         ListenFromHead, ScanHit, ScanTimedOut, ScanMiss, NoTimeRemaining,
         Register, WakeUp, DeadlinePasses

LEMMA DeadlinesStep ==
  ASSUME TypeOK, DeadlinesAreTimed, [Next]_vars
  PROVE  DeadlinesAreTimed'
<1>1. CASE \E l \in Listeners : DeadlinePasses(l)
  BY <1>1 DEF DeadlinePasses, DeadlinesAreTimed, TypeOK
<1>2. CASE \E l \in Listeners : expired' = [expired EXCEPT ![l] = FALSE]
  BY <1>2 DEF DeadlinesAreTimed, TypeOK
<1>3. CASE UNCHANGED expired
  BY <1>3 DEF DeadlinesAreTimed
<1> QED
  BY <1>1, <1>2, <1>3
     DEF Next, Push, Listen, Advance, vars, queueVars, PushAppend, PushNotify,
         Resume, ListenFromHead, ScanHit, ScanTimedOut, ScanMiss,
         NoTimeRemaining, Register, WakeUp, Return

LEMMA QueueInvStep == QueueInv /\ [Next]_vars => QueueInv'
  BY TypeOKStep, BufferStep, HandedStep, WakeStep, DeadlinesStep DEF QueueInv

LEMMA QueueInvariance == Spec => []QueueInv
  BY QueueInvInit, QueueInvStep, PTL DEF Spec

(***************************************************************************)
(* push and the wrap of the ring never lose, duplicate or reorder an event *)
(* that is still within the newest MaxSize.                                *)
(***************************************************************************)
THEOREM BufferCorrect == Spec => []BufferIsNewestEvents
<1>1. QueueInv => BufferIsNewestEvents
  BY DEF QueueInv
<1> QED
  BY <1>1, QueueInvariance, PTL

(***************************************************************************)
(* Resuming from the cursor of an answer never hands an event out twice.   *)
(***************************************************************************)
THEOREM CursorCorrect == Spec => []HandedOnceInOrder
<1>1. QueueInv => HandedOnceInOrder
  BY DEF QueueInv
<1> QED
  BY <1>1, QueueInvariance, PTL

(***************************************************************************)
(* A listener that has created its future misses no later push.            *)
(***************************************************************************)
THEOREM NoWakeLostAfterRegistration == Spec => []LaterPushWakes
<1>1. QueueInv => LaterPushWakes
  BY DEF QueueInv
<1> QED
  BY <1>1, QueueInvariance, PTL
-----------------------------------------------------------------------------
(* The queue implements EventLog. *)

\* What a scan collects is what the log owes the listener.
LEMMA MatchesAreOwed ==
  ASSUME TypeOK, BufferIsNewestEvents, NEW l \in Listeners
  PROVE  Log!Owed(l) = MatchingIds(l)
<1> DEFINE k == Len(log) n == Len(events)
<1>1. /\ k \in Nat /\ n \in Nat /\ MaxSize \in Nat \ {0}
      /\ n = IF k < MaxSize THEN k ELSE MaxSize
      /\ \A i \in 1 .. n : events[i].id = k - n + i /\ events[i].topic = log[k - n + i]
  <2>1. k \in Nat /\ n \in Nat /\ MaxSize \in Nat \ {0}
    BY ConstantsAssumption DEF TypeOK
  <2>2. n = IF k < MaxSize THEN k ELSE MaxSize
    BY DEF BufferIsNewestEvents
  <2>3. ASSUME NEW i \in 1 .. n
        PROVE  events[i].id = k - n + i /\ events[i].topic = log[k - n + i]
    <3>1. events[i].id = k - n + i /\ events[i].topic = log[events[i].id]
      BY DEF BufferIsNewestEvents
    <3> QED
      BY <3>1
  <2> QED
    BY <2>1, <2>2, <2>3
<1>2. Matching(l) = {i \in 1 .. n : k - n + i > cursor[l] /\ log[k - n + i] \in Subscription[l]}
  <2> HIDE DEF k
  <2> QED
    BY <1>1 DEF Matching
<1>3. Log!Owed(l) = {j \in 1 .. k : j + MaxSize > k /\ j > cursor[l] /\ log[j] \in Subscription[l]}
  BY DEF Log!Owed, Log!Retained
<1>4. ASSUME NEW j \in Log!Owed(l)
      PROVE  j \in MatchingIds(l)
  <2> HIDE DEF k, n
  <2>1. j \in 1 .. k /\ j + MaxSize > k
    BY <1>3
  <2>2. j - (k - n) \in 1 .. n /\ k - n + (j - (k - n)) = j
    BY <2>1, <1>1
  <2>3. j - (k - n) \in Matching(l)
    BY <2>2, <1>2, <1>3
  <2> QED
    BY <2>2, <2>3, <1>1 DEF MatchingIds
<1>5. ASSUME NEW i \in Matching(l)
      PROVE  events[i].id \in Log!Owed(l)
  <2> HIDE DEF k, n
  <2>1. i \in 1 .. n /\ events[i].id = k - n + i
    BY <1>1, <1>2
  <2>2. k - n + i \in 1 .. k /\ (k - n + i) + MaxSize > k
    BY <2>1, <1>1
  <2> QED
    BY <2>1, <2>2, <1>2, <1>3
<1> QED
  BY <1>4, <1>5 DEF MatchingIds

LEMMA RefinementInit == Init => Log!Init
  BY DEF Init, Log!Init, Ids

LEMMA RefinementStep == QueueInv /\ [Next]_vars => [Log!Next]_(Log!vars)
<1> SUFFICES ASSUME QueueInv, [Next]_vars PROVE [Log!Next]_(Log!vars)
  OBVIOUS
<1> USE DEF QueueInv
<1>1. ASSUME NEW p \in Pushers, NEW t \in Topics, PushAppend(p, t) PROVE Log!Next
  BY <1>1 DEF PushAppend, Log!Next, Log!Publish
<1>2. ASSUME NEW l \in Listeners, ListenFromHead(l) PROVE Log!Next
  BY <1>2, HeadIsLogLength DEF ListenFromHead, queueVars, Ids, Log!Next, Log!Join
<1>3. ASSUME NEW l \in Listeners, ScanHit(l) PROVE Log!Next
  <2>1. PICK last \in LastMatch(l) : cursor' = [cursor EXCEPT ![l] = events[last].id]
    BY <1>3 DEF ScanHit
  <2>2. events[last].id \in MatchingIds(l)
    BY DEF LastMatch, MatchingIds
  <2>3. /\ events[last].id \in Log!Owed(l)
        /\ \A j \in Log!Owed(l) : j <= events[last].id
    BY <2>2, LastMatchIsNewest, MatchesAreOwed
  <2>4. /\ handed' = [handed EXCEPT ![l] =
             [i \in Ids |-> IF i \in Log!Owed(l) THEN @[i] + 1 ELSE @[i]]]
        /\ UNCHANGED log
    BY <1>3, MatchesAreOwed DEF ScanHit, queueVars
  <2>5. Log!Read(l)
    BY <2>1, <2>3, <2>4 DEF Log!Read, Ids
  <2> QED
    BY <2>5 DEF Log!Next
<1>4. ASSUME NEW l \in Listeners, ScanTimedOut(l) \/ NoTimeRemaining(l) PROVE Log!Next
  <2>1. l \in TimedListeners
    BY <1>4 DEF ScanTimedOut, NoTimeRemaining, DeadlinesAreTimed
  <2>2. Log!TimeOut(l)
    BY <1>4, <2>1, HeadIsLogLength DEF ScanTimedOut, NoTimeRemaining, queueVars, Log!TimeOut
  <2> QED
    BY <2>2 DEF Log!Next
<1>5. CASE UNCHANGED <<log, cursor, handed>>
  BY <1>5 DEF Log!vars
<1> QED
  BY <1>1, <1>2, <1>3, <1>4, <1>5
     DEF Next, Push, Listen, Advance, vars, queueVars, PushNotify, Resume,
         ScanMiss, Register, WakeUp, DeadlinePasses

(***************************************************************************)
(* The lock, the ring and the notifier implement the log: every answer is  *)
(* exactly what the log owes the listener, for any interleaving.           *)
(***************************************************************************)
THEOREM QueueRefinement == Spec => ImplementsEventLog
  BY QueueInvariance, RefinementInit, RefinementStep, PTL DEF Spec, ImplementsEventLog, Log!Spec
-----------------------------------------------------------------------------
(***************************************************************************)
(*                              The web view                               *)
(***************************************************************************)

(***************************************************************************)
(* What a queue says last about something: the type of the newest of its   *)
(* first n messages that is in A, a set of messages; and what is said last *)
(* when x is said first and y after it.                                    *)
(***************************************************************************)
Hits(q, n, A) == {j \in 1 .. n : q[j] \in A}

LastOf(q, n, A) ==
  IF Hits(q, n, A) = {} THEN "none"
  ELSE q[CHOOSE j \in Hits(q, n, A) : \A i \in Hits(q, n, A) : i <= j].type

Of(m, A) == IF m \in A THEN m.type ELSE "none"

Then(x, y) == IF y = "none" THEN x ELSE y

\* The messages about a frame, and those about a window.
On(f) == {[type |-> "render", frame |-> f], [type |-> "close", frame |-> f]}

Labelled(l) == {[type |-> "open", label |-> l], [type |-> "shut", label |-> l]}

\* Sets of messages of which each says something.
Telling == {"render", "close", "open", "shut"}

Tells(A) == \A a \in A : a.type \in Telling

LEMMA AllTell == (\A f : Tells(On(f))) /\ (\A l : Tells(Labelled(l)))
BY DEF Tells, On, Labelled, Telling

\* A set of numbers up to n has a greatest one.
LEMMA HasGreatest ==
  ASSUME NEW n \in Nat, NEW S \in SUBSET (1 .. n), S # {}
  PROVE  \E i \in S : \A j \in S : j <= i
<1> DEFINE T == {n - i : i \in S}
<1>1. T \in SUBSET Nat /\ T # {}
  <2>1. \A i \in S : n - i \in Nat
    OBVIOUS
  <2> QED
    BY <2>1
<1>2. PICK k \in T : \A m \in T : ~(<<m, k>> \in OpToRel(<, Nat))
  BY <1>1, NatLessThanWellFounded, WFMin
<1>3. \A m \in T : ~(m < k)
  BY <1>1, <1>2 DEF OpToRel
<1>4. PICK i \in S : k = n - i
  BY <1>2
<1>5. \A j \in S : ~(n - j < n - i)
  BY <1>3, <1>4
<1> QED
  BY <1>5

\* The j-th message is the newest in A of the first n, and two queues begin with
\* the same n messages.
Newest(q, n, A, j) ==
  /\ j \in 1 .. n
  /\ q[j] \in A
  /\ \A i \in 1 .. n : q[i] \in A => i <= j

Alike(q, p, n) == \A i \in 1 .. n : q[i] = p[i]

\* What is said last is said by the message after which nothing is.
LEMMA LastIs ==
  ASSUME NEW q, NEW n \in Nat, NEW A, NEW j, Newest(q, n, A, j)
  PROVE  LastOf(q, n, A) = q[j].type
<1> DEFINE H == Hits(q, n, A)
<1>1. j \in H /\ \A i \in H : i \in 1 .. n /\ i <= j
  BY DEF Hits, Newest
<1> DEFINE g == CHOOSE k \in H : \A i \in H : i <= k
<1>2. g \in H /\ \A i \in H : i <= g
  BY <1>1
<1>3. LastOf(q, n, A) = q[g].type
  BY <1>1 DEF LastOf
<1>4. g = j
  <2> HIDE DEF g, H
  <2> QED
    BY <1>1, <1>2
<1> QED
  BY <1>3, <1>4

\* Either nothing is said, or there is that message.
LEMMA LastCases ==
  ASSUME NEW q, NEW n \in Nat, NEW A
  PROVE  \/ (\A i \in 1 .. n : q[i] \notin A) /\ LastOf(q, n, A) = "none"
         \/ \E j \in 1 .. n : /\ q[j] \in A
                              /\ Newest(q, n, A, j)
                              /\ LastOf(q, n, A) = q[j].type
<1>1. CASE Hits(q, n, A) = {}
  BY <1>1 DEF Hits, LastOf
<1>2. CASE Hits(q, n, A) # {}
  <2>1. Hits(q, n, A) \in SUBSET (1 .. n)
    BY DEF Hits
  <2>2. PICK j \in Hits(q, n, A) : \A i \in Hits(q, n, A) : i <= j
    BY <1>2, <2>1, HasGreatest
  <2>3. j \in 1 .. n /\ q[j] \in A /\ Newest(q, n, A, j)
    BY <2>2 DEF Hits, Newest
  <2> QED
    BY <2>3, LastIs
<1> QED
  BY <1>1, <1>2

LEMMA LastTells ==
  ASSUME NEW q, NEW n \in Nat, NEW A, Tells(A)
  PROVE  /\ LastOf(q, n, A) \in Telling \cup {"none"}
         /\ LastOf(q, n, A) = "none" <=> \A i \in 1 .. n : q[i] \notin A
BY LastCases DEF Tells, Telling

\* Only the first n messages count.
LEMMA LastSame ==
  ASSUME NEW q, NEW p, NEW n \in Nat, NEW A, Alike(q, p, n)
  PROVE  LastOf(q, n, A) = LastOf(p, n, A)
<1>1. CASE \A i \in 1 .. n : q[i] \notin A
  BY <1>1 DEF LastOf, Hits, Alike
<1>2. CASE \E j \in 1 .. n : Newest(q, n, A, j) /\ LastOf(q, n, A) = q[j].type
  <2>1. PICK j \in 1 .. n : Newest(q, n, A, j) /\ LastOf(q, n, A) = q[j].type
    BY <1>2
  <2>2. Newest(p, n, A, j) /\ p[j] = q[j]
    BY <2>1 DEF Newest, Alike
  <2> QED
    BY <2>1, <2>2, LastIs
<1> QED
  BY <1>1, <1>2, LastCases

LEMMA LastOfNone ==
  ASSUME NEW q, NEW A
  PROVE  LastOf(q, 0, A) = "none"
BY DEF LastOf, Hits

\* One message more.
LEMMA LastAppend ==
  ASSUME NEW S, NEW q \in Seq(S), NEW m, NEW A, Tells(A)
  PROVE  LastOf(Append(q, m), Len(q) + 1, A) = Then(LastOf(q, Len(q), A), Of(m, A))
<1> DEFINE p == Append(q, m) n == Len(q) k == n + 1
<1>1. n \in Nat /\ k \in Nat /\ k = n + 1 /\ p[k] = m /\ \A i \in 1 .. n : p[i] = q[i]
  OBVIOUS
<1> HIDE DEF p, n, k
<1>2. CASE m \in A
  <2>1. Newest(p, k, A, k)
    BY <1>1, <1>2 DEF Newest
  <2>2. LastOf(p, k, A) = m.type
    BY <1>1, <2>1, LastIs
  <2> QED
    BY <1>2, <2>2 DEF Of, Then, Tells, Telling, p, n, k
<1>3. CASE m \notin A
  <2>1. CASE \A i \in 1 .. n : q[i] \notin A
    <3>1. \A i \in 1 .. k : p[i] \notin A
      BY <1>1, <1>3, <2>1
    <3>2. LastOf(p, k, A) = "none" /\ LastOf(q, n, A) = "none"
      BY <1>1, <2>1, <3>1, LastTells
    <3> QED
      BY <1>3, <3>2 DEF Of, Then, p, n, k
  <2>2. CASE \E j \in 1 .. n : Newest(q, n, A, j) /\ LastOf(q, n, A) = q[j].type
    <3>1. PICK j \in 1 .. n : Newest(q, n, A, j) /\ LastOf(q, n, A) = q[j].type
      BY <2>2
    <3>2. Newest(p, k, A, j) /\ p[j] = q[j]
      BY <1>1, <1>3, <3>1 DEF Newest
    <3>3. LastOf(p, k, A) = q[j].type
      BY <1>1, <3>2, LastIs
    <3> QED
      BY <1>3, <3>1, <3>3 DEF Of, Then, p, n, k
  <2> QED
    BY <1>1, <2>1, <2>2, LastCases
<1> QED
  BY <1>2, <1>3

\* The first message apart.
LEMMA LastTail ==
  ASSUME NEW S, NEW q \in Seq(S), q # <<>>, NEW n \in 1 .. Len(q), NEW A, Tells(A)
  PROVE  LastOf(q, n, A) = Then(Of(Head(q), A), LastOf(Tail(q), n - 1, A))
<1> DEFINE p == Tail(q) h == Head(q) k == n - 1
<1>1. /\ n \in Nat /\ k \in Nat /\ n = k + 1 /\ q[1] = h
      /\ \A i \in 1 .. k : p[i] = q[i + 1]
  OBVIOUS
<1>2. \A i \in 1 .. n : i # 1 => i - 1 \in 1 .. k /\ q[i] = p[i - 1]
  OBVIOUS
<1> HIDE DEF p, h, k
<1>3. CASE \A i \in 1 .. k : p[i] \notin A
  <2>1. LastOf(p, k, A) = "none"
    BY <1>1, <1>3, LastTells
  <2>2. CASE h \in A
    <3>1. 1 \in 1 .. n
      BY <1>1
    <3>2. Newest(q, n, A, 1)
      BY <1>1, <1>2, <1>3, <2>2, <3>1 DEF Newest
    <3>3. LastOf(q, n, A) = q[1].type
      BY <1>1, <3>2, LastIs
    <3> QED
      BY <1>1, <2>1, <2>2, <3>3 DEF Of, Then, p, h, k
  <2>3. CASE h \notin A
    <3>1. \A i \in 1 .. n : q[i] \notin A
      BY <1>1, <1>2, <1>3, <2>3
    <3>2. LastOf(q, n, A) = "none"
      BY <1>1, <3>1, LastTells
    <3> QED
      BY <2>1, <2>3, <3>2 DEF Of, Then, p, h, k
  <2> QED
    BY <2>2, <2>3
<1>4. CASE \E j \in 1 .. k : /\ p[j] \in A
                             /\ Newest(p, k, A, j)
                             /\ LastOf(p, k, A) = p[j].type
  <2>1. PICK j \in 1 .. k : /\ p[j] \in A
                            /\ Newest(p, k, A, j)
                            /\ LastOf(p, k, A) = p[j].type
    BY <1>4
  <2>2. PICK l \in 1 .. n : l = j + 1 /\ q[l] = p[j]
    BY <1>1
  <2>3. Newest(q, n, A, l)
    <3>1. ASSUME NEW i \in 1 .. n, q[i] \in A, i # 1 PROVE i <= l
      <4>1. i - 1 \in 1 .. k /\ p[i - 1] \in A
        BY <1>2, <3>1
      <4>2. i - 1 <= j
        BY <2>1, <4>1 DEF Newest
      <4> QED
        BY <1>1, <2>2, <4>2
    <3> QED
      BY <1>1, <2>1, <2>2, <3>1 DEF Newest
  <2>4. LastOf(q, n, A) = p[j].type
    BY <1>1, <2>2, <2>3, LastIs
  <2>5. p[j].type # "none"
    BY <2>1 DEF Tells, Telling
  <2> QED
    BY <2>1, <2>4, <2>5 DEF Then, p, h, k
<1> QED
  BY <1>1, <1>3, <1>4, LastCases

\* Two queues, one after the other.
LEMMA LastConcat ==
  ASSUME NEW S, NEW p \in Seq(S), NEW q \in Seq(S), NEW A, Tells(A)
  PROVE  LastOf(p \o q, Len(p \o q), A) = Then(LastOf(p, Len(p), A), LastOf(q, Len(q), A))
<1> DEFINE r == p \o q a == Len(p) b == Len(q) n == a + b
<1>1. /\ a \in Nat /\ b \in Nat /\ n \in Nat /\ Len(r) = n /\ n = a + b
      /\ \A i \in 1 .. a : r[i] = p[i]
      /\ \A i \in 1 .. b : r[a + i] = q[i]
  OBVIOUS
<1> HIDE DEF r, a, b, n
<1>2. \A i \in 1 .. n : i \in 1 .. a \/ (i - a \in 1 .. b /\ i = a + (i - a))
  BY <1>1
<1>3. \A i \in 1 .. n : i \in 1 .. a \/ (i - a \in 1 .. b /\ r[i] = q[i - a])
  BY <1>1, <1>2
<1>4. CASE \A i \in 1 .. b : q[i] \notin A
  <2>1. LastOf(q, b, A) = "none"
    BY <1>1, <1>4, LastTells
  <2>2. CASE \A i \in 1 .. a : p[i] \notin A
    <3>1. \A i \in 1 .. n : r[i] \notin A
      BY <1>1, <1>3, <1>4, <2>2
    <3>2. LastOf(r, n, A) = "none" /\ LastOf(p, a, A) = "none"
      BY <1>1, <2>2, <3>1, LastTells
    <3> QED
      BY <1>1, <2>1, <3>2 DEF Then, r, a, b
  <2>3. CASE \E j \in 1 .. a : Newest(p, a, A, j) /\ LastOf(p, a, A) = p[j].type
    <3>1. PICK j \in 1 .. a : Newest(p, a, A, j) /\ LastOf(p, a, A) = p[j].type
      BY <2>3
    <3>2. j \in 1 .. n /\ r[j] = p[j]
      BY <1>1
    <3>3. Newest(r, n, A, j)
      BY <1>1, <1>3, <1>4, <3>1, <3>2 DEF Newest
    <3>4. LastOf(r, n, A) = p[j].type
      BY <1>1, <3>2, <3>3, LastIs
    <3> QED
      BY <1>1, <2>1, <3>1, <3>4 DEF Then, r, a, b
  <2> QED
    BY <1>1, <2>2, <2>3, LastCases
<1>5. CASE \E j \in 1 .. b : /\ q[j] \in A
                             /\ Newest(q, b, A, j)
                             /\ LastOf(q, b, A) = q[j].type
  <2>1. PICK j \in 1 .. b : /\ q[j] \in A
                            /\ Newest(q, b, A, j)
                            /\ LastOf(q, b, A) = q[j].type
    BY <1>5
  <2>2. PICK k \in 1 .. n : k = a + j /\ r[k] = q[j]
    BY <1>1
  <2>3. ASSUME NEW i \in 1 .. n, r[i] \in A PROVE i <= k
    <3>1. CASE i \in 1 .. a
      BY <1>1, <2>2, <3>1
    <3>2. CASE i - a \in 1 .. b /\ r[i] = q[i - a]
      <4>1. i - a <= j
        BY <2>1, <2>3, <3>2 DEF Newest
      <4> QED
        BY <1>1, <2>2, <4>1
    <3> QED
      BY <1>3, <3>1, <3>2
  <2>4. Newest(r, n, A, k)
    BY <2>1, <2>2, <2>3 DEF Newest
  <2>5. LastOf(r, n, A) = q[j].type
    BY <1>1, <2>2, <2>4, LastIs
  <2>6. q[j].type # "none"
    BY <2>1 DEF Tells, Telling
  <2> QED
    BY <1>1, <2>1, <2>5, <2>6 DEF Then, r, a, b
<1> QED
  BY <1>1, <1>4, <1>5, LastCases
-----------------------------------------------------------------------------
(***************************************************************************)
(* The types.  A message or an answer that carries the id of a request     *)
(* under way is about that request: ids are drawn once.                    *)
(***************************************************************************)
USE DEF pageVars

Version == (0 .. MaxRenders) \cup {None}

ChangeCall == [op : {"render", "close"}, frame : Frames, alone : BOOLEAN]

ShotCall ==
  [op : {"snapshot"}, frame : Frames, id : Nat, sent : BOOLEAN, least : Nat]

ListCall == [op : {"list"}, id : Nat, sent : BOOLEAN]

Call == {Idle} \cup ChangeCall \cup ShotCall \cup ListCall

\* The agent waits for an answer to a request.
Asking(c) == call[c].op \in {"snapshot", "list"}

CallTypes ==
  /\ call \in [Callers -> Call]
  /\ calls \in Nat
  /\ \A c \in Callers : Asking(c) => call[c].id <= calls
  /\ \A c, d \in Callers : Asking(c) /\ Asking(d) /\ call[c].id = call[d].id => c = d

\* The messages of a replay: there are only so many.
Resend == {[type |-> "render", frame |-> f] : f \in {g \in Frames : store[g] # 0}}

StoreTypes ==
  /\ store \in [Frames -> Nat]
  /\ renders \in 0 .. MaxRenders
  /\ \A f \in Frames : store[f] <= renders
  /\ IsFiniteSet(Resend)

PageTypes ==
  /\ conn \in [Sockets -> {"down", "joining", "up"}]
  /\ shown \in [Viewers -> [Frames -> Version]]
  /\ behind \in [Viewers -> SUBSET Frames]
  /\ stage \in [Windows -> Stages]
  /\ ready \in BOOLEAN
  /\ opened \in [Callers -> SUBSET Windows]

ShotMessage == [type : {"snapshot"}, id : Nat, frame : Frames, sure : SUBSET Tabs]

Message ==
  [type : {"render", "close"}, frame : Frames]
    \cup [type : {"open", "shut"}, label : Windows]
    \cup [type : {"list"}, id : Nat]
    \cup ShotMessage

Fits(m) ==
  m.type \in {"snapshot", "list"} =>
    /\ m.id <= calls
    /\ \A c \in Callers : Asking(c) /\ call[c].id = m.id =>
         call[c].op = m.type /\ (m.type = "snapshot" => call[c].frame = m.frame)

Sendable == {m \in Message : Fits(m)}

PageAnswer == [type : {"answer"}, id : Nat, got : Version, sure : BOOLEAN]

ListAnswer == [type : {"answer"}, id : Nat, got : SUBSET Windows]

Reply ==
  [type : {"close"}, frame : Frames] \cup [type : {"replay"}] \cup PageAnswer \cup ListAnswer

Answers(m) ==
  m.type = "answer" =>
    /\ m.id <= calls
    /\ \A c \in Callers : Asking(c) /\ call[c].id = m.id =>
         IF call[c].op = "list" THEN m \in ListAnswer ELSE m \in PageAnswer

Returnable == {m \in Reply : Answers(m)}

QueueTypes ==
  /\ wire \in [Sockets -> Seq(Sendable)]
  /\ uplink \in [Sockets -> Seq(Returnable)]
  /\ pending \in Seq(Sendable)
  /\ holding \in Seq(Sendable)
  /\ emitted \in [Windows -> Seq(Sendable)]
  /\ backlog \in [Windows -> Seq(Sendable)]

\* A frame that is not loading has the document that was fetched.
FrameTypes ==
  /\ doc \in [Viewers -> [Frames -> Version]]
  /\ loading \in [Viewers -> SUBSET Frames]
  /\ asked \in [Viewers -> SUBSET (Returnable \cap PageAnswer)]
  /\ \A v \in Viewers, f \in Frames :
       IF f \in loading[v] THEN shown[v][f] # None ELSE doc[v][f] = shown[v][f]

WebTypes == CallTypes /\ StoreTypes /\ PageTypes /\ FrameTypes /\ QueueTypes
-----------------------------------------------------------------------------
\* What goes on in a page's iframes.
LEMMA IframesStep ==
  ASSUME NEW v \in Viewers, Iframes(v)
  PROVE  /\ UNCHANGED <<store, conn, wire, call, waiters, answer, renders, calls, behind>>
         /\ \/ UNCHANGED <<uplink, asked>>
            \/ UNCHANGED shown /\ \E a \in asked[v] : FrameAnswers(v, a)
BY DEF Iframes, FrameFetches, FrameLoads, FrameAnswers, brokerVars

LEMMA CallShape ==
  ASSUME CallTypes, NEW c \in Callers
  PROVE  /\ call[c].op \in {"idle", "render", "close", "snapshot", "list"}
         /\ call[c].op = "idle" => call[c] = Idle
         /\ call[c].op \in {"render", "close"} => call[c] \in ChangeCall
         /\ call[c].op = "snapshot" => call[c] \in ShotCall
         /\ call[c].op = "list" => call[c] \in ListCall
BY DEF CallTypes, Call, ChangeCall, ShotCall, ListCall, Idle

\* What a change of f does to the calls beside it.
LEMMA BesideShape ==
  ASSUME CallTypes, NEW f \in Frames, NEW removed \in BOOLEAN, NEW b, b = Beside(f, removed),
         NEW c \in Callers
  PROVE  /\ b \in [Callers -> Call]
         /\ b[c].op = call[c].op
         /\ call[c].op \in {"render", "close"} =>
              /\ b[c].frame = call[c].frame
              /\ b[c].alone => call[c].alone /\ call[c].frame # f
              /\ call[c].frame # f => b[c] = call[c]
         /\ call[c].op = "snapshot" =>
              /\ b[c].frame = call[c].frame /\ b[c].id = call[c].id /\ b[c].sent = call[c].sent
              /\ b[c].least \in {0, call[c].least}
              /\ removed /\ call[c].frame = f => b[c].least = 0
         /\ call[c].op \notin {"render", "close", "snapshot"} => b[c] = call[c]
<1>1. \A d \in Callers : /\ call[d].op \in {"render", "close"} => call[d] \in ChangeCall
                         /\ call[d].op = "snapshot" => call[d] \in ShotCall
                         /\ call[d] \in Call
  BY CallShape DEF CallTypes
<1>2. \A d \in Callers :
        b[d] = IF d \in Changing(f) THEN [call[d] EXCEPT !.alone = FALSE]
               ELSE IF removed /\ call[d].op = "snapshot" /\ call[d].frame = f
                      THEN [call[d] EXCEPT !.least = 0]
               ELSE call[d]
  BY DEF Beside
<1>3. ASSUME NEW d \in Callers PROVE b[d] \in Call
  <2>1. CASE d \in Changing(f)
    <3>1. call[d] \in ChangeCall
      BY <1>1, <2>1 DEF Changing
    <3>2. [call[d] EXCEPT !.alone = FALSE] \in ChangeCall
      BY <3>1 DEF ChangeCall
    <3> QED
      BY <1>2, <2>1, <3>2 DEF Call
  <2>2. CASE d \notin Changing(f) /\ removed /\ call[d].op = "snapshot" /\ call[d].frame = f
    <3>1. [call[d] EXCEPT !.least = 0] \in ShotCall
      BY <1>1, <2>2 DEF ShotCall
    <3> QED
      BY <1>2, <2>2, <3>1 DEF Call
  <2> QED
    BY <1>1, <1>2, <2>1, <2>2
<1>4. b \in [Callers -> Call]
  BY <1>3 DEF Beside
<1>5. CASE c \in Changing(f)
  <2>1. call[c] \in ChangeCall /\ call[c].op \in {"render", "close"} /\ call[c].frame = f
    BY <1>1, <1>5 DEF Changing
  <2>2. b[c] = [call[c] EXCEPT !.alone = FALSE]
    BY <1>2, <1>5
  <2> QED
    BY <1>4, <2>1, <2>2 DEF ChangeCall
<1>6. CASE c \notin Changing(f) /\ removed /\ call[c].op = "snapshot" /\ call[c].frame = f
  <2>1. call[c] \in ShotCall /\ b[c] = [call[c] EXCEPT !.least = 0]
    BY <1>1, <1>2, <1>6
  <2> QED
    BY <1>4, <1>6, <2>1 DEF ShotCall
<1>7. CASE c \notin Changing(f) /\ ~(removed /\ call[c].op = "snapshot" /\ call[c].frame = f)
  <2>1. b[c] = call[c]
    BY <1>2, <1>7
  <2> QED
    BY <1>4, <1>7, <2>1 DEF Changing
<1> QED
  BY <1>5, <1>6, <1>7

(***************************************************************************)
(* Calls and ids.  A request under way is an old one, with its id and its  *)
(* frame, or has the newest id.                                            *)
(***************************************************************************)
KeepsIds ==
  /\ calls' \in Nat /\ calls <= calls'
  /\ \A c \in Callers : Asking(c)' =>
       \/ /\ Asking(c) /\ call'[c].op = call[c].op /\ call'[c].id = call[c].id
          /\ call[c].op = "snapshot" => call'[c].frame = call[c].frame
       \/ call'[c].id = calls + 1 /\ calls' = calls + 1

LEMMA CallsStep == CallTypes /\ StoreTypes /\ [WindowNext]_uiVars => CallTypes' /\ KeepsIds
<1> SUFFICES ASSUME CallTypes, StoreTypes, [WindowNext]_uiVars PROVE CallTypes' /\ KeepsIds
  OBVIOUS
<1>0. /\ \A c \in Callers : Asking(c) => call[c].id \in Nat /\ call[c].id <= calls
      /\ \A c, d \in Callers : Asking(c) /\ Asking(d) /\ call[c].id = call[d].id => c = d
      /\ calls \in Nat
      /\ call \in [Callers -> Call]
  BY CallShape DEF CallTypes, Asking, ShotCall, ListCall
<1>1. ASSUME call' \in [Callers -> Call], calls' \in {calls, calls + 1},
             NEW d \in Callers,
             \A c \in Callers \ {d} : Asking(c)' =>
               /\ Asking(c) /\ call'[c].op = call[c].op /\ call'[c].id = call[c].id
               /\ call[c].op = "snapshot" => call'[c].frame = call[c].frame,
             Asking(d)' =>
               \/ /\ Asking(d) /\ call'[d].op = call[d].op /\ call'[d].id = call[d].id
                  /\ call[d].op = "snapshot" => call'[d].frame = call[d].frame
               \/ call'[d].id = calls + 1 /\ calls' = calls + 1
      PROVE  CallTypes' /\ KeepsIds
  <2>1. KeepsIds
    BY <1>0, <1>1 DEF KeepsIds
  <2>2. \A c \in Callers : Asking(c)' => call'[c].id <= calls'
    BY <1>0, <2>1 DEF KeepsIds
  <2>3. \A c \in Callers \ {d} : Asking(c)' => call'[c].id \in Nat /\ call'[c].id <= calls
                                                 /\ Asking(c) /\ call'[c].id = call[c].id
    BY <1>0, <1>1
  <2>4. ASSUME NEW c \in Callers, NEW e \in Callers, Asking(c)', Asking(e)',
               call'[c].id = call'[e].id, c # e
        PROVE  FALSE
    <3>1. CASE c # d /\ e # d
      BY <1>0, <2>3, <2>4, <3>1
    <3>2. CASE c = d
      BY <1>0, <1>1, <2>3, <2>4, <3>2
    <3>3. CASE e = d
      BY <1>0, <1>1, <2>3, <2>4, <3>3
    <3> QED
      BY <3>1, <3>2, <3>3
  <2> QED
    BY <1>1, <1>0, <2>1, <2>2, <2>4 DEF CallTypes, KeepsIds
<1>2. ASSUME UNCHANGED call, calls' \in {calls, calls + 1} PROVE CallTypes' /\ KeepsIds
  <2>1. CallTypes'
    BY <1>0, <1>2 DEF CallTypes, Asking
  <2> QED
    BY <1>0, <1>2, <2>1 DEF KeepsIds, Asking
<1>3. ASSUME NEW c \in Callers, NEW f \in Frames, RenderInsert(c, f) \/ CloseRemove(c, f)
      PROVE  CallTypes' /\ KeepsIds
  <2>1. PICK removed \in BOOLEAN, op \in {"render", "close"} :
          call' = [Beside(f, removed) EXCEPT
                     ![c] = [op |-> op, frame |-> f, alone |-> Changing(f) = {}]]
    BY <1>3 DEF RenderInsert, CloseRemove
  <2>2. PICK b : b = Beside(f, removed)
    OBVIOUS
  <2>3. /\ b \in [Callers -> Call]
        /\ \A d \in Callers :
             /\ b[d].op = call[d].op
             /\ call[d].op = "snapshot" => b[d].frame = call[d].frame /\ b[d].id = call[d].id
             /\ call[d].op = "list" => b[d] = call[d]
    BY <2>2, BesideShape, <1>0, CallShape
  <2>4. [op |-> op, frame |-> f, alone |-> Changing(f) = {}] \in ChangeCall
    BY DEF ChangeCall
  <2>5. call' \in [Callers -> Call]
    BY <2>1, <2>2, <2>3, <2>4 DEF Call
  <2>6. ~Asking(c)'
    BY <2>1, <2>2, <2>3 DEF Asking
  <2>7. \A d \in Callers \ {c} : call'[d] = b[d]
    BY <2>1, <2>2, <2>3
  <2>8. calls' = calls + 1
    BY <1>3 DEF RenderInsert, CloseRemove, Start
  <2>9. \A d \in Callers \ {c} : Asking(d)' =>
          /\ Asking(d) /\ call'[d].op = call[d].op /\ call'[d].id = call[d].id
          /\ call[d].op = "snapshot" => call'[d].frame = call[d].frame
    BY <2>3, <2>7 DEF Asking
  <2> QED
    BY <1>1, <2>5, <2>6, <2>8, <2>9
<1>4. ASSUME NEW c \in Callers, Broadcast(c) \/ RequestTimesOut(c)
      PROVE  CallTypes' /\ KeepsIds
  <2>1. call' = [call EXCEPT ![c] = Idle] /\ calls' = calls
    BY <1>4 DEF Broadcast, RequestTimesOut, brokerVars
  <2>2. /\ call' \in [Callers -> Call]
        /\ call'[c] = Idle
        /\ \A d \in Callers \ {c} : call'[d] = call[d]
    BY <1>0, <2>1 DEF Call
  <2> QED
    BY <1>1, <2>1, <2>2 DEF Asking, Idle
<1>5. ASSUME NEW c \in Callers, NEW x \in ShotCall \cup ListCall, x.id = calls + 1,
             call' = [call EXCEPT ![c] = x], calls' = calls + 1
      PROVE  CallTypes' /\ KeepsIds
  <2>1. call' \in [Callers -> Call] /\ call'[c] = x /\ \A d \in Callers \ {c} : call'[d] = call[d]
    BY <1>0, <1>5 DEF Call
  <2> QED
    BY <1>1, <1>5, <2>1 DEF Asking
<1>6. ASSUME NEW c \in Callers, NEW f \in Frames, SnapshotRegister(c, f)
      PROVE  CallTypes' /\ KeepsIds
  <2>1. calls' = calls + 1
    BY <1>6 DEF SnapshotRegister, Start
  <2> DEFINE least == IF Changing(f) = {} THEN store[f] ELSE 0
             x == [op |-> "snapshot", frame |-> f, id |-> calls + 1, sent |-> FALSE,
                   least |-> least]
  <2>2. call' = [call EXCEPT ![c] = x]
    BY <1>6, <2>1 DEF SnapshotRegister
  <2>3. least \in Nat
    BY DEF StoreTypes
  <2>4. x \in ShotCall /\ x.id = calls + 1
    BY <1>0, <2>3 DEF ShotCall
  <2> HIDE DEF x
  <2> QED
    BY <1>5, <2>1, <2>2, <2>4
<1>7. ASSUME NEW c \in Callers, ListRegister(c)
      PROVE  CallTypes' /\ KeepsIds
  <2>1. calls' = calls + 1
    BY <1>7 DEF ListRegister, Start
  <2> DEFINE x == [op |-> "list", id |-> calls + 1, sent |-> FALSE]
  <2>2. call' = [call EXCEPT ![c] = x]
    BY <1>7, <2>1 DEF ListRegister
  <2>3. x \in ListCall /\ x.id = calls + 1
    BY <1>0 DEF ListCall
  <2> HIDE DEF x
  <2> QED
    BY <1>5, <2>1, <2>2, <2>3
<1>8. ASSUME NEW c \in Callers, SendRequest(c)
      PROVE  CallTypes' /\ KeepsIds
  <2>1. /\ calls' = calls
        /\ call' = [call EXCEPT ![c].sent = TRUE]
        /\ call[c].op \in {"snapshot", "list"}
    BY <1>8 DEF SendRequest
  <2> DEFINE x == [call[c] EXCEPT !.sent = TRUE]
  <2>2. x \in Call /\ x.op = call[c].op /\ x.id = call[c].id
          /\ (call[c].op = "snapshot" => x.frame = call[c].frame)
    <3>1. CASE call[c].op = "snapshot"
      <4>1. call[c] \in ShotCall
        BY <3>1, CallShape
      <4> QED
        BY <3>1, <4>1 DEF ShotCall, Call
    <3>2. CASE call[c].op = "list"
      <4>1. call[c] \in ListCall
        BY <3>2, CallShape
      <4> QED
        BY <3>2, <4>1 DEF ListCall, Call
    <3> QED
      BY <2>1, <3>1, <3>2
  <2>3. call' = [call EXCEPT ![c] = x]
    BY <2>1
  <2> HIDE DEF x
  <2>4. call' \in [Callers -> Call] /\ call'[c] = x /\ \A d \in Callers \ {c} : call'[d] = call[d]
    BY <1>0, <2>2, <2>3
  <2>5. \A d \in Callers \ {c} : Asking(d)' =>
          /\ Asking(d) /\ call'[d].op = call[d].op /\ call'[d].id = call[d].id
          /\ call[d].op = "snapshot" => call'[d].frame = call[d].frame
    BY <2>4 DEF Asking
  <2>6. Asking(c)' =>
          /\ Asking(c) /\ call'[c].op = call[c].op /\ call'[c].id = call[c].id
          /\ call[c].op = "snapshot" => call'[c].frame = call[c].frame
    BY <2>2, <2>4 DEF Asking
  <2> QED
    BY <1>1, <2>1, <2>4, <2>5, <2>6
\* Changes that begin nothing.
<1>9. ASSUME call' \in [Callers -> Call], calls' = calls,
             \A c \in Callers : Asking(c)' =>
               /\ Asking(c) /\ call'[c].op = call[c].op /\ call'[c].id = call[c].id
               /\ call[c].op = "snapshot" => call'[c].frame = call[c].frame
      PROVE  CallTypes' /\ KeepsIds
  <2>1. KeepsIds
    BY <1>0, <1>9 DEF KeepsIds
  <2> QED
    BY <1>0, <1>9, <2>1 DEF CallTypes
<1>10. ASSUME NEW s \in Sockets, NEW f \in Frames, ReadClose(s, f)
       PROVE  CallTypes' /\ KeepsIds
  <2>1. call' = Beside(f, TRUE) /\ calls' = calls
    BY <1>10 DEF ReadClose
  <2>2. PICK removed, b : removed = TRUE /\ b = Beside(f, removed)
    OBVIOUS
  <2>3. /\ b \in [Callers -> Call]
        /\ \A d \in Callers :
             /\ b[d].op = call[d].op
             /\ call[d].op = "snapshot" => b[d].frame = call[d].frame /\ b[d].id = call[d].id
             /\ call[d].op = "list" => b[d] = call[d]
    <3>1. ASSUME NEW d \in Callers
          PROVE
            /\ b \in [Callers -> Call]
            /\ b[d].op = call[d].op
            /\ call[d].op = "snapshot" => b[d].frame = call[d].frame /\ b[d].id = call[d].id
            /\ call[d].op = "list" => b[d] = call[d]
      <4>1. CallTypes /\ f \in Frames /\ removed \in BOOLEAN /\ b = Beside(f, removed)
        BY <2>2
      <4> QED
        BY <4>1, BesideShape
    <3>2. Callers = {} => b \in [Callers -> Call]
      BY <2>2 DEF Beside
    <3> QED
      BY <3>1, <3>2
  <2> QED
    BY <1>9, <2>1, <2>2, <2>3 DEF Asking
<1>11. ASSUME NEW s \in Sockets, ReadAnswer(s)
       PROVE  CallTypes' /\ KeepsIds
  <2>1. PICK to : call' = [c \in Callers |-> IF c \in to THEN Idle ELSE call[c]]
    BY <1>11 DEF ReadAnswer
  <2>2. calls' = calls
    BY <1>11 DEF ReadAnswer
  <2>3. call' \in [Callers -> Call] /\ \A c \in Callers : call'[c] \in {Idle, call[c]}
    BY <1>0, <2>1 DEF Call
  <2> QED
    BY <1>9, <2>2, <2>3 DEF Asking, Idle
<1>12. CASE UNCHANGED <<call, calls>>
  BY <1>2, <1>12
<1>13. ASSUME NEW c \in Callers, NEW w \in Windows, WindowOpen(c, w) \/ WindowClose(c, w)
       PROVE  CallTypes' /\ KeepsIds
  BY <1>2, <1>13 DEF WindowOpen, WindowClose, Start
<1>14. CASE \E t \in Tabs : TabConnects(t) \/ TabHandles(t)
  BY <1>12, <1>14 DEF TabConnects, Connect, TabHandles
<1>15. CASE DaemonConnects \/ Replays \/ (\E s \in Sockets : Drops(s) \/ Join(s))
  BY <1>12, <1>15 DEF DaemonConnects, Connect, Replays, ReadReplay, Drops, Drop, Join
<1>16. CASE Bridge \/ \E v \in Viewers : Iframes(v)
  BY <1>12, <1>16, IframesStep DEF Bridge, DaemonOpens, DaemonCloses, WindowGoes, DaemonLists,
     DaemonEmits, DaemonHolds, DaemonBuffers, brokerVars
<1>17. CASE \E w \in Windows : Page(w)
  BY <1>12, <1>17 DEF Page, PageListens, PageAsksReplay, ClientReady, TakePending, HandleBacklog,
     HandleEvent, webVars, brokerVars
<1>18. CASE User
  BY <1>12, <1>18 DEF User, UserCloses, UserClosesWindow
<1>19. CASE UNCHANGED uiVars
  BY <1>12, <1>19 DEF uiVars, webVars, brokerVars
<1> QED
  BY <1>3, <1>4, <1>6, <1>7, <1>8, <1>10, <1>11, <1>13, <1>14, <1>15, <1>16, <1>17, <1>18, <1>19,
     WindowAssumption
  DEF WindowNext, Agent, WindowAgent, Socket
-----------------------------------------------------------------------------
(* The store, the pages and the queues *)

LEMMA StoreStep == StoreTypes /\ [WindowNext]_uiVars => StoreTypes'
<1> SUFFICES ASSUME StoreTypes, [WindowNext]_uiVars PROVE StoreTypes'
  OBVIOUS
<1>0. store \in [Frames -> Nat] /\ renders \in Nat /\ \A f \in Frames : store[f] <= renders
  BY DEF StoreTypes
<1>1. CASE UNCHANGED <<store, renders>>
  BY <1>1 DEF StoreTypes, Resend
<1>2. ASSUME NEW c \in Callers, NEW f \in Frames, RenderInsert(c, f) PROVE StoreTypes'
  <2>1. /\ renders' = renders + 1 /\ renders < MaxRenders
        /\ store' = [store EXCEPT ![f] = renders + 1]
    BY <1>2 DEF RenderInsert
  <2>2. /\ store' \in [Frames -> Nat] /\ \A g \in Frames : store'[g] <= renders'
        /\ \A g \in Frames : g # f => store'[g] = store[g]
    BY <1>0, <2>1
  <2>3. renders' \in 0 .. MaxRenders
    BY <1>0, <2>1, WebViewAssumption
  <2>4. Resend' \subseteq Resend \cup {[type |-> "render", frame |-> f]}
    BY <2>2 DEF Resend
  <2>5. IsFiniteSet(Resend \cup {[type |-> "render", frame |-> f]})
    BY FS_AddElement DEF StoreTypes
  <2>6. IsFiniteSet(Resend')
    BY <2>4, <2>5, FS_Subset
  <2> QED
    BY <2>2, <2>3, <2>6 DEF StoreTypes
<1>3. ASSUME NEW f \in Frames, store' = [store EXCEPT ![f] = 0], renders' = renders
      PROVE  StoreTypes'
  <2>1. /\ store' \in [Frames -> Nat] /\ \A g \in Frames : store'[g] <= renders'
        /\ \A g \in Frames : store'[g] # 0 => store[g] # 0
    BY <1>0, <1>3
  <2>2. Resend' \subseteq Resend
    BY <2>1 DEF Resend
  <2>3. IsFiniteSet(Resend')
    BY <2>2, FS_Subset DEF StoreTypes
  <2> QED
    BY <1>3, <2>1, <2>3 DEF StoreTypes
<1>4. CASE \E c \in Callers, f \in Frames : CloseRemove(c, f)
  BY <1>3, <1>4 DEF CloseRemove
<1>5. CASE \E s \in Sockets, f \in Frames : ReadClose(s, f)
  BY <1>3, <1>5 DEF ReadClose
<1>6. CASE \E c \in Callers : \/ \E f \in Frames : SnapshotRegister(c, f)
                              \/ Broadcast(c) \/ SendRequest(c) \/ RequestTimesOut(c)
                              \/ WindowAgent(c)
  BY <1>1, <1>6 DEF SnapshotRegister, Broadcast, SendRequest, RequestTimesOut, WindowAgent,
     WindowOpen, WindowClose, ListRegister, brokerVars
<1>7. CASE \E s \in Sockets : Join(s) \/ ReadAnswer(s) \/ Drops(s)
  BY <1>1, <1>7 DEF Join, ReadAnswer, Drops, Drop
<1>8. CASE (\E t \in Tabs : TabConnects(t) \/ TabHandles(t)) \/ DaemonConnects \/ Replays
  BY <1>1, <1>8 DEF TabConnects, Connect, TabHandles, DaemonConnects, Replays, ReadReplay
<1>9. CASE Bridge \/ \E v \in Viewers : Iframes(v)
  BY <1>1, <1>9, IframesStep DEF Bridge, DaemonOpens, DaemonCloses, WindowGoes, DaemonLists,
     DaemonEmits, DaemonHolds, DaemonBuffers, brokerVars
<1>10. CASE \E w \in Windows : Page(w)
  BY <1>1, <1>10 DEF Page, PageListens, PageAsksReplay, ClientReady, TakePending, HandleBacklog,
     HandleEvent, webVars, brokerVars
<1>11. CASE User \/ UNCHANGED uiVars
  BY <1>1, <1>11 DEF User, UserCloses, UserClosesWindow, uiVars, webVars, brokerVars
<1> QED
  BY <1>2, <1>4, <1>5, <1>6, <1>7, <1>8, <1>9, <1>10, <1>11, WindowAssumption
  DEF WindowNext, Agent, Socket

\* What a message is about.
LEMMA MessageShape ==
  ASSUME NEW m \in Message
  PROVE  /\ m.type \in {"render", "close", "open", "shut", "list", "snapshot"}
         /\ m.type \in {"render", "close"} => m.frame \in Frames /\ m \in On(m.frame)
         /\ m.type \in {"open", "shut"} => m.label \in Windows /\ m \in Labelled(m.label)
         /\ m.type \in {"list", "snapshot"} => m.id \in Nat
         /\ m.type = "list" => m = [type |-> "list", id |-> m.id]
         /\ m.type = "snapshot" => m \in ShotMessage
         /\ \A f : m \in On(f) => m.type \in {"render", "close"} /\ m.frame = f
         /\ \A l : m \in Labelled(l) => m.type \in {"open", "shut"} /\ m.label = l
BY DEF Message, ShotMessage, On, Labelled

\* What may be on the way stays so: nothing under way takes its id.
LEMMA StaysSendable ==
  ASSUME CallTypes, KeepsIds
  PROVE  Sendable \subseteq Sendable' /\ Returnable \subseteq Returnable'
<1>1. ASSUME NEW m \in Sendable PROVE m \in Sendable'
  <2>1. m \in Message /\ Fits(m)
    BY DEF Sendable
  <2>2. ASSUME m.type \in {"snapshot", "list"} PROVE Fits(m)'
    <3>1. m.id \in Nat /\ m.id <= calls
      BY <2>1, <2>2, MessageShape DEF Fits
    <3>2. m.id <= calls' /\ m.id # calls + 1
      BY <3>1 DEF KeepsIds, CallTypes
    <3>3. ASSUME NEW c \in Callers, Asking(c)', call'[c].id = m.id
          PROVE  call'[c].op = m.type /\ (m.type = "snapshot" => call'[c].frame = m.frame)
      <4>1. /\ Asking(c) /\ call'[c].op = call[c].op /\ call'[c].id = call[c].id
            /\ call[c].op = "snapshot" => call'[c].frame = call[c].frame
        BY <3>2, <3>3 DEF KeepsIds
      <4> QED
        BY <2>1, <2>2, <3>3, <4>1 DEF Fits
    <3> QED
      BY <3>2, <3>3 DEF Fits
  <2> QED
    BY <2>1, <2>2 DEF Sendable, Fits
<1>2. ASSUME NEW m \in Returnable PROVE m \in Returnable'
  <2>1. m \in Reply /\ Answers(m)
    BY DEF Returnable
  <2>2. ASSUME m.type = "answer" PROVE Answers(m)'
    <3>1. m.id \in Nat /\ m.id <= calls
      BY <2>1, <2>2 DEF Answers, Reply, PageAnswer, ListAnswer
    <3>2. m.id <= calls' /\ m.id # calls + 1
      BY <3>1 DEF KeepsIds, CallTypes
    <3>3. ASSUME NEW c \in Callers, Asking(c)', call'[c].id = m.id
          PROVE  IF call'[c].op = "list" THEN m \in ListAnswer ELSE m \in PageAnswer
      <4>1. Asking(c) /\ call'[c].op = call[c].op /\ call'[c].id = call[c].id
        BY <3>2, <3>3 DEF KeepsIds
      <4> QED
        BY <2>1, <2>2, <3>3, <4>1 DEF Answers
    <3> QED
      BY <3>2, <3>3 DEF Answers
  <2> QED
    BY <2>1, <2>2 DEF Returnable, Answers
<1> QED
  BY <1>1, <1>2

LEMMA SeqGrows ==
  ASSUME NEW S, NEW T, S \subseteq T, NEW q \in Seq(S)
  PROVE  q \in Seq(T)
<1>1. Len(q) \in Nat /\ q = [i \in 1 .. Len(q) |-> q[i]] /\ \A i \in 1 .. Len(q) : q[i] \in T
  OBVIOUS
<1> QED
  BY <1>1

\* What is not about a request can be sent at any time.
LEMMA PlainIsSendable ==
  /\ \A f \in Frames : On(f) \subseteq Sendable
  /\ \A l \in Windows : Labelled(l) \subseteq Sendable
  /\ \A f \in Frames : [type |-> "close", frame |-> f] \in Returnable
  /\ [type |-> "replay"] \in Returnable
BY DEF On, Labelled, Sendable, Fits, Message, Returnable, Answers, Reply

(***************************************************************************)
(* A replay holds a render for each frame that is open, and nothing else.  *)
(***************************************************************************)
LEMMA ReplayShape ==
  ASSUME StoreTypes
  PROVE  /\ Replay \in Seq(Resend)
         /\ \A m \in Resend : \E i \in 1 .. Len(Replay) : Replay[i] = m
<1> DEFINE n == Cardinality(Resend)
<1>1. IsFiniteSet(Resend)
  BY DEF StoreTypes
<1>2. n \in Nat /\ ExistsBijection(1 .. n, Resend)
  BY <1>1, FS_CardinalityType
<1>3. Replay = CHOOSE f \in [1 .. n -> Resend] : IsInjective(f)
  BY DEF Replay, Resend, SetToSeq
<1> HIDE DEF n
<1>4. PICK b : b \in Bijection(1 .. n, Resend)
  BY <1>2 DEF ExistsBijection
<1>5. b \in [1 .. n -> Resend] /\ IsInjective(b)
  BY <1>4 DEF Bijection, Injection
<1>6. Replay \in [1 .. n -> Resend] /\ IsInjective(Replay)
  BY <1>3, <1>5
<1>7. Replay \in Injection(1 .. n, Resend)
  BY <1>6 DEF Injection
<1>8. Cardinality(1 .. n) = n
  BY <1>2, FS_Interval
<1>9. Replay \in Surjection(1 .. n, Resend)
  BY <1>1, <1>7, <1>8, FS_Injection DEF n
<1>10. Replay \in Seq(Resend) /\ Len(Replay) = n
  BY <1>2, <1>6
<1> QED
  BY <1>9, <1>10 DEF Surjection

LEMMA ReplaySays ==
  ASSUME StoreTypes, NEW f \in Frames
  PROVE  LastOf(Replay, Len(Replay), On(f)) = IF store[f] # 0 THEN "render" ELSE "none"
<1> DEFINE q == Replay n == Len(q)
<1>1. /\ n \in Nat /\ \A i \in 1 .. n : q[i] \in Resend
      /\ \A m \in Resend : \E i \in 1 .. n : q[i] = m
  BY ReplayShape
<1>2. \A i \in 1 .. n : q[i] \in On(f) => q[i].type = "render" /\ store[f] # 0
  BY <1>1 DEF Resend, On
<1>3. store[f] # 0 => \E i \in 1 .. n : q[i] \in On(f)
  <2>1. store[f] # 0 => [type |-> "render", frame |-> f] \in Resend
    BY DEF Resend
  <2> QED
    BY <1>1, <2>1 DEF On
<1> HIDE DEF q, n
<1>4. CASE store[f] # 0
  <2>1. PICK j \in 1 .. n : q[j] \in On(f) /\ LastOf(q, n, On(f)) = q[j].type
    BY <1>1, <1>3, <1>4, LastCases
  <2> QED
    BY <1>2, <1>4, <2>1 DEF q, n
<1>5. CASE store[f] = 0
  <2>1. LastOf(q, n, On(f)) = "none"
    BY <1>1, <1>2, <1>5, LastCases
  <2> QED
    BY <1>5, <2>1 DEF q, n
<1> QED
  BY <1>4, <1>5

\* The frames of messages are frames, and each that is spoken of is there.
LEMMA FramesShape ==
  ASSUME NEW S \in SUBSET Message, NEW q \in Seq(S)
  PROVE  /\ FramesOf(q) \subseteq Frames
         /\ \A f : f \notin FramesOf(q) => \A i \in 1 .. Len(q) : q[i] \notin On(f)
         /\ \A f : f \notin FramesOf(q) => LastOf(q, Len(q), On(f)) = "none"
<1>1. FramesOf(q) \subseteq Frames
  <2> SUFFICES ASSUME NEW f \in FramesOf(q) PROVE f \in Frames
    OBVIOUS
  <2>1. PICK m \in Range(q) : m.type \in {"render", "close"} /\ f = m.frame
    BY DEF FramesOf
  <2>2. m \in Message
    BY <2>1 DEF Range
  <2> QED
    BY <2>1, <2>2, MessageShape
<1>2. ASSUME NEW f, f \notin FramesOf(q), NEW i \in 1 .. Len(q) PROVE q[i] \notin On(f)
  <2>1. q[i] \in Range(q)
    BY DEF Range
  <2>2. q[i] \in On(f) => q[i].type \in {"render", "close"} /\ q[i].frame = f
    BY DEF On
  <2> QED
    BY <1>2, <2>1, <2>2 DEF FramesOf
<1>3. Len(q) \in Nat
  OBVIOUS
<1> QED
  BY <1>1, <1>2, <1>3, LastTells, AllTell

(***************************************************************************)
(* What a page makes of a message, and what it sends back.                 *)
(***************************************************************************)
LEMMA HandleTypes ==
  ASSUME CallTypes, StoreTypes, PageTypes, NEW v \in Viewers, NEW m \in Sendable
  PROVE  /\ Shows(v, m) \in [Frames -> Version]
         /\ Replies(v, m) \in Seq(Returnable)
         /\ \A f \in Frames :
              /\ m = [type |-> "render", frame |-> f] => Shows(v, m)[f] = store[f]
              /\ m = [type |-> "close", frame |-> f] => Shows(v, m)[f] = None
              /\ m \notin On(f) => Shows(v, m)[f] = shown[v][f]
<1>1. m \in Message /\ Fits(m)
  BY DEF Sendable
<1>2. shown[v] \in [Frames -> Version] /\ \A f \in Frames : store[f] \in Version
  <2>1. \A f \in Frames : store[f] \in Nat /\ store[f] <= renders
    BY DEF StoreTypes
  <2>2. renders \in 0 .. MaxRenders /\ MaxRenders \in Nat
    BY WebViewAssumption DEF StoreTypes
  <2> QED
    BY <2>1, <2>2 DEF PageTypes, Version
<1>3. CASE m.type \in {"render", "close"}
  <2>1. m.frame \in Frames /\ m \in On(m.frame)
    BY <1>1, <1>3, MessageShape
  <2>2. Replies(v, m) = <<>>
    BY <1>3 DEF Replies
  <2>3. PICK x \in Version : /\ Shows(v, m) = [shown[v] EXCEPT ![m.frame] = x]
                             /\ x = IF m.type = "render" THEN store[m.frame] ELSE None
    BY <1>2, <1>3, <2>1 DEF Shows, Version
  <2>4. \A f : m \in On(f) <=> f = m.frame
    BY <2>1 DEF On
  <2>5. ASSUME NEW f \in Frames
        PROVE  /\ m = [type |-> "render", frame |-> f] => Shows(v, m)[f] = store[f]
               /\ m = [type |-> "close", frame |-> f] => Shows(v, m)[f] = None
               /\ m \notin On(f) => Shows(v, m)[f] = shown[v][f]
    BY <1>2, <2>1, <2>3, <2>4
  <2> QED
    BY <1>2, <2>1, <2>2, <2>3, <2>5
<1>4. CASE m.type \notin {"render", "close"}
  <2>1. Shows(v, m) = shown[v] /\ \A f : /\ m # [type |-> "render", frame |-> f]
                                          /\ m # [type |-> "close", frame |-> f]
                                          /\ m \notin On(f)
    BY <1>4 DEF Shows, On
  <2>2. CASE ~(m.type = "snapshot" /\ shown[v][m.frame] = None)
    <3>1. Replies(v, m) = <<>>
      BY <2>2 DEF Replies
    <3> QED
      BY <1>2, <2>1, <3>1
  <2>3. CASE m.type = "snapshot" /\ shown[v][m.frame] = None
    <3> DEFINE a == [type |-> "answer", id |-> m.id, got |-> None, sure |-> v \in m.sure]
    <3>1. m \in ShotMessage
      BY <1>1, <2>3, MessageShape
    <3>2. a \in PageAnswer /\ a.type = "answer" /\ a.id = m.id
      BY <3>1 DEF ShotMessage, PageAnswer, Version
    <3> HIDE DEF a
    <3>3. Answers(a)
      BY <1>1, <2>3, <3>2 DEF Answers, Fits
    <3>4. a \in Returnable
      BY <3>2, <3>3 DEF Returnable, Reply
    <3>5. Replies(v, m) = <<a>>
      BY <2>3 DEF Replies, a
    <3> QED
      BY <1>2, <2>1, <3>4, <3>5
  <2> QED
    BY <2>2, <2>3
<1> QED
  BY <1>3, <1>4

\* The page and the socket of a message that a page handles.
LEMMA HandleStep ==
  ASSUME CallTypes, StoreTypes, PageTypes, NEW v \in Viewers, NEW m \in Sendable, Handle(v, m)
  PROVE  /\ shown' \in [Viewers -> [Frames -> Version]]
         /\ \A u \in Viewers \ {v} : shown'[u] = shown[u]
         /\ \A f \in Frames :
              /\ m = [type |-> "render", frame |-> f] => shown'[v][f] = store[f]
              /\ m = [type |-> "close", frame |-> f] => shown'[v][f] = None
              /\ m \notin On(f) => shown'[v][f] = shown[v][f]
<1>1. shown' = [shown EXCEPT ![v] = Shows(v, m)]
  BY DEF Handle
<1>2. shown \in [Viewers -> [Frames -> Version]]
  BY DEF PageTypes
<1>3. shown'[v] = Shows(v, m) /\ shown' \in [Viewers -> [Frames -> Version]]
        /\ \A u \in Viewers \ {v} : shown'[u] = shown[u]
  BY <1>1, <1>2, HandleTypes
<1> QED
  BY <1>3, HandleTypes

LEMMA PageStep == WebTypes /\ [WindowNext]_uiVars => PageTypes'
<1> SUFFICES ASSUME WebTypes, [WindowNext]_uiVars PROVE PageTypes'
  OBVIOUS
<1>0. /\ conn \in [Sockets -> {"down", "joining", "up"}]
      /\ shown \in [Viewers -> [Frames -> Version]]
      /\ behind \in [Viewers -> SUBSET Frames]
      /\ stage \in [Windows -> Stages]
      /\ ready \in BOOLEAN
      /\ opened \in [Callers -> SUBSET Windows]
      /\ CallTypes /\ StoreTypes /\ PageTypes /\ QueueTypes
  BY DEF WebTypes, PageTypes
<1>w. Windows \subseteq Viewers /\ Tabs \subseteq Viewers /\ SocketOf \in [Viewers -> Sockets]
        /\ Openers \subseteq Callers /\ Daemon \in Sockets
  BY WebViewAssumption, WindowAssumption
<1>f. Sendable \subseteq Message
  BY DEF Sendable
<1>1. CASE UNCHANGED <<conn, shown, behind, stage, ready, opened>>
  BY <1>0, <1>1 DEF PageTypes
<1>2. ASSUME NEW c \in Callers, Agent(c), UNCHANGED windowVars PROVE PageTypes'
  <2>1. CASE Broadcast(c)
    <3>1. call[c] \in ChangeCall
      BY <1>0, <2>1, CallShape DEF Broadcast
    <3>2. call[c].frame \in Frames
      BY <3>1 DEF ChangeCall
    <3>3. behind' \in [Viewers -> SUBSET Frames] /\ UNCHANGED <<conn, shown, stage, ready, opened>>
      BY <1>0, <1>2, <2>1, <3>2 DEF Broadcast, windowVars
    <3> QED
      BY <1>0, <3>3 DEF PageTypes
  <2>2. CASE \E f \in Frames : RenderInsert(c, f) \/ CloseRemove(c, f) \/ SnapshotRegister(c, f)
    BY <1>1, <1>2, <2>2 DEF RenderInsert, CloseRemove, SnapshotRegister, windowVars
  <2>3. CASE SendRequest(c) \/ RequestTimesOut(c)
    BY <1>1, <1>2, <2>3 DEF SendRequest, RequestTimesOut, brokerVars, windowVars
  <2> QED
    BY <1>2, <2>1, <2>2, <2>3 DEF Agent
<1>3. CASE \E c \in Openers : WindowAgent(c)
  <2>1. CASE \E c \in Openers, w \in Windows : WindowOpen(c, w)
    <3>1. PICK c \in Openers, w \in Windows : WindowOpen(c, w)
      BY <2>1
    <3>2. PICK x \in SUBSET Windows : opened' = [opened EXCEPT ![c] = x]
      BY <1>0, <1>w, <3>1 DEF WindowOpen
    <3>3. opened' \in [Callers -> SUBSET Windows]
      BY <1>0, <3>2
    <3> QED
      BY <1>0, <3>1, <3>3 DEF WindowOpen, PageTypes
  <2>2. CASE \E c \in Openers, w \in Windows : WindowClose(c, w)
    <3>1. opened' \in [Callers -> SUBSET Windows]
      BY <1>0, <2>2 DEF WindowClose
    <3> QED
      BY <1>0, <2>2, <3>1 DEF WindowClose, PageTypes
  <2>3. CASE \E c \in Openers : ListRegister(c)
    BY <1>1, <2>3 DEF ListRegister, windowVars
  <2> QED
    BY <1>3, <2>1, <2>2, <2>3 DEF WindowAgent
<1>4. CASE \E s \in Sockets : Socket(s) /\ UNCHANGED windowVars
  <2>1. ASSUME NEW s \in Sockets, Join(s) \/ ReadAnswer(s), UNCHANGED windowVars PROVE PageTypes'
    BY <1>0, <2>1 DEF Join, ReadAnswer, windowVars, PageTypes
  <2>2. ASSUME NEW s \in Sockets, NEW f \in Frames, ReadClose(s, f), UNCHANGED windowVars
        PROVE  PageTypes'
    BY <1>0, <2>2 DEF ReadClose, windowVars, PageTypes
  <2> QED
    BY <1>4, <2>1, <2>2 DEF Socket
<1>5. ASSUME NEW t \in Tabs, TabConnects(t), UNCHANGED windowVars PROVE PageTypes'
  <2>1. conn' \in [Sockets -> {"down", "joining", "up"}]
    BY <1>0, <1>5 DEF TabConnects, Connect
  <2>2. behind' \in [Viewers -> SUBSET Frames] /\ UNCHANGED <<shown, stage, ready, opened>>
    BY <1>0, <1>5, <1>w DEF TabConnects, Connect, windowVars
  <2> QED
    BY <1>0, <2>1, <2>2 DEF PageTypes
<1>6. ASSUME NEW t \in Tabs, TabHandles(t), UNCHANGED windowVars PROVE PageTypes'
  <2>1. SocketOf[t] \in Sockets /\ t \in Viewers
    BY <1>w
  <2>2. Head(wire[SocketOf[t]]) \in Sendable
    BY <1>0, <1>6, <2>1 DEF TabHandles, QueueTypes
  <2>3. shown' \in [Viewers -> [Frames -> Version]]
    BY <1>0, <1>6, <2>1, <2>2, HandleStep DEF TabHandles
  <2> QED
    BY <1>0, <1>6, <2>3 DEF TabHandles, windowVars, PageTypes
<1>7. CASE DaemonConnects \/ Replays
  <2>1. conn' \in [Sockets -> {"down", "joining", "up"}]
    BY <1>0, <1>7 DEF DaemonConnects, Connect, Replays, ReadReplay
  <2>2. behind' \in [Viewers -> SUBSET Frames] /\ UNCHANGED <<shown, stage, ready, opened>>
    BY <1>0, <1>7 DEF DaemonConnects, Connect, Replays, ReadReplay, Resent, windowVars
  <2> QED
    BY <1>0, <2>1, <2>2 DEF PageTypes
<1>8. ASSUME NEW s \in Sockets, Drops(s) PROVE PageTypes'
  BY <1>0, <1>8 DEF Drops, Drop, PageTypes
<1>9. ASSUME NEW w \in Windows, Blank(w), stage' \in [Windows -> Stages],
             opened' \in [Callers -> SUBSET Windows], UNCHANGED <<conn, ready>>
      PROVE  PageTypes'
  <2>1. shown' \in [Viewers -> [Frames -> Version]] /\ behind' \in [Viewers -> SUBSET Frames]
    BY <1>0, <1>9, <1>w DEF Blank, Version
  <2> QED
    BY <1>0, <1>9, <2>1 DEF PageTypes
<1>10. CASE Bridge
  <2>1. ASSUME NEW w \in Windows, DaemonOpens(w) PROVE PageTypes'
    <3>1. CASE Blank(w)
      <4>1. UNCHANGED opened \/ \E x : opened' = [c \in Callers |-> opened[c] \ x]
        BY <2>1 DEF DaemonOpens
      <4>2. opened' \in [Callers -> SUBSET Windows]
        BY <1>0, <4>1
      <4>3. stage' \in [Windows -> Stages] /\ UNCHANGED <<conn, ready>>
        BY <1>0, <2>1 DEF DaemonOpens, Stages
      <4> QED
        BY <1>9, <3>1, <4>2, <4>3
    <3>2. CASE ~Blank(w)
      <4>1. UNCHANGED <<conn, shown, behind, stage, ready>>
              /\ opened' \in {opened, [c \in Callers |-> opened[c] \ {w}]}
        BY <2>1, <3>2 DEF DaemonOpens
      <4> QED
        BY <1>0, <4>1 DEF PageTypes
    <3> QED
      BY <3>1, <3>2
  <2>2. ASSUME NEW w \in Windows, WindowGoes(w) PROVE PageTypes'
    BY <1>0, <1>9, <2>2 DEF WindowGoes, Stages, brokerVars
  <2>3. CASE DaemonLists \/ DaemonHolds \/ \E w \in Windows : DaemonCloses(w)
    BY <1>1, <2>3 DEF DaemonLists, DaemonHolds, DaemonCloses, windowVars
  <2>4. CASE DaemonEmits
    <3>1. PICK m \in Sendable : behind' = [v \in Viewers |->
            IF v \in Windows \ Listening THEN behind[v] \cup FramesOf(<<m>>) ELSE behind[v]]
      <4>1. Head(wire[Daemon]) \in Sendable
        BY <1>0, <1>w, <2>4 DEF DaemonEmits, QueueTypes
      <4> QED
        BY <2>4, <4>1 DEF DaemonEmits
    <3>2. FramesOf(<<m>>) \subseteq Frames
      <4>1. <<m>> \in Seq(Sendable) /\ Sendable \in SUBSET Message
        BY <1>f
      <4> QED
        BY <4>1, FramesShape
    <3> QED
      BY <1>0, <2>4, <3>1, <3>2 DEF DaemonEmits, PageTypes
  <2>5. CASE DaemonBuffers
    <3>1. FramesOf(holding) \subseteq Frames
      BY <1>0, <1>f, FramesShape DEF QueueTypes
    <3> QED
      BY <1>0, <2>5, <3>1 DEF DaemonBuffers, brokerVars, PageTypes
  <2> QED
    BY <1>10, <2>1, <2>2, <2>3, <2>4, <2>5 DEF Bridge
<1>11. ASSUME NEW w \in Windows, Page(w) PROVE PageTypes'
  <2>0. w \in Viewers
    BY <1>w
  <2>1. CASE PageListens(w) \/ ClientReady(w)
    <3>1. stage' \in [Windows -> Stages] /\ ready' \in BOOLEAN
            /\ UNCHANGED <<conn, shown, behind, opened>>
      BY <1>0, <2>1 DEF PageListens, ClientReady, Stages, webVars, brokerVars
    <3> QED
      BY <1>0, <3>1 DEF PageTypes
  <2>2. CASE PageAsksReplay(w)
    BY <1>1, <2>2 DEF PageAsksReplay
  <2>3. CASE TakePending(w)
    <3>1. FramesOf(pending) \subseteq Frames
      BY <1>0, <1>f, FramesShape DEF QueueTypes
    <3>2. stage' \in [Windows -> Stages] /\ behind' \in [Viewers -> SUBSET Frames]
      BY <1>0, <2>3, <3>1 DEF TakePending, Stages
    <3> QED
      BY <1>0, <2>3, <3>2 DEF TakePending, brokerVars, PageTypes
  <2>4. CASE HandleBacklog(w)
    <3>1. CASE backlog[w] = <<>>
      <4>1. stage' \in [Windows -> Stages]
        BY <1>0, <2>4, <3>1 DEF HandleBacklog, Stages
      <4> QED
        BY <1>0, <2>4, <3>1, <4>1 DEF HandleBacklog, PageTypes
    <3>2. CASE backlog[w] # <<>>
      <4>1. stage' \in [Windows -> Stages]
        BY <1>0, <2>4, <3>2 DEF HandleBacklog, Stages
      <4>2. Head(backlog[w]) \in Sendable
        BY <1>0, <3>2 DEF QueueTypes
      <4>3. shown' \in [Viewers -> [Frames -> Version]]
        BY <1>0, <2>0, <2>4, <3>2, <4>2, HandleStep DEF HandleBacklog
      <4> QED
        BY <1>0, <2>4, <4>1, <4>3 DEF HandleBacklog, PageTypes
    <3> QED
      BY <3>1, <3>2
  <2>5. CASE HandleEvent(w)
    <3>1. Head(emitted[w]) \in Sendable
      BY <1>0, <2>5 DEF QueueTypes, HandleEvent
    <3>2. shown' \in [Viewers -> [Frames -> Version]]
      BY <1>0, <2>0, <2>5, <3>1, HandleStep DEF HandleEvent
    <3>3. FramesOf(<<Head(emitted[w])>>) \subseteq Frames
      <4>1. <<Head(emitted[w])>> \in Seq(Sendable) /\ Sendable \in SUBSET Message
        BY <1>f, <3>1
      <4> QED
        BY <4>1, FramesShape
    <3>4. behind' \in [Viewers -> SUBSET Frames]
      BY <1>0, <2>0, <2>5, <3>3 DEF HandleEvent
    <3> QED
      BY <1>0, <2>5, <3>2, <3>4 DEF HandleEvent, PageTypes
  <2> QED
    BY <1>11, <2>1, <2>2, <2>3, <2>4, <2>5 DEF Page
<1>12. CASE User
  <2>1. ASSUME NEW v \in Viewers, NEW f \in Frames, UserCloses(v, f), UNCHANGED windowVars
        PROVE  PageTypes'
    <3>1. shown' \in [Viewers -> [Frames -> Version]]
      BY <1>0, <2>1 DEF UserCloses, Version
    <3> QED
      BY <1>0, <2>1, <3>1 DEF UserCloses, windowVars, PageTypes
  <2>2. ASSUME NEW w \in Windows, UserClosesWindow(w) PROVE PageTypes'
    <3>1. stage' \in [Windows -> Stages] /\ opened' \in [Callers -> SUBSET Windows]
      BY <1>0, <2>2 DEF UserClosesWindow, Stages
    <3> QED
      BY <1>9, <2>2, <3>1 DEF UserClosesWindow
  <2> QED
    BY <1>12, <2>1, <2>2 DEF User
<1>13. ASSUME NEW v \in Viewers, Iframes(v), UNCHANGED windowVars PROVE PageTypes'
  <2>1. shown' \in [Viewers -> [Frames -> Version]]
    <3>1. ASSUME NEW f \in Frames, FrameFetches(v, f)
          PROVE  shown' \in [Viewers -> [Frames -> Version]]
      <4>1. store[f] \in Version
        BY <1>0, WebViewAssumption DEF StoreTypes, Version
      <4> QED
        BY <1>0, <3>1, <4>1 DEF FrameFetches
    <3> QED
      BY <1>0, <1>13, <3>1 DEF Iframes, FrameLoads, FrameAnswers
  <2>2. UNCHANGED <<conn, behind, stage, ready, opened>>
    BY <1>13, IframesStep DEF windowVars
  <2> QED
    BY <1>0, <2>1, <2>2 DEF PageTypes
<1> QED
  BY <1>1, <1>2, <1>3, <1>4, <1>5, <1>6, <1>7, <1>8, <1>10, <1>11, <1>12, <1>13
  DEF WindowNext, uiVars, webVars, brokerVars, windowVars

\* The message of a request is about the request of its id, and no other.
LEMMA RequestShape ==
  ASSUME CallTypes, NEW c \in Callers, Asking(c)
  PROVE  /\ Request(c) \in Sendable
         /\ Request(c).type = call[c].op /\ Request(c).id = call[c].id
         /\ call[c].op = "snapshot" =>
              /\ Request(c).frame = call[c].frame
              /\ Request(c).sure = {t \in Tabs : call[c].frame \notin behind[t]}
<1>0. /\ call[c].id <= calls
      /\ \A d \in Callers : Asking(d) /\ call[d].id = call[c].id => d = c
  BY DEF CallTypes
<1>1. CASE call[c].op = "list"
  <2>1. call[c] \in ListCall
    BY <1>1, CallShape
  <2>2. Request(c) = [type |-> "list", id |-> call[c].id] /\ call[c].id \in Nat
    BY <1>1, <2>1 DEF Request, ListCall
  <2>3. Request(c) \in Message
    BY <2>2 DEF Message
  <2>4. Fits(Request(c))
    BY <1>0, <1>1, <2>2 DEF Fits
  <2> QED
    BY <1>1, <2>2, <2>3, <2>4 DEF Sendable
<1>2. CASE call[c].op = "snapshot"
  <2>1. call[c] \in ShotCall
    BY <1>2, CallShape
  <2> DEFINE sure == {t \in Tabs : call[c].frame \notin behind[t]}
  <2>2. /\ Request(c) = [type |-> "snapshot", id |-> call[c].id, frame |-> call[c].frame,
                         sure |-> sure]
        /\ call[c].id \in Nat /\ call[c].frame \in Frames /\ sure \in SUBSET Tabs
    BY <1>2, <2>1 DEF Request, ShotCall
  <2> HIDE DEF sure
  <2>3. Request(c) \in Message
    BY <2>2 DEF Message, ShotMessage
  <2>4. Fits(Request(c))
    BY <1>0, <1>2, <2>2 DEF Fits
  <2> QED
    BY <1>2, <2>2, <2>3, <2>4 DEF Sendable, sure
<1> QED
  BY <1>1, <1>2 DEF Asking

\* What the store replays can be sent.
LEMMA ReplayIsSendable ==
  ASSUME StoreTypes
  PROVE  Replay \in Seq(Sendable)
<1>1. Resend \subseteq Sendable
  BY PlainIsSendable DEF Resend, On
<1> QED
  BY <1>1, ReplayShape, SeqGrows

\* What a page posts to a document is to be answered by the request's id.
LEMMA PostsTypes ==
  ASSUME CallTypes, PageTypes, FrameTypes, NEW v \in Viewers, NEW m \in Sendable
  PROVE  Posts(v, m) \subseteq Returnable \cap PageAnswer
<1>1. m \in Message /\ Fits(m)
  BY DEF Sendable
<1>2. asked[v] \subseteq Returnable \cap PageAnswer
  BY DEF FrameTypes
<1>3. CASE m.type = "snapshot"
  <2> DEFINE a == [type |-> "answer", id |-> m.id, got |-> doc[v][m.frame],
                   sure |-> v \in m.sure /\ m.frame \notin loading[v] /\ ~Closes(v, m.frame)]
  <2>1. m \in ShotMessage
    BY <1>1, <1>3, MessageShape
  <2>2. doc[v][m.frame] \in Version /\ m.id \in Nat
    BY <2>1 DEF FrameTypes, ShotMessage
  <2>3. PICK b \in BOOLEAN : b <=> v \in m.sure /\ m.frame \notin loading[v] /\ ~Closes(v, m.frame)
    OBVIOUS
  <2>4. a \in PageAnswer /\ a.type = "answer" /\ a.id = m.id
    BY <2>2, <2>3 DEF PageAnswer
  <2>5. Posts(v, m) \subseteq asked[v] \cup {a}
    BY DEF Posts
  <2> HIDE DEF a
  <2>6. Answers(a)
    BY <1>1, <1>3, <2>4 DEF Answers, Fits
  <2>7. a \in Returnable
    BY <2>4, <2>6 DEF Returnable, Reply
  <2> QED
    BY <1>2, <2>4, <2>5, <2>7
<1>4. CASE m.type # "snapshot"
  BY <1>2, <1>4 DEF Posts
<1> QED
  BY <1>3, <1>4

LEMMA FramesStep == WebTypes /\ [WindowNext]_uiVars => FrameTypes'
<1> SUFFICES ASSUME WebTypes, [WindowNext]_uiVars PROVE FrameTypes'
  OBVIOUS
<1>t. CallTypes /\ StoreTypes /\ PageTypes /\ QueueTypes /\ FrameTypes
  BY DEF WebTypes
<1>k. CallTypes' /\ KeepsIds
  BY <1>t, CallsStep
<1>s. PICK A : A = (Returnable \cap PageAnswer)'
  OBVIOUS
<1>g. Returnable \cap PageAnswer \subseteq A
  BY <1>t, <1>k, <1>s, StaysSendable
<1>0. /\ shown \in [Viewers -> [Frames -> Version]]
      /\ doc \in [Viewers -> [Frames -> Version]]
      /\ loading \in [Viewers -> SUBSET Frames]
      /\ asked \in [Viewers -> SUBSET A]
      /\ \A v \in Viewers, f \in Frames :
           IF f \in loading[v] THEN shown[v][f] # None ELSE doc[v][f] = shown[v][f]
  BY <1>t, <1>g DEF PageTypes, FrameTypes
<1>v. 0 \in Version /\ None \in Version /\ \A f \in Frames : store[f] \in Version \ {None}
  BY <1>t, WebViewAssumption DEF StoreTypes, Version
<1>w. Windows \subseteq Viewers /\ Tabs \subseteq Viewers /\ SocketOf \in [Viewers -> Sockets]
        /\ Openers \subseteq Callers /\ Daemon \in Sockets
  BY WebViewAssumption, WindowAssumption
<1> DEFINE Q == /\ doc' \in [Viewers -> [Frames -> Version]]
                /\ loading' \in [Viewers -> SUBSET Frames]
                /\ asked' \in [Viewers -> SUBSET A]
                /\ \A v \in Viewers, f \in Frames :
                     IF f \in loading'[v] THEN shown'[v][f] # None ELSE doc'[v][f] = shown'[v][f]
<1>q. Q => FrameTypes'
  BY <1>s DEF FrameTypes
<1>1. CASE UNCHANGED pageVars
  BY <1>0, <1>1, <1>q
<1>2. ASSUME NEW v \in Viewers, NEW m \in Sendable, Handle(v, m) PROVE FrameTypes'
  <2>1. m \in Message
    BY DEF Sendable
  <2>2. Posts(v, m) \subseteq A
    BY <1>t, <1>g, PostsTypes
  <2>3. asked' \in [Viewers -> SUBSET A]
    BY <1>0, <1>2, <2>2 DEF Handle
  <2>4. CASE m.type \in {"render", "close"}
    <3>1. m.frame \in Frames
      BY <2>1, <2>4, MessageShape
    <3>2. /\ doc' \in [Viewers -> [Frames -> Version]]
          /\ loading' \in [Viewers -> SUBSET Frames]
      BY <1>0, <1>2, <1>v, <2>4, <3>1 DEF Handle, Documents, Loads
    <3>3. ASSUME NEW u \in Viewers, NEW f \in Frames
          PROVE  IF f \in loading'[u] THEN shown'[u][f] # None ELSE doc'[u][f] = shown'[u][f]
      <4>1. CASE u = v /\ f = m.frame
        BY <1>0, <1>2, <1>v, <2>4, <3>1, <4>1 DEF Handle, Documents, Loads, Shows
      <4>2. CASE u # v \/ f # m.frame
        <5>1. /\ shown'[u][f] = shown[u][f]
              /\ doc'[u][f] = doc[u][f]
              /\ f \in loading'[u] <=> f \in loading[u]
          BY <1>0, <1>2, <2>4, <3>1, <4>2 DEF Handle, Documents, Loads, Shows
        <5> QED
          BY <1>0, <5>1
      <4> QED
        BY <4>1, <4>2
    <3> QED
      BY <2>3, <3>2, <3>3, <1>q
  <2>5. CASE m.type \notin {"render", "close"}
    <3>1. UNCHANGED <<shown, doc, loading>>
      BY <1>0, <1>2, <2>5 DEF Handle, Documents, Loads, Shows
    <3> QED
      BY <1>0, <2>3, <3>1, <1>q
  <2> QED
    BY <2>4, <2>5
<1>3. ASSUME NEW w \in Windows, Blank(w) PROVE FrameTypes'
  <2>1. /\ doc' \in [Viewers -> [Frames -> Version]]
        /\ loading' \in [Viewers -> SUBSET Frames]
        /\ asked' \in [Viewers -> SUBSET A]
    BY <1>0, <1>3, <1>v DEF Blank
  <2>2. ASSUME NEW u \in Viewers, NEW f \in Frames
        PROVE  IF f \in loading'[u] THEN shown'[u][f] # None ELSE doc'[u][f] = shown'[u][f]
    BY <1>0, <1>3, <1>w DEF Blank
  <2> QED
    BY <2>1, <2>2, <1>q
<1>4. ASSUME NEW v \in Viewers, NEW f \in Frames, UserCloses(v, f) PROVE FrameTypes'
  <2>1. /\ doc' \in [Viewers -> [Frames -> Version]]
        /\ loading' \in [Viewers -> SUBSET Frames]
        /\ asked' = asked
    BY <1>0, <1>4, <1>v DEF UserCloses
  <2>2. ASSUME NEW u \in Viewers, NEW g \in Frames
        PROVE  IF g \in loading'[u] THEN shown'[u][g] # None ELSE doc'[u][g] = shown'[u][g]
    BY <1>0, <1>4 DEF UserCloses
  <2> QED
    BY <1>0, <2>1, <2>2, <1>q
<1>5. ASSUME NEW v \in Viewers, Iframes(v) PROVE FrameTypes'
  <2>1. ASSUME NEW f \in Frames, FrameFetches(v, f) PROVE FrameTypes'
    <3>1. \A u \in Viewers, g \in Frames :
            IF g \in loading'[u] THEN shown'[u][g] # None ELSE doc'[u][g] = shown'[u][g]
      BY <1>0, <1>v, <2>1 DEF FrameFetches
    <3> QED
      BY <1>0, <2>1, <3>1, <1>q DEF FrameFetches
  <2>2. ASSUME NEW f \in Frames, FrameLoads(v, f) PROVE FrameTypes'
    <3>1. \A u \in Viewers, g \in Frames :
            IF g \in loading'[u] THEN shown'[u][g] # None ELSE doc'[u][g] = shown'[u][g]
      BY <1>0, <2>2 DEF FrameLoads
    <3>2. doc' \in [Viewers -> [Frames -> Version]] /\ loading' \in [Viewers -> SUBSET Frames]
      BY <1>0, <2>2 DEF FrameLoads
    <3> QED
      BY <1>0, <2>2, <3>1, <3>2, <1>q DEF FrameLoads
  <2>3. ASSUME NEW a \in asked[v], FrameAnswers(v, a) PROVE FrameTypes'
    <3>1. asked' \in [Viewers -> SUBSET A]
      BY <1>0, <2>3 DEF FrameAnswers
    <3> QED
      BY <1>0, <2>3, <3>1, <1>q DEF FrameAnswers
  <2> QED
    BY <1>5, <2>1, <2>2, <2>3 DEF Iframes
<1>6. ASSUME NEW t \in Tabs, TabHandles(t) PROVE FrameTypes'
  <2>1. Head(wire[SocketOf[t]]) \in Sendable /\ t \in Viewers
    BY <1>t, <1>w, <1>6 DEF TabHandles, QueueTypes
  <2> QED
    BY <1>2, <1>6, <2>1 DEF TabHandles
<1>7. ASSUME NEW w \in Windows, Page(w) PROVE FrameTypes'
  <2>1. CASE HandleBacklog(w) /\ backlog[w] # <<>>
    <3>1. Head(backlog[w]) \in Sendable
      BY <1>t, <2>1 DEF QueueTypes
    <3> QED
      BY <1>2, <1>w, <2>1, <3>1 DEF HandleBacklog
  <2>2. CASE HandleEvent(w)
    <3>1. Head(emitted[w]) \in Sendable
      BY <1>t, <2>2 DEF QueueTypes, HandleEvent
    <3> QED
      BY <1>2, <1>w, <2>2, <3>1 DEF HandleEvent
  <2>3. CASE HandleBacklog(w) /\ backlog[w] = <<>>
    BY <1>1, <2>3 DEF HandleBacklog
  <2>4. CASE PageListens(w) \/ PageAsksReplay(w) \/ ClientReady(w) \/ TakePending(w)
    BY <1>1, <2>4 DEF PageListens, PageAsksReplay, ClientReady, TakePending, webVars
  <2> QED
    BY <1>7, <2>1, <2>2, <2>3, <2>4 DEF Page
<1>8. CASE \E c \in Callers : Agent(c) \/ WindowAgent(c)
  BY <1>1, <1>8 DEF Agent, RenderInsert, CloseRemove, SnapshotRegister, Broadcast, SendRequest,
     RequestTimesOut, WindowAgent, WindowOpen, WindowClose, ListRegister
<1>9. CASE \E s \in Sockets : Socket(s) \/ Drops(s)
  BY <1>1, <1>9 DEF Socket, Join, ReadClose, ReadAnswer, Drops, Drop
<1>10. CASE (\E t \in Tabs : TabConnects(t)) \/ DaemonConnects \/ Replays
  BY <1>1, <1>10 DEF TabConnects, Connect, DaemonConnects, Replays, ReadReplay
<1>11. CASE Bridge
  BY <1>1, <1>3, <1>11 DEF Bridge, DaemonOpens, DaemonCloses, WindowGoes, DaemonLists, DaemonEmits,
     DaemonHolds, DaemonBuffers
<1>12. CASE User
  BY <1>3, <1>4, <1>12 DEF User, UserClosesWindow
<1> QED
  BY <1>1, <1>5, <1>6, <1>7, <1>8, <1>9, <1>10, <1>11, <1>12, <1>w DEF WindowNext, uiVars, webVars

\* An answer that a document was asked for, or the error in its place.
LEMMA AnswerKept ==
  ASSUME NEW a \in Returnable, a \in PageAnswer, NEW got \in {0, a.got}, NEW b,
         b = [a EXCEPT !.got = got]
  PROVE  /\ b \in Returnable /\ b \in PageAnswer
         /\ b.type = "answer" /\ b.id = a.id /\ b.sure = a.sure /\ b.got = got
<1>1. got \in Version
  BY WebViewAssumption DEF PageAnswer, Version
<1>2. b \in PageAnswer /\ b.type = "answer" /\ b.id = a.id /\ b.sure = a.sure /\ b.got = got
  BY <1>1 DEF PageAnswer
<1>3. Answers(b)
  <2>1. a.type = "answer" /\ Answers(a)
    BY DEF PageAnswer, Returnable
  <2>2. ASSUME NEW c \in Callers, Asking(c), call[c].id = b.id, call[c].op = "list"
        PROVE  b \in ListAnswer
    <3>1. a \in ListAnswer
      BY <1>2, <2>1, <2>2 DEF Answers
    <3>2. FALSE
      BY <3>1 DEF PageAnswer, ListAnswer
    <3> QED
      BY <3>2
  <2> QED
    BY <1>2, <2>1, <2>2 DEF Answers
<1> QED
  BY <1>2, <1>3 DEF Returnable, Reply

LEMMA QueueStep == WebTypes /\ [WindowNext]_uiVars => QueueTypes'
<1> SUFFICES ASSUME WebTypes, [WindowNext]_uiVars PROVE QueueTypes'
  OBVIOUS
<1>t. CallTypes /\ StoreTypes /\ PageTypes /\ QueueTypes /\ FrameTypes
  BY DEF WebTypes
<1>k. CallTypes' /\ KeepsIds
  BY <1>t, CallsStep
<1>s. PICK S, R : S = Sendable' /\ R = Returnable'
  OBVIOUS
<1>g. Sendable \subseteq S /\ Returnable \subseteq R
  BY <1>t, <1>k, <1>s, StaysSendable
<1>0. /\ wire \in [Sockets -> Seq(S)] /\ uplink \in [Sockets -> Seq(R)]
      /\ pending \in Seq(S) /\ holding \in Seq(S)
      /\ emitted \in [Windows -> Seq(S)] /\ backlog \in [Windows -> Seq(S)]
  <2>1. (\A q \in Seq(Sendable) : q \in Seq(S)) /\ \A q \in Seq(Returnable) : q \in Seq(R)
    BY <1>g, SeqGrows
  <2> QED
    BY <1>t, <2>1 DEF QueueTypes
<1>w. Windows \subseteq Viewers /\ Tabs \subseteq Viewers /\ SocketOf \in [Viewers -> Sockets]
        /\ Openers \subseteq Callers /\ Daemon \in Sockets
  BY WebViewAssumption, WindowAssumption
<1> DEFINE Q == /\ wire' \in [Sockets -> Seq(S)] /\ uplink' \in [Sockets -> Seq(R)]
                /\ pending' \in Seq(S) /\ holding' \in Seq(S)
                /\ emitted' \in [Windows -> Seq(S)] /\ backlog' \in [Windows -> Seq(S)]
<1>q. Q => QueueTypes'
  BY <1>s DEF QueueTypes
<1>h. ASSUME NEW q \in Seq(S), q # <<>> PROVE Head(q) \in S /\ Tail(q) \in Seq(S)
  BY <1>h
<1>r. ASSUME NEW q \in Seq(R), q # <<>> PROVE Head(q) \in R /\ Tail(q) \in Seq(R)
  BY <1>r
<1>1. CASE UNCHANGED <<wire, uplink, pending, holding, emitted, backlog>>
  BY <1>0, <1>1, <1>q
\* Every socket is told.
<1>2. ASSUME NEW m \in S, wire' = ToAll(m), UNCHANGED <<uplink, pending, holding, emitted, backlog>>
      PROVE  QueueTypes'
  <2>1. wire' \in [Sockets -> Seq(S)]
    BY <1>0, <1>2 DEF ToAll
  <2> QED
    BY <1>0, <1>2, <2>1, <1>q
<1>3. ASSUME NEW c \in Callers, Agent(c), UNCHANGED windowVars PROVE QueueTypes'
  <2>1. CASE \E f \in Frames : RenderInsert(c, f) \/ CloseRemove(c, f) \/ SnapshotRegister(c, f)
    BY <1>1, <1>3, <2>1 DEF RenderInsert, CloseRemove, SnapshotRegister, windowVars
  <2>2. CASE RequestTimesOut(c)
    BY <1>1, <1>3, <2>2 DEF RequestTimesOut, brokerVars, windowVars
  <2>3. CASE Broadcast(c)
    <3>1. call[c] \in ChangeCall
      BY <1>t, <2>3, CallShape DEF Broadcast
    <3>2. [type |-> call[c].op, frame |-> call[c].frame] \in S
      BY <1>g, <3>1, PlainIsSendable DEF ChangeCall, On
    <3> QED
      BY <1>2, <1>3, <2>3, <3>2 DEF Broadcast, windowVars
  <2>4. CASE SendRequest(c)
    <3>1. Request(c) \in S
      BY <1>t, <1>g, <2>4, RequestShape DEF SendRequest, Asking
    <3> QED
      BY <1>2, <1>3, <2>4, <3>1 DEF SendRequest, windowVars
  <2> QED
    BY <1>3, <2>1, <2>2, <2>3, <2>4 DEF Agent
<1>4. ASSUME NEW c \in Openers, WindowAgent(c) PROVE QueueTypes'
  <2>1. CASE ListRegister(c)
    BY <1>1, <2>1 DEF ListRegister, windowVars
  <2>2. ASSUME NEW w \in Windows, WindowOpen(c, w) \/ WindowClose(c, w) PROVE QueueTypes'
    <3>1. PICK m \in Labelled(w) : wire' = ToAll(m)
      BY <2>2 DEF WindowOpen, WindowClose, Labelled
    <3>2. m \in S
      BY <1>g, <3>1, PlainIsSendable
    <3>3. UNCHANGED <<uplink, pending, holding, emitted, backlog>>
      BY <2>2 DEF WindowOpen, WindowClose
    <3> QED
      BY <1>2, <3>1, <3>2, <3>3
  <2> QED
    BY <1>4, <2>1, <2>2 DEF WindowAgent
<1>5. ASSUME NEW s \in Sockets, Socket(s), UNCHANGED windowVars PROVE QueueTypes'
  <2>1. CASE Join(s)
    BY <1>1, <1>5, <2>1 DEF Join, windowVars
  <2>2. CASE ReadAnswer(s) \/ \E f \in Frames : ReadClose(s, f)
    <3>1. uplink[s] # <<>> /\ uplink' = [uplink EXCEPT ![s] = Tail(@)]
            /\ UNCHANGED <<wire, pending, holding, emitted, backlog>>
      BY <1>5, <2>2 DEF ReadAnswer, ReadClose, windowVars
    <3>2. uplink' \in [Sockets -> Seq(R)]
      BY <1>0, <3>1
    <3> QED
      BY <1>0, <3>1, <3>2, <1>q
  <2> QED
    BY <1>5, <2>1, <2>2 DEF Socket
\* A replay begins a connection, or is appended.
<1>6. CASE (\E t \in Tabs : TabConnects(t) /\ UNCHANGED windowVars) \/ DaemonConnects
  <2>1. PICK s \in Sockets : Connect(s) /\ UNCHANGED windowVars
    BY <1>6, <1>w DEF TabConnects, DaemonConnects
  <2>2. Replay \in Seq(S)
    BY <1>t, <1>g, ReplayIsSendable, SeqGrows
  <2>3. wire' \in [Sockets -> Seq(S)]
    BY <1>0, <2>1, <2>2 DEF Connect, Opening
  <2> QED
    BY <1>0, <2>1, <2>3, <1>q DEF Connect, windowVars
<1>7. CASE Replays
  <2>2. Replay \in Seq(S)
    BY <1>t, <1>g, ReplayIsSendable, SeqGrows
  <2>3. wire' = [wire EXCEPT ![Daemon] = wire[Daemon] \o Replay]
    BY <1>7 DEF Replays, ReadReplay
  <2>4. wire[Daemon] \o Replay \in Seq(S)
    BY <1>0, <1>w, <2>2
  <2>5. wire' \in [Sockets -> Seq(S)]
    BY <1>0, <2>3, <2>4
  <2>6. uplink' \in [Sockets -> Seq(R)]
    BY <1>0, <1>7, <1>w DEF Replays, ReadReplay
  <2> QED
    BY <1>0, <1>7, <2>5, <2>6, <1>q DEF Replays, ReadReplay, windowVars
<1>8. ASSUME NEW s \in Sockets, Drops(s) PROVE QueueTypes'
  <2>1. wire' \in [Sockets -> Seq(S)] /\ uplink' \in [Sockets -> Seq(R)]
    BY <1>0, <1>8 DEF Drops, Drop
  <2> QED
    BY <1>0, <1>8, <2>1, <1>q DEF Drops
\* A page handles a message.
<1>9. ASSUME NEW v \in Viewers, NEW m \in Sendable, Handle(v, m)
      PROVE  uplink' \in [Sockets -> Seq(R)]
  <2>1. Replies(v, m) \in Seq(R)
    BY <1>t, <1>g, HandleTypes, SeqGrows
  <2>2. SocketOf[v] \in Sockets
    BY <1>w
  <2>3. uplink[SocketOf[v]] \o Replies(v, m) \in Seq(R)
    BY <1>0, <2>1, <2>2
  <2>4. PICK x \in Seq(R) : uplink' = [uplink EXCEPT ![SocketOf[v]] = x]
    BY <1>0, <1>9, <2>2, <2>3 DEF Handle
  <2> QED
    BY <1>0, <2>4
<1>10. ASSUME NEW t \in Tabs, TabHandles(t), UNCHANGED windowVars PROVE QueueTypes'
  <2>1. SocketOf[t] \in Sockets /\ t \in Viewers
    BY <1>w
  <2>2. Head(wire[SocketOf[t]]) \in Sendable
    BY <1>t, <1>10, <2>1 DEF TabHandles, QueueTypes
  <2>3. uplink' \in [Sockets -> Seq(R)]
    BY <1>9, <1>10, <2>1, <2>2 DEF TabHandles
  <2>4. wire' \in [Sockets -> Seq(S)]
    BY <1>0, <1>10, <2>1 DEF TabHandles
  <2> QED
    BY <1>0, <1>10, <2>3, <2>4, <1>q DEF TabHandles, windowVars
\* The daemon takes a message.
<1>11. ASSUME NEW m, Incoming(m) PROVE wire' \in [Sockets -> Seq(S)] /\ m \in S /\ m \in Sendable
  <2>1. Head(wire[Daemon]) \in Sendable
    BY <1>t, <1>w, <1>11 DEF Incoming, QueueTypes
  <2>2. wire' \in [Sockets -> Seq(S)]
    BY <1>0, <1>w, <1>11 DEF Incoming
  <2> QED
    BY <1>g, <1>11, <2>1, <2>2 DEF Incoming
<1>12. ASSUME NEW w \in Windows, Blank(w), wire' \in [Sockets -> Seq(S)],
              UNCHANGED <<uplink, pending, holding>>
       PROVE  QueueTypes'
  <2>1. emitted' \in [Windows -> Seq(S)] /\ backlog' \in [Windows -> Seq(S)]
    BY <1>0, <1>12 DEF Blank
  <2> QED
    BY <1>0, <1>12, <2>1, <1>q
<1>13. CASE Bridge
  <2>1. ASSUME NEW w \in Windows, DaemonOpens(w) PROVE QueueTypes'
    <3>1. wire' \in [Sockets -> Seq(S)]
      BY <1>11, <2>1 DEF DaemonOpens
    <3>2. CASE ~Blank(w)
      BY <1>0, <2>1, <3>1, <3>2, <1>q DEF DaemonOpens
    <3>3. CASE Blank(w)
      BY <1>12, <2>1, <3>1, <3>3 DEF DaemonOpens
    <3> QED
      BY <3>2, <3>3
  <2>2. ASSUME NEW w \in Windows, DaemonCloses(w) \/ WindowGoes(w) PROVE QueueTypes'
    <3>1. CASE DaemonCloses(w)
      <4>1. wire' \in [Sockets -> Seq(S)]
        BY <1>11, <3>1 DEF DaemonCloses
      <4> QED
        BY <1>0, <3>1, <4>1, <1>q DEF DaemonCloses
    <3>2. CASE WindowGoes(w)
      BY <1>0, <1>12, <3>2 DEF WindowGoes, brokerVars
    <3> QED
      BY <2>2, <3>1, <3>2
  <2>3. CASE DaemonLists
    <3>1. PICK id \in 1 .. calls :
            /\ Incoming([type |-> "list", id |-> id])
            /\ uplink' = [uplink EXCEPT ![Daemon] =
                 Append(uplink[Daemon], [type |-> "answer", id |-> id, got |-> Open])]
      BY <2>3 DEF DaemonLists
    <3> DEFINE m == [type |-> "list", id |-> id]
               a == [type |-> "answer", id |-> id, got |-> Open]
    <3>2. wire' \in [Sockets -> Seq(S)] /\ m \in Sendable
      BY <1>11, <3>1
    <3>3. m.type = "list" /\ m.id = id /\ Fits(m)
      BY <3>2 DEF Sendable
    <3>4. id \in Nat /\ id <= calls /\ \A c \in Callers : Asking(c) /\ call[c].id = id =>
            call[c].op = "list"
      BY <1>t, <3>3 DEF Fits, CallTypes
    <3>5. a \in ListAnswer /\ a.type = "answer" /\ a.id = id
      BY <3>4 DEF ListAnswer, Open
    <3> HIDE DEF a, m
    <3>6. Answers(a)
      BY <3>4, <3>5 DEF Answers
    <3>7. a \in R
      BY <1>g, <3>5, <3>6 DEF Returnable, Reply
    <3>8. uplink' \in [Sockets -> Seq(R)]
      BY <1>0, <1>w, <3>1, <3>7 DEF a
    <3>9. UNCHANGED <<pending, holding, emitted, backlog>>
      BY <2>3 DEF DaemonLists, windowVars
    <3> QED
      BY <1>0, <3>2, <3>8, <3>9, <1>q
  <2>4. CASE DaemonEmits
    <3>1. PICK m : Incoming(m) /\ emitted' = [w \in Windows |->
            IF w \in Listening THEN Append(emitted[w], m) ELSE emitted[w]]
      BY <2>4 DEF DaemonEmits
    <3>2. wire' \in [Sockets -> Seq(S)] /\ m \in S
      BY <1>11, <3>1
    <3>3. emitted' \in [Windows -> Seq(S)]
      BY <1>0, <3>1, <3>2
    <3> QED
      BY <1>0, <2>4, <3>2, <3>3, <1>q DEF DaemonEmits
  <2>5. CASE DaemonHolds
    <3>1. PICK m : Incoming(m) /\ holding' = <<m>>
      BY <2>5 DEF DaemonHolds
    <3>2. wire' \in [Sockets -> Seq(S)] /\ m \in S
      BY <1>11, <3>1
    <3>3. holding' \in Seq(S)
      BY <3>1, <3>2
    <3> QED
      BY <1>0, <2>5, <3>2, <3>3, <1>q DEF DaemonHolds
  <2>6. CASE DaemonBuffers
    <3>1. pending' \in Seq(S) /\ holding' \in Seq(S)
      BY <1>0, <2>6 DEF DaemonBuffers
    <3> QED
      BY <1>0, <2>6, <3>1, <1>q DEF DaemonBuffers, brokerVars
  <2> QED
    BY <1>13, <2>1, <2>2, <2>3, <2>4, <2>5, <2>6 DEF Bridge
<1>14. ASSUME NEW w \in Windows, Page(w) PROVE QueueTypes'
  <2>0. w \in Viewers
    BY <1>w
  <2>1. CASE PageListens(w) \/ ClientReady(w)
    BY <1>1, <2>1 DEF PageListens, ClientReady, webVars, brokerVars
  <2>2. CASE PageAsksReplay(w)
    <3>1. PICK m \in R : m = [type |-> "replay"]
      BY <1>g, PlainIsSendable
    <3>2. uplink' = [uplink EXCEPT ![Daemon] =
            IF conn[Daemon] = "up" THEN Append(uplink[Daemon], m) ELSE uplink[Daemon]]
      BY <2>2, <3>1 DEF PageAsksReplay
    <3>3. uplink' \in [Sockets -> Seq(R)]
      BY <1>0, <1>w, <3>2
    <3> QED
      BY <1>0, <2>2, <3>3, <1>q DEF PageAsksReplay
  <2>3. CASE TakePending(w)
    <3>1. pending' \in Seq(S) /\ backlog' \in [Windows -> Seq(S)]
      BY <1>0, <2>3 DEF TakePending
    <3> QED
      BY <1>0, <2>3, <3>1, <1>q DEF TakePending, brokerVars
  <2>4. CASE HandleBacklog(w)
    <3>1. CASE backlog[w] = <<>>
      BY <1>1, <2>4, <3>1 DEF HandleBacklog
    <3>2. CASE backlog[w] # <<>>
      <4>1. Head(backlog[w]) \in Sendable
        BY <1>t, <3>2 DEF QueueTypes
      <4>2. uplink' \in [Sockets -> Seq(R)]
        BY <1>9, <2>0, <2>4, <3>2, <4>1 DEF HandleBacklog
      <4>3. backlog' = [backlog EXCEPT ![w] = Tail(backlog[w])]
        BY <2>4, <3>2 DEF HandleBacklog
      <4>4. backlog' \in [Windows -> Seq(S)]
        BY <1>0, <3>2, <4>3
      <4> QED
        BY <1>0, <2>4, <4>2, <4>4, <1>q DEF HandleBacklog
    <3> QED
      BY <3>1, <3>2
  <2>5. CASE HandleEvent(w)
    <3>1. Head(emitted[w]) \in Sendable
      BY <1>t, <2>5 DEF QueueTypes, HandleEvent
    <3>2. uplink' \in [Sockets -> Seq(R)]
      BY <1>9, <2>0, <2>5, <3>1 DEF HandleEvent
    <3>3. emitted' \in [Windows -> Seq(S)]
      BY <1>0, <2>5 DEF HandleEvent
    <3> QED
      BY <1>0, <2>5, <3>2, <3>3, <1>q DEF HandleEvent
  <2> QED
    BY <1>14, <2>1, <2>2, <2>3, <2>4, <2>5 DEF Page
<1>15. CASE User
  <2>1. ASSUME NEW v \in Viewers, NEW f \in Frames, UserCloses(v, f), UNCHANGED windowVars
        PROVE  QueueTypes'
    <3>1. PICK m \in R : m = [type |-> "close", frame |-> f]
      BY <1>g, PlainIsSendable
    <3>2. SocketOf[v] \in Sockets
      BY <1>w
    <3>3. uplink' = [uplink EXCEPT ![SocketOf[v]] =
            IF conn[SocketOf[v]] # "down" THEN Append(uplink[SocketOf[v]], m)
            ELSE uplink[SocketOf[v]]]
      BY <2>1, <3>1 DEF UserCloses
    <3>4. uplink' \in [Sockets -> Seq(R)]
      BY <1>0, <3>2, <3>3
    <3> QED
      BY <1>0, <2>1, <3>4, <1>q DEF UserCloses, windowVars
  <2>2. ASSUME NEW w \in Windows, UserClosesWindow(w) PROVE QueueTypes'
    BY <1>0, <1>12, <2>2 DEF UserClosesWindow
  <2> QED
    BY <1>15, <2>1, <2>2 DEF User
<1>16. ASSUME NEW v \in Viewers, Iframes(v), UNCHANGED windowVars PROVE QueueTypes'
  <2>1. CASE UNCHANGED uplink
    BY <1>1, <1>16, <2>1, IframesStep DEF windowVars
  <2>2. CASE \E a \in asked[v] : FrameAnswers(v, a)
    <3>1. PICK a \in asked[v] : FrameAnswers(v, a)
      BY <2>2
    <3>2. PICK b : /\ \E got \in {0, a.got} : b = [a EXCEPT !.got = got]
                   /\ uplink' = [uplink EXCEPT ![SocketOf[v]] =
                        IF conn[SocketOf[v]] # "down" THEN Append(uplink[SocketOf[v]], b)
                        ELSE uplink[SocketOf[v]]]
      BY <3>1 DEF FrameAnswers
    <3>3. a \in Returnable /\ a \in PageAnswer
      BY <1>t, <3>1 DEF FrameTypes
    <3>4. b \in Returnable
      BY <3>2, <3>3, AnswerKept
    <3>5. b \in R /\ SocketOf[v] \in Sockets
      BY <1>g, <1>w, <3>4
    <3>6. uplink' \in [Sockets -> Seq(R)]
      BY <1>0, <3>2, <3>5
    <3> QED
      BY <1>0, <1>16, <3>6, <1>q, IframesStep DEF windowVars
  <2> QED
    BY <1>16, <2>1, <2>2, IframesStep
<1> QED
  BY <1>1, <1>3, <1>4, <1>5, <1>6, <1>7, <1>8, <1>10, <1>13, <1>14, <1>15, <1>16
  DEF WindowNext, uiVars, webVars, brokerVars, windowVars

LEMMA TypesStep == WebTypes /\ [WindowNext]_uiVars => WebTypes'
BY CallsStep, StoreStep, PageStep, FramesStep, QueueStep DEF WebTypes
-----------------------------------------------------------------------------
(***************************************************************************)
(* Queues that are empty: those of a lost connection; those of windows     *)
(* before any page is ready; and the buffer of a page that has played it.  *)
(***************************************************************************)
DownIsEmpty == \A s \in Sockets : conn[s] = "down" => wire[s] = <<>> /\ uplink[s] = <<>>

NotReady ==
  ~ready => \A w \in Windows : emitted[w] = <<>> /\ stage[w] \in {"none", "loading", "listening"}

Played == \A w \in Windows : stage[w] = "running" => backlog[w] = <<>>

Bufs == DownIsEmpty /\ NotReady /\ Played

LEMMA DownStep == WebTypes /\ DownIsEmpty /\ [WindowNext]_uiVars => DownIsEmpty'
<1> SUFFICES ASSUME WebTypes, DownIsEmpty, [WindowNext]_uiVars, NEW s \in Sockets,
                    conn'[s] = "down"
             PROVE  wire'[s] = <<>> /\ uplink'[s] = <<>>
  BY DEF DownIsEmpty
<1>0. /\ conn \in [Sockets -> {"down", "joining", "up"}]
      /\ wire \in [Sockets -> Seq(Sendable)]
      /\ uplink \in [Sockets -> Seq(Returnable)]
      /\ conn[s] = "down" => wire[s] = <<>> /\ uplink[s] = <<>>
  BY DEF WebTypes, PageTypes, QueueTypes, DownIsEmpty
<1>w. /\ Tabs \subseteq Viewers
      /\ Windows \subseteq Viewers
      /\ SocketOf \in [Viewers -> Sockets]
      /\ Openers \subseteq Callers
      /\ Daemon \in Sockets
  BY WebViewAssumption, WindowAssumption
<1>1. ASSUME conn'[s] = conn[s], wire'[s] = wire[s], uplink'[s] = uplink[s]
      PROVE  wire'[s] = <<>> /\ uplink'[s] = <<>>
  BY <1>0, <1>1
\* Every socket is told.
<1>2. ASSUME NEW m, wire' = ToAll(m), UNCHANGED <<conn, uplink>>
      PROVE  wire'[s] = <<>> /\ uplink'[s] = <<>>
  BY <1>0, <1>2 DEF ToAll, Up
<1>3. ASSUME NEW c \in Callers, Agent(c) PROVE wire'[s] = <<>> /\ uplink'[s] = <<>>
  <2>1. CASE \E f \in Frames : RenderInsert(c, f) \/ CloseRemove(c, f) \/ SnapshotRegister(c, f)
    BY <1>1, <2>1 DEF RenderInsert, CloseRemove, SnapshotRegister
  <2>2. CASE RequestTimesOut(c)
    BY <1>1, <2>2 DEF RequestTimesOut, brokerVars
  <2>3. CASE Broadcast(c) \/ SendRequest(c)
    BY <1>2, <2>3 DEF Broadcast, SendRequest
  <2> QED
    BY <1>3, <2>1, <2>2, <2>3 DEF Agent
<1>4. ASSUME NEW c \in Openers, WindowAgent(c) PROVE wire'[s] = <<>> /\ uplink'[s] = <<>>
  <2>1. CASE ListRegister(c)
    BY <1>1, <2>1 DEF ListRegister
  <2>2. ASSUME NEW w \in Windows, WindowOpen(c, w) \/ WindowClose(c, w)
        PROVE  wire'[s] = <<>> /\ uplink'[s] = <<>>
    BY <1>2, <2>2 DEF WindowOpen, WindowClose
  <2> QED
    BY <1>4, <2>1, <2>2 DEF WindowAgent
\* A step of another socket, or of one that is connected.
<1>5. ASSUME NEW x \in Sockets, conn[x] # "down", conn'[x] # "down",
             \A y \in Sockets \ {x} : /\ conn'[y] = conn[y] /\ wire'[y] = wire[y]
                                      /\ uplink'[y] = uplink[y]
      PROVE  wire'[s] = <<>> /\ uplink'[s] = <<>>
  BY <1>0, <1>5
<1>6. ASSUME NEW x \in Sockets, Socket(x) PROVE wire'[s] = <<>> /\ uplink'[s] = <<>>
  <2>1. CASE Join(x)
    BY <1>0, <1>5, <2>1 DEF Join
  <2>2. CASE ReadAnswer(x) \/ \E f \in Frames : ReadClose(x, f)
    BY <1>0, <1>5, <2>2 DEF ReadAnswer, ReadClose
  <2> QED
    BY <1>6, <2>1, <2>2 DEF Socket
<1>7. CASE (\E t \in Tabs : TabConnects(t)) \/ DaemonConnects
  <2>1. PICK x \in Sockets : Connect(x)
    BY <1>7, <1>w DEF TabConnects, DaemonConnects
  <2>2. conn'[x] = "joining" /\ \A y \in Sockets \ {x} : /\ conn'[y] = conn[y]
                                                         /\ wire'[y] = wire[y]
                                                         /\ uplink'[y] = uplink[y]
    BY <1>0, <2>1 DEF Connect
  <2> QED
    BY <1>0, <2>2
<1>8. CASE Replays
  <2>1. conn[Daemon] = "up" /\ conn' = conn
          /\ \A y \in Sockets \ {Daemon} : wire'[y] = wire[y] /\ uplink'[y] = uplink[y]
    BY <1>0, <1>8 DEF Replays, ReadReplay
  <2> QED
    BY <1>5, <1>w, <2>1
<1>9. ASSUME NEW x \in Sockets, Drops(x) PROVE wire'[s] = <<>> /\ uplink'[s] = <<>>
  <2>1. /\ wire'[x] = <<>> /\ uplink'[x] = <<>>
        /\ \A y \in Sockets \ {x} : /\ conn'[y] = conn[y] /\ wire'[y] = wire[y]
                                    /\ uplink'[y] = uplink[y]
    BY <1>0, <1>9 DEF Drops, Drop
  <2> QED
    BY <1>0, <2>1
\* What a page sends on a lost connection is dropped.
<1>10. ASSUME NEW v \in Viewers, NEW q,
              uplink' = [uplink EXCEPT ![SocketOf[v]] =
                IF conn[SocketOf[v]] # "down" THEN q ELSE @],
              UNCHANGED <<conn, wire>>
       PROVE  wire'[s] = <<>> /\ uplink'[s] = <<>>
  BY <1>0, <1>w, <1>10
<1>11. ASSUME NEW t \in Tabs, TabHandles(t) PROVE wire'[s] = <<>> /\ uplink'[s] = <<>>
  <2>1. conn[SocketOf[t]] = "up" /\ conn' = conn /\ SocketOf[t] \in Sockets
          /\ \A y \in Sockets \ {SocketOf[t]} : wire'[y] = wire[y] /\ uplink'[y] = uplink[y]
    BY <1>0, <1>w, <1>11 DEF TabHandles, Handle
  <2> QED
    BY <1>5, <2>1
\* The daemon takes a message.
<1>12. ASSUME NEW m, Incoming(m), UNCHANGED <<conn, uplink>>
       PROVE  wire'[s] = <<>> /\ uplink'[s] = <<>>
  <2>1. conn[Daemon] = "up" /\ conn' = conn
          /\ \A y \in Sockets \ {Daemon} : wire'[y] = wire[y] /\ uplink'[y] = uplink[y]
    BY <1>0, <1>12 DEF Incoming
  <2> QED
    BY <1>5, <1>w, <2>1
<1>13. CASE Bridge
  <2>1. CASE DaemonLists
    <3>1. conn[Daemon] = "up" /\ conn' = conn
            /\ \A y \in Sockets \ {Daemon} : wire'[y] = wire[y] /\ uplink'[y] = uplink[y]
      BY <1>0, <2>1 DEF DaemonLists, Incoming
    <3> QED
      BY <1>5, <1>w, <3>1
  <2>2. CASE DaemonBuffers \/ \E w \in Windows : WindowGoes(w)
    BY <1>1, <2>2 DEF DaemonBuffers, WindowGoes, brokerVars
  <2>3. CASE DaemonEmits \/ DaemonHolds \/ \E w \in Windows : DaemonOpens(w) \/ DaemonCloses(w)
    BY <1>12, <2>3 DEF DaemonEmits, DaemonHolds, DaemonOpens, DaemonCloses
  <2> QED
    BY <1>13, <2>1, <2>2, <2>3 DEF Bridge
<1>14. ASSUME NEW w \in Windows, Page(w) PROVE wire'[s] = <<>> /\ uplink'[s] = <<>>
  <2>1. CASE PageListens(w) \/ ClientReady(w) \/ TakePending(w)
    BY <1>1, <2>1 DEF PageListens, ClientReady, TakePending, webVars, brokerVars
  <2>2. CASE PageAsksReplay(w)
    BY <1>0, <1>w, <2>2 DEF PageAsksReplay
  <2>3. CASE HandleBacklog(w) /\ backlog[w] = <<>>
    BY <1>1, <2>3 DEF HandleBacklog
  <2>4. CASE (HandleBacklog(w) /\ backlog[w] # <<>>) \/ HandleEvent(w)
    <3>1. PICK m : Handle(w, m)
      BY <2>4 DEF HandleBacklog, HandleEvent
    <3>2. PICK q : uplink' = [uplink EXCEPT ![SocketOf[w]] =
                     IF conn[SocketOf[w]] # "down" THEN q ELSE uplink[SocketOf[w]]]
      BY <3>1 DEF Handle
    <3> QED
      BY <1>10, <1>w, <2>4, <3>2 DEF HandleBacklog, HandleEvent
  <2> QED
    BY <1>14, <2>1, <2>2, <2>3, <2>4 DEF Page
<1>15. CASE User
  <2>1. ASSUME NEW v \in Viewers, NEW f \in Frames, UserCloses(v, f)
        PROVE  wire'[s] = <<>> /\ uplink'[s] = <<>>
    BY <1>10, <2>1 DEF UserCloses
  <2>2. CASE \E w \in Windows : UserClosesWindow(w)
    BY <1>1, <2>2 DEF UserClosesWindow
  <2> QED
    BY <1>15, <2>1, <2>2 DEF User
<1>16. ASSUME NEW v \in Viewers, Iframes(v) PROVE wire'[s] = <<>> /\ uplink'[s] = <<>>
  <2>1. UNCHANGED <<conn, wire>>
    BY <1>16, IframesStep
  <2>2. CASE \E a \in asked[v] : FrameAnswers(v, a)
    <3>1. PICK q : uplink' = [uplink EXCEPT ![SocketOf[v]] =
                     IF conn[SocketOf[v]] # "down" THEN q ELSE uplink[SocketOf[v]]]
      BY <2>2 DEF FrameAnswers
    <3> QED
      BY <1>10, <2>1, <3>1
  <2> QED
    BY <1>1, <1>16, <2>1, <2>2, IframesStep
<1> QED
  BY <1>1, <1>3, <1>4, <1>6, <1>7, <1>8, <1>9, <1>11, <1>13, <1>14, <1>15, <1>16
  DEF WindowNext, uiVars, webVars, brokerVars

\* Steps that are not the daemon's nor a window's leave the windows' queues alone.
Bridging ==
  \/ Bridge
  \/ \E w \in Windows : Page(w) \/ UserClosesWindow(w)

LEMMA OthersLeaveWindows ==
  ASSUME [WindowNext]_uiVars, ~Bridging
  PROVE  UNCHANGED <<stage, asking, ready, pending, holding, emitted, backlog>>
<1>1. CASE \E c \in Callers : Agent(c) /\ UNCHANGED windowVars
  BY <1>1 DEF windowVars
<1>2. CASE \E c \in Openers : WindowAgent(c)
  BY <1>2 DEF WindowAgent, WindowOpen, WindowClose, ListRegister, windowVars
<1>3. CASE (\E s \in Sockets : Socket(s) /\ UNCHANGED windowVars)
             \/ (\E t \in Tabs : (TabConnects(t) \/ TabHandles(t)) /\ UNCHANGED windowVars)
             \/ \E v \in Viewers : Iframes(v) /\ UNCHANGED windowVars
  BY <1>3 DEF windowVars
<1>4. CASE DaemonConnects \/ Replays \/ \E s \in Sockets : Drops(s)
  BY <1>4 DEF DaemonConnects, Replays, Drops, windowVars
<1>5. CASE User
  BY <1>5 DEF User, Bridging, windowVars
<1> QED
  BY <1>1, <1>2, <1>3, <1>4, <1>5 DEF WindowNext, Bridging, uiVars, windowVars

LEMMA NotReadyStep == WebTypes /\ NotReady /\ [WindowNext]_uiVars => NotReady'
<1> SUFFICES ASSUME WebTypes, NotReady, [WindowNext]_uiVars, ~ready', NEW v \in Windows
             PROVE  emitted'[v] = <<>> /\ stage'[v] \in {"none", "loading", "listening"}
  BY DEF NotReady
<1>0. /\ stage \in [Windows -> Stages]
      /\ emitted \in [Windows -> Seq(Sendable)]
      /\ ~ready => emitted[v] = <<>> /\ stage[v] \in {"none", "loading", "listening"}
  BY DEF WebTypes, PageTypes, QueueTypes, NotReady
<1>1. CASE UNCHANGED <<stage, ready, emitted>>
  BY <1>0, <1>1
<1>2. ASSUME NEW w \in Windows, Blank(w), stage' = [stage EXCEPT ![w] = "loading"]
                                            \/ stage' = [stage EXCEPT ![w] = "none"],
             ready' = ready
      PROVE  emitted'[v] = <<>> /\ stage'[v] \in {"none", "loading", "listening"}
  BY <1>0, <1>2 DEF Blank
<1>3. ASSUME NEW w \in Windows, DaemonOpens(w) \/ WindowGoes(w) \/ UserClosesWindow(w)
      PROVE  emitted'[v] = <<>> /\ stage'[v] \in {"none", "loading", "listening"}
  BY <1>1, <1>2, <1>3 DEF DaemonOpens, WindowGoes, UserClosesWindow
<1>4. CASE DaemonLists \/ DaemonHolds \/ DaemonBuffers \/ \E w \in Windows : DaemonCloses(w)
  BY <1>1, <1>4 DEF DaemonLists, DaemonHolds, DaemonBuffers, DaemonCloses, windowVars
<1>5. CASE DaemonEmits
  BY <1>5 DEF DaemonEmits
<1>6. ASSUME NEW w \in Windows, Page(w)
      PROVE  emitted'[v] = <<>> /\ stage'[v] \in {"none", "loading", "listening"}
  <2>1. CASE PageListens(w)
    BY <1>0, <2>1 DEF PageListens
  <2>2. CASE PageAsksReplay(w)
    BY <1>1, <2>2 DEF PageAsksReplay
  <2>3. CASE ClientReady(w)
    BY <2>3 DEF ClientReady
  <2>4. CASE TakePending(w) \/ HandleBacklog(w)
    <3>1. ready' = ready /\ stage[w] \in {"set", "taken", "draining"}
      BY <2>4 DEF TakePending, HandleBacklog
    <3> QED
      BY <3>1 DEF NotReady
  <2>5. CASE HandleEvent(w)
    <3>1. ready' = ready /\ emitted[w] # <<>>
      BY <2>5 DEF HandleEvent
    <3> QED
      BY <3>1 DEF NotReady
  <2> QED
    BY <1>6, <2>1, <2>2, <2>3, <2>4, <2>5 DEF Page
<1> QED
  BY <1>1, <1>3, <1>4, <1>5, <1>6, OthersLeaveWindows DEF Bridging, Bridge

LEMMA PlayedStep == WebTypes /\ Played /\ [WindowNext]_uiVars => Played'
<1> SUFFICES ASSUME WebTypes, Played, [WindowNext]_uiVars, NEW v \in Windows,
                    stage'[v] = "running"
             PROVE  backlog'[v] = <<>>
  BY DEF Played
<1>0. /\ stage \in [Windows -> Stages]
      /\ backlog \in [Windows -> Seq(Sendable)]
      /\ stage[v] = "running" => backlog[v] = <<>>
  BY DEF WebTypes, PageTypes, QueueTypes, Played
<1>1. CASE UNCHANGED <<stage, backlog>>
  BY <1>0, <1>1
<1>2. ASSUME NEW w \in Windows, DaemonOpens(w) \/ WindowGoes(w) \/ UserClosesWindow(w)
      PROVE  backlog'[v] = <<>>
  BY <1>0, <1>2 DEF DaemonOpens, WindowGoes, UserClosesWindow, Blank
<1>3. CASE DaemonLists \/ DaemonEmits \/ DaemonHolds \/ DaemonBuffers
             \/ \E w \in Windows : DaemonCloses(w)
  BY <1>1, <1>3 DEF DaemonLists, DaemonEmits, DaemonHolds, DaemonBuffers, DaemonCloses, windowVars
<1>4. ASSUME NEW w \in Windows, Page(w) PROVE backlog'[v] = <<>>
  <2>1. CASE PageAsksReplay(w) \/ HandleEvent(w)
    BY <1>1, <2>1 DEF PageAsksReplay, HandleEvent
  <2>2. CASE PageListens(w) \/ ClientReady(w)
    BY <1>0, <2>2 DEF PageListens, ClientReady
  <2>3. CASE TakePending(w)
    BY <1>0, <2>3 DEF TakePending
  <2>4. CASE HandleBacklog(w)
    <3>1. CASE backlog[w] = <<>>
      BY <1>0, <2>4, <3>1 DEF HandleBacklog
    <3>2. CASE backlog[w] # <<>>
      <4>1. stage' = [stage EXCEPT ![w] = "draining"]
              /\ backlog' = [backlog EXCEPT ![w] = Tail(backlog[w])]
        BY <2>4, <3>2 DEF HandleBacklog
      <4> QED
        BY <1>0, <4>1
    <3> QED
      BY <3>1, <3>2
  <2> QED
    BY <1>4, <2>1, <2>2, <2>3, <2>4 DEF Page
<1> QED
  BY <1>1, <1>2, <1>3, <1>4, OthersLeaveWindows DEF Bridging, Bridge

LEMMA BufsStep == WebTypes /\ Bufs /\ [WindowNext]_uiVars => Bufs'
BY DownStep, NotReadyStep, PlayedStep DEF Bufs
-----------------------------------------------------------------------------
(***************************************************************************)
(* Changes under way.  One that is still alone is the only change of its   *)
(* frame, and the store is as it left it.                                  *)
(***************************************************************************)
AloneIsLast ==
  \A c \in Callers : call[c].op \in {"render", "close"} /\ call[c].alone =>
    /\ Changing(call[c].frame) = {c}
    /\ call[c].op = "render" <=> store[call[c].frame] # 0

\* The steps that change a frame or a change under way.
ChangeBegins == \E c \in Callers, f \in Frames : RenderInsert(c, f) \/ CloseRemove(c, f)
ChangeEnds == \E c \in Callers : Broadcast(c)
PageCloses == \E s \in Sockets, f \in Frames : ReadClose(s, f)
Disturbs == ChangeBegins \/ ChangeEnds \/ PageCloses

LEMMA OthersLeaveChanges ==
  ASSUME CallTypes, [WindowNext]_uiVars, ~Disturbs
  PROVE  /\ store' = store
         /\ \A f : Changing(f)' = Changing(f)
         /\ \A c \in Callers : call'[c].op \in {"render", "close"} => call'[c] = call[c]
<1> DEFINE Same == \A c \in Callers :
             call'[c].op \in {"render", "close"} \/ call[c].op \in {"render", "close"}
               => call'[c] = call[c]
<1>0. call \in [Callers -> Call]
  BY DEF CallTypes
<1>1. CASE UNCHANGED <<store, call>>
  BY <1>1 DEF Changing
<1>2. ASSUME Same, store' = store
      PROVE  /\ store' = store
             /\ \A f : Changing(f)' = Changing(f)
             /\ \A c \in Callers : call'[c].op \in {"render", "close"} => call'[c] = call[c]
  BY <1>2 DEF Changing
<1>3. ASSUME NEW c \in Callers, NEW x, call' = [call EXCEPT ![c] = x],
             x.op \notin {"render", "close"}, call[c].op \notin {"render", "close"}
      PROVE  Same
  BY <1>0, <1>3
<1>4. ASSUME NEW c \in Callers, Agent(c) PROVE Same /\ store' = store
  <2>1. CASE \E f \in Frames : SnapshotRegister(c, f)
    <3>1. PICK x : call' = [call EXCEPT ![c] = x] /\ x.op = "snapshot" /\ call[c] = Idle
      BY <2>1 DEF SnapshotRegister, Start
    <3> QED
      BY <1>3, <2>1, <3>1 DEF Idle, SnapshotRegister
  <2>2. CASE SendRequest(c)
    <3>1. call[c] \in ShotCall \cup ListCall /\ call[c].op \in {"snapshot", "list"}
      BY <2>2, CallShape DEF SendRequest
    <3>2. [call[c] EXCEPT !.sent = TRUE].op = call[c].op
      BY <3>1 DEF ShotCall, ListCall
    <3>3. call' = [call EXCEPT ![c] = [call[c] EXCEPT !.sent = TRUE]]
      BY <2>2 DEF SendRequest
    <3> QED
      BY <1>3, <2>2, <3>1, <3>2, <3>3 DEF SendRequest
  <2>3. CASE RequestTimesOut(c)
    <3>1. call' = [call EXCEPT ![c] = Idle] /\ call[c].op \in {"snapshot", "list"}
            /\ store' = store
      BY <2>3 DEF RequestTimesOut, brokerVars
    <3> QED
      BY <1>3, <3>1 DEF Idle
  <2> QED
    BY <1>4, <2>1, <2>2, <2>3 DEF Agent, Disturbs, ChangeBegins, ChangeEnds
<1>5. ASSUME NEW c \in Callers, WindowAgent(c) PROVE Same /\ store' = store
  <2>1. CASE ListRegister(c)
    <3>1. PICK x : call' = [call EXCEPT ![c] = x] /\ x.op = "list" /\ call[c] = Idle
      BY <2>1 DEF ListRegister, Start
    <3> QED
      BY <1>3, <2>1, <3>1 DEF Idle, ListRegister
  <2>2. CASE \E w \in Windows : WindowOpen(c, w) \/ WindowClose(c, w)
    BY <2>2 DEF WindowOpen, WindowClose
  <2> QED
    BY <1>5, <2>1, <2>2 DEF WindowAgent
<1>6. ASSUME NEW s \in Sockets, Socket(s) PROVE Same /\ store' = store
  <2>1. CASE Join(s)
    BY <2>1 DEF Join
  <2>2. CASE ReadAnswer(s)
    <3>1. PICK to : to \subseteq {c \in Callers : call[c].op \in {"snapshot", "list"}}
                     /\ call' = [c \in Callers |-> IF c \in to THEN Idle ELSE call[c]]
      BY <2>2 DEF ReadAnswer, WaiterOf
    <3> QED
      BY <2>2, <3>1 DEF ReadAnswer, Idle
  <2> QED
    BY <1>6, <2>1, <2>2 DEF Socket, Disturbs, PageCloses
<1>7. CASE (\E t \in Tabs : TabConnects(t) \/ TabHandles(t)) \/ DaemonConnects \/ Replays
  BY <1>1, <1>7 DEF TabConnects, Connect, TabHandles, DaemonConnects, Replays, ReadReplay
<1>8. CASE \E s \in Sockets : Drops(s)
  BY <1>1, <1>8 DEF Drops, Drop
<1>9. CASE Bridge \/ \E v \in Viewers : Iframes(v)
  BY <1>1, <1>9, IframesStep DEF Bridge, DaemonOpens, DaemonCloses, WindowGoes, DaemonLists,
     DaemonEmits, DaemonHolds, DaemonBuffers, brokerVars
<1>10. CASE \E w \in Windows : Page(w)
  BY <1>1, <1>10 DEF Page, PageListens, PageAsksReplay, ClientReady, TakePending, HandleBacklog,
     HandleEvent, webVars, brokerVars
<1>11. CASE User \/ UNCHANGED uiVars
  BY <1>1, <1>11 DEF User, UserCloses, UserClosesWindow, uiVars, webVars, brokerVars
<1> HIDE DEF Same
<1> QED
  BY <1>2, <1>4, <1>5, <1>6, <1>7, <1>1, <1>8, <1>9, <1>10, <1>11, WindowAssumption DEF WindowNext


\* A change begins: of its frame it is one more, of the others there are the same.
LEMMA ChangeBeginsStep ==
  ASSUME CallTypes, StoreTypes, NEW c \in Callers, NEW f \in Frames,
         RenderInsert(c, f) \/ CloseRemove(c, f)
  PROVE  /\ call[c] = Idle /\ c \notin Changing(f)
         /\ call'[c].op = (IF store'[f] = 0 THEN "close" ELSE "render")
         /\ call'[c].frame = f /\ (call'[c].alone <=> Changing(f) = {})
         /\ Changing(f)' = Changing(f) \cup {c}
         /\ \A g : g # f => Changing(g)' = Changing(g)
         /\ \A g \in Frames : g # f => store'[g] = store[g]
         /\ \A d \in Callers \ {c} :
              /\ call'[d].op = call[d].op
              /\ call[d].op \in {"render", "close"} =>
                   /\ call'[d].frame = call[d].frame
                   /\ call'[d].alone => call[d].alone /\ call[d].frame # f
<1>0. PICK alone \in BOOLEAN : alone = (Changing(f) = {})
  OBVIOUS
<1>1. PICK removed \in BOOLEAN, op \in {"render", "close"} :
        /\ call' = [Beside(f, removed) EXCEPT
                     ![c] = [op |-> op, frame |-> f, alone |-> alone]]
        /\ op = (IF store'[f] = 0 THEN "close" ELSE "render")
        /\ \A g \in Frames : g # f => store'[g] = store[g]
  <2>1. store \in [Frames -> Nat] /\ renders + 1 # 0
    BY DEF StoreTypes
  <2>2. CASE RenderInsert(c, f)
    BY <1>0, <2>1, <2>2 DEF RenderInsert
  <2>3. CASE CloseRemove(c, f)
    BY <1>0, <2>1, <2>3 DEF CloseRemove
  <2> QED
    BY <2>2, <2>3
<1>2. PICK b : b = Beside(f, removed)
  OBVIOUS
<1>3. \A d \in Callers :
        /\ b \in [Callers -> Call]
        /\ b[d].op = call[d].op
        /\ call[d].op \in {"render", "close"} =>
             /\ b[d].frame = call[d].frame
             /\ b[d].alone => call[d].alone /\ call[d].frame # f
  BY <1>2, BesideShape
<1>4. call[c] = Idle
  BY DEF RenderInsert, CloseRemove, Start
<1>5. call'[c] = [op |-> op, frame |-> f, alone |-> alone]
  BY <1>1, <1>2, <1>3
<1>6. \A d \in Callers \ {c} : call'[d] = b[d]
  BY <1>1, <1>2, <1>3
<1>7. c \notin Changing(f) /\ \A g : c \notin Changing(g)
  BY <1>4 DEF Changing, Idle
<1>8. \A g : \A d \in Callers \ {c} : d \in Changing(g)' <=> d \in Changing(g)
  BY <1>3, <1>6 DEF Changing
<1>9. \A g : c \in Changing(g)' <=> g = f
  BY <1>5 DEF Changing
<1>10. \A g : Changing(g) \subseteq Callers /\ Changing(g)' \subseteq Callers
  BY DEF Changing
<1>11. Changing(f)' = Changing(f) \cup {c} /\ \A g : g # f => Changing(g)' = Changing(g)
  <2>1. ASSUME NEW g PROVE Changing(g)' = IF g = f THEN Changing(g) \cup {c} ELSE Changing(g)
    <3>1. \A d \in Callers : d \in Changing(g)' <=> d \in Changing(g) \/ (d = c /\ g = f)
      BY <1>7, <1>8, <1>9
    <3>2. Changing(g) \subseteq Callers /\ Changing(g)' \subseteq Callers
      BY <1>10
    <3> QED
      BY <3>1, <3>2
  <2> QED
    BY <2>1
<1>12. \A d \in Callers \ {c} :
         /\ call'[d].op = call[d].op
         /\ call[d].op \in {"render", "close"} =>
              /\ call'[d].frame = call[d].frame
              /\ call'[d].alone => call[d].alone /\ call[d].frame # f
  BY <1>3, <1>6
<1>13. /\ call'[c].op = (IF store'[f] = 0 THEN "close" ELSE "render")
       /\ call'[c].frame = f /\ (call'[c].alone <=> Changing(f) = {})
  <2>1. call'[c].op = op /\ call'[c].frame = f /\ call'[c].alone = alone
    BY <1>5
  <2>2. alone <=> Changing(f) = {}
    BY <1>0
  <2> QED
    BY <1>1, <2>1, <2>2, Zenon
<1>14. c \notin Changing(f) /\ \A g \in Frames : g # f => store'[g] = store[g]
  BY <1>1, <1>7
<1> QED
  BY <1>4, <1>11, <1>12, <1>13, <1>14

\* A change ends: it is gone, and the others are as they were.
LEMMA ChangeEndsStep ==
  ASSUME CallTypes, NEW c \in Callers, Broadcast(c), NEW f, f = call[c].frame
  PROVE  /\ call[c] \in ChangeCall /\ f \in Frames /\ c \in Changing(f) /\ store' = store
         /\ Changing(f)' = Changing(f) \ {c}
         /\ \A g : g # f => Changing(g)' = Changing(g)
         /\ call'[c] = Idle
         /\ \A d \in Callers \ {c} : call'[d] = call[d]
<1>1. call[c] \in ChangeCall /\ c \in Changing(f) /\ store' = store
  BY CallShape DEF Broadcast, Changing
<1>0. f \in Frames
  BY <1>1 DEF ChangeCall
<1>2. call'[c] = Idle /\ \A d \in Callers \ {c} : call'[d] = call[d]
  BY DEF Broadcast, CallTypes
<1>3. \A g : Changing(g)' = Changing(g) \ {c}
  BY <1>2 DEF Changing, Idle
<1>4. \A g : g # f => c \notin Changing(g)
  BY DEF Changing
<1> QED
  BY <1>0, <1>1, <1>2, <1>3, <1>4

\* A page closes a frame beside the changes under way.
LEMMA PageClosesStep ==
  ASSUME CallTypes, StoreTypes, NEW s \in Sockets, NEW f \in Frames, ReadClose(s, f)
  PROVE  /\ store'[f] = 0
         /\ \A g \in Frames : g # f => store'[g] = store[g]
         /\ \A g : Changing(g)' = Changing(g)
         /\ \A d \in Callers :
              /\ call'[d].op = call[d].op
              /\ call[d].op \in {"render", "close"} =>
                   /\ call'[d].frame = call[d].frame
                   /\ call'[d].alone => call[d].alone /\ call[d].frame # f
<1>1. store \in [Frames -> Nat] /\ store' = [store EXCEPT ![f] = 0]
  BY DEF ReadClose, StoreTypes
<1>2. PICK removed, b : removed = TRUE /\ b = Beside(f, removed) /\ call' = b
  BY DEF ReadClose
<1>3. ASSUME NEW d \in Callers
      PROVE  /\ call'[d].op = call[d].op
             /\ call[d].op \in {"render", "close"} =>
                  /\ call'[d].frame = call[d].frame
                  /\ call'[d].alone => call[d].alone /\ call[d].frame # f
  <2>1. CallTypes /\ f \in Frames /\ removed \in BOOLEAN /\ b = Beside(f, removed)
    BY <1>2
  <2>2. /\ b[d].op = call[d].op
        /\ call[d].op \in {"render", "close"} =>
             /\ b[d].frame = call[d].frame
             /\ b[d].alone => call[d].alone /\ call[d].frame # f
    BY <2>1, BesideShape
  <2> QED
    BY <1>2, <2>2
<1>4. \A g : Changing(g)' = Changing(g)
  BY <1>3 DEF Changing
<1> QED
  BY <1>1, <1>3, <1>4

LEMMA AloneStep ==
  CallTypes /\ StoreTypes /\ AloneIsLast /\ [WindowNext]_uiVars => AloneIsLast'
<1> SUFFICES ASSUME CallTypes, StoreTypes, AloneIsLast, [WindowNext]_uiVars, NEW c \in Callers,
                    call'[c].op \in {"render", "close"}, call'[c].alone,
                    NEW k, k = call'[c].frame
             PROVE  Changing(k)' = {c} /\ (call'[c].op = "render" <=> store'[k] # 0)
  BY DEF AloneIsLast
<1>f. \A d \in Callers : call[d].op \in {"render", "close"} => call[d].frame \in Frames
  BY CallShape DEF ChangeCall
<1>1. CASE ~Disturbs
  <2>1. call'[c] = call[c] /\ store' = store /\ \A f : Changing(f)' = Changing(f)
    BY <1>1, OthersLeaveChanges
  <2> QED
    BY <2>1 DEF AloneIsLast
<1>2. ASSUME NEW d \in Callers, NEW f \in Frames, RenderInsert(d, f) \/ CloseRemove(d, f)
      PROVE  Changing(k)' = {c} /\ (call'[c].op = "render" <=> store'[k] # 0)
  <2>1. CASE c = d
    BY <1>2, <2>1, ChangeBeginsStep
  <2>2. CASE c # d
    <3>1. /\ call'[c].op = call[c].op /\ call'[c].frame = call[c].frame
          /\ call[c].alone /\ call[c].frame # f
          /\ \A g : g # f => Changing(g)' = Changing(g)
          /\ \A g \in Frames : g # f => store'[g] = store[g]
      BY <1>2, <2>2, ChangeBeginsStep
    <3> QED
      BY <1>f, <3>1 DEF AloneIsLast
  <2> QED
    BY <2>1, <2>2
<1>3. ASSUME NEW d \in Callers, Broadcast(d)
      PROVE  Changing(k)' = {c} /\ (call'[c].op = "render" <=> store'[k] # 0)
  <2>0. PICK f : f = call[d].frame
    OBVIOUS
  <2>1. /\ d \in Changing(f) /\ store' = store
        /\ \A g : g # f => Changing(g)' = Changing(g)
        /\ call'[d] = Idle
        /\ \A e \in Callers \ {d} : call'[e] = call[e]
    BY <1>3, <2>0, ChangeEndsStep
  <2>2. c # d
    BY <2>1 DEF Idle
  <2>3. call'[c] = call[c]
    BY <2>1, <2>2
  <2>4. k = call[c].frame /\ Changing(k) = {c} /\ (call[c].op = "render" <=> store[k] # 0)
    BY <2>3 DEF AloneIsLast
  <2>5. k # f
    BY <2>1, <2>2, <2>4
  <2> QED
    BY <2>1, <2>3, <2>4, <2>5
<1>4. ASSUME NEW s \in Sockets, NEW f \in Frames, ReadClose(s, f)
      PROVE  Changing(k)' = {c} /\ (call'[c].op = "render" <=> store'[k] # 0)
  <2>1. /\ \A g \in Frames : g # f => store'[g] = store[g]
        /\ \A g : Changing(g)' = Changing(g)
        /\ call'[c].op = call[c].op /\ call'[c].frame = call[c].frame
        /\ call[c].alone /\ call[c].frame # f
    BY <1>4, PageClosesStep
  <2> QED
    BY <1>f, <2>1 DEF AloneIsLast
<1> QED
  BY <1>1, <1>2, <1>3, <1>4 DEF Disturbs, ChangeBegins, ChangeEnds, PageCloses
-----------------------------------------------------------------------------
(***************************************************************************)
(* What is on its way to a page.  The messages about a frame that a page   *)
(* has still to handle are, from the oldest: those of the buffer that it   *)
(* was handed or will be, the one that is about to enter the buffer, its   *)
(* events, and the socket's.                                               *)
(***************************************************************************)
Says(q, f) == LastOf(q, Len(q), On(f))

First(w) == IF stage[w] \in {"taken", "draining", "running"} THEN backlog[w] ELSE pending

Inside(v, f) ==
  IF v \in Windows
    THEN Then(Then(Says(First(v), f), IF ready THEN "none" ELSE Says(holding, f)),
              Says(emitted[v], f))
    ELSE "none"

Latest(v, f) == Then(Inside(v, f), Says(wire[SocketOf[v]], f))

CloseOf(f) == [type |-> "close", frame |-> f]

\* A connection by which no close of f is on its way to the broker.
Hears(s, f) == conn[s] # "down" /\ CloseOf(f) \notin Range(uplink[s])

Agrees(last, sh, st) ==
  IF st # 0 THEN last = "render" \/ (last = "none" /\ sh = st)
            ELSE last = "close" \/ (last = "none" /\ sh = None)

Calm(v, f) ==
  /\ f \notin behind[v]
  /\ Changing(f) = {}
  /\ Hears(SocketOf[v], f)
  /\ v \in Windows /\ ready => Says(holding, f) = "none"

(***************************************************************************)
(* The invariant behind PagesShowTheStore: unless the frame is being       *)
(* changed, what is said last to a page is what the store holds, and if    *)
(* nothing is said then the page shows it already.                         *)
(***************************************************************************)
InSync(v, f) == Calm(v, f) => Agrees(Latest(v, f), shown[v][f], store[f])

Pages == \A v \in Viewers, f \in Frames : InSync(v, f)

LEMMA ThenLaws ==
  /\ \A x : Then(x, "none") = x /\ Then("none", x) = x
  /\ \A x, y, z : Then(Then(x, y), z) = Then(x, Then(y, z))
BY DEF Then

LEMMA OfShape ==
  ASSUME NEW m, NEW f
  PROVE  /\ Of(m, On(f)) \in {"none", "render", "close"}
         /\ Of(m, On(f)) = "render" <=> m = [type |-> "render", frame |-> f]
         /\ Of(m, On(f)) = "close" <=> m = CloseOf(f)
         /\ Of(m, On(f)) = "none" <=> m \notin On(f)
BY DEF Of, On, CloseOf

LEMMA SaysAppend ==
  ASSUME NEW S, NEW q \in Seq(S), NEW m, NEW f
  PROVE  Says(Append(q, m), f) = Then(Says(q, f), Of(m, On(f)))
<1>1. Len(Append(q, m)) = Len(q) + 1
  OBVIOUS
<1>2. LastOf(Append(q, m), Len(q) + 1, On(f)) = Then(LastOf(q, Len(q), On(f)), Of(m, On(f)))
  BY AllTell, LastAppend
<1> QED
  BY <1>1, <1>2 DEF Says

LEMMA SaysTail ==
  ASSUME NEW S, NEW q \in Seq(S), q # <<>>, NEW f
  PROVE  Says(q, f) = Then(Of(Head(q), On(f)), Says(Tail(q), f))
<1>1. Len(q) \in 1 .. Len(q) /\ Len(Tail(q)) = Len(q) - 1
  OBVIOUS
<1>2. LastOf(q, Len(q), On(f)) = Then(Of(Head(q), On(f)), LastOf(Tail(q), Len(q) - 1, On(f)))
  BY <1>1, AllTell, LastTail
<1> QED
  BY <1>1, <1>2 DEF Says

LEMMA SaysConcat ==
  ASSUME NEW S, NEW p \in Seq(S), NEW q \in Seq(S), NEW f
  PROVE  Says(p \o q, f) = Then(Says(p, f), Says(q, f))
BY AllTell, LastConcat DEF Says

LEMMA SaysNothing == \A f : Says(<<>>, f) = "none"
BY LastOfNone DEF Says

LEMMA SaysOne ==
  ASSUME NEW m, NEW f
  PROVE  Says(<<m>>, f) = Of(m, On(f))
<1>1. <<>> \in Seq({m}) /\ <<m>> = Append(<<>>, m)
  OBVIOUS
<1>2. Says(Append(<<>>, m), f) = Then(Says(<<>>, f), Of(m, On(f)))
  BY <1>1, SaysAppend
<1> QED
  BY <1>1, <1>2, SaysNothing, ThenLaws

\* What is in a queue stays in it while it grows, and leaves it at its head.
LEMMA RangeShape ==
  ASSUME NEW S, NEW q \in Seq(S), NEW x, x \in Range(q)
  PROVE  /\ \A m : x \in Range(Append(q, m))
         /\ \A r \in Seq(S) : x \in Range(q \o r)
         /\ q # <<>> /\ x # Head(q) => x \in Range(Tail(q))
<1>1. PICK i \in 1 .. Len(q) : x = q[i]
  BY DEF Range
<1>2. ASSUME NEW m PROVE x \in Range(Append(q, m))
  <2>1. i \in DOMAIN Append(q, m) /\ Append(q, m)[i] = x
    BY <1>1
  <2> QED
    BY <2>1 DEF Range
<1>3. ASSUME NEW r \in Seq(S) PROVE x \in Range(q \o r)
  <2>1. i \in DOMAIN (q \o r) /\ (q \o r)[i] = x
    BY <1>1
  <2> QED
    BY <2>1 DEF Range
<1>4. ASSUME q # <<>>, x # Head(q) PROVE x \in Range(Tail(q))
  <2>1. i # 1
    BY <1>1, <1>4
  <2>2. i - 1 \in DOMAIN Tail(q) /\ Tail(q)[i - 1] = x
    BY <1>1, <1>4, <2>1
  <2> QED
    BY <2>2 DEF Range
<1> QED
  BY <1>2, <1>3, <1>4

\* A message handled: what was said before it still agrees.
LEMMA Consumed ==
  ASSUME NEW o, NEW last, NEW sh, NEW new, NEW st,
         Agrees(Then(o, last), sh, st), o \in {"none", "render", "close"},
         o = "render" => new = st, o = "close" => new = None, o = "none" => new = sh
  PROVE  Agrees(last, new, st)
BY DEF Agrees, Then

\* A close is on its way until the connection is lost or the broker reads it.
LEMMA HearsStep ==
  ASSUME WebTypes, DownIsEmpty, [WindowNext]_uiVars, NEW s \in Sockets, NEW f \in Frames,
         Hears(s, f)', ~Connect(s), ~\E x \in Sockets : ReadClose(x, f)
  PROVE  Hears(s, f)
<1>0. /\ conn \in [Sockets -> {"down", "joining", "up"}]
      /\ uplink \in [Sockets -> Seq(Returnable)]
      /\ CallTypes /\ StoreTypes /\ PageTypes
      /\ wire \in [Sockets -> Seq(Sendable)] /\ emitted \in [Windows -> Seq(Sendable)]
      /\ backlog \in [Windows -> Seq(Sendable)]
  BY DEF WebTypes, PageTypes, QueueTypes
<1>w. Tabs \subseteq Viewers /\ Windows \subseteq Viewers /\ SocketOf \in [Viewers -> Sockets]
        /\ Openers \subseteq Callers /\ Daemon \in Sockets
  BY WebViewAssumption, WindowAssumption
<1>k. PICK k : k = CloseOf(f)
  OBVIOUS
<1>h. conn'[s] # "down" /\ k \notin Range(uplink'[s])
  BY <1>k DEF Hears, CloseOf
<1>d. Hears(s, f) <=> conn[s] # "down" /\ k \notin Range(uplink[s])
  BY <1>k DEF Hears
<1>1. CASE conn'[s] = conn[s] /\ uplink'[s] = uplink[s]
  BY <1>h, <1>d, <1>1
<1>2. ASSUME NEW q \in Seq(Returnable), conn'[s] = conn[s], uplink'[s] = uplink[s] \o q
      PROVE  Hears(s, f)
  <2>1. uplink[s] \in Seq(Returnable)
    BY <1>0
  <2> QED
    BY <1>h, <1>d, <1>2, <2>1, RangeShape
<1>3. ASSUME NEW m, conn'[s] = conn[s], uplink'[s] = Append(uplink[s], m)
      PROVE  Hears(s, f)
  <2>1. uplink[s] \in Seq(Returnable)
    BY <1>0
  <2> QED
    BY <1>h, <1>d, <1>3, <2>1, RangeShape
<1>4. ASSUME uplink[s] # <<>>, Head(uplink[s]) # k, conn'[s] = conn[s], uplink'[s] = Tail(uplink[s])
      PROVE  Hears(s, f)
  <2>1. uplink[s] \in Seq(Returnable)
    BY <1>0
  <2> QED
    BY <1>h, <1>d, <1>4, <2>1, RangeShape
\* A page that answers, and one that does not reach the broker.
<1>5. ASSUME NEW v \in Viewers, NEW m \in Sendable, Handle(v, m), conn' = conn PROVE Hears(s, f)
  <2>1. Replies(v, m) \in Seq(Returnable)
    BY <1>0, HandleTypes
  <2>2. uplink' = [uplink EXCEPT ![SocketOf[v]] =
          IF conn[SocketOf[v]] # "down" THEN uplink[SocketOf[v]] \o Replies(v, m)
          ELSE uplink[SocketOf[v]]]
    BY <1>5 DEF Handle
  <2>3. uplink'[s] \in {uplink[s], uplink[s] \o Replies(v, m)}
    BY <1>0, <2>2
  <2> QED
    BY <1>1, <1>2, <1>5, <2>1, <2>3
<1>7. CASE UNCHANGED <<conn, uplink>>
  BY <1>1, <1>7
<1>8. ASSUME NEW c \in Callers, Agent(c) \/ WindowAgent(c) PROVE Hears(s, f)
  <2>1. CASE \E g \in Frames : RenderInsert(c, g) \/ CloseRemove(c, g) \/ SnapshotRegister(c, g)
    BY <1>7, <2>1 DEF RenderInsert, CloseRemove, SnapshotRegister
  <2>2. CASE RequestTimesOut(c) \/ Broadcast(c) \/ SendRequest(c)
    BY <1>7, <2>2 DEF RequestTimesOut, Broadcast, SendRequest, brokerVars
  <2>3. CASE WindowAgent(c)
    BY <1>7, <2>3 DEF WindowAgent, WindowOpen, WindowClose, ListRegister
  <2> QED
    BY <1>8, <2>1, <2>2, <2>3 DEF Agent
<1>9. ASSUME NEW x \in Sockets, Socket(x) PROVE Hears(s, f)
  <2>1. CASE Join(x)
    <3>1. conn[s] # "down" /\ uplink' = uplink
      BY <1>0, <1>h, <2>1 DEF Join
    <3> QED
      BY <1>h, <1>d, <3>1
  <2>2. CASE ReadAnswer(x) \/ \E g \in Frames : ReadClose(x, g)
    <3>1. uplink[x] # <<>> /\ uplink' = [uplink EXCEPT ![x] = Tail(uplink[x])] /\ conn' = conn
      BY <2>2 DEF ReadAnswer, ReadClose
    <3>2. CASE x # s
      BY <1>0, <1>1, <3>1, <3>2
    <3>3. CASE x = s
      <4>1. Head(uplink[s]) # k
        <5>1. CASE ReadAnswer(x)
          BY <1>k, <3>3, <5>1 DEF ReadAnswer, CloseOf
        <5>2. ASSUME NEW g \in Frames, ReadClose(x, g) PROVE Head(uplink[s]) # k
          <6>1. g # f
            BY <5>2
          <6>2. Head(uplink[s]) = [type |-> "close", frame |-> g]
            BY <3>3, <5>2 DEF ReadClose
          <6> QED
            BY <1>k, <6>1, <6>2 DEF CloseOf
        <5> QED
          BY <2>2, <5>1, <5>2
      <4> QED
        BY <1>0, <1>4, <3>1, <3>3, <4>1
    <3> QED
      BY <3>2, <3>3
  <2> QED
    BY <1>9, <2>1, <2>2 DEF Socket
<1>10. CASE (\E t \in Tabs : TabConnects(t)) \/ DaemonConnects
  <2>1. PICK x \in Sockets : Connect(x)
    BY <1>10, <1>w DEF TabConnects, DaemonConnects
  <2>2. x # s
    BY <2>1
  <2> QED
    BY <1>0, <1>1, <2>1, <2>2 DEF Connect
<1>11. CASE Replays
  <2>1. /\ uplink[Daemon] # <<>> /\ uplink' = [uplink EXCEPT ![Daemon] = Tail(uplink[Daemon])]
        /\ conn' = conn /\ Head(uplink[Daemon]).type = "replay"
    BY <1>11 DEF Replays, ReadReplay
  <2>2. CASE s # Daemon
    BY <1>0, <1>1, <2>1, <2>2
  <2>3. CASE s = Daemon
    <3>1. Head(uplink[s]) # k
      BY <1>k, <2>1, <2>3 DEF CloseOf
    <3> QED
      BY <1>0, <1>4, <2>1, <2>3, <3>1
  <2> QED
    BY <2>2, <2>3
<1>12. ASSUME NEW x \in Sockets, Drops(x) PROVE Hears(s, f)
  <2>1. conn' = [conn EXCEPT ![x] = "down"] /\ uplink' = [uplink EXCEPT ![x] = <<>>]
    BY <1>12 DEF Drops, Drop
  <2>2. x # s
    BY <1>0, <1>h, <2>1
  <2> QED
    BY <1>0, <1>1, <2>1, <2>2
<1>13. ASSUME NEW t \in Tabs, TabHandles(t) PROVE Hears(s, f)
  <2>1. SocketOf[t] \in Sockets /\ t \in Viewers
    BY <1>w
  <2>2. Head(wire[SocketOf[t]]) \in Sendable
    BY <1>0, <1>13, <2>1 DEF TabHandles
  <2> QED
    BY <1>5, <1>13, <2>1, <2>2 DEF TabHandles
<1>14. CASE Bridge
  <2>1. CASE DaemonLists
    <3>1. PICK m : uplink' = [uplink EXCEPT ![Daemon] = Append(@, m)]
      BY <2>1 DEF DaemonLists
    <3>2. uplink'[s] \in {uplink[s], Append(uplink[s], m)} /\ conn' = conn
      BY <1>0, <2>1, <3>1 DEF DaemonLists
    <3> QED
      BY <1>1, <1>3, <3>2
  <2>2. CASE ~DaemonLists
    BY <1>7, <1>14, <2>2 DEF Bridge, DaemonOpens, DaemonCloses, WindowGoes, DaemonEmits,
       DaemonHolds, DaemonBuffers, brokerVars
  <2> QED
    BY <2>1, <2>2
<1>15. ASSUME NEW w \in Windows, Page(w) PROVE Hears(s, f)
  <2>1. CASE PageListens(w) \/ ClientReady(w) \/ TakePending(w)
    BY <1>7, <2>1 DEF PageListens, ClientReady, TakePending, webVars, brokerVars
  <2>2. CASE PageAsksReplay(w)
    <3>1. PICK m : m = [type |-> "replay"]
      OBVIOUS
    <3>2. uplink'[s] \in {uplink[s], Append(uplink[s], m)} /\ conn' = conn
      BY <1>0, <2>2, <3>1 DEF PageAsksReplay
    <3> QED
      BY <1>1, <1>3, <3>2
  <2>3. CASE HandleBacklog(w)
    <3>1. CASE backlog[w] = <<>>
      BY <1>7, <2>3, <3>1 DEF HandleBacklog
    <3>2. CASE backlog[w] # <<>>
      <4>1. Head(backlog[w]) \in Sendable
        BY <1>0, <3>2
      <4> QED
        BY <1>5, <1>w, <2>3, <3>2, <4>1 DEF HandleBacklog
    <3> QED
      BY <3>1, <3>2
  <2>4. CASE HandleEvent(w)
    <3>1. Head(emitted[w]) \in Sendable
      BY <1>0, <2>4 DEF HandleEvent
    <3> QED
      BY <1>5, <1>w, <2>4, <3>1 DEF HandleEvent
  <2> QED
    BY <1>15, <2>1, <2>2, <2>3, <2>4 DEF Page
<1>16. CASE User
  <2>1. ASSUME NEW v \in Viewers, NEW g \in Frames, UserCloses(v, g) PROVE Hears(s, f)
    <3>1. PICK m : m = [type |-> "close", frame |-> g]
      OBVIOUS
    <3>2. uplink'[s] \in {uplink[s], Append(uplink[s], m)} /\ conn' = conn
      BY <1>0, <2>1, <3>1 DEF UserCloses
    <3> QED
      BY <1>1, <1>3, <3>2
  <2>2. CASE \E w \in Windows : UserClosesWindow(w)
    BY <1>7, <2>2 DEF UserClosesWindow
  <2> QED
    BY <1>16, <2>1, <2>2 DEF User
<1>17. ASSUME NEW v \in Viewers, Iframes(v) PROVE Hears(s, f)
  <2>1. conn' = conn
    BY <1>17, IframesStep
  <2>2. CASE \E a \in asked[v] : FrameAnswers(v, a)
    <3>1. PICK m : uplink' = [uplink EXCEPT ![SocketOf[v]] =
                     IF conn[SocketOf[v]] # "down" THEN Append(uplink[SocketOf[v]], m)
                     ELSE uplink[SocketOf[v]]]
      BY <2>2 DEF FrameAnswers
    <3>2. uplink'[s] \in {uplink[s], Append(uplink[s], m)}
      BY <1>0, <3>1
    <3> QED
      BY <1>1, <1>3, <2>1, <3>2
  <2> QED
    BY <1>7, <1>17, <2>1, <2>2, IframesStep
<1> QED
  BY <1>7, <1>8, <1>9, <1>10, <1>11, <1>12, <1>13, <1>14, <1>15, <1>16, <1>17, <1>w
  DEF WindowNext, uiVars, webVars, brokerVars

(***************************************************************************)
(* The steps of InSync.  A page closes the frame: of another page it is    *)
(* promised that it does not show the frame and will not.                  *)
(***************************************************************************)
LEMMA ClosedInSync ==
  ASSUME WebTypes, NEW v \in Viewers, NEW f \in Frames, NEW x \in Sockets, ReadClose(x, f),
         Calm(v, f)'
  PROVE  Agrees(Latest(v, f)', shown'[v][f], store'[f])
<1>0. /\ store \in [Frames -> Nat] /\ wire \in [Sockets -> Seq(Sendable)]
      /\ SocketOf[v] \in Sockets /\ Tabs \cap Windows = {}
  BY WebViewAssumption, WindowAssumption DEF WebTypes, StoreTypes, QueueTypes
<1>1. store'[f] = 0 /\ shown' = shown /\ wire' = wire
  BY <1>0 DEF ReadClose
<1>2. ~MayShow(v, f)
  BY DEF ReadClose, Calm
<1>3. /\ v \in Tabs /\ shown[v][f] = None
      /\ [type |-> "render", frame |-> f] \notin Range(wire[SocketOf[v]])
  BY <1>2 DEF MayShow
<1>4. PICK q \in Seq(Sendable) : q = wire[SocketOf[v]]
  BY <1>0
<1>5. Says(q, f) \in {"none", "close"}
  <2>1. Len(q) \in Nat /\ \A i \in 1 .. Len(q) : q[i] \in Range(q)
    BY DEF Range
  <2>2. \A i \in 1 .. Len(q) : q[i] \in On(f) => q[i].type = "close"
    BY <1>3, <1>4, <2>1 DEF On
  <2> QED
    BY <2>1, <2>2, LastCases DEF Says
<1>6. Latest(v, f)' = Says(q, f)
  BY <1>0, <1>1, <1>3, <1>4, ThenLaws DEF Latest, Inside
<1> QED
  BY <1>1, <1>3, <1>5, <1>6 DEF Agrees

\* A replay says what the store holds of the frames that are open.
LEMMA ReplayedInSync ==
  ASSUME StoreTypes, NEW v \in Viewers, NEW f \in Frames, NEW S, NEW q \in Seq(S),
         Replay \in Seq(S), wire'[SocketOf[v]] = q \o Replay, store' = store, store[f] # 0
  PROVE  Agrees(Latest(v, f)', shown'[v][f], store'[f])
<1>1. Says(Replay, f) = "render"
  BY ReplaySays DEF Says
<1>2. Says(q \o Replay, f) = Then(Says(q, f), Says(Replay, f))
  BY SaysConcat
<1>3. Says(q \o Replay, f) = "render"
  BY <1>1, <1>2 DEF Then
<1>4. PICK r : r = q \o Replay
  OBVIOUS
<1>5. Latest(v, f)' = Then(Inside(v, f)', Says(r, f))
  BY <1>4 DEF Latest
<1>6. Latest(v, f)' = "render"
  BY <1>3, <1>4, <1>5 DEF Then
<1> QED
  BY <1>6 DEF Agrees

\* The page's own socket connects.
LEMMA ConnectInSync ==
  ASSUME WebTypes, DownIsEmpty, NEW v \in Viewers, NEW f \in Frames, f \notin behind'[v],
         (v \in Tabs /\ TabConnects(v)) \/ (v \in Windows /\ DaemonConnects)
  PROVE  Agrees(Latest(v, f)', shown'[v][f], store'[f])
<1>0. /\ store \in [Frames -> Nat] /\ wire \in [Sockets -> Seq(Sendable)] /\ StoreTypes
      /\ behind \in [Viewers -> SUBSET Frames]
      /\ SocketOf[v] \in Sockets /\ Tabs \cap Windows = {}
  BY WebViewAssumption, WindowAssumption DEF WebTypes, PageTypes, StoreTypes, QueueTypes
<1>1. PICK s \in Sockets : s = SocketOf[v]
  BY <1>0
<1>q. PICK q : q = Replay
  OBVIOUS
<1>2. wire'[s] = q /\ store' = store /\ shown' = shown
  <2>1. CASE v \in Tabs /\ TabConnects(v)
    BY <1>0, <1>1, <1>q, <2>1 DEF TabConnects, Connect, Opening
  <2>2. CASE v \in Windows /\ DaemonConnects
    <3>1. s = Daemon
      BY <1>1, <1>q, <2>2, WindowAssumption
    <3> QED
      BY <1>0, <1>1, <1>q, <2>2, <3>1 DEF DaemonConnects, Connect, Opening
  <2> QED
    BY <2>1, <2>2
<1>3. q \in Seq(Sendable)
  BY <1>0, <1>1, <1>q, ReplayIsSendable
<1>4. CASE store[f] # 0
  <2>1. <<>> \in Seq(Sendable) /\ <<>> \o q = q
    BY <1>3
  <2> QED
    BY <1>0, <1>1, <1>q, <1>2, <1>3, <1>4, <2>1, ReplayedInSync
<1>5. CASE store[f] = 0
  <2>1. v \in Tabs /\ ~MayShow(v, f)
    BY <1>0, <1>5 DEF TabConnects, DaemonConnects, Resent
  <2>2. shown'[v][f] = None
    BY <1>2, <2>1 DEF MayShow
  <2>4. Says(q, f) = "none"
    BY <1>0, <1>1, <1>q, <1>5, ReplaySays DEF Says
  <2>5. Latest(v, f)' = Says(q, f)
    BY <1>0, <1>1, <1>q, <1>2, <2>1, ThenLaws DEF Latest, Inside
  <2> QED
    BY <1>2, <1>5, <2>2, <2>4, <2>5 DEF Agrees
<1> QED
  BY <1>4, <1>5

\* The steps of agents and of the broker.
LEMMA BrokerInSync ==
  ASSUME WebTypes, AloneIsLast, [WindowNext]_uiVars, NEW v \in Viewers, NEW f \in Frames,
         InSync(v, f), Calm(v, f)', Hears(SocketOf[v], f), ~Bridging, ~User,
         ~\E t \in Tabs : TabHandles(t) /\ UNCHANGED windowVars,
         ~\E u \in Viewers : Iframes(u) /\ UNCHANGED windowVars,
         ~\E x \in Sockets : ReadClose(x, f)
  PROVE  Agrees(Latest(v, f)', shown'[v][f], store'[f])
<1>0. /\ conn \in [Sockets -> {"down", "joining", "up"}]
      /\ wire \in [Sockets -> Seq(Sendable)] /\ uplink \in [Sockets -> Seq(Returnable)]
      /\ behind \in [Viewers -> SUBSET Frames]
      /\ CallTypes /\ StoreTypes
  BY DEF WebTypes, PageTypes, QueueTypes
<1>w. /\ Tabs \cap Windows = {} /\ Viewers = Tabs \cup Windows
      /\ SocketOf \in [Viewers -> Sockets]
      /\ Openers \subseteq Callers /\ Daemon \in Sockets
      /\ \A u \in Viewers : SocketOf[u] = Daemon <=> u \in Windows
      /\ \A t, u \in Tabs : SocketOf[t] = SocketOf[u] => t = u
  BY WebViewAssumption, WindowAssumption
<1>s. PICK s \in Sockets : s = SocketOf[v]
  BY <1>w
<1>d. PICK in : in = Inside(v, f)
  OBVIOUS
<1>u. UNCHANGED <<stage, asking, ready, pending, holding, emitted, backlog>>
  BY OthersLeaveWindows
<1>i. Inside(v, f)' = in
  BY <1>u, <1>s, <1>d DEF Inside, First
<1>c. /\ f \notin behind'[v] /\ Changing(f)' = {}
      /\ v \in Windows /\ ready => Says(holding, f) = "none"
      /\ conn[s] # "down" /\ Hears(s, f)
  BY <1>u, <1>s, <1>d DEF Calm, Hears
<1>l. Latest(v, f) = Then(in, Says(wire[s], f)) /\ Latest(v, f)' = Then(in, Says(wire'[s], f))
  BY <1>i, <1>s, <1>d DEF Latest
<1>q. ASSUME f \notin behind[v], Changing(f) = {}, Says(wire'[s], f) = Says(wire[s], f),
             shown' = shown, store'[f] = store[f]
      PROVE  Agrees(Latest(v, f)', shown'[v][f], store'[f])
  <2>1. Calm(v, f)
    BY <1>c, <1>q, <1>s, <1>d DEF Calm
  <2>2. Agrees(Latest(v, f), shown[v][f], store[f])
    BY <2>1 DEF InSync
  <2> QED
    BY <1>l, <1>q, <2>2
\* A message for others.
<1>a. ASSUME NEW m, m \notin On(f), wire' = ToAll(m)
      PROVE  Says(wire'[s], f) = Says(wire[s], f)
  <2>1. wire'[s] = wire[s] \/ wire'[s] = Append(wire[s], m)
    BY <1>0, <1>a DEF ToAll
  <2>2. wire[s] \in Seq(Sendable)
    BY <1>0
  <2>3. Says(Append(wire[s], m), f) = Then(Says(wire[s], f), Of(m, On(f)))
    BY <2>2, SaysAppend
  <2>4. Of(m, On(f)) = "none"
    BY <1>a DEF Of
  <2> QED
    BY <2>1, <2>3, <2>4, ThenLaws
<1>1. ASSUME NEW c \in Callers, NEW g \in Frames, RenderInsert(c, g) \/ CloseRemove(c, g)
      PROVE  Agrees(Latest(v, f)', shown'[v][f], store'[f])
  <2>1. /\ Changing(g)' = Changing(g) \cup {c}
        /\ \A h : h # g => Changing(h)' = Changing(h)
        /\ \A h \in Frames : h # g => store'[h] = store[h]
    BY <1>0, <1>1, ChangeBeginsStep
  <2>2. f # g
    BY <1>c, <2>1
  <2> QED
    BY <1>c, <1>q, <1>1, <2>1, <2>2 DEF RenderInsert, CloseRemove
<1>2. ASSUME NEW c \in Callers, Broadcast(c)
      PROVE  Agrees(Latest(v, f)', shown'[v][f], store'[f])
  <2>1. PICK g : g = call[c].frame
    OBVIOUS
  <2>2. /\ call[c] \in ChangeCall /\ g \in Frames /\ c \in Changing(g) /\ store' = store
        /\ \A h : h # g => Changing(h)' = Changing(h)
    BY <1>0, <1>2, <2>1, ChangeEndsStep
  <2>3. PICK m : m = [type |-> call[c].op, frame |-> g]
    OBVIOUS
  <2>4. /\ wire' = ToAll(m) /\ shown' = shown
        /\ behind' = [u \in Viewers |->
             IF call[c].alone /\ SocketOf[u] \in Up THEN behind[u] \ {g} ELSE behind[u] \cup {g}]
    BY <1>2, <2>1, <2>3 DEF Broadcast
  <2>5. CASE g # f
    <3>1. m \notin On(f)
      BY <2>3, <2>5 DEF On
    <3>2. f \notin behind[v]
      BY <1>c, <2>4, <2>5
    <3>3. Says(wire'[s], f) = Says(wire[s], f)
      BY <1>a, <2>4, <3>1
    <3>4. Changing(f) = {}
      BY <1>c, <2>2, <2>5
    <3> QED
      BY <1>q, <2>2, <2>4, <3>2, <3>3, <3>4
  <2>6. CASE g = f
    <3>1. call[c].alone /\ s \in Up
      BY <1>c, <1>s, <1>d, <2>4, <2>6
    <3>2. wire'[s] = Append(wire[s], m) /\ wire[s] \in Seq(Sendable)
      BY <1>0, <2>4, <3>1 DEF ToAll
    <3>3. call[c].op \in {"render", "close"}
      BY <2>2 DEF ChangeCall
    <3>4. Of(m, On(f)) = call[c].op
      BY <2>3, <2>6, <3>3 DEF On, Of
    <3>5. Says(wire'[s], f) = Then(Says(wire[s], f), call[c].op)
      BY <3>2, <3>4, SaysAppend
    <3>6. Latest(v, f)' = call[c].op
      BY <1>l, <3>3, <3>5 DEF Then
    <3>7. call[c].op = "render" <=> store[f] # 0
      BY <2>1, <2>6, <3>1, <3>3 DEF AloneIsLast
    <3> QED
      BY <2>2, <3>3, <3>6, <3>7 DEF Agrees
  <2> QED
    BY <2>5, <2>6
\* What changes neither frames nor changes under way.
<1>3. ASSUME ~ChangeBegins, ~ChangeEnds, ~PageCloses, f \notin behind[v], shown' = shown,
             Says(wire'[s], f) = Says(wire[s], f)
      PROVE  Agrees(Latest(v, f)', shown'[v][f], store'[f])
  <2>1. store' = store /\ Changing(f)' = Changing(f)
    BY <1>0, <1>3, OthersLeaveChanges DEF Disturbs
  <2> QED
    BY <1>c, <1>q, <1>3, <2>1
<1>4. CASE PageCloses
  <2>1. PICK x \in Sockets, g \in Frames : ReadClose(x, g)
    BY <1>4 DEF PageCloses
  <2>2. g # f
    BY <2>1
  <2>3. (\A h \in Frames : h # g => store'[h] = store[h]) /\ \A h : Changing(h)' = Changing(h)
    BY <1>0, <2>1, PageClosesStep
  <2>4. /\ wire' = wire /\ shown' = shown
        /\ behind' = [u \in Viewers |-> IF MayShow(u, g) THEN behind[u] \cup {g} ELSE behind[u]]
    BY <2>1 DEF ReadClose
  <2>5. f \notin behind[v]
    BY <1>c, <2>2, <2>4
  <2> QED
    BY <1>c, <1>q, <2>2, <2>3, <2>4, <2>5
<1>5. CASE ChangeBegins
  BY <1>1, <1>5 DEF ChangeBegins
<1>6. CASE ChangeEnds
  BY <1>2, <1>6 DEF ChangeEnds
<1>7. ASSUME ~ChangeBegins, ~ChangeEnds, ~PageCloses
      PROVE  Agrees(Latest(v, f)', shown'[v][f], store'[f])
  <2>0. CASE UNCHANGED <<wire, shown, behind>>
    BY <1>3, <1>c, <1>7, <2>0
  <2>1. ASSUME NEW c \in Callers, Agent(c) PROVE Agrees(Latest(v, f)', shown'[v][f], store'[f])
    <3>1. CASE RequestTimesOut(c) \/ \E g \in Frames : SnapshotRegister(c, g)
      BY <2>0, <3>1 DEF RequestTimesOut, SnapshotRegister, brokerVars
    <3>2. CASE SendRequest(c)
      <4>1. PICK m : m = Request(c)
        OBVIOUS
      <4>2. m.type \in {"snapshot", "list"}
        BY <1>0, <3>2, <4>1, RequestShape DEF SendRequest, Asking
      <4>3. m \notin On(f)
        BY <4>2 DEF On
      <4>4. wire' = ToAll(m) /\ UNCHANGED <<shown, behind>>
        BY <3>2, <4>1 DEF SendRequest
      <4> QED
        BY <1>3, <1>a, <1>c, <1>7, <4>3, <4>4
    <3> QED
      BY <1>7, <2>1, <3>1, <3>2 DEF Agent, ChangeBegins, ChangeEnds
  <2>2. ASSUME NEW c \in Callers, WindowAgent(c)
        PROVE  Agrees(Latest(v, f)', shown'[v][f], store'[f])
    <3>1. CASE ListRegister(c)
      BY <2>0, <3>1 DEF ListRegister
    <3>2. ASSUME NEW w \in Windows, WindowOpen(c, w) \/ WindowClose(c, w)
          PROVE  Agrees(Latest(v, f)', shown'[v][f], store'[f])
      <4>1. PICK m \in Labelled(w) : wire' = ToAll(m)
        BY <3>2 DEF WindowOpen, WindowClose, Labelled
      <4>2. m \notin On(f)
        BY <4>1 DEF On, Labelled
      <4>3. UNCHANGED <<shown, behind>>
        BY <3>2 DEF WindowOpen, WindowClose
      <4> QED
        BY <1>3, <1>a, <1>c, <1>7, <4>1, <4>2, <4>3
    <3> QED
      BY <2>2, <3>1, <3>2 DEF WindowAgent
  <2>3. ASSUME NEW x \in Sockets, Socket(x) PROVE Agrees(Latest(v, f)', shown'[v][f], store'[f])
    BY <2>0, <1>7, <2>3 DEF Socket, Join, ReadAnswer, PageCloses
  \* Another socket connects.
  <2>4. CASE (\E t \in Tabs : TabConnects(t)) \/ DaemonConnects
    <3>1. PICK x \in Sockets : /\ conn[x] = "down" /\ \A y \in Sockets \ {x} : wire'[y] = wire[y]
                               /\ shown' = shown
      BY <1>0, <1>w, <2>4 DEF TabConnects, DaemonConnects, Connect
    <3>2. wire'[s] = wire[s] /\ shown' = shown
      BY <1>c, <3>1
    <3>3. behind'[v] = behind[v]
      <4>1. ASSUME NEW t \in Tabs, TabConnects(t) PROVE behind'[v] = behind[v]
        <5>1. v # t
          BY <1>c, <1>s, <1>d, <4>1 DEF TabConnects, Connect
        <5> QED
          BY <1>0, <4>1, <5>1 DEF TabConnects
      <4>2. CASE DaemonConnects
        <5>1. v \notin Windows
          BY <1>c, <1>s, <1>d, <1>w, <4>2 DEF DaemonConnects, Connect
        <5> QED
          BY <4>2, <5>1 DEF DaemonConnects, Resent
      <4> QED
        BY <2>4, <4>1, <4>2
    <3> QED
      BY <1>3, <1>c, <1>7, <3>2, <3>3
  <2>5. CASE Replays
    <3>1. wire' = [wire EXCEPT ![Daemon] = @ \o Replay] /\ shown' = shown /\ store' = store
            /\ behind' = Resent
      BY <2>5 DEF Replays, ReadReplay
    <3>2. CASE v \notin Windows
      <4>1. wire'[s] = wire[s] /\ behind'[v] = behind[v]
        BY <1>0, <1>s, <1>d, <1>w, <3>1, <3>2 DEF Resent
      <4> QED
        BY <1>3, <1>c, <1>7, <3>1, <4>1
    <3>3. CASE v \in Windows
      <4>1. s = Daemon /\ store[f] # 0
        BY <1>c, <1>s, <1>d, <1>w, <3>1, <3>3 DEF Resent
      <4>2. wire'[s] = wire[s] \o Replay /\ wire[s] \in Seq(Sendable)
        BY <1>0, <3>1, <4>1
      <4>3. Replay \in Seq(Sendable)
        BY <1>0, ReplayIsSendable
      <4> QED
        BY <1>0, <1>s, <1>d, <3>1, <4>1, <4>2, <4>3, ReplayedInSync
    <3> QED
      BY <3>2, <3>3
  <2>6. ASSUME NEW x \in Sockets, Drops(x) PROVE Agrees(Latest(v, f)', shown'[v][f], store'[f])
    <3>1. x # s
      BY <1>0, <1>s, <1>d, <2>6 DEF Calm, Hears, Drops, Drop
    <3>2. wire'[s] = wire[s] /\ UNCHANGED <<shown, behind>>
      BY <1>0, <2>6, <3>1 DEF Drops, Drop
    <3> QED
      BY <1>3, <1>c, <1>7, <3>2
  <2>7. CASE UNCHANGED uiVars
    BY <2>0, <2>7 DEF uiVars, webVars, brokerVars
  <2> QED
    BY <1>w, <2>1, <2>2, <2>3, <2>4, <2>5, <2>6, <2>7 DEF WindowNext, Bridging
<1> QED
  BY <1>4, <1>5, <1>6, <1>7

\* A tab handles a message.
LEMMA TabInSync ==
  ASSUME WebTypes, NEW v \in Viewers, NEW f \in Frames, InSync(v, f), Calm(v, f)',
         Hears(SocketOf[v], f), NEW t \in Tabs, TabHandles(t), UNCHANGED windowVars
  PROVE  Agrees(Latest(v, f)', shown'[v][f], store'[f])
<1>0. /\ wire \in [Sockets -> Seq(Sendable)]
      /\ CallTypes /\ StoreTypes /\ PageTypes
      /\ Tabs \cap Windows = {} /\ t \in Viewers
      /\ SocketOf \in [Viewers -> Sockets]
      /\ \A u \in Viewers : SocketOf[u] = SocketOf[t] => u = t
  BY WebViewAssumption, WindowAssumption DEF WebTypes, PageTypes, QueueTypes
<1>s. PICK s \in Sockets : s = SocketOf[v]
  BY <1>0
<1>d. PICK in : in = Inside(v, f)
  OBVIOUS
<1>i. Inside(v, f)' = in
  BY <1>s, <1>d DEF Inside, First, windowVars
<1>l. Latest(v, f) = Then(in, Says(wire[s], f)) /\ Latest(v, f)' = Then(in, Says(wire'[s], f))
  BY <1>i, <1>s, <1>d DEF Latest
<1>1. store' = store /\ Agrees(Then(in, Says(wire[s], f)), shown[v][f], store[f])
  <2>1. UNCHANGED <<store, call, behind>>
    BY DEF TabHandles
  <2>2. Calm(v, f)
    BY <2>1 DEF Calm, Changing, windowVars
  <2> QED
    BY <1>l, <2>1, <2>2 DEF InSync
<1>m. PICK m \in Sendable : /\ m = Head(wire[SocketOf[t]]) /\ Handle(t, m)
                            /\ wire[SocketOf[t]] # <<>>
                            /\ wire' = [wire EXCEPT ![SocketOf[t]] = Tail(wire[SocketOf[t]])]
  BY <1>0 DEF TabHandles
<1>2. CASE v # t
  <2>1. wire'[s] = wire[s]
    BY <1>0, <1>s, <1>d, <1>m, <1>2
  <2>2. shown'[v] = shown[v]
    BY <1>0, <1>m, <1>2, HandleStep
  <2> QED
    BY <1>1, <1>l, <2>1, <2>2
<1>3. CASE v = t
  <2>1. wire[s] \in Seq(Sendable) /\ wire[s] # <<>> /\ m = Head(wire[s]) /\ wire'[s] = Tail(wire[s])
    BY <1>0, <1>s, <1>d, <1>m, <1>3
  <2>2. Says(wire[s], f) = Then(Of(m, On(f)), Says(wire'[s], f))
    BY <2>1, SaysTail
  <2>3. in = "none"
    BY <1>0, <1>s, <1>d, <1>3 DEF Inside
  <2>4. /\ m = [type |-> "render", frame |-> f] => shown'[v][f] = store[f]
        /\ m = [type |-> "close", frame |-> f] => shown'[v][f] = None
        /\ m \notin On(f) => shown'[v][f] = shown[v][f]
    BY <1>0, <1>m, <1>3, HandleStep
  <2>5. PICK o, last :
          /\ o \in {"none", "render", "close"}
          /\ o = Of(m, On(f)) /\ last = Says(wire'[s], f)
    BY OfShape
  <2>6. Agrees(Then(o, last), shown[v][f], store[f])
    BY <1>1, <2>2, <2>3, <2>5, ThenLaws
  <2>7. /\ o = "render" => shown'[v][f] = store[f]
        /\ o = "close" => shown'[v][f] = None
        /\ o = "none" => shown'[v][f] = shown[v][f]
    BY <2>4, <2>5, OfShape DEF CloseOf
  <2>8. Agrees(last, shown'[v][f], store[f])
    BY <2>5, <2>6, <2>7, Consumed
  <2> QED
    BY <1>1, <1>l, <2>3, <2>5, <2>8, ThenLaws
<1> QED
  BY <1>2, <1>3

\* A user closes a frame: its page says so to the broker, or has no connection.
LEMMA UserInSync ==
  ASSUME WebTypes, NEW v \in Viewers, NEW f \in Frames, InSync(v, f), Calm(v, f)',
         Hears(SocketOf[v], f), NEW u \in Viewers, NEW g \in Frames, UserCloses(u, g),
         UNCHANGED windowVars
  PROVE  Agrees(Latest(v, f)', shown'[v][f], store'[f])
<1>0. /\ shown \in [Viewers -> [Frames -> Version]]
      /\ uplink \in [Sockets -> Seq(Returnable)]
      /\ SocketOf \in [Viewers -> Sockets]
  BY WebViewAssumption DEF WebTypes, PageTypes, QueueTypes
<1>1. UNCHANGED <<store, conn, wire, call, behind>> /\ shown' = [shown EXCEPT ![u][g] = None]
  BY DEF UserCloses
<1>2. Calm(v, f)
  BY <1>1 DEF Calm, Changing, windowVars
<1>3. Latest(v, f)' = Latest(v, f)
  BY <1>1 DEF Latest, Inside, First, windowVars
<1>4. ~(u = v /\ g = f)
  <2> SUFFICES ASSUME u = v, g = f PROVE FALSE
    OBVIOUS
  <2>1. PICK s \in Sockets : s = SocketOf[v]
    BY <1>0
  <2>m. PICK m : m = CloseOf(f)
    OBVIOUS
  <2>2. conn[s] # "down" /\ uplink[s] \in Seq(Returnable)
    BY <1>0, <2>1, <2>m DEF Hears
  <2>3. uplink'[s] = Append(uplink[s], m)
    BY <1>0, <2>1, <2>m, <2>2 DEF UserCloses, CloseOf
  <2>4. Append(uplink[s], m)[Len(uplink[s]) + 1] = m
          /\ Len(uplink[s]) + 1 \in DOMAIN Append(uplink[s], m)
    BY <2>2
  <2>5. m \in Range(uplink'[s])
    BY <2>3, <2>4 DEF Range
  <2>6. CloseOf(f) \notin Range(uplink'[s])
    BY <2>1, <2>m DEF Calm, Hears, CloseOf
  <2> QED
    BY <2>1, <2>m, <2>5, <2>6
<1>5. shown'[v][f] = shown[v][f]
  BY <1>0, <1>1, <1>4
<1> QED
  BY <1>1, <1>2, <1>3, <1>5 DEF InSync

\* An iframe goes on: it fetches what the store holds.
LEMMA IframeInSync ==
  ASSUME WebTypes, NEW v \in Viewers, NEW f \in Frames, InSync(v, f), Calm(v, f)',
         Hears(SocketOf[v], f), NEW u \in Viewers, Iframes(u), UNCHANGED windowVars
  PROVE  Agrees(Latest(v, f)', shown'[v][f], store'[f])
<1>0. /\ shown \in [Viewers -> [Frames -> Version]]
      /\ \A x \in Viewers, g \in Frames : g \in loading[x] => shown[x][g] # None
  BY DEF WebTypes, PageTypes, FrameTypes
<1>1. UNCHANGED <<store, conn, wire, call, behind>>
  BY IframesStep
<1>2. Calm(v, f)
  BY <1>1 DEF Calm, Changing, windowVars
<1>3. Latest(v, f)' = Latest(v, f)
  BY <1>1 DEF Latest, Inside, First, windowVars
<1>4. Agrees(Latest(v, f), shown[v][f], store[f])
  BY <1>2 DEF InSync
<1>5. shown'[v][f] = shown[v][f] \/ (shown[v][f] # None /\ shown'[v][f] = store[f])
  <2>1. ASSUME NEW g \in Frames, FrameFetches(u, g)
        PROVE  shown'[v][f] = shown[v][f] \/ (shown[v][f] # None /\ shown'[v][f] = store[f])
    BY <1>0, <2>1 DEF FrameFetches
  <2> QED
    BY <2>1 DEF Iframes, FrameLoads, FrameAnswers
<1> QED
  BY <1>1, <1>3, <1>4, <1>5 DEF Agrees

(***************************************************************************)
(* The steps of the daemon.  It passes a message on from one queue of a    *)
(* window to the next older one, or to none: then the window is behind.    *)
(***************************************************************************)
LEMMA BridgeInSync ==
  ASSUME WebTypes, Bufs, NEW v \in Viewers, NEW f \in Frames, InSync(v, f), Calm(v, f)',
         Hears(SocketOf[v], f), Bridge
  PROVE  Agrees(Latest(v, f)', shown'[v][f], store'[f])
<1>0. /\ wire \in [Sockets -> Seq(Sendable)]
      /\ shown \in [Viewers -> [Frames -> Version]]
      /\ behind \in [Viewers -> SUBSET Frames]
      /\ stage \in [Windows -> Stages] /\ ready \in BOOLEAN
      /\ pending \in Seq(Sendable) /\ holding \in Seq(Sendable)
      /\ emitted \in [Windows -> Seq(Sendable)] /\ backlog \in [Windows -> Seq(Sendable)]
      /\ Sendable \in SUBSET Message
  BY DEF WebTypes, PageTypes, QueueTypes, Sendable
<1>w. /\ Tabs \cap Windows = {} /\ Viewers = Tabs \cup Windows
      /\ SocketOf \in [Viewers -> Sockets] /\ Daemon \in Sockets
      /\ \A u \in Viewers : SocketOf[u] = Daemon <=> u \in Windows
  BY WebViewAssumption, WindowAssumption
<1>s. PICK s \in Sockets : s = SocketOf[v] /\ (s = Daemon <=> v \in Windows)
  BY <1>w
<1>l. Latest(v, f) = Then(Inside(v, f), Says(wire[s], f))
        /\ Latest(v, f)' = Then(Inside(v, f)', Says(wire'[s], f))
  BY <1>s DEF Latest
<1>c. /\ f \notin behind'[v] /\ Changing(f)' = {}
      /\ v \in Windows /\ ready' => Says(holding', f) = "none"
  BY DEF Calm
<1>u. UNCHANGED <<store, call>> /\ ready' = ready
  BY DEF Bridge, DaemonOpens, DaemonCloses, WindowGoes, DaemonLists, DaemonEmits, DaemonHolds, DaemonBuffers,
     brokerVars, windowVars
<1>g. Changing(f) = {}
  BY <1>c, <1>u DEF Changing
\* It is enough that the messages are the same.
<1>q. ASSUME f \notin behind[v], v \in Windows /\ ready => Says(holding, f) = "none",
             Latest(v, f)' = Latest(v, f), shown'[v][f] = shown[v][f]
      PROVE  Agrees(Latest(v, f)', shown'[v][f], store'[f])
  <2>1. Calm(v, f)
    BY <1>g, <1>q DEF Calm
  <2> QED
    BY <1>q, <1>u, <2>1 DEF InSync
\* What the daemon takes from its socket.
<1>m. ASSUME NEW m, Incoming(m)
      PROVE  /\ wire[Daemon] \in Seq(Sendable) /\ m \in Sendable /\ holding = <<>>
             /\ Says(wire[Daemon], f) = Then(Of(m, On(f)), Says(wire'[Daemon], f))
             /\ s # Daemon => wire'[s] = wire[s]
  <2>1. /\ wire[Daemon] \in Seq(Sendable) /\ wire[Daemon] # <<>> /\ m = Head(wire[Daemon])
        /\ holding = <<>> /\ wire' = [wire EXCEPT ![Daemon] = Tail(wire[Daemon])]
    BY <1>0, <1>w, <1>m DEF Incoming
  <2>2. m \in Sendable /\ wire'[Daemon] = Tail(wire[Daemon]) /\ (s # Daemon => wire'[s] = wire[s])
    BY <1>0, <1>w, <2>1
  <2>3. Says(wire[Daemon], f) = Then(Of(m, On(f)), Says(Tail(wire[Daemon]), f))
    BY <2>1, SaysTail
  <2> QED
    BY <2>1, <2>2, <2>3
\* A message that the daemon keeps for itself.
<1>k. ASSUME NEW m, Incoming(m), m.type \notin {"render", "close"},
             Inside(v, f)' = Inside(v, f), f \notin behind[v], shown'[v][f] = shown[v][f]
      PROVE  Agrees(Latest(v, f)', shown'[v][f], store'[f])
  <2>1. Of(m, On(f)) = "none"
    BY <1>k DEF Of, On
  <2>2. Says(wire'[s], f) = Says(wire[s], f)
    BY <1>k, <1>m, <2>1, ThenLaws
  <2>3. Says(holding, f) = "none"
    BY <1>k, <1>m, SaysNothing
  <2> QED
    BY <1>k, <1>l, <1>q, <2>2, <2>3
<1>1. ASSUME NEW w \in Windows, Blank(w), UNCHANGED <<pending, holding>>,
             \A x \in Windows \ {w} : stage'[x] = stage[x]
      PROVE  Inside(v, f)' = Inside(v, f) /\ f \notin behind[v] /\ shown'[v][f] = shown[v][f]
  <2>1. v # w
    BY <1>0, <1>c, <1>1, <1>w DEF Blank
  <2>2. behind'[v] = behind[v] /\ shown'[v] = shown[v]
    BY <1>0, <1>1, <2>1 DEF Blank
  <2>3. v \in Windows =>
          emitted'[v] = emitted[v] /\ backlog'[v] = backlog[v] /\ stage'[v] = stage[v]
    BY <1>0, <1>1, <2>1 DEF Blank
  <2> QED
    BY <1>1, <1>c, <1>u, <2>2, <2>3 DEF Inside, First
<1>2. ASSUME NEW w \in Windows, DaemonOpens(w)
      PROVE  Agrees(Latest(v, f)', shown'[v][f], store'[f])
  <2>0. PICK m : m = [type |-> "open", label |-> w]
    OBVIOUS
  <2>1. Incoming(m) /\ m.type = "open" /\ UNCHANGED <<pending, holding>>
    BY <1>2, <2>0 DEF DaemonOpens
  <2>2. CASE ~Blank(w)
    <3>1. UNCHANGED <<stage, shown, behind, emitted, backlog>>
      BY <1>2, <2>2 DEF DaemonOpens
    <3>2. Inside(v, f)' = Inside(v, f)
      BY <1>u, <2>1, <3>1 DEF Inside, First
    <3> QED
      BY <1>c, <1>k, <2>1, <3>1, <3>2
  <2>3. CASE Blank(w)
    <3>1. stage' = [stage EXCEPT ![w] = "loading"] \/ stage' = stage
      BY <1>2, <2>3 DEF DaemonOpens
    <3>2. \A x \in Windows \ {w} : stage'[x] = stage[x]
      BY <1>0, <3>1
    <3> QED
      BY <1>1, <1>k, <2>1, <2>3, <3>2
  <2> QED
    BY <2>2, <2>3
<1>3. ASSUME NEW w \in Windows, DaemonCloses(w)
      PROVE  Agrees(Latest(v, f)', shown'[v][f], store'[f])
  <2>0. PICK m : m = [type |-> "shut", label |-> w]
    OBVIOUS
  <2>1. Incoming(m) /\ m.type = "shut" /\ UNCHANGED <<pending, holding>>
    BY <1>3, <2>0 DEF DaemonCloses
  <2>2. UNCHANGED <<stage, shown, behind, emitted, backlog, pending, holding>>
    BY <1>3 DEF DaemonCloses
  <2>3. Inside(v, f)' = Inside(v, f)
    BY <1>u, <2>2 DEF Inside, First
  <2> QED
    BY <1>c, <1>k, <2>1, <2>2, <2>3
<1>g1. ASSUME NEW w \in Windows, WindowGoes(w)
       PROVE  Agrees(Latest(v, f)', shown'[v][f], store'[f])
  <2>1. Blank(w) /\ UNCHANGED <<wire, pending, holding>>
    BY <1>g1 DEF WindowGoes, brokerVars
  <2>2. \A x \in Windows \ {w} : stage'[x] = stage[x]
    BY <1>0, <1>g1 DEF WindowGoes
  <2>3. Inside(v, f)' = Inside(v, f) /\ f \notin behind[v] /\ shown'[v][f] = shown[v][f]
    BY <1>1, <2>1, <2>2
  <2>4. Latest(v, f)' = Latest(v, f)
    BY <1>l, <2>1, <2>3
  <2> QED
    BY <1>c, <1>q, <1>u, <2>1, <2>3, <2>4
<1>4. CASE DaemonLists
  <2>1. PICK id, m : m = [type |-> "list", id |-> id] /\ Incoming(m)
    BY <1>4 DEF DaemonLists
  <2>2. UNCHANGED <<stage, shown, behind, emitted, backlog, pending, holding>>
    BY <1>4 DEF DaemonLists, windowVars
  <2>3. Inside(v, f)' = Inside(v, f)
    BY <1>u, <2>2 DEF Inside, First
  <2> QED
    BY <1>c, <1>k, <2>1, <2>2, <2>3
<1>5. CASE DaemonEmits
  <2>1. PICK m : /\ Incoming(m)
                 /\ emitted' = [w \in Windows |->
                      IF w \in Listening THEN Append(emitted[w], m) ELSE emitted[w]]
                 /\ behind' = [u \in Viewers |->
                      IF u \in Windows \ Listening THEN behind[u] \cup FramesOf(<<m>>)
                      ELSE behind[u]]
    BY <1>5 DEF DaemonEmits
  <2>2. /\ m \in Sendable /\ holding = <<>>
        /\ Says(wire[Daemon], f) = Then(Of(m, On(f)), Says(wire'[Daemon], f))
        /\ s # Daemon => wire'[s] = wire[s]
    BY <1>m, <2>1
  <2>3. UNCHANGED <<shown, stage, pending, holding, backlog>> /\ ready
    BY <1>5 DEF DaemonEmits
  <2>4. f \notin behind[v]
    BY <1>c, <2>1
  <2>5. CASE v \notin Windows
    <3>1. Latest(v, f)' = Latest(v, f)
      BY <1>l, <1>s, <2>2, <2>5 DEF Inside
    <3> QED
      BY <1>q, <2>3, <2>4, <2>5, <3>1
  <2>6. CASE v \in Windows /\ v \in Listening
    <3>1. emitted'[v] = Append(emitted[v], m) /\ emitted[v] \in Seq(Sendable)
      BY <1>0, <2>1, <2>6
    <3>2. Says(emitted'[v], f) = Then(Says(emitted[v], f), Of(m, On(f)))
      BY <3>1, SaysAppend
    <3>3. PICK a, e, e2, o, x, x2 :
            /\ a = Then(Says(First(v), f), "none")
            /\ e = Says(emitted[v], f) /\ e2 = Says(emitted'[v], f)
            /\ o = Of(m, On(f)) /\ x = Says(wire[s], f) /\ x2 = Says(wire'[s], f)
      OBVIOUS
    <3>4. Inside(v, f) = Then(a, e) /\ Inside(v, f)' = Then(a, e2)
      BY <1>u, <2>3, <2>6, <3>3 DEF Inside, First
    <3>5. e2 = Then(e, o) /\ x = Then(o, x2)
      BY <1>s, <2>2, <2>6, <3>2, <3>3
    <3>6. Latest(v, f)' = Latest(v, f)
      BY <1>l, <3>3, <3>4, <3>5, ThenLaws
    <3> QED
      BY <1>q, <2>2, <2>3, <2>4, <3>6, SaysNothing
  <2>7. CASE v \in Windows /\ v \notin Listening
    <3>1. <<m>> \in Seq(Sendable) /\ f \notin FramesOf(<<m>>)
      BY <1>c, <2>1, <2>2, <2>7
    <3>2. Says(<<m>>, f) = "none"
      BY <1>0, <3>1, FramesShape DEF Says
    <3>3. Of(m, On(f)) = "none"
      BY <3>2, SaysOne
    <3>4. Says(wire'[s], f) = Says(wire[s], f) /\ emitted'[v] = emitted[v]
      BY <1>s, <2>1, <2>2, <2>7, <3>3, ThenLaws
    <3>5. Inside(v, f)' = Inside(v, f)
      BY <1>u, <2>3, <3>4 DEF Inside, First
    <3> QED
      BY <1>l, <1>q, <2>2, <2>3, <2>4, <3>4, <3>5, SaysNothing
  <2> QED
    BY <2>5, <2>6, <2>7
<1>6. CASE DaemonHolds
  <2>1. PICK m : Incoming(m) /\ holding' = <<m>>
    BY <1>6 DEF DaemonHolds
  <2>2. /\ m \in Sendable /\ holding = <<>>
        /\ Says(wire[Daemon], f) = Then(Of(m, On(f)), Says(wire'[Daemon], f))
        /\ s # Daemon => wire'[s] = wire[s]
    BY <1>m, <2>1
  <2>3. UNCHANGED <<shown, stage, pending, emitted, backlog, behind>> /\ ~ready
    BY <1>6 DEF DaemonHolds
  <2>5. CASE v \notin Windows
    <3>1. Latest(v, f)' = Latest(v, f)
      BY <1>l, <1>s, <2>2, <2>5 DEF Inside
    <3> QED
      BY <1>c, <1>q, <2>3, <2>5, <3>1
  <2>6. CASE v \in Windows
    <3>1. emitted[v] = <<>>
      BY <2>3, <2>6 DEF Bufs, NotReady
    <3>2. Says(emitted[v], f) = "none" /\ Says(holding, f) = "none"
            /\ Says(holding', f) = Of(m, On(f))
      BY <2>1, <2>2, <3>1, SaysNothing, SaysOne
    <3>3. PICK a, o, x, x2 : /\ a = Says(First(v), f) /\ o = Of(m, On(f))
                             /\ x = Says(wire[s], f) /\ x2 = Says(wire'[s], f)
      OBVIOUS
    <3>4. /\ Inside(v, f) = Then(Then(a, "none"), "none")
          /\ Inside(v, f)' = Then(Then(a, o), "none")
      BY <1>u, <2>3, <2>6, <3>2, <3>3 DEF Inside, First
    <3>5. x = Then(o, x2)
      BY <1>s, <2>2, <2>6, <3>3
    <3>6. Latest(v, f)' = Latest(v, f)
      BY <1>l, <3>3, <3>4, <3>5, ThenLaws
    <3> QED
      BY <1>c, <1>q, <2>3, <3>6
  <2> QED
    BY <2>5, <2>6
<1>7. CASE DaemonBuffers
  <2>1. /\ pending' = pending \o holding /\ holding' = <<>>
        /\ behind' = [u \in Viewers |->
             IF ready /\ u \in Windows THEN behind[u] \cup FramesOf(holding) ELSE behind[u]]
        /\ UNCHANGED <<wire, shown, stage, emitted, backlog>>
    BY <1>7 DEF DaemonBuffers, brokerVars
  <2>2. f \notin behind[v]
    BY <1>c, <2>1
  <2>3. Says(pending', f) = Then(Says(pending, f), Says(holding, f)) /\ Says(holding', f) = "none"
    BY <1>0, <2>1, SaysConcat, SaysNothing
  <2>5. CASE v \notin Windows
    <3>1. Latest(v, f)' = Latest(v, f)
      BY <1>l, <2>1, <2>5 DEF Inside
    <3> QED
      BY <1>q, <2>1, <2>2, <2>5, <3>1
  <2>6. CASE v \in Windows
    <3>1. PICK p, p2, h, e : /\ p = Says(pending, f) /\ p2 = Says(pending', f)
                             /\ h = Says(holding, f) /\ e = Says(emitted[v], f)
      OBVIOUS
    <3>2. p2 = Then(p, h)
      BY <2>3, <3>1
    <3>3. CASE ready
      <4>1. f \notin FramesOf(holding)
        BY <1>c, <2>1, <2>6, <3>3
      <4>2. h = "none"
        BY <1>0, <3>1, <4>1, FramesShape DEF Says
      <4>3. p2 = p
        BY <3>2, <4>2, ThenLaws
      <4>4. Says(First(v), f)' = Says(First(v), f)
        BY <2>1, <3>1, <4>3 DEF First
      <4>5. PICK a : a = Says(First(v), f)
        OBVIOUS
      <4>6. Inside(v, f) = Then(Then(a, "none"), e) /\ Inside(v, f)' = Then(Then(a, "none"), e)
        BY <1>u, <2>1, <2>6, <3>1, <3>3, <4>4, <4>5 DEF Inside
      <4> QED
        BY <1>l, <1>q, <2>1, <2>2, <3>1, <4>2, <4>6
    <3>4. CASE ~ready
      <4>1. stage[v] \notin {"taken", "draining", "running"}
        BY <2>6, <3>4 DEF Bufs, NotReady
      <4>2. Inside(v, f) = Then(Then(p, h), e)
        BY <2>6, <3>1, <3>4, <4>1 DEF Inside, First
      <4>3. Inside(v, f)' = Then(Then(p2, "none"), e)
        BY <1>u, <2>1, <2>3, <2>6, <3>1, <3>4, <4>1 DEF Inside, First
      <4>4. Inside(v, f)' = Inside(v, f)
        BY <3>2, <4>2, <4>3, ThenLaws
      <4> QED
        BY <1>l, <1>q, <2>1, <2>2, <3>4, <4>4
    <3> QED
      BY <3>3, <3>4
  <2> QED
    BY <2>5, <2>6
<1> QED
  BY <1>2, <1>3, <1>4, <1>5, <1>6, <1>7, <1>g1 DEF Bridge

(***************************************************************************)
(* The steps of a window's page, and the end of a window.                  *)
(***************************************************************************)
LEMMA PageInSync ==
  ASSUME WebTypes, Bufs, NEW v \in Viewers, NEW f \in Frames, InSync(v, f), Calm(v, f)',
         Hears(SocketOf[v], f), NEW w \in Windows, Page(w) \/ UserClosesWindow(w)
  PROVE  Agrees(Latest(v, f)', shown'[v][f], store'[f])
<1>0. /\ CallTypes /\ StoreTypes /\ PageTypes
      /\ shown \in [Viewers -> [Frames -> Version]]
      /\ behind \in [Viewers -> SUBSET Frames]
      /\ stage \in [Windows -> Stages] /\ ready \in BOOLEAN
      /\ pending \in Seq(Sendable)
      /\ emitted \in [Windows -> Seq(Sendable)] /\ backlog \in [Windows -> Seq(Sendable)]
      /\ Sendable \in SUBSET Message
  BY DEF WebTypes, PageTypes, QueueTypes, Sendable
<1>w. Windows \subseteq Viewers
  BY WindowAssumption
<1>u. UNCHANGED <<store, wire, call, holding>>
  BY DEF Page, PageListens, PageAsksReplay, ClientReady, TakePending, HandleBacklog, HandleEvent,
     UserClosesWindow, webVars, brokerVars
<1>s. PICK x : x = Says(wire[SocketOf[v]], f)
  OBVIOUS
<1>l. Latest(v, f) = Then(Inside(v, f), x) /\ Latest(v, f)' = Then(Inside(v, f)', x)
  BY <1>s, <1>u DEF Latest
<1>c. /\ f \notin behind'[v] /\ Changing(f) = {}
      /\ v \in Windows /\ ready' => Says(holding, f) = "none"
  BY <1>u DEF Calm, Changing
\* What was said agrees, if v was in step.
<1>a. ASSUME f \notin behind[v], ready => ready'
      PROVE  Agrees(Latest(v, f), shown[v][f], store[f])
  <2>1. Calm(v, f)
    BY <1>a, <1>c DEF Calm
  <2> QED
    BY <2>1 DEF InSync
<1>q. ASSUME f \notin behind[v], ready => ready', Inside(v, f)' = Inside(v, f),
             shown'[v][f] = shown[v][f]
      PROVE  Agrees(Latest(v, f)', shown'[v][f], store'[f])
  BY <1>a, <1>l, <1>q, <1>u
\* The page's next message is handled.
<1>h. ASSUME v = w, NEW m \in Sendable, Handle(w, m), f \notin behind[v], ready => ready',
             Inside(v, f) = Then(Of(m, On(f)), Inside(v, f)')
      PROVE  Agrees(Latest(v, f)', shown'[v][f], store'[f])
  <2>1. Agrees(Latest(v, f), shown[v][f], store[f])
    BY <1>a, <1>h
  <2>2. /\ m = [type |-> "render", frame |-> f] => shown'[v][f] = store[f]
        /\ m = [type |-> "close", frame |-> f] => shown'[v][f] = None
        /\ m \notin On(f) => shown'[v][f] = shown[v][f]
    BY <1>0, <1>h, HandleStep
  <2>3. PICK o, last :
          /\ o \in {"none", "render", "close"}
          /\ o = Of(m, On(f)) /\ last = Latest(v, f)'
    BY OfShape
  <2>4. Agrees(Then(o, last), shown[v][f], store[f])
    BY <1>h, <1>l, <2>1, <2>3, ThenLaws
  <2>5. /\ o = "render" => shown'[v][f] = store[f]
        /\ o = "close" => shown'[v][f] = None
        /\ o = "none" => shown'[v][f] = shown[v][f]
    BY <2>2, <2>3, OfShape DEF CloseOf
  <2>6. Agrees(last, shown'[v][f], store[f])
    BY <2>3, <2>4, <2>5, Consumed
  <2> QED
    BY <1>u, <2>3, <2>6
\* It is the page of another window.
<1>o. ASSUME v # w, f \notin behind[v], ready => ready', shown'[v] = shown[v],
             v \in Windows =>
               /\ stage'[v] = stage[v] /\ emitted'[v] = emitted[v] /\ backlog'[v] = backlog[v]
               /\ pending' = pending,
             ready' = ready
      PROVE  Agrees(Latest(v, f)', shown'[v][f], store'[f])
  <2>1. Inside(v, f)' = Inside(v, f)
    BY <1>o, <1>u DEF Inside, First
  <2> QED
    BY <1>q, <1>o, <2>1
<1>1. CASE UserClosesWindow(w)
  <2>1. v # w
    BY <1>0, <1>c, <1>1, <1>w DEF UserClosesWindow, Blank
  <2>2. /\ behind'[v] = behind[v] /\ shown'[v] = shown[v] /\ ready' = ready /\ pending' = pending
        /\ v \in Windows =>
             stage'[v] = stage[v] /\ emitted'[v] = emitted[v] /\ backlog'[v] = backlog[v]
    BY <1>0, <1>1, <2>1 DEF UserClosesWindow, Blank
  <2> QED
    BY <1>c, <1>o, <2>1, <2>2
<1>2. CASE PageListens(w)
  <2>1. /\ UNCHANGED <<shown, behind, ready, pending, emitted, backlog>>
        /\ stage[w] = "loading" /\ stage' = [stage EXCEPT ![w] = "listening"]
    BY <1>2 DEF PageListens, webVars, brokerVars
  <2>2. Inside(v, f)' = Inside(v, f)
    BY <1>0, <1>u, <2>1 DEF Inside, First
  <2> QED
    BY <1>c, <1>q, <2>1, <2>2
<1>3. CASE PageAsksReplay(w)
  <2>1. UNCHANGED <<shown, behind, ready, pending, emitted, backlog, stage>>
    BY <1>3 DEF PageAsksReplay
  <2>2. Inside(v, f)' = Inside(v, f)
    BY <1>u, <2>1 DEF Inside, First
  <2> QED
    BY <1>c, <1>q, <2>1, <2>2
<1>4. CASE ClientReady(w)
  <2>1. /\ UNCHANGED <<shown, behind, pending, emitted, backlog>> /\ ready' = TRUE
        /\ stage[w] = "listening" /\ stage' = [stage EXCEPT ![w] = "set"]
    BY <1>4 DEF ClientReady, webVars, brokerVars
  <2>2. v \in Windows => Says(holding, f) = "none"
    BY <1>c, <2>1
  <2>3. \/ stage'[v] = stage[v]
        \/ stage'[v] \notin {"taken", "draining", "running"}
             /\ stage[v] \notin {"taken", "draining", "running"}
    BY <1>0, <2>1
  <2>4. Inside(v, f)' = Inside(v, f)
    BY <1>u, <2>1, <2>2, <2>3 DEF Inside, First
  <2> QED
    BY <1>c, <1>q, <2>1, <2>4
<1>5. CASE TakePending(w)
  <2>1. /\ UNCHANGED <<shown, ready, emitted>> /\ pending' = <<>>
        /\ stage[w] = "set" /\ stage' = [stage EXCEPT ![w] = "taken"]
        /\ backlog' = [backlog EXCEPT ![w] = pending]
        /\ behind' = [u \in Viewers |->
             IF u \in Windows \ {w} THEN behind[u] \cup FramesOf(pending) ELSE behind[u]]
    BY <1>5 DEF TakePending, brokerVars
  <2>2. f \notin behind[v]
    BY <1>c, <2>1
  <2>3. v \in Windows => Says(First(v), f)' = Says(First(v), f)
    <3>1. CASE v = w
      BY <1>0, <2>1, <3>1 DEF First
    <3>2. CASE v \in Windows /\ v # w
      <4>1. stage'[v] = stage[v] /\ backlog'[v] = backlog[v]
        BY <1>0, <2>1, <3>2
      <4>2. f \notin FramesOf(pending)
        BY <1>c, <2>1, <3>2
      <4>3. Says(pending, f) = "none" /\ Says(pending', f) = "none"
        BY <1>0, <2>1, <4>2, FramesShape, SaysNothing DEF Says
      <4> QED
        BY <4>1, <4>3 DEF First
    <3> QED
      BY <3>1, <3>2
  <2>4. Inside(v, f)' = Inside(v, f)
    <3>1. PICK a, e : a = Says(First(v), f) /\ e = Says(emitted[v], f)
      OBVIOUS
    <3>2. v \in Windows => a = Says(First(v), f)'
      BY <2>3, <3>1
    <3> QED
      BY <1>u, <2>1, <3>1, <3>2 DEF Inside
  <2> QED
    BY <1>q, <2>1, <2>2, <2>4
<1>6. CASE HandleBacklog(w)
  <2>1. UNCHANGED <<behind, ready, pending, emitted>> /\ stage[w] \in {"taken", "draining"}
    BY <1>6 DEF HandleBacklog
  <2>2. CASE backlog[w] = <<>>
    <3>1. stage' = [stage EXCEPT ![w] = "running"] /\ UNCHANGED <<shown, backlog>>
      BY <1>6, <2>2 DEF HandleBacklog
    <3>2. Inside(v, f)' = Inside(v, f)
      BY <1>0, <1>u, <2>1, <3>1 DEF Inside, First
    <3> QED
      BY <1>c, <1>q, <2>1, <3>1, <3>2
  <2>3. CASE backlog[w] # <<>>
    <3>1. PICK m \in Sendable :
            /\ m = Head(backlog[w]) /\ Handle(w, m)
            /\ stage' = [stage EXCEPT ![w] = "draining"]
            /\ backlog' = [backlog EXCEPT ![w] = Tail(backlog[w])]
      BY <1>0, <1>6, <2>3 DEF HandleBacklog
    <3>2. CASE v # w
      <4>1. shown'[v] = shown[v]
        BY <1>0, <1>w, <3>1, <3>2, HandleStep
      <4>2. v \in Windows => stage'[v] = stage[v] /\ backlog'[v] = backlog[v]
        BY <1>0, <3>1, <3>2
      <4> QED
        BY <1>c, <1>o, <2>1, <3>2, <4>1, <4>2
    <3>3. CASE v = w
      <4>1. backlog[v] \in Seq(Sendable) /\ backlog'[v] = Tail(backlog[v])
              /\ stage[v] \in {"taken", "draining"} /\ stage'[v] = "draining"
        BY <1>0, <2>1, <3>1, <3>3
      <4>2. Says(backlog[v], f) = Then(Of(m, On(f)), Says(backlog'[v], f))
        BY <2>3, <3>1, <3>3, <4>1, SaysTail
      <4>3. PICK b, b2, o, h, e :
              /\ b = Says(backlog[v], f) /\ b2 = Says(backlog'[v], f) /\ o = Of(m, On(f))
              /\ h = (IF ready THEN "none" ELSE Says(holding, f)) /\ e = Says(emitted[v], f)
        OBVIOUS
      <4>4. Inside(v, f) = Then(Then(b, h), e) /\ Inside(v, f)' = Then(Then(b2, h), e)
        BY <1>u, <2>1, <3>3, <4>1, <4>3 DEF Inside, First
      <4>5. Inside(v, f) = Then(o, Inside(v, f)')
        BY <4>2, <4>3, <4>4, ThenLaws
      <4> QED
        BY <1>c, <1>h, <2>1, <3>1, <3>3, <4>3, <4>5
    <3> QED
      BY <3>2, <3>3
  <2> QED
    BY <2>2, <2>3
<1>7. CASE HandleEvent(w)
  <2>0. PICK m \in Sendable : m = Head(emitted[w])
    BY <1>0, <1>7 DEF HandleEvent
  <2>1. /\ m = Head(emitted[w]) /\ emitted[w] # <<>> /\ Handle(w, m)
        /\ emitted' = [emitted EXCEPT ![w] = Tail(emitted[w])]
        /\ behind' = [behind EXCEPT ![w] =
             IF stage[w] # "running"
               THEN behind[w] \cup (FramesOf(<<m>>) \cap FramesOf(pending \o backlog[w]))
               ELSE behind[w]]
    BY <1>7, <2>0 DEF HandleEvent
  <2>2. UNCHANGED <<ready, pending, stage, backlog>>
    BY <1>7 DEF HandleEvent
  <2>3. ready
    BY <2>1 DEF Bufs, NotReady
  <2>4. CASE v # w
    <3>1. shown'[v] = shown[v] /\ behind'[v] = behind[v]
      BY <1>0, <1>w, <2>1, <2>4, HandleStep
    <3>2. v \in Windows => emitted'[v] = emitted[v]
      BY <1>0, <2>1, <2>4
    <3> QED
      BY <1>c, <1>o, <2>2, <2>4, <3>1, <3>2
  <2>5. CASE v = w
    <3>1. emitted[v] \in Seq(Sendable) /\ emitted'[v] = Tail(emitted[v])
      BY <1>0, <2>1, <2>5
    <3>2. Says(emitted[v], f) = Then(Of(m, On(f)), Says(emitted'[v], f))
      BY <2>1, <2>5, <3>1, SaysTail
    <3>3. f \notin behind[v]
      BY <1>0, <1>c, <1>w, <2>1, <2>5
    <3>4. PICK a, o, e, e2 : /\ a = Says(First(v), f) /\ o = Of(m, On(f))
                             /\ e = Says(emitted[v], f) /\ e2 = Says(emitted'[v], f)
      OBVIOUS
    <3>5. Inside(v, f) = Then(Then(a, "none"), e) /\ Inside(v, f)' = Then(Then(a, "none"), e2)
      BY <1>u, <2>2, <2>3, <2>5, <3>4 DEF Inside, First
    <3>6. CASE o = "none"
      <4>1. Inside(v, f) = Then(o, Inside(v, f)')
        BY <3>2, <3>4, <3>5, <3>6, ThenLaws
      <4> QED
        BY <1>h, <2>1, <2>2, <2>5, <3>3, <3>4, <4>1
    <3>7. CASE o # "none"
      <4>1. a = "none"
        <5>1. CASE stage[v] = "running"
          <6>1. First(v) = <<>>
            BY <2>5, <5>1 DEF Bufs, Played, First
          <6> QED
            BY <3>4, <6>1, SaysNothing
        <5>2. CASE stage[v] # "running"
          <6>1. f \in FramesOf(<<m>>)
            <7>1. <<m>> \in Seq(Sendable) /\ Says(<<m>>, f) # "none"
              BY <3>4, <3>7, SaysOne
            <7> QED
              BY <1>0, <7>1, FramesShape DEF Says
          <6>2. f \notin FramesOf(pending \o backlog[v])
            BY <1>0, <1>c, <1>w, <2>1, <2>5, <5>2, <6>1
          <6>3. backlog[v] \in Seq(Sendable) /\ pending \o backlog[v] \in Seq(Sendable)
            BY <1>0, <2>5
          <6>4. Says(pending \o backlog[v], f) = "none"
            BY <1>0, <6>2, <6>3, FramesShape DEF Says
          <6>5. Then(Says(pending, f), Says(backlog[v], f)) = "none"
            BY <1>0, <6>3, <6>4, SaysConcat
          <6>6. Says(pending, f) = "none" /\ Says(backlog[v], f) = "none"
            BY <6>5 DEF Then
          <6> QED
            BY <3>4, <6>6 DEF First
        <5> QED
          BY <5>1, <5>2
      <4>2. Inside(v, f) = Then(o, Inside(v, f)')
        BY <3>2, <3>4, <3>5, <4>1, ThenLaws
      <4> QED
        BY <1>h, <2>1, <2>2, <2>5, <3>3, <3>4, <4>2
    <3> QED
      BY <3>6, <3>7
  <2> QED
    BY <2>4, <2>5
<1> QED
  BY <1>1, <1>2, <1>3, <1>4, <1>5, <1>6, <1>7 DEF Page

LEMMA WhoConnects ==
  ASSUME WebTypes, [WindowNext]_uiVars, NEW s \in Sockets, Connect(s)
  PROVE  \/ \E t \in Tabs : TabConnects(t) /\ SocketOf[t] = s
         \/ DaemonConnects /\ s = Daemon
<1>0. conn \in [Sockets -> {"down", "joining", "up"}] /\ Openers \subseteq Callers
        /\ Tabs \subseteq Viewers /\ SocketOf \in [Viewers -> Sockets] /\ Daemon \in Sockets
  BY WebViewAssumption, WindowAssumption DEF WebTypes, PageTypes
<1>1. conn[s] = "down" /\ conn'[s] = "joining"
  BY <1>0 DEF Connect
<1>2. conn' # conn
  BY <1>1
<1>3. ~\E c \in Callers : Agent(c) \/ WindowAgent(c)
  <2>1. ASSUME NEW c \in Callers, Agent(c) PROVE FALSE
    BY <1>2, <2>1 DEF Agent, RenderInsert, CloseRemove, SnapshotRegister, Broadcast, SendRequest,
       RequestTimesOut, brokerVars
  <2>2. ASSUME NEW c \in Callers, WindowAgent(c) PROVE FALSE
    BY <1>2, <2>2 DEF WindowAgent, WindowOpen, WindowClose, ListRegister
  <2> QED
    BY <2>1, <2>2
<1>4. ~\E x \in Sockets : Socket(x) \/ Drops(x)
  BY <1>0, <1>1 DEF Socket, Join, ReadClose, ReadAnswer, Drops, Drop
<1>5. ~(Replays \/ Bridge \/ User \/ (\E t \in Tabs : TabHandles(t))
        \/ \E v \in Viewers : Iframes(v))
  <2>1. ~Bridge
    BY <1>2 DEF Bridge, DaemonOpens, DaemonCloses, WindowGoes, DaemonLists, DaemonEmits,
       DaemonHolds, DaemonBuffers, brokerVars
  <2>2. ~(Replays \/ User \/ (\E t \in Tabs : TabHandles(t)) \/ \E v \in Viewers : Iframes(v))
    BY <1>2, IframesStep DEF Replays, ReadReplay, User, UserCloses, UserClosesWindow, TabHandles
  <2> QED
    BY <2>1, <2>2
<1>6. ~\E w \in Windows : Page(w)
  BY <1>2 DEF Page, PageListens, PageAsksReplay, ClientReady, TakePending, HandleBacklog,
     HandleEvent, webVars, brokerVars
<1>7. ~UNCHANGED uiVars
  BY <1>2 DEF uiVars, webVars, brokerVars
<1>8. PICK x \in Sockets : /\ conn' = [conn EXCEPT ![x] = "joining"]
                           /\ \/ \E t \in Tabs : TabConnects(t) /\ SocketOf[t] = x
                              \/ DaemonConnects /\ x = Daemon
  BY <1>0, <1>3, <1>4, <1>5, <1>6, <1>7 DEF WindowNext, TabConnects, DaemonConnects, Connect
<1>9. x = s
  BY <1>0, <1>1, <1>8
<1> QED
  BY <1>8, <1>9

LEMMA PagesStep ==
  WebTypes /\ Bufs /\ AloneIsLast /\ Pages /\ [WindowNext]_uiVars => Pages'
<1> SUFFICES ASSUME WebTypes, Bufs, AloneIsLast, Pages, [WindowNext]_uiVars,
                    NEW v \in Viewers, NEW f \in Frames, Calm(v, f)'
             PROVE  Agrees(Latest(v, f)', shown'[v][f], store'[f])
  BY DEF Pages, InSync
<1>0. InSync(v, f) /\ DownIsEmpty
  BY DEF Pages, Bufs
<1>w. /\ Tabs \cap Windows = {} /\ Viewers = Tabs \cup Windows
      /\ SocketOf \in [Viewers -> Sockets] /\ Daemon \in Sockets
      /\ \A u \in Viewers : SocketOf[u] = Daemon <=> u \in Windows
      /\ \A t, u \in Tabs : SocketOf[t] = SocketOf[u] => t = u
  BY WebViewAssumption, WindowAssumption
<1>c. f \notin behind'[v] /\ Hears(SocketOf[v], f)'
  BY DEF Calm
<1>1. CASE \E x \in Sockets : ReadClose(x, f)
  BY <1>1, ClosedInSync
<1>2. CASE (v \in Tabs /\ TabConnects(v)) \/ (v \in Windows /\ DaemonConnects)
  BY <1>0, <1>2, <1>c, ConnectInSync
<1>3. ASSUME ~\E x \in Sockets : ReadClose(x, f),
             ~((v \in Tabs /\ TabConnects(v)) \/ (v \in Windows /\ DaemonConnects))
      PROVE  Agrees(Latest(v, f)', shown'[v][f], store'[f])
  <2>1. Hears(SocketOf[v], f)
    <3>1. CASE Connect(SocketOf[v])
      <4>1. \/ \E t \in Tabs : TabConnects(t) /\ SocketOf[t] = SocketOf[v]
            \/ DaemonConnects /\ SocketOf[v] = Daemon
        BY <1>w, <3>1, WhoConnects
      <4> QED
        BY <1>3, <1>w, <4>1
    <3>2. CASE ~Connect(SocketOf[v])
      BY <1>0, <1>3, <1>c, <1>w, <3>2, HearsStep
    <3> QED
      BY <3>1, <3>2
  <2>2. ASSUME NEW t \in Tabs, TabHandles(t), UNCHANGED windowVars
        PROVE  Agrees(Latest(v, f)', shown'[v][f], store'[f])
    BY <1>0, <2>1, <2>2, TabInSync
  <2>3. ASSUME NEW u \in Viewers, NEW g \in Frames, UserCloses(u, g), UNCHANGED windowVars
        PROVE  Agrees(Latest(v, f)', shown'[v][f], store'[f])
    BY <1>0, <2>1, <2>3, UserInSync
  <2>4. CASE Bridge
    BY <1>0, <2>1, <2>4, BridgeInSync
  <2>5. ASSUME NEW w \in Windows, Page(w) \/ UserClosesWindow(w)
        PROVE  Agrees(Latest(v, f)', shown'[v][f], store'[f])
    BY <1>0, <2>1, <2>5, PageInSync
  <2>6. CASE /\ ~Bridging /\ ~User
             /\ ~\E t \in Tabs : TabHandles(t) /\ UNCHANGED windowVars
             /\ ~\E u \in Viewers : Iframes(u) /\ UNCHANGED windowVars
    BY <1>0, <1>3, <2>1, <2>6, BrokerInSync
  <2>7. ASSUME NEW u \in Viewers, Iframes(u), UNCHANGED windowVars
        PROVE  Agrees(Latest(v, f)', shown'[v][f], store'[f])
    BY <1>0, <2>1, <2>7, IframeInSync
  <2> QED
    BY <2>2, <2>3, <2>4, <2>5, <2>6, <2>7 DEF Bridging, User
<1> QED
  BY <1>1, <1>2, <1>3

\* What has been said to a page that nothing is on its way to.
LEMMA PagesImplies == WebTypes /\ Bufs /\ Pages => PagesShowTheStore
<1> SUFFICES ASSUME WebTypes, Bufs, Pages, NEW v \in Viewers, NEW f \in Frames,
                    Told(v, f), f \notin behind[v]
             PROVE  doc[v][f] = IF store[f] = 0 THEN None ELSE store[f]
  BY DEF PagesShowTheStore
<1>1. Hears(SocketOf[v], f)
  <2>1. conn[SocketOf[v]] = "up"
    BY DEF Told, Up
  <2> QED
    BY <2>1 DEF Told, Closes, Hears, CloseOf
<1>2. Calm(v, f)
  BY <1>1, SaysNothing DEF Told, Calm
<1>3. Says(wire[SocketOf[v]], f) = "none"
  BY SaysNothing DEF Told
<1>4. Inside(v, f) = "none"
  <2>1. CASE v \in Windows
    <3>1. holding = <<>> /\ stage[v] = "running" /\ emitted[v] = <<>> /\ backlog[v] = <<>>
      BY <2>1 DEF Told, Bufs, Played
    <3>2. First(v) = <<>>
      BY <3>1 DEF First
    <3> QED
      BY <3>1, <3>2, SaysNothing, ThenLaws DEF Inside
  <2>2. CASE v \notin Windows
    BY <2>2 DEF Inside
  <2> QED
    BY <2>1, <2>2
<1>5. Latest(v, f) = "none"
  BY <1>3, <1>4, ThenLaws DEF Latest
<1>6. Agrees("none", shown[v][f], store[f])
  BY <1>2, <1>5 DEF Pages, InSync
<1>7. doc[v][f] = shown[v][f]
  BY DEF Told, WebTypes, FrameTypes
<1> QED
  BY <1>6, <1>7 DEF Agrees
-----------------------------------------------------------------------------
(***************************************************************************)
(* Snapshots.  A request that still notes a version was registered while   *)
(* nobody changed its frame, and the frame has not been removed since.     *)
(***************************************************************************)
Wants(c) == call[c].op = "snapshot" /\ call[c].least # 0

LEMMA WantsStep ==
  ASSUME CallTypes, [WindowNext]_uiVars, NEW c \in Callers, Wants(c)',
         ~\E g \in Frames : SnapshotRegister(c, g)
  PROVE  /\ Wants(c) /\ call[c] \in ShotCall
         /\ call'[c].frame = call[c].frame /\ call'[c].id = call[c].id
         /\ call'[c].least = call[c].least
<1>0. call \in [Callers -> Call] /\ call'[c].op = "snapshot" /\ call'[c].least # 0
  BY DEF CallTypes, Wants
<1>1. ASSUME call'[c] = call[c]
      PROVE  /\ Wants(c) /\ call[c] \in ShotCall
             /\ call'[c].frame = call[c].frame /\ call'[c].id = call[c].id
             /\ call'[c].least = call[c].least
  BY <1>0, <1>1, CallShape DEF Wants
<1>2. ASSUME NEW f \in Frames, NEW removed \in BOOLEAN, NEW b, b = Beside(f, removed),
             call'[c] = b[c]
      PROVE  /\ Wants(c) /\ call[c] \in ShotCall
             /\ call'[c].frame = call[c].frame /\ call'[c].id = call[c].id
             /\ call'[c].least = call[c].least
  <2>1. /\ b[c].op = call[c].op
        /\ call[c].op = "snapshot" => /\ b[c].frame = call[c].frame /\ b[c].id = call[c].id
                                      /\ b[c].least \in {0, call[c].least}
    BY <1>2, BesideShape
  <2> QED
    BY <1>0, <1>2, <2>1, CallShape DEF Wants
<1>3. ASSUME NEW d \in Callers, NEW f \in Frames, RenderInsert(d, f) \/ CloseRemove(d, f)
      PROVE  /\ Wants(c) /\ call[c] \in ShotCall
             /\ call'[c].frame = call[c].frame /\ call'[c].id = call[c].id
             /\ call'[c].least = call[c].least
  <2>0. PICK alone : alone = (Changing(f) = {})
    OBVIOUS
  <2>1. PICK removed, op, b :
          /\ removed \in BOOLEAN /\ op \in {"render", "close"}
          /\ b = Beside(f, removed)
          /\ call' = [b EXCEPT ![d] = [op |-> op, frame |-> f, alone |-> alone]]
    <3>1. CASE RenderInsert(d, f)
      BY <2>0, <3>1 DEF RenderInsert
    <3>2. CASE CloseRemove(d, f)
      BY <2>0, <3>2 DEF CloseRemove
    <3> QED
      BY <1>3, <3>1, <3>2
  <2>2. b \in [Callers -> Call]
    BY <2>1, BesideShape
  <2>3. c # d /\ call'[c] = b[c]
    BY <1>0, <2>1, <2>2
  <2> QED
    BY <1>2, <2>1, <2>3
<1>4. ASSUME NEW d \in Callers, Agent(d), ~\E f \in Frames : RenderInsert(d, f) \/ CloseRemove(d, f)
      PROVE  /\ Wants(c) /\ call[c] \in ShotCall
             /\ call'[c].frame = call[c].frame /\ call'[c].id = call[c].id
             /\ call'[c].least = call[c].least
  <2>1. CASE SendRequest(d) /\ d = c
    <3>1. call'[c] = [call[c] EXCEPT !.sent = TRUE] /\ call[c].op \in {"snapshot", "list"}
      BY <1>0, <2>1 DEF SendRequest
    <3>2. CASE call[c].op = "list"
      <4>1. call[c] \in ListCall
        BY <3>2, CallShape
      <4> QED
        BY <1>0, <3>1, <4>1 DEF ListCall
    <3>3. CASE call[c].op = "snapshot"
      <4>1. call[c] \in ShotCall
        BY <3>3, CallShape
      <4> QED
        BY <1>0, <3>1, <4>1 DEF ShotCall, Wants
    <3> QED
      BY <3>1, <3>2, <3>3
  <2>2. CASE SendRequest(d) /\ d # c
    BY <1>0, <1>1, <2>2 DEF SendRequest
  <2>3. CASE Broadcast(d) \/ RequestTimesOut(d)
    BY <1>0, <1>1, <2>3 DEF Broadcast, RequestTimesOut, Idle
  <2>4. ASSUME NEW g \in Frames, SnapshotRegister(d, g)
        PROVE  call'[c] = call[c]
    <3>1. d # c
      BY <2>4
    <3> QED
      BY <1>0, <2>4, <3>1 DEF SnapshotRegister
  <2> QED
    BY <1>1, <1>4, <2>1, <2>2, <2>3, <2>4 DEF Agent
<1>5. ASSUME NEW d \in Callers, WindowAgent(d)
      PROVE  call'[c] = call[c]
  <2>1. CASE ListRegister(d)
    BY <1>0, <2>1 DEF ListRegister
  <2>2. CASE \E w \in Windows : WindowOpen(d, w) \/ WindowClose(d, w)
    BY <2>2 DEF WindowOpen, WindowClose
  <2> QED
    BY <1>5, <2>1, <2>2 DEF WindowAgent
<1>6. ASSUME NEW s \in Sockets, NEW f \in Frames, ReadClose(s, f)
      PROVE  /\ Wants(c) /\ call[c] \in ShotCall
             /\ call'[c].frame = call[c].frame /\ call'[c].id = call[c].id
             /\ call'[c].least = call[c].least
  <2>1. PICK removed, b : removed = TRUE /\ b = Beside(f, removed) /\ call' = b
    BY <1>6 DEF ReadClose
  <2>2. call'[c] = b[c]
    BY <2>1
  <2> QED
    BY <1>2, <2>1, <2>2
<1>7. ASSUME NEW s \in Sockets, Join(s) \/ ReadAnswer(s)
      PROVE  call'[c] = call[c]
  <2>1. CASE Join(s)
    BY <2>1 DEF Join
  <2>2. CASE ReadAnswer(s)
    <3>1. PICK to : call' = [d \in Callers |-> IF d \in to THEN Idle ELSE call[d]]
      BY <2>2 DEF ReadAnswer
    <3> QED
      BY <1>0, <3>1 DEF Idle
  <2> QED
    BY <1>7, <2>1, <2>2
<1>8. CASE (\E t \in Tabs : TabConnects(t) \/ TabHandles(t)) \/ DaemonConnects \/ Replays
             \/ \E s \in Sockets : Drops(s)
  BY <1>1, <1>8 DEF TabConnects, Connect, TabHandles, DaemonConnects, Replays, ReadReplay, Drops,
     Drop
<1>9. CASE Bridge \/ \E v \in Viewers : Iframes(v)
  BY <1>1, <1>9, IframesStep DEF Bridge, DaemonOpens, DaemonCloses, WindowGoes, DaemonLists,
     DaemonEmits, DaemonHolds, DaemonBuffers, brokerVars
<1>10. CASE \E w \in Windows : Page(w)
  BY <1>1, <1>10 DEF Page, PageListens, PageAsksReplay, ClientReady, TakePending, HandleBacklog,
     HandleEvent, webVars, brokerVars
<1>11. CASE User \/ UNCHANGED uiVars
  BY <1>1, <1>11 DEF User, UserCloses, UserClosesWindow, uiVars, webVars, brokerVars
<1> QED
  BY <1>1, <1>3, <1>4, <1>5, <1>6, <1>7, <1>8, <1>9, <1>10, <1>11, WindowAssumption
  DEF WindowNext, Socket

\* A frame that is removed is not waited for in any version.
LEMMA NotRemoved ==
  ASSUME CallTypes, NEW c \in Callers, NEW f, call[c].op = "snapshot", call[c].frame = f,
         call'[c].op = "snapshot", call'[c].least # 0, f \in Frames
  PROVE  /\ ~\E d \in Callers : CloseRemove(d, f)
         /\ ~\E s \in Sockets : ReadClose(s, f)
<1>1. PICK removed, b : removed = TRUE /\ b = Beside(f, removed)
  OBVIOUS
<1>2. b[c].least = 0 /\ b \in [Callers -> Call]
  <2>1. CallTypes /\ f \in Frames /\ removed \in BOOLEAN /\ b = Beside(f, removed)
    BY <1>1
  <2>2. /\ b \in [Callers -> Call]
        /\ removed /\ call[c].frame = f => b[c].least = 0
    BY <2>1, BesideShape
  <2> QED
    BY <1>1, <2>2
<1>3. ASSUME NEW d \in Callers, CloseRemove(d, f) PROVE FALSE
  <2>1. PICK alone : alone = (Changing(f) = {})
    OBVIOUS
  <2>2. call' = [b EXCEPT ![d] = [op |-> "close", frame |-> f, alone |-> alone]]
    BY <1>1, <1>3, <2>1 DEF CloseRemove
  <2>3. d # c
    BY <1>3 DEF CloseRemove, Start, Idle
  <2> QED
    BY <1>2, <2>2, <2>3
<1>4. ASSUME NEW s \in Sockets, ReadClose(s, f) PROVE FALSE
  BY <1>1, <1>2, <1>4 DEF ReadClose
<1> QED
  BY <1>3, <1>4

\* A request for a snapshot begins.
LEMMA RegisterStep ==
  ASSUME CallTypes, StoreTypes, NEW c \in Callers, NEW f \in Frames, SnapshotRegister(c, f)
  PROVE  /\ call'[c].op = "snapshot" /\ call'[c].frame = f /\ call'[c].id = calls + 1
         /\ call'[c].least = (IF Changing(f) = {} THEN store[f] ELSE 0)
         /\ store[f] # 0 /\ store[f] \in Nat
         /\ \A d \in Callers \ {c} : call'[d] = call[d]
         /\ \A g : Changing(g)' = Changing(g)
         /\ UNCHANGED <<store, wire, uplink, conn, shown, behind>>
<1>1. PICK least : least = IF Changing(f) = {} THEN store[f] ELSE 0
  OBVIOUS
<1>2. /\ call[c] = Idle
      /\ call' = [call EXCEPT ![c] = [op |-> "snapshot", frame |-> f, id |-> calls + 1,
                                      sent |-> FALSE, least |-> least]]
  BY <1>1 DEF SnapshotRegister, Start
<1>3. /\ call'[c] = [op |-> "snapshot", frame |-> f, id |-> calls + 1, sent |-> FALSE,
                     least |-> least]
      /\ \A d \in Callers \ {c} : call'[d] = call[d]
  BY <1>2 DEF CallTypes
<1>4. \A g : Changing(g)' = Changing(g)
  BY <1>2, <1>3 DEF Changing, Idle
<1>5. store[f] # 0 /\ store[f] \in Nat /\ UNCHANGED <<store, wire, uplink, conn, shown, behind>>
  BY DEF SnapshotRegister, StoreTypes
<1> QED
  BY <1>1, <1>3, <1>4, <1>5

(***************************************************************************)
(* The version that a request notes is stored, or a later one, and whoever *)
(* changes the frame renders it.                                           *)
(***************************************************************************)
Versions ==
  \A c \in Callers : Wants(c) =>
    /\ store[call[c].frame] >= call[c].least
    /\ \A d \in Changing(call[c].frame) : call[d].op = "render"

LEMMA VersionsStep ==
  CallTypes /\ StoreTypes /\ Versions /\ [WindowNext]_uiVars => Versions'
<1> SUFFICES ASSUME CallTypes, StoreTypes, Versions, [WindowNext]_uiVars, NEW c \in Callers,
                    Wants(c)', NEW f, f = call'[c].frame
             PROVE  /\ store'[f] >= call'[c].least
                    /\ \A d \in Changing(f)' : call'[d].op = "render"
  BY DEF Versions
<1>0. store \in [Frames -> Nat] /\ renders \in Nat /\ \A g \in Frames : store[g] <= renders
  BY DEF StoreTypes
<1>1. ASSUME NEW g \in Frames, SnapshotRegister(c, g)
      PROVE  store'[f] >= call'[c].least /\ \A d \in Changing(f)' : call'[d].op = "render"
  <2>1. /\ call'[c].frame = g /\ call'[c].least = (IF Changing(g) = {} THEN store[g] ELSE 0)
        /\ store' = store /\ store[g] \in Nat /\ \A h : Changing(h)' = Changing(h)
    BY <1>1, RegisterStep
  <2>2. Changing(g) = {} /\ call'[c].least = store[g] /\ f = g
    BY <2>1 DEF Wants
  <2>3. Changing(f)' = {}
    BY <2>1, <2>2
  <2> QED
    BY <2>1, <2>2, <2>3
<1>2. ASSUME ~\E g \in Frames : SnapshotRegister(c, g)
      PROVE  store'[f] >= call'[c].least /\ \A d \in Changing(f)' : call'[d].op = "render"
  <2>1. /\ Wants(c) /\ call[c] \in ShotCall /\ call[c].frame = f /\ call'[c].least = call[c].least
    BY <1>2, WantsStep
  <2>2. f \in Frames /\ call'[c].least \in Nat
    BY <2>1 DEF ShotCall
  <2>3. store[f] >= call'[c].least /\ \A d \in Changing(f) : call[d].op = "render"
    BY <2>1 DEF Versions
  <2>4. /\ ~\E d \in Callers : CloseRemove(d, f)
        /\ ~\E s \in Sockets : ReadClose(s, f)
    BY <2>1, <2>2, NotRemoved DEF Wants
  <2>d. \A d \in Changing(f)' : d \in Callers /\ call'[d].op \in {"render", "close"}
    BY DEF Changing
  <2>5. CASE ~Disturbs
    <3>1. /\ store' = store /\ Changing(f)' = Changing(f)
          /\ \A d \in Callers : call'[d].op \in {"render", "close"} => call'[d] = call[d]
      BY <2>5, OthersLeaveChanges
    <3> QED
      BY <2>3, <2>d, <3>1
  <2>6. ASSUME NEW d \in Callers, NEW g \in Frames, RenderInsert(d, g) \/ CloseRemove(d, g)
        PROVE  store'[f] >= call'[c].least /\ \A e \in Changing(f)' : call'[e].op = "render"
    <3>1. /\ call'[d].op = (IF store'[g] = 0 THEN "close" ELSE "render")
          /\ d \notin Changing(g) /\ Changing(g)' = Changing(g) \cup {d}
          /\ \A h : h # g => Changing(h)' = Changing(h)
          /\ \A h \in Frames : h # g => store'[h] = store[h]
          /\ \A e \in Callers \ {d} : call'[e].op = call[e].op
          /\ call[d] = Idle
      BY <2>6, ChangeBeginsStep
    <3>2. d \notin Changing(f)
      BY <3>1 DEF Changing, Idle
    <3>3. CASE g # f
      <4>1. store'[f] = store[f] /\ Changing(f)' = Changing(f)
        BY <2>2, <3>1, <3>3
      <4> QED
        BY <2>3, <2>d, <3>1, <3>2, <4>1
    <3>4. CASE g = f
      <4>1. RenderInsert(d, f)
        BY <2>4, <2>6, <3>4
      <4>2. store'[f] = renders + 1
        BY <1>0, <2>2, <4>1 DEF RenderInsert
      <4>3. store'[f] >= call'[c].least /\ store'[f] # 0
        BY <1>0, <2>2, <2>3, <4>2
      <4> QED
        BY <2>3, <2>d, <3>1, <3>4, <4>3
    <3> QED
      BY <3>3, <3>4
  <2>7. ASSUME NEW d \in Callers, Broadcast(d)
        PROVE  store'[f] >= call'[c].least /\ \A e \in Changing(f)' : call'[e].op = "render"
    <3>0. PICK g : g = call[d].frame
      OBVIOUS
    <3>1. /\ store' = store /\ Changing(g)' = Changing(g) \ {d} /\ call'[d] = Idle
          /\ \A h : h # g => Changing(h)' = Changing(h)
          /\ \A e \in Callers \ {d} : call'[e] = call[e]
      BY <2>7, <3>0, ChangeEndsStep
    <3>2. Changing(f)' \subseteq Changing(f) /\ d \notin Changing(f)'
      BY <3>1 DEF Changing, Idle
    <3> QED
      BY <2>3, <2>d, <3>1, <3>2
  <2>8. ASSUME NEW s \in Sockets, NEW g \in Frames, ReadClose(s, g)
        PROVE  store'[f] >= call'[c].least /\ \A e \in Changing(f)' : call'[e].op = "render"
    <3>1. /\ \A h \in Frames : h # g => store'[h] = store[h]
          /\ Changing(f)' = Changing(f) /\ \A e \in Callers : call'[e].op = call[e].op
      BY <2>8, PageClosesStep
    <3>2. g # f
      BY <2>4, <2>8
    <3> QED
      BY <2>2, <2>3, <2>d, <3>1, <3>2
  <2> QED
    BY <2>5, <2>6, <2>7, <2>8 DEF Disturbs, ChangeBegins, ChangeEnds, PageCloses
<1> QED
  BY <1>1, <1>2
-----------------------------------------------------------------------------
(***************************************************************************)
(* What a step does to a tab that goes on hearing of a frame: it handles a *)
(* message, it is sent one more, or nothing that it shows changes, unless  *)
(* it fetches the frame again.  Only a broadcast speaks of the frame, and  *)
(* only a request asks for a snapshot.                                     *)
(***************************************************************************)
Handles(t, f) == TabHandles(t) /\ UNCHANGED <<store, call, behind>>

Sent(t, f) ==
  \E m :
    /\ wire'[SocketOf[t]] = Append(wire[SocketOf[t]], m)
    /\ shown'[t][f] = shown[t][f]
    /\ \/ m \notin On(f) /\ m.type # "snapshot" /\ (f \in behind[t] => f \in behind'[t])
       \/ \E d \in Callers : SendRequest(d) /\ m = Request(d) /\ behind' = behind
       \/ \E d \in Callers :
            /\ Broadcast(d)
            /\ d \in Changing(f) /\ m = [type |-> call[d].op, frame |-> f]

Rests(t, f) ==
  /\ wire'[SocketOf[t]] = wire[SocketOf[t]]
  /\ \/ shown'[t][f] = shown[t][f]
     \/ shown[t][f] # None /\ shown'[t][f] = store[f] /\ behind' = behind
  /\ f \in behind[t] => f \in behind'[t]

LEMMA TabSees ==
  ASSUME WebTypes, [WindowNext]_uiVars, NEW t \in Tabs, NEW f \in Frames,
         Hears(SocketOf[t], f), Hears(SocketOf[t], f)'
  PROVE  Handles(t, f) \/ Sent(t, f) \/ Rests(t, f)
<1>0. /\ conn \in [Sockets -> {"down", "joining", "up"}]
      /\ wire \in [Sockets -> Seq(Sendable)] /\ uplink \in [Sockets -> Seq(Returnable)]
      /\ shown \in [Viewers -> [Frames -> Version]]
      /\ behind \in [Viewers -> SUBSET Frames]
      /\ CallTypes /\ StoreTypes
  BY DEF WebTypes, PageTypes, QueueTypes
<1>w. /\ Tabs \cap Windows = {} /\ Viewers = Tabs \cup Windows /\ t \in Viewers
      /\ SocketOf \in [Viewers -> Sockets]
      /\ Openers \subseteq Callers /\ Daemon \in Sockets
      /\ \A u \in Viewers : SocketOf[u] = Daemon <=> u \in Windows
      /\ \A x \in Tabs : SocketOf[x] = SocketOf[t] => x = t
  BY WebViewAssumption, WindowAssumption
<1>s. PICK s \in Sockets : s = SocketOf[t]
  BY <1>w
<1>d. s # Daemon /\ t \notin Windows /\ conn[s] # "down" /\ conn'[s] # "down"
  BY <1>s, <1>w DEF Hears
<1>1. ASSUME UNCHANGED <<wire, shown, behind>> PROVE Rests(t, f)
  BY <1>1 DEF Rests
\* A message for all: this tab is sent it, or it is not on the list yet.
<1>a. ASSUME NEW m, wire' = ToAll(m)
      PROVE  wire'[s] = wire[s] \/ wire'[s] = Append(wire[s], m)
  BY <1>0, <1>a DEF ToAll
<1>2. ASSUME NEW c \in Callers, Agent(c) PROVE Sent(t, f) \/ Rests(t, f)
  <2>1. CASE \E g \in Frames : RenderInsert(c, g) \/ CloseRemove(c, g) \/ SnapshotRegister(c, g)
    BY <1>1, <2>1 DEF RenderInsert, CloseRemove, SnapshotRegister
  <2>2. CASE RequestTimesOut(c)
    BY <1>1, <2>2 DEF RequestTimesOut, brokerVars
  <2>3. CASE SendRequest(c)
    <3>1. PICK m : m = Request(c) /\ wire' = ToAll(m) /\ UNCHANGED <<shown, behind>>
      BY <2>3 DEF SendRequest
    <3> QED
      BY <1>a, <1>s, <2>3, <3>1 DEF Sent, Rests
  <2>4. CASE Broadcast(c)
    <3>1. PICK g : g = call[c].frame
      OBVIOUS
    <3>2. call[c] \in ChangeCall /\ g \in Frames /\ c \in Changing(g)
      BY <1>0, <2>4, <3>1, ChangeEndsStep
    <3>3. PICK m : m = [type |-> call[c].op, frame |-> g]
      OBVIOUS
    <3>4. /\ wire' = ToAll(m) /\ shown' = shown
          /\ behind' = [u \in Viewers |->
               IF call[c].alone /\ SocketOf[u] \in Up THEN behind[u] \ {g} ELSE behind[u] \cup {g}]
      BY <2>4, <3>1, <3>3 DEF Broadcast
    <3>5. CASE g # f
      <4>1. m \notin On(f) /\ m.type # "snapshot"
        BY <3>2, <3>3, <3>5 DEF On, ChangeCall
      <4>2. f \in behind[t] => f \in behind'[t]
        BY <1>w, <3>4, <3>5
      <4> QED
        BY <1>a, <1>s, <3>4, <4>1, <4>2 DEF Sent, Rests
    <3>6. CASE g = f
      <4>1. CASE s \in Up
        <5>1. wire'[s] = Append(wire[s], m)
          BY <1>0, <3>4, <4>1 DEF ToAll
        <5> QED
          BY <1>s, <2>4, <3>2, <3>3, <3>4, <3>6, <5>1 DEF Sent
      <4>2. CASE s \notin Up
        <5>1. wire'[s] = wire[s] /\ f \in behind'[t]
          BY <1>0, <1>s, <1>w, <3>4, <3>6, <4>2 DEF ToAll
        <5> QED
          BY <1>s, <3>4, <5>1 DEF Rests
      <4> QED
        BY <4>1, <4>2
    <3> QED
      BY <3>5, <3>6
  <2> QED
    BY <1>2, <2>1, <2>2, <2>3, <2>4 DEF Agent
<1>3. ASSUME NEW c \in Callers, WindowAgent(c) PROVE Sent(t, f) \/ Rests(t, f)
  <2>1. CASE ListRegister(c)
    BY <1>1, <2>1 DEF ListRegister
  <2>2. ASSUME NEW w \in Windows, WindowOpen(c, w) \/ WindowClose(c, w)
        PROVE  Sent(t, f) \/ Rests(t, f)
    <3>1. PICK m \in Labelled(w) : wire' = ToAll(m)
      BY <2>2 DEF WindowOpen, WindowClose, Labelled
    <3>2. m \notin On(f) /\ m.type # "snapshot"
      BY <3>1 DEF On, Labelled
    <3>3. UNCHANGED <<shown, behind>>
      BY <2>2 DEF WindowOpen, WindowClose
    <3> QED
      BY <1>a, <1>s, <3>1, <3>2, <3>3 DEF Sent, Rests
  <2> QED
    BY <1>3, <2>1, <2>2 DEF WindowAgent
<1>4. ASSUME NEW x \in Sockets, Socket(x) PROVE Rests(t, f)
  <2>1. CASE Join(x) \/ ReadAnswer(x)
    BY <1>1, <2>1 DEF Join, ReadAnswer
  <2>2. ASSUME NEW g \in Frames, ReadClose(x, g) PROVE Rests(t, f)
    <3>1. /\ wire' = wire /\ shown' = shown
          /\ behind' = [u \in Viewers |-> IF MayShow(u, g) THEN behind[u] \cup {g} ELSE behind[u]]
      BY <2>2 DEF ReadClose
    <3>2. f \in behind[t] => f \in behind'[t]
      BY <1>w, <3>1
    <3> QED
      BY <3>1, <3>2 DEF Rests
  <2> QED
    BY <1>4, <2>1, <2>2 DEF Socket
\* Another socket connects, is lost or is sent a replay.
<1>5. CASE (\E u \in Tabs : TabConnects(u)) \/ DaemonConnects
  <2>1. PICK x \in Sockets : /\ conn[x] = "down" /\ \A y \in Sockets \ {x} : wire'[y] = wire[y]
                             /\ shown' = shown
    BY <1>0, <1>w, <1>5 DEF TabConnects, DaemonConnects, Connect
  <2>2. wire'[s] = wire[s]
    BY <1>d, <2>1
  <2>3. ASSUME NEW u \in Tabs, TabConnects(u) PROVE behind'[t] = behind[t]
    <3>1. t # u
      BY <1>d, <1>s, <2>3 DEF TabConnects, Connect
    <3> QED
      BY <1>0, <2>3, <3>1 DEF TabConnects
  <2>4. DaemonConnects => behind'[t] = behind[t]
    BY <1>d, <1>w DEF DaemonConnects, Resent
  <2> QED
    BY <1>5, <1>s, <2>1, <2>2, <2>3, <2>4 DEF Rests
<1>6. CASE Replays
  <2>1. wire' = [wire EXCEPT ![Daemon] = @ \o Replay] /\ shown' = shown /\ behind' = Resent
    BY <1>6 DEF Replays, ReadReplay
  <2>2. wire'[s] = wire[s] /\ behind'[t] = behind[t]
    BY <1>0, <1>d, <1>w, <2>1 DEF Resent
  <2> QED
    BY <1>s, <2>1, <2>2 DEF Rests
<1>7. ASSUME NEW x \in Sockets, Drops(x) PROVE Rests(t, f)
  <2>1. x # s
    BY <1>0, <1>d, <1>7 DEF Drops, Drop
  <2>2. wire'[s] = wire[s] /\ UNCHANGED <<shown, behind>>
    BY <1>0, <1>7, <2>1 DEF Drops, Drop
  <2> QED
    BY <1>s, <2>2 DEF Rests
<1>8. ASSUME NEW u \in Tabs, TabHandles(u), UNCHANGED windowVars PROVE Handles(t, f) \/ Rests(t, f)
  <2>1. CASE u = t
    BY <1>8, <2>1 DEF TabHandles, Handles
  <2>2. CASE u # t
    <3>1. SocketOf[u] # s /\ u \in Viewers
      BY <1>s, <1>w, <2>2
    <3>2. PICK h : shown' = [shown EXCEPT ![u] = h]
      BY <1>8 DEF TabHandles, Handle
    <3>3. shown'[t] = shown[t] /\ behind' = behind
      BY <1>0, <1>8, <1>w, <2>2, <3>2 DEF TabHandles
    <3>4. wire'[s] = wire[s]
      BY <1>0, <1>8, <3>1 DEF TabHandles
    <3> QED
      BY <1>s, <3>3, <3>4 DEF Rests
  <2> QED
    BY <2>1, <2>2
\* The daemon and the windows.
<1>b. ASSUME NEW w \in Windows, Blank(w) PROVE shown'[t] = shown[t] /\ behind'[t] = behind[t]
  BY <1>0, <1>b, <1>d, <1>w DEF Blank
<1>9. CASE Bridge
  <2>1. wire'[s] = wire[s]
    <3>1. ASSUME NEW m, Incoming(m) PROVE wire'[s] = wire[s]
      BY <1>0, <1>d, <3>1 DEF Incoming
    <3>2. CASE DaemonBuffers \/ \E w \in Windows : WindowGoes(w)
      BY <3>2 DEF DaemonBuffers, WindowGoes, brokerVars
    <3> QED
      BY <1>9, <3>1, <3>2 DEF Bridge, DaemonOpens, DaemonCloses, DaemonLists, DaemonEmits,
         DaemonHolds
  <2>2. shown'[t] = shown[t] /\ behind'[t] = behind[t]
    <3>1. CASE \E w \in Windows : DaemonOpens(w) \/ DaemonCloses(w) \/ WindowGoes(w)
      BY <1>b, <3>1 DEF DaemonOpens, DaemonCloses, WindowGoes
    <3>2. CASE DaemonLists \/ DaemonHolds
      BY <3>2 DEF DaemonLists, DaemonHolds
    <3>3. CASE DaemonEmits
      BY <1>d, <1>w, <3>3 DEF DaemonEmits
    <3>4. CASE DaemonBuffers
      BY <1>d, <1>w, <3>4 DEF DaemonBuffers
    <3> QED
      BY <1>9, <3>1, <3>2, <3>3, <3>4 DEF Bridge
  <2> QED
    BY <1>s, <2>1, <2>2 DEF Rests
<1>10. ASSUME NEW w \in Windows, Page(w) \/ UserClosesWindow(w) PROVE Rests(t, f)
  <2>1. wire' = wire
    BY <1>10 DEF Page, PageListens, PageAsksReplay, ClientReady, TakePending, HandleBacklog,
       HandleEvent, UserClosesWindow, webVars, brokerVars
  <2>2. shown'[t] = shown[t]
    <3>1. ASSUME NEW m, Handle(w, m) PROVE shown'[t] = shown[t]
      BY <1>0, <1>d, <3>1 DEF Handle
    <3>2. CASE UserClosesWindow(w)
      BY <1>b, <3>2 DEF UserClosesWindow
    <3> QED
      BY <1>10, <3>1, <3>2 DEF Page, PageListens, PageAsksReplay, ClientReady, TakePending,
         HandleBacklog, HandleEvent, webVars
  <2>3. behind'[t] = behind[t]
    <3>1. CASE UserClosesWindow(w)
      BY <1>b, <3>1 DEF UserClosesWindow
    <3>2. CASE TakePending(w)
      BY <1>d, <1>w, <3>2 DEF TakePending
    <3>3. CASE HandleEvent(w)
      BY <1>0, <1>d, <3>3 DEF HandleEvent
    <3> QED
      BY <1>10, <3>1, <3>2, <3>3 DEF Page, PageListens, PageAsksReplay, ClientReady,
         HandleBacklog, webVars
  <2> QED
    BY <2>1, <2>2, <2>3 DEF Rests
\* The user closes a frame: another one, or of another page.
<1>11. ASSUME NEW u \in Viewers, NEW g \in Frames, UserCloses(u, g) PROVE Rests(t, f)
  <2>1. wire' = wire /\ behind' = behind /\ shown' = [shown EXCEPT ![u][g] = None]
    BY <1>11 DEF UserCloses
  <2>2. u = t => g # f
    <3> SUFFICES ASSUME u = t, g = f PROVE FALSE
      OBVIOUS
    <3>1. uplink'[s] = Append(uplink[s], CloseOf(f)) /\ uplink[s] \in Seq(Returnable)
      BY <1>0, <1>11, <1>d, <1>s DEF UserCloses, CloseOf
    <3>2. CloseOf(f) \in Range(Append(uplink[s], CloseOf(f)))
      <4>1. Append(uplink[s], CloseOf(f))[Len(uplink[s]) + 1] = CloseOf(f)
              /\ Len(uplink[s]) + 1 \in DOMAIN Append(uplink[s], CloseOf(f))
        BY <3>1
      <4> QED
        BY <4>1 DEF Range
    <3>3. PICK k, q : k = CloseOf(f) /\ q = uplink'[s]
      OBVIOUS
    <3>4. k \notin Range(q)
      BY <1>s, <3>3 DEF Hears, CloseOf
    <3> QED
      BY <3>1, <3>2, <3>3, <3>4
  <2>3. shown'[t][f] = shown[t][f]
    BY <1>0, <1>w, <2>1, <2>2
  <2> QED
    BY <2>1, <2>3 DEF Rests
<1>12. CASE UNCHANGED uiVars
  BY <1>1, <1>12 DEF uiVars, webVars, brokerVars
\* An iframe fetches its document.
<1>13. ASSUME NEW u \in Viewers, Iframes(u) PROVE Rests(t, f)
  <2>1. wire' = wire /\ behind' = behind
    BY <1>13, IframesStep
  <2>2. ASSUME NEW g \in Frames, FrameFetches(u, g) PROVE Rests(t, f)
    <3>1. shown[u][g] # None /\ shown' = [shown EXCEPT ![u][g] = store[g]]
      BY <2>2 DEF FrameFetches, WebTypes, FrameTypes
    <3> QED
      BY <1>0, <1>w, <2>1, <3>1 DEF Rests
  <2>3. CASE shown' = shown
    BY <1>1, <2>1, <2>3
  <2> QED
    BY <1>13, <2>2, <2>3 DEF Iframes, FrameLoads, FrameAnswers
<1> QED
  BY <1>2, <1>3, <1>4, <1>5, <1>6, <1>7, <1>8, <1>9, <1>10, <1>11, <1>12, <1>13, <1>w
  DEF WindowNext, User

(***************************************************************************)
(* A page that shows version `least` of a frame or a later one, or will    *)
(* once it has handled what was said last: a page cannot show a version    *)
(* older than the one that the store held when it was told.                *)
(***************************************************************************)
Fresh(last, sh, least) == last = "render" \/ (last = "none" /\ sh # None /\ sh >= least)

\* A tab in step hears of every version that a request has noted.
WillShow ==
  \A t \in Tabs, c \in Callers, f \in Frames :
    Wants(c) /\ call[c].frame = f /\ f \notin behind[t] /\ Hears(SocketOf[t], f)
      => Fresh(Says(wire[SocketOf[t]], f), shown[t][f], call[c].least)

\* And has heard of it before it handles the request.
Asked ==
  \A t \in Tabs, c \in Callers, f \in Frames :
    Wants(c) /\ call[c].frame = f /\ Hears(SocketOf[t], f)
      => \A i \in 1 .. Len(wire[SocketOf[t]]) :
           wire[SocketOf[t]][i] \in ShotMessage /\ wire[SocketOf[t]][i].id = call[c].id
             /\ t \in wire[SocketOf[t]][i].sure
           => Fresh(LastOf(wire[SocketOf[t]], i - 1, On(f)), shown[t][f], call[c].least)

LEMMA FreshAfter ==
  ASSUME StoreTypes, NEW f \in Frames, NEW least \in Nat, least # 0, store[f] >= least,
         NEW o \in {"none", "render", "close"}, NEW last, NEW sh, NEW new,
         Fresh(Then(o, last), sh, least),
         o = "render" => new = store[f], o = "none" => new = sh
  PROVE  Fresh(last, new, least)
<1>1. store[f] \in 0 .. MaxRenders
  BY WebViewAssumption DEF StoreTypes
<1>2. store[f] # None
  BY <1>1, WebViewAssumption
<1> QED
  BY <1>2 DEF Fresh, Then

\* A document that is fetched again is fresh as well.
LEMMA FreshRests ==
  ASSUME StoreTypes, NEW t \in Tabs, NEW f \in Frames, Rests(t, f),
         NEW least \in Nat, least # 0, store[f] >= least,
         NEW last, Fresh(last, shown[t][f], least)
  PROVE  Fresh(last, shown'[t][f], least)
<1>1. store[f] \in 0 .. MaxRenders
  BY WebViewAssumption DEF StoreTypes
<1>2. store[f] # None
  BY <1>1, WebViewAssumption
<1> QED
  BY <1>2 DEF Fresh, Rests

\* What a tab makes of a message about f or about something else.
LEMMA TabTakes ==
  ASSUME WebTypes, NEW t \in Tabs, TabHandles(t), NEW f \in Frames, NEW o,
         o = Of(Head(wire[SocketOf[t]]), On(f))
  PROVE  /\ wire[SocketOf[t]] \in Seq(Sendable) /\ wire[SocketOf[t]] # <<>>
         /\ wire'[SocketOf[t]] = Tail(wire[SocketOf[t]])
         /\ o \in {"none", "render", "close"}
         /\ o = "render" => shown'[t][f] = store[f]
         /\ o = "none" => shown'[t][f] = shown[t][f]
<1>0. /\ wire \in [Sockets -> Seq(Sendable)] /\ CallTypes /\ StoreTypes /\ PageTypes
      /\ t \in Viewers /\ SocketOf[t] \in Sockets
  BY WebViewAssumption DEF WebTypes, QueueTypes
<1>1. PICK s \in Sockets : s = SocketOf[t]
  BY <1>0
<1>m. PICK m : m = Head(wire[s])
  OBVIOUS
<1>2. /\ wire[s] \in Seq(Sendable) /\ wire[s] # <<>> /\ wire'[s] = Tail(wire[s])
      /\ m \in Sendable /\ Handle(t, m)
  BY <1>0, <1>1, <1>m DEF TabHandles
<1>3. /\ m = [type |-> "render", frame |-> f] => shown'[t][f] = store[f]
      /\ m \notin On(f) => shown'[t][f] = shown[t][f]
  BY <1>0, <1>2, HandleStep
<1> QED
  BY <1>1, <1>m, <1>2, <1>3, OfShape

LEMMA WillShowStep ==
  WebTypes /\ Bufs /\ Pages /\ Versions /\ WillShow /\ [WindowNext]_uiVars => WillShow'
<1> SUFFICES ASSUME WebTypes, Bufs, Pages, Versions, WillShow, [WindowNext]_uiVars,
                    NEW t \in Tabs, NEW c \in Callers, NEW f \in Frames,
                    Wants(c)', call'[c].frame = f, f \notin behind'[t], Hears(SocketOf[t], f)'
             PROVE  Fresh(Says(wire[SocketOf[t]], f)', shown'[t][f], call'[c].least)
  BY DEF WillShow
<1>0. /\ CallTypes /\ StoreTypes /\ DownIsEmpty
      /\ wire \in [Sockets -> Seq(Sendable)]
  BY DEF WebTypes, QueueTypes, Bufs
<1>w. /\ Tabs \cap Windows = {} /\ t \in Viewers /\ SocketOf \in [Viewers -> Sockets]
      /\ \A u \in Viewers : SocketOf[u] = Daemon <=> u \in Windows
      /\ \A u \in Tabs : SocketOf[u] = SocketOf[t] => u = t
  BY WebViewAssumption, WindowAssumption
<1>s. PICK s \in Sockets : s = SocketOf[t]
  BY <1>w
<1>q. Says(wire[SocketOf[t]], f)' = Says(wire'[s], f)
  BY <1>s DEF Says
\* The request is registered: the tab is in step now.
<1>1. ASSUME NEW g \in Frames, SnapshotRegister(c, g)
      PROVE  Fresh(Says(wire'[s], f), shown'[t][f], call'[c].least)
  <2>1. /\ call'[c].frame = g /\ call'[c].least = (IF Changing(g) = {} THEN store[g] ELSE 0)
        /\ store[g] # 0 /\ store[g] \in Nat
        /\ UNCHANGED <<store, wire, uplink, conn, shown, behind>>
    BY <1>0, <1>1, RegisterStep
  <2>2. g = f /\ Changing(f) = {} /\ call'[c].least = store[f] /\ store[f] # 0
    BY <2>1 DEF Wants
  <2>3. Hears(s, f)
    BY <1>s, <2>1 DEF Hears
  <2>4. Calm(t, f)
    BY <1>s, <1>w, <2>1, <2>2, <2>3 DEF Calm
  <2>5. Agrees(Latest(t, f), shown[t][f], store[f])
    BY <1>w, <2>4 DEF Pages, InSync
  <2>6. Latest(t, f) = Says(wire[s], f)
    BY <1>s, <1>w, ThenLaws DEF Latest, Inside
  <2>7. store[f] \in 0 .. MaxRenders
    BY <1>0, WebViewAssumption DEF StoreTypes
  <2>8. store[f] # None
    BY <2>7, WebViewAssumption
  <2> QED
    BY <2>1, <2>2, <2>5, <2>6, <2>8 DEF Fresh, Agrees
<1>2. ASSUME ~\E g \in Frames : SnapshotRegister(c, g)
      PROVE  Fresh(Says(wire'[s], f), shown'[t][f], call'[c].least)
  <2>1. /\ Wants(c) /\ call[c] \in ShotCall /\ call[c].frame = f /\ call'[c].least = call[c].least
    BY <1>0, <1>2, WantsStep
  <2>2. PICK least \in Nat : least = call[c].least /\ call'[c].least = least /\ least # 0
    BY <2>1 DEF ShotCall, Wants
  <2>3. store[f] >= least /\ store[f] # 0 /\ \A d \in Changing(f) : call[d].op = "render"
    <3>1. store[f] >= least /\ \A d \in Changing(f) : call[d].op = "render"
      BY <2>1, <2>2 DEF Versions
    <3>2. store[f] \in Nat
      BY <1>0 DEF StoreTypes
    <3> QED
      BY <2>2, <3>1, <3>2
  <2>4. ~\E x \in Sockets : ReadClose(x, f)
    BY <1>0, <2>1, NotRemoved DEF Wants
  <2>5. CASE TabConnects(t)
    <3>1. wire' = [wire EXCEPT ![s] = Replay]
      BY <1>s, <2>5 DEF TabConnects, Connect, Opening
    <3>2. wire'[s] = Replay
      BY <1>0, <3>1
    <3>3. Says(Replay, f) = "render"
      BY <1>0, <2>3, ReplaySays DEF Says
    <3> QED
      BY <3>2, <3>3 DEF Fresh
  <2>6. CASE ~TabConnects(t)
    <3>1. ~Connect(s)
      BY <1>s, <1>w, <2>6, WhoConnects
    <3>2. Hears(s, f)'
      BY <1>s DEF Hears
    <3>3. Hears(s, f)
      BY <1>0, <2>4, <3>1, <3>2, HearsStep
    <3>4. Handles(t, f) \/ Sent(t, f) \/ Rests(t, f)
      BY <1>s, <3>2, <3>3, TabSees
    <3>5. f \notin behind[t] => Fresh(Says(wire[s], f), shown[t][f], least)
      BY <1>s, <2>1, <2>2, <3>3 DEF WillShow
    <3>6. CASE Handles(t, f)
      <4>1. PICK o : o = Of(Head(wire[s]), On(f))
        OBVIOUS
      <4>2. /\ wire[s] \in Seq(Sendable) /\ wire[s] # <<>> /\ wire'[s] = Tail(wire[s])
            /\ o \in {"none", "render", "close"}
            /\ o = "render" => shown'[t][f] = store[f]
            /\ o = "none" => shown'[t][f] = shown[t][f]
        BY <1>s, <3>6, <4>1, TabTakes DEF Handles
      <4>3. Says(wire[s], f) = Then(o, Says(wire'[s], f))
        BY <4>1, <4>2, SaysTail
      <4>4. Fresh(Then(o, Says(wire'[s], f)), shown[t][f], least)
        BY <3>5, <3>6, <4>3 DEF Handles
      <4> QED
        BY <1>0, <2>2, <2>3, <4>2, <4>4, FreshAfter
    <3>7. CASE Sent(t, f)
      <4>1. PICK m :
              /\ wire'[s] = Append(wire[s], m)
              /\ shown'[t][f] = shown[t][f]
              /\ \/ m \notin On(f) /\ (f \in behind[t] => f \in behind'[t])
                 \/ \E d \in Callers : SendRequest(d) /\ m = Request(d) /\ behind' = behind
                 \/ \E d \in Changing(f) : m = [type |-> call[d].op, frame |-> f]
        BY <1>s, <3>7 DEF Sent
      <4>2. Says(wire'[s], f) = Then(Says(wire[s], f), Of(m, On(f)))
        BY <1>0, <4>1, SaysAppend
      <4>3. CASE m = [type |-> "render", frame |-> f]
        BY <4>2, <4>3 DEF Of, On, Then, Fresh
      <4>4. CASE \E d \in Callers : SendRequest(d) /\ m = Request(d) /\ behind' = behind
        <5>1. PICK d \in Callers : SendRequest(d) /\ m = Request(d) /\ behind' = behind
          BY <4>4
        <5>2. m.type \in {"snapshot", "list"}
          BY <1>0, <5>1, RequestShape DEF SendRequest, Asking
        <5>3. Of(m, On(f)) = "none"
          BY <5>2 DEF Of, On
        <5> QED
          BY <2>2, <3>5, <4>1, <4>2, <5>1, <5>3, ThenLaws
      <4>5. CASE m \notin On(f) /\ (f \in behind[t] => f \in behind'[t])
        BY <2>2, <3>5, <4>1, <4>2, <4>5, ThenLaws DEF Of
      <4> QED
        BY <2>3, <4>1, <4>3, <4>4, <4>5
    <3>8. CASE Rests(t, f)
      <4>1. wire'[s] = wire[s] /\ f \notin behind[t]
        BY <1>s, <3>8 DEF Rests
      <4>2. PICK last : last = Says(wire[s], f)
        OBVIOUS
      <4>3. Fresh(last, shown[t][f], least)
        BY <3>5, <4>1, <4>2
      <4>4. Fresh(last, shown'[t][f], least)
        BY <1>0, <2>2, <2>3, <3>8, <4>3, FreshRests
      <4> QED
        BY <2>2, <4>1, <4>2, <4>4
    <3> QED
      BY <3>4, <3>6, <3>7, <3>8
  <2> QED
    BY <2>5, <2>6
<1> QED
  BY <1>1, <1>2, <1>q

LEMMA AskedStep ==
  WebTypes /\ Bufs /\ Versions /\ WillShow /\ Asked /\ [WindowNext]_uiVars => Asked'
<1> SUFFICES ASSUME WebTypes, Bufs, Versions, WillShow, Asked, [WindowNext]_uiVars,
                    NEW t \in Tabs, NEW c \in Callers, NEW f \in Frames, NEW s, NEW q,
                    s = SocketOf[t], q = wire'[s],
                    Wants(c)', call'[c].frame = f, Hears(s, f)', NEW i \in 1 .. Len(q),
                    q[i] \in ShotMessage, q[i].id = call'[c].id, t \in q[i].sure
             PROVE  Fresh(LastOf(q, i - 1, On(f)), shown'[t][f], call'[c].least)
  BY DEF Asked, Hears
<1>0. /\ CallTypes /\ StoreTypes /\ DownIsEmpty
      /\ wire \in [Sockets -> Seq(Sendable)]
  BY DEF WebTypes, QueueTypes, Bufs
<1>w. /\ t \in Viewers /\ s \in Sockets /\ s # Daemon
      /\ \A u \in Tabs : SocketOf[u] = s => u = t
  BY WebViewAssumption, WindowAssumption
<1>p. PICK p \in Seq(Sendable) : p = wire[s]
  BY <1>0, <1>w
<1>m. \A m \in Sendable : m \in ShotMessage => m.id \in Nat /\ m.id <= calls
  BY DEF Sendable, Fits, ShotMessage
\* A request that begins has sent nothing yet.
<1>1. ASSUME NEW g \in Frames, SnapshotRegister(c, g) PROVE FALSE
  <2>1. call'[c].id = calls + 1 /\ wire' = wire /\ calls \in Nat
    BY <1>0, <1>1, RegisterStep DEF CallTypes
  <2>2. q[i] \in Sendable
    BY <1>p, <2>1
  <2> QED
    BY <1>m, <2>1, <2>2
<1>2. ASSUME ~\E g \in Frames : SnapshotRegister(c, g)
      PROVE  Fresh(LastOf(q, i - 1, On(f)), shown'[t][f], call'[c].least)
  <2>1. /\ Wants(c) /\ call[c] \in ShotCall /\ call[c].frame = f /\ call[c].id = call'[c].id
        /\ call'[c].least = call[c].least
    BY <1>0, <1>2, WantsStep
  <2>2. PICK least \in Nat : least = call[c].least /\ call'[c].least = least /\ least # 0
    BY <2>1 DEF ShotCall, Wants
  <2>3. store[f] >= least
    BY <2>1, <2>2 DEF Versions
  <2>4. ~\E x \in Sockets : ReadClose(x, f)
    BY <1>0, <2>1, NotRemoved DEF Wants
  <2>5. CASE TabConnects(t)
    <3>1. wire' = [wire EXCEPT ![s] = Replay]
      BY <2>5 DEF TabConnects, Connect, Opening
    <3>2. q = Replay /\ q \in Seq(Resend)
      BY <1>0, <1>w, <3>1, ReplayShape
    <3>3. q[i] \in Resend
      BY <3>2
    <3>4. \A m \in Resend : m.type = "render"
      BY DEF Resend
    <3>5. \A m \in ShotMessage : m.type = "snapshot"
      BY DEF ShotMessage
    <3> QED
      BY <3>3, <3>4, <3>5
  <2>6. CASE ~TabConnects(t)
    <3>1. ~Connect(s)
      BY <1>w, <2>6, WhoConnects
    <3>2. Hears(s, f)
      BY <1>0, <1>w, <2>4, <3>1, HearsStep
    <3>3. Handles(t, f) \/ Sent(t, f) \/ Rests(t, f)
      BY <3>2, TabSees
    <3>4. \A j \in 1 .. Len(p) :
            p[j] \in ShotMessage /\ p[j].id = call[c].id /\ t \in p[j].sure
              => Fresh(LastOf(p, j - 1, On(f)), shown[t][f], least)
      BY <1>p, <2>1, <2>2, <3>2 DEF Asked
    <3>5. CASE Handles(t, f)
      <4>1. PICK o : o = Of(Head(p), On(f))
        OBVIOUS
      <4>2. /\ p # <<>> /\ q = Tail(p)
            /\ o \in {"none", "render", "close"}
            /\ o = "render" => shown'[t][f] = store[f]
            /\ o = "none" => shown'[t][f] = shown[t][f]
        BY <1>p, <3>5, <4>1, TabTakes DEF Handles
      <4>3. i \in 1 .. Len(p) /\ i + 1 \in 1 .. Len(p) /\ p[i + 1] = q[i] /\ (i + 1) - 1 = i
        BY <4>2
      <4>4. Fresh(LastOf(p, i, On(f)), shown[t][f], least)
        BY <2>1, <3>4, <4>3
      <4>5. LastOf(p, i, On(f)) = Then(o, LastOf(q, i - 1, On(f)))
        BY <4>1, <4>2, <4>3, LastTail, AllTell
      <4>6. PICK last : last = LastOf(q, i - 1, On(f))
        OBVIOUS
      <4>7. Fresh(Then(o, last), shown[t][f], least)
        BY <4>4, <4>5, <4>6
      <4>8. Fresh(last, shown'[t][f], least)
        BY <1>0, <2>2, <2>3, <4>2, <4>7, FreshAfter
      <4> QED
        BY <2>2, <4>6, <4>8
    <3>6. CASE Sent(t, f)
      <4>1. PICK m :
              /\ q = Append(p, m)
              /\ shown'[t][f] = shown[t][f]
              /\ \/ m.type # "snapshot"
                 \/ \E d \in Callers : SendRequest(d) /\ m = Request(d)
                 \/ \E d \in Callers : Broadcast(d) /\ m = [type |-> call[d].op, frame |-> f]
        BY <1>p, <3>6 DEF Sent
      <4>2. /\ Len(q) = Len(p) + 1 /\ q[Len(p) + 1] = m /\ Len(p) \in Nat
            /\ \A j \in 1 .. Len(p) : q[j] = p[j]
        BY <1>p, <4>1
      <4>3. CASE i \in 1 .. Len(p)
        <5>1. PICK n \in Nat : n = i - 1 /\ \A j \in 1 .. n : q[j] = p[j]
          BY <4>2, <4>3
        <5>5. Alike(q, p, n)
          BY <5>1 DEF Alike
        <5>6. LastOf(q, n, On(f)) = LastOf(p, n, On(f))
          BY <5>5, LastSame
        <5>2. LastOf(q, i - 1, On(f)) = LastOf(p, i - 1, On(f))
          BY <5>1, <5>6
        <5>3. Fresh(LastOf(p, i - 1, On(f)), shown[t][f], least)
          BY <2>1, <3>4, <4>2, <4>3
        <5> QED
          BY <2>2, <4>1, <5>2, <5>3
      \* The request itself: the tab is sure, and what it has been told comes before.
      <4>4. CASE i = Len(p) + 1
        <5>1. m.type = "snapshot" /\ m.id = call[c].id /\ t \in m.sure
          BY <2>1, <4>2, <4>4 DEF ShotMessage
        <5>2. ~\E d \in Callers : Broadcast(d) /\ m = [type |-> call[d].op, frame |-> f]
          <6> SUFFICES ASSUME NEW d \in Callers, Broadcast(d),
                              m = [type |-> call[d].op, frame |-> f]
                       PROVE  FALSE
            OBVIOUS
          <6>1. m.type = call[d].op /\ call[d].op \in {"render", "close"}
            BY DEF Broadcast
          <6> QED
            BY <5>1, <6>1
        <5>3. PICK d \in Callers : SendRequest(d) /\ m = Request(d)
          BY <4>1, <5>1, <5>2
        <5>4. Asking(d) /\ Asking(c)
          BY <2>1, <5>3 DEF SendRequest, Asking, Wants
        <5>5. d = c
          BY <1>0, <5>1, <5>3, <5>4, RequestShape DEF CallTypes
        <5>6. f \notin behind[t]
          BY <1>0, <2>1, <5>1, <5>3, <5>4, <5>5, RequestShape DEF Wants
        <5>7. Fresh(Says(p, f), shown[t][f], least)
          BY <1>p, <2>1, <2>2, <3>2, <5>6 DEF WillShow
        <5>8. LastOf(q, Len(p), On(f)) = Says(p, f)
          <6>1. PICK n \in Nat : n = Len(p) /\ \A j \in 1 .. n : q[j] = p[j]
            BY <4>2
          <6>2. Alike(q, p, n)
            BY <6>1 DEF Alike
          <6>3. LastOf(q, n, On(f)) = LastOf(p, n, On(f))
            BY <6>2, LastSame
          <6> QED
            BY <6>1, <6>3 DEF Says
        <5> QED
          BY <2>2, <4>1, <4>2, <4>4, <5>7, <5>8
      <4> QED
        BY <4>2, <4>3, <4>4
    <3>7. CASE Rests(t, f)
      <4>1. q = p
        BY <1>p, <3>7 DEF Rests
      <4>2. PICK last : last = LastOf(q, i - 1, On(f))
        OBVIOUS
      <4>3. Fresh(last, shown[t][f], least)
        BY <2>1, <3>4, <4>1, <4>2
      <4>4. Fresh(last, shown'[t][f], least)
        BY <1>0, <2>2, <2>3, <3>7, <4>3, FreshRests
      <4> QED
        BY <2>2, <4>2, <4>4
    <3> QED
      BY <3>3, <3>5, <3>6, <3>7
  <2> QED
    BY <2>5, <2>6
<1> QED
  BY <1>1, <1>2
-----------------------------------------------------------------------------
(***************************************************************************)
(* What a step does to the answers on their way from a socket: the broker  *)
(* reads one, which it acts upon; or a page or the daemon answers the      *)
(* message that it handles; or it sends something else; or all are lost.   *)
(***************************************************************************)
Read(s) ==
  /\ uplink[s] # <<>> /\ uplink'[s] = Tail(uplink[s])
  /\ Head(uplink[s]).type = "close" => ReadClose(s, Head(uplink[s]).frame)

\* The page that handles m, the next message of its socket or one that the daemon
\* passed on, and has no such frame.
Replied(v, m) ==
  /\ m \in Sendable /\ m.type = "snapshot" /\ shown[v][m.frame] = None
  /\ conn[SocketOf[v]] # "down"
  /\ v \in Tabs => wire[SocketOf[v]] # <<>> /\ m = Head(wire[SocketOf[v]])
  /\ uplink'[SocketOf[v]] =
       Append(uplink[SocketOf[v]],
              [type |-> "answer", id |-> m.id, got |-> None, sure |-> v \in m.sure])

\* The page passes on what the document in a frame has answered.
Passed(v) ==
  \E a \in asked[v] : \E got \in {0, a.got} :
    uplink'[SocketOf[v]] = Append(uplink[SocketOf[v]], [a EXCEPT !.got = got])

ListReplied ==
  \E id \in Nat :
    /\ wire[Daemon] # <<>> /\ Head(wire[Daemon]) = [type |-> "list", id |-> id]
    /\ uplink'[Daemon] =
         Append(uplink[Daemon], [type |-> "answer", id |-> id, got |-> Open])

Other(s) == \E m : m.type # "answer" /\ uplink'[s] = Append(uplink[s], m)

LEMMA UplinkSees ==
  ASSUME WebTypes, Bufs, [WindowNext]_uiVars, NEW s \in Sockets
  PROVE  \/ uplink'[s] = uplink[s] \/ uplink'[s] = <<>>
         \/ Read(s) \/ Other(s)
         \/ \E v \in Viewers : SocketOf[v] = s /\ (Passed(v) \/ \E m : Replied(v, m))
         \/ s = Daemon /\ ListReplied
<1> DEFINE G == \/ uplink'[s] = uplink[s] \/ uplink'[s] = <<>>
                \/ Read(s) \/ Other(s)
                \/ \E v \in Viewers : SocketOf[v] = s /\ (Passed(v) \/ \E m : Replied(v, m))
                \/ s = Daemon /\ ListReplied
<1>0. /\ wire \in [Sockets -> Seq(Sendable)] /\ uplink \in [Sockets -> Seq(Returnable)]
      /\ emitted \in [Windows -> Seq(Sendable)] /\ backlog \in [Windows -> Seq(Sendable)]
      /\ calls \in Nat
  BY DEF WebTypes, QueueTypes, CallTypes
<1>w. /\ Tabs \cap Windows = {} /\ Viewers = Tabs \cup Windows
      /\ SocketOf \in [Viewers -> Sockets] /\ Daemon \in Sockets /\ Openers \subseteq Callers
  BY WebViewAssumption, WindowAssumption
<1>1. ASSUME uplink' = uplink PROVE G
  BY <1>1
<1>2. ASSUME NEW v \in Viewers, NEW m \in Sendable, Handle(v, m),
             v \in Tabs => wire[SocketOf[v]] # <<>> /\ m = Head(wire[SocketOf[v]])
      PROVE  G
  <2>1. PICK x \in Sockets : x = SocketOf[v]
    BY <1>w
  <2>2. uplink' = [uplink EXCEPT ![x] =
          IF conn[x] # "down" THEN uplink[x] \o Replies(v, m) ELSE uplink[x]]
    BY <1>2, <2>1 DEF Handle
  <2>3. CASE x # s \/ conn[x] = "down"
    BY <1>0, <2>2, <2>3
  <2>4. CASE x = s /\ conn[x] # "down"
    <3>1. uplink'[s] = uplink[s] \o Replies(v, m) /\ uplink[s] \in Seq(Returnable)
      BY <1>0, <2>2, <2>4
    <3>2. CASE ~(m.type = "snapshot" /\ shown[v][m.frame] = None)
      <4>1. Replies(v, m) = <<>>
        BY <3>2 DEF Replies
      <4> QED
        BY <3>1, <4>1
    <3>3. CASE m.type = "snapshot" /\ shown[v][m.frame] = None
      <4>1. PICK a : a = [type |-> "answer", id |-> m.id, got |-> None, sure |-> v \in m.sure]
        OBVIOUS
      <4>2. Replies(v, m) = <<a>>
        BY <3>3, <4>1 DEF Replies
      <4>3. uplink'[s] = Append(uplink[s], a)
        BY <3>1, <4>2
      <4> QED
        BY <1>2, <2>1, <2>4, <3>3, <4>1, <4>3 DEF Replied
    <3> QED
      BY <3>2, <3>3
  <2> QED
    BY <2>3, <2>4
<1>3. ASSUME NEW x \in Sockets, uplink[x] # <<>>, uplink' = [uplink EXCEPT ![x] = Tail(uplink[x])],
             Head(uplink[x]).type = "close" => ReadClose(x, Head(uplink[x]).frame)
      PROVE  G
  BY <1>0, <1>3 DEF Read
<1>4. ASSUME NEW x \in Sockets, NEW m, m.type # "answer",
             uplink' = [uplink EXCEPT ![x] = Append(uplink[x], m)] \/ uplink' = uplink
      PROVE  G
  BY <1>0, <1>4 DEF Other
<1>5. ASSUME NEW c \in Callers, Agent(c) \/ WindowAgent(c) PROVE G
  <2>1. uplink' = uplink
    BY <1>5 DEF Agent, RenderInsert, CloseRemove, SnapshotRegister, RequestTimesOut, Broadcast,
       SendRequest, brokerVars, WindowAgent, WindowOpen, WindowClose, ListRegister
  <2> QED
    BY <1>1, <2>1
<1>6. ASSUME NEW x \in Sockets, Socket(x) PROVE G
  <2>1. CASE Join(x)
    BY <1>1, <2>1 DEF Join
  <2>2. CASE ReadAnswer(x)
    <3>1. /\ uplink[x] # <<>> /\ uplink' = [uplink EXCEPT ![x] = Tail(uplink[x])]
          /\ Head(uplink[x]).type # "close"
      BY <2>2 DEF ReadAnswer
    <3> QED
      BY <1>3, <3>1
  <2>3. ASSUME NEW g \in Frames, ReadClose(x, g) PROVE G
    <3>1. /\ uplink[x] # <<>> /\ uplink' = [uplink EXCEPT ![x] = Tail(uplink[x])]
          /\ Head(uplink[x]).frame = g
      BY <2>3 DEF ReadClose
    <3> QED
      BY <1>3, <2>3, <3>1
  <2> QED
    BY <1>6, <2>1, <2>2, <2>3 DEF Socket
<1>7. CASE (\E t \in Tabs : TabConnects(t)) \/ DaemonConnects
  BY <1>1, <1>7 DEF TabConnects, DaemonConnects, Connect
<1>8. CASE Replays
  <2>1. /\ uplink[Daemon] # <<>> /\ uplink' = [uplink EXCEPT ![Daemon] = Tail(uplink[Daemon])]
        /\ Head(uplink[Daemon]).type # "close"
    BY <1>8 DEF Replays, ReadReplay
  <2> QED
    BY <1>3, <1>w, <2>1
<1>9. ASSUME NEW x \in Sockets, Drops(x) PROVE G
  <2>1. uplink' = [uplink EXCEPT ![x] = <<>>]
    BY <1>9 DEF Drops, Drop
  <2> QED
    BY <1>0, <2>1
<1>10. ASSUME NEW t \in Tabs, TabHandles(t) PROVE G
  <2>1. t \in Viewers /\ SocketOf[t] \in Sockets
    BY <1>w
  <2>2. /\ wire[SocketOf[t]] # <<>> /\ Head(wire[SocketOf[t]]) \in Sendable
        /\ Handle(t, Head(wire[SocketOf[t]]))
    BY <1>0, <1>10, <2>1 DEF TabHandles
  <2> QED
    BY <1>2, <2>1, <2>2
<1>11. CASE Bridge
  <2>1. CASE DaemonLists
    <3>1. PICK id \in 1 .. calls :
            /\ wire[Daemon] # <<>> /\ Head(wire[Daemon]) = [type |-> "list", id |-> id]
            /\ uplink' = [uplink EXCEPT ![Daemon] =
                 Append(@, [type |-> "answer", id |-> id, got |-> Open])]
      BY <2>1 DEF DaemonLists, Incoming
    <3>2. id \in Nat
      BY <1>0
    <3> QED
      BY <1>0, <1>w, <3>1, <3>2 DEF ListReplied
  <2>2. CASE ~DaemonLists
    BY <1>1, <1>11, <2>2 DEF Bridge, DaemonOpens, DaemonCloses, WindowGoes, DaemonEmits,
       DaemonHolds, DaemonBuffers, brokerVars
  <2> QED
    BY <2>1, <2>2
<1>12. ASSUME NEW w \in Windows, Page(w) PROVE G
  <2>0. w \in Viewers /\ w \notin Tabs
    BY <1>w
  <2>1. CASE PageListens(w) \/ ClientReady(w) \/ TakePending(w)
    BY <1>1, <2>1 DEF PageListens, ClientReady, TakePending, webVars, brokerVars
  <2>2. CASE PageAsksReplay(w)
    <3>1. PICK m : m = [type |-> "replay"]
      OBVIOUS
    <3>2. uplink' = [uplink EXCEPT ![Daemon] =
            IF conn[Daemon] = "up" THEN Append(uplink[Daemon], m) ELSE uplink[Daemon]]
      BY <2>2, <3>1 DEF PageAsksReplay
    <3>3. m.type # "answer"
      BY <3>1
    <3>4. uplink' = [uplink EXCEPT ![Daemon] = Append(uplink[Daemon], m)] \/ uplink' = uplink
      BY <1>0, <1>w, <3>2
    <3> QED
      BY <1>4, <1>w, <3>3, <3>4
  <2>3. CASE HandleBacklog(w)
    <3>1. CASE backlog[w] = <<>>
      BY <1>1, <2>3, <3>1 DEF HandleBacklog
    <3>2. CASE backlog[w] # <<>>
      <4>1. Head(backlog[w]) \in Sendable /\ Handle(w, Head(backlog[w]))
        BY <1>0, <2>3, <3>2 DEF HandleBacklog
      <4> QED
        BY <1>2, <2>0, <4>1
    <3> QED
      BY <3>1, <3>2
  <2>4. CASE HandleEvent(w)
    <3>1. Head(emitted[w]) \in Sendable /\ Handle(w, Head(emitted[w]))
      BY <1>0, <2>4 DEF HandleEvent
    <3> QED
      BY <1>2, <2>0, <3>1
  <2> QED
    BY <1>12, <2>1, <2>2, <2>3, <2>4 DEF Page
<1>13. CASE User
  <2>1. ASSUME NEW v \in Viewers, NEW g \in Frames, UserCloses(v, g) PROVE G
    <3>0. PICK m : m = [type |-> "close", frame |-> g]
      OBVIOUS
    <3>1. PICK x \in Sockets : m = [type |-> "close", frame |-> g] /\ x = SocketOf[v]
      BY <1>w, <3>0
    <3>2. uplink' =
            [uplink EXCEPT ![x] = IF conn[x] # "down" THEN Append(uplink[x], m) ELSE uplink[x]]
      BY <2>1, <3>1 DEF UserCloses
    <3>3. uplink' = [uplink EXCEPT ![x] = Append(uplink[x], m)] \/ uplink' = uplink
      BY <1>0, <3>2
    <3> QED
      BY <1>4, <3>1, <3>3
  <2>2. CASE \E w \in Windows : UserClosesWindow(w)
    BY <1>1, <2>2 DEF UserClosesWindow
  <2> QED
    BY <1>13, <2>1, <2>2 DEF User
<1>14. CASE UNCHANGED uiVars
  BY <1>1, <1>14 DEF uiVars, webVars, brokerVars
<1>15. ASSUME NEW v \in Viewers, Iframes(v) PROVE G
  <2>1. CASE uplink' = uplink
    BY <1>1, <2>1
  <2>2. ASSUME NEW a \in asked[v], FrameAnswers(v, a) PROVE G
    <3>1. PICK x \in Sockets : x = SocketOf[v]
      BY <1>w
    <3>5. PICK got \in {0, a.got} :
            uplink' = [uplink EXCEPT ![x] =
              IF conn[x] # "down" THEN Append(uplink[x], [a EXCEPT !.got = got]) ELSE uplink[x]]
      BY <2>2, <3>1 DEF FrameAnswers
    <3>2. PICK b :
            /\ b = [a EXCEPT !.got = got]
            /\ uplink' =
                 [uplink EXCEPT ![x] = IF conn[x] # "down" THEN Append(uplink[x], b) ELSE uplink[x]]
      BY <3>5
    <3>3. CASE x # s \/ conn[x] = "down"
      BY <1>0, <3>2, <3>3
    <3>4. CASE x = s /\ conn[x] # "down"
      <4>1. uplink'[s] = Append(uplink[s], b)
        BY <1>0, <3>2, <3>4
      <4> QED
        BY <3>1, <3>2, <3>4, <4>1 DEF Passed
    <3> QED
      BY <3>3, <3>4
  <2> QED
    BY <1>15, <2>1, <2>2, IframesStep
<1> QED
  BY <1>5, <1>6, <1>7, <1>8, <1>9, <1>10, <1>11, <1>12, <1>13, <1>14, <1>15, <1>w DEF WindowNext

(***************************************************************************)
(* A sure answer is of the version that the request has noted or a later   *)
(* one, or the document's error, unless the answering page's user closed   *)
(* the frame before: the broker reads that first and forgets the version.  *)
(***************************************************************************)
IsCurrent(got, least) == got # None /\ (got = 0 \/ got >= least)

\* So is what a page's documents were asked for.
Posted ==
  \A v \in Viewers, c \in Callers : Wants(c) =>
    \A a \in asked[v] : a.id = call[c].id /\ a.sure => IsCurrent(a.got, call[c].least)

Answered ==
  \A s \in Sockets, c \in Callers, f \in Frames :
    Wants(c) /\ call[c].frame = f
      => \A i \in 1 .. Len(uplink[s]) :
           /\ uplink[s][i] \in PageAnswer /\ uplink[s][i].id = call[c].id /\ uplink[s][i].sure
           /\ \A j \in 1 .. (i - 1) : uplink[s][j] # CloseOf(f)
           => IsCurrent(uplink[s][i].got, call[c].least)

\* The page hands m to the document that is in the frame.
Posting(v, m) ==
  /\ m \in Sendable /\ m.type = "snapshot" /\ shown[v][m.frame] # None
  /\ v \in Tabs =>
       /\ conn[SocketOf[v]] # "down"
       /\ wire[SocketOf[v]] # <<>> /\ m = Head(wire[SocketOf[v]])

PostedFor(v, m, a) ==
  /\ Posting(v, m) /\ a.id = m.id /\ a.got = doc[v][m.frame]
  /\ a.sure => v \in m.sure /\ m.frame \notin loading[v] /\ ~Closes(v, m.frame)

LEMMA AskedSees ==
  ASSUME WebTypes, [WindowNext]_uiVars, NEW v \in Viewers, NEW a \in asked'[v]
  PROVE  a \in asked[v] \/ \E m : PostedFor(v, m, a)
<1> DEFINE G == a \in asked[v] \/ \E m : PostedFor(v, m, a)
<1>0. /\ wire \in [Sockets -> Seq(Sendable)]
      /\ emitted \in [Windows -> Seq(Sendable)] /\ backlog \in [Windows -> Seq(Sendable)]
      /\ asked \in [Viewers -> SUBSET (Returnable \cap PageAnswer)]
  BY DEF WebTypes, QueueTypes, FrameTypes
<1>w. /\ Tabs \cap Windows = {} /\ Viewers = Tabs \cup Windows
      /\ SocketOf \in [Viewers -> Sockets] /\ Daemon \in Sockets /\ Openers \subseteq Callers
  BY WebViewAssumption, WindowAssumption
<1>1. CASE asked' = asked
  BY <1>1
<1>2. ASSUME NEW u \in Viewers, NEW m \in Sendable, Handle(u, m),
             u \in Tabs => /\ conn[SocketOf[u]] # "down"
                          /\ wire[SocketOf[u]] # <<>> /\ m = Head(wire[SocketOf[u]])
      PROVE  G
  <2>1. asked' = [asked EXCEPT ![u] = Posts(u, m)]
    BY <1>2 DEF Handle
  <2>2. CASE u # v \/ a \in asked[v]
    BY <1>0, <2>1, <2>2
  <2>3. CASE u = v /\ a \notin asked[v]
    <3>1. PICK sure : sure = (v \in m.sure /\ m.frame \notin loading[v] /\ ~Closes(v, m.frame))
      OBVIOUS
    <3>2. /\ m.type = "snapshot" /\ shown[v][m.frame] # None
          /\ a = [type |-> "answer", id |-> m.id, got |-> doc[v][m.frame], sure |-> sure]
      BY <1>0, <2>1, <2>3, <3>1 DEF Posts
    <3>3. a.id = m.id /\ a.got = doc[v][m.frame] /\ (a.sure => sure)
      BY <3>2
    <3> QED
      BY <1>2, <2>3, <3>1, <3>2, <3>3 DEF Posting, PostedFor
  <2> QED
    BY <2>2, <2>3
<1>3. ASSUME NEW c \in Callers, Agent(c) \/ WindowAgent(c) PROVE asked' = asked
  BY <1>3 DEF Agent, RenderInsert, CloseRemove, SnapshotRegister, RequestTimesOut, Broadcast,
     SendRequest, WindowAgent, WindowOpen, WindowClose, ListRegister
<1>4. ASSUME NEW s \in Sockets, Socket(s) \/ Drops(s) PROVE asked' = asked
  BY <1>4 DEF Socket, Join, ReadClose, ReadAnswer, Drops, Drop
<1>5. ASSUME (\E t \in Tabs : TabConnects(t)) \/ DaemonConnects \/ Replays PROVE asked' = asked
  BY <1>5 DEF TabConnects, DaemonConnects, Connect, Replays, ReadReplay
<1>6. ASSUME NEW t \in Tabs, TabHandles(t) PROVE G
  <2>1. t \in Viewers /\ SocketOf[t] \in Sockets
    BY <1>w
  <2>2. /\ conn[SocketOf[t]] # "down"
        /\ wire[SocketOf[t]] # <<>> /\ Head(wire[SocketOf[t]]) \in Sendable
        /\ Handle(t, Head(wire[SocketOf[t]]))
    BY <1>0, <1>6, <2>1 DEF TabHandles
  <2> QED
    BY <1>2, <2>1, <2>2
\* Nobody is asked in a window that goes.
<1>7. ASSUME NEW w \in Windows, Blank(w) PROVE G
  BY <1>0, <1>7, <1>w DEF Blank
<1>8. CASE Bridge
  <2>1. CASE \E w \in Windows : Blank(w)
    BY <1>7, <2>1
  <2>2. CASE ~\E w \in Windows : Blank(w)
    BY <1>1, <1>8, <2>2 DEF Bridge, DaemonOpens, DaemonCloses, WindowGoes, DaemonLists, DaemonEmits,
       DaemonHolds, DaemonBuffers
  <2> QED
    BY <2>1, <2>2
<1>9. ASSUME NEW w \in Windows, Page(w) PROVE G
  <2>0. w \in Viewers /\ w \notin Tabs
    BY <1>w
  <2>1. CASE \E m \in Sendable : Handle(w, m)
    BY <1>2, <2>0, <2>1
  <2>2. CASE HandleBacklog(w) /\ backlog[w] # <<>>
    BY <1>0, <2>1, <2>2 DEF HandleBacklog
  <2>3. CASE HandleEvent(w)
    BY <1>0, <2>1, <2>3 DEF HandleEvent
  <2>4. CASE HandleBacklog(w) /\ backlog[w] = <<>>
    BY <1>1, <2>4 DEF HandleBacklog
  <2> QED
    BY <1>1, <1>9, <2>2, <2>3, <2>4 DEF Page, PageListens, PageAsksReplay, ClientReady, TakePending,
       webVars
<1>10. CASE User
  <2>1. CASE \E w \in Windows : UserClosesWindow(w)
    BY <1>7, <2>1 DEF UserClosesWindow
  <2>2. CASE \E u \in Viewers, g \in Frames : UserCloses(u, g)
    BY <1>1, <2>2 DEF UserCloses
  <2> QED
    BY <1>10, <2>1, <2>2 DEF User
<1>11. ASSUME NEW u \in Viewers, Iframes(u) PROVE G
  <2>1. ASSUME NEW b \in asked[u], FrameAnswers(u, b) PROVE a \in asked[v]
    BY <1>0, <2>1 DEF FrameAnswers
  <2> QED
    BY <1>1, <1>11, <2>1, IframesStep
<1>12. CASE UNCHANGED uiVars
  BY <1>1, <1>12 DEF uiVars, webVars
<1> QED
  BY <1>1, <1>3, <1>4, <1>5, <1>6, <1>8, <1>9, <1>10, <1>11, <1>12, <1>w DEF WindowNext

LEMMA PostedStep ==
  WebTypes /\ Asked /\ Posted /\ [WindowNext]_uiVars => Posted'
<1> SUFFICES ASSUME WebTypes, Asked, Posted, [WindowNext]_uiVars,
                    NEW v \in Viewers, NEW c \in Callers, Wants(c)', NEW a \in asked'[v],
                    a.id = call'[c].id, a.sure
             PROVE  IsCurrent(a.got, call'[c].least)
  BY DEF Posted
<1>0. CallTypes /\ StoreTypes /\ FrameTypes
  BY DEF WebTypes
\* A request that begins was not posted.
<1>1. ASSUME NEW g \in Frames, SnapshotRegister(c, g) PROVE FALSE
  <2>1. call'[c].id = calls + 1 /\ calls \in Nat /\ asked' = asked
    BY <1>0, <1>1, RegisterStep DEF CallTypes, SnapshotRegister
  <2>2. a \in Returnable /\ a \in PageAnswer
    BY <1>0, <2>1 DEF FrameTypes
  <2> QED
    BY <2>1, <2>2 DEF Returnable, Answers, PageAnswer
<1>2. ASSUME ~\E g \in Frames : SnapshotRegister(c, g)
      PROVE  IsCurrent(a.got, call'[c].least)
  <2>1. PICK f \in Frames :
          /\ Wants(c) /\ call[c] \in ShotCall /\ call[c].frame = f
          /\ call[c].id = call'[c].id /\ call'[c].least = call[c].least
    BY <1>0, <1>2, WantsStep DEF ShotCall
  <2>2. CASE a \in asked[v]
    BY <2>1, <2>2 DEF Posted
  <2>3. CASE a \notin asked[v]
    <3>0. PICK m : PostedFor(v, m, a)
      BY <2>3, AskedSees
    <3>1. /\ Posting(v, m) /\ a.id = m.id /\ a.got = doc[v][m.frame]
          /\ v \in m.sure /\ m.frame \notin loading[v] /\ ~Closes(v, m.frame)
      BY <3>0 DEF PostedFor
    <3>2. m \in Message /\ m.type = "snapshot" /\ Fits(m) /\ shown[v][m.frame] # None
      BY <3>1 DEF Posting, Sendable
    <3>3. m \in ShotMessage
      BY <3>2, MessageShape
    <3>4. v \in Tabs
      BY <3>1, <3>3 DEF ShotMessage
    <3>5. m.frame = f
      BY <2>1, <3>1, <3>2 DEF Fits, Asking, Wants
    <3>6. doc[v][f] = shown[v][f] /\ shown[v][f] # None
      BY <1>0, <3>1, <3>2, <3>5 DEF FrameTypes
    <3>7. PICK s \in Sockets : s = SocketOf[v]
      BY WebViewAssumption
    <3>8. Hears(s, f)
      BY <3>1, <3>4, <3>5, <3>7 DEF Hears, Posting, Closes, CloseOf
    <3>9. PICK w \in Seq(Sendable) : w = wire[s] /\ w # <<>> /\ m = Head(w)
      BY <3>1, <3>4, <3>7 DEF Posting, WebTypes, QueueTypes
    <3>10. 1 \in 1 .. Len(w) /\ w[1] \in ShotMessage /\ w[1].id = call[c].id /\ v \in w[1].sure
      BY <2>1, <3>1, <3>3, <3>9
    <3>11. Fresh(LastOf(w, 1 - 1, On(f)), shown[v][f], call[c].least)
      BY <2>1, <3>4, <3>7, <3>8, <3>9, <3>10 DEF Asked
    <3>12. Fresh("none", shown[v][f], call[c].least)
      BY <3>11, LastOfNone
    <3>13. IsCurrent(shown[v][f], call[c].least)
      BY <3>12 DEF Fresh, IsCurrent
    <3> QED
      BY <2>1, <3>1, <3>5, <3>6, <3>13
  <2> QED
    BY <2>2, <2>3
<1> QED
  BY <1>1, <1>2

LEMMA AnsweredStep ==
  WebTypes /\ Bufs /\ Asked /\ Posted /\ Answered /\ [WindowNext]_uiVars => Answered'
<1> SUFFICES ASSUME WebTypes, Bufs, Asked, Posted, Answered, [WindowNext]_uiVars,
                    NEW s \in Sockets, NEW c \in Callers, NEW f \in Frames, NEW q,
                    q = uplink'[s],
                    Wants(c)', call'[c].frame = f, NEW i \in 1 .. Len(q),
                    q[i] \in PageAnswer, q[i].id = call'[c].id, q[i].sure,
                    \A j \in 1 .. (i - 1) : q[j] # CloseOf(f)
             PROVE  IsCurrent(q[i].got, call'[c].least)
  BY DEF Answered, CloseOf, PageAnswer, Version
<1>0. /\ CallTypes /\ StoreTypes
      /\ uplink \in [Sockets -> Seq(Returnable)]
  BY DEF WebTypes, QueueTypes
<1>w. /\ SocketOf \in [Viewers -> Sockets] /\ Viewers = Tabs \cup Windows
      /\ Tabs \cap Windows = {}
  BY WebViewAssumption, WindowAssumption
<1>p. PICK p \in Seq(Returnable) : p = uplink[s]
  BY <1>0
<1>m. \A m \in Returnable : m \in PageAnswer => m.id \in Nat /\ m.id <= calls
  BY DEF Returnable, Answers, PageAnswer
<1>k. PICK k : k = CloseOf(f)
  OBVIOUS
\* A request that begins has no answer yet.
<1>1. ASSUME NEW g \in Frames, SnapshotRegister(c, g) PROVE FALSE
  <2>1. call'[c].id = calls + 1 /\ uplink' = uplink /\ calls \in Nat
    BY <1>0, <1>1, RegisterStep DEF CallTypes
  <2>2. q[i] \in Returnable
    BY <1>p, <2>1
  <2> QED
    BY <1>m, <2>1, <2>2
<1>2. ASSUME ~\E g \in Frames : SnapshotRegister(c, g)
      PROVE  IsCurrent(q[i].got, call'[c].least)
  <2>1. /\ Wants(c) /\ call[c] \in ShotCall /\ call[c].frame = f /\ call[c].id = call'[c].id
        /\ call'[c].least = call[c].least
    BY <1>0, <1>2, WantsStep
  <2>2. PICK id, least : id = call[c].id /\ least = call[c].least /\ call'[c].least = least
    BY <2>1
  <2>3. ~\E x \in Sockets : ReadClose(x, f)
    BY <1>0, <2>1, NotRemoved DEF Wants
  <2>4. \A n \in 1 .. Len(p) :
          p[n] \in PageAnswer /\ p[n].id = id /\ p[n].sure /\ (\A j \in 1 .. (n - 1) : p[j] # k)
            => IsCurrent(p[n].got, least)
    BY <1>k, <1>p, <2>1, <2>2 DEF Answered
  <2>5. q[i] \in PageAnswer /\ q[i].id = id /\ q[i].sure /\ \A j \in 1 .. (i - 1) : q[j] # k
    BY <1>k, <2>1, <2>2
  \* What was on its way before.
  <2>6. ASSUME NEW m, q = Append(p, m), i # Len(p) + 1 PROVE IsCurrent(q[i].got, least)
    <3>1. i \in 1 .. Len(p) /\ q[i] = p[i] /\ \A j \in 1 .. (i - 1) : q[j] = p[j]
      BY <1>p, <2>6
    <3> QED
      BY <2>4, <2>5, <3>1
  <2>7. CASE q = p
    BY <2>2, <2>4, <2>5, <2>7
  <2>8. CASE q = <<>>
    BY <2>8
  <2>9. CASE Read(s)
    <3>1. p # <<>> /\ q = Tail(p)
      BY <1>p, <2>9 DEF Read
    <3>2. /\ i + 1 \in 1 .. Len(p) /\ q[i] = p[i + 1]
          /\ \A j \in 1 .. i : j = 1 \/ (j - 1 \in 1 .. (i - 1) /\ q[j - 1] = p[j])
      BY <1>p, <3>1
    <3>3. Head(p) # k
      <4>1. k.type = "close" /\ k.frame = f
        BY <1>k DEF CloseOf
      <4>2. Head(p) = k => ReadClose(s, f)
        BY <1>p, <2>9, <4>1 DEF Read
      <4> QED
        BY <2>3, <4>2
    <3>4. \A j \in 1 .. ((i + 1) - 1) : p[j] # k
      BY <1>p, <2>5, <3>1, <3>2, <3>3
    <3> QED
      BY <2>2, <2>4, <2>5, <3>2, <3>4
  <2>10. CASE Other(s)
    <3>1. PICK m : m.type # "answer" /\ q = Append(p, m)
      BY <1>p, <2>10 DEF Other
    <3>2. i # Len(p) + 1
      BY <1>p, <2>5, <3>1 DEF PageAnswer
    <3> QED
      BY <2>2, <2>6, <3>1, <3>2
  \* The daemon's list of windows is no answer of a page.
  <2>11. CASE s = Daemon /\ ListReplied
    <3>1. PICK id2, a : a = [type |-> "answer", id |-> id2, got |-> Open] /\ q = Append(p, a)
      BY <1>p, <2>11 DEF ListReplied
    <3>2. a \notin PageAnswer
      <4>1. DOMAIN a = {"type", "id", "got"}
        BY <3>1
      <4>2. \A m \in PageAnswer : DOMAIN m = {"type", "id", "got", "sure"}
        BY DEF PageAnswer
      <4> QED
        BY <4>1, <4>2
    <3>3. i # Len(p) + 1
      BY <1>p, <2>5, <3>1, <3>2
    <3> QED
      BY <2>2, <2>6, <3>1, <3>3
  \* A document's, which the page passes on.
  <2>13. ASSUME NEW v \in Viewers, SocketOf[v] = s, Passed(v)
         PROVE  IsCurrent(q[i].got, least)
    <3>0. PICK a \in asked[v] : \E g \in {0, a.got} : q = Append(p, [a EXCEPT !.got = g])
      BY <1>p, <2>13 DEF Passed
    <3>p. PICK got \in {0, a.got} : q = Append(p, [a EXCEPT !.got = got])
      BY <3>0
    <3>1. PICK b : b = [a EXCEPT !.got = got] /\ q = Append(p, b)
      BY <3>p
    <3>2. a \in Returnable /\ a \in PageAnswer
      BY DEF WebTypes, FrameTypes
    <3>3. b.id = a.id /\ b.sure = a.sure /\ b.got = got
      BY <3>1, <3>2, AnswerKept
    <3>4. CASE i = Len(p) + 1
      <4>1. q[i] = b
        BY <1>p, <3>1, <3>4
      <4>2. a.id = id /\ a.sure
        BY <2>5, <3>3, <4>1
      <4>3. IsCurrent(a.got, least)
        BY <2>1, <2>2, <4>2 DEF Posted
      <4>4. 0 # None
        BY WebViewAssumption
      <4> QED
        BY <3>1, <3>3, <4>1, <4>3, <4>4 DEF IsCurrent
    <3> QED
      BY <2>6, <3>1, <3>4
  \* A page's own: it is sure, so it is a tab that handles the request, and has the frame.
  <2>12. ASSUME NEW v \in Viewers, NEW m, SocketOf[v] = s, Replied(v, m)
         PROVE  IsCurrent(q[i].got, least)
    <3>0. PICK sure : sure = (v \in m.sure)
      OBVIOUS
    <3>1. PICK a : /\ a = [type |-> "answer", id |-> m.id, got |-> None, sure |-> sure]
                   /\ q = Append(p, a)
      BY <1>p, <2>12, <3>0 DEF Replied
    <3>2. CASE i = Len(p) + 1
      <4>1. q[i] = a /\ \A j \in 1 .. Len(p) : q[j] = p[j]
        BY <1>p, <3>1, <3>2
      <4>2. m.id = id /\ v \in m.sure
        <5>1. a.id = m.id /\ a.sure = sure
          BY <3>1
        <5>2. a \in PageAnswer /\ a.id = id /\ a.sure
          BY <2>5, <4>1
        <5>3. a.sure = TRUE
          BY <5>2 DEF PageAnswer
        <5>4. v \in m.sure
          BY <3>0, <5>1, <5>3
        <5> QED
          BY <5>1, <5>2, <5>4
      <4>3. m \in Message /\ m.type = "snapshot" /\ Fits(m)
        BY <2>12 DEF Replied, Sendable
      <4>4. m \in ShotMessage
        BY <4>3, MessageShape
      <4>5. v \in Tabs
        BY <4>2, <4>4 DEF ShotMessage
      <4>6. m.frame = f
        BY <2>1, <2>2, <4>2, <4>3 DEF Fits, Asking, Wants
      <4>7. k \notin Range(p)
        BY <1>p, <2>5, <3>2, <4>1 DEF Range
      <4>8. Hears(s, f)
        BY <1>k, <1>p, <2>12, <4>7 DEF Hears, Replied
      <4>9. wire[s] # <<>> /\ m = Head(wire[s]) /\ wire[s] \in Seq(Sendable)
        BY <2>12, <4>5 DEF Replied, WebTypes, QueueTypes
      <4>10. PICK w : w = wire[s]
        OBVIOUS
      <4>11. 1 \in 1 .. Len(w) /\ m = w[1]
        BY <4>9, <4>10
      <4>12. Fresh(LastOf(w, 1 - 1, On(f)), shown[v][f], least)
        BY <2>1, <2>2, <2>12, <4>2, <4>4, <4>5, <4>8, <4>10, <4>11 DEF Asked
      <4>13. Fresh("none", shown[v][f], least)
        BY <4>12, LastOfNone
      <4>14. shown[v][f] = None
        BY <2>12, <4>6 DEF Replied
      <4> QED
        BY <4>13, <4>14 DEF Fresh
    <3> QED
      BY <2>6, <3>1, <3>2
  <2> QED
    BY <1>p, <2>2, <2>7, <2>8, <2>9, <2>10, <2>11, <2>12, <2>13, UplinkSees
<1> QED
  BY <1>1, <1>2

(***************************************************************************)
(* An agent is answered by a message that has its request's id.            *)
(***************************************************************************)
Kept == answer = [c \in Callers |-> answer[c]]

Resolved(c) ==
  \E s \in Sockets :
    /\ uplink[s] # <<>>
    /\ Head(uplink[s]).type = "answer" /\ Head(uplink[s]).id = call[c].id
    /\ Asking(c)
    /\ answer'[c] = [call |-> call[c], from |-> Head(uplink[s])]

LEMMA AnswersStep ==
  ASSUME Kept, [WindowNext]_uiVars
  PROVE  /\ Kept'
         /\ \A c \in Callers : answer'[c] = answer[c] \/ answer'[c] = None \/ Resolved(c)
<1>1. ASSUME NEW c \in Callers, answer' = [answer EXCEPT ![c] = None]
      PROVE  Kept' /\ \A d \in Callers : answer'[d] = answer[d] \/ answer'[d] = None
  BY <1>1 DEF Kept
<1>2. ASSUME answer' = answer PROVE Kept' /\ \A d \in Callers : answer'[d] = answer[d]
  BY <1>2 DEF Kept
<1>3. ASSUME NEW s \in Sockets, ReadAnswer(s)
      PROVE  Kept' /\ \A d \in Callers : answer'[d] = answer[d] \/ Resolved(d)
  <2>1. PICK m : m = Head(uplink[s]) /\ uplink[s] # <<>> /\ m.type = "answer"
    BY <1>3 DEF ReadAnswer
  <2>2. PICK to : /\ to = {c \in WaiterOf(m.id) : m.id \in waiters}
                  /\ answer' = [c \in Callers |->
                       IF c \in to THEN [call |-> call[c], from |-> m] ELSE answer[c]]
    BY <1>3, <2>1 DEF ReadAnswer
  <2>3. Kept'
    BY <2>2 DEF Kept
  <2>4. \A d \in Callers : d \in to => Asking(d) /\ m.id = call[d].id
    BY <2>2 DEF WaiterOf, Asking
  <2> QED
    BY <2>1, <2>2, <2>3, <2>4 DEF Resolved
<1>4. ASSUME NEW c \in Callers, Agent(c)
      PROVE  Kept' /\ \A d \in Callers : answer'[d] = answer[d] \/ answer'[d] = None
  <2>1. answer' = [answer EXCEPT ![c] = None] \/ answer' = answer
    BY <1>4 DEF Agent, RenderInsert, CloseRemove, SnapshotRegister, RequestTimesOut, Broadcast,
       SendRequest, Start
  <2> QED
    BY <1>1, <1>2, <2>1
<1>5. ASSUME NEW c \in Callers, WindowAgent(c)
      PROVE  Kept' /\ \A d \in Callers : answer'[d] = answer[d] \/ answer'[d] = None
  <2>1. answer' = [answer EXCEPT ![c] = None]
    BY <1>5 DEF WindowAgent, WindowOpen, WindowClose, ListRegister, Start
  <2> QED
    BY <1>1, <2>1
<1>6. ASSUME NEW s \in Sockets, Socket(s)
      PROVE  Kept' /\ \A d \in Callers : answer'[d] = answer[d] \/ Resolved(d)
  <2>1. CASE Join(s) \/ \E f \in Frames : ReadClose(s, f)
    BY <1>2, <2>1 DEF Join, ReadClose
  <2> QED
    BY <1>3, <1>6, <2>1 DEF Socket
<1>7. ASSUME \/ \E t \in Tabs : TabConnects(t) \/ TabHandles(t)
             \/ DaemonConnects \/ Replays
             \/ \E s \in Sockets : Drops(s)
      PROVE  answer' = answer
  BY <1>7 DEF TabConnects, Connect, TabHandles, DaemonConnects, Replays, ReadReplay, Drops, Drop
<1>8. ASSUME Bridge PROVE answer' = answer
  BY <1>8 DEF Bridge, DaemonOpens, DaemonCloses, WindowGoes, DaemonLists, DaemonEmits, DaemonHolds,
     DaemonBuffers
<1>9. ASSUME NEW w \in Windows, Page(w) PROVE answer' = answer
  BY <1>9 DEF Page, PageListens, PageAsksReplay, ClientReady, TakePending, HandleBacklog,
     HandleEvent, webVars
<1>10. ASSUME User \/ UNCHANGED uiVars PROVE answer' = answer
  BY <1>10 DEF User, UserCloses, UserClosesWindow, uiVars, webVars
<1>11. ASSUME NEW v \in Viewers, Iframes(v) PROVE answer' = answer
  BY <1>11, IframesStep
<1> QED
  BY <1>2, <1>4, <1>5, <1>6, <1>7, <1>8, <1>9, <1>10, <1>11, WindowAssumption DEF WindowNext

\* An answer that carries a request's id is of the kind that it asks for.
LEMMA AnswerFits ==
  ASSUME WebTypes, NEW s \in Sockets, uplink[s] # <<>>, NEW c \in Callers, Asking(c),
         Head(uplink[s]).type = "answer", Head(uplink[s]).id = call[c].id
  PROVE  /\ uplink[s] \in Seq(Returnable) /\ 1 \in 1 .. Len(uplink[s])
         /\ uplink[s][1] = Head(uplink[s])
         /\ call[c].op = "list" => Head(uplink[s]) \in ListAnswer
         /\ call[c].op = "snapshot" => Head(uplink[s]) \in PageAnswer
<1>1. uplink[s] \in Seq(Returnable)
  BY DEF WebTypes, QueueTypes
<1>2. Head(uplink[s]) \in Returnable
  BY <1>1
<1> QED
  BY <1>1, <1>2 DEF Returnable, Answers, Asking

LEMMA SnapshotsStep ==
  WebTypes /\ Answered /\ Kept /\ SnapshotsAreCurrent /\ [WindowNext]_uiVars
    => SnapshotsAreCurrent'
<1> SUFFICES ASSUME WebTypes, Answered, Kept, SnapshotsAreCurrent, [WindowNext]_uiVars,
                    NEW c \in Callers, NEW a, a = answer'[c], a # None, a.call.op = "snapshot"
             PROVE  /\ a.from.id = a.call.id
                    /\ a.from.sure /\ a.call.least # 0 => IsCurrent(a.from.got, a.call.least)
  BY DEF SnapshotsAreCurrent, IsCurrent
<1>1. CASE a = answer[c]
  BY <1>1 DEF SnapshotsAreCurrent, IsCurrent
<1>2. CASE Resolved(c)
  <2>1. PICK s \in Sockets :
          /\ uplink[s] # <<>>
          /\ Head(uplink[s]).type = "answer" /\ Head(uplink[s]).id = call[c].id
          /\ Asking(c)
          /\ a = [call |-> call[c], from |-> Head(uplink[s])]
    BY <1>2 DEF Resolved
  <2>2. a.call = call[c] /\ a.from = Head(uplink[s]) /\ call[c].op = "snapshot"
    BY <2>1
  <2>3. PICK q \in Seq(Returnable) : /\ q = uplink[s] /\ 1 \in 1 .. Len(q) /\ q[1] = a.from
                                     /\ q[1] \in PageAnswer
    BY <2>1, <2>2, AnswerFits
  <2>4. a.from.id = a.call.id
    BY <2>1, <2>2
  <2>5. ASSUME a.from.sure, a.call.least # 0
        PROVE  IsCurrent(a.from.got, a.call.least)
    <3>1. Wants(c) /\ call[c] \in ShotCall
      BY <2>2, <2>5, CallShape DEF Wants, WebTypes
    <3>2. call[c].frame \in Frames
      BY <3>1 DEF ShotCall
    <3>3. \A j \in 1 .. (1 - 1) : q[j] # CloseOf(call[c].frame)
      OBVIOUS
    <3>4. IsCurrent(q[1].got, call[c].least)
      BY <2>2, <2>3, <2>4, <2>5, <3>1, <3>2, <3>3 DEF Answered
    <3> QED
      BY <2>2, <2>3, <3>4
  <2> QED
    BY <2>4, <2>5
<1> QED
  BY <1>1, <1>2, AnswersStep
-----------------------------------------------------------------------------
(***************************************************************************)
(* Lists of windows.  A window that an agent has opened is open and not    *)
(* about to go, or will be once the daemon has read what was said last     *)
(* about it.                                                               *)
(***************************************************************************)
Standing == Open \ closing

Opens(last, o) == last = "open" \/ (last = "none" /\ o \in Standing)

WillOpen ==
  \A c \in Callers : \A o \in opened[c] :
    /\ conn[Daemon] = "up"
    /\ Opens(LastOf(wire[Daemon], Len(wire[Daemon]), Labelled(o)), o)

\* And is open when it reads a request that was made since.
ListAsked ==
  \A c \in Callers : call[c].op = "list" => \A o \in opened[c] :
    \A i \in 1 .. Len(wire[Daemon]) :
      wire[Daemon][i].type = "list" /\ wire[Daemon][i].id = call[c].id
        => Opens(LastOf(wire[Daemon], i - 1, Labelled(o)), o)

Listed ==
  \A s \in Sockets, c \in Callers : call[c].op = "list" =>
    \A i \in 1 .. Len(uplink[s]) :
      uplink[s][i].type = "answer" /\ uplink[s][i].id = call[c].id
        => opened[c] \subseteq uplink[s][i].got

Lasting(o) == o \in Standing => o \in Standing'

\* Only a window that exists is about to go.
ClosingExist == closing \subseteq Open

LEMMA ClosingStep ==
  WebTypes /\ ClosingExist /\ [WindowNext]_uiVars => ClosingExist'
<1> SUFFICES ASSUME WebTypes, ClosingExist, [WindowNext]_uiVars PROVE ClosingExist'
  OBVIOUS
<1>0. stage \in [Windows -> Stages] /\ closing \subseteq Open /\ Openers \subseteq Callers
  BY WindowAssumption DEF WebTypes, PageTypes, ClosingExist
<1>1. ASSUME UNCHANGED <<stage, closing>> PROVE ClosingExist'
  BY <1>0, <1>1 DEF ClosingExist, Open
<1>2. ASSUME NEW w \in Windows, NEW g \in Stages \ {"none"},
             stage' = [stage EXCEPT ![w] = g], closing' = closing
      PROVE  ClosingExist'
  BY <1>0, <1>2 DEF ClosingExist, Open
<1>3. ASSUME NEW w \in Windows, stage' = [stage EXCEPT ![w] = "none"], closing' = closing \ {w}
      PROVE  ClosingExist'
  BY <1>0, <1>3 DEF ClosingExist, Open
<1>4. CASE Bridge
  <2>1. ASSUME NEW w \in Windows, DaemonOpens(w) PROVE ClosingExist'
    BY <1>1, <1>2, <2>1 DEF DaemonOpens, Stages
  <2>2. ASSUME NEW w \in Windows, DaemonCloses(w) PROVE ClosingExist'
    BY <1>0, <2>2 DEF DaemonCloses, ClosingExist, Open
  <2>3. ASSUME NEW w \in Windows, WindowGoes(w) PROVE ClosingExist'
    BY <1>3, <2>3 DEF WindowGoes
  <2>4. CASE DaemonLists \/ DaemonEmits \/ DaemonHolds \/ DaemonBuffers
    BY <1>1, <2>4 DEF DaemonLists, DaemonEmits, DaemonHolds, DaemonBuffers, windowVars
  <2> QED
    BY <1>4, <2>1, <2>2, <2>3, <2>4 DEF Bridge
<1>5. ASSUME NEW w \in Windows, Page(w) PROVE ClosingExist'
  <2>1. CASE PageListens(w) \/ ClientReady(w) \/ TakePending(w)
    BY <1>2, <2>1 DEF PageListens, ClientReady, TakePending, Stages
  <2>2. CASE PageAsksReplay(w) \/ HandleEvent(w)
    BY <1>1, <2>2 DEF PageAsksReplay, HandleEvent
  <2>3. CASE HandleBacklog(w)
    BY <1>2, <2>3 DEF HandleBacklog, Stages
  <2> QED
    BY <1>5, <2>1, <2>2, <2>3 DEF Page
<1>6. ASSUME NEW w \in Windows, UserClosesWindow(w) PROVE ClosingExist'
  BY <1>3, <1>6 DEF UserClosesWindow
<1>7. ASSUME NEW c \in Callers, WindowAgent(c) PROVE ClosingExist'
  BY <1>1, <1>7 DEF WindowAgent, WindowOpen, WindowClose, ListRegister, windowVars
<1>8. ASSUME NEW s \in Sockets, Drops(s) PROVE ClosingExist'
  BY <1>1, <1>8 DEF Drops
<1>9. CASE UNCHANGED windowVars \/ DaemonConnects \/ Replays \/ UNCHANGED uiVars
  BY <1>1, <1>9 DEF DaemonConnects, Replays, windowVars, uiVars
<1> QED
  BY <1>0, <1>4, <1>5, <1>6, <1>7, <1>8, <1>9 DEF WindowNext, User

\* What a step does to the daemon, of which a window is still expected.
DaemonTakes(o) ==
  /\ wire[Daemon] # <<>> /\ wire'[Daemon] = Tail(wire[Daemon])
  /\ Head(wire[Daemon]) = [type |-> "open", label |-> o] => o \in Standing'
  /\ Head(wire[Daemon]) \notin Labelled(o) => Lasting(o)

DaemonIsSent(o) ==
  \E m :
    /\ wire'[Daemon] = Append(wire[Daemon], m)
    /\ m = [type |-> "open", label |-> o] \/ m \notin Labelled(o)
    /\ m.type = "list" => \E d \in Callers : SendRequest(d) /\ m = Request(d)
    /\ Lasting(o)

DaemonIsResent(o) == wire'[Daemon] = wire[Daemon] \o Replay /\ Lasting(o)

DaemonRests(o) == wire'[Daemon] = wire[Daemon] /\ Lasting(o)

LEMMA DaemonSees ==
  ASSUME WebTypes, [WindowNext]_uiVars, NEW c \in Callers, NEW o, o \in opened[c], o \in opened'[c],
         conn[Daemon] = "up", ClosingExist
  PROVE  /\ conn'[Daemon] = "up"
         /\ DaemonTakes(o) \/ DaemonIsSent(o) \/ DaemonIsResent(o) \/ DaemonRests(o)
<1>0. /\ conn \in [Sockets -> {"down", "joining", "up"}]
      /\ wire \in [Sockets -> Seq(Sendable)]
      /\ stage \in [Windows -> Stages]
      /\ opened \in [Callers -> SUBSET Windows]
      /\ CallTypes /\ StoreTypes
  BY DEF WebTypes, PageTypes, QueueTypes
<1>w. /\ Daemon \in Sockets /\ Openers \subseteq Callers /\ o \in Windows
      /\ \A t \in Tabs : SocketOf[t] \in Sockets /\ SocketOf[t] # Daemon
  BY <1>0, WebViewAssumption, WindowAssumption
<1> DEFINE G == /\ conn'[Daemon] = "up"
                /\ DaemonTakes(o) \/ DaemonIsSent(o) \/ DaemonIsResent(o) \/ DaemonRests(o)
<1>l. UNCHANGED <<stage, closing>> => Lasting(o)
  BY DEF Lasting, Standing, Open
<1>1. ASSUME conn' = conn, wire' = wire, Lasting(o) PROVE G
  BY <1>1 DEF DaemonRests
<1>2. ASSUME NEW m, wire' = ToAll(m), conn' = conn, UNCHANGED <<stage, closing>>,
             m = [type |-> "open", label |-> o] \/ m \notin Labelled(o),
             m.type = "list" => \E d \in Callers : SendRequest(d) /\ m = Request(d)
      PROVE  G
  <2>1. Daemon \in Up
    BY <1>w DEF Up
  <2>2. wire'[Daemon] = Append(wire[Daemon], m)
    BY <1>2, <1>w, <2>1 DEF ToAll
  <2> QED
    BY <1>2, <1>l, <2>2 DEF DaemonIsSent
<1>3. ASSUME NEW d \in Callers, Agent(d), UNCHANGED windowVars PROVE G
  <2>0. UNCHANGED <<stage, closing>>
    BY <1>3 DEF windowVars
  <2>1. CASE \E g \in Frames : RenderInsert(d, g) \/ CloseRemove(d, g) \/ SnapshotRegister(d, g)
    BY <1>1, <1>l, <2>0, <2>1 DEF RenderInsert, CloseRemove, SnapshotRegister
  <2>2. CASE RequestTimesOut(d)
    BY <1>1, <1>l, <2>0, <2>2 DEF RequestTimesOut, brokerVars
  <2>3. CASE SendRequest(d)
    <3>1. PICK m : m = Request(d)
      OBVIOUS
    <3>2. m.type \in {"snapshot", "list"}
      BY <1>0, <2>3, <3>1, RequestShape DEF SendRequest, Asking
    <3>3. m \notin Labelled(o)
      BY <3>2 DEF Labelled
    <3>4. wire' = ToAll(m) /\ conn' = conn
      BY <2>3, <3>1 DEF SendRequest
    <3> QED
      BY <1>2, <2>0, <2>3, <3>1, <3>3, <3>4
  <2>4. CASE Broadcast(d)
    <3>1. PICK m : m = [type |-> call[d].op, frame |-> call[d].frame]
      OBVIOUS
    <3>2. m.type \in {"render", "close"}
      BY <2>4, <3>1 DEF Broadcast
    <3>3. m \notin Labelled(o) /\ m.type # "list"
      BY <3>2 DEF Labelled
    <3>4. wire' = ToAll(m) /\ conn' = conn
      BY <2>4, <3>1 DEF Broadcast
    <3> QED
      BY <1>2, <2>0, <3>3, <3>4
  <2> QED
    BY <1>3, <2>1, <2>2, <2>3, <2>4 DEF Agent
<1>4. ASSUME NEW d \in Callers, WindowAgent(d) PROVE G
  <2>1. CASE ListRegister(d)
    BY <1>1, <1>l, <2>1 DEF ListRegister, windowVars
  <2>2. ASSUME NEW w \in Windows, WindowOpen(d, w) PROVE G
    <3>1. PICK m : m = [type |-> "open", label |-> w]
      OBVIOUS
    <3>2. m = [type |-> "open", label |-> o] \/ m \notin Labelled(o)
      BY <3>1 DEF Labelled
    <3>3. wire' = ToAll(m) /\ UNCHANGED <<conn, stage, closing>> /\ m.type # "list"
      BY <2>2, <3>1 DEF WindowOpen
    <3> QED
      BY <1>2, <3>2, <3>3
  <2>3. ASSUME NEW w \in Windows, WindowClose(d, w) PROVE G
    <3>1. PICK m : m = [type |-> "shut", label |-> w]
      OBVIOUS
    <3>2. w # o
      BY <2>3 DEF WindowClose
    <3>3. m \notin Labelled(o)
      BY <3>1, <3>2 DEF Labelled
    <3>4. wire' = ToAll(m) /\ UNCHANGED <<conn, stage, closing>> /\ m.type # "list"
      BY <2>3, <3>1 DEF WindowClose
    <3> QED
      BY <1>2, <3>3, <3>4
  <2> QED
    BY <1>4, <2>1, <2>2, <2>3 DEF WindowAgent
<1>5. ASSUME NEW s \in Sockets, Socket(s), UNCHANGED windowVars PROVE G
  <2>1. UNCHANGED <<wire, stage, closing>>
    BY <1>5 DEF Socket, Join, ReadAnswer, ReadClose, windowVars
  <2>2. conn'[Daemon] = "up"
    <3>1. conn' = conn \/ conn' = [conn EXCEPT ![s] = "up"]
      BY <1>5 DEF Socket, Join, ReadAnswer, ReadClose
    <3> QED
      BY <1>0, <1>w, <3>1
  <2> QED
    BY <1>l, <2>1, <2>2 DEF DaemonRests
\* Another socket.
<1>6. ASSUME NEW t \in Tabs, TabConnects(t) \/ TabHandles(t), UNCHANGED windowVars PROVE G
  <2>1. PICK s \in Sockets : s = SocketOf[t] /\ s # Daemon
    BY <1>w
  <2>2. PICK q : wire' = [wire EXCEPT ![s] = q]
    BY <1>6, <2>1 DEF TabConnects, Connect, TabHandles
  <2>3. conn' = conn \/ conn' = [conn EXCEPT ![s] = "joining"]
    BY <1>6, <2>1 DEF TabConnects, Connect, TabHandles
  <2>4. wire'[Daemon] = wire[Daemon] /\ conn'[Daemon] = conn[Daemon] /\ UNCHANGED <<stage, closing>>
    BY <1>0, <1>6, <1>w, <2>1, <2>2, <2>3 DEF windowVars
  <2> QED
    BY <1>l, <2>4 DEF DaemonRests
<1>7. ~DaemonConnects
  BY DEF DaemonConnects, Connect
<1>8. CASE Replays
  <2>1. wire' = [wire EXCEPT ![Daemon] = @ \o Replay] /\ UNCHANGED <<conn, stage, closing>>
    BY <1>8 DEF Replays, ReadReplay, windowVars
  <2>2. wire'[Daemon] = wire[Daemon] \o Replay
    BY <1>0, <1>w, <2>1
  <2> QED
    BY <1>l, <2>1, <2>2 DEF DaemonIsResent
<1>9. ASSUME NEW s \in Sockets, Drops(s) PROVE G
  <2>1. s # Daemon
    BY <1>9 DEF Drops
  <2>2. wire'[Daemon] = wire[Daemon] /\ conn'[Daemon] = conn[Daemon] /\ UNCHANGED <<stage, closing>>
    BY <1>0, <1>9, <1>w, <2>1 DEF Drops, Drop
  <2> QED
    BY <1>l, <2>2 DEF DaemonRests
\* The daemon takes a message.
<1>10. ASSUME NEW m, Incoming(m), conn' = conn,
              m = [type |-> "open", label |-> o] => o \in Standing',
              m \notin Labelled(o) => Lasting(o)
       PROVE  G
  <2>1. wire[Daemon] # <<>> /\ m = Head(wire[Daemon]) /\ wire' = [wire EXCEPT ![Daemon] = Tail(@)]
    BY <1>10 DEF Incoming
  <2>2. wire'[Daemon] = Tail(wire[Daemon])
    BY <1>0, <1>w, <2>1
  <2> QED
    BY <1>10, <2>1, <2>2 DEF DaemonTakes
<1>11. CASE Bridge
  <2>1. ASSUME NEW w \in Windows, DaemonOpens(w) PROVE G
    <3>1. PICK m : m = [type |-> "open", label |-> w] /\ Incoming(m)
      BY <2>1 DEF DaemonOpens
    <3>2. CASE stage' = stage
      <4>1. /\ UNCHANGED <<stage, closing, conn>> /\ Standing' = Standing
            /\ opened' = (IF w \in Open \ closing THEN opened
                           ELSE [d \in Callers |-> opened[d] \ {w}])
        <5>1. ~(w \notin Open /\ stage' = [stage EXCEPT ![w] = "loading"])
          BY <1>0, <3>2 DEF Open
        <5> QED
          BY <2>1, <3>2, <5>1 DEF DaemonOpens, Standing, Open
      <4>2. m = [type |-> "open", label |-> o] => o \in Standing'
        BY <3>1, <4>1 DEF Standing
      <4> QED
        BY <1>10, <1>l, <3>1, <4>1, <4>2
    <3>3. CASE stage' # stage
      <4>1. /\ w \notin Open /\ stage' = [stage EXCEPT ![w] = "loading"]
            /\ conn' = conn /\ closing' = closing
        BY <2>1, <3>3 DEF DaemonOpens
      <4>2. w \in Standing' /\ Lasting(o)
        BY <1>0, <1>w, <4>1 DEF Lasting, Standing, Open, ClosingExist
      <4>3. m = [type |-> "open", label |-> o] => o \in Standing'
        BY <3>1, <4>2
      <4> QED
        BY <1>10, <3>1, <4>1, <4>2, <4>3
    <3> QED
      BY <3>2, <3>3
  <2>2. ASSUME NEW w \in Windows, DaemonCloses(w) PROVE G
    <3>1. PICK m : m = [type |-> "shut", label |-> w] /\ Incoming(m)
      BY <2>2 DEF DaemonCloses
    <3>2. closing' = closing \cup ({w} \cap Open) /\ UNCHANGED <<conn, stage>>
      BY <2>2 DEF DaemonCloses
    <3>3. m \notin Labelled(o) => w # o
      BY <3>1 DEF Labelled
    <3>4. w # o => Lasting(o)
      BY <3>2 DEF Lasting, Standing, Open
    <3>5. m # [type |-> "open", label |-> o]
      BY <3>1
    <3> QED
      BY <1>10, <3>1, <3>2, <3>3, <3>4, <3>5
  \* A window that goes was about to.
  <2>5. ASSUME NEW w \in Windows, WindowGoes(w) PROVE G
    <3>1. /\ UNCHANGED <<conn, wire>> /\ w \in closing /\ closing' = closing \ {w}
          /\ stage' = [stage EXCEPT ![w] = "none"]
      BY <2>5 DEF WindowGoes, brokerVars
    <3>2. Lasting(o)
      BY <1>0, <1>w, <3>1 DEF Lasting, Standing, Open
    <3> QED
      BY <1>1, <3>1, <3>2
  <2>3. CASE DaemonLists \/ DaemonEmits \/ DaemonHolds
    <3>1. PICK m : Incoming(m) /\ (m.type = "list" \/ IsForPages(m))
      <4>1. CASE DaemonLists
        <5>1. PICK id : Incoming([type |-> "list", id |-> id])
          BY <4>1 DEF DaemonLists
        <5> QED
          BY <5>1
      <4>2. CASE DaemonEmits \/ DaemonHolds
        BY <4>2 DEF DaemonEmits, DaemonHolds
      <4> QED
        BY <2>3, <4>1, <4>2
    <3>2. m # [type |-> "open", label |-> o]
      BY <3>1 DEF IsForPages
    <3>3. UNCHANGED <<conn, stage, closing>>
      BY <2>3 DEF DaemonLists, DaemonEmits, DaemonHolds, windowVars
    <3> QED
      BY <1>10, <1>l, <3>1, <3>2, <3>3
  <2>4. CASE DaemonBuffers
    BY <1>1, <1>l, <2>4 DEF DaemonBuffers, brokerVars
  <2> QED
    BY <1>11, <2>1, <2>2, <2>3, <2>4, <2>5 DEF Bridge
\* A page starts, which was open before.
<1>12. ASSUME NEW w \in Windows, Page(w) PROVE G
  <2>1. UNCHANGED <<conn, wire, closing>>
    BY <1>12 DEF Page, PageListens, PageAsksReplay, ClientReady, TakePending, HandleBacklog,
       HandleEvent, webVars, brokerVars
  <2>2. stage' = stage \/ \E g : g # "none" /\ stage' = [stage EXCEPT ![w] = g]
    <3>1. CASE PageListens(w)
      BY <3>1 DEF PageListens
    <3>2. CASE PageAsksReplay(w) \/ HandleEvent(w)
      BY <3>2 DEF PageAsksReplay, HandleEvent
    <3>3. CASE ClientReady(w)
      BY <3>3 DEF ClientReady
    <3>4. CASE TakePending(w)
      BY <3>4 DEF TakePending
    <3>5. CASE HandleBacklog(w)
      <4>1. stage' \in {[stage EXCEPT ![w] = "running"], [stage EXCEPT ![w] = "draining"]}
        BY <3>5 DEF HandleBacklog
      <4> QED
        BY <4>1
    <3> QED
      BY <1>12, <3>1, <3>2, <3>3, <3>4, <3>5 DEF Page
  <2>3. Lasting(o)
    BY <1>0, <1>w, <2>1, <2>2 DEF Lasting, Standing, Open
  <2> QED
    BY <1>1, <2>1, <2>3
<1>13. CASE User
  <2>1. ASSUME NEW v \in Viewers, NEW g \in Frames, UserCloses(v, g), UNCHANGED windowVars PROVE G
    BY <1>1, <1>l, <2>1 DEF UserCloses, windowVars
  <2>2. ASSUME NEW w \in Windows, UserClosesWindow(w) PROVE G
    <3>1. /\ conn' = conn /\ wire' = wire /\ stage' = [stage EXCEPT ![w] = "none"]
          /\ closing' = closing \ {w}
          /\ opened' = [d \in Callers |-> opened[d] \ {w}]
      BY <2>2 DEF UserClosesWindow
    <3>2. w # o
      BY <3>1
    <3>3. Lasting(o)
      BY <1>0, <1>w, <3>1, <3>2 DEF Lasting, Standing, Open
    <3> QED
      BY <1>1, <3>1, <3>3
  <2> QED
    BY <1>13, <2>1, <2>2 DEF User
<1>14. CASE UNCHANGED uiVars
  BY <1>1, <1>l, <1>14 DEF uiVars, webVars, brokerVars, windowVars
<1>15. ASSUME NEW v \in Viewers, Iframes(v), UNCHANGED windowVars PROVE G
  BY <1>1, <1>l, <1>15, IframesStep DEF windowVars
<1> QED
  BY <1>3, <1>4, <1>5, <1>6, <1>7, <1>8, <1>9, <1>11, <1>12, <1>13, <1>14, <1>15, <1>w DEF WindowNext

\* A window is expected from the moment that the daemon is told to open it.
LEMMA OpenedStep ==
  ASSUME WebTypes, [WindowNext]_uiVars, NEW c \in Callers, NEW o, o \in opened'[c]
  PROVE  o \in opened[c] \/ (WindowOpen(c, o) /\ Daemon \in Up /\ o \in Windows)
<1>0. opened \in [Callers -> SUBSET Windows]
  BY DEF WebTypes, PageTypes
<1>1. ASSUME opened' = opened PROVE o \in opened[c]
  BY <1>1
<1>2. ASSUME NEW d \in Callers, WindowAgent(d)
      PROVE  o \in opened[c] \/ (WindowOpen(c, o) /\ Daemon \in Up /\ o \in Windows)
  <2>1. CASE ListRegister(d)
    BY <1>1, <2>1 DEF ListRegister, windowVars
  <2>2. ASSUME NEW w \in Windows, WindowOpen(d, w)
        PROVE  o \in opened[c] \/ (WindowOpen(c, o) /\ Daemon \in Up /\ o \in Windows)
    <3>1. opened' = [opened EXCEPT ![d] = IF Daemon \in Up THEN @ \cup {w} ELSE @]
      BY <2>2 DEF WindowOpen
    <3>2. o \in opened[c] \/ (d = c /\ w = o /\ Daemon \in Up)
      BY <1>0, <3>1
    <3> QED
      BY <2>2, <3>2
  <2>3. ASSUME NEW w \in Windows, WindowClose(d, w) PROVE o \in opened[c]
    BY <2>3 DEF WindowClose
  <2> QED
    BY <1>2, <2>1, <2>2, <2>3 DEF WindowAgent
<1>3. ASSUME NEW s \in Sockets, Drops(s) PROVE o \in opened[c]
  <2>1. o \in IF s = Daemon THEN {} ELSE opened[c]
    BY <1>3 DEF Drops
  <2> QED
    BY <2>1
<1>4. ASSUME NEW w \in Windows, UserClosesWindow(w) PROVE o \in opened[c]
  BY <1>4 DEF UserClosesWindow
<1>5. ASSUME Bridge PROVE o \in opened[c]
  <2>1. ASSUME NEW w \in Windows, DaemonOpens(w) PROVE o \in opened[c]
    <3>1. opened' = opened \/ opened' = [d \in Callers |-> opened[d] \ {w}]
      BY <2>1 DEF DaemonOpens
    <3> QED
      BY <1>1, <3>1
  <2> QED
    BY <1>1, <1>5, <2>1 DEF Bridge, DaemonCloses, WindowGoes, DaemonLists, DaemonEmits,
       DaemonHolds, DaemonBuffers, windowVars
<1>6. ASSUME NEW w \in Windows, Page(w) PROVE o \in opened[c]
  BY <1>1, <1>6 DEF Page, PageListens, PageAsksReplay, ClientReady, TakePending, HandleBacklog,
     HandleEvent
<1>7. ASSUME UNCHANGED windowVars PROVE o \in opened[c]
  BY <1>1, <1>7 DEF windowVars
<1>8. ASSUME DaemonConnects \/ Replays \/ UNCHANGED uiVars PROVE o \in opened[c]
  BY <1>7, <1>8 DEF DaemonConnects, Replays, uiVars
<1> QED
  BY <1>2, <1>3, <1>4, <1>5, <1>6, <1>7, <1>8, WindowAssumption DEF WindowNext, User

\* A request for a list begins, or is the one that it was.
LEMMA ListStep ==
  ASSUME WebTypes, [WindowNext]_uiVars, NEW c \in Callers, call'[c].op = "list"
  PROVE  \/ /\ call[c].op = "list" /\ call'[c].id = call[c].id
            /\ opened'[c] \subseteq opened[c]
         \/ /\ call'[c].id = calls + 1
            /\ UNCHANGED <<wire, uplink>>
<1>0. call \in [Callers -> Call] /\ CallTypes
  BY DEF WebTypes, CallTypes
<1> DEFINE Same == call[c].op = "list" /\ call'[c].id = call[c].id
<1>1. ASSUME call'[c] = call[c] PROVE Same
  BY <1>1
<1>2. ASSUME NEW f \in Frames, NEW removed \in BOOLEAN, NEW b, b = Beside(f, removed),
             call'[c] = b[c]
      PROVE  Same
  <2>1. /\ b[c].op = call[c].op
        /\ call[c].op \notin {"render", "close", "snapshot"} => b[c] = call[c]
    BY <1>0, <1>2, BesideShape
  <2> QED
    BY <1>2, <2>1
<1>3. ASSUME NEW d \in Callers, NEW f \in Frames, RenderInsert(d, f) \/ CloseRemove(d, f)
      PROVE  Same
  <2>0. PICK alone : alone = (Changing(f) = {})
    OBVIOUS
  <2>1. PICK removed, op, b :
          /\ removed \in BOOLEAN /\ op \in {"render", "close"}
          /\ b = Beside(f, removed)
          /\ call' = [b EXCEPT ![d] = [op |-> op, frame |-> f, alone |-> alone]]
    <3>1. CASE RenderInsert(d, f)
      BY <2>0, <3>1 DEF RenderInsert
    <3>2. CASE CloseRemove(d, f)
      BY <2>0, <3>2 DEF CloseRemove
    <3> QED
      BY <1>3, <3>1, <3>2
  <2>2. b \in [Callers -> Call]
    BY <1>0, <2>1, BesideShape
  <2>3. c # d /\ call'[c] = b[c]
    BY <2>1, <2>2
  <2> QED
    BY <1>2, <2>1, <2>3
<1>4. ASSUME NEW d \in Callers, Agent(d) PROVE Same
  <2>1. CASE SendRequest(d) /\ d = c
    <3>1. call'[c] = [call[c] EXCEPT !.sent = TRUE] /\ call[c].op \in {"snapshot", "list"}
      BY <1>0, <2>1 DEF SendRequest
    <3>2. CASE call[c].op = "list"
      <4>1. call[c] \in ListCall
        BY <1>0, <3>2, CallShape
      <4> QED
        BY <3>1, <3>2, <4>1 DEF ListCall
    <3>3. CASE call[c].op = "snapshot"
      <4>1. call[c] \in ShotCall
        BY <1>0, <3>3, CallShape
      <4> QED
        BY <3>1, <4>1 DEF ShotCall
    <3> QED
      BY <3>1, <3>2, <3>3
  <2>2. CASE SendRequest(d) /\ d # c
    BY <1>0, <1>1, <2>2 DEF SendRequest
  <2>3. CASE Broadcast(d) \/ RequestTimesOut(d)
    BY <1>0, <1>1, <2>3 DEF Broadcast, RequestTimesOut, Idle
  <2>4. ASSUME NEW g \in Frames, SnapshotRegister(d, g) PROVE Same
    <3>1. PICK least : call' = [call EXCEPT ![d] =
            [op |-> "snapshot", frame |-> g, id |-> calls', sent |-> FALSE, least |-> least]]
      BY <2>4 DEF SnapshotRegister
    <3> QED
      BY <1>0, <1>1, <3>1
  <2> QED
    BY <1>3, <1>4, <2>1, <2>2, <2>3, <2>4 DEF Agent
<1>5. ASSUME NEW d \in Callers, ListRegister(d)
      PROVE  Same \/ (call'[c].id = calls + 1 /\ UNCHANGED <<wire, uplink>>)
  <2>1. /\ call' = [call EXCEPT ![d] = [op |-> "list", id |-> calls', sent |-> FALSE]]
        /\ calls' = calls + 1 /\ UNCHANGED <<wire, uplink>>
    BY <1>5 DEF ListRegister, Start
  <2>2. CASE d = c
    BY <1>0, <2>1, <2>2
  <2>3. CASE d # c
    BY <1>0, <1>1, <2>1, <2>3
  <2> QED
    BY <2>2, <2>3
<1>6. ASSUME NEW d \in Callers, NEW w \in Windows, WindowOpen(d, w) \/ WindowClose(d, w) PROVE Same
  BY <1>1, <1>6 DEF WindowOpen, WindowClose
<1>7. ASSUME NEW s \in Sockets, Socket(s) PROVE Same
  <2>1. CASE Join(s)
    BY <1>1, <2>1 DEF Join
  <2>2. ASSUME NEW f \in Frames, ReadClose(s, f) PROVE Same
    <3>1. PICK removed, b : removed = TRUE /\ b = Beside(f, removed) /\ call' = b
      BY <2>2 DEF ReadClose
    <3>2. call'[c] = b[c]
      BY <3>1
    <3> QED
      BY <1>2, <3>1, <3>2
  <2>3. CASE ReadAnswer(s)
    <3>1. PICK to : call' = [d \in Callers |-> IF d \in to THEN Idle ELSE call[d]]
      BY <2>3 DEF ReadAnswer
    <3>2. call'[c] = call[c]
      BY <3>1 DEF Idle
    <3> QED
      BY <1>1, <3>2
  <2> QED
    BY <1>7, <2>1, <2>2, <2>3 DEF Socket
<1>8. ASSUME (\E t \in Tabs : TabConnects(t) \/ TabHandles(t)) \/ DaemonConnects \/ Replays
               \/ \E s \in Sockets : Drops(s)
      PROVE  Same
  BY <1>1, <1>8 DEF TabConnects, Connect, TabHandles, DaemonConnects, Replays, ReadReplay, Drops,
     Drop
<1>9. ASSUME Bridge \/ \E v \in Viewers : Iframes(v) PROVE Same
  BY <1>1, <1>9, IframesStep DEF Bridge, DaemonOpens, DaemonCloses, WindowGoes, DaemonLists,
     DaemonEmits, DaemonHolds, DaemonBuffers, brokerVars
<1>10. ASSUME \E w \in Windows : Page(w) PROVE Same
  BY <1>1, <1>10 DEF Page, PageListens, PageAsksReplay, ClientReady, TakePending, HandleBacklog,
     HandleEvent, webVars, brokerVars
<1>11. ASSUME User \/ UNCHANGED uiVars PROVE Same
  BY <1>1, <1>11 DEF User, UserCloses, UserClosesWindow, uiVars, webVars, brokerVars
<1>12. Same \/ (call'[c].id = calls + 1 /\ UNCHANGED <<wire, uplink>>)
  BY <1>4, <1>5, <1>6, <1>7, <1>8, <1>9, <1>10, <1>11, WindowAssumption
  DEF WindowNext, WindowAgent
\* An agent that waits opens nothing.
<1>13. ASSUME NEW o \in opened'[c], Same PROVE o \in opened[c]
  <2>1. ~WindowOpen(c, o)
    BY <1>13 DEF WindowOpen, Start, Idle
  <2> QED
    BY <1>13, <2>1, OpenedStep
<1> QED
  BY <1>12, <1>13

LEMMA OpensAfter ==
  ASSUME NEW o, NEW h, NEW last, NEW n,
         Opens(Then(Of(h, Labelled(o)), last), o),
         h = [type |-> "open", label |-> o] => o \in Standing',
         h \notin Labelled(o) => Lasting(o), n = last
  PROVE  Opens(n, o)'
<1>1. CASE h = [type |-> "open", label |-> o]
  BY <1>1 DEF Opens, Then, Of, Labelled
<1>2. CASE h = [type |-> "shut", label |-> o]
  BY <1>2 DEF Opens, Then, Of, Labelled
<1>3. CASE h \notin Labelled(o)
  BY <1>3 DEF Opens, Then, Of, Lasting
<1> QED
  BY <1>1, <1>2, <1>3 DEF Labelled

\* A replay says nothing about windows.
LEMMA ReplayOpensNothing ==
  ASSUME StoreTypes, NEW l
  PROVE  LastOf(Replay, Len(Replay), Labelled(l)) = "none"
<1>1. PICK q : q = Replay /\ q \in Seq(Resend)
  BY ReplayShape
<1>2. Len(q) \in Nat /\ \A i \in 1 .. Len(q) : q[i] \in Resend
  BY <1>1
<1>3. \A i \in 1 .. Len(q) : q[i] \notin Labelled(l)
  BY <1>2 DEF Resend, Labelled
<1>4. LastOf(q, Len(q), Labelled(l)) = "none"
  BY <1>2, <1>3, LastTells, AllTell
<1> QED
  BY <1>1, <1>4

LEMMA WillOpenStep == WebTypes /\ ClosingExist /\ WillOpen /\ [WindowNext]_uiVars => WillOpen'
<1> SUFFICES ASSUME WebTypes, ClosingExist, WillOpen, [WindowNext]_uiVars, NEW c \in Callers,
                    NEW o \in opened'[c], NEW q, q = wire'[Daemon]
             PROVE  /\ conn'[Daemon] = "up"
                    /\ Opens(LastOf(q, Len(q), Labelled(o)), o)'
  BY DEF WillOpen
<1>0. wire \in [Sockets -> Seq(Sendable)] /\ StoreTypes /\ Daemon \in Sockets
  BY WindowAssumption DEF WebTypes, QueueTypes
<1>p. PICK p \in Seq(Sendable) : p = wire[Daemon]
  BY <1>0
<1>q. PICK last : last = LastOf(q, Len(q), Labelled(o))
  OBVIOUS
<1>t. Tells(Labelled(o))
  BY AllTell
<1>1. CASE WindowOpen(c, o) /\ Daemon \in Up
  <2>1. PICK m : m = [type |-> "open", label |-> o]
    OBVIOUS
  <2>2. wire' = ToAll(m) /\ conn' = conn /\ conn[Daemon] = "up"
    BY <1>1, <2>1 DEF WindowOpen, Up
  <2>3. q = Append(p, m)
    BY <1>0, <1>1, <1>p, <2>2 DEF ToAll
  <2>4. Of(m, Labelled(o)) = "open"
    BY <2>1 DEF Of, Labelled
  <2>5. LastOf(q, Len(p) + 1, Labelled(o)) = Then(LastOf(p, Len(p), Labelled(o)), "open")
    BY <1>t, <2>3, <2>4, LastAppend
  <2>6. Len(q) = Len(p) + 1
    BY <2>3
  <2>7. last = "open"
    BY <1>q, <2>5, <2>6 DEF Then
  <2> QED
    BY <1>q, <2>2, <2>7 DEF Opens
<1>2. CASE o \in opened[c]
  <2>1. conn[Daemon] = "up" /\ Opens(LastOf(p, Len(p), Labelled(o)), o)
    BY <1>2, <1>p DEF WillOpen
  <2>2. PICK old : old = LastOf(p, Len(p), Labelled(o))
    OBVIOUS
  <2>3. /\ conn'[Daemon] = "up"
        /\ DaemonTakes(o) \/ DaemonIsSent(o) \/ DaemonIsResent(o) \/ DaemonRests(o)
    BY <1>2, <2>1, DaemonSees
  <2>4. ASSUME last = old \/ last = "open", Lasting(o) PROVE Opens(last, o)'
    BY <2>1, <2>2, <2>4 DEF Opens, Lasting
  <2>5. CASE DaemonTakes(o)
    <3>1. PICK h : h = Head(p)
      OBVIOUS
    <3>2. /\ p # <<>> /\ q = Tail(p) /\ Len(p) \in 1 .. Len(p) /\ Len(q) = Len(p) - 1
          /\ h = [type |-> "open", label |-> o] => o \in Standing'
          /\ h \notin Labelled(o) => Lasting(o)
      <4>1. /\ p # <<>> /\ q = Tail(p)
            /\ h = [type |-> "open", label |-> o] => o \in Standing'
            /\ h \notin Labelled(o) => Lasting(o)
        BY <1>p, <2>5, <3>1 DEF DaemonTakes
      <4> QED
        BY <4>1
    <3>3. old = Then(Of(h, Labelled(o)), last)
      BY <1>q, <1>t, <2>2, <3>1, <3>2, LastTail
    <3>4. Opens(Then(Of(h, Labelled(o)), last), o)
      BY <2>1, <2>2, <3>3
    <3>5. PICK n : n = last
      OBVIOUS
    <3>6. Opens(n, o)'
      BY <3>2, <3>4, <3>5, OpensAfter
    <3> QED
      BY <1>q, <2>3, <3>5, <3>6
  <2>6. CASE DaemonIsSent(o)
    <3>1. PICK m : /\ q = Append(p, m) /\ Lasting(o)
                   /\ m = [type |-> "open", label |-> o] \/ m \notin Labelled(o)
      BY <1>p, <2>6 DEF DaemonIsSent
    <3>2. Of(m, Labelled(o)) \in {"none", "open"}
      BY <3>1 DEF Of
    <3>3. LastOf(q, Len(p) + 1, Labelled(o)) = Then(old, Of(m, Labelled(o)))
      BY <1>t, <2>2, <3>1, LastAppend
    <3>4. Len(q) = Len(p) + 1
      BY <3>1
    <3>5. last = old \/ last = "open"
      BY <1>q, <3>2, <3>3, <3>4 DEF Then
    <3> QED
      BY <1>q, <2>3, <2>4, <3>1, <3>5
  <2>7. CASE DaemonIsResent(o)
    <3>1. PICK r \in Seq(Sendable) : r = Replay
      BY <1>0, ReplayIsSendable
    <3>2. q = p \o r /\ Lasting(o)
      BY <1>p, <2>7, <3>1 DEF DaemonIsResent
    <3>3. LastOf(r, Len(r), Labelled(o)) = "none"
      BY <1>0, <3>1, ReplayOpensNothing
    <3>4. last = Then(old, "none")
      BY <1>q, <1>t, <2>2, <3>2, <3>3, LastConcat
    <3> QED
      BY <1>q, <2>3, <2>4, <3>2, <3>4, ThenLaws
  <2>8. CASE DaemonRests(o)
    <3>1. q = p /\ Lasting(o)
      BY <1>p, <2>8 DEF DaemonRests
    <3> QED
      BY <1>q, <2>2, <2>3, <2>4, <3>1
  <2> QED
    BY <2>3, <2>5, <2>6, <2>7, <2>8
<1> QED
  BY <1>1, <1>2, OpenedStep

LEMMA ListAskedStep ==
  WebTypes /\ ClosingExist /\ WillOpen /\ ListAsked /\ [WindowNext]_uiVars => ListAsked'
<1> SUFFICES ASSUME WebTypes, ClosingExist, WillOpen, ListAsked, [WindowNext]_uiVars, NEW c \in Callers,
                    call'[c].op = "list", NEW o \in opened'[c], NEW q, q = wire'[Daemon],
                    NEW i \in 1 .. Len(q), q[i].type = "list", q[i].id = call'[c].id
             PROVE  Opens(LastOf(q, i - 1, Labelled(o)), o)'
  BY DEF ListAsked
<1>0. /\ wire \in [Sockets -> Seq(Sendable)] /\ CallTypes /\ StoreTypes /\ Daemon \in Sockets
      /\ calls \in Nat
  BY WindowAssumption DEF WebTypes, QueueTypes, CallTypes
<1>p. PICK p \in Seq(Sendable) : p = wire[Daemon]
  BY <1>0
<1>q. PICK last : last = LastOf(q, i - 1, Labelled(o))
  OBVIOUS
<1>t. Tells(Labelled(o))
  BY AllTell
\* A request that begins has sent nothing yet.
<1>1. CASE call'[c].id = calls + 1 /\ wire' = wire
  <2>1. q[i] \in Sendable
    BY <1>1, <1>p
  <2>2. q[i].id \in Nat /\ q[i].id <= calls
    BY <2>1, MessageShape DEF Sendable, Fits
  <2> QED
    BY <1>0, <1>1, <2>2
<1>2. CASE call[c].op = "list" /\ call'[c].id = call[c].id /\ opened'[c] \subseteq opened[c]
  <2>1. /\ conn[Daemon] = "up" /\ Opens(LastOf(p, Len(p), Labelled(o)), o)
        /\ \A n \in 1 .. Len(p) : p[n].type = "list" /\ p[n].id = call[c].id
             => Opens(LastOf(p, n - 1, Labelled(o)), o)
    BY <1>2, <1>p DEF WillOpen, ListAsked
  <2>2. DaemonTakes(o) \/ DaemonIsSent(o) \/ DaemonIsResent(o) \/ DaemonRests(o)
    BY <1>2, <2>1, DaemonSees
  <2>3. ASSUME Opens(last, o), Lasting(o) PROVE Opens(last, o)'
    BY <2>3 DEF Opens, Lasting
  \* What was on its way before.
  <2>4. ASSUME i \in 1 .. Len(p), \A j \in 1 .. Len(p) : q[j] = p[j], Lasting(o)
        PROVE  Opens(last, o)'
    <3>1. PICK n \in Nat : n = i - 1
      OBVIOUS
    <3>2. Alike(q, p, n)
      BY <2>4, <3>1 DEF Alike
    <3>3. LastOf(q, n, Labelled(o)) = LastOf(p, n, Labelled(o))
      BY <3>2, LastSame
    <3>4. Opens(LastOf(p, n, Labelled(o)), o)
      BY <1>2, <2>1, <2>4, <3>1
    <3> QED
      BY <1>q, <2>3, <2>4, <3>1, <3>3, <3>4
  <2>5. CASE DaemonTakes(o)
    <3>1. PICK h : h = Head(p)
      OBVIOUS
    <3>2. /\ p # <<>> /\ q = Tail(p)
          /\ h = [type |-> "open", label |-> o] => o \in Standing'
          /\ h \notin Labelled(o) => Lasting(o)
      BY <1>p, <2>5, <3>1 DEF DaemonTakes
    <3>3. i \in 1 .. Len(p) /\ i + 1 \in 1 .. Len(p) /\ p[i + 1] = q[i] /\ (i + 1) - 1 = i
      BY <3>2
    <3>4. Opens(LastOf(p, i, Labelled(o)), o)
      BY <1>2, <2>1, <3>3
    <3>5. LastOf(p, i, Labelled(o)) = Then(Of(h, Labelled(o)), last)
      BY <1>q, <1>t, <3>1, <3>2, <3>3, LastTail
    <3>6. Opens(Then(Of(h, Labelled(o)), last), o)
      BY <3>4, <3>5
    <3>7. PICK n : n = last
      OBVIOUS
    <3>8. Opens(n, o)'
      BY <3>2, <3>6, <3>7, OpensAfter
    <3> QED
      BY <1>q, <3>7, <3>8
  <2>6. CASE DaemonIsSent(o)
    <3>1. PICK m : /\ q = Append(p, m) /\ Lasting(o)
                   /\ m.type = "list" => \E d \in Callers : SendRequest(d) /\ m = Request(d)
      BY <1>p, <2>6 DEF DaemonIsSent
    <3>2. /\ Len(q) = Len(p) + 1 /\ Len(p) \in Nat
          /\ \A j \in 1 .. Len(p) : q[j] = p[j]
      BY <3>1
    <3>3. CASE i \in 1 .. Len(p)
      BY <1>q, <2>4, <3>1, <3>2, <3>3
    \* The request itself: what was said about the window comes before.
    <3>4. CASE i = Len(p) + 1
      <4>1. PICK n \in Nat : n = Len(p) /\ Alike(q, p, n)
        BY <3>2 DEF Alike
      <4>2. LastOf(q, n, Labelled(o)) = LastOf(p, n, Labelled(o))
        BY <4>1, LastSame
      <4>3. last = LastOf(p, Len(p), Labelled(o))
        BY <1>q, <3>2, <3>4, <4>1, <4>2
      <4> QED
        BY <1>q, <2>1, <2>3, <3>1, <4>3
    <3> QED
      BY <3>2, <3>3, <3>4
  <2>7. CASE DaemonIsResent(o)
    <3>1. PICK r \in Seq(Resend) : r = Replay
      BY <1>0, ReplayShape
    <3>2. q = p \o r /\ Lasting(o)
      BY <1>p, <2>7, <3>1 DEF DaemonIsResent
    <3>3. /\ \A j \in 1 .. Len(p) : q[j] = p[j]
          /\ i \in 1 .. Len(p) \/ q[i] \in Resend
      BY <3>2
    <3>4. \A m \in Resend : m.type = "render"
      BY DEF Resend
    <3>5. i \in 1 .. Len(p)
      BY <3>3, <3>4
    <3> QED
      BY <1>q, <2>4, <3>2, <3>3, <3>5
  <2>8. CASE DaemonRests(o)
    <3>1. q = p /\ Lasting(o)
      BY <1>p, <2>8 DEF DaemonRests
    <3> QED
      BY <1>q, <2>4, <3>1
  <2> QED
    BY <2>2, <2>5, <2>6, <2>7, <2>8
<1> QED
  BY <1>1, <1>2, ListStep

LEMMA ListedStep ==
  WebTypes /\ Bufs /\ ListAsked /\ Listed /\ [WindowNext]_uiVars => Listed'
<1> SUFFICES ASSUME WebTypes, Bufs, ListAsked, Listed, [WindowNext]_uiVars,
                    NEW s \in Sockets, NEW c \in Callers, call'[c].op = "list", NEW q, q = uplink'[s],
                    NEW i \in 1 .. Len(q), q[i].type = "answer", q[i].id = call'[c].id
             PROVE  opened'[c] \subseteq q[i].got
  BY DEF Listed
<1>0. /\ uplink \in [Sockets -> Seq(Returnable)] /\ wire \in [Sockets -> Seq(Sendable)]
      /\ calls \in Nat /\ opened \in [Callers -> SUBSET Windows] /\ Daemon \in Sockets
  BY WindowAssumption DEF WebTypes, QueueTypes, CallTypes, PageTypes
<1>p. PICK p \in Seq(Returnable) : p = uplink[s]
  BY <1>0
\* A request that begins has no answer yet.
<1>1. CASE call'[c].id = calls + 1 /\ uplink' = uplink
  <2>1. q[i] \in Returnable
    BY <1>1, <1>p
  <2>2. q[i].id \in Nat /\ q[i].id <= calls
    BY <2>1 DEF Returnable, Answers, Reply, PageAnswer, ListAnswer
  <2> QED
    BY <1>0, <1>1, <2>2
<1>2. CASE call[c].op = "list" /\ call'[c].id = call[c].id /\ opened'[c] \subseteq opened[c]
  <2>1. \A n \in 1 .. Len(p) : p[n].type = "answer" /\ p[n].id = call[c].id
          => opened[c] \subseteq p[n].got
    BY <1>2, <1>p DEF Listed
  <2>2. ASSUME NEW m, q = Append(p, m), i # Len(p) + 1 PROVE opened[c] \subseteq q[i].got
    <3>1. i \in 1 .. Len(p) /\ q[i] = p[i]
      BY <2>2
    <3> QED
      BY <1>2, <2>1, <3>1
  <2>3. CASE q = p
    BY <1>2, <2>1, <2>3
  <2>4. CASE q = <<>>
    BY <2>4
  <2>5. CASE Read(s)
    <3>1. p # <<>> /\ q = Tail(p)
      BY <1>p, <2>5 DEF Read
    <3>2. i + 1 \in 1 .. Len(p) /\ q[i] = p[i + 1]
      BY <3>1
    <3> QED
      BY <1>2, <2>1, <3>2
  <2>6. CASE Other(s)
    <3>1. PICK m : m.type # "answer" /\ q = Append(p, m)
      BY <1>p, <2>6 DEF Other
    <3>2. i # Len(p) + 1
      BY <3>1
    <3> QED
      BY <1>2, <2>2, <3>1, <3>2
  \* A page answers requests for snapshots only, and so do its documents.
  <2>7. ASSUME NEW v \in Viewers, NEW m, SocketOf[v] = s, Replied(v, m)
        PROVE  opened[c] \subseteq q[i].got
    <3>0. PICK sure : sure = (v \in m.sure)
      OBVIOUS
    <3>1. PICK a : /\ a = [type |-> "answer", id |-> m.id, got |-> None, sure |-> sure]
                   /\ q = Append(p, a)
      BY <1>p, <2>7, <3>0 DEF Replied
    <3>2. m.type = "snapshot" /\ Fits(m)
      BY <2>7 DEF Replied, Sendable
    <3>3. m.id # call[c].id
      BY <1>2, <3>2 DEF Fits, Asking
    <3>4. a.id = m.id
      BY <3>1
    <3>5. i # Len(p) + 1
      BY <1>2, <3>1, <3>3, <3>4
    <3> QED
      BY <2>2, <3>1, <3>5
  <2>9. ASSUME NEW v \in Viewers, SocketOf[v] = s, Passed(v)
        PROVE  opened[c] \subseteq q[i].got
    <3>0. PICK a \in asked[v] : \E g \in {0, a.got} : q = Append(p, [a EXCEPT !.got = g])
      BY <1>p, <2>9 DEF Passed
    <3>p. PICK got \in {0, a.got} : q = Append(p, [a EXCEPT !.got = got])
      BY <3>0
    <3>1. PICK b : b = [a EXCEPT !.got = got] /\ q = Append(p, b)
      BY <3>p
    <3>2. a \in Returnable /\ a \in PageAnswer
      BY DEF WebTypes, FrameTypes
    <3>3. b \in Returnable /\ b \in PageAnswer /\ b.type = "answer"
      BY <3>1, <3>2, AnswerKept
    <3>4. b.id # call[c].id
      <4>1. b \notin ListAnswer
        <5>1. \A m \in PageAnswer : DOMAIN m = {"type", "id", "got", "sure"}
          BY DEF PageAnswer
        <5>2. \A m \in ListAnswer : DOMAIN m = {"type", "id", "got"}
          BY DEF ListAnswer
        <5>3. DOMAIN b = {"type", "id", "got", "sure"}
          BY <3>3, <5>1
        <5>4. "sure" \in DOMAIN b /\ "sure" \notin {"type", "id", "got"}
          BY <5>3
        <5> QED
          BY <5>2, <5>4
      <4> QED
        BY <1>2, <3>3, <4>1 DEF Returnable, Answers, Asking
    <3>5. i # Len(p) + 1
      BY <1>2, <3>1, <3>4
    <3> QED
      BY <2>2, <3>1, <3>5
  \* The daemon answers with the windows that are open.
  <2>8. ASSUME s = Daemon, ListReplied PROVE opened[c] \subseteq q[i].got
    <3>1. PICK id, a : /\ a = [type |-> "answer", id |-> id, got |-> Open] /\ q = Append(p, a)
                       /\ wire[Daemon] # <<>> /\ Head(wire[Daemon]) = [type |-> "list", id |-> id]
      BY <1>p, <2>8 DEF ListReplied
    <3>2. CASE i = Len(p) + 1
      <4>1. q[i] = a /\ a.id = id /\ a.got = Open
        BY <3>1, <3>2
      <4>2. PICK w \in Seq(Sendable) : w = wire[Daemon]
        BY <1>0
      <4>3. 1 \in 1 .. Len(w) /\ w[1].type = "list" /\ w[1].id = call[c].id
        BY <1>2, <3>1, <4>1, <4>2
      <4>4. ASSUME NEW o \in opened[c] PROVE o \in Open
        <5>1. Opens(LastOf(w, 1 - 1, Labelled(o)), o)
          BY <1>2, <4>2, <4>3 DEF ListAsked
        <5>2. Opens("none", o)
          BY <5>1, LastOfNone
        <5> QED
          BY <5>2 DEF Opens, Standing
      <4> QED
        BY <4>1, <4>4
    <3> QED
      BY <2>2, <3>1, <3>2
  <2> QED
    BY <1>2, <1>p, <2>3, <2>4, <2>5, <2>6, <2>7, <2>8, <2>9, UplinkSees
<1> QED
  BY <1>1, <1>2, ListStep
-----------------------------------------------------------------------------
(***************************************************************************)
(* All of it together.                                                     *)
(***************************************************************************)
PageInv == WebTypes /\ Bufs /\ AloneIsLast /\ Pages

ShotInv == Versions /\ WillShow /\ Asked /\ Posted /\ Answered /\ Kept /\ SnapshotsAreCurrent

ListInv == ClosingExist /\ WillOpen /\ ListAsked /\ Listed

LEMMA InitIsTyped == WindowInit => WebTypes
<1> SUFFICES ASSUME WindowInit PROVE WebTypes
  OBVIOUS
<1>1. \A c \in Callers : call[c] = Idle
  BY DEF WindowInit, WebInit
<1>2. CallTypes
  BY <1>1 DEF WindowInit, WebInit, CallTypes, Call, Asking, Idle
<1>3. StoreTypes
  <2>1. Resend = {}
    BY DEF WindowInit, WebInit, Resend
  <2>2. IsFiniteSet(Resend)
    BY <2>1, FS_EmptySet
  <2>3. /\ store \in [Frames -> Nat] /\ renders \in 0 .. MaxRenders
        /\ \A f \in Frames : store[f] <= renders
    BY WebViewAssumption DEF WindowInit, WebInit
  <2> QED
    BY <2>2, <2>3 DEF StoreTypes
<1>4. PageTypes
  BY DEF WindowInit, WebInit, PageTypes, Version, Stages
<1>5. QueueTypes
  BY DEF WindowInit, WebInit, QueueTypes
<1>6. FrameTypes
  BY DEF WindowInit, WebInit, FrameTypes, Version
<1> QED
  BY <1>2, <1>3, <1>4, <1>5, <1>6 DEF WebTypes

LEMMA PageInit == WindowInit => PageInv
<1> SUFFICES ASSUME WindowInit PROVE PageInv
  OBVIOUS
<1>1. WebTypes
  BY InitIsTyped
<1>2. Bufs
  BY DEF WindowInit, WebInit, Bufs, DownIsEmpty, NotReady, Played
<1>3. AloneIsLast
  BY DEF WindowInit, WebInit, AloneIsLast, Idle
<1>4. Pages
  <2>1. \A v \in Viewers : conn[SocketOf[v]] = "down"
    BY WebViewAssumption DEF WindowInit, WebInit
  <2> QED
    BY <2>1 DEF Pages, InSync, Calm, Hears
<1> QED
  BY <1>1, <1>2, <1>3, <1>4 DEF PageInv

LEMMA ShotInit == WindowInit => ShotInv
<1> SUFFICES ASSUME WindowInit PROVE ShotInv
  OBVIOUS
<1>1. \A c \in Callers : ~Wants(c)
  BY DEF WindowInit, WebInit, Wants, Idle
<1>2. Versions /\ WillShow /\ Asked /\ Posted /\ Answered
  BY <1>1 DEF Versions, WillShow, Asked, Posted, Answered
<1>3. Kept /\ SnapshotsAreCurrent
  BY DEF WindowInit, WebInit, Kept, SnapshotsAreCurrent
<1> QED
  BY <1>2, <1>3 DEF ShotInv

LEMMA ListInit == WindowInit => ListInv
<1> SUFFICES ASSUME WindowInit PROVE ListInv
  OBVIOUS
<1>1. closing = {} /\ \A c \in Callers : opened[c] = {} /\ call[c].op # "list"
  BY DEF WindowInit, WebInit, Idle
<1> QED
  BY <1>1 DEF ListInv, ClosingExist, WillOpen, ListAsked, Listed

(***************************************************************************)
(* A page that has been told everything shows the frames that are stored,  *)
(* for any number of tabs, windows, agents and frames: broadcasts, replays *)
(* and the daemon's buffer together keep what is said last to a page equal *)
(* to what the broker stores.                                              *)
(***************************************************************************)
THEOREM PagesAreInSync == WindowSpec => []PagesShowTheStore
<1>1. WindowInit => PageInv
  BY PageInit
<1>2. PageInv /\ [WindowNext]_uiVars => PageInv'
  BY TypesStep, BufsStep, AloneStep, PagesStep DEF PageInv, WebTypes
<1>3. PageInv => PagesShowTheStore
  BY PagesImplies DEF PageInv
<1> QED
  BY <1>1, <1>2, <1>3, PTL DEF WindowSpec

(***************************************************************************)
(* A snapshot from a tab that was in step, and that neither loads nor      *)
(* closes the frame when the request comes, is of the version stored when  *)
(* it was asked for or a later one, or the document's error, in spite of   *)
(* lost connections, documents that answer late, waiters that were given   *)
(* up and answers of other pages.                                          *)
(***************************************************************************)
THEOREM SnapshotsCurrent == WindowSpec => []SnapshotsAreCurrent
<1>1. WindowInit => PageInv /\ ShotInv
  BY PageInit, ShotInit
<1>2. PageInv /\ ShotInv /\ [WindowNext]_uiVars => PageInv' /\ ShotInv'
  <2> SUFFICES ASSUME PageInv, ShotInv, [WindowNext]_uiVars PROVE PageInv' /\ ShotInv'
    OBVIOUS
  <2>1. PageInv'
    BY TypesStep, BufsStep, AloneStep, PagesStep DEF PageInv, WebTypes
  <2>2. WebTypes /\ Bufs /\ Pages /\ CallTypes /\ StoreTypes
    BY DEF PageInv, WebTypes
  <2>3. Versions' /\ WillShow' /\ Asked'
    BY <2>2, VersionsStep, WillShowStep, AskedStep DEF ShotInv
  <2>4. Answered' /\ Kept' /\ SnapshotsAreCurrent'
    BY <2>2, AnsweredStep, AnswersStep, SnapshotsStep DEF ShotInv
  <2>5. Posted'
    BY <2>2, PostedStep DEF ShotInv
  <2> QED
    BY <2>1, <2>3, <2>4, <2>5 DEF ShotInv
<1>3. ShotInv => SnapshotsAreCurrent
  BY DEF ShotInv
<1> QED
  BY <1>1, <1>2, <1>3, PTL DEF WindowSpec

(***************************************************************************)
(* A list of windows names every window that its agent has opened and that *)
(* nobody has closed, unless the daemon could not build it or found its    *)
(* label still taken: the daemon has read the openings that the broker     *)
(* sent before the request, and no page answers in its place.              *)
(***************************************************************************)
THEOREM OpenedAreListed == WindowSpec => OpenedIsListed
<1> DEFINE Full ==
      \A c \in Callers :
        call[c].op = "list" /\ answer'[c] # answer[c] /\ answer'[c] # None
          => opened[c] \subseteq answer'[c].from.got
<1>1. WindowInit => PageInv /\ ListInv /\ Kept
  BY PageInit, ListInit, ShotInit DEF ShotInv
<1>2. PageInv /\ ListInv /\ Kept /\ [WindowNext]_uiVars => PageInv' /\ ListInv' /\ Kept'
  <2> SUFFICES ASSUME PageInv, ListInv, Kept, [WindowNext]_uiVars PROVE PageInv' /\ ListInv' /\ Kept'
    OBVIOUS
  <2>1. PageInv'
    BY TypesStep, BufsStep, AloneStep, PagesStep DEF PageInv, WebTypes
  <2>2. WebTypes /\ Bufs
    BY DEF PageInv
  <2>3. ClosingExist' /\ WillOpen' /\ ListAsked' /\ Listed'
    BY <2>2, ClosingStep, WillOpenStep, ListAskedStep, ListedStep DEF ListInv
  <2>4. Kept'
    BY AnswersStep
  <2> QED
    BY <2>1, <2>3, <2>4 DEF ListInv
<1>3. PageInv /\ ListInv /\ Kept /\ [WindowNext]_uiVars => [Full]_uiVars
  <2> SUFFICES ASSUME PageInv, ListInv, Kept, [WindowNext]_uiVars, NEW c \in Callers,
                      call[c].op = "list", NEW a, a = answer'[c], a # answer[c], a # None
               PROVE  opened[c] \subseteq a.from.got
    OBVIOUS
  <2>1. Resolved(c)
    BY AnswersStep
  <2>2. PICK s \in Sockets :
          /\ uplink[s] # <<>>
          /\ Head(uplink[s]).type = "answer" /\ Head(uplink[s]).id = call[c].id
          /\ Asking(c)
          /\ a = [call |-> call[c], from |-> Head(uplink[s])]
    BY <2>1 DEF Resolved
  <2>3. PICK q : q = uplink[s] /\ 1 \in 1 .. Len(q) /\ q[1] = Head(uplink[s])
    BY <2>2, AnswerFits DEF PageInv
  <2>4. opened[c] \subseteq q[1].got
    BY <2>2, <2>3 DEF ListInv, Listed
  <2> QED
    BY <2>2, <2>3, <2>4
<1> QED
  BY <1>1, <1>2, <1>3, PTL DEF WindowSpec, OpenedIsListed
=============================================================================
