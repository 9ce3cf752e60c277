------------------------------ MODULE EventLog ------------------------------
(***************************************************************************)
(* What the event queue behind `listen` and `emit` promises, without the   *)
(* lock, the ring buffer and the notifier that implement it.  Events form  *)
(* one log.  A listener owns a position in it; a read hands over every     *)
(* retained event past the position that the listener's topics match, and  *)
(* moves the position to the last one handed over.  Only the newest        *)
(* MaxSize events are retained.                                            *)
(*                                                                         *)
(* A listener that calls with a timeout may also be handed nothing and     *)
(* told any newer position: the module EventQueue explains what that costs.*)
(***************************************************************************)
EXTENDS Naturals, Sequences

CONSTANTS
  Listeners,      \* clients of the `listen` tool
  TimedListeners, \* those that pass a positive timeout
  Topics,         \* topics of events
  Subscription,   \* Subscription[l]: the topics that a prefix of l matches
  MaxSize,        \* capacity of the ring buffer
  MaxEvents       \* bound of the model: number of events ever pushed

VARIABLES
  log,     \* log[i] is the topic of the i-th event ever pushed
  cursor,  \* cursor[l]: the position that l resumes from
  handed   \* handed[l][i]: how often l was handed event i since it last
           \* joined at the head

vars == <<log, cursor, handed>>

\* The ids the ring buffer still holds.
Retained == {i \in 1 .. Len(log) : i + MaxSize > Len(log)}

\* What a read by l must hand over.
Owed(l) == {i \in Retained : i > cursor[l] /\ log[i] \in Subscription[l]}

Init ==
  /\ log = <<>>
  /\ cursor = [l \in Listeners |-> 0]
  /\ handed = [l \in Listeners |-> [i \in 1 .. MaxEvents |-> 0]]

Publish(t) ==
  /\ log' = Append(log, t)
  /\ UNCHANGED <<cursor, handed>>

\* A call without `after` starts over at the head of the log.
Join(l) ==
  /\ cursor' = [cursor EXCEPT ![l] = Len(log)]
  /\ handed' = [handed EXCEPT ![l] = [i \in 1 .. MaxEvents |-> 0]]
  /\ UNCHANGED log

Read(l) ==
  /\ \E last \in Owed(l) :
       /\ \A i \in Owed(l) : i <= last
       /\ cursor' = [cursor EXCEPT ![l] = last]
  /\ handed' = [handed EXCEPT ![l] =
       [i \in 1 .. MaxEvents |-> IF i \in Owed(l) THEN @[i] + 1 ELSE @[i]]]
  /\ UNCHANGED log

TimeOut(l) ==
  /\ l \in TimedListeners
  /\ cursor' = [cursor EXCEPT ![l] = Len(log)]
  /\ UNCHANGED <<log, handed>>

Next ==
  \/ \E t \in Topics : Publish(t)
  \/ \E l \in Listeners : Join(l) \/ Read(l) \/ TimeOut(l)

Spec == Init /\ [][Next]_vars
=============================================================================
