SPECIFICATION FairSpec
CONSTANTS
  timed = timed
  untimed = untimed
  a = a
  b = b
  p1 = p1
  p2 = p2
  Listeners = {timed, untimed}
  TimedListeners = {timed}
  Pushers = {p1, p2}
  Topics = {a, b}
  Subscription <- MCSubscription
  MaxSize = 2
  MaxEvents = 3
INVARIANTS
  HandedOnceInOrder
PROPERTIES
  ArrivalIsAnswered
  ImplementsEventLog
CHECK_DEADLOCK FALSE
