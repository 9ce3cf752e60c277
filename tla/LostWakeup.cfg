SPECIFICATION FairSpec
CONSTANTS
  timed = timed
  untimed = untimed
  a = a
  b = b
  p1 = p1
  p2 = p2
  Listeners = {timed, untimed}
  TimedListeners = {timed}
  Pushers = {p1, p2}
  Topics = {a, b}
  Subscription <- MCSubscription
  MaxSize = 3
  MaxEvents = 3
PROPERTY BlockedListenerAnswers
CHECK_DEADLOCK FALSE
