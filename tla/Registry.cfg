SPECIFICATION FairSpec
CONSTANTS
  server = server
  plain = plain
  y = y
  m = m
  b = b
  Sources = {server, plain}
  Tools = {y, m, b}
  Builtins = {b}
  BuiltinTag = builtin
  NoSource = none
  Contents <- MCContents
  MaxChanges = 3
  MaxTasks = 3
INVARIANTS
  HandlesAreLive
  ManifestsAreServed
  NoServerForgotten
  AdditionsAreAnnounced
PROPERTIES
  EventuallySettles
CHECK_DEADLOCK FALSE
