SPECIFICATION FairSpec
CONSTANTS
  Names = {n1}
  Ports = {q1, q2}
  Peers = {p1}
  Conns = {s1}
  Calls = {c1}
  None = None
  MaxOps = 2
  MaxFaults = 1
INVARIANTS
  TablesAgree
  TunnelsWereGranted
PROPERTIES
  EveryoneIsAnswered
  AutoConnects
CHECK_DEADLOCK FALSE
