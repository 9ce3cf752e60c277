SPECIFICATION Spec
CONSTANTS
  a = a
  b = b
  t = t
  u = u
  P2p = p2p
  Local = local
  Star = star
  None = none
  Peers = {a, b}
  Classes = {p2p}
  ClassOf <- MCClassOf
  Resources = {t, u}
  Procs = {one, two}
  Commands <- MCCommands
  InitialRules <- MCInitialRules
  MaxCommands = 2
INVARIANTS
  ConsolidationIsInvisible
  CommandTakesEffect
  ExposedIffCallable
SYMMETRY MCSymmetry
CHECK_DEADLOCK FALSE
