SPECIFICATION MCSpec
CONSTANTS
  f1 = f1
  tab = tab
  w = w
  daemon = daemon
  c1 = c1
  c2 = c2
  None = None
  Frames = {f1}
  Sockets = {tab, daemon}
  Viewers = {tab, w}
  Tabs = {tab}
  Windows = {w}
  Daemon = daemon
  SocketOf <- MCSocketOf
  Callers = {c1, c2}
  Openers = {c1}
  MaxRenders = 2
  Budgets <- MCBudgets
INVARIANTS
  PagesShowTheStore
  SnapshotsAreCurrent
PROPERTIES
  OpenedIsListed
CHECK_DEADLOCK FALSE
