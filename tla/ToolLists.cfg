SPECIFICATION ListsSpec
CONSTANTS
  Sessions = {s1}
  s1 = s1
  Cap = 1
  None = None
  Budgets <- MCBudgets
INVARIANTS
  SessionsAreTold
  ShimsAreUsable
  AnnouncementIsCurrent
CHECK_DEADLOCK FALSE
