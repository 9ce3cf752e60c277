SPECIFICATION MCSpec
CONSTANTS
  r1 = r1
  r2 = r2
  Agent = Agent
  Repls = {r1, r2}
  MaxSize = 2
  MaxEvents = 4
  MaxDue = 2
  Budgets <- MCBudgets
  MaxCalls = 3
  MaxPings = 2
  PipeSize = 1
INVARIANTS
  AnswersFollowQuestions
  RemovedJobsFallSilent
  WaitersAreReachable
  AnswersAreOwn
PROPERTIES
  TaskIsHeard
  CallsReturn
  ShutdownFreesWaiters
CHECK_DEADLOCK FALSE
