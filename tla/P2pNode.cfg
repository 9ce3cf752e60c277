SPECIFICATION FairSpec
CONSTANTS
  relay = relay
  peer = peer
  Peers = {relay, peer}
  Servers = {relay}
  Boot = {relay}
  MaxAsks = 2
  Budgets <- MCBudgets
INVARIANTS
  PeersAreTracked
  ServersAreAskedOnce
  AnswersUseWhatIsKnown
PROPERTIES
  IsolationEnds
  CallersAreAnswered
