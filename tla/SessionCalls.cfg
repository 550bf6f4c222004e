CONSTANTS
  Requests = {r1}
  Hangups = {h1}
  Peers = {p1}
  MaxCalls = 1
  MaxDialled = 2
SPECIFICATION FairSpec
INVARIANTS
  LimitUpToRacers
  LiveCallsReachable
PROPERTIES
  MissedCalledBack
  ManagersKeepContract
CHECK_DEADLOCK FALSE
