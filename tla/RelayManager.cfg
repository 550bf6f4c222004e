CONSTANTS
  Ids = {x}
  MaxConns = 2
SPECIFICATION FairSpec
INVARIANTS
  RegisteredLive
PROPERTIES
  ContractSpec
  ConnectingResolves
  DeadLinkUnregistered
  KeepaliveEnds
CHECK_DEADLOCK FALSE
