CONSTANTS
  Callers = {a1}
  Relays = {r1}
SPECIFICATION FairSpec
PROPERTIES
  TeardownCompletes
CHECK_DEADLOCK FALSE
