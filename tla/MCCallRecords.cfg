CONSTANTS
  Clients = {c1}
  Bridges = {b1, b2}
  Nobody = Nobody
SYMMETRY Symmetry
SPECIFICATION Spec
INVARIANTS
  BridgeFollowsCall
  LateWritesOnly
  EndedCallLeaves
PROPERTIES
  ConnectedAtKept
CHECK_DEADLOCK FALSE
