CONSTANTS
  Ids = {s1}
  Jids = {j1, j2}
  Clients = {c1, c2, c3}
  Requests = {r1, r2}
SYMMETRY Symmetry
SPECIFICATION Spec
INVARIANTS
  DeletedForGood
  
  NoStrayClient
CHECK_DEADLOCK FALSE
