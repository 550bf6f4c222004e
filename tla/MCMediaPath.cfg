CONSTANTS
  Relays = {r1, r2}
  Cycle = 4
  Firsts = {2, 3}
  MaxPackets = 3
  MaxSessions = 2
  QueueCap = 1
  Copies = 2
SYMMETRY Symmetry
SPECIFICATION Spec
INVARIANTS
  SendIndexTrue
  RecvIndexTrue
PROPERTIES
  FreshKept
CHECK_DEADLOCK FALSE
