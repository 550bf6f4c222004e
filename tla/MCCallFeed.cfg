CONSTANTS
  Calls = {x}
  Emitters = {e1, e2}
  Cap = 1
  MaxRev = 4
SYMMETRY Symmetry
SPECIFICATION Spec
INVARIANTS
  ViewCurrent
  StoredCurrent
CHECK_DEADLOCK FALSE
