CONSTANTS
  Clients = {c1, c2}
  Bridges = {b1}
  Nobody = Nobody
SPECIFICATION Spec
PROPERTIES
  AnsweredNotCalledBack
CHECK_DEADLOCK FALSE
