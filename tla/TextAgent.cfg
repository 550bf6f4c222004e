CONSTANTS
  Turns = {t1, t2}
  Engines = {"local", "edge", "google"}
  MinSpeechFrames = 1
  MinSegment = 3
  MaxSegment = 3
  Chunks = 1
  Cooldown = 2
  HistoryLimit = 2
  MaxFailures = 2
SPECIFICATION FairSpec
INVARIANTS
  NoEchoAnswered
  HistoryBounded
PROPERTIES
  TurnEnds
CHECK_DEADLOCK FALSE
