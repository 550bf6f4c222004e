CONSTANTS
  FrameSize = 2
  MaxGreeting = 3
  PartSizes = {1, 3}
  MaxParts = 3
SPECIFICATION VoiceFairSpec
INVARIANTS
  SpokenInOrder
  AtMostOneStranded
  FlushCutsSpeech
PROPERTIES
  ReportReturns
  SpeechEnds
CHECK_DEADLOCK FALSE
