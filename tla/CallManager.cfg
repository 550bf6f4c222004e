CONSTANTS
  Callers = {a1, a2}
  Relays = {r1}
SPECIFICATION FairSpec
INVARIANTS
  MediaTeardownFinal
  NoAudioBeforeAnswer
  NoLostMediaConnect
PROPERTIES
  ContractSpec
  AcceptedCallConnects
  DroppedCallReleased
CHECK_DEADLOCK FALSE
