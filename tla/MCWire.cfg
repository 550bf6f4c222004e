CONSTANTS
  SymBits = 4  CodeBits = 16  WindowSize = 16
  MaxPulsesPerSf = 2  PosPerSf = 3  RunStep = 2  SignBatch = 2
  BlockSize = 4  GainFloor = 2  MaxCmf = 200  EncodeBufBytes = 60
  MacLen = 20  KeyLen = 32
  Items <- AllItems
SPECIFICATION Spec
INVARIANTS RoundTrip CutsInaudible RelaysInOrder
CHECK_DEADLOCK FALSE
