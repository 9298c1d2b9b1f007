SPECIFICATION Spec
CONSTANTS
  MaxSeg = 2
  MaxBlk = 2
  Inputs = {"reset"}
  LineKinds = {"move"}
  MaxEvents = 1
  MaxLines = 1
PROPERTIES LostPositionLocks
