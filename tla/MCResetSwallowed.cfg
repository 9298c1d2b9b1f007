SPECIFICATION FairSpec
CONSTANTS
  MaxSeg = 2
  MaxBlk = 2
  Inputs = {"stop", "reset"}
  LineKinds = {"move"}
  MaxEvents = 2
  MaxLines = 1
PROPERTIES EveryResetIsHonoured
