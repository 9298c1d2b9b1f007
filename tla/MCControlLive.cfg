SPECIFICATION FairSpec
CONSTANTS
  MaxSeg = 2
  MaxBlk = 2
  Inputs = {"reset", "stop", "hold", "start", "jogCancel", "door", "doorCommand"}
  LineKinds = {"move", "jog"}
  MaxEvents = 2
  MaxLines = 2
PROPERTIES JogCancelDiscards HoldCompletes MovesAreExecuted ResetIsHonoured StopEndsMotion
