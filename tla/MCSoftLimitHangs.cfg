SPECIFICATION FairSpec
CONSTANTS
  MaxSeg = 2
  MaxBlk = 2
  Inputs = {}
  LineKinds = {"move", "bad"}
  MaxEvents = 0
  MaxLines = 2
PROPERTIES SoftLimitEntersAlarm
