SPECIFICATION Spec
CONSTANTS
  MaxSeg = 2
  MaxBlk = 2
  Inputs = {"reset", "stop", "hold", "start", "limit", "probe"}
  LineKinds = {"move", "bad", "jog", "sync", "unlock"}
  MaxEvents = 4
  MaxLines = 2
INVARIANTS NoBareWake RestIsStill CompletionIsFresh PlannedIsWithinLimits
PROPERTIES ResetKnowsMotion
