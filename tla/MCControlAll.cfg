SPECIFICATION Spec
CONSTANTS
  MaxSeg = 2
  MaxBlk = 2
  Inputs = {"reset", "stop", "hold", "start", "jogCancel", "door", "doorCommand", "estop", "limit", "probe"}
  LineKinds = {"move", "bad", "jog", "sync", "unlock"}
  MaxEvents = 2
  MaxLines = 3
INVARIANTS TypeOK StopDiscardsMotion SuspendHasExit PreparedBlockIsPlanned
PROPERTIES ImplementsOperatorView
