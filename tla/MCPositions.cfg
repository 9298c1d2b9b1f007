SPECIFICATION Spec
CONSTANTS
  Half = 2
  Pitches <- MCPitches
  CosD <- MCCosD
  SinD <- MCSinD
  Places <- MCPlaces
  Heights <- MCHeights
  BaseWords <- MCBaseWords
  LiftWords <- MCLiftWords
  RailWords <- MCRailWords
  Kinds = {"move", "jog", "joints"}
  Requests = {"stop", "jogCancel", "reset"}
  MaxBlk = 2
  MaxLines = 3
INVARIANTS ParserFollowsPlanner PlannerIsLastTarget LimitsKept
PROPERTIES SamePlaceKeepsBase RejectedIsUnreachable
