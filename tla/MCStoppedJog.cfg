SPECIFICATION Spec
CONSTANTS
  Half = 2
  Pitches <- MCPitches
  CosD <- MCCosD
  SinD <- MCSinD
  Places <- MCPlaces
  Heights <- MCHeights
  BaseWords <- MCBaseWords
  LiftWords <- MCLiftWords
  RailWords <- MCRailWords
  Kinds = {"jog"}
  Requests = {"stop"}
  MaxBlk = 2
  MaxLines = 2
INVARIANT CancelKeepsPosition
