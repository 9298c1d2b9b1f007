SPECIFICATION Spec
CONSTANTS
  Half = 2
  Pitches <- MCPitches
  CosD <- MCCosD
  SinD <- MCSinD
  Places <- MCPlaces
  Heights <- MCHeights
  BaseWords <- MCBaseWords
  LiftWords <- MCLiftWords
  RailWords <- MCRailWords
  Kinds = {"move"}
  Requests = {"stop"}
  MaxBlk = 2
  MaxLines = 3
PROPERTY PlaceFixesBase
