CONSTANTS
    Systems = {"G54", "G55"}
    Default = "G54"
    Blocks <- Program
    Interrupts = {"stop", "reset", "restore", "power"}
    KeepOffsets = FALSE
    Slots = 4
    MaxQueue = 2
    MaxBlocks = 4
    MaxInterrupts = 2
SPECIFICATION Spec
INVARIANTS OffsetsAgree FeedIsOwn
PROPERTY WorkPositionIsAsked
CHECK_DEADLOCK FALSE
