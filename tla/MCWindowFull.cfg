CONSTANTS
    Ring = 6
    LineMax = 2
    Window = 6
    MaxLines = 2
    MaxCommands = 0
    Texts <- Jogs
    Eol <- Lf
    Commands = {}
    LegacyRt = TRUE
SPECIFICATION Spec
INVARIANT NothingLost
