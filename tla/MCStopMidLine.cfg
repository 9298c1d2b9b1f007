CONSTANTS
    Ring = 10
    LineMax = 2
    Window = 4
    MaxLines = 2
    MaxCommands = 1
    Texts <- Jogs
    Eol <- Lf
    Commands = {"stop"}
    LegacyRt = TRUE
SPECIFICATION Spec
INVARIANT LinesAreWhole
