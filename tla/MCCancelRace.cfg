CONSTANTS
    Ring = 10
    LineMax = 2
    Window = 4
    MaxLines = 1
    MaxCommands = 1
    Texts <- Jogs
    Eol <- Lf
    Commands = {"cancel"}
    LegacyRt = TRUE
SPECIFICATION Spec
INVARIANT CancelDiscardsInput
