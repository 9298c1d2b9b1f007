CONSTANTS
    Ring = 10
    LineMax = 2
    Window = 6
    MaxLines = 2
    MaxCommands = 0
    Texts <- Jogs
    Eol <- CrLf
    Commands = {}
    LegacyRt = TRUE
SPECIFICATION Spec
INVARIANT OneAnswerPerLine
