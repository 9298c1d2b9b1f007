CONSTANTS
    Ring = 10
    LineMax = 2
    Window = 4
    MaxLines = 2
    MaxCommands = 2
    Texts <- Lines
    Eol <- Lf
    Commands = {"cancel", "reset", "hold"}
    LegacyRt = TRUE
SPECIFICATION FairSpec
INVARIANTS LinesAreWhole NothingLost JogNeverOutlivesCancel
PROPERTY LinesAnswered
