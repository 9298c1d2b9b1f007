CONSTANTS
    Programs <- Endless
    Typeable = {"plain", "run", "unlock"}
    MaxJobs = 2
    MaxChanges = 1
    MaxOrders = 1
    ConnectAt = {"drained"}
    HangupAt = {}
    InterruptedStart = FALSE
    Nested = FALSE
SPECIFICATION FairSpec
PROPERTY JobEnds
