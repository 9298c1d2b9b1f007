CONSTANTS
    Programs <- Calling
    Typeable = {"plain", "run"}
    MaxJobs = 2
    MaxChanges = 0
    MaxOrders = 2
    ConnectAt = {}
    HangupAt = {}
    InterruptedStart = FALSE
    Nested = TRUE
SPECIFICATION FairSpec
INVARIANT RealtimeReaches
