CONSTANTS
    Programs <- Files
    Typeable = {"plain", "run"}
    MaxJobs = 2
    MaxChanges = 2
    MaxOrders = 2
    ConnectAt = {"none"}
    HangupAt = {"reading"}
    InterruptedStart = FALSE
    Nested = FALSE
SPECIFICATION FairSpec
INVARIANT InputRestored
