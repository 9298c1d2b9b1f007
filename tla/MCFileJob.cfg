CONSTANTS
    Programs <- Files
    Typeable = {"plain", "bad", "m2", "m30", "run", "unlock"}
    MaxJobs = 2
    MaxChanges = 2
    MaxOrders = 2
    ConnectAt = {"none", "reading"}
    HangupAt = {"none"}
    InterruptedStart = FALSE
    Nested = FALSE
SPECIFICATION FairSpec
INVARIANTS RealtimeReaches InputRestored ToolInputIsFresh
PROPERTIES ImplementsJobService JobEnds
