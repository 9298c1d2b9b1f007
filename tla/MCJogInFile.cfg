CONSTANTS
    Programs <- WithJog
    Typeable = {"plain", "run"}
    MaxJobs = 2
    MaxChanges = 0
    MaxOrders = 2
    ConnectAt = {}
    HangupAt = {}
    InterruptedStart = FALSE
    Nested = FALSE
SPECIFICATION FairSpec
PROPERTY ImplementsJobService
