CONSTANTS
    Size = 2
    Task = {"a", "b", "c"}
    NoFn = NoFn
    Warning = {"c"}
    Posts <- BootPosts
    IsrPosts <- BootIsrPosts
    Cancels = {}
    Delays = {}
    Period = 2
    MaxDepth = 2
    CancelRaces = FALSE
    Resets = {"early", "late"}
SPECIFICATION FairSpec
PROPERTY StartupTasksRun
