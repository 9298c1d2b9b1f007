CONSTANTS
    Size = 3
    Task = {"a", "b"}
    NoFn = NoFn
    Warning = {}
    Posts <- RunPosts
    IsrPosts <- RunIsrPosts
    Cancels = {"b"}
    Delays = {0, 1}
    Period = 6
    MaxDepth = 2
    CancelRaces = FALSE
    Resets = {}
SPECIFICATION Spec
INVARIANTS PoolPartition DelayedInOrder
PROPERTY ImplementsTaskService
