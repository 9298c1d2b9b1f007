CONSTANTS
    Size = 2
    Task = {"a", "b"}
    NoFn = NoFn
    Warning = {}
    Posts <- RunPosts
    IsrPosts <- RunIsrPosts
    Cancels = {"b"}
    Delays = {1}
    Period = 6
    MaxDepth = 2
    CancelRaces = TRUE
    Resets = {}
SPECIFICATION Spec
PROPERTY ImplementsTaskService
