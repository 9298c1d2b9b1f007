CONSTANTS
    Cmds = {1, 2}
    Size = 4
    CrossCore = TRUE
SPECIFICATION Spec
INVARIANT ReturnsOnlyEnqueued
