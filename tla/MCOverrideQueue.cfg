CONSTANTS
    Cmds = {1, 2, 3}
    Size = 4
    CrossCore = FALSE
SPECIFICATION Spec
PROPERTY ImplementsFifo
