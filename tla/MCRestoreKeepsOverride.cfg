CONSTANTS
    Others = {"coord"}
    Value = {0, 1}
    Default = 0
    Blank = Blank
    Backends = {"flash"}
    Fallible = {}
    ReadFails = FALSE
    Overrides = {1}
SPECIFICATION Spec
PROPERTY RestoreGivesDefaults
