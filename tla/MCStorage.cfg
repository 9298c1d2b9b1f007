CONSTANTS
    Others = {"coord", "build"}
    Value = {0, 1}
    Default = 0
    Blank = Blank
    Backends = {"flash", "eeprom"}
    Fallible = {"coord"}
    ReadFails = TRUE
    Overrides = {1}
SPECIFICATION FairSpec
INVARIANTS NothingForgotten
PROPERTIES ImplementsSettingsStore ChangesAreSaved
