CONSTANTS
    Others = {"coord"}
    Value = {0, 1}
    Default = 0
    Blank = Blank
    Backends = {"eeprom"}
    Fallible = {}
    ReadFails = FALSE
    Overrides = {}
SPECIFICATION Spec
PROPERTY TornRecordIsAlone
