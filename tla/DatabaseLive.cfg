SPECIFICATION FairSpec
CONSTANTS
    a = a
    b = b
    NoName = NoName
    Names = {a}
    Fields = {"f", "g"}
    Client = {}
    Faults = {"crash", "cfError", "exportError", "diskFull", "openError"}
    MaxFaults = 2
PROPERTY
    CallsEnd
