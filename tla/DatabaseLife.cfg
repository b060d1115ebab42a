SPECIFICATION Spec
CONSTANTS
    a = a
    b = b
    NoName = NoName
    Names = {a, b}
    Fields = {"f", "g"}
    Client = {"dropMissing", "exportTwice"}
    Faults = {"crash", "exportError", "openError"}
    MaxFaults = 2
SYMMETRY
    Symmetry
INVARIANTS
    TypeOK
    ExportSafe
    NoDangling
    ExportWhole
