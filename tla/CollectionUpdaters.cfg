SPECIFICATION UpdaterSpec
CONSTANTS
    t1 = t1
    t2 = t2
    obj = obj
    None = None
    Missing = Missing
    Array = Array
    Threads = {t1, t2}
    Fields <- OneField
    Ids <- OneId
    Values <- Scalars
    Objects = {obj}
    IntRange = 4
    Inputs <- MixedInputs
    Updates <- AllUpdates
    OpsOf <- UpdateOps
    Faults = {"crash", "writeError", "scanError", "cfError"}
    MaxFaults = 2
PROPERTIES
    UpdateAtomic
    MutexReleased
    StoreRefined
INVARIANT
    TypeOK
