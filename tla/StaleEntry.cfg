SPECIFICATION Spec
CONSTANTS
    t1 = t1
    t2 = t2
    obj = obj
    None = None
    Missing = Missing
    Array = Array
    Threads = {t1}
    Fields <- OneField
    Ids <- OneId
    Values <- Scalars
    Objects = {obj}
    IntRange = 4
    Inputs <- ScalarInputs
    Updates <- ScalarUpdates
    OpsOf <- OverwriteOps
    Faults = {}
    MaxFaults = 0
INVARIANT
    IndexExact
