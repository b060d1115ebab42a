SPECIFICATION ImportSpec
CONSTANTS
    t1 = t1
    t2 = t2
    obj = obj
    None = None
    Missing = Missing
    Array = Array
    Threads = {t1, t2}
    Fields <- TwoFields
    Ids <- TwoIds
    Values <- Scalars
    Objects = {obj}
    IntRange = 4
    Inputs <- ImportInputs
    Updates <- OneUpdate
    OpsOf <- ImportOps
    Faults = {"crash", "powerLoss", "writeError"}
    MaxFaults = 1
    Importer = t1
    Files <- AllFiles
    PositionId <- Positions
INVARIANTS
    IndexComplete
    ImportWhole
