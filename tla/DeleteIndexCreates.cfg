SPECIFICATION HandlersSpec
CONSTANTS
    t1 = t1
    t2 = t2
    obj = obj
    None = None
    Missing = Missing
    Array = Array
    Threads = {t1}
    Fields <- TwoFields
    Ids <- TwoIds
    Values <- Scalars
    Objects = {obj}
    IntRange = 4
    Inputs <- FullInput
    Updates <- OneUpdate
    OpsOf <- IndexOps
    Faults = {}
    MaxFaults = 0
    Server = t1
    Filters <- StreamFilters
    KeyRank <- Rank
INVARIANT
    DeleteIndexDeletes
