SPECIFICATION HandlersSpec
CONSTANTS
    t1 = t1
    t2 = t2
    obj = obj
    None = None
    Missing = Missing
    Array = Array
    Threads = {t1}
    Fields <- TwoFields
    Ids <- TwoIds
    Values <- Scalars
    Objects = {obj}
    IntRange = 4
    Inputs <- FirstMixed
    Updates <- OneUpdate
    OpsOf <- IndexOps
    Faults = {"scanError", "cfError"}
    MaxFaults = 1
    Server = t1
    Filters <- StreamFilters
    KeyRank <- Rank
INVARIANTS
    IndexExact
    StreamsOnly
PROPERTY
    StoreRefined
