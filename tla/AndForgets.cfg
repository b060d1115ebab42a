SPECIFICATION QuerySpec
CONSTANTS
    t1 = t1
    t2 = t2
    obj = obj
    None = None
    Missing = Missing
    Array = Array
    Threads = {t1}
    Fields <- TwoFields
    Ids <- TwoIds
    Values <- Scalars
    Objects = {obj}
    IntRange = 4
    Inputs <- FewInputs
    Updates <- OneUpdate
    OpsOf <- DeleteOps
    Faults = {}
    MaxFaults = 0
    Filters <- AndFilter
    KeyRank <- Rank
INVARIANT
    AndMeansAll
