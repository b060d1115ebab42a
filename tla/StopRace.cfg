SPECIFICATION Spec
CONSTANTS
    w1 = w1
    w2 = w2
    r1 = r1
    r2 = r2
    r3 = r3
    r4 = r4
    Prefix = Prefix
    None = None
    Workers = {w1, w2}
    Requests = {r1, r2, r3, r4}
    Command <- Mixed
    MaxDocs = 1
    MaxRetries = 3
    Faults = {}
    MaxFaults = 0
INVARIANT
    StopSafe
