SPECIFICATION FairSpec
CONSTANTS
    None = None
    Ids = {s1}
    PoolKeys = {w1}
    Keys = {s1, w1}
    Callers = {c1}
    MaxRestarts = 1
    MaxFaults = 0
PROPERTIES
    RestartsLeakNoOrphans
