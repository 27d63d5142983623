SPECIFICATION FairSpec
CONSTANTS
    None = None
    Ids = {s1}
    PoolKeys = {}
    Keys = {s1}
    Callers = {c1}
    MaxRestarts = 0
    MaxFaults = 0
PROPERTIES
    NeverIdleMidCall
