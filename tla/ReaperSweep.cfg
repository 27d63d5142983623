SPECIFICATION FairSpec
CONSTANTS
    None = None
    Ids = {s1}
    PoolKeys = {w1}
    Keys = {s1, w1}
    Callers = {c1}
    MaxRestarts = 1
    MaxFaults = 1
INVARIANTS
    TypeOK
    SweepSparesSandboxes
PROPERTIES
    DesertedSandboxesEnd
