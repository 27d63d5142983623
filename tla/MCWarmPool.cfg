SPECIFICATION FairSpec
CONSTANTS
    None = None
    Keys = {k1, k2, k3, k4, k5}
    Starters = {r1, r2}
    MinIdleReady = 3
    MaxRunning = 2
    MaxTaken = 1
    MaxFaults = 1
    MaxTimeouts = 1
INVARIANTS
    TypeOK
    PoolBound
    FinishNeverDrops
    NoLostSandbox
PROPERTIES
    ImplementsContract
    PoolFills
\* After a shutdown the pool stands still.
CHECK_DEADLOCK FALSE
