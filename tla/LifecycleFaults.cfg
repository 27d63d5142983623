SPECIFICATION FairSpec
CONSTANTS
    None = None
    Ids = {s1}
    PoolKeys = {}
    Keys = {s1}
    Threads = {t1, t2}
    Images = {std}
    DefaultImage = std
    Wants = {None}
    Requests = {"ensure", "clear", "stop"}
    MaxRunning = 1
    MaxFaults = 1
\* A deployment nobody calls stands still.
CHECK_DEADLOCK FALSE
INVARIANTS
    PersistNeverCollides
PROPERTIES
    RequestsReturn
