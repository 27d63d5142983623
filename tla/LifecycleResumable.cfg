SPECIFICATION Spec
CONSTANTS
    None = None
    Ids = {s1}
    PoolKeys = {}
    Keys = {s1}
    Threads = {t1}
    Images = {std}
    DefaultImage = std
    Wants = {None}
    Requests = {"ensure", "stop", "resume"}
    MaxRunning = 1
    MaxFaults = 0
\* A deployment nobody calls stands still.
CHECK_DEADLOCK FALSE
INVARIANTS
    StoppedIsResumable
