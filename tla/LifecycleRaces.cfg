SPECIFICATION Spec
CONSTANTS
    None = None
    Ids = {s1}
    PoolKeys = {p1}
    Keys = {s1, p1}
    Threads = {t1, t2}
    Images = {std}
    DefaultImage = std
    Wants = {None}
    Requests = {"ensure", "clear", "create", "stop", "resume", "delete"}
    MaxRunning = 1
    MaxFaults = 0
SYMMETRY Symmetry
\* A deployment nobody calls stands still.
CHECK_DEADLOCK FALSE
INVARIANTS
    TypeOK
    PersistNeverCollides
    WorkspaceExclusive
    CreatingIsAttended
