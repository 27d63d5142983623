SPECIFICATION Spec
CONSTANTS
    None = None
    Ids = {s1, s2, s3}
    PoolKeys = {p1}
    Keys = {s1, s2, s3, p1}
    Threads = {t1, t2}
    Images = {std, alt}
    DefaultImage = std
    Wants = {None, alt}
    Requests = {"ensure", "clear"}
    MaxRunning = 1
    MaxFaults = 0
SYMMETRY Symmetry
\* A deployment nobody calls stands still.
CHECK_DEADLOCK FALSE
INVARIANTS
    NoSharedSandbox
    RunningMeansReady
    NoLeakWhenQuiet
    OvershootIsBounded
PROPERTIES
    ImplementsContract
