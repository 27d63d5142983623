SPECIFICATION FairSpec
CONSTANTS
    None = None
    a = a
    b = b
    NewLine = NewLine
    Chars = {a, b, NewLine}
    Calls = {c1, c2}
    Jobs = {j1, j2}
    PodNames = {p1, p2}
    FirstPod = p1
    Codes = {0, 1}
    Retention = 0
    HardTTL = 1
    Budgets <- MCBudgets
    ReadLimit = 4
    Edits <- MCEdits
    ShellTexts <- MCShellTexts
\* Nothing makes clients call.
CHECK_DEADLOCK FALSE
INVARIANTS
    TypeOK
    ReportsAreTrue
    SettledStays
    InsertMatchesView
    ReplacesTheOnlyOne
    BuffersKeepEnds
PROPERTIES
    RetentionKept
    WaitsEnd
    SoleEditIsExact
