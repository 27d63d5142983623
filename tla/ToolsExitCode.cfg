SPECIFICATION Spec
CONSTANTS
    None = None
    a = a
    b = b
    NewLine = NewLine
    Chars = {a, b, NewLine}
    Calls = {c1, c2}
    Jobs = {j1}
    PodNames = {p1, p2}
    FirstPod = p1
    Codes = {0, 1}
    Retention = 0
    HardTTL = 1
    Budgets <- MCOneWait
    ReadLimit = 4
    Edits = {}
    ShellTexts = {}
\* Nothing makes clients call.
CHECK_DEADLOCK FALSE
INVARIANTS
    ExitCodeIsReal
