SPECIFICATION Spec
CONSTANTS
    h1 = h1
    h2 = h2
    c1 = c1
    c2 = c2
    c3 = c3
    NoCall = NoCall
    Procs = {h1, h2}
    Calls = {c1, c2, c3}
    ProcOf <- TwoAndOne
    Forking = {c1}
    SeesTree = TRUE
    MaxCancels = 0
    MaxCrashes = 0
INVARIANTS
    NoDescendantAfterStop
CHECK_DEADLOCK FALSE
