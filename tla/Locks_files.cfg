SPECIFICATION LocksSpec
CONSTANTS
    h1 = h1
    h2 = h2
    c1 = c1
    c2 = c2
    c3 = c3
    NoCall = NoCall
    Procs = {h1, h2}
    Calls = {c1, c2, c3}
    ProcOf <- TwoAndOne
    Forking = {c1}
    SeesTree = TRUE
    MaxCancels = 1
    MaxCrashes = 1
    k1 = k1
    k2 = k2
    k3 = k3
    w1 = w1
    w2 = w2
    Nil = Nil
    Commanders = {1, 2, 3}
    LocalCards = {k1, k2, k3}
    Owners = {w1, w2}
    Heads = {1, 2}
    Overlapping <- SharedPaths
    Deps <- DepsOn
    MayTake <- For
    Tree <- In
    Rank <- Order
    Requests = {"request"}
    Harvests = {"harvest"}
    Questions = {"seen", "held", "new", "newer"}
    Search = {"seen"}
    HeldOut = {"held"}
    MaxBatch = 2
    MaxFailures = 1
INVARIANTS
    OneAttemptPerWorkspace
    NothingLeaks
PROPERTIES
    BoardIsSound
    SuiteIsSound
    EveryLeaseEnds
CHECK_DEADLOCK FALSE
