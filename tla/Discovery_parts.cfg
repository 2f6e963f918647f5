SPECIFICATION SmallSpec
CONSTANTS
    None = None
    Minted <- Assignments
    Creators = {w1}
    Ids = {1, 2}
    MaxMinted = 2
    MaxRecoveries = 1
    Lineages = {a, b}
    MaxCommits = 2
    MaxReceipts = 3
    MaxReboots = 2
    Dsls <- Others
    RootDsl <- Root
    Shapes <- Described
    Budget = 4
    Parallel = 3
    MaxNumber = 6
    MaxWindows = 2
    MaxProposed = 2
    Beats <- Heart
    Populations <- Counted
    MaxTicks = 4
    MaxEngines = 2
    a = a
    b = b
    Attempt1 = Attempt1
    Attempt2 = Attempt2
SYMMETRY Twins
INVARIANTS
    WritesAreIssued
    LineagesAreKeptApart
    LineagesReplay
    SteeringIsSound
CHECK_DEADLOCK FALSE
