SPECIFICATION ExecutorSpec
CONSTANTS
    t1 = t1
    t2 = t2
    small = small
    mid = mid
    benched = benched
    big = big
    NoWorker = NoWorker
    Tasks = {t1}
    Workers = {small, mid, big}
    Pools <- Ladder
    Fit <- AllFit
    Pin <- Unpinned
    Floor <- NoFloor
    Checkable = {t1}
    CodeEdits = {t1}
    Prior <- Easy
    Threshold = 70
    Smoothing = 4
    EstCost <- Prices
    CostCap = 7
    Charges = {1}
    Causes = {"pass", "fail", "schema", "error", "timeout", "contract", "authenticity", "none"}
    Judging = TRUE
    Denying = TRUE
    MaxAttempts = 5
    Window = 3
    MaxRetirements = 1
    Contracts <- FourTasks
    Tools = {"read", "find"}
    External = {"find"}
    Replies <- FourReplies
    Results = {3, 60}
    Weight <- Frontier
    Room = 13
    MaxRounds = 2
    SchemaTokens = 1
    IdTokens = 1
    Marker = 4
    None = None
    Dispatchers = {1}
    Outgoing = {1, 2}
    Limit = 1
    MaxRevision = 2
    MaxTroubles = 1
INVARIANTS
    VerdictIsEarned
    EvidenceIsSkill
    NoIdleRetry
    ConversationIsSound
PROPERTIES
    LoneTaskSettles
    IssueFollowsCard
CHECK_DEADLOCK FALSE
