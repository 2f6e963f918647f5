SPECIFICATION FairSpec
CONSTANTS
    Procs = {s1, s2}
    Services = {s1, s2}
    Steps = {"a", "b"}
    Outputs = {"yes", "no"}
    Flows <- ReviewedFlows
    MaxAttempts = 1
    MaxCrashes = 1
    MaxWriteErrors = 1
    MaxRequests = 1
    TornWrites = TRUE
    NoProc = NoProc
    NoStep = NoStep
    NoOut = NoOut
INVARIANTS
    HistoryIsSound
PROPERTIES
    RunsSettle
CHECK_DEADLOCK FALSE
