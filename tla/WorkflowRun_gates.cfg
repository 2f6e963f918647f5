SPECIFICATION Spec
CONSTANTS
    Procs = {s1, cli}
    Services = {s1}
    Steps = {"a", "b", "c"}
    Outputs = {"yes", "no"}
    Flows <- GatedFlows
    MaxAttempts = 1
    MaxCrashes = 1
    MaxWriteErrors = 0
    MaxRequests = 2
    TornWrites = FALSE
    NoProc = NoProc
    NoStep = NoStep
    NoOut = NoOut
INVARIANTS
    TypeOK
    GatesDecide
    LiveStateIsReplay
PROPERTIES
    ImplementsContract
CHECK_DEADLOCK FALSE
