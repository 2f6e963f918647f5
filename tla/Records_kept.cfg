SPECIFICATION RecordsSpec
CONSTANTS
    NoRun = NoRun
    Runs = {r1, r2}
    Roots = {A, B}
    Cases <- FiledCases
    Selected <- FirstDevelopment
    Reps <- TwoReps
    Trials <- SmallTrials
    TokenLimit = 3
    MaxCrashes = 1
    x = x
    y = y
    Project = Project
    None = None
    Words <- TwoWords
    Texts <- TwoTexts
    Scopes <- OneRunOrAll
    Policy <- Snapshot
    Seeds <- Secret
    Callers = {c}
    MaxRows = 3
    MaxReopens = 1
    Entries = {1}
    Procs = {p1, p2}
    Threshold = 1
    MaxMarks = 2
    MaxFaults = 2
    MaxOps = 3
    Packs = {"p", "q"}
    Topics = {"t", "u"}
    Coverage <- Claims
    MinFailures = 2
    BackoffRounds = 2
    MaxFailures = 3
    MaxObserved = 4
    MaxDeaths = 2
    Sources = {"a", "c"}
    Procedures = {1, 2}
    FirstProcedure = 1
    CompiledFrom <- FromProcedures
    Gates = {"g", "h"}
    MaxCalls = 2
    MaxKills = 1
    MaxChanges = 1
INVARIANTS
    HoldoutReadOnce
    EvidenceIsEarned
    WritesAreFreshAndWhole
    NothingIsLaundered
    PacksHeal
    SignalsAreEarned
    ExecutorsAreEarned
SYMMETRY Twins
CHECK_DEADLOCK FALSE
