SPECIFICATION FairSpec
CONSTANTS
    NoAttempt = NoAttempt
    Attempts = {a1, a2}
    ExecStatuses = {"completed", "timed_out"}
    EvalStatuses = {"completed", "evaluator_error"}
    MaxConcurrency = 1
    MaxRestarts = 1
    MaxEvaluations = 1
    MaxAttempts = 2
    MaxWall = 2
    AttemptTimeout = 1
    MaxTime = 2
    MaxSetbacks = 1
    MaxCrashes = 1
INVARIANTS
    HonestJournalsReplay
    NothingIsForgotten
PROPERTIES
    EverySubmissionEnds
CHECK_DEADLOCK FALSE
