SPECIFICATION Spec
CONSTANTS
    Lineages = {a, b}
    None = None
    MaxCommits = 2
    MaxReceipts = 2
    MaxRestarts = 1
INVARIANTS
    JournalHasNoGaps
CHECK_DEADLOCK FALSE
