SPECIFICATION WorkplanSpec
CONSTANTS
    c1 = c1
    c2 = c2
    w1 = w1
    w2 = w2
    None = None
    Cards = {c1, c2}
    Workers = {w1, w2}
    Deliveries = {d1}
    Paths <- Files
    Nested <- Below
    PathsOf <- Qualified
    DepsOf <- After
    Defs = {1, 2}
    DefsOf <- Tasks
    HeadsOf <- Commits
    Trees = {"a", "b"}
    Lineage <- Checkouts
    Allowed <- Seats
    MaxFence = 2
    MaxEpoch = 2
INVARIANTS
    ReservationsApart
    SeatsAreSound
    DoneIsIntegrated
CHECK_DEADLOCK FALSE
