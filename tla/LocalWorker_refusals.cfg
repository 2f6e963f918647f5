SPECIFICATION WorkerSpec
CONSTANTS
    Contracts <- FourTasks
    Tools = {"read", "find"}
    External = {"find"}
    Replies <- FourReplies
    Results = {3, 60}
    Weight <- Frontier
    Room = 13
    MaxRounds = 2
    SchemaTokens = 1
    IdTokens = 1
    Marker = 4
INVARIANTS
    RefusalsRepeat
