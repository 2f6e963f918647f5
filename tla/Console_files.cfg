SPECIFICATION ConsoleSpec
CONSTANTS
    k0 = k0
    k1 = k1
    good = good
    leaky = leaky
    t1 = t1
    t2 = t2
    t3 = t3
    NoCode = NoCode
    NoParams = NoParams
    Knobs = {k0, k1}
    Codes = {good, leaky}
    Clean = {good}
    Default <- Bare
    Hat <- HatOf
    Tokens <- TokensOf
    Types <- TwoTypes
    Passed <- PassedOf
    HeldOutTokens <- HeldOutTokensOf
    Rounds = 2
    Window = 1
    MaxStarts = 2
    MaxCrashes = 1
    None = None
    Ids = {a, b}
    Clients = {p, q}
    Contents = {x}
    MaxVersion = 2
    MaxRevision = 2
    MaxDrafts = 2
    MaxDeaths = 1
    Tiers = {"small", "mid"}
    Workers = {"mock-small", "mock-mid", "x"}
    Providers = {"p"}
    StandIn <- StandIns
    MaxAdds = 3
    MaxUpdates = 1
    MaxReboots = 1
    McpServers = {"s"}
    Tools = {"t", "u"}
    Settings = {1, 2}
    Loads = {1, 2}
    MaxEdits = 3
    MaxRestarts = 1
INVARIANTS
    PromotedIsEarned
    RestartKeepsLive
    PublicationsComplete
    FleetIsSound
    ToolsAreCurrent
PROPERTIES
    EverySearchEnds
CHECK_DEADLOCK FALSE
