SPECIFICATION Spec
CONSTANTS
    Users = {root, ana}
    Root = root
    Roles = {"admin", "visualizador"}
    Enrolled = {root}
    BackupCodes = 1
    MaxSessions = 2
    MaxInvites = 1
    MaxPw = 1
    MaxResets = 1
    MaxRequests = 2
    MaxFailures = 1
    Pairs = {btc, eth, doge}
    Allowed = {btc, eth}
    Env = {eth, doge}
    Default = btc
    MaxAdding = 1
    Jobs = {j1, j2}
    Prices = {1, 2, 3}
    Brackets <- MCBrackets
    MaxCandles = 3
    MaxFaults = 1
    Replicas = {r1, r2}
    Limit = 2
    Window = 2
    MaxErrors = 2
    Opinions = {0, 5000, 10000, 50000}
    MaxSizePct = 50
    AllowStub = TRUE
    Quotes = {1, 5, 6, 50, 160, 250, 5000000}
    Editors = {e1, e2}
    Channels = {c}
    Rules = {x}
    Secrets = {"s1", "s3"}
    MaskOf <- MCMaskOf
    MaxChanges = 3
    People = {"ana"}
    MaxEvents = 2
    MaxAlerts = 3
    PageSize = 1
    Batch = 2
    Replay = 2
    Symbols = {btc, eth}
    Listed = {btc}
    Capital = 20
    Size = 2
    Results <- MCResults
    MaxLots = 2
    MaxCloses = 2
    LastDay = 1
    LossLimit = 2
    TriggerPct = 5
    MaxMisses = 1
    MinTrades = 2
    MaxLossPct = 15
    GuidePeople = {"admin", "other"}
    GuideAdmin = "admin"
    AskedPairs = {btc, xxx}
    MarketPairs = {btc}
    Prices1000 = {118, 50000}
    Ranges1000 = {0, 2, 40}
    Bars = 4
    HistoryCap = 3
    Bins = 4
    MaxVolume = 3
    MaxTasks = 2
    MaxDeploys = 2
    FileKeys = {"position", "daily"}
    EnvKeys = {"capital"}
    ParamKeys = {"threshold"}
    Values = {"low", "high"}
    Initial = "low"
    MaxRestarts = 1
    OrderIds = {"a", "b"}
    Outcomes <- MCOutcomes
    Emotions = {1, 3, 4, 10}
    MaxRows = 2
    Processes = {api, worker}
    Scripts <- MCScripts
    MaxCrashes = 2
    LastCycleDay = 2
    Retention = 1
    MaxCycles = 2
VIEW PartView
INVARIANTS
    TypeOK
    AdminRemains
    FamilyIsOneChain
    OnlyActiveHoldSessions
    AccountFlowsHold
    PairsHold
    ReplayHolds
    GateHolds
    TradesAreStopped
    TrailTellsAll
    ScreensAddUp
    PlacedAsAnswered
    DiskIsWhole
PROPERTIES
    StoredOutlivesEdits
CHECK_DEADLOCK FALSE
