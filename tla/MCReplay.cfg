SPECIFICATION MCSpec
CONSTANTS
    N = 5
    Files <- MCFiles
    MaxSkew = 1
    Watermark = 2
    K = 1
    BookDeltas <- MCBookDeltas
    Snaps <- MCBookSnaps
    Grid <- MCGrid
    Depth = 1
    Null = Null
    MinLevels = 1
    Tolerance = 2
    MaxTime = 4
    MaxEvents = 5
    DayLen = 6
    Target = 1
    WindowDays = 2
    WarmupDays = 1
    SeedThreshold = 2
    NoTime = NoTime
    MinReturns = 1
    DayLists <- MCDayLists
    Caps = {2, 9}
    Histories <- MCHistories
    Trades <- MCTrades
    Snapshots <- MCSnapshots
    Deltas <- MCDeltas
    Horizons <- MCHorizons
    PartitionEnd = 24
    Guard = 1
    StalenessCap = 3
    LookbackCap = 4
    TopK = 2
    Groups = 2
    None = None
INVARIANTS
    LiveIsOfflineOfAccepted
    BoundedFeedReplaysOffline
    SamplesAreAsOf
    CoverageIsExact
    ReseedsExactlyWhenStuck
    DecisionsAreCausal
    ReadsAreAsOf
    RowsAreSupported
    EveryDecisionIsAccounted
    SplitsDoNotLeak
CHECK_DEADLOCK FALSE
