SPECIFICATION MCSpec
CONSTANTS
  Foci = {"stage2", "lake", "fetch", "decide", "windows"}
  Instruments = {"perp", "spot"}
  Units = {"perp_topk", "spot_topk", "trades", "liquidations", "funding"}
  TopKUnits = {"perp_topk", "spot_topk"}
  SparseUnits = {"liquidations"}
  InstrumentOf <- MCInstrumentOf
  Feed <- MCFeed
  Book <- MCBook
  Settings = {"contract", "other"}
  RawContents <- MCRawContents
  Roots = {"run1", "native"}
  RegisteredScale <- MCRegisteredScale
  NativeScales <- MCNativeScales
  MaxStarts = 2
  MaxRefreshes = 1
  MaxCrashes = 1
  SeedCrossedPct = 50
  CrossedPct = 5
  MissingPct = 5
  ThinPct = 5
  Absent = Absent
  None = None
  Pinned <- MCPinned
  MaxTick = 2
  ExpectedScale = 1
  Scales = {2}
  TradeUnits = {"trades"}
  FillUnits = {"liquidations"}
  IndexUnits = {"funding"}
  MaxAmendments = 1
  Depth = 1
  MinLevels = 1
  RegressionPct = 40
  ChdCrossedPct = 10
  ChdMissingPct = 40
  ChdThinPct = 40
  FrozenRun = 3
  FrozenPct = 60
  Objects <- MCObjects
  Probe <- MCProbe
  ExchangeInstrument <- MCExchangeInstrument
  VendorContents = {}
  OtherFiles <- MCOtherFiles
  Corrupt = Corrupt
  GridOf <- MCGridOf
  Base <- MCBase
  Changes <- MCChanges
  Sent <- MCSent
  ObjectBytes = 2
  ByteCap = 3
  MaxAttempts = 2
  MaxSwaps = 2
  MaxKills = 1
  MaxFetches = 2
INVARIANTS
  KeptOutputsAreCurrent
  VerdictIsOfPinnedInputs
  ExpansionFollowsTheProbe
  DecisionComparesLikeWithLike
  CompletedReplaysAreTrue
CHECK_DEADLOCK FALSE
