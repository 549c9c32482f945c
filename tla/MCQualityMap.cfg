SPECIFICATION MCSpec
CONSTANTS
  FillMin = 2  WarmupConsecutive = 2  MinLakeSegment = 3  SpanInvalidPct = 20  SeamGuard = 1
  GridLen = 7  CrossedPct = 12  MissingPct = 12
  DeltaGb = 1  BookGb = 1  QuotaGb = 4  HeadroomGb = 1  MaxAutoGb = 2
  Days <- MCDays  Contents <- MCContents  Calendars <- MCCalendars
  GbPerDay = 1  MaxGbPerBatch = 2  MaxBatchesPerRun = 2  MaxPlans = 2  MaxFaults = 1
  None = None  Torn = Torn
  LocalParquet <- MCLocal  MaxReviews = 1  Windows <- MCWindows
INVARIANTS
    DownloadsAreJustified
    VerdictsAreNotOverridden
    StitchIsSound
    ValidWindowsStayWithinOneVendor
PROPERTY EveryBatchIsMapped
CHECK_DEADLOCK FALSE
