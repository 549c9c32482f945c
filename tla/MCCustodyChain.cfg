SPECIFICATION MCSpec
CONSTANTS
    freeze = freeze
    regenerated = regenerated
    fabricated = fabricated
    april = april
    Freezes <- MCFreezes
    Authorized <- MCAuthorized
    Holdouts <- MCHoldouts
    HoldoutOf <- MCHoldoutOf
    Procs = {p1, p2}
    Results = {r1, r2}
    Outs = {o1, o2}
    MaxCommands = 8
    NoRecord = NoRecord
    Torn = Torn
    NoFreeze = NoFreeze
    NoOut = NoOut
    NoResult = NoResult
    None = None
    DevDays <- MCDevDays
    HoldoutDays <- MCHoldoutDays
    Products = {"book"}
    Users = {"custodian", "operator"}
    Gated = {"s1", "s2"}
    GbPerDay = 1
    SafeWindowGb = 10
    HandWritten <- MCHandWritten
    MaxPlans = 2
    MaxHandEdits = 1
    MaxLaunches = 2
    Window = {"d1", "d2"}
    Layers = {"raw", "normalized"}
    MinDays = 1
    Scope <- MCScope
    Custodian = "custodian"
    Operator = "operator"
    Evidence <- MCEvidence
    Excludable <- MCExcludable
    MaxRewrites = 1
    MaxInventories = 2
    MaxConfigs = 2
    MaxEdits = 1
    MaxBuilds = 2
    DevBuilds = {"b1", "b2"}
    Horizons <- MCHorizons
    Primary = {"2s"}
    Ranked <- MCRanked
    Selectable = {"ridge", "lgbm"}
    Variants <- MCVariants
    Merits <- MCMerits
    NoBuild = NoBuild
    MaxWrites = 2
    MaxRuns = 2
    MaxVariants = 1
    MaxAborts = 1
INVARIANTS
    JanuaryStaysInCustody
    AttestedRowsAreSealed
    AttestationMatchesOutputs
    DevelopmentRunsOnePair
    AcceptedFreezeCountsEverything
    RecordIsOneTransaction
    SerialOutcomesAreFinal
CHECK_DEADLOCK FALSE
