SPECIFICATION Spec
CONSTANTS
    book = book
    trades = trades
    both = both
    first = first
    Units <- MCUnits
    Books = {book}
    DayOf <- MCDayOf
    Manifests = {both, first}
    Acceptable = {both, first}
    UnitsOf <- MCUnitsOf
    Planned <- MCPlanned
    Price <- MCPrice
    Approvals = {1, 3}
    Versions = {v1, v2}
    MaxRuns = 3
    NoFile = NoFile
    Rotten = Rotten
    NoManifest = NoManifest
    NoExit = NoExit
SYMMETRY Symmetry
INVARIANTS
    SpendIsAccounted
    ExitZeroIsVouched
    CrashNeverConflicts
CHECK_DEADLOCK FALSE
