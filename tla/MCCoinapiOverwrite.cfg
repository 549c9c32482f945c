SPECIFICATION Spec
CONSTANTS
    book = book
    trades = trades
    both = both
    first = first
    Units <- MCUnits
    Books = {}
    DayOf <- MCDayOf
    Manifests = {first}
    Acceptable = {first}
    UnitsOf <- MCUnitsOf
    Planned <- MCPlanned
    Price <- MCPrice
    Approvals = {3}
    Versions = {v1, v2}
    MaxRuns = 3
    NoFile = NoFile
    Rotten = Rotten
    NoManifest = NoManifest
    NoExit = NoExit
SYMMETRY Symmetry
INVARIANTS
    OnlyDriftConflicts
CHECK_DEADLOCK FALSE
