SPECIFICATION FairSpec
CONSTANTS
    r1 = r1
    r2 = r2
    quiet = quiet
    Requested = {r1, quiet}
    Sparse <- MCSparse
    Versions = {v1}
    Jobs = 2
    Retries = 2
    MaxRuns = 2
    NoFile = NoFile
    Partial = Partial
    Free = Free
    NoExit = NoExit
INVARIANTS
    ExitAndReportAreTrue
PROPERTIES
    NothingAfterStop
    RunEnds
CHECK_DEADLOCK FALSE
