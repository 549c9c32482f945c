SPECIFICATION ResumeSpec
CONSTANTS
    r1 = r1
    r2 = r2
    quiet = quiet
    Requested = {r1}
    Sparse = {}
    Versions = {v1}
    Jobs = 1
    Retries = 1
    MaxRuns = 3
    NoFile = NoFile
    Partial = Partial
    Free = Free
    NoExit = NoExit
INVARIANTS
    ErroredUnitsAreRerun
CHECK_DEADLOCK FALSE
