SPECIFICATION FairDevSpec
CONSTANTS
    t1 = t1
    t2 = t2
    u1 = u1
    i1 = i1
    i2 = i2
    Trials <- MCTrials
    Ladder <- MCLadder
    Pins <- MCPins
    PinOf <- MCPinOf
    Instances <- MCInstances
    Paths = {p1}
    LedgerPath = p1
    Results = {r1, r2}
    MaxEvents = 12
    MaxRuns = 3
    NoResult = NoResult
    NoFile = NoFile
    NoPath = NoPath
    Free = Free
INVARIANTS
    LadderIsAccounted
PROPERTIES
    RunEnds
CHECK_DEADLOCK FALSE
