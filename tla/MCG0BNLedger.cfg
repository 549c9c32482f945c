SPECIFICATION Spec
CONSTANTS
    Foreign = foreign
    Trials = {t1, foreign}
    Pins <- MCPins
    PinOf <- MCPinOf
    Instances = {i1, i2}
    Paths = {p1}
    Results = {r1, r2}
    MaxEvents = 2
    NoResult = NoResult
    NoFile = NoFile
    NoPath = NoPath
    Free = Free
SYMMETRY Symmetry
INVARIANTS
    WriterHoldsLock
    BoundExtendsDisk
    FilesLoadable
PROPERTIES
    OutcomesImmutable
    ImplementsDurableLog
CHECK_DEADLOCK FALSE
