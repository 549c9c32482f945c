SPECIFICATION Spec
CONSTANTS
    freeze = freeze
    regenerated = regenerated
    fabricated = fabricated
    april = april
    Freezes <- MCFreezes
    Authorized <- MCAuthorized
    Holdouts <- MCHoldouts
    HoldoutOf <- MCHoldoutOf
    Procs = {p1, p2}
    Results = {r1, r2}
    Outs = {o1, o2}
    MaxCommands = 5
    NoRecord = NoRecord
    Torn = Torn
    NoFreeze = NoFreeze
    NoOut = NoOut
    NoResult = NoResult
SYMMETRY Symmetry
INVARIANTS
    FailRefusesForever
CHECK_DEADLOCK FALSE
