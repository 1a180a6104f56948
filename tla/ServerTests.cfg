SPECIFICATION Spec
CONSTANTS
    Procs = {p1, p2}
    Pids = {i1, i2}
    MaxTests = 3
    MaxClock = 1
    MaxLost = 1
SYMMETRY Symmetry
INVARIANTS
    LeftoverExplained
    FailureExplained
    CountedOnce
    PassIsReal
CHECK_DEADLOCK FALSE
