SPECIFICATION Spec
CONSTANTS
    Blocks = {1, 2, 3, 4, 5, 6}
    MaxEntries = 2
INVARIANTS
    NoLeak
    FreedOnce
CHECK_DEADLOCK FALSE
