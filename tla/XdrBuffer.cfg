SPECIFICATION Spec
CONSTANTS
    Langs = {"cpp", "c"}
    Lens = {0, 1, 4, 6}
    Claims = {0, 3, 5, 100}
    Received = {0, 3, 4, 9, 12}
    MinCapacity = 4
    MaxCapacity = 32
    MaxDoublings = 4
    MaxSize = 20
INVARIANTS
    InStep
    PosBound
    WriteInside
CHECK_DEADLOCK FALSE
