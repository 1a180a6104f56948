SPECIFICATION Spec
CONSTANTS
    WordMod = 128
    Xids = {0, 1}
    ArgWords <- MCArgWords
    Flavors = {0, 1, 2}
    VerfBytes = {0, 1, 3, 4, 5}
    Stats = {0, 1, 2, 3, 4, 5, 6}
    Bodies <- MCBodies
INVARIANTS
    CallDecodes
    ReplyParsed
    CutReplyNotInvented
CHECK_DEADLOCK FALSE
