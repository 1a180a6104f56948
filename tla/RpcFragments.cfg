SPECIFICATION Spec
CONSTANTS
    XidSpace = 3
    RawXids = {0}
    Verdicts = {"OK"}
    Fragments = TRUE
    MaxCalls = 2
    MaxRaws = 1
    MaxSurplus = 1
    MaxConnects = 1
INVARIANT AcceptedReplyIsWhole
CHECK_DEADLOCK FALSE
