SPECIFICATION SilentServerSpec
CONSTANTS
    XidSpace = 3
    RawXids = {}
    Verdicts = {"OK"}
    Fragments = FALSE
    MaxCalls = 2
    MaxRaws = 0
    MaxSurplus = 1
    MaxConnects = 1
PROPERTY CallReturns
CHECK_DEADLOCK FALSE
