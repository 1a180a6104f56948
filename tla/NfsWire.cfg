SPECIFICATION Spec
CONSTANTS
    MaxList = 2
    Spread = 1
    Ints = {0}
    Texts <- MCTexts
    Data <- MCData
    Args <- ArgsOf
    Results <- ResultsOf
    Codings = {"native", "tirpc", "c"}
INVARIANTS
    ArgsUnderstood
    ResultUnderstood
    
    
    CutKeepsStatus
CHECK_DEADLOCK FALSE
