SPECIFICATION Spec
CONSTANTS
    MaxList = 2
    Spread = 1
    Ints = {0}
    Texts <- MCTexts
    Data <- MCData
    Args <- ArgsOf
    Results <- ResultsOf
    Codings = {"native", "tirpc"}
INVARIANTS
    TypesPerRfc1813
CHECK_DEADLOCK FALSE
