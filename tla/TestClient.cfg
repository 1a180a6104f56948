SPECIFICATION FairSpec
CONSTANTS
    Builds = {"native", "tirpc"}
    MaxTests = 2
    MaxEpoch = 2
INVARIANTS
    
    BlameIsServers
    
    MountErrorIsServers
PROPERTIES
    StaleStays
    CallsAreSync
    TestProceeds
CHECK_DEADLOCK FALSE
