SPECIFICATION Spec
CONSTANTS
    NULL = NULL
    Garbage = Garbage
    Tree <- MCTree
    Fleeting <- MCFleeting
    Host <- MCHost
    MountUri <- MCMountUri
    UserPath <- MCUserPath
    Style = {"TH", "relative", "absolute"}
    MaxPath = 5
    MaxChanges = 1
INVARIANTS
    
    CdResolves
    ListingExact
    StatTruth

    
CHECK_DEADLOCK FALSE
