CONSTANTS
    NULL = NULL
    Garbage = Garbage
    Address <- MCAddress
    MountUri <- MCMountUri
    LocalDir <- MCLocalDir
    Here <- MCHere
    CdPath <- MCCdPath
    CopyCommand <- MCCopyCommand
    SearchText <- MCSearchText
    MaxPath = 2
    MaxSites = 3
    MaxUmounts = 2
    MaxMoves = 1
    MaxHeld = 4
SPECIFICATION Spec
CHECK_DEADLOCK FALSE
INVARIANTS EntriesLeadBack ActiveDrift
PROPERTY RemoveExact
