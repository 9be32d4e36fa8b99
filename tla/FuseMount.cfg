SPECIFICATION FairSpec
CONSTANTS
    Below <- AnyBelow
    Others = {"foreign", "peer"}
    MaxMounts = 3
    MaxGuards = 2
    Faults <- AllFaults
    Exits = TRUE
INVARIANTS MountSafety
PROPERTIES MountReturns DropReleases DropUnmounts
CHECK_DEADLOCK FALSE
