CONSTANTS
    u1 = u1
    u2 = u2
    u3 = u3
    Unique = {u1, u2}
    Programs <- AllPrograms
    Wire <- AllWire
    MaxFaults = 1
SPECIFICATION FairSpec
CONSTRAINT SecondIsCommon
INVARIANTS NothingUnaccounted
PROPERTIES UnmountEndsStream QueuedIsRead
CHECK_DEADLOCK FALSE
