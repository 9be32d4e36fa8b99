CONSTANTS
    u1 = u1
    u2 = u2
    Unique = {u1}
    Traffic <- Representatives
    WriteErrors = FALSE
SPECIFICATION Spec
INVARIANTS
    RepliesReachDevice
CHECK_DEADLOCK FALSE
