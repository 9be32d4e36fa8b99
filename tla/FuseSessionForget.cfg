CONSTANTS
    u1 = u1
    u2 = u2
    u3 = u3
    Unique = {u1, u2}
    Programs <- AllPrograms
    Wire <- AllWire
    MaxFaults = 0
SPECIFICATION Spec
CONSTRAINT SecondIsCommon
INVARIANT NoReplyToForget
CHECK_DEADLOCK FALSE
