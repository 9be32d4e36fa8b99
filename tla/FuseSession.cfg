CONSTANTS
    u1 = u1
    u2 = u2
    u3 = u3
    Unique = {u1, u2, u3}
    Programs <- CorePrograms
    Wire <- CoreWire
    MaxFaults = 1
SPECIFICATION Spec
SYMMETRY Symmetry
INVARIANTS TypeOK DeliveredExactlyOnce TerminatedIsTrue OnlyForgetsLeftBehind WriteDataIntact JoinHandleNotRepolled NoLostWakeup
CHECK_DEADLOCK FALSE
