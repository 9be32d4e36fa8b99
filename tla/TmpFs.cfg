SPECIFICATION Spec
CONSTANTS
    a = a
    b = b
    Name = {a, b}
    MaxInodes = 3
    MaxCount = 2
    MaxWrap = 1
    MaxHandles = 1
    MaxForgets = 1
    MaxBatch = 2
    Kinds <- AllKinds
    Gone <- Cancellable
SYMMETRY NameSymmetry
INVARIANTS FsConsistent SlotsAccounted CountsExplained
PROPERTIES NoEarlyFree UnlinkedIsFreed
CHECK_DEADLOCK FALSE
