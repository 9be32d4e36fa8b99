SPECIFICATION Spec
CONSTANTS
    a = a
    b = b
    Name = {a, b}
    MaxInodes = 2
    MaxCount = 2
    MaxWrap = 1
    MaxHandles = 1
    MaxForgets = 1
    MaxBatch = 1
    Kinds <- AllKinds
    Gone <- Cancellable
INVARIANT LookupsAgree
CHECK_DEADLOCK FALSE
