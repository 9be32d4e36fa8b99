CONSTANTS
    u1 = u1
    u2 = u2
    Unique = {u1, u2}
    Traffic <- Variant
    WriteErrors = TRUE
SPECIFICATION FairSpec
CONSTRAINT SecondIsRepresentative
INVARIANTS TypeOK FdLifetime ResultTruthful NoSilentDrop SingleReply StrayOnlyAtTeardown
PROPERTIES LetGoIsSettled ImplementsContract
CHECK_DEADLOCK FALSE
