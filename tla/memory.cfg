SPECIFICATION Spec
CONSTANTS
    FetchLines = {"i1", "i2"}
    DataLines = {"d1", "d2"}
    dc_line_addr <- MCWhole
    PortWords = {7}
    Sets <- MCSets
    SetOf <- MCSetOf
    ResetLine <- MCResetLine
    NoLine = NoLine
    Values = {"v0", "v1"}
    NoValue = NoValue
    Beats = 8
    InitRam <- MCInitRam
    QueueDepth = 4
    Console = TRUE
INVARIANTS
    TypeOK
    NoAssertFails
    BurstAligned
    RepliesAccounted
    CleanRowsMatchRam
    DramQueueBounded
PROPERTIES
    DirtyRowsReachRam
    ImplementsSerialMemory
