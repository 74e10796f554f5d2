SPECIFICATION FairSpec
CONSTANTS
    FetchLines = {"i1", "i2"}
    DataLines = {"d1", "d2"}
    dc_line_addr <- MCWhole
    PortWords = {1}
    Sets <- MCSets
    SetOf <- MCSetOf
    ResetLine <- MCResetLine
    NoLine = NoLine
    Values = {"v0"}
    NoValue = NoValue
    Beats = 2
    InitRam <- MCInitRam
    QueueDepth = 4
    Console = FALSE
PROPERTIES
    FetchServed
    AccessServed
