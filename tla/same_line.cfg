SPECIFICATION FairSpec
CONSTANTS
    FetchLines = {"d1"}
    DataLines = {"d1"}
    dc_line_addr <- MCWhole
    PortWords = {1}
    Sets <- MCSets
    SetOf <- MCSetOf
    ResetLine <- MCResetLine
    NoLine = NoLine
    Values = {"v0"}
    NoValue = NoValue
    Beats = 2
    InitRam <- MCInitRam
    QueueDepth = 4
    Console = FALSE
PROPERTIES
    AccessServed
