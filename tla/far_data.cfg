SPECIFICATION FarSpec
CONSTANTS
    FetchLines = {"i1"}
    DataLines = {"d1", "top"}
    dc_line_addr <- MCCut
    PortWords = {1}
    Sets <- MCSets
    SetOf <- MCSetOf
    ResetLine <- MCResetLine
    NoLine = NoLine
    Values = {"v0", "v1"}
    NoValue = NoValue
    Beats = 2
    InitRam <- MCInitRam
    QueueDepth = 4
    Console = FALSE
INVARIANTS
    LoadsLastStored
