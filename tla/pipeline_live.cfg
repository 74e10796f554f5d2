SPECIFICATION FairSpec
CONSTANTS
    Globals = 2
    Half = 2
    Windows = 4
    CallReg = 3
    TrapReg = 2
    TrapArgs <- MCTrapArgs
    Stamps <- MCStamps
    Reset = 0
    Addresses <- MCAddresses
    Spare = 5
    Programs <- MCLivePrograms
PROPERTIES
    NeverStuck
