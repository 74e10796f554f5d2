SPECIFICATION GuestSpec
CONSTANTS
    PageSize = 4
    WordSize = 256
    MaxMem = 64
    Programs <- MCBssPrograms
    Used <- MCUsed
    Requests <- MCRequests
    HostErrors = {1, 40}
    MaxErrno = 60
    ENOSYS = 38
    ENOTDIR = 20
    EFAULT = 14
    ENOMEM = 12
    EINVAL = 22
    AbiBits = 4
    HostBits = 6
    IOV_MAX = 3
    MaxVector = 5
    MaxFds = 6
    Lengths <- MCLengths
    Slot = 4
    StackTop = 64
    Contents <- MCContents
INVARIANT
    HeapOffImage
CHECK_DEADLOCK FALSE
