SPECIFICATION PRFairSpec
CONSTANTS
    AllOnes = 70000
    Sockets <- MCSockets
    Frames <- MCFrames
    InterfaceLists <- MCInterfaceLists
    Device = "eth0"
    Inodes = {11, 12}
    Pids = {1, 2}
    ProcessOf <- MCProcessOf
INVARIANTS
    SITypeOK
    NothingMissed
    DirectionRight
    RightOrUnknown
PROPERTY
    CreditedInTheEnd
