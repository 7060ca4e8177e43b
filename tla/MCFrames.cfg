SPECIFICATION FairSpec
CONSTANTS
    Radix = 3
    Instructions = {0, 5}
    ServerData <- MCServerData
    ClientData <- MCClientData
    Capacity = 10
    MaxMessages = 3
INVARIANT InOrder
PROPERTY AllReceived
CHECK_DEADLOCK FALSE
