SPECIFICATION SearchFairSpec
CONSTANTS
    Radix = 4
    Clients = {c1, c2}
    Outdated = {c2}
    RoomNames <- MCRoomNames
    PlayerNames <- MCPlayerNames
    UserCounts = {0, 2, 4}
    MaxUsers = 3
    BufferSize = 30
    MaxRequests = 2
    MaxChanges = 1
INVARIANT ListedWasTrue
PROPERTY ToldIsListed
CHECK_DEADLOCK FALSE
