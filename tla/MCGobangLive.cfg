SPECIFICATION FairGobangSpec
CONSTANTS
    Size = 2
    Row = 2
    NoUser = NoUser
    NoRoom = NoRoom
    NoName = NoName
    Conns = {c1, c2}
    ConfigRooms <- TwoSeats
    ListMax = 255
    MaxJoins = 1
    Coors <- MCCoors
    MaxMoves = 0
    username <- OwnNames
    Requests = 1
    Backlog = 1
    Quitters = {c1}
    MaxGames = 1
CHECK_DEADLOCK FALSE

    
PROPERTIES
    JoinAnswered
    TornDown
