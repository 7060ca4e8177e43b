SPECIFICATION GobangSpec
CONSTANTS
    Size = 2
    Row = 2
    NoUser = NoUser
    NoRoom = NoRoom
    NoName = NoName
    Conns = {c1, c2, c3}
    ConfigRooms <- OneRoom
    ListMax = 255
    MaxJoins = 1
    Coors <- MCCoors
    MaxMoves = 3
    username <- OwnNames
    Requests = 1
    Backlog = 2
    Quitters = {c1, c2, c3}
    MaxGames = 2
SYMMETRY MCSymmetry
CONSTRAINT OneThingAtATime
CHECK_DEADLOCK FALSE
INVARIANTS
    RecordAgrees
    RoleIsSeat
PROPERTIES
    PlacedAsSeen
