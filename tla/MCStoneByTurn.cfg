SPECIFICATION Spec
CONSTANTS
    Size = 2
    Row = 2
    NoUser = NoUser
    NoRoom = NoRoom
    Conns = {c1, c2, c3}
    ConfigRooms <- OneRoom
    ListMax = 1
    MaxJoins = 1
    Coors <- MCCoors
    MaxMoves = 2
SYMMETRY MCSymmetry
CHECK_DEADLOCK FALSE
PROPERTY StoneByTurn
