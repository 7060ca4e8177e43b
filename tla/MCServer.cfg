SPECIFICATION Spec
CONSTANTS
    Size = 2
    Row = 2
    NoUser = NoUser
    NoRoom = NoRoom
    Conns = {c1, c2}
    ConfigRooms <- OneRoom
    ListMax = 1
    MaxJoins = 2
    Coors <- MCCoors
    MaxMoves = 2
SYMMETRY MCSymmetry
CHECK_DEADLOCK FALSE
INVARIANTS
    TypeOK
    RoomKnown
    RequestsSeated
    SeatsConsistent
    BoardIsRecord
    SeatReleased
PROPERTIES
    ImplementsTables
    SeatNotStolen
    PlayersOnly
