SPECIFICATION Spec
CONSTANTS
    Size = 2
    Row = 2
    NoUser = NoUser
    Users = {u1, u2, u3, u4}
    ConfigMax = 3
    Coors <- MCCoors
    MaxMoves = 5
SYMMETRY MCSymmetry
INVARIANTS
    TypeOK
    RequestsSeated
    RecordOnBoard
    RecordFits
PROPERTIES
    SeatsHandedOver
