SPECIFICATION Spec
CONSTANTS
    Size = 3
    Row = 3
    Coors <- MCCoors
    MaxMoves = 7
INVARIANTS
    WinAnnounced
