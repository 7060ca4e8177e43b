SPECIFICATION CodecSpec
CONSTANTS
    Radix = 4
    Numbers <- MCNumbers
    Strings <- MCStrings
    Lists <- MCLists
    MaxCut = 40
CHECK_DEADLOCK FALSE
INVARIANTS
    Understood
    CutNoticed
