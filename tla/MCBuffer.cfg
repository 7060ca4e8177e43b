SPECIFICATION FairSpec
CONSTANTS
    Readers = {main}
    MaxMessages = 4
CHECK_DEADLOCK FALSE
INVARIANTS
    TypeOK
    WholeMessages
PROPERTIES
    StableWhileHeld
    FlippedIn
