\* Enough for one connection that is held up or being accepted, and one that holds it
\* up and does not read.
SPECIFICATION LiveSpec
CONSTANT Conns = {c1, c2}
INVARIANTS TypeOK Tracked NoneMissed
PROPERTIES TornDownUnlessHeldUp ClosedDown
