\* A channel reservation, two keys, two of four requests at a time.
CONSTANTS
    Refs     = {r1}
    Keys     = {k1, k2}
    Calls    = {c1, c2}
    Rooms    = 2
    MaxCalls = 4
    NoCall   = NoCall
    NoSource = NoSource
CHECK_DEADLOCK FALSE
SPECIFICATION FairSpec
INVARIANT TypeOK BookedOnce CancelledIsReleased KeyBooksOnce
PROPERTY ReceivedSettles
