\* Two bookings, a block and two owners over a room type of two rooms.
CONSTANTS
    b1 = b1
    b2 = b2
    m1 = m1
    o1 = o1
    o2 = o2
    Nobody   = Nobody
    Bookings <- TwoBookings
    Blocks   <- OneBlock
    Owners   <- TwoOwners
    Quantity = 2
    Asked    = {1, 2, 3}
    RawCalls = 1
SYMMETRY Symmetry
SPECIFICATION Spec
INVARIANTS TypeOK OversoldOnlyByRaces UndersoldOnlyByRaces
