\* An owner reopens a night while a booking takes it.
CONSTANTS
    b1 = b1
    b2 = b2
    m1 = m1
    o1 = o1
    o2 = o2
    Nobody   = Nobody
    Bookings <- TwoBookings
    Blocks   <- NoBlocks
    Owners   <- OneOwner
    Quantity = 1
    Asked    = {1}
    RawCalls = 0
SPECIFICATION Spec
INVARIANT NeverOversold
