\* One stay, two nights, an audit by hand and those of the timer against the desk.
CONSTANTS
    b1 = b1
    Bookings    <- OneBooking
    Stays       <- AnyStay
    Levied      <- OneBooking
    Horizon     = 2
    Manual      = Manual
    Timer       = Timer
    ManualDates = {1}
    Nobody      = Nobody
CHECK_DEADLOCK FALSE
SPECIFICATION Spec
INVARIANT TypeOK EachDateClosedOnce BilledOnce
PROPERTY ClosedNightIsBilled LeviesMatchStay OnlyUnarrivedAreNoShows
