\* One stay, one night: whatever fails or collides, the business date catches up.
CONSTANTS
    b1 = b1
    Bookings    <- OneBooking
    Stays       <- AnyStay
    Levied      <- OneBooking
    Horizon     = 1
    Manual      = Manual
    Timer       = Timer
    ManualDates = {1}
    Nobody      = Nobody
CHECK_DEADLOCK FALSE
SPECIFICATION FairSpec
PROPERTY BehindCatchesUp
