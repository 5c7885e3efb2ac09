\* A cancelled unconfirmed booking is refused by a CHECK constraint.
CONSTANTS
    b1 = b1
    b2 = b2
    Bookings   <- OneBooking
    Horizon    = 2
    OpenNights <- TwoNights
    Quantity   = 1
    MaxRooms   = 1
    Stays      <- OneStay
SPECIFICATION Spec
INVARIANT CancellationCanComeBack
