\* Stays for the last room that begin tomorrow and may be cut and stretched, under a fair sweep.
CONSTANTS
    b1 = b1
    b2 = b2
    Bookings   <- TwoBookings
    Horizon    = 4
    OpenNights <- FourNights
    Quantity   = 1
    MaxRooms   = 1
    Stays      <- WeekStays
SPECIFICATION FairSpec
INVARIANTS NoShowKeepsArrival RecountCoversHeld
PROPERTIES SleptNightsStaySold DueHoldIsReleased
