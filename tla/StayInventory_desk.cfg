\* Two bookings of one or two rooms competing for a room type of two.
CONSTANTS
    b1 = b1
    b2 = b2
    Bookings   <- TwoBookings
    Horizon    = 2
    OpenNights <- TwoNights
    Quantity   = 2
    MaxRooms   = 2
    Stays      <- ShortStays
SYMMETRY Symmetry
SPECIFICATION Spec
INVARIANTS TypeOK Conserved LiveStayIsHeld RowChecks
PROPERTY KeepsLedger
