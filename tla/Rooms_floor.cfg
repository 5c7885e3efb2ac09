\* Two guests, two rooms and a block of the last night.
CONSTANTS
    b1 = b1
    b2 = b2
    u1 = u1
    u2 = u2
    Bookings   <- TwoBookings
    Handled    <- OneHandled
    Units      <- TwoUnits
    Horizon    = 2
    Stays      <- ShortStays
    BlockSpans <- LastNight
    MaxLegs    = 2
    MaxMoves   = 1
    NoUnit     = NoUnit
CHECK_DEADLOCK FALSE
SYMMETRY UnitSymmetry
SPECIFICATION Spec
INVARIANT TypeOK NightsHaveOneLeg
PROPERTY ClashesAreKnown
