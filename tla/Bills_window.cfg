\* Two windows of a bill, a room night, a levy, a pick-up and an extra, two requests at a time.
CONSTANTS
    night  = night
    levy   = levy
    pickup = pickup
    extra  = extra
    d1 = d1
    d2 = d2
    Windows = {1, 2}
    Guest   = 1
    Nowhere = 0
    Charges  <- FourLines
    Nightly  <- NightLines
    Services <- Transfers
    Vat      <- NightLines
    Desks    <- TwoDesks
    Limit       = 1
    MaxRequests = 4
SYMMETRY Symmetry
CHECK_DEADLOCK FALSE
SPECIFICATION Spec
INVARIANTS TypeOK ClosedOwesOnlyWhatWasUnderWay InvoicedOnce LimitsBreakOnlyByRaces
