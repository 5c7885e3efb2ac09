\* Two shifts of one drawer, two requests and the audit.
CONSTANTS
    d1 = d1
    s1 = s1
    s2 = s2
    r1 = r1
    r2 = r2
    Drawers   <- OneDrawer
    Shifts    <- TwoShifts
    Requests  <- TwoRequests
    MaxTime   = 3
    NoShift   = NoShift
    NoDrawer  = NoDrawer
    NoRequest = NoRequest
CHECK_DEADLOCK FALSE
SPECIFICATION FairSpec
INVARIANT TypeOK TotalExplained ReceiptsDense
PROPERTY RequestsEnd
