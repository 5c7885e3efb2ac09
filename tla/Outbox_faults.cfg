\* Two changes, with crashes, lost calls and a replay, under fairness.
CONSTANTS
    e1 = e1
    e2 = e2
    Events      <- TwoEvents
    MaxAttempts = 2
    MaxFaults   = 2
    MaxReplays  = 1
    MaxHands    = 1
CHECK_DEADLOCK FALSE
SPECIFICATION FairSpec
INVARIANTS TypeOK AllSentMeansSynced DeadLetterWasTried
PROPERTY EveryRowSettles
