SPECIFICATION FairSpec
CONSTANTS
    w1 = w1
    w2 = w2
    k1 = k1
    Writers <- MCWriters
    Clicks <- MCClicks
    MaxEvents = 5
    MaxFaults = 2
INVARIANTS
    NothingMissed
    ClosesWithTheOutcome
    ViewTellsTheOutcome
PROPERTIES
    FollowingEnds
CHECK_DEADLOCK FALSE
