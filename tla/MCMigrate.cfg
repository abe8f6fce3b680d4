SPECIFICATION FairSpec
CONSTANTS
    Runners = {r1, r2, r3}
    Versions = {1, 2, 3}
    Sums = {"a", "b", "c", "x"}
    Checkouts <- MCCheckouts
    NoOne = NoOne
    DbMayFail = TRUE
CHECK_DEADLOCK FALSE
INVARIANTS
    Inv
PROPERTIES
    OneAtATime
    WaitEnds
