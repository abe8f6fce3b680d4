SPECIFICATION FairSpec
CONSTANTS
    Runs = {c1}
    Symbols = {s1, s2, s3}
    Slots = 2
    StaleAfter = 1
    HaltOnDesync = {TRUE, FALSE}
    DbMayFail = TRUE
CHECK_DEADLOCK FALSE
INVARIANTS
    Inv
    LastWordIsTheJobs
PROPERTIES
    ProgressOnlyGrows
    RunningEnds
