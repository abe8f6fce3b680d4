SPECIFICATION FairSpec
CONSTANTS
    web = web
    Threads = {w1, w2}
    Procs = {web}
    Home <- MCHome
    Writers = {w1, w2}
    Values = {1, 2}
    Default <- MCDefault
    Ttl = 2
    MaxWrites = 2
    DbMayFail = TRUE
CHECK_DEADLOCK FALSE
INVARIANTS
    Inv
    OnlyOverlapHidesAWrite
PROPERTIES
    StaleCacheDies
