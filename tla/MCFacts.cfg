SPECIFICATION FactsSpec
CONSTANTS
    Dates = {1}
    Rates = {1, 2}
    Runs = {r1, r2, r3}
    Last = 4
    Evening = 2
    Worlds <- MCWorlds
    Subject = s1
    s1 = s1
    s2 = s2
    Targets = {s1, s2}
    Scopes <- MCScopes
    MaxJobs = 3
CHECK_DEADLOCK FALSE
INVARIANTS
    FactsInv
PROPERTIES
    RunRecordsWhatItSaw
    QuietLoadsKeepHistory
