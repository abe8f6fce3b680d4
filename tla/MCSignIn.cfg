SPECIFICATION Spec
CONSTANTS
    Calls = {r1, r2}
    Challenges = {c1, c2}
    NoChallenge = none
    Slips = 1
    MaxFailed = 2
    MaxStep = 2
    MaxSecrets = 2
    MaxAttempts = 1
    DbMayFail = TRUE
SYMMETRY Symmetry
CHECK_DEADLOCK FALSE
INVARIANTS
    IInv
PROPERTIES
    MarkOnlyGrows
    OnlyTheRightCodeUnlocks
