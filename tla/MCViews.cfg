SPECIFICATION Spec
CONSTANTS
    None = None
    A = A
    B = B
    Readers = {r1, r2}
    r1 = r1
    r2 = r2
    Asks <- MCAsks
    Accounts = {1, 2}
    Default = 1
    Credentials <- MCCredentials
    Syms = {A, B}
    Books <- MCBooks
    Fills <- MCFills
    Plans <- MCPlans
    Slates <- MCSlates
    Edits <- MCEdits
    SnapTtl = 1
    MarksTtl = 1
    Backoff = 2
    MaxStale = 1
    FileMaxAge = 1
    MaxFetch = 1
    MaxSlow = 1
    Tolerance = 2
    CashBand <- MCCashBand
    MaxPosition = 50
    OffFactor = {B}
    OffFloor = 10
CHECK_DEADLOCK FALSE
INVARIANTS
    Inv
    NothingIsForgotten
    OnlyFailuresHoldBack
