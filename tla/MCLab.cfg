SPECIFICATION Spec
CONSTANTS
    m1 = m1
    m2 = m2
    m3 = m3
    Exps = {e1}
    Items <- MCItems
    Scores = {0, 1}
    Unmeasured = Unmeasured
    None = None
CHECK_DEADLOCK FALSE
INVARIANTS
    Inv
PROPERTIES
    EndStands
    WatchedRunsClose
