SPECIFICATION DebateSpec
CONSTANTS
    d1 = d1
    a = a
    b = b
    Debates = {d1}
    Watched = {d1}
    Rounds <- MCRounds
    Panels <- MCPanels
    Keys <- MCKeys
    Seating <- MCSeating
    MaxCost = 2
    MaxFaults = 2
    None = None
CHECK_DEADLOCK FALSE
INVARIANTS
    DebateInv
    SpendStaysEven
PROPERTIES
    DebatesEnd
