SPECIFICATION Spec
CONSTANTS
    Last = 5
    MaxIds = 3
    Floor = 1
    Confirm = 1
    Window = 2
    MinGap = 2
    AbortAfter = 2
    Worlds <- MCWorlds
CHECK_DEADLOCK FALSE
INVARIANTS
    Inv
    OrderlyDatesResolve
    AuditSeesAll
PROPERTIES
    DecisionsStand
