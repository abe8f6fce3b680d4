SPECIFICATION Spec
CONSTANTS
    Requests = {r1, r2}
    Operators = {o1}
    Previews = {p1, p2}
    Windows = {w1}
    NoPreview = NoPreview
    ArmTtl = 1
    PreviewTtl = 0
    RateWindow = 0
    MaxOrders = 1
    FloorOrders = 1
    MaxInFlight = 2
    Blocks = {"overridable", "halt"}
    Shapes = {TRUE}
    DbMayFail = TRUE
    MaxTime = 1
    MaxBoots = 1
CHECK_DEADLOCK FALSE
SYMMETRY Symmetry
INVARIANTS
    IInv
    GuardrailsHeld
PROPERTIES
    ImplementsLedger
