SPECIFICATION ReadySpec
CONSTANTS
    Requests = {r1, r2, r3}
    Operators = {}
    Previews = {p1, p2, p3}
    Windows = {w1}
    NoPreview = NoPreview
    ArmTtl = 1
    PreviewTtl = 0
    RateWindow = 0
    MaxOrders = 1
    FloorOrders = 1
    MaxInFlight = 2
    Blocks = {"halt"}
    Shapes = {TRUE, FALSE}
    DbMayFail = FALSE
    MaxTime = 0
    MaxBoots = 0
CHECK_DEADLOCK FALSE
INVARIANTS
    OvershootBounded
PROPERTIES
    ConfirmReturns
    SubmittingIsTransient
