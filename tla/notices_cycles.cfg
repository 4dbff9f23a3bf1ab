SPECIFICATION Spec
CONSTANTS
    Properties = {p1}
    Requests = {r1}
    MaxSnapshots = 4
    GoogleConfigured = TRUE
    MayFail = TRUE
INVARIANTS
    TypeOK
PROPERTIES
    HoldUntilReleased
    CyclesImplemented
CHECK_DEADLOCK FALSE
