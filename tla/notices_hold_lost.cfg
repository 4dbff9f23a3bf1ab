SPECIFICATION Spec
CONSTANTS
    Properties = {p1}
    Requests = {r1, r2}
    MaxSnapshots = 1
    GoogleConfigured = TRUE
    MayFail = FALSE
PROPERTIES
    HoldUntilReleased
CHECK_DEADLOCK FALSE
