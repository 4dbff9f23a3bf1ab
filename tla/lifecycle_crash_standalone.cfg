SPECIFICATION Spec
CONSTANTS
    None = None
    Tenants = {t1, t2}
    Properties = {p1}
    Bookings = {b1}
    Requests = {r1}
    Ops = {"create", "update", "assign", "evict", "updateTenant", "changeStatus", "book", "announce", "cancel", "closeAll", "delete", "sync", "deactivate"}
    Transactional = FALSE
    MayFail = TRUE
SYMMETRY Symmetry
PROPERTIES
    EvictionIsFinal
    HoldReleasedByManager
CHECK_DEADLOCK FALSE
