SPECIFICATION Spec
CONSTANTS
    None = None
    Tenants = {t1, t2, t3}
    Properties = {p1, p2}
    Bookings = {}
    Requests = {r1}
    Ops = {"create", "assign", "evict", "updateTenant", "changeStatus", "sync"}
    Transactional = TRUE
    MayFail = TRUE
SYMMETRY Symmetry
VIEW StateWithoutHistory
INVARIANTS
    OccupantsActive
PROPERTIES
    TenancyImplemented
CHECK_DEADLOCK FALSE
