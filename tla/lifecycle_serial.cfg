SPECIFICATION Spec
CONSTANTS
    None = None
    Tenants = {t1, t2}
    Properties = {p1}
    Bookings = {b1, b2}
    Requests = {r1}
    Ops = {"create", "update", "assign", "evict", "updateTenant", "changeStatus", "book", "announce", "cancel", "closeAll", "delete", "sync"}
    Transactional = FALSE
    MayFail = FALSE
SYMMETRY Symmetry
INVARIANTS
    TypeOK
    BookingsMatchProperty
    HistoryMatchesStatus
CHECK_DEADLOCK FALSE
