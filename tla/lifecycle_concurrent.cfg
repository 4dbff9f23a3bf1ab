SPECIFICATION Spec
CONSTANTS
    None = None
    Tenants = {t1, t2}
    Properties = {p1}
    Bookings = {}
    Requests = {r1, r2}
    Ops = {"create", "assign", "evict", "updateTenant", "changeStatus", "sync"}
    Transactional = FALSE
    MayFail = TRUE
SYMMETRY Symmetry
VIEW StateWithoutHistory
INVARIANTS
    DocumentsConsistent
    CurrentTenantOnFile
CHECK_DEADLOCK FALSE
