SPECIFICATION Spec
CONSTANTS
    None = None
    Agents = {a1, a2, a3}
    Editions = {e1, e2, e3}
    Requests = {r1}
    MayFail = TRUE
SYMMETRY Symmetry
PROPERTIES
    PaidStaysOnRecord
    EditLeavesItsEdition
    FailedEditRestores
CHECK_DEADLOCK FALSE
