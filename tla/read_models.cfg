SPECIFICATION Spec
CONSTANTS
    Keys = {k1, k2}
    Readers = {r1, r2}
    Writers = {w1}
    None = None
    Sizes <- SomeOversized
    MaxEntries = 2
    MaxBytes = 3
    MaxModelBytes = 2
    MaxServer = 1
INVARIANTS
    StoreWithinBounds
    ModelsSeeOwnWrites
    RequestsAreShared
PROPERTIES
    ReadsKeepPromise
SYMMETRY Symmetry
