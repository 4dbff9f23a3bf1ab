\* Every page, over small sets.
SPECIFICATION Spec
CHECK_DEADLOCK FALSE
CONSTANTS
    None = None
    Filters = {f1, f2}
    NoFilter = f1
    LastPage = 2
    MatchingPages <- SomeMatchingPages
    Agents = {agent1, agent2}
    Periods = {anyTime, week}
    AllTime = anyTime
    Activities = {sales, tenants}
    Pieces <- SomePieces
    Payees = {agent1}
    Details = {d1, d2}
    Houses = {h1, h2}
    MaxFailures = 2
    Tenants = {t1}
    UserRoles = {"seniorAgent", "manager", "stateManager"}
    Groups = {x, y}
    Bookings = {x, y}
    Blocks = {x, y}
    NewBlock = y
    Exports = {1, 2, 3}
    RowCount <- SomeRowCount
    MaxNotices = 3
    Items = {x, y}
    MaxSyncs = 3
    Tabs = {"pending", "agents"}
    Members = {x, y}
INVARIANTS
    TypeOK
    SpinnersTurn
    ShowsSelection
    FollowsActions
    PagingIsContinuous
    TotalsMatchNotices
    OffersAreAccepted
    SendsWhatWasShown
PROPERTIES
    FormsSubmitOnce
    SuccessIsOfBoth
    SnapshotCatchesUp
