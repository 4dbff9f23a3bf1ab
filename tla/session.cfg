SPECIFICATION FairSpec
CONSTANTS
    None = None
    Unknown = Unknown
    Sent = Sent
    Accounts <- SomeAccounts
    InitialGrants <- SomeGrants
    Toggled <- SomeToggled
    Sections <- SomeSections
    Saves = {1}
    Targets <- SomeTargets
    MaxChanges = 1
INVARIANTS
    MenuMatchesGuards
    DashboardNeedsStanding
PROPERTIES
    StateManagerPagesAreGranted
    NavigationEnds
