SPECIFICATION Spec
CONSTANTS
    Prices = {0, 1, 2, 3, 4, 5, 6, 7, 8, 9, 10, 11, 12, 13, 14, 15, 16, 17, 18, 19, 20, 21, 22,
              23, 24, 9999999, 10000000, 10000003, 29999999, 30000000, 30000003,
              209999999, 210000000, 210000003, 299999999, 300000000, 300000003}
    MaxAgents = 6
INVARIANTS
    PayoutsBalance
    CompanyNeverPays
    PoolAsAgreed
    RoundingBounded
CHECK_DEADLOCK FALSE
