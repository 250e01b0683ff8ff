SPECIFICATION FairSpec
CONSTANTS
    Accounts = {1, 2, 3, 4}
    DebitNormal = {1}
    MaxHalalas = 9
    SeedAccounts = {1, 2, 3, 4}
    SeedIds <- MCSeedIds
    SeedRows <- MCSeedRows
    Transfers = {1, 2}
    From <- MCFrom
    To <- MCTo
    Amount <- MCAmount
    Workers = {w1}
    BatchLimit = 2
    MaxFaults = 0
    ConnBusy = TRUE
    None = None
PROPERTY SettlementsResolved
CHECK_DEADLOCK FALSE
