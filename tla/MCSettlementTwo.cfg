SPECIFICATION Spec
CONSTANTS
    Accounts = {1, 2, 3, 4}
    DebitNormal = {1}
    MaxHalalas = 9
    SeedAccounts = {1, 2, 3, 4}
    SeedIds <- MCSeedIds
    SeedRows <- MCSeedRows
    Transfers = {1}
    From <- MCFrom
    To <- MCTo
    Amount <- MCAmount
    Workers = {w1, w2}
    BatchLimit = 2
    MaxFaults = 0
    ConnBusy = FALSE
    None = None
INVARIANT SettledXorReversed
CHECK_DEADLOCK FALSE
