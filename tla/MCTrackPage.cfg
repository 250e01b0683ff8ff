SPECIFICATION TrackSpec
CONSTANTS
    Accounts = {1, 2, 3}
    DebitNormal = {1}
    MaxHalalas = 9
    SeedAccounts = {1, 2, 3}
    SeedIds <- MCSeedIds
    SeedRows <- MCSeedRows
    Transfers = {1}
    From <- MCFrom
    To <- MCTo
    Amount <- MCAmount
    Workers = {w1}
    BatchLimit = 1
    MaxFaults = 1
    ConnBusy = FALSE
    None = None
    Unknown = Unknown
    MaxUnderWay = 2
    MaxInputs = 3
INVARIANTS BannerTrue LiveUntilTheEnd
PROPERTY TrackingEnds
CHECK_DEADLOCK FALSE
