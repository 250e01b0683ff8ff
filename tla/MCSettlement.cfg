SPECIFICATION FairSpec
CONSTANTS
    Accounts = {1, 2, 3, 4}
    DebitNormal = {1}
    MaxHalalas = 9
    SeedAccounts = {1, 2, 3, 4}
    SeedIds <- MCSeedIds
    SeedRows <- MCSeedRows
    Transfers = {1, 2}
    From <- MCFrom
    To <- MCTo
    Amount <- MCAmount
    Workers = {w1, w2}
    BatchLimit = 2
    MaxFaults = 1
    ConnBusy = FALSE
    None = None
INVARIANTS OneOutcomePerAttempt SagaTellsOutcome StatusesBacked BalancesExplained UnreversedWasSpent
PROPERTIES SettlementsResolved SagaFinishes
CHECK_DEADLOCK FALSE
