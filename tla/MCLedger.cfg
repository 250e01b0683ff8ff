SPECIFICATION FairSpec
CONSTANTS
    Accounts = {1, 2, 3, 4}
    DebitNormal = {1}
    TxIds = {"seed", "t1", "t2", "t3", "t4", "t5"}
    MaxHalalas = 4
    Requests <- MCRequests
    Id <- MCId
    Lines <- MCLines
    SeedAccounts = {1, 2, 3}
    SeedIds = {"seed"}
    SeedRows <- MCSeedRows
    Sessions = {s1, s2}
    None = None
INVARIANTS BalancesInRange BooksBalanced FundsReserved PostedWhole NoDeadlock AnswersTrue
PROPERTIES ImplementsContract EveryPostEnds
