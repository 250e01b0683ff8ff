---------------------------- MODULE LedgerProofs ----------------------------
(***************************************************************************)
(* Proofs about Ledger for any number of sessions, accounts and requests:  *)
(* type correctness, the lock discipline, that no interleaving overdraws   *)
(* an account or unbalances the books, that transactions are posted whole, *)
(* answers are true and sessions never wait in a circle, and that the      *)
(* locking repository implements LedgerContract.                           *)
(***************************************************************************)
EXTENDS Ledger, LedgerBooksProofs, FiniteSetTheorems

\* The accounts of a request are account ids.
LEMMA AccountsOfType ==
    ASSUME NEW r \in Requests
    PROVE  Lines[r] \in Seq(Row) /\ AccountsOf(r) \subseteq Accounts
<1>1. Lines[r] \in Seq(Row)
  BY RequestAssumption
<1>2. \A i \in 1..Len(Lines[r]) : Lines[r][i] \in Row
  BY <1>1, ElementOfSeq
<1> QED
  BY <1>1, <1>2 DEF AccountsOf, UniqueAccountIDs, Row

\* Type correctness: TypeOK is inductive by itself.
THEOREM TypeCorrect == Spec => []TypeOK
<1>1. Init => TypeOK
  BY SeedAssumption, SessionAssumption
  DEF Init, Contract!Init, TypeOK, Working, PastLocks, Answers
<1>2. TypeOK /\ [Next]_vars => TypeOK'
  <2> SUFFICES ASSUME TypeOK, [Next]_vars PROVE TypeOK'
    OBVIOUS
  <2> USE SessionAssumption DEF TypeOK, Working, PastLocks, Answers
  <2>1. ASSUME NEW s \in Sessions, NEW answer \in Answers, End(s, answer),
               UNCHANGED <<accounts, req>>, headers' \subseteq TxIds, journal' \in Seq(Row)
        PROVE  TypeOK'
    BY <2>1 DEF End, Release
  <2>2. ASSUME NEW a \in Accounts, CreateAccount(a) PROVE TypeOK'
    BY <2>2 DEF CreateAccount, sess
  <2>3. ASSUME NEW s \in Sessions, NEW a \in Accounts, LockAccount(s, a) PROVE TypeOK'
    BY <2>3 DEF LockAccount, books
  <2>4. ASSUME NEW s \in Sessions, NEW a \in Accounts, CheckFunds(s, a) PROVE TypeOK'
    <3>1. CASE pc' = pc /\ lockHolder' = lockHolder /\ found' = found
      BY <2>4, <3>1 DEF CheckFunds, books, End
    <3>2. CASE End(s, "INSUFFICIENT_FUNDS")
      BY <2>1, <2>4, <3>2 DEF CheckFunds, books
    <3>3. CASE End(s, "INVALID_MONEY")
      BY <2>1, <2>4, <3>3 DEF CheckFunds, books
    <3> QED BY <2>4, <3>1, <3>2, <3>3 DEF CheckFunds
  <2>5. ASSUME NEW s \in Sessions, LocksTaken(s) PROVE TypeOK'
    <3>1. CASE found[s] = AccountsOf(req[s])
      BY <2>5, <3>1 DEF LocksTaken, books
    <3>2. CASE found[s] # AccountsOf(req[s])
      BY <2>1, <2>5, <3>2 DEF LocksTaken, books
    <3> QED BY <3>1, <3>2
  <2>6. ASSUME NEW s \in Sessions, FundsChecked(s) PROVE TypeOK'
    BY <2>6 DEF FundsChecked, books
  <2>7. ASSUME NEW s \in Sessions, InsertTransaction(s) PROVE TypeOK'
    <3>1. CASE Id[req[s]] \in headers
      BY <2>1, <2>7, <3>1 DEF InsertTransaction, books
    <3>2. CASE Id[req[s]] \notin headers
      BY <2>7, <3>2 DEF InsertTransaction, books
    <3> QED BY <3>1, <3>2
  <2>8. ASSUME NEW s \in Sessions, Commit(s) PROVE TypeOK'
    <3>1. req[s] \in Requests
      BY <2>8 DEF Commit
    <3>2. journal' \in Seq(Row)
      BY <2>8, <3>1, AccountsOfType, ConcatProperties DEF Commit
    <3>3. headers' \subseteq TxIds
      BY <2>8, <3>1, RequestAssumption DEF Commit
    <3> QED BY <2>1, <2>8, <3>2, <3>3 DEF Commit
  <2>9. ASSUME NEW s \in Sessions, Abort(s) PROVE TypeOK'
    BY <2>1, <2>9 DEF Abort, books
  <2>10. ASSUME NEW s \in Sessions, NEW r \in Requests, Begin(s, r) PROVE TypeOK'
    BY <2>10 DEF Begin, books
  <2>11. ASSUME NEW s \in Sessions, NEW r \in Requests, RefuseUnbalanced(s, r) PROVE TypeOK'
    BY <2>11 DEF RefuseUnbalanced, books
  <2>12. CASE UNCHANGED vars
    BY <2>12 DEF vars, books, sess
  <2> QED
    BY <2>2, <2>3, <2>4, <2>5, <2>6, <2>7, <2>8, <2>9, <2>10, <2>11, <2>12
    DEF Next, Progress
<1> QED
  BY <1>1, <1>2, PTL DEF Spec

-----------------------------------------------------------------------------

\* The lock discipline: it needs nothing but the types, since every lock a
\* session holds is released only by its own End.
THEOREM LocksHeld == Spec => []LockDiscipline
<1>1. Init => LockDiscipline
  BY DEF Init, LockDiscipline, PastLocks
<1>2. TypeOK /\ LockDiscipline /\ [Next]_vars => LockDiscipline'
  <2> SUFFICES ASSUME TypeOK, LockDiscipline, [Next]_vars PROVE LockDiscipline'
    OBVIOUS
  <2> USE SessionAssumption DEF TypeOK, LockDiscipline, Held, PastLocks, Working, Answers
  <2>1. ASSUME NEW s \in Sessions, NEW answer \in Answers, End(s, answer), req' = req
        PROVE  LockDiscipline'
    BY <2>1 DEF End, Release
  <2>2. ASSUME NEW a \in Accounts, CreateAccount(a) PROVE LockDiscipline'
    BY <2>2 DEF CreateAccount, sess
  <2>3. ASSUME NEW s \in Sessions, NEW a \in Accounts, LockAccount(s, a) PROVE LockDiscipline'
    BY <2>3 DEF LockAccount
  <2>4. ASSUME NEW s \in Sessions, NEW a \in Accounts, CheckFunds(s, a) PROVE LockDiscipline'
    <3>1. CASE /\ checked' = [checked EXCEPT ![s] = @ \union {a}]
               /\ UNCHANGED <<lockHolder, pc, found>>
      BY <2>4, <3>1 DEF CheckFunds, First, ToCheck
    <3>2. CASE End(s, "INSUFFICIENT_FUNDS")
      BY <2>1, <2>4, <3>2 DEF CheckFunds
    <3>3. CASE End(s, "INVALID_MONEY")
      BY <2>1, <2>4, <3>3 DEF CheckFunds
    <3> QED BY <2>4, <3>1, <3>2, <3>3 DEF CheckFunds
  <2>5. ASSUME NEW s \in Sessions, LocksTaken(s) PROVE LockDiscipline'
    <3>1. CASE found[s] = AccountsOf(req[s])
      BY <2>5, <3>1 DEF LocksTaken, ToLock
    <3>2. CASE found[s] # AccountsOf(req[s])
      BY <2>1, <2>5, <3>2 DEF LocksTaken
    <3> QED BY <3>1, <3>2
  <2>6. ASSUME NEW s \in Sessions, FundsChecked(s) PROVE LockDiscipline'
    BY <2>6 DEF FundsChecked, ToCheck
  <2>7. ASSUME NEW s \in Sessions, InsertTransaction(s) PROVE LockDiscipline'
    <3>1. CASE Id[req[s]] \in headers
      BY <2>1, <2>7, <3>1 DEF InsertTransaction
    <3>2. CASE Id[req[s]] \notin headers
      BY <2>7, <3>2 DEF InsertTransaction
    <3> QED BY <3>1, <3>2
  <2>8. ASSUME NEW s \in Sessions, Commit(s) PROVE LockDiscipline'
    BY <2>1, <2>8 DEF Commit
  <2>9. ASSUME NEW s \in Sessions, Abort(s) PROVE LockDiscipline'
    BY <2>1, <2>9 DEF Abort
  <2>10. ASSUME NEW s \in Sessions, NEW r \in Requests, Begin(s, r) PROVE LockDiscipline'
    BY <2>10 DEF Begin
  <2>11. ASSUME NEW s \in Sessions, NEW r \in Requests, RefuseUnbalanced(s, r)
         PROVE  LockDiscipline'
    BY <2>11 DEF RefuseUnbalanced
  <2>12. CASE UNCHANGED vars
    BY <2>12 DEF vars, sess
  <2> QED
    BY <2>2, <2>3, <2>4, <2>5, <2>6, <2>7, <2>8, <2>9, <2>10, <2>11, <2>12
    DEF Next, Progress
<1> QED
  BY <1>1, <1>2, TypeCorrect, PTL DEF Spec

-----------------------------------------------------------------------------

\* What a session that has passed its checks may rely on: its journal is
\* balanced, and an inserted header has an id no one else has posted or inserted.
Prepared ==
    \A s \in Sessions :
        /\ pc[s] \in Working => ValidateBalanced(Lines[req[s]])
        /\ pc[s] = "committing" =>
              /\ Id[req[s]] \notin headers
              /\ \A t \in Sessions \ {s} :
                    pc[t] = "committing" => Id[req[t]] # Id[req[s]]

\* The inductive invariant.  BalancesInRange alone is not inductive: a commit
\* preserves it because the funds it was checked against are still there, and
\* they are still there because their accounts have been locked ever since.
LedgerInv ==
    /\ TypeOK
    /\ LockDiscipline
    /\ Prepared
    /\ FundsReserved
    /\ BalancesInRange
    /\ BooksBalanced

\* Two sessions past their locks have no account in common.
LEMMA DisjointWork ==
    ASSUME LockDiscipline, NEW s \in Sessions, NEW t \in Sessions, s # t,
           pc[s] \in PastLocks, pc[t] \in PastLocks
    PROVE  AccountsOf(req[s]) \intersect AccountsOf(req[t]) = {}
BY DEF LockDiscipline, Held

\* A commit keeps every balance in range and every other session's checked
\* funds available: the step the whole locking scheme exists for.
LEMMA CommitPreserves ==
    ASSUME LedgerInv, TypeOK', NEW s \in Sessions, Commit(s)
    PROVE  FundsReserved' /\ BalancesInRange' /\ BooksBalanced'
<1> DEFINE r == req[s]
<1>1. /\ pc[s] = "committing" /\ r \in Requests
      /\ journal \in Seq(Row) /\ Lines[r] \in Seq(Row)
      /\ journal' = journal \o Lines[r]
      /\ AccountsOf(r) \subseteq Accounts
  BY AccountsOfType DEF LedgerInv, TypeOK, Working, PastLocks, Commit
<1>2. checked[s] = AccountsOf(r)
  BY <1>1 DEF LedgerInv, LockDiscipline, PastLocks
<1>3. ASSUME NEW a \in AccountsOf(r)
      PROVE  BalanceFromEntries(a, journal') \in 0..MaxHalalas
  <2>1. Projected(a, journal, r) \in 0..MaxHalalas
    BY <1>2 DEF LedgerInv, FundsReserved
  <2> QED BY <1>1, <2>1, BalanceOfAppend DEF Projected
<1>4. ASSUME NEW a \in Accounts, a \notin AccountsOf(r)
      PROVE  BalanceFromEntries(a, journal') = BalanceFromEntries(a, journal)
  BY <1>1, <1>4, BalanceUntouched DEF AccountsOf
<1>5. BalancesInRange'
  BY <1>3, <1>4 DEF LedgerInv, BalancesInRange
<1>6. BooksBalanced'
  BY <1>1, BalancedAppend DEF LedgerInv, Prepared, BooksBalanced, Working, PastLocks
<1>7. FundsReserved'
  <2> SUFFICES ASSUME NEW t \in Sessions, NEW a \in checked'[t]
               PROVE  Projected(a, journal', req'[t]) \in 0..MaxHalalas
    BY DEF FundsReserved
  <2>1. req' = req /\ checked' = [checked EXCEPT ![s] = {}]
    BY DEF Commit, End
  <2>2. t # s /\ a \in checked[t]
    BY <2>1 DEF LedgerInv, TypeOK
  <2>3. pc[t] \in PastLocks /\ a \in AccountsOf(req[t]) /\ req[t] \in Requests
    BY <2>2 DEF LedgerInv, TypeOK, LockDiscipline, Working
  <2>4. a \notin AccountsOf(r) /\ a \in Accounts
    BY <1>1, <2>2, <2>3, DisjointWork, AccountsOfType DEF LedgerInv, PastLocks
  <2>5. Projected(a, journal, req[t]) \in 0..MaxHalalas
    BY <2>2 DEF LedgerInv, FundsReserved
  <2> QED BY <1>4, <2>1, <2>4, <2>5 DEF Projected
<1> QED
  BY <1>5, <1>6, <1>7

\* LedgerInv is an invariant of every behaviour.
THEOREM LedgerInvariant == Spec => []LedgerInv
<1>1. Init => LedgerInv
  <2> SUFFICES ASSUME Init PROVE LedgerInv
    OBVIOUS
  <2>1. TypeOK
    BY SeedAssumption, SessionAssumption
    DEF Init, Contract!Init, TypeOK, Working, PastLocks, Answers
  <2>2. LockDiscipline /\ Prepared /\ FundsReserved
    BY DEF Init, LockDiscipline, Prepared, FundsReserved, Working, PastLocks
  <2>3. BalancesInRange /\ BooksBalanced
    BY SeedAssumption DEF Init, Contract!Init, BalancesInRange, BooksBalanced
  <2> QED BY <2>1, <2>2, <2>3 DEF LedgerInv
<1>2. LedgerInv /\ TypeOK' /\ LockDiscipline' /\ [Next]_vars => LedgerInv'
  <2> SUFFICES ASSUME LedgerInv, TypeOK', LockDiscipline', [Next]_vars
               PROVE  Prepared' /\ FundsReserved' /\ BalancesInRange' /\ BooksBalanced'
    BY DEF LedgerInv
  <2>1. ASSUME journal' = journal PROVE BalancesInRange' /\ BooksBalanced'
    BY <2>1 DEF LedgerInv, BalancesInRange, BooksBalanced
  <2>2. ASSUME NEW s \in Sessions, NEW answer \in Answers, End(s, answer),
               journal' = journal, headers' = headers, req' = req
        PROVE  Prepared' /\ FundsReserved'
    BY <2>2 DEF End, LedgerInv, TypeOK, Prepared, FundsReserved, Working, PastLocks, Answers
  <2>3. ASSUME NEW a \in Accounts, CreateAccount(a)
        PROVE  Prepared' /\ FundsReserved' /\ BalancesInRange' /\ BooksBalanced'
    BY <2>1, <2>3 DEF CreateAccount, sess, LedgerInv, Prepared, FundsReserved
  <2>4. ASSUME NEW s \in Sessions, NEW a \in Accounts, LockAccount(s, a)
        PROVE  Prepared' /\ FundsReserved' /\ BalancesInRange' /\ BooksBalanced'
    BY <2>1, <2>4 DEF LockAccount, books, LedgerInv, Prepared, FundsReserved
  <2>5. ASSUME NEW s \in Sessions, NEW a \in Accounts, CheckFunds(s, a)
        PROVE  Prepared' /\ FundsReserved' /\ BalancesInRange' /\ BooksBalanced'
    <3>1. CASE End(s, "INSUFFICIENT_FUNDS") \/ End(s, "INVALID_MONEY")
      BY <2>1, <2>2, <2>5, <3>1 DEF CheckFunds, books, Answers
    <3>2. CASE /\ ~(Projected(a, journal, req[s]) < 0)
               /\ ~(Projected(a, journal, req[s]) > MaxHalalas)
               /\ checked' = [checked EXCEPT ![s] = @ \union {a}]
               /\ UNCHANGED <<lockHolder, pc, found>>
      <4>1. req[s] \in Requests /\ journal \in Seq(Row) /\ Lines[req[s]] \in Seq(Row)
        BY <2>5, AccountsOfType DEF CheckFunds, LedgerInv, TypeOK, Working, PastLocks
      <4>2. Projected(a, journal, req[s]) \in Int
        <5>1. BalanceFromEntries(a, journal) \in Int
          BY <4>1, BalanceOfAppend
        <5>2. Sum(Effects(a, Lines[req[s]])) \in Int
          BY <4>1, EffectsSeq, SumInt
        <5> QED BY <5>1, <5>2 DEF Projected, ApplyEntries
      <4>3. Projected(a, journal, req[s]) \in 0..MaxHalalas
        BY <3>2, <4>2, BooksAssumption
      <4>4. FundsReserved'
        BY <2>5, <3>2, <4>3 DEF CheckFunds, books, LedgerInv, TypeOK, FundsReserved
      <4>5. Prepared'
        BY <2>5, <3>2 DEF CheckFunds, books, LedgerInv, Prepared
      <4> QED BY <2>1, <2>5, <4>4, <4>5 DEF CheckFunds, books
    <3> QED BY <2>5, <3>1, <3>2 DEF CheckFunds
  <2>6. ASSUME NEW s \in Sessions, LocksTaken(s)
        PROVE  Prepared' /\ FundsReserved' /\ BalancesInRange' /\ BooksBalanced'
    <3>1. CASE found[s] = AccountsOf(req[s])
      BY <2>1, <2>6, <3>1
      DEF LocksTaken, books, LedgerInv, TypeOK, Prepared, FundsReserved, Working, PastLocks
    <3>2. CASE found[s] # AccountsOf(req[s])
      BY <2>1, <2>2, <2>6, <3>2 DEF LocksTaken, books, Answers
    <3> QED BY <3>1, <3>2
  <2>7. ASSUME NEW s \in Sessions, FundsChecked(s)
        PROVE  Prepared' /\ FundsReserved' /\ BalancesInRange' /\ BooksBalanced'
    BY <2>1, <2>7
    DEF FundsChecked, books, LedgerInv, TypeOK, Prepared, FundsReserved, Working, PastLocks
  <2>8. ASSUME NEW s \in Sessions, InsertTransaction(s)
        PROVE  Prepared' /\ FundsReserved' /\ BalancesInRange' /\ BooksBalanced'
    <3>1. CASE Id[req[s]] \in headers
      BY <2>1, <2>2, <2>8, <3>1 DEF InsertTransaction, books, Answers
    <3>2. CASE Id[req[s]] \notin headers
      BY <2>1, <2>8, <3>2
      DEF InsertTransaction, InsertBlocked, books, LedgerInv, TypeOK, Prepared,
          FundsReserved, Working, PastLocks
    <3> QED BY <3>1, <3>2
  <2>9. ASSUME NEW s \in Sessions, Commit(s)
        PROVE  Prepared' /\ FundsReserved' /\ BalancesInRange' /\ BooksBalanced'
    <3>1. Prepared'
      BY <2>9 DEF Commit, End, LedgerInv, TypeOK, Prepared, Working, PastLocks
    <3> QED BY <2>9, <3>1, CommitPreserves
  <2>10. ASSUME NEW s \in Sessions, Abort(s)
         PROVE  Prepared' /\ FundsReserved' /\ BalancesInRange' /\ BooksBalanced'
    BY <2>1, <2>2, <2>10 DEF Abort, books, Answers
  <2>11. ASSUME NEW s \in Sessions, NEW r \in Requests, Begin(s, r)
         PROVE  Prepared' /\ FundsReserved' /\ BalancesInRange' /\ BooksBalanced'
    <3>1. checked[s] = {}
      BY <2>11 DEF Begin, LedgerInv, LockDiscipline, PastLocks, Answers
    <3>2. Prepared'
      BY <2>11 DEF Begin, books, LedgerInv, TypeOK, Prepared, Working, PastLocks, Answers
    <3>3. FundsReserved'
      BY <2>11, <3>1 DEF Begin, books, LedgerInv, TypeOK, FundsReserved
    <3> QED BY <2>1, <2>11, <3>2, <3>3 DEF Begin, books
  <2>12. ASSUME NEW s \in Sessions, NEW r \in Requests, RefuseUnbalanced(s, r)
         PROVE  Prepared' /\ FundsReserved' /\ BalancesInRange' /\ BooksBalanced'
    <3>1. checked[s] = {}
      BY <2>12 DEF RefuseUnbalanced, LedgerInv, LockDiscipline, PastLocks, Answers
    <3>2. Prepared'
      BY <2>12
      DEF RefuseUnbalanced, books, LedgerInv, TypeOK, Prepared, Working, PastLocks, Answers
    <3>3. FundsReserved'
      BY <2>12, <3>1 DEF RefuseUnbalanced, books, LedgerInv, TypeOK, FundsReserved
    <3> QED BY <2>1, <2>12, <3>2, <3>3 DEF RefuseUnbalanced, books
  <2>13. CASE UNCHANGED vars
    BY <2>1, <2>13 DEF vars, books, sess, LedgerInv, Prepared, FundsReserved
  <2> QED
    BY <2>3, <2>4, <2>5, <2>6, <2>7, <2>8, <2>9, <2>10, <2>11, <2>12, <2>13
    DEF Next, Progress
<1> QED
  BY <1>1, <1>2, TypeCorrect, LocksHeld, PTL DEF Spec

\* No interleaving of posts overdraws an account or overflows its balance.
THEOREM NoOverdraft == Spec => []BalancesInRange
BY LedgerInvariant, PTL DEF LedgerInv

\* The books always balance: VerifyGlobalLedgerBalanced never finds a difference.
THEOREM BooksAlwaysBalance == Spec => []BooksBalanced
BY LedgerInvariant, PTL DEF LedgerInv

\* A funds check made under row locks is never stale when it is relied on.
THEOREM ChecksNeverStale == Spec => []FundsReserved
BY LedgerInvariant, PTL DEF LedgerInv

-----------------------------------------------------------------------------

\* Rows come with their header: the seed's ids stay, and every row of the journal
\* is of a transaction that is posted.
RowsHaveHeaders ==
    /\ SeedIds \subseteq headers
    /\ \A i \in 1..Len(journal) : journal[i].tx \in headers

WholeInv == PostedWhole /\ RowsHaveHeaders

\* A commit appends the whole of a transaction whose id nobody has posted.
LEMMA CommitPostsWhole ==
    ASSUME LedgerInv, WholeInv, NEW s \in Sessions, Commit(s)
    PROVE  WholeInv'
<1> DEFINE r == req[s]
           n == Len(journal)
           k == Len(Lines[r])
           At(id) == {i \in 1..n : journal[i].tx = id}
<1>1. /\ pc[s] = "committing" /\ r \in Requests
      /\ journal \in Seq(Row) /\ Lines[r] \in Seq(Row)
      /\ journal' = journal \o Lines[r] /\ headers' = headers \union {Id[r]}
  BY AccountsOfType DEF LedgerInv, TypeOK, Working, PastLocks, Commit
<1>2. Id[r] \notin headers /\ Id[r] \in TxIds \ SeedIds
  BY <1>1, RequestAssumption DEF LedgerInv, Prepared, WholeInv, RowsHaveHeaders
<1>3. /\ n \in Nat /\ k \in Nat /\ Len(journal') = n + k
      /\ \A i \in 1..n : journal'[i] = journal[i]
      /\ \A j \in 1..k : journal'[n + j] = Lines[r][j] /\ journal'[n + j].tx = Id[r]
  <2>1. n \in Nat /\ k \in Nat
    BY <1>1, LenProperties
  <2>2. /\ Len(journal') = n + k
        /\ \A i \in 1..n + k : journal'[i] = IF i <= n THEN journal[i] ELSE Lines[r][i - n]
    BY <1>1, ConcatProperties
  <2>3. \A j \in 1..k : Lines[r][j].tx = Id[r]
    BY <1>1, RequestAssumption
  <2> HIDE DEF n, k
  <2>4. \A j \in 1..k : n + j \in 1..n + k /\ ~ (n + j <= n) /\ (n + j) - n = j
    BY <2>1
  <2>5. \A i \in 1..n : i \in 1..n + k /\ i <= n
    BY <2>1
  <2> QED
    BY <2>1, <2>2, <2>3, <2>4, <2>5
<1> HIDE DEF n, k
<1>4. \A i \in 1..n + k : i \in 1..n \/ \E j \in 1..k : i = n + j
  <2> SUFFICES ASSUME NEW i \in 1..n + k, i \notin 1..n
               PROVE  i - n \in 1..k /\ i = n + (i - n)
    OBVIOUS
  <2> QED
    BY <1>3
<1>5. RowsHaveHeaders'
  <2>1. ASSUME NEW i \in 1..n + k PROVE journal'[i].tx \in headers'
    <3>1. CASE i \in 1..n
      BY <1>1, <1>3, <3>1 DEF WholeInv, RowsHaveHeaders, n
    <3>2. CASE \E j \in 1..k : i = n + j
      BY <1>1, <1>3, <3>2
    <3> QED BY <1>4, <3>1, <3>2
  <2> QED
    BY <1>1, <1>3, <2>1 DEF WholeInv, RowsHaveHeaders
<1>6. PostedWhole'
  <2> SUFFICES ASSUME NEW id \in TxIds \ SeedIds
               PROVE  LET at == {i \in 1..n + k : journal'[i].tx = id}
                      IN  IF id \in headers'
                          THEN \E q \in Requests, m \in 0..n + k :
                                  /\ Id[q] = id
                                  /\ at = (m + 1)..(m + Len(Lines[q]))
                                  /\ \A j \in 1..Len(Lines[q]) : journal'[m + j] = Lines[q][j]
                          ELSE at = {}
    BY <1>3 DEF PostedWhole
  <2> DEFINE at == {i \in 1..n + k : journal'[i].tx = id}
  <2>1. CASE id = Id[r]
    <3>1. At(id) = {}
      BY <1>2, <2>1 DEF WholeInv, RowsHaveHeaders, n
    <3>2. at = (n + 1)..(n + k)
      <4>1. ASSUME NEW i \in at PROVE i \in (n + 1)..(n + k)
        BY <1>3, <3>1, <4>1
      <4>2. ASSUME NEW i \in (n + 1)..(n + k) PROVE i \in at
        <5>1. i - n \in 1..k /\ i = n + (i - n) /\ i \in 1..n + k
          BY <1>3
        <5> QED
          BY <1>3, <2>1, <5>1
      <4> QED
        BY <4>1, <4>2
    <3>3. n \in 0..n + k
      BY <1>3
    <3> QED
      BY <1>1, <1>3, <2>1, <3>2, <3>3 DEF k
  <2>2. CASE id # Id[r]
    <3>1. at = At(id)
      <4>1. ASSUME NEW i \in at PROVE i \in At(id)
        <5>1. ~ \E j \in 1..k : i = n + j
          BY <1>3, <2>2
        <5>2. i \in 1..n
          BY <1>4, <5>1
        <5> QED BY <1>3, <5>2
      <4>2. ASSUME NEW i \in At(id) PROVE i \in at
        BY <1>3, <4>2
      <4> QED
        BY <4>1, <4>2
    <3>2. id \in headers' <=> id \in headers
      BY <1>1, <2>2
    <3>3. CASE id \notin headers
      BY <3>1, <3>2, <3>3 DEF WholeInv, PostedWhole, n
    <3>4. CASE id \in headers
      <4>1. PICK q \in Requests, m \in 0..n :
               /\ Id[q] = id
               /\ At(id) = (m + 1)..(m + Len(Lines[q]))
               /\ \A j \in 1..Len(Lines[q]) : journal[m + j] = Lines[q][j]
        BY <3>4 DEF WholeInv, PostedWhole, n
      <4>2. Len(Lines[q]) \in Nat
        BY AccountsOfType, LenProperties
      <4>3. m \in 0..n + k
        BY <1>3
      <4>4. ASSUME NEW j \in 1..Len(Lines[q])
            PROVE  journal'[m + j] = Lines[q][j]
        <5>1. m + j \in (m + 1)..(m + Len(Lines[q]))
          BY <4>2
        <5>2. m + j \in 1..n
          BY <4>1, <5>1
        <5> QED
          BY <1>3, <4>1, <5>2
      <4> QED
        BY <3>1, <3>2, <3>4, <4>1, <4>3, <4>4
    <3> QED
      BY <3>3, <3>4
  <2> QED
    BY <2>1, <2>2
<1> QED
  BY <1>5, <1>6 DEF WholeInv

\* A transaction is in the journal whole, in one run of rows, once, exactly when
\* its header is: whatever is retried, refused or cut short.
THEOREM PostedAlwaysWhole == Spec => []PostedWhole
<1>1. Init => WholeInv
  BY SeedAssumption DEF Init, Contract!Init, WholeInv, PostedWhole, RowsHaveHeaders
<1>2. LedgerInv /\ WholeInv /\ [Next]_vars => WholeInv'
  <2> SUFFICES ASSUME LedgerInv, WholeInv, [Next]_vars PROVE WholeInv'
    OBVIOUS
  <2>1. ASSUME journal' = journal, headers' = headers PROVE WholeInv'
    BY <2>1 DEF WholeInv, PostedWhole, RowsHaveHeaders
  <2>2. ASSUME NEW s \in Sessions, Commit(s) PROVE WholeInv'
    BY <2>2, CommitPostsWhole
  <2> QED
    BY <2>1, <2>2 DEF Next, Progress, vars, books, CreateAccount, LockAccount, CheckFunds,
       LocksTaken, FundsChecked, InsertTransaction, Abort, Begin, RefuseUnbalanced
<1> QED
  BY <1>1, <1>2, LedgerInvariant, PTL DEF Spec, WholeInv

\* The caller's answer is true for good: success and CONFLICT mean that the id is
\* posted.
THEOREM AnswersAlwaysTrue == Spec => []AnswersTrue
<1>1. Init => AnswersTrue
  BY DEF Init, AnswersTrue
<1>2. TypeOK /\ AnswersTrue /\ [Next]_vars => AnswersTrue'
  <2> SUFFICES ASSUME TypeOK, AnswersTrue, [Next]_vars PROVE AnswersTrue'
    OBVIOUS
  <2> USE DEF TypeOK, AnswersTrue, Working, PastLocks, Answers
  <2>1. ASSUME NEW s \in Sessions, NEW answer \in Answers, End(s, answer), req' = req,
               headers \subseteq headers',
               answer \in {"ok", "CONFLICT"} => Id[req[s]] \in headers'
        PROVE  AnswersTrue'
    BY <2>1 DEF End
  <2>2. ASSUME NEW s \in Sessions, NEW c \in Working \union {"UNBALANCED"},
               pc' = [pc EXCEPT ![s] = c], headers' = headers,
               \A t \in Sessions \ {s} : req'[t] = req[t]
        PROVE  AnswersTrue'
    BY <2>2
  <2>3. ASSUME pc' = pc, req' = req, headers' = headers PROVE AnswersTrue'
    BY <2>3
  <2>4. ASSUME NEW s \in Sessions, NEW a \in Accounts, CheckFunds(s, a) PROVE AnswersTrue'
    BY <2>1, <2>3, <2>4 DEF CheckFunds, books
  <2>5. ASSUME NEW s \in Sessions, LocksTaken(s) PROVE AnswersTrue'
    BY <2>1, <2>2, <2>5 DEF LocksTaken, books
  <2>6. ASSUME NEW s \in Sessions, InsertTransaction(s) PROVE AnswersTrue'
    BY <2>1, <2>2, <2>6 DEF InsertTransaction, books
  <2>7. ASSUME NEW s \in Sessions, Commit(s) PROVE AnswersTrue'
    <3>1. headers \subseteq headers' /\ Id[req[s]] \in headers' /\ req' = req
      BY <2>7 DEF Commit
    <3> QED BY <2>1, <2>7, <3>1 DEF Commit
  <2>8. ASSUME NEW s \in Sessions, FundsChecked(s) PROVE AnswersTrue'
    BY <2>2, <2>8 DEF FundsChecked, books
  <2>9. ASSUME NEW s \in Sessions, Abort(s) PROVE AnswersTrue'
    BY <2>1, <2>9 DEF Abort, books
  <2>10. ASSUME NEW s \in Sessions, NEW r \in Requests, Begin(s, r) \/ RefuseUnbalanced(s, r)
         PROVE  AnswersTrue'
    BY <2>2, <2>10 DEF Begin, RefuseUnbalanced, books
  <2> QED
    BY <2>3, <2>4, <2>5, <2>6, <2>7, <2>8, <2>9, <2>10
    DEF Next, Progress, CreateAccount, LockAccount, vars, books, sess
<1> QED
  BY <1>1, <1>2, TypeCorrect, PTL DEF Spec

-----------------------------------------------------------------------------

\* A lock belongs to an open transaction that asked for it, and a transaction that
\* still waits for rows has locked lower ids only.
LockOrder ==
    /\ \A a \in Accounts : lockHolder[a] # None =>
          pc[lockHolder[a]] \in Working /\ a \in found[lockHolder[a]]
    /\ \A s \in Sessions : pc[s] = "locking" =>
          \A h \in Held(s), u \in ToLock(s) : h < u

\* Row locks are taken in the order of the ids.
THEOREM LocksOrdered == Spec => []LockOrder
<1>1. Init => LockOrder
  BY SessionAssumption DEF Init, LockOrder
<1>2. TypeOK /\ LockOrder /\ [Next]_vars => LockOrder'
  <2> SUFFICES ASSUME TypeOK, LockOrder, [Next]_vars PROVE LockOrder'
    OBVIOUS
  <2> USE SessionAssumption, BooksAssumption
      DEF TypeOK, LockOrder, Held, ToLock, Working, PastLocks, Answers
  <2>1. ASSUME NEW s \in Sessions, NEW answer \in Answers, End(s, answer)
        PROVE  LockOrder'
    BY <2>1 DEF End, Release
  <2>2. ASSUME NEW s \in Sessions, NEW c \in PastLocks, pc[s] \in Working,
               pc' = [pc EXCEPT ![s] = c], lockHolder' = lockHolder, found' = found
        PROVE  LockOrder'
    BY <2>2
  <2>3. ASSUME pc' = pc, lockHolder' = lockHolder, found' = found PROVE LockOrder'
    BY <2>3
  <2>4. ASSUME NEW s \in Sessions, NEW a \in Accounts, LockAccount(s, a) PROVE LockOrder'
    <3>1. /\ pc[s] = "locking" /\ a \in found[s] /\ lockHolder[a] = None
          /\ \A u \in ToLock(s) : a <= u
          /\ lockHolder' = [lockHolder EXCEPT ![a] = s] /\ pc' = pc /\ found' = found
      BY <2>4 DEF LockAccount, First
    <3>2. \A b \in Accounts : lockHolder'[b] # None =>
             pc'[lockHolder'[b]] \in Working /\ b \in found'[lockHolder'[b]]
      BY <3>1
    <3>3. ASSUME NEW t \in Sessions, pc'[t] = "locking", NEW h \in Held(t)', NEW u \in ToLock(t)'
          PROVE  h < u
      <4>1. /\ u \in found[t] /\ lockHolder'[u] # t /\ u \in Accounts
            /\ h \in Accounts /\ lockHolder'[h] = t
        BY <3>1
      <4>2. u \in ToLock(t) /\ u \in Nat /\ h \in Nat
        BY <3>1, <4>1
      <4>3. CASE h = a
        <5>1. t = s
          BY <3>1, <4>1, <4>3
        <5>2. u # a
          BY <3>1, <4>1, <5>1
        <5> QED BY <3>1, <4>2, <4>3, <5>1, <5>2
      <4>4. CASE h # a
        <5>1. h \in Held(t)
          BY <3>1, <4>1, <4>4
        <5> QED BY <3>1, <3>3, <4>2, <5>1
      <4> QED BY <4>3, <4>4
    <3> QED BY <3>2, <3>3
  <2>5. ASSUME NEW s \in Sessions, NEW a \in Accounts, CheckFunds(s, a) PROVE LockOrder'
    BY <2>1, <2>3, <2>5 DEF CheckFunds
  <2>6. ASSUME NEW s \in Sessions, LocksTaken(s) PROVE LockOrder'
    BY <2>1, <2>2, <2>6 DEF LocksTaken
  <2>7. ASSUME NEW s \in Sessions, InsertTransaction(s) PROVE LockOrder'
    BY <2>1, <2>2, <2>7 DEF InsertTransaction
  <2>8. ASSUME NEW s \in Sessions, Commit(s) PROVE LockOrder'
    BY <2>1, <2>8 DEF Commit
  <2>9. ASSUME NEW s \in Sessions, FundsChecked(s) PROVE LockOrder'
    BY <2>2, <2>9 DEF FundsChecked
  <2>10. ASSUME NEW s \in Sessions, Abort(s) PROVE LockOrder'
    BY <2>1, <2>10 DEF Abort
  <2>11. ASSUME NEW s \in Sessions, NEW r \in Requests, Begin(s, r) \/ RefuseUnbalanced(s, r)
         PROVE  LockOrder'
    <3>1. pc[s] \in Answers /\ Held(s) = {} /\ lockHolder' = lockHolder
      BY <2>11 DEF Begin, RefuseUnbalanced
    <3>2. \A t \in Sessions \ {s} : pc'[t] = pc[t] /\ found'[t] = found[t]
      BY <2>11 DEF Begin, RefuseUnbalanced
    <3> QED BY <3>1, <3>2, ZenonT(30)
  <2> QED
    BY <2>3, <2>4, <2>5, <2>6, <2>7, <2>8, <2>9, <2>10, <2>11
    DEF Next, Progress, CreateAccount, vars, sess
<1> QED
  BY <1>1, <1>2, TypeCorrect, PTL DEF Spec

\* A finite set of numbers has an upper bound.
LEMMA FiniteBounded ==
    ASSUME NEW S \in SUBSET Nat, IsFiniteSet(S)
    PROVE  \E n \in Nat : \A a \in S : a <= n
<1>1. PICK m \in Nat : ExistsSurjection(1..m, S)
  BY FS_NatSurjection
<1>2. PICK f \in [1..m -> S] : \A a \in S : \E i \in 1..m : f[i] = a
  BY <1>1 DEF ExistsSurjection, Surjection
<1> DEFINE T == {k \in Nat : k <= m => \E n \in Nat : \A i \in 1..k : f[i] <= n}
<1>3. 0 \in T
  OBVIOUS
<1>4. ASSUME NEW k \in Nat, k \in T PROVE k + 1 \in T
  <2> SUFFICES ASSUME k + 1 <= m
               PROVE  \E n \in Nat : \A i \in 1..(k + 1) : f[i] <= n
    OBVIOUS
  <2>1. PICK n \in Nat : \A i \in 1..k : f[i] <= n
    BY <1>4
  <2>2. f[k + 1] \in Nat /\ \A i \in 1..k : f[i] \in Nat
    <3>1. k + 1 \in 1..m /\ \A i \in 1..k : i \in 1..m
      OBVIOUS
    <3>2. \A i \in 1..m : f[i] \in Nat
      OBVIOUS
    <3> QED BY <3>1, <3>2
  <2>3. n + f[k + 1] \in Nat
    BY <2>2
  <2>4. ASSUME NEW i \in 1..(k + 1) PROVE f[i] <= n + f[k + 1]
    <3>1. CASE i = k + 1
      BY <2>2, <3>1
    <3>2. CASE i \in 1..k
      BY <2>1, <2>2, <3>2
    <3> QED BY <3>1, <3>2
  <2> QED BY <2>3, <2>4
<1> HIDE DEF T
<1>5. m \in T
  BY <1>3, <1>4, NatSetInduction
<1>6. PICK n \in Nat : \A i \in 1..m : f[i] <= n
  BY <1>5 DEF T
<1> QED
  BY <1>2, <1>6

\* Sorted locking cannot deadlock: an account someone waits for is held by a
\* session that waits for a higher one, and there is a highest.
THEOREM NeverDeadlocked == Spec => []NoDeadlock
<1>1. TypeOK /\ LockOrder => NoDeadlock
  <2> SUFFICES ASSUME TypeOK, LockOrder,
                      NEW s0 \in Sessions, pc[s0] \in Working,
                      \A s \in Sessions : pc[s] \in Working => Blocked(s)
               PROVE  FALSE
    BY DEF NoDeadlock
  <2> DEFINE Awaits(s, a) == pc[s] = "locking" /\ First(ToLock(s), a) /\ lockHolder[a] # None
             Awaited == {a \in Accounts : \E s \in Sessions : Awaits(s, a)}
  <2>1. ASSUME NEW s \in Sessions, pc[s] \in Working
        PROVE  \E a \in Accounts : Awaits(s, a)
    <3>1. \A t \in Sessions : pc[t] # "committing"
      BY DEF Blocked, Working, PastLocks
    <3> QED BY <2>1, <3>1 DEF Blocked, InsertBlocked
  <2>2. Awaited # {}
    BY <2>1
  <2>3. ASSUME NEW a \in Awaited PROVE \E b \in Awaited : a < b
    <3>1. PICK s \in Sessions : Awaits(s, a)
      OBVIOUS
    <3> DEFINE t == lockHolder[a]
    <3>2. a \in Accounts /\ t \in Sessions /\ pc[t] \in Working /\ a \in Held(t)
      BY <3>1 DEF TypeOK, LockOrder, Held
    <3>3. PICK b \in Accounts : Awaits(t, b)
      BY <2>1, <3>2
    <3>4. b \in ToLock(t) /\ pc[t] = "locking"
      BY <3>3 DEF First
    <3>5. a < b
      BY <3>2, <3>4 DEF LockOrder
    <3> QED BY <3>2, <3>3, <3>5
  <2> HIDE DEF Awaits
  <2>4. Awaited \subseteq Nat
    BY BooksAssumption
  <2> HIDE DEF Awaited
  <2> DEFINE T == {k \in Nat : \E a \in Awaited : k <= a}
  <2>5. 0 \in T
    <3>1. PICK a \in Awaited : TRUE
      BY <2>2
    <3>2. 0 <= a
      BY <2>4
    <3> QED BY <3>2
  <2>6. ASSUME NEW k \in Nat, k \in T PROVE k + 1 \in T
    <3>1. PICK a \in Awaited : k <= a
      BY <2>6
    <3>2. PICK b \in Awaited : a < b
      BY <2>3
    <3> QED BY <2>4, <3>1, <3>2
  <2>7. PICK n \in Nat : \A a \in Accounts : a <= n
    BY FiniteBounded, SessionAssumption, BooksAssumption
  <2> HIDE DEF T
  <2>8. n + 1 \in T
    BY <2>5, <2>6, NatSetInduction
  <2> QED
    BY <2>4, <2>7, <2>8, BooksAssumption DEF T, Awaited
<1> QED
  BY <1>1, TypeCorrect, LocksOrdered, PTL

-----------------------------------------------------------------------------

\* The contract's copies of the journal arithmetic are the ones used here.
LEMMA SameBooks ==
    ASSUME NEW r
    PROVE  /\ Contract!ValidateBalanced(Lines[r]) <=> ValidateBalanced(Lines[r])
           /\ Contract!AccountsOf(r) = AccountsOf(r)
           /\ \A a : Contract!Projected(a, journal, r) = Projected(a, journal, r)
<1>1. \A a, rows : Contract!Effects(a, rows) = Effects(a, rows)
  BY DEF Contract!Effects, Effects, Contract!Effect, Effect, Contract!Raises, Raises,
     Contract!IsDebitNormal, IsDebitNormal
<1>2. \A v : Contract!Sum(v) = Sum(v)
  BY DEF Contract!Sum, Sum, Contract!Running, Running
<1>3. \A side, rows : Contract!AmountsOn(side, rows) = AmountsOn(side, rows)
  BY DEF Contract!AmountsOn, AmountsOn
<1> QED
  BY <1>1, <1>2, <1>3
  DEF Contract!ValidateBalanced, ValidateBalanced, Contract!SumBySide, SumBySide,
      Contract!AccountsOf, AccountsOf, Contract!UniqueAccountIDs, UniqueAccountIDs,
      Contract!Projected, Projected, Contract!ApplyEntries, ApplyEntries,
      Contract!BalanceFromEntries, BalanceFromEntries

\* The row-locking repository implements the atomic ledger: a commit is the
\* contract's Post, whose guards still hold although they were evaluated
\* statements ago; every other step leaves the tables alone or adds an account.
THEOREM Refinement == Spec => ImplementsContract
<1>1. Init => Contract!Init
  BY DEF Init
<1>2. LedgerInv /\ [Next]_vars => [Contract!Next]_(Contract!books)
  <2> SUFFICES ASSUME LedgerInv, [Next]_vars, ~UNCHANGED books
               PROVE  Contract!Next
    BY DEF Contract!books, books
  <2>1. ASSUME NEW a \in Accounts, CreateAccount(a) PROVE Contract!Next
    BY <2>1 DEF CreateAccount, Contract!Next, Contract!CreateAccount
  <2>2. ASSUME NEW s \in Sessions, Commit(s) PROVE Contract!Next
    <3>1. pc[s] = "committing" /\ req[s] \in Requests
      BY <2>2 DEF Commit, LedgerInv, TypeOK, Working, PastLocks
    <3>2. ValidateBalanced(Lines[req[s]]) /\ Id[req[s]] \notin headers
      BY <3>1 DEF LedgerInv, Prepared, Working, PastLocks
    <3>3. /\ AccountsOf(req[s]) \subseteq accounts
          /\ \A a \in AccountsOf(req[s]) : Projected(a, journal, req[s]) \in 0..MaxHalalas
      BY <3>1 DEF LedgerInv, TypeOK, LockDiscipline, FundsReserved, PastLocks
    <3>4. Contract!Post(req[s])
      BY <2>2, <3>2, <3>3, SameBooks DEF Commit, Contract!Post, Contract!CanPost
    <3> QED BY <3>1, <3>4 DEF Contract!Next
  <2> QED
    BY <2>1, <2>2 DEF Next, Progress, vars, books, LockAccount, CheckFunds, LocksTaken,
       FundsChecked, InsertTransaction, Abort, Begin, RefuseUnbalanced
<1> QED
  BY <1>1, <1>2, LedgerInvariant, PTL DEF Spec, ImplementsContract, Contract!Spec
=============================================================================
