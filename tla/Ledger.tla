------------------------------ MODULE Ledger ------------------------------
(***************************************************************************)
(* The PostgreSQL ledger repository (internal/ledger/adapters/postgres):   *)
(* concurrent sessions that post journal transactions.  A session locks    *)
(* the account rows one at a time in sorted order, reads each balance      *)
(* under its lock, inserts the header and the rows, and commits.  Other    *)
(* sessions see its rows only after the commit (READ COMMITTED).           *)
(***************************************************************************)
EXTENDS LedgerBooks, FiniteSets

CONSTANTS
    Sessions,      \* database sessions, one per posting goroutine
    None           \* "nobody holds the lock" and "no request"

ASSUME SessionAssumption ==
    /\ None \notin Sessions /\ None \notin Requests
    /\ IsFiniteSet(Accounts)

VARIABLES
    accounts, headers, journal,  \* the committed tables
    lockHolder,    \* lockHolder[a] : the session with FOR UPDATE on account a
    pc,            \* pc[s] : the statement session s is at, or its last answer
    req,           \* req[s] : the request it posts
    found,         \* found[s] : the account rows its locking query saw
    checked        \* checked[s] : the accounts whose funds it has validated

books == <<accounts, headers, journal>>
sess == <<lockHolder, pc, req, found, checked>>
vars == <<books, sess>>

\* The same tables, seen as the atomic ledger of the contract.
Contract == INSTANCE LedgerContract

PastLocks == {"checking", "inserting", "committing"}
Working == {"locking"} \union PastLocks
Answers == {"none", "ok", "error", "UNBALANCED", "VALIDATION",
            "INSUFFICIENT_FUNDS", "INVALID_MONEY", "CONFLICT"}

Held(s) == {a \in Accounts : lockHolder[a] = s}
ToLock(s) == found[s] \ Held(s)
ToCheck(s) == AccountsOf(req[s]) \ checked[s]

\* Mutant of First: the ids are locked in the order the rows mention them.
FirstUnsorted(S, a) == a \in S

\* lockAccounts sorts the ids and the query says ORDER BY id, so the rows are
\* locked from the lowest id up; validateSufficientFunds visits them in the
\* same order.
First(S, a) == a \in S /\ \A b \in S : a <= b

\* Mutant of Release: the rollback is forgotten and the row locks stay.
ReleaseNothing(s) == UNCHANGED lockHolder

\* The deferred Rollback, or the end of the connection: every lock goes and
\* nothing that was inserted becomes visible.
Release(s) == lockHolder' = [a \in Accounts |->
                                IF lockHolder[a] = s THEN None ELSE lockHolder[a]]

End(s, answer) ==
    /\ pc' = [pc EXCEPT ![s] = answer]
    /\ Release(s)
    /\ found' = [found EXCEPT ![s] = {}]
    /\ checked' = [checked EXCEPT ![s] = {}]

-----------------------------------------------------------------------------

Init ==
    /\ Contract!Init
    /\ lockHolder = [a \in Accounts |-> None]
    /\ pc = [s \in Sessions |-> "none"]
    /\ req = [s \in Sessions |-> None]
    /\ found = [s \in Sessions |-> {}]
    /\ checked = [s \in Sessions |-> {}]

CreateAccount(a) ==
    /\ a \notin accounts
    /\ accounts' = accounts \union {a}
    /\ UNCHANGED <<headers, journal, sess>>

\* NewTransaction, Poster.Post and PostTransactionInTx refuse a journal whose
\* debits and credits differ before any statement runs.
RefuseUnbalanced(s, r) ==
    /\ pc[s] \in Answers
    /\ ~ValidateBalanced(Lines[r])
    /\ req' = [req EXCEPT ![s] = r]
    /\ pc' = [pc EXCEPT ![s] = "UNBALANCED"]
    /\ UNCHANGED <<books, lockHolder, found, checked>>

\* Mutant of Begin: the balance of debits and credits is not validated.
BeginUnvalidated(s, r) ==
    /\ pc[s] \in Answers
    /\ req' = [req EXCEPT ![s] = r]
    /\ found' = [found EXCEPT ![s] = AccountsOf(r) \intersect accounts]
    /\ pc' = [pc EXCEPT ![s] = "locking"]
    /\ UNCHANGED <<books, lockHolder, checked>>

\* The transaction begins; its locking query sees the accounts that exist now.
Begin(s, r) ==
    /\ pc[s] \in Answers
    /\ ValidateBalanced(Lines[r])
    /\ req' = [req EXCEPT ![s] = r]
    /\ found' = [found EXCEPT ![s] = AccountsOf(r) \intersect accounts]
    /\ pc' = [pc EXCEPT ![s] = "locking"]
    /\ UNCHANGED <<books, lockHolder, checked>>

LockAccount(s, a) ==
    /\ pc[s] = "locking"
    /\ First(ToLock(s), a)
    /\ lockHolder[a] = None
    /\ lockHolder' = [lockHolder EXCEPT ![a] = s]
    /\ UNCHANGED <<books, pc, req, found, checked>>

\* Mutant of LocksTaken: the query lacks FOR UPDATE, nothing is waited for.
LocksNotTaken(s) ==
    /\ pc[s] = "locking"
    /\ found[s] = AccountsOf(req[s])
    /\ pc' = [pc EXCEPT ![s] = "checking"]
    /\ UNCHANGED <<books, lockHolder, req, found, checked>>

\* Every row the query saw is locked: a missing account ends the transaction.
LocksTaken(s) ==
    /\ pc[s] = "locking"
    /\ ToLock(s) = {}
    /\ IF found[s] = AccountsOf(req[s])
       THEN /\ pc' = [pc EXCEPT ![s] = "checking"]
            /\ UNCHANGED <<lockHolder, found, checked>>
       ELSE End(s, "VALIDATION")
    /\ UNCHANGED <<books, req>>

\* One round of the loop of validateSufficientFunds: read the committed rows
\* of account a, project its balance, refuse if it is negative or overflows.
CheckFunds(s, a) ==
    /\ pc[s] = "checking"
    /\ First(ToCheck(s), a)
    /\ CASE Projected(a, journal, req[s]) < 0 -> End(s, "INSUFFICIENT_FUNDS")
         [] Projected(a, journal, req[s]) > MaxHalalas -> End(s, "INVALID_MONEY")
         [] OTHER -> /\ checked' = [checked EXCEPT ![s] = @ \union {a}]
                     /\ UNCHANGED <<lockHolder, pc, found>>
    /\ UNCHANGED <<books, req>>

FundsChecked(s) ==
    /\ pc[s] = "checking"
    /\ ToCheck(s) = {}
    /\ pc' = [pc EXCEPT ![s] = "inserting"]
    /\ UNCHANGED <<books, lockHolder, req, found, checked>>

\* The primary key of ledger_transactions: an insert waits for another
\* session's uncommitted row with the same id and fails on a committed one.
InsertBlocked(s) ==
    \E t \in Sessions \ {s} : pc[t] = "committing" /\ Id[req[t]] = Id[req[s]]

\* Mutants of InsertTransaction: no unique id, or an id is refused because of a
\* row that is not committed yet.
InsertAnyId(s) ==
    /\ pc[s] = "inserting"
    /\ pc' = [pc EXCEPT ![s] = "committing"]
    /\ UNCHANGED <<books, lockHolder, req, found, checked>>

InsertNoWait(s) ==
    /\ pc[s] = "inserting"
    /\ IF InsertBlocked(s) \/ Id[req[s]] \in headers
       THEN End(s, "CONFLICT")
       ELSE /\ pc' = [pc EXCEPT ![s] = "committing"]
            /\ UNCHANGED <<lockHolder, found, checked>>
    /\ UNCHANGED <<books, req>>

InsertTransaction(s) ==
    /\ pc[s] = "inserting"
    /\ ~InsertBlocked(s)
    /\ IF Id[req[s]] \in headers
       THEN End(s, "CONFLICT")
       ELSE /\ pc' = [pc EXCEPT ![s] = "committing"]
            /\ UNCHANGED <<lockHolder, found, checked>>
    /\ UNCHANGED <<books, req>>

\* The commit makes header and rows visible together.  The caller may be told
\* "error" although the server committed (the connection broke on the answer).
Commit(s) ==
    /\ pc[s] = "committing"
    /\ headers' = headers \union {Id[req[s]]}
    /\ journal' = journal \o Lines[req[s]]
    /\ \E answer \in {"ok", "error"} : End(s, answer)
    /\ UNCHANGED <<accounts, req>>

\* A statement fails, the request's context is cancelled or the process dies.
Abort(s) ==
    /\ pc[s] \in Working
    /\ End(s, "error")
    /\ UNCHANGED <<books, req>>

Progress(s) ==
    \/ \E a \in Accounts : LockAccount(s, a) \/ CheckFunds(s, a)
    \/ LocksTaken(s) \/ FundsChecked(s) \/ InsertTransaction(s) \/ Commit(s)

Next ==
    \/ \E a \in Accounts : CreateAccount(a)
    \/ \E s \in Sessions : Progress(s) \/ Abort(s)
    \/ \E s \in Sessions, r \in Requests : Begin(s, r) \/ RefuseUnbalanced(s, r)

Spec == Init /\ [][Next]_vars

\* Every statement of an open transaction returns, and PostgreSQL wakes the
\* waiters for a row or for a duplicate id in turn, so none is overtaken for ever.
FairSpec ==
    /\ Spec
    /\ \A s \in Sessions : /\ WF_vars(Progress(s))
                           /\ SF_vars(\E a \in Accounts : LockAccount(s, a))
                           /\ SF_vars(InsertTransaction(s))

-----------------------------------------------------------------------------

\* Every variable has its type; only existing accounts are locked or seen.
TypeOK ==
    /\ accounts \subseteq Accounts
    /\ headers \subseteq TxIds
    /\ journal \in Seq(Row)
    /\ lockHolder \in [Accounts -> Sessions \union {None}]
    /\ pc \in [Sessions -> Working \union Answers]
    /\ req \in [Sessions -> Requests \union {None}]
    /\ found \in [Sessions -> SUBSET accounts]
    /\ checked \in [Sessions -> SUBSET Accounts]
    /\ \A s \in Sessions : pc[s] \in Working => req[s] \in Requests

\* "rejects negative balance" (ledger/ports): no interleaving of concurrent
\* posts leaves an account below zero or beyond what Money can hold.
BalancesInRange ==
    \A a \in Accounts : BalanceFromEntries(a, journal) \in 0..MaxHalalas

\* VerifyGlobalLedgerBalanced always succeeds: total debits equal total credits.
BooksBalanced == ValidateBalanced(journal)

\* The balance read in validateSufficientFunds is still good when it is used:
\* until its transaction ends, a session's rows can be applied to every account
\* it has checked, whatever other sessions commit meanwhile.
FundsReserved ==
    \A s \in Sessions : \A a \in checked[s] :
        Projected(a, journal, req[s]) \in 0..MaxHalalas

\* Whatever a session relies on, it holds the row lock of: it has locked every
\* account of its transaction before it reads a balance, has checked them all
\* before it inserts, and keeps the locks until its transaction ends.
LockDiscipline ==
    \A s \in Sessions :
        IF pc[s] \in PastLocks
        THEN /\ found[s] = AccountsOf(req[s])
             /\ AccountsOf(req[s]) \subseteq Held(s)
             /\ checked[s] \subseteq AccountsOf(req[s])
             /\ pc[s] # "checking" => checked[s] = AccountsOf(req[s])
        ELSE checked[s] = {}

\* A transaction's rows are in the journal together, in order and once, exactly
\* when its header is: no retry or crash leaves half of it or posts it twice.
PostedWhole ==
    \A id \in TxIds \ SeedIds :
        LET at == {i \in 1..Len(journal) : journal[i].tx = id}
        IN  IF id \in headers
            THEN \E r \in Requests, n \in 0..Len(journal) :
                    /\ Id[r] = id
                    /\ at = (n + 1)..(n + Len(Lines[r]))
                    /\ \A j \in 1..Len(Lines[r]) : journal[n + j] = Lines[r][j]
            ELSE at = {}

\* A waiting session: its next row lock is taken, or its header's id is.
Blocked(s) ==
    \/ pc[s] = "locking" /\ \E a \in Accounts : First(ToLock(s), a) /\ lockHolder[a] # None
    \/ pc[s] = "inserting" /\ InsertBlocked(s)

\* "IDs are locked in sorted order to prevent deadlocks": open transactions
\* never all wait for one another.
NoDeadlock ==
    (\E s \in Sessions : pc[s] \in Working) =>
        \E s \in Sessions : pc[s] \in Working /\ ~Blocked(s)

\* The caller's answer is true: success or CONFLICT mean the id is posted.
AnswersTrue ==
    \A s \in Sessions : pc[s] \in {"ok", "CONFLICT"} => Id[req[s]] \in headers

\* The locking repository implements the atomic ledger: every commit is one
\* contract post whose funds check still holds at that moment.
ImplementsContract == Contract!Spec

\* A transaction that has begun ends, however many others contend for its rows.
EveryPostEnds == \A s \in Sessions : pc[s] \in Working ~> pc[s] \in Answers
=============================================================================
