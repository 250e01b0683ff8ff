-------------------------- MODULE LedgerContract --------------------------
(***************************************************************************)
(* What the ledger promises its callers (internal/ledger/ports): a journal *)
(* transaction is posted in one step, only when it is new, balanced, on    *)
(* accounts that exist, and leaves none of them below zero.  Ledger shows  *)
(* that the row-locking PostgreSQL repository implements this.             *)
(***************************************************************************)
EXTENDS LedgerBooks

VARIABLES
    accounts,      \* ledger_accounts
    headers,       \* ledger_transactions
    journal        \* ledger_entries, in commit order

books == <<accounts, headers, journal>>

-----------------------------------------------------------------------------

Init ==
    /\ accounts = SeedAccounts
    /\ headers = SeedIds
    /\ journal = SeedRows

CreateAccount(a) ==
    /\ a \notin accounts
    /\ accounts' = accounts \union {a}
    /\ UNCHANGED <<headers, journal>>

\* The conditions under which PostTransactionInTx posts request r.
CanPost(r) ==
    /\ ValidateBalanced(Lines[r])
    /\ AccountsOf(r) \subseteq accounts
    /\ Id[r] \notin headers
    /\ \A a \in AccountsOf(r) : Projected(a, journal, r) \in 0..MaxHalalas

Post(r) ==
    /\ CanPost(r)
    /\ headers' = headers \union {Id[r]}
    /\ journal' = journal \o Lines[r]
    /\ UNCHANGED accounts

Next ==
    \/ \E a \in Accounts : CreateAccount(a)
    \/ \E r \in Requests : Post(r)

Spec == Init /\ [][Next]_books
=============================================================================
