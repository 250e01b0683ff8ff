---------------------------- MODULE LedgerBooks ----------------------------
(***************************************************************************)
(* The arithmetic of the double-entry journal (internal/ledger/domain): a  *)
(* journal is a sequence of entry rows and every balance is derived from   *)
(* it, never stored.  Amounts are halalas.                                 *)
(***************************************************************************)
EXTENDS Integers, Sequences

CONSTANTS
    Accounts,      \* account ids; an id is its rank in the order sort.Strings gives
    DebitNormal,   \* the accounts of type ASSET or EXPENSE
    TxIds,         \* ids of journal transactions (ledger_transactions.id)
    MaxHalalas,    \* the largest amount Money can hold (2^63 - 1 in the code)
    Requests,      \* posting requests; two of them may carry the same id (a retry)
    Id,            \* Id[r] : the transaction id of request r
    Lines,         \* Lines[r] : its entry rows
    SeedAccounts,  \* the accounts, transaction ids and rows the migrations insert
    SeedIds,
    SeedRows

ASSUME BooksAssumption ==
    /\ Accounts \subseteq Nat
    /\ DebitNormal \subseteq Accounts
    /\ MaxHalalas \in Nat

Sides == {"DEBIT", "CREDIT"}

\* One row of ledger_entries; NewEntry refuses an amount that is not positive.
Row == [tx : TxIds, account : Accounts, side : Sides, amount : 1..MaxHalalas]

\* IsDebitNormal: a debit raises the balance of an asset or expense account,
\* a credit that of any other account.
IsDebitNormal(a) == a \in DebitNormal

Raises(a, side) == IsDebitNormal(a) <=> side = "DEBIT"

\* What one row does to the balance of account a; rows of other accounts are
\* skipped by the loops of BalanceFromEntries and ApplyEntries.
Effect(a, row) ==
    IF row.account # a THEN 0
    ELSE IF Raises(a, row.side) THEN row.amount ELSE -row.amount

\* The running total of a loop over a sequence of integers, and its last value.
Running(v) ==
    LET total[i \in 0..Len(v)] == IF i = 0 THEN 0 ELSE total[i - 1] + v[i]
    IN  total

Sum(v) == Running(v)[Len(v)]

Effects(a, rows) == [i \in 1..Len(rows) |-> Effect(a, rows[i])]

BalanceFromEntries(a, rows) == Sum(Effects(a, rows))

ApplyEntries(a, starting, rows) == starting + Sum(Effects(a, rows))

\* sumBySide and validateBalanced: total debits equal total credits.
AmountsOn(side, rows) ==
    [i \in 1..Len(rows) |-> IF rows[i].side = side THEN rows[i].amount ELSE 0]

SumBySide(side, rows) == Sum(AmountsOn(side, rows))

ValidateBalanced(rows) == SumBySide("DEBIT", rows) = SumBySide("CREDIT", rows)

\* uniqueAccountIDs: the accounts a transaction's rows mention.
UniqueAccountIDs(rows) == {rows[i].account : i \in 1..Len(rows)}

AccountsOf(r) == UniqueAccountIDs(Lines[r])

\* The balance validateSufficientFunds projects for account a, given the
\* committed rows: its derived balance with the request's rows applied.
Projected(a, rows, r) == ApplyEntries(a, BalanceFromEntries(a, rows), Lines[r])

ASSUME RequestAssumption ==
    /\ Id \in [Requests -> TxIds]
    /\ Lines \in [Requests -> Seq(Row)]
    /\ \A r \in Requests : \A i \in 1..Len(Lines[r]) : Lines[r][i].tx = Id[r]

ASSUME SeedAssumption ==
    /\ SeedAccounts \subseteq Accounts
    /\ SeedIds \subseteq TxIds
    /\ SeedRows \in Seq(Row)
    /\ \A i \in 1..Len(SeedRows) : SeedRows[i].tx \in SeedIds
    /\ ValidateBalanced(SeedRows)
    /\ \A a \in Accounts : BalanceFromEntries(a, SeedRows) \in 0..MaxHalalas
=============================================================================
