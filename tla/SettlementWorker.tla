-------------------------- MODULE SettlementWorker --------------------------
(***************************************************************************)
(* The second half of the transfer saga: SettlementProcessor.ProcessOnce   *)
(* (internal/settlement/app) run by the worker processes, over the tables  *)
(* transfer_sagas and settlements and the ledger.  Every statement that    *)
(* commits by itself is a step; the ledger is LedgerContract, which the    *)
(* PostgreSQL repository implements.  The SARIE rail is outside: all that  *)
(* is known of it is whether it accepted a payment.                        *)
(***************************************************************************)
EXTENDS Integers, Sequences, FiniteSets

CONSTANTS
    Accounts, DebitNormal, MaxHalalas,         \* as in LedgerBooks
    SeedAccounts, SeedIds, SeedRows,
    Transfers,         \* transfers, as the rank of their created_at
    From, To, Amount,  \* the command of each transfer
    Workers,
    BatchLimit,        \* ProcessOnce claims at most this many rows (20)
    MaxFaults,         \* bound: database errors and worker crashes in a behaviour
    ConnBusy,          \* does the driver refuse a statement while rows are open?
    None

ASSUME SettlementAssumption ==
    /\ Transfers \subseteq Nat
    /\ From \in [Transfers -> Accounts \ DebitNormal]   \* both accounts of a
    /\ To \in [Transfers -> Accounts \ DebitNormal]     \* transfer are liabilities
    /\ Amount \in [Transfers -> 1..MaxHalalas]
    /\ \A t \in Transfers : From[t] # To[t]
    /\ BatchLimit \in Nat \ {0} /\ MaxFaults \in Nat /\ ConnBusy \in BOOLEAN
    /\ IsFiniteSet(Workers)
    /\ None \notin Workers \union {"POSTED", "SETTLING", "COMPENSATING", "COMPLETED",
                                  "COMPENSATED", "PENDING", "SETTLED", "FAILED"}

VARIABLES
    accounts, headers, journal,  \* the ledger's tables
    saga,      \* saga[t] : transfer_sagas.state, None before the transfer commits
    stl,       \* stl[t] : settlements.status
    attempts,  \* attempts[t] : settlements.attempts
    rowLock,   \* rowLock[t] : the worker whose claim holds the settlement row
    pc,        \* pc[w] : where worker w is in ProcessOnce
    batch,     \* batch[w] : claimed settlements it has not finished
    paid,      \* paid[t] : payments the rail has accepted for t
    faults

books == <<accounts, headers, journal>>
rows == <<saga, stl, attempts>>
worker == <<rowLock, pc, batch>>
vars == <<books, rows, worker, paid, faults>>

\* The journal transaction of a transfer, and the one compensate builds: its
\* id is the transfer's with "-comp" appended, its lines the reverse.
TransferTx(t) == <<"transfer", t>>
CompTx(t) == <<"comp", t>>
JournalIds == {"transfer", "comp"} \X Transfers

\* No transfer has the id of the opening balances.
ASSUME SeedIdsAssumption == SeedIds \intersect JournalIds = {}

Move(id, from, to, amount) ==
    << [tx |-> id, account |-> from, side |-> "DEBIT", amount |-> amount],
       [tx |-> id, account |-> to, side |-> "CREDIT", amount |-> amount] >>

\* Mutant of JournalLines: the compensation repeats the transfer.
JournalLinesRepeated ==
    [id \in JournalIds |-> Move(id, From[id[2]], To[id[2]], Amount[id[2]])]

JournalLines ==
    [id \in JournalIds |->
        LET t == id[2]
        IN  IF id = TransferTx(t) THEN Move(id, From[t], To[t], Amount[t])
                                  ELSE Move(id, To[t], From[t], Amount[t])]

Ledger == INSTANCE LedgerContract
          WITH TxIds <- SeedIds \union JournalIds, Requests <- JournalIds,
               Id <- [id \in JournalIds |-> id], Lines <- JournalLines

\* The ledger's accounts and the opening balances are as it assumes them.
ASSUME LedgerAssumption == Ledger!BooksAssumption /\ Ledger!SeedAssumption

Reversed(t) == CompTx(t) \in headers

Idle == "idle"
\* ORDER BY created_at: a worker takes its claimed rows oldest first.
Current(w, t) == t \in batch[w] /\ \A u \in batch[w] : t <= u

Goto(w, label) == pc' = [pc EXCEPT ![w] = label]

\* A database error, or the worker dies.
Fault == faults < MaxFaults /\ faults' = faults + 1
NoFault == UNCHANGED faults

\* UpdateSagaState: an unconditional update whose error is logged or ignored.
UpdateSaga(t, state) ==
    \/ NoFault /\ saga' = [saga EXCEPT ![t] = state]
    \/ Fault /\ UNCHANGED saga

\* UpdateSettlementStatus: also unconditional; it waits for a claim's row lock.
UpdateSettlement(t, status) ==
    /\ rowLock[t] = None
    /\ stl' = [stl EXCEPT ![t] = status]

\* The end of a round of ProcessOnce's loop.
NextItem(w, t) ==
    /\ batch' = [batch EXCEPT ![w] = @ \ {t}]
    /\ Goto(w, IF batch[w] = {t} THEN Idle ELSE "settling")

\* Mutant of Drop: the rollback of an open claim is forgotten.
DropLocked(w) ==
    /\ batch' = [batch EXCEPT ![w] = {}]
    /\ UNCHANGED rowLock
    /\ Goto(w, Idle)

\* ProcessOnce returns early or the process ends: the rest of the batch is
\* forgotten, and a claim that was open is rolled back.
Drop(w) ==
    /\ batch' = [batch EXCEPT ![w] = {}]
    /\ rowLock' = [t \in Transfers |-> IF rowLock[t] = w THEN None ELSE rowLock[t]]
    /\ Goto(w, Idle)

-----------------------------------------------------------------------------

Init ==
    /\ Ledger!Init
    /\ saga = [t \in Transfers |-> None]
    /\ stl = [t \in Transfers |-> None]
    /\ attempts = [t \in Transfers |-> 0]
    /\ rowLock = [t \in Transfers |-> None]
    /\ pc = [w \in Workers |-> Idle]
    /\ batch = [w \in Workers |-> {}]
    /\ paid = [t \in Transfers |-> 0]
    /\ faults = 0

\* Coordinator.PostTransfer in the api: saga row, journal, settlement row and
\* the saga's move to POSTED commit together.
PostTransfer(t) ==
    /\ saga[t] = None
    /\ Ledger!Post(TransferTx(t))
    /\ saga' = [saga EXCEPT ![t] = "POSTED"]
    /\ stl' = [stl EXCEPT ![t] = "PENDING"]
    /\ UNCHANGED <<attempts, worker, paid, faults>>

\* ClaimPendingSettlements: FOR UPDATE SKIP LOCKED takes the oldest pending rows
\* nobody has locked; the commit counts the attempt and lets go of the rows with
\* their status still PENDING.
Claim(w) ==
    /\ pc[w] = Idle
    /\ LET free == {t \in Transfers : stl[t] = "PENDING" /\ rowLock[t] = None}
           mine == {t \in free : Cardinality({u \in free : u < t}) < BatchLimit}
       IN  /\ mine # {}
           /\ batch' = [batch EXCEPT ![w] = mine]
           /\ rowLock' = [t \in Transfers |-> IF t \in mine THEN w ELSE rowLock[t]]
    /\ Goto(w, "claimed")
    /\ UNCHANGED <<books, rows, paid, faults>>

\* The attempts are counted row by row on the claim's own connection, with its
\* result rows still open.  A driver that refuses this fails the claim, which is
\* rolled back.
ClaimCommit(w) ==
    /\ pc[w] = "claimed"
    /\ IF ConnBusy
       THEN Drop(w) /\ UNCHANGED attempts
       ELSE /\ rowLock' = [t \in Transfers |-> IF rowLock[t] = w THEN None ELSE rowLock[t]]
            /\ attempts' = [t \in Transfers |->
                               attempts[t] + (IF t \in batch[w] THEN 1 ELSE 0)]
            /\ Goto(w, "settling")
            /\ UNCHANGED batch
    /\ UNCHANGED <<books, saga, stl, paid, faults>>

MarkSettling(w, t) ==
    /\ pc[w] = "settling" /\ Current(w, t)
    /\ UpdateSaga(t, "SETTLING")
    /\ Goto(w, "calling")
    /\ UNCHANGED <<books, stl, attempts, rowLock, batch, paid>>

\* Mutant of SarieSettle: result.Success is not looked at.
SarieSettleUnread(w, t) ==
    /\ pc[w] = "calling" /\ Current(w, t)
    /\ paid' \in {paid, [paid EXCEPT ![t] = @ + 1]}
    /\ Goto(w, "settled")
    /\ UNCHANGED <<books, rows, rowLock, batch, faults>>

\* sarie.Settle: the rail takes the payment or rejects it.
SarieSettle(w, t) ==
    /\ pc[w] = "calling" /\ Current(w, t)
    /\ \/ paid' = [paid EXCEPT ![t] = @ + 1] /\ Goto(w, "settled")
       \/ UNCHANGED paid /\ Goto(w, "reversing")
    /\ UNCHANGED <<books, rows, rowLock, batch, faults>>

MarkSettled(w, t) ==
    /\ pc[w] = "settled" /\ Current(w, t)
    /\ \/ NoFault /\ UpdateSettlement(t, "SETTLED") /\ Goto(w, "completing")
          /\ UNCHANGED <<rowLock, batch>>
       \/ Fault /\ Drop(w) /\ UNCHANGED stl
    /\ UNCHANGED <<books, saga, attempts, paid>>

\* Mutants of MarkCompleted: the saga's last update is missing, or the branch
\* does not end with continue.
MarkCompletedSkipped(w, t) ==
    /\ pc[w] = "completing" /\ Current(w, t)
    /\ NextItem(w, t)
    /\ UNCHANGED <<books, rows, rowLock, paid, faults>>

MarkCompletedFallsThrough(w, t) ==
    /\ pc[w] = "completing" /\ Current(w, t)
    /\ UpdateSaga(t, "COMPLETED")
    /\ Goto(w, "reversing")
    /\ UNCHANGED <<books, stl, attempts, rowLock, batch, paid>>

MarkCompleted(w, t) ==
    /\ pc[w] = "completing" /\ Current(w, t)
    /\ UpdateSaga(t, "COMPLETED")
    /\ NextItem(w, t)
    /\ UNCHANGED <<books, stl, attempts, rowLock, paid>>

\* Mutant of Compensate: the journal is built and not posted.
CompensateUnposted(w, t) ==
    /\ pc[w] = "reversing" /\ Current(w, t)
    /\ UpdateSaga(t, "COMPENSATING")
    /\ Goto(w, "unreversed")
    /\ UNCHANGED <<books, stl, attempts, rowLock, batch, paid>>

\* compensate: reading the saga may fail; otherwise it becomes COMPENSATING.
Compensate(w, t) ==
    /\ pc[w] = "reversing" /\ Current(w, t)
    /\ \/ Fault /\ Goto(w, "unreversed") /\ UNCHANGED saga
       \/ UpdateSaga(t, "COMPENSATING") /\ Goto(w, "posting")
    /\ UNCHANGED <<books, stl, attempts, rowLock, batch, paid>>

\* Coordinator.PostCompensation: reversing journal and COMPENSATED commit
\* together.  An error may reach the worker although the commit took effect.
PostCompensation(w, t) ==
    /\ pc[w] = "posting" /\ Current(w, t)
    /\ Ledger!Post(CompTx(t))
    /\ saga' = [saga EXCEPT ![t] = "COMPENSATED"]
    /\ \/ NoFault /\ Goto(w, "reversed")
       \/ Fault /\ Goto(w, "unreversed")
    /\ UNCHANGED <<stl, attempts, rowLock, batch, paid>>

\* The ledger refuses (funds already spent, id already posted) or fails.
CompensationFails(w, t) ==
    /\ pc[w] = "posting" /\ Current(w, t)
    /\ (~Ledger!CanPost(CompTx(t)) /\ NoFault) \/ Fault
    /\ Goto(w, "unreversed")
    /\ UNCHANGED <<books, rows, rowLock, batch, paid>>

\* After a failed compensation: settlement FAILED, then saga FAILED, each
\* error only logged.
MarkUnreversed(w, t) ==
    /\ pc[w] = "unreversed" /\ Current(w, t)
    /\ (NoFault /\ UpdateSettlement(t, "FAILED")) \/ (Fault /\ UNCHANGED stl)
    /\ Goto(w, "failing")
    /\ UNCHANGED <<books, saga, attempts, rowLock, batch, paid>>

MarkFailed(w, t) ==
    /\ pc[w] = "failing" /\ Current(w, t)
    /\ UpdateSaga(t, "FAILED")
    /\ NextItem(w, t)
    /\ UNCHANGED <<books, stl, attempts, rowLock, paid>>

\* Mutant of MarkReversed: the branch of a failed compensation is run as well.
MarkReversedFallsThrough(w, t) ==
    /\ pc[w] = "reversed" /\ Current(w, t)
    /\ NoFault
    /\ UpdateSettlement(t, "FAILED")
    /\ Goto(w, "failing")
    /\ UNCHANGED <<books, saga, attempts, rowLock, batch, paid>>

\* After a compensation: settlement FAILED, its error only logged.
MarkReversed(w, t) ==
    /\ pc[w] = "reversed" /\ Current(w, t)
    /\ (NoFault /\ UpdateSettlement(t, "FAILED")) \/ (Fault /\ UNCHANGED stl)
    /\ NextItem(w, t)
    /\ UNCHANGED <<books, saga, attempts, rowLock, paid>>

\* The worker dies or is shut down (the rail call returns its context's error).
Crash(w) ==
    /\ pc[w] # Idle
    /\ Fault
    /\ Drop(w)
    /\ UNCHANGED <<books, rows, paid>>

Work(w) ==
    \/ Claim(w) \/ ClaimCommit(w)
    \/ \E t \in Transfers :
          \/ MarkSettling(w, t) \/ SarieSettle(w, t)
          \/ MarkSettled(w, t) \/ MarkCompleted(w, t)
          \/ Compensate(w, t) \/ PostCompensation(w, t) \/ CompensationFails(w, t)
          \/ MarkUnreversed(w, t) \/ MarkFailed(w, t) \/ MarkReversed(w, t)

Next ==
    \/ \E t \in Transfers : PostTransfer(t)
    \/ \E w \in Workers : Work(w) \/ Crash(w)

Spec == Init /\ [][Next]_vars

\* The worker's ticker calls ProcessOnce again and again, also after a restart.
FairSpec == Spec /\ \A w \in Workers : WF_vars(Work(w))

-----------------------------------------------------------------------------

Terminal == {"COMPLETED", "COMPENSATED", "FAILED"}
SagaStates == {"POSTED", "SETTLING", "COMPENSATING"} \union Terminal

Labels == {Idle, "claimed", "settling", "calling", "settled", "completing",
           "reversing", "posting", "reversed", "unreversed", "failing"}

\* Every variable has its type.
TypeOK ==
    /\ saga \in [Transfers -> SagaStates \union {None}]
    /\ stl \in [Transfers -> {"PENDING", "SETTLED", "FAILED", None}]
    /\ attempts \in [Transfers -> Nat]
    /\ rowLock \in [Transfers -> Workers \union {None}]
    /\ pc \in [Workers -> Labels]
    /\ batch \in [Workers -> SUBSET Transfers]
    /\ paid \in [Transfers -> Nat]
    /\ faults \in 0..MaxFaults

\* Nobody is working on t.
Quiet(t) == \A w \in Workers : t \notin batch[w]

Outcomes(t) == paid[t] + (IF Reversed(t) THEN 1 ELSE 0)

\* A claimed settlement is paid or reversed once: however workers crash or lose
\* updates, payments and reversals of a transfer never outnumber the attempts
\* its row has counted.
OneOutcomePerAttempt == \A t \in Transfers : Outcomes(t) <= attempts[t]

\* "success -> saga COMPLETED, failure -> compensation journal + saga
\* COMPENSATED" (docs/ARCHITECTURE.md), one or the other: a transfer's money
\* leaves once, by the rail or back to its payer.
SettledXorReversed == \A t \in Transfers : Outcomes(t) <= 1

\* The saga of a transfer that one worker settled, and no fault disturbed, tells
\* what happened: COMPLETED for a settlement that was paid, COMPENSATED for one
\* that was reversed, FAILED for neither.
SagaTellsOutcome ==
    \A t \in Transfers :
        faults = 0 /\ attempts[t] = 1 /\ Quiet(t) /\ stl[t] \in {"SETTLED", "FAILED"} =>
            /\ saga[t] \in Terminal
            /\ saga[t] = "COMPLETED" <=> stl[t] = "SETTLED"
            /\ saga[t] = "COMPLETED" <=> paid[t] > 0
            /\ saga[t] = "COMPENSATED" <=> Reversed(t)

\* Statuses are backed: whatever crashes or other workers did in between, SETTLED
\* means that the rail took the payment, COMPENSATED that the reversing journal
\* is committed, and a transfer has saga, settlement and journal together or not
\* at all.
StatusesBacked ==
    \A t \in Transfers :
        /\ (saga[t] = None) = (stl[t] = None)
        /\ (saga[t] = None) = (TransferTx(t) \notin headers)
        /\ stl[t] = "SETTLED" => paid[t] > 0
        /\ saga[t] = "COMPENSATED" => Reversed(t)

\* The sum of an integer function, over its domain and over parts of it.
Totals(c) ==
    LET total[S \in SUBSET DOMAIN c] ==
            IF S = {} THEN 0
            ELSE LET x == CHOOSE y \in S : TRUE IN total[S \ {x}] + c[x]
    IN  total

Total(c) == Totals(c)[DOMAIN c]

\* The transfers posted and not reversed, and what one of them moves to a.
Open == {t \in Transfers : TransferTx(t) \in headers /\ ~Reversed(t)}
Net(a, t) == (IF To[t] = a THEN Amount[t] ELSE 0) - (IF From[t] = a THEN Amount[t] ELSE 0)

\* Every balance is explained by the transfers: its opening balance, minus what
\* it sent, plus what it received, over the transfers posted and not reversed.
BalancesExplained ==
    \A a \in Accounts :
        Ledger!BalanceFromEntries(a, journal) =
            Ledger!BalanceFromEntries(a, SeedRows) + Total([t \in Open |-> Net(a, t)])

\* "Worker settles via mock SARIE" (docs/ARCHITECTURE.md), and a PENDING
\* settlement is SETTLED after ProcessOnce (processor_integration_test.go): every
\* posted transfer is settled or given up, no settlement stays PENDING.
SettlementsResolved == \A t \in Transfers : stl[t] = "PENDING" ~> stl[t] # "PENDING"

\* A saga ends: every posted saga reaches a terminal state, unless an update
\* was lost or a worker died.  (Then it may stay SETTLING for ever: its
\* settlement has left PENDING and nothing looks at the saga again.)
SagaFinishes ==
    \A t \in Transfers : saga[t] = "POSTED" ~> saga[t] \in Terminal \/ faults > 0

\* A failed settlement is reversed, unless its beneficiary has sent money on:
\* only spent funds stand in the way of a compensation.
UnreversedWasSpent ==
    \A t \in Transfers :
        faults = 0 /\ Quiet(t) /\ stl[t] = "FAILED" /\ ~Reversed(t) =>
            \E u \in Transfers : From[u] = To[t] /\ TransferTx(u) \in headers
=============================================================================
