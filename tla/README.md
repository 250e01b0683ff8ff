# TLA+ verification of the core banking platform

The repository is a modular monolith in Go with two binaries, `cmd/api` and
`cmd/worker`, that share one PostgreSQL schema; the api also uses Redis. This
directory holds TLA+ models of the parts that move money, TLC configurations that check
them on small instances, and TLAPS proofs of the most important results for
every value of the constants. Paths below are relative to `src/internal/`
unless they start with `src/`.

## Inventory

| Part | State | Operations | What makes it correct |
|---|---|---|---|
| Ledger domain (`ledger/domain`) | none: balances are derived from rows | `BalanceFromEntries`, `ApplyEntries`, `validateBalanced` | debits equal credits; a balance is the signed sum of its rows |
| Ledger repository (`ledger/adapters/postgres`) | `ledger_accounts`, `ledger_transactions`, `ledger_entries`, row locks | `CreateAccount`, `PostTransaction(InTx)`, reads | concurrent postings never overdraw, deadlock, post half a transaction or post an id twice |
| Idempotency (`idempotency`) | one Redis record per key with a TTL | `Guard.Run`; `Get`, `TryAcquire`, `Complete`, `Fail`, `Delete` | a key moves money once; a replay gets the result of its own request |
| Transfer service (`transfer/app`) | `transfer_sagas`, `settlements` | `Execute`, `runSaga`, status requests | every transfer that is acknowledged is committed |
| Unit of work (`platform/uow/postgres`) | the database transaction | `PostTransfer`, `PostCompensation` | saga, journal, event and settlement commit together |
| Settlement (`settlement/app`) | saga state, settlement status | `ProcessOnce`, `compensate` | a transfer is paid or reversed, once, and its saga says which |
| SARIE rail (`settlement/app/sarie.go`) | outside | `Settle` | (external mock) |
| Outbox (`outbox`) | `outbox_events`, open claims | `InsertInTx`, `ProcessPendingBatch`, `Relay.Run` | every event is published; claims are exclusive |
| Fraud (`fraud`) | one Redis counter per account with a TTL | `Check`, `Increment` | never more than the maximum in a window |
| Compliance and KYC (`compliance`) | none | `Check` | stateless refusals |
| Money (`shared/domain/money.go`) | none | `ParseSAR`, `String`, `Add`, `Sub` | text and halalas agree; overflow is refused |
| IBAN (`shared/domain/iban.go`) | none | `ParseSAIBAN`, `Formatted` | of the texts in ASCII exactly the Saudi IBANs of ISO 13616 pass, in any spelling |
| Worker runner (`platform/worker`) | none | two polling loops | both loops go on after an error |
| Reconciliation (`settlement/app/reconcile.go`) | none | verifies debits = credits | (is an invariant here) |
| HTTP API (`platform/http`) | requests under way | `POST /v1/transfers`, `POST /v1/accounts`, GET routes | every error has its status; the answer tells what the service did |
| Middleware, API keys, audit log (`platform/http/middleware`, `platform/auth`, `platform/audit`) | `audit_log` | `APIKeyAuth`, `Audit`, `Log` | the audit log is true, and complete except where its insert failed |
| Web console, transfer page (`src/web/src/app/transfer`) | step, form, idempotency key, loading flag, result | continue, back, confirm, new transfer | a form pays once, however often it is confirmed |
| Web console, tracking page (`src/web/src/app/track`) | search, what is shown, polling flag and timer, look-ups under way | search, refresh, poll | says nothing that has not happened; polls until the transfer ends |
| Web console, other pages (`src/web`) | what they show | accounts, dashboard, settings | show the newest answer |
| Configuration, migrations, metrics (`platform`) | none | | not protocol code |

How they interact. The console's transfer page, or another client, sends
`POST /v1/transfers` with a key of its own; behind the API-key check and inside
the audit middleware the handler calls `Service.Execute`, which runs `runSaga` inside `Guard.Run` (Redis). `runSaga` asks fraud (Redis),
compliance and the account table, then `Coordinator.PostTransfer` commits saga
row, journal, outbox event and settlement row in one database transaction that
contains `PostTransactionInTx`. The worker's two goroutines poll the two tables
that transaction filled: the relay publishes events, `ProcessOnce` settles and,
when the rail rejects, posts the reversing journal with
`Coordinator.PostCompensation`. Nothing calls back from the worker to the api;
the database tables are the only channel. Status requests
read them (the saga, then its settlement, in two queries) while the worker
writes, and the tracking page polls with them every three seconds until the saga
is terminal.

What is hard: concurrent postings on shared accounts; crashes and lost answers
between any two statements; TTLs that run out under a running request;
read-then-write pairs on Redis; claims that are let go before the work is done;
reads in two queries and answers that overtake each other;
status updates spread over several commits; int64 at its limits. `PROJECT.json`
lists each of these hazards at its line with the properties aimed at it.

## Modules

`LedgerBooks` (pure) ← `LedgerContract` (abstract) ← `Ledger` (detailed);
`SettlementWorker` composes the worker with an instance of `LedgerContract`, and
`TrackPage` adds to it the status requests and the tracking page;
`TransferContract` (abstract) is implemented by `IdempotencyGuard` and used by
`ApiServer`, on which `TransferConsole` is built; `Money` and
`Iban` (pure) ← `TransferCommand`; `OutboxRelay` and `FraudVelocity` stand alone. `MC*` modules give constants for TLC; `*Proofs`
modules hold theorems. Each definition's source lines are in `PROJECT.json`.
Operators whose comment begins "Mutant of" are deliberately wrong variants of
the definition that follows: substituting one must break the property named in
`PROJECT.json`. No specification uses them.

**LedgerBooks.** A journal is a sequence of rows (transaction, account, side,
amount). `BalanceFromEntries` and `ApplyEntries` are the two loops of the
domain, `Projected` is what `validateSufficientFunds` computes. Account ids are
naturals: their order is that of `sort.Strings`.

**LedgerContract.** What `ledger/ports` promises: `Post` in one step, if the
request is balanced, on existing accounts, under a new id, and leaves every
touched balance in range.

**Ledger.** Sessions execute `PostTransactionInTx` statement by statement:
`Begin` (the locking query's snapshot of existing accounts), `LockAccount` one
row at a time in id order, `LocksTaken`, `CheckFunds` per account,
`FundsChecked`, `InsertTransaction` (waits for another session's uncommitted
row with the same id, fails on a committed one), `Commit` (whose answer may be
lost) and `Abort` at any point. Rows become visible at the commit.

**IdempotencyGuard.** Handlers execute `Guard.Run` around `runSaga`. Each Redis
command is a step, so `Complete` and `Fail` are two. `PostTransfer` is atomic
(by the ledger result) and fails when `transfer_sagas.idempotency_key` already
holds the key. `Interrupted` stands for a Redis error, a cancelled request or a
dead process; `WriteUnconfirmed` for a write applied although its caller saw an
error; `Expire` for the TTLs. `ExpiryUnderway` says whether a record may expire
while its owner is still running.

**TransferContract.** What `Execute` promises its caller: between `Execute` and
its return it may `Commit` once per key, it may `Succeed` only with the payload
committed under its key, and it may `Fail` at any time, also after the commit.
`IdempotencyGuard!ImplementsContract` maps `saga`, the request of every handler
that has not answered and the answer of every handler that has.

**ApiServer.** A request on a connection goes through its handler, the audit
middleware and the flush of the response buffer; net/http sends a small answer
only when the handlers have returned, so after the audit insert. `TransferStep`
is a step of the contract, `StatusForError` the table of `errors.go`. The audit
insert may fail, which is logged and changes nothing else. A client that goes
away needs no action here: all it does is make the context fail, and every step
that takes the context may fail.

**TransferConsole.** The transfer page: details, review, result. `Confirm` is
`onSubmit` up to its `await`, `Deliver` and `ConnectionLost` what follows it;
Back and the inputs work meanwhile. The key is drawn when the page mounts and
by `resetForm`. Keys are numbered in the order they are drawn (`randomUUID`
never repeats). Other clients create accounts on the second connection.

**SettlementWorker.** Workers execute `ProcessOnce`; each statement that
commits by itself is a step: claim, claim commit (counts `attempts`, leaves
PENDING), SETTLING, rail, SETTLED, COMPLETED, and on rejection COMPENSATING,
the compensation, and the FAILED updates. Errors that the code logs and ignores
continue, errors it returns drop the batch. `Crash` ends a round anywhere.
`ConnBusy` is what the repository does not decide: `ClaimPendingSettlements`
updates `attempts` while its rows are still being read on the same connection,
and a driver that answers "conn busy" (pgx does) makes the claim fail and roll
back. With `ConnBusy` false the rows count as drained first, as the repository's tests
expect; everything behind the claim is checked under that assumption.

**TrackPage.** The worker goes on as in `SettlementWorker` (its `Next` leaves
the page alone). A look-up is sent by the effect's `poll` or by the refresh
button; `ReadSaga` and `ReadSettlement` are its two queries, `Answer` and
`AnswerError` what `fetchStatus` does after its `await`, `PollOn` what `poll`
does with the result unless its effect was cleaned up (`auto` is then FALSE).
Mode and text together are a target. What the code allows and the properties do
not forbid: the answer of an earlier look-up may overwrite a newer one, so that
the page shows another transfer than the one searched for (`disturbed`); and
after an error the polling stops for good, a successful refresh does not resume
it.

**OutboxRelay.** Events are staged and relays run `ProcessPendingBatch`: claim
with SKIP LOCKED, publish and mark inside the open transaction, commit or roll
back. A failed publish may have reached the bus.

**FraudVelocity.** One account's counter in discrete time. `Check` is INCR and
EXPIRE, then the comparison; `CheckBroken` is a pipeline cut after INCR, before
EXPIRE or before the answer.

**Money, Iban and TransferCommand.** int64 halalas with wrap-around (`Wrap`), the
decimal text as a record (sign, riyals, point, what follows it), `ParseSAR`,
`String`, and the overflow checks. What follows the point goes through `ParseInt`,
which takes a sign there, too: "1.+5" is 1.05, "1.-0" is 1.00. An IBAN is a
sequence of Unicode code points. `IsDigit`, `IsUpper`, `ToUpper` and white space
are what they are in ASCII and constants beyond it (`OtherDigits`,
`OtherCapitals`, `OtherSpaces`, `Uppercase`); the length is counted in bytes of
UTF-8 and `Rearranged` cuts between two bytes, also inside a rune, whose parts
`range` then reads as `RuneError`. `Mod97` is the code's loop over single digits,
`IsSaudiIban` the standard's definition by values and powers of ten from the
right, written without the code's operators on the ASCII letters.
`TransferCommand` follows a request from the typed text through `Validate`,
posting, storage as text, status requests, retries with another spelling (the
`Fingerprint`) and compensation.

## Runs

| Run | Instance | Shows |
|---|---|---|
| `ledger` | 2 sessions, 4 accounts, 6 requests that may repeat | funds, locks, books, whole postings, true answers, no deadlock, refinement of `LedgerContract`, every posting ends |
| `guard_records_outlive` | 3 handlers, 1 key, 2 payloads, 3 requests, records outlive owners | one owner per key, money moves once, COMPLETED means posted, verdicts stand, refinement of `TransferContract`, keys are freed |
| `settlement` | 2 workers, 2 transfers (the second spends the first), 1 fault | statuses tell the truth; balances are explained; only spent funds prevent a reversal; settlements and sagas end |
| `outbox` | 2 relays, 3 events, batches of 2, 2 faults | exclusive claims on PENDING events only, bounded duplicates, every event published or FAILED by a fault |
| `velocity_limit` | maximum 2, window 2, 7 ticks, 2 attempts a tick | the limit holds; quiet accounts start afresh |
| `console` | 2 connections, 2 forms, 2 payloads, 1 account id | a form pays at most once; the result shown is the transfer that was made; audit rows are true and precede the acknowledgement unless their insert failed; no submission waits for ever |
| `command_roundtrip` | 11-bit int64, 124 amounts, 2 IBANs in 6 spellings, about 100 slips and 55 texts with a foreign digit or letter, 2 postings | of the texts in ASCII exactly the Saudi IBANs pass; a retry is recognised in any spelling; stored amounts read back; no wrap; compensation fits |
| `track` | 1 worker, 1 transfer, 1 fault, 3 inputs, 2 look-ups under way | the banner is true, "Live tracking" is shown exactly while the page polls, polling ends |

Runs that are expected to fail, each refuting a sentence of the repository
(details in `findings`):

| Run | Refutes | Because |
|---|---|---|
| `guard_commit_in_doubt` | a FAILED key belongs to a failed operation (`guard.go:72`, `store.go:98`) | a lost commit answer is handled like a refusal |
| `settlement_two_workers` | success *or* compensation (`docs/ARCHITECTURE.md:25-26`) | the claim commits with rows still PENDING |
| `settlement_claim_busy` | the worker settles (`docs/ARCHITECTURE.md:24`, `processor_integration_test.go`) | `tx.Exec` runs while the rows of the claim are open on its connection |
| `amount_typed` | `SAR` constructs what it is given (`money.go:33`) | the multiplication by 100 is unchecked |

`iban.go:14` calls an IBAN "a validated Saudi Arabia IBAN value object".
`unicode.IsDigit` and `IsUpper` (`iban.go:36`) let digits and capitals of every
script pass, `ibanMod97` counts each as the two digits of a letter, and the
remainder may come out as 1: `ForeignDigitsPass`, an assumption that every run of
`MCTransferCommand` evaluates, has such a text with an Arabic, a full-width and a
mathematical digit (`SA4420000001234567891234` with its first "34" replaced by U+0669).
`IbanChecked` and `ParseAgrees` say that such runes are the only disagreement.

An event whose publish fails once is marked FAILED and `claimPendingInTx` selects
PENDING rows only, so nothing retries it, although `src/README.md:9` speaks of
"reliable events"; `EventsProcessed` says FAILED for this case.

`velocity.go:11` speaks of a "sliding window". Every attempt renews the TTL of
one counter that only expiry resets, so an account that keeps sending, however
slowly, adds up until it is refused; the properties here are the ones the
counter does have.

Three related behaviours appear as exceptions in the passing properties: a saga may
stay SETTLING for ever after a lost update (`SagaFinishes`), a compensation is
refused once the beneficiary has spent the money (`UnreversedWasSpent`), and two
handlers may run for one key when a run outlasts the 15-minute TTL
(`SingleOwner` is claimed only when `ExpiryUnderway` is false).

**Bounds and why they are enough.** Two sessions, workers or relays suffice for
every race here, since each conflict is between two; three handlers let an
owner, a waiter and a replay coexist. The ledger requests contain one of each
kind: competing for the same funds, crossing, same id on the same and on
disjoint accounts, on an account that does not exist yet, overflowing,
unbalanced. Two connections let a lost submission run on beside its retry, and
two forms let one of them be abandoned. Two look-ups let an answer be overtaken,
three inputs let a search be replaced and then refreshed. The IBANs are those of
the repository's tests; a slip is one character replaced (by each of three),
added or missing, or two neighbours swapped. A foreign text has one rune of two,
three or four bytes in the place of as many letters, also where the code cuts the
text (after four bytes); the tables beyond ASCII are an excerpt with three sets of
digits, one letter with its capital, one whose capital is an ASCII letter, and two
spaces. `MaxForms`, `MaxRequests`, `MaxFaults`, `MaxTime`, `MaxPerTick`, `MaxPosts`,
`MaxInputs`, `MaxUnderWay`
bound behaviours; `BatchLimit` and `BatchSize` are 2 so that a batch can be
both full and cut short. For every safety property of these runs a theorem
removes the bounds. `CHECK_DEADLOCK FALSE` is used only where a bounded model
stops because its bound is used up; the ledger run checks deadlock.

**Fairness.** `Ledger`: a statement of an open transaction eventually returns
(WF), and PostgreSQL wakes waiters for a row or a duplicate id in turn (SF).
`IdempotencyGuard`: a handler keeps running until it answers, and Redis removes
expired keys (WF). Workers and relays poll on a ticker after every round,
whatever it returned (`runner.go:83-99`, `relay.go:57-72`), so WF of their
steps. `TransferConsole`: handlers run on and a written answer is sent (WF);
nothing is asked of the user. `TrackPage`: the worker as before, queries and
answers come back, and the browser runs callbacks and timers (WF). No fairness is assumed for faults, requests or the rail's answer.

## Proofs

Eight modules; TLAPS checks every leaf. Every safety property that a passing run
checks, invariant, action property or refinement, is also a theorem for all
values of the constants.

* `LedgerBooksProofs`: sums over sequences. `SumConcat` is the induction behind
  everything else; `BalanceOfAppend`: appending a request's rows yields exactly
  the projected balance; `BalanceUntouched`: other accounts keep theirs;
  `BalancedAppend`: balanced journals concatenate to a balanced one.
* `LedgerProofs`: `TypeCorrect`, `LocksHeld`, then `LedgerInvariant`. The
  balances alone are not inductive: a commit is safe only because its funds
  check is still true, and that only because no other session could commit on
  those accounts. The invariant therefore adds `FundsReserved` (every check that
  passed still holds) and `LockDiscipline` (who checked, holds the lock), from
  which a commit by another session touches none of the checked accounts
  (`CommitPreserves`). `NoOverdraft`, `BooksAlwaysBalance`, `ChecksNeverStale`
  and `Refinement` follow. `PostedAlwaysWhole` needs beside `PostedWhole` that
  every row has a header (`RowsHaveHeaders`): an id without a header has no rows
  yet, so a commit puts its run of rows at the end and nowhere else.
  `NeverDeadlocked`: `LockOrder` (a session that waits holds lower ids only, and
  locks belong to open sessions); were all waiting, the holder of the highest
  locked id would wait for a higher one. A session that waits to insert waits
  for one that has its rows in and waits for nothing.
* `IdempotencyGuardProofs`: `OnceInv` (commits are counted by the saga row, and
  who is about to complete has a saga row) gives `KeyPostsOnce` and
  `CompletedIsPosted` for any expiry, which no run checks: the run has records
  that outlive their owners. Under the assumption that records outlive
  owners, `OwnerInv` (a running handler's PROCESSING record with its own
  fingerprint is there, and what it has read is that record) gives `OneOwner` and `VerdictStands`; `ResultInv`
  (results, acknowledgements and sagas agree) gives `AnswersAreTrue`. With
  `ErrorInv` (an error being handled is one the contract knows) every step is a
  step of `TransferContract` or stutters: `GuardImplementsContract`. This is
  what entitles `ApiServer` to use the contract; when a record expires under its
  owner the guard does not keep it (a handler may then complete the record of
  another, and a replay returns another payload's result); only `KeyPostsOnce` and `CompletedIsPosted` remain.
* `TransferCommandProofs`: `WrapFits`, `AddExact`, `SubExact` (a sum that passes
  the check is exact), `StringReadsBack`; with `AmountInv` they give
  `ArithmeticConserves`, `StoredTextReads` and `CompensationAlwaysFits` for
  every int64 width, whatever amounts and IBANs are typed. `Mod97Exact`: the
  loop from the left computes the standard's sum from the right, for texts of
  any length (what is read so far, times the weight of the rest, plus the sum of
  the rest, is always the whole remainder). `AsciiEnds` and
  `AsciiRearranged`: in an ASCII text bytes are letters and the cut is the
  standard's. `ParseAgrees`: a Unicode text is a Saudi IBAN exactly if
  `ParseSAIBAN` accepts it and no rune inside is beyond ASCII, whatever the Unicode
  tables say there (`UnicodeAssumption`: they are about runes beyond ASCII);
  `SameNormal`: two texts have one normal form exactly
  if they have the same letters; `ParseExact`: `ParseSAR` yields what the text
  means, if an int64 holds it. `CommandInv` (the answers rest on what `Validate`
  and the guard saw) turns these into `IbanAlwaysChecked` and
  `RetriesAlwaysTrue`.
* `SettlementProofs`, about the worker and the tracking page:
  * `BackedInv` adds to `StatusesBacked` that claimed rows are locked and
    PENDING (`ClaimsHeld`) and that who is about to record a payment has made
    it (`PaidFirst`).
  * `OutcomesWithinAttempts`: the bound alone is not inductive. `AttemptsCover`
    adds the workers that have counted an attempt and not yet spent it
    (`Owing`), whose number falls by one whenever an outcome is added.
  * `SagaAlwaysTellsOutcome`: `First` describes the first attempt at a transfer
    without faults as one worker's walk through the labels, with what the rows
    say at each.
  * `BalancesAlwaysExplained`: `BooksInv` adds that only posted transfers are
    reversed. The sum over a set is a recursive function of its subsets;
    `SubsetInduction` and `TotalAdd` give what adding or removing a transfer
    does to it, `MoveBalance` what its two rows do to the balance.
  * `UnreversedAlwaysSpent`: if the beneficiary sent nothing, `BooksInv` says it
    still has the money, and `FundsInv` (money is neither made nor lost) that
    the payer has room for it; so the ledger accepts the reversal
    (`CanReverse`), and `SpentInv` carries this to the FAILED status.
  * `LiveAlwaysUntilTheEnd`: `OnePoll` (the poll loop has one look-up or timer,
    for the current search) and `LeftAlone`. `BannerAlwaysTrue`: what was read
    stays true until it is shown (`ReadTrue`, `ShownTrue`), because a single
    worker completes the saga of a settled settlement only (`SoleInv`).
* `OutboxRelayProofs`: `OutboxInv` adds to the three properties that marks are
  true before they are committed (`MarksTrue`), that an idle relay has nothing in
  hand (`HandsClean`), and which delivery no fault pays for: the one recorded in
  the table or in an open transaction (`DeliveriesExplained`).
* `FraudVelocityProofs`: the limit alone says nothing of the counter.
  `CountCovers` (the counter is at least what passed in any window that is not
  over) needs `TtlCovers` (the key outlives the window of every transfer that
  passed); `TtlFresh` (the TTL was set by an attempt one window before it runs
  out) gives `QuietAlwaysResets`.
* `TransferConsoleProofs`: `ConnTrue` (a connection's stage, status and result
  agree with its call and the database), `AwaitedTrue` (the page waits for its own
  form) and `KeysDrawn` (nothing is posted under a key that was not drawn) give
  the audit, result and payment theorems.

Assumptions are the named `ASSUME`s of the modules: ids and amounts have their
types, a request's rows carry its id, the seeded books balance, seed ids are not
transfer ids, a transfer is between two different wallets, accounts and workers
are finite where they are counted, the service's refusals are codes of
`errors.go`, and `None` is distinct from real values. TLC evaluates them in the
runs. Some theorems have a hypothesis of their own. Guard results beyond
`KeyPostsOnce` and `CompletedIsPosted` assume that records outlive owners.
`UnreversedAlwaysSpent` assumes that the opening money of all wallets fits one
amount: otherwise the payer's balance may have grown meanwhile and the reversal
overflow. `BannerAlwaysTrue` assumes one worker process: with two, one may still
mark a settlement FAILED that the other has paid and completed, and TLC finds the
page showing COMPLETED beside it, without any fault.

Induction over data: the provers cannot instantiate the library's induction
schemes, so the recursive functions here (sums, remainders, windows) are reasoned
about with induction lemmas over sets (`NatSetInduction`, `WindowInduction`,
`SubsetInduction`), each proved from the well-foundedness of the naturals.

Only model-checked: the liveness properties `EveryPostEnds`, `KeyFreed`,
`SettlementsResolved`, `SagaFinishes`, `EventsProcessed`, `SubmissionEnds` and
`TrackingEnds`, since fairness is outside the prover's reach. The type invariants
are proved and not repeated in the runs.

## Abstractions and what is not modelled

* `created_at` is a rank; descriptions, references, error texts and logs are left out.
* `Ledger` uses exact integers with a range check; a sum that overflows inside
  one transaction and comes back is not told apart. `TransferCommandProofs` shows that the
  code's checked arithmetic is exact. In `Money`, spaces and other characters
  that the parser trims or refuses are left out of the texts before the point, and
  every amount is in SAR. The Unicode tables are taken as they are used; a JSON
  text has no surrogates, and `Rune` does not leave them out.
* The fingerprint, saga id and transaction id are injective in key and payload
  (they are SHA-256 hashes).
* The schema's append-only triggers hold by shape: no action rewrites a row.
* The page's error banner and the wording of its messages are left out. The GET
  routes of accounts, request ids, CORS and access log change no state.
* Not modelled: configuration, migrations and metrics (start-up code without
  protocol state); the console's pages for accounts, settings and the dashboard,
  which send one request at a time and show its answer.

## Plan

1. Done: ledger, guard, settlement, outbox, velocity, money, IBAN and command,
   HTTP layer with audit, transfer page, tracking page with the status requests;
   every safety property of their runs proved.
2. Worth adding: a transfer system that composes guard, unit of work, settlement
   and outbox over one set of tables (an acknowledged transfer has an event and a
   settlement).
3. Worth proving: that the settlement worker's books implement `LedgerContract`
   (so that the ledger theorems hold of it), and what no step of the worker or the
   relay may undo: a journal only grows, a recorded outcome stays.
