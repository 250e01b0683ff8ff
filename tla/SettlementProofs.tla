-------------------------- MODULE SettlementProofs --------------------------
(***************************************************************************)
(* Proofs about the settlement worker, for any number of workers,          *)
(* transfers and faults and any batch limit: statuses are backed by what   *)
(* happened, outcomes never outnumber attempts, an undisturbed saga tells  *)
(* its outcome, balances are the sum of the transfers posted and not       *)
(* reversed, and only spent money prevents a reversal. On top of it, the   *)
(* tracking page: it polls until the end, and says nothing untrue.         *)
(***************************************************************************)
EXTENDS TrackPage, FiniteSetTheorems, TLAPS

\* Rows a worker has in hand exist, and while its claim is open they are locked
\* and PENDING: nobody else can change their status.
ClaimsHeld ==
    \A w \in Workers :
        /\ pc[w] = Idle => batch[w] = {}
        /\ \A t \in batch[w] :
              /\ saga[t] # None /\ stl[t] # None
              /\ pc[w] = "claimed" => rowLock[t] = w /\ stl[t] = "PENDING"

\* Whoever is about to record a payment has made it.
PaidFirst ==
    \A w \in Workers, t \in Transfers :
        pc[w] \in {"settled", "completing"} /\ Current(w, t) => paid[t] > 0

BackedInv == TypeOK /\ ClaimsHeld /\ PaidFirst /\ StatusesBacked

\* A worker that has counted an attempt at t and has not spent it: t waits in its
\* batch, or is the current row and neither paid nor given up.
Owing(t) ==
    {w \in Workers :
        /\ t \in batch[w] /\ pc[w] # "claimed"
        /\ Current(w, t) => pc[w] \in {"settling", "calling", "reversing", "posting"}}

AttemptsCover ==
    \A t \in Transfers : Outcomes(t) + Cardinality(Owing(t)) <= attempts[t]

\* The workers that have counted an attempt at t and still have it in hand.
Having(t) == {w \in Workers : t \in batch[w] /\ pc[w] # "claimed"}

\* What the rows say of t when worker w is at label with it.
Stands(t, label) ==
    /\ label \in {"settling", "calling", "reversing"} => stl[t] = "PENDING" /\ paid[t] = 0 /\ ~Reversed(t)
    /\ label \in {"calling", "settled", "completing", "reversing"} => saga[t] = "SETTLING"
    /\ label = "settled" => stl[t] = "PENDING"
    /\ label = "completing" => stl[t] = "SETTLED"
    /\ label \in {"settled", "completing"} => paid[t] > 0 /\ ~Reversed(t)
    /\ label \in {"posting", "unreversed", "failing"} =>
          saga[t] = "COMPENSATING" /\ paid[t] = 0 /\ ~Reversed(t)
    /\ label \in {"posting", "unreversed", "reversed"} => stl[t] = "PENDING"
    /\ label = "failing" => stl[t] = "FAILED"
    /\ label = "reversed" => saga[t] = "COMPENSATED" /\ paid[t] = 0 /\ Reversed(t)

Told(t) ==
    /\ stl[t] \in {"SETTLED", "FAILED"}
    /\ saga[t] \in Terminal
    /\ saga[t] = "COMPLETED" <=> stl[t] = "SETTLED"
    /\ saga[t] = "COMPLETED" <=> paid[t] > 0
    /\ saga[t] = "COMPENSATED" <=> Reversed(t)

\* A row that waits in a batch, or is next, is untouched.
Label(w, t) == IF Current(w, t) THEN pc[w] ELSE "settling"

\* Without faults, the first attempt at t is one worker's walk through the labels.
First(t) ==
    /\ attempts[t] = 0 =>
          /\ Having(t) = {}
          /\ stl[t] \in {None, "PENDING"} /\ paid[t] = 0 /\ ~Reversed(t)
    /\ attempts[t] = 1 =>
          /\ \A v, w \in Having(t) : v = w
          /\ \A w \in Having(t) : Stands(t, Label(w, t))
          /\ Having(t) = {} => Told(t)

FirstAttempt == faults = 0 => \A t \in Transfers : First(t)

-----------------------------------------------------------------------------

\* A journal id names a transfer, or the reversal of one.
LEMMA TxIdsApart ==
    ASSUME NEW t \in Transfers, NEW u \in Transfers
    PROVE  /\ TransferTx(t) \in JournalIds /\ CompTx(t) \in JournalIds
           /\ TransferTx(t) # CompTx(u)
           /\ TransferTx(t) = TransferTx(u) => t = u
           /\ CompTx(t) = CompTx(u) => t = u
  BY DEF TransferTx, CompTx, JournalIds

\* What LedgerContract's Post does to the headers.
LEMMA PostHeaders ==
    ASSUME NEW id \in JournalIds, Ledger!Post(id)
    PROVE  id \notin headers /\ headers' = headers \union {id}
  BY DEF Ledger!Post, Ledger!CanPost

\* The three ways a worker's place changes: on to the next label, on to the next
\* row, or out of ProcessOnce.
LEMMA GotoEffect ==
    ASSUME TypeOK, NEW w \in Workers, NEW label \in Labels, Goto(w, label)
    PROVE  /\ pc' \in [Workers -> Labels] /\ pc'[w] = label
           /\ \A v \in Workers \ {w} : pc'[v] = pc[v]
  BY DEF Goto, TypeOK

\* The end of a round takes the row out of the batch.
LEMMA NextItemEffect ==
    ASSUME TypeOK, NEW w \in Workers, NEW t \in Transfers, NextItem(w, t)
    PROVE  /\ pc' \in [Workers -> Labels] /\ batch' \in [Workers -> SUBSET Transfers]
           /\ batch'[w] = batch[w] \ {t}
           /\ pc'[w] \in {Idle, "settling"}
           /\ pc'[w] = Idle => batch'[w] = {}
           /\ \A v \in Workers \ {w} : batch'[v] = batch[v] /\ pc'[v] = pc[v]
<1>1. Goto(w, IF batch[w] = {t} THEN Idle ELSE "settling")
  BY DEF NextItem
<1>2. /\ batch' \in [Workers -> SUBSET Transfers] /\ batch'[w] = batch[w] \ {t}
      /\ \A v \in Workers \ {w} : batch'[v] = batch[v]
  BY DEF TypeOK, NextItem
<1>3. CASE batch[w] = {t}
  BY <1>1, <1>2, <1>3, GotoEffect DEF Labels
<1>4. CASE batch[w] # {t}
  BY <1>1, <1>2, <1>4, GotoEffect DEF Labels, Idle
<1> QED
  BY <1>3, <1>4

\* A worker that leaves has nothing in hand and gives up its own locks only.
LEMMA DropEffect ==
    ASSUME TypeOK, NEW w \in Workers, Drop(w)
    PROVE  /\ pc' \in [Workers -> Labels] /\ batch' \in [Workers -> SUBSET Transfers]
           /\ batch'[w] = {} /\ pc'[w] = Idle
           /\ \A v \in Workers \ {w} : batch'[v] = batch[v] /\ pc'[v] = pc[v]
           /\ rowLock' \in [Transfers -> Workers \union {None}]
           /\ \A t \in Transfers, v \in Workers \ {w} : rowLock[t] = v => rowLock'[t] = v
<1>1. Goto(w, Idle)
  BY DEF Drop
<1>2. /\ batch' = [batch EXCEPT ![w] = {}]
      /\ rowLock' = [t \in Transfers |-> IF rowLock[t] = w THEN None ELSE rowLock[t]]
  BY DEF Drop
<1>3. /\ pc' \in [Workers -> Labels] /\ pc'[w] = Idle
      /\ \A v \in Workers \ {w} : pc'[v] = pc[v]
  BY <1>1, GotoEffect DEF Labels
<1> QED
  BY <1>2, <1>3 DEF TypeOK

\* A step of worker w on its current row t concerns nobody else's place and no
\* other row, and never waits on or changes a lock.
Turn(w, t) ==
    /\ Current(w, t) /\ pc[w] \notin {Idle, "claimed"}
    /\ \A v \in Workers \ {w} : pc'[v] = pc[v] /\ batch'[v] = batch[v]
    /\ \/ batch'[w] = batch[w] /\ pc'[w] \notin {Idle, "claimed", "settling"}
       \/ /\ batch'[w] = batch[w] \ {t} /\ pc'[w] \in {Idle, "settling"}
          /\ pc'[w] = Idle => batch'[w] = {}
    /\ \A u \in Transfers \ {t} :
          /\ saga'[u] = saga[u] /\ stl'[u] = stl[u] /\ paid'[u] = paid[u]
          /\ CompTx(u) \in headers' <=> CompTx(u) \in headers
    /\ \A u \in Transfers : TransferTx(u) \in headers' <=> TransferTx(u) \in headers
    /\ CompTx(t) \in headers => CompTx(t) \in headers'
    /\ saga'[t] \in {saga[t]} \union SagaStates
    /\ stl'[t] \in {stl[t], "SETTLED", "FAILED"}
    /\ stl'[t] # stl[t] => rowLock[t] = None
    /\ paid'[t] >= paid[t]
    /\ UNCHANGED <<attempts, rowLock>>

\* ProcessOnce ends early, nothing else changes.
Leaves(w) == Drop(w) /\ UNCHANGED <<headers, saga, stl, attempts, paid>>

\* Every worker step on a row has that shape, whatever it does to the row.
LEMMA TurnShape ==
    ASSUME TypeOK, NEW w \in Workers, NEW t \in Transfers,
           \/ MarkSettling(w, t) \/ SarieSettle(w, t)
           \/ MarkSettled(w, t) \/ MarkCompleted(w, t)
           \/ Compensate(w, t) \/ PostCompensation(w, t) \/ CompensationFails(w, t)
           \/ MarkUnreversed(w, t) \/ MarkFailed(w, t) \/ MarkReversed(w, t)
    PROVE  TypeOK' /\ (Turn(w, t) \/ (Leaves(w) /\ Fault))
<1> USE SettlementAssumption DEF TypeOK, SagaStates, Terminal, Labels, Idle
<1>f. ASSUME NoFault \/ Fault PROVE faults' \in 0..MaxFaults
  BY <1>f DEF NoFault, Fault
<1>s. ASSUME NEW state \in SagaStates, UpdateSaga(t, state)
      PROVE  /\ saga' \in [Transfers -> SagaStates \union {None}]
             /\ saga'[t] \in {saga[t], state} /\ \A u \in Transfers \ {t} : saga'[u] = saga[u]
             /\ faults' \in 0..MaxFaults
  BY <1>s, <1>f DEF UpdateSaga
<1>u. ASSUME NEW x \in {"SETTLED", "FAILED"}, UpdateSettlement(t, x)
      PROVE  /\ stl' \in [Transfers -> {"PENDING", "SETTLED", "FAILED", None}]
             /\ stl'[t] = x /\ rowLock[t] = None /\ \A u \in Transfers \ {t} : stl'[u] = stl[u]
  BY <1>u DEF UpdateSettlement
<1>g. ASSUME NEW l \in Labels \ {Idle, "claimed", "settling"}, Goto(w, l), UNCHANGED batch
      PROVE  /\ pc' \in [Workers -> Labels] /\ pc'[w] = l /\ batch'[w] = batch[w]
             /\ \A v \in Workers \ {w} : pc'[v] = pc[v] /\ batch'[v] = batch[v]
  BY <1>g, GotoEffect
<1>n. ASSUME NextItem(w, t)
      PROVE  /\ pc' \in [Workers -> Labels] /\ batch' \in [Workers -> SUBSET Transfers]
             /\ batch'[w] = batch[w] \ {t} /\ pc'[w] \in {Idle, "settling"}
             /\ pc'[w] = Idle => batch'[w] = {}
             /\ \A v \in Workers \ {w} : pc'[v] = pc[v] /\ batch'[v] = batch[v]
  BY <1>n, NextItemEffect
<1>1. CASE MarkSettling(w, t)
  BY <1>1, <1>s, <1>g DEF MarkSettling, Turn, books
<1>2. CASE SarieSettle(w, t)
  BY <1>2, <1>g DEF SarieSettle, Turn, books, rows
<1>3. CASE MarkSettled(w, t)
  <2>1. CASE NoFault /\ UpdateSettlement(t, "SETTLED") /\ Goto(w, "completing") /\ UNCHANGED <<rowLock, batch>>
    BY <1>3, <2>1, <1>f, <1>u, <1>g DEF MarkSettled, Turn, books
  <2>2. CASE Fault /\ Drop(w) /\ UNCHANGED stl
    <3>1. Leaves(w)
      BY <1>3, <2>2 DEF MarkSettled, Leaves, books
    <3>2. TypeOK'
      BY <2>2, <3>1, <1>f, DropEffect DEF Leaves
    <3> QED
      BY <2>2, <3>1, <3>2
  <2> QED
    BY <1>3, <2>1, <2>2 DEF MarkSettled
<1>4. CASE MarkCompleted(w, t)
  BY <1>4, <1>s, <1>n DEF MarkCompleted, Turn, books
<1>5. CASE Compensate(w, t)
  BY <1>5, <1>f, <1>s, <1>g DEF Compensate, Turn, books
<1>6. CASE PostCompensation(w, t)
  <2>1. headers' = headers \union {CompTx(t)}
    BY <1>6, TxIdsApart, PostHeaders DEF PostCompensation
  <2>2. /\ \A u \in Transfers \ {t} : CompTx(u) \in headers' <=> CompTx(u) \in headers
        /\ \A u \in Transfers : TransferTx(u) \in headers' <=> TransferTx(u) \in headers
        /\ CompTx(t) \in headers => CompTx(t) \in headers'
    BY <2>1, TxIdsApart
  <2>3. /\ pc' \in [Workers -> Labels] /\ pc'[w] \in {"reversed", "unreversed"}
        /\ batch' = batch /\ \A v \in Workers \ {w} : pc'[v] = pc[v]
        /\ faults' \in 0..MaxFaults
    BY <1>6, <1>f, <1>g DEF PostCompensation
  <2> QED
    BY <1>6, <2>2, <2>3 DEF PostCompensation, Turn
<1>7. CASE CompensationFails(w, t)
  BY <1>7, <1>f, <1>g DEF CompensationFails, Turn, books, rows
<1>8. CASE MarkUnreversed(w, t)
  BY <1>8, <1>f, <1>u, <1>g DEF MarkUnreversed, Turn, books
<1>9. CASE MarkFailed(w, t)
  BY <1>9, <1>s, <1>n DEF MarkFailed, Turn, books
<1>10. CASE MarkReversed(w, t)
  BY <1>10, <1>f, <1>u, <1>n DEF MarkReversed, Turn, books
<1> QED
  BY <1>1, <1>2, <1>3, <1>4, <1>5, <1>6, <1>7, <1>8, <1>9, <1>10

\* The claim of a batch locks rows that are PENDING and free.
LEMMA ClaimShape ==
    ASSUME TypeOK, NEW w \in Workers, Claim(w)
    PROVE  /\ TypeOK' /\ UNCHANGED <<headers, saga, stl, attempts, paid, faults>>
           /\ pc[w] = Idle /\ pc'[w] = "claimed"
           /\ \A v \in Workers \ {w} : pc'[v] = pc[v] /\ batch'[v] = batch[v]
           /\ \A t \in batch'[w] : stl[t] = "PENDING" /\ rowLock[t] = None /\ rowLock'[t] = w
           /\ \A t \in Transfers : rowLock[t] # None => rowLock'[t] = rowLock[t]
<1> DEFINE free == {t \in Transfers : stl[t] = "PENDING" /\ rowLock[t] = None}
           mine == {t \in free : Cardinality({u \in free : u < t}) < BatchLimit}
<1>1. /\ batch' = [batch EXCEPT ![w] = mine]
      /\ rowLock' = [t \in Transfers |-> IF t \in mine THEN w ELSE rowLock[t]]
      /\ pc[w] = Idle /\ Goto(w, "claimed")
      /\ UNCHANGED <<headers, saga, stl, attempts, paid, faults>>
  BY DEF Claim, books, rows
<1>2. mine \subseteq Transfers /\ \A t \in mine : stl[t] = "PENDING" /\ rowLock[t] = None
  OBVIOUS
<1> HIDE DEF mine
<1>3. /\ pc' \in [Workers -> Labels] /\ pc'[w] = "claimed"
      /\ \A v \in Workers \ {w} : pc'[v] = pc[v]
  BY <1>1, GotoEffect DEF Labels
<1>4. /\ batch' \in [Workers -> SUBSET Transfers] /\ batch'[w] = mine
      /\ \A v \in Workers \ {w} : batch'[v] = batch[v]
  BY <1>1, <1>2 DEF TypeOK
<1>5. rowLock' \in [Transfers -> Workers \union {None}]
  BY <1>1 DEF TypeOK
<1> QED
  BY <1>1, <1>2, <1>3, <1>4, <1>5 DEF TypeOK

\* The claim's commit: attempts are counted, the worker's locks are gone.
LEMMA CountShape ==
    ASSUME TypeOK, NEW w \in Workers, ClaimCommit(w), ~ConnBusy
    PROVE  /\ TypeOK' /\ UNCHANGED <<headers, saga, stl, paid, faults, batch>>
           /\ pc[w] = "claimed" /\ pc'[w] = "settling"
           /\ \A v \in Workers \ {w} : pc'[v] = pc[v]
           /\ \A t \in Transfers :
                 /\ attempts'[t] = attempts[t] + (IF t \in batch[w] THEN 1 ELSE 0)
                 /\ \A v \in Workers \ {w} : rowLock[t] = v => rowLock'[t] = v
<1>1. /\ rowLock' = [t \in Transfers |-> IF rowLock[t] = w THEN None ELSE rowLock[t]]
      /\ attempts' = [t \in Transfers |-> attempts[t] + (IF t \in batch[w] THEN 1 ELSE 0)]
      /\ pc[w] = "claimed" /\ Goto(w, "settling")
      /\ UNCHANGED <<headers, saga, stl, paid, faults, batch>>
  BY DEF ClaimCommit, books
<1>2. /\ pc' \in [Workers -> Labels] /\ pc'[w] = "settling"
      /\ \A v \in Workers \ {w} : pc'[v] = pc[v]
  BY <1>1, GotoEffect DEF Labels
<1>3. attempts' \in [Transfers -> Nat]
  <2>1. \A t \in Transfers : attempts[t] + (IF t \in batch[w] THEN 1 ELSE 0) \in Nat
    BY DEF TypeOK
  <2> QED
    BY <1>1, <2>1
<1> QED
  BY <1>1, <1>2, <1>3 DEF TypeOK

\* A crash and a refused claim are ways to leave.
LEMMA LeaveShape ==
    ASSUME TypeOK, NEW w \in Workers, Crash(w) \/ (ClaimCommit(w) /\ ConnBusy)
    PROVE  TypeOK' /\ Leaves(w)
<1>1. Leaves(w) /\ faults' \in 0..MaxFaults
  BY SettlementAssumption DEF Leaves, Crash, ClaimCommit, Fault, TypeOK, books, rows
<1> QED
  BY <1>1, DropEffect DEF Leaves, TypeOK

\* A new transfer concerns no worker and no other transfer.
LEMMA PostShape ==
    ASSUME TypeOK, NEW t \in Transfers, PostTransfer(t)
    PROVE  /\ TypeOK' /\ UNCHANGED <<attempts, rowLock, pc, batch, paid, faults>>
           /\ saga[t] = None /\ saga'[t] = "POSTED" /\ stl'[t] = "PENDING"
           /\ \A u \in Transfers \ {t} : saga'[u] = saga[u] /\ stl'[u] = stl[u]
           /\ \A u \in Transfers : CompTx(u) \in headers' <=> CompTx(u) \in headers
           /\ TransferTx(t) \in headers'
           /\ \A u \in Transfers \ {t} : TransferTx(u) \in headers' <=> TransferTx(u) \in headers
<1>1. headers' = headers \union {TransferTx(t)}
  BY TxIdsApart, PostHeaders DEF PostTransfer
<1>2. /\ \A u \in Transfers : CompTx(u) \in headers' <=> CompTx(u) \in headers
      /\ TransferTx(t) \in headers'
      /\ \A u \in Transfers \ {t} : TransferTx(u) \in headers' <=> TransferTx(u) \in headers
  BY <1>1, TxIdsApart
<1> QED
  BY <1>2 DEF PostTransfer, TypeOK, worker, SagaStates, Terminal

-----------------------------------------------------------------------------

\* A worker that leaves takes nothing with it.
LEMMA LeavesBacked ==
    ASSUME BackedInv, TypeOK', NEW w \in Workers, Leaves(w)
    PROVE  BackedInv'
<1>1. /\ batch'[w] = {} /\ pc'[w] = Idle /\ UNCHANGED <<headers, saga, stl, paid>>
      /\ \A v \in Workers \ {w} : batch'[v] = batch[v] /\ pc'[v] = pc[v]
      /\ \A t \in Transfers, v \in Workers \ {w} : rowLock[t] = v => rowLock'[t] = v
  BY DropEffect DEF Leaves, BackedInv
<1>2. ClaimsHeld'
  BY <1>1 DEF BackedInv, TypeOK, ClaimsHeld, Idle
<1>3. PaidFirst'
  BY <1>1 DEF BackedInv, PaidFirst, Current, Idle
<1>4. StatusesBacked'
  BY <1>1 DEF BackedInv, StatusesBacked, Reversed
<1> QED
  BY <1>2, <1>3, <1>4 DEF BackedInv

\* A step on a row keeps the rows backed if what it writes is.
LEMMA TurnBacked ==
    ASSUME BackedInv, TypeOK', NEW w \in Workers, NEW t \in Transfers, Turn(w, t),
           stl'[t] = "SETTLED" => stl[t] = "SETTLED" \/ paid'[t] > 0,
           saga'[t] = "COMPENSATED" => saga[t] = "COMPENSATED" \/ Reversed(t)',
           pc'[w] \in {"settled", "completing"} => paid'[t] > 0
    PROVE  BackedInv'
<1> USE SettlementAssumption
<1>0. t \in batch[w] /\ saga[t] # None /\ stl[t] # None
  BY DEF Turn, Current, BackedInv, ClaimsHeld
<1>1. saga'[t] # None /\ stl'[t] # None
  BY <1>0 DEF Turn, SagaStates, Terminal
<1>2. ClaimsHeld'
  <2> SUFFICES ASSUME NEW v \in Workers
               PROVE  /\ pc'[v] = Idle => batch'[v] = {}
                      /\ \A u \in batch'[v] :
                            /\ saga'[u] # None /\ stl'[u] # None
                            /\ pc'[v] = "claimed" => rowLock'[u] = v /\ stl'[u] = "PENDING"
    BY DEF ClaimsHeld
  <2>1. CASE v = w
    BY <1>1, <2>1 DEF Turn, BackedInv, TypeOK, ClaimsHeld, Idle
  <2>2. CASE v # w
    <3>1. pc'[v] = pc[v] /\ batch'[v] = batch[v] /\ batch[v] \subseteq Transfers
      BY <2>2 DEF Turn, BackedInv, TypeOK
    <3>2. ASSUME NEW u \in batch[v], pc[v] = "claimed" PROVE stl'[u] = "PENDING"
      BY <3>1, <3>2 DEF Turn, BackedInv, ClaimsHeld
    <3> QED
      BY <1>1, <3>1, <3>2 DEF Turn, BackedInv, ClaimsHeld
  <2> QED
    BY <2>1, <2>2
<1>3. PaidFirst'
  <2> SUFFICES ASSUME NEW v \in Workers, NEW u \in Transfers,
                      pc'[v] \in {"settled", "completing"}, Current(v, u)'
               PROVE  paid'[u] > 0
    BY DEF PaidFirst
  <2>0. paid'[u] >= paid[u] /\ paid[u] \in Nat /\ paid'[u] \in Nat
    BY DEF Turn, BackedInv, TypeOK
  <2>1. CASE v = w
    <3>1. batch'[w] = batch[w]
      BY <2>1 DEF Turn, Idle
    <3>2. u = t
      BY <2>1, <3>1 DEF Turn, Current, BackedInv, TypeOK
    <3> QED
      BY <2>1, <3>2
  <2>2. CASE v # w
    <3>1. Current(v, u) /\ pc[v] \in {"settled", "completing"}
      BY <2>2 DEF Turn, Current
    <3>2. paid[u] > 0
      BY <3>1 DEF BackedInv, PaidFirst
    <3> QED
      BY <2>0, <3>2
  <2> QED
    BY <2>1, <2>2
<1>4. StatusesBacked'
  <2> SUFFICES ASSUME NEW u \in Transfers
               PROVE  /\ (saga'[u] = None) = (stl'[u] = None)
                      /\ (saga'[u] = None) = (TransferTx(u) \notin headers')
                      /\ stl'[u] = "SETTLED" => paid'[u] > 0
                      /\ saga'[u] = "COMPENSATED" => Reversed(u)'
    BY DEF StatusesBacked
  <2>1. CASE u = t
    <3>1. stl'[t] = "SETTLED" => paid'[t] > 0
      BY DEF Turn, BackedInv, TypeOK, StatusesBacked
    <3>2. saga'[t] = "COMPENSATED" => Reversed(t)'
      BY DEF Turn, BackedInv, StatusesBacked, Reversed
    <3>3. TransferTx(t) \in headers'
      BY <1>0 DEF Turn, BackedInv, StatusesBacked
    <3> QED
      BY <1>1, <2>1, <3>1, <3>2, <3>3
  <2>2. CASE u # t
    BY <2>2 DEF Turn, BackedInv, StatusesBacked, Reversed
  <2> QED
    BY <2>1, <2>2
<1> QED
  BY <1>2, <1>3, <1>4 DEF BackedInv

\* BackedInv is inductive.
LEMMA BackedStep == BackedInv /\ [Next]_vars => BackedInv'
<1> SUFFICES ASSUME BackedInv, [Next]_vars PROVE BackedInv'
  OBVIOUS
<1> USE SettlementAssumption
<1>0. TypeOK
  BY DEF BackedInv
<1>1. ASSUME NEW t \in Transfers, PostTransfer(t) PROVE BackedInv'
  <2>1. /\ TypeOK' /\ UNCHANGED <<rowLock, pc, batch, paid>>
        /\ saga[t] = None /\ saga'[t] = "POSTED" /\ stl'[t] = "PENDING"
        /\ \A u \in Transfers \ {t} : saga'[u] = saga[u] /\ stl'[u] = stl[u]
        /\ \A u \in Transfers : CompTx(u) \in headers' <=> CompTx(u) \in headers
        /\ TransferTx(t) \in headers'
        /\ \A u \in Transfers \ {t} : TransferTx(u) \in headers' <=> TransferTx(u) \in headers
    BY <1>0, <1>1, PostShape
  <2>2. ClaimsHeld'
    BY <2>1 DEF BackedInv, TypeOK, ClaimsHeld
  <2>3. PaidFirst'
    BY <2>1 DEF BackedInv, PaidFirst, Current
  <2>4. StatusesBacked'
    BY <2>1 DEF BackedInv, StatusesBacked, Reversed
  <2> QED
    BY <2>1, <2>2, <2>3, <2>4 DEF BackedInv
<1>2. ASSUME NEW w \in Workers, Claim(w) PROVE BackedInv'
  <2>1. /\ TypeOK' /\ UNCHANGED <<headers, saga, stl, attempts, paid, faults>>
        /\ pc[w] = Idle /\ pc'[w] = "claimed"
        /\ \A v \in Workers \ {w} : pc'[v] = pc[v] /\ batch'[v] = batch[v]
        /\ \A t \in batch'[w] : stl[t] = "PENDING" /\ rowLock[t] = None /\ rowLock'[t] = w
        /\ \A t \in Transfers : rowLock[t] # None => rowLock'[t] = rowLock[t]
    BY <1>0, <1>2, ClaimShape
  <2>2. ClaimsHeld'
    <3>1. ASSUME NEW t \in batch'[w]
          PROVE  saga'[t] # None /\ stl'[t] = "PENDING" /\ stl'[t] # None /\ rowLock'[t] = w
      <4>1. t \in Transfers /\ stl[t] = "PENDING" /\ "PENDING" # None
        BY <2>1 DEF TypeOK
      <4> QED
        BY <2>1, <4>1 DEF BackedInv, StatusesBacked
    <3>2. ASSUME NEW v \in Workers, v # w, NEW t \in batch[v], pc[v] = "claimed"
          PROVE  rowLock'[t] = v
      BY <2>1, <3>2 DEF BackedInv, TypeOK, ClaimsHeld
    <3> QED
      BY <2>1, <3>1, <3>2 DEF BackedInv, ClaimsHeld, Idle
  <2>3. PaidFirst'
    BY <2>1 DEF BackedInv, PaidFirst, Current
  <2>4. StatusesBacked'
    BY <2>1 DEF BackedInv, StatusesBacked, Reversed
  <2> QED
    BY <2>1, <2>2, <2>3, <2>4 DEF BackedInv
<1>3. ASSUME NEW w \in Workers, ClaimCommit(w), ~ConnBusy PROVE BackedInv'
  <2>1. /\ TypeOK' /\ UNCHANGED <<headers, saga, stl, paid, batch>>
        /\ pc[w] = "claimed" /\ pc'[w] = "settling"
        /\ \A v \in Workers \ {w} : pc'[v] = pc[v]
        /\ \A t \in Transfers, v \in Workers \ {w} : rowLock[t] = v => rowLock'[t] = v
    BY <1>0, <1>3, CountShape
  <2>2. ClaimsHeld'
    BY <2>1 DEF BackedInv, TypeOK, ClaimsHeld, Idle
  <2>3. PaidFirst'
    BY <2>1 DEF BackedInv, PaidFirst, Current
  <2>4. StatusesBacked'
    BY <2>1 DEF BackedInv, StatusesBacked, Reversed
  <2> QED
    BY <2>1, <2>2, <2>3, <2>4 DEF BackedInv
<1>4. ASSUME NEW w \in Workers, Crash(w) \/ (ClaimCommit(w) /\ ConnBusy) PROVE BackedInv'
  BY <1>0, <1>4, LeaveShape, LeavesBacked
<1>5. ASSUME NEW w \in Workers, NEW t \in Transfers,
             \/ MarkSettling(w, t) \/ SarieSettle(w, t)
             \/ MarkSettled(w, t) \/ MarkCompleted(w, t)
             \/ Compensate(w, t) \/ PostCompensation(w, t) \/ CompensationFails(w, t)
             \/ MarkUnreversed(w, t) \/ MarkFailed(w, t) \/ MarkReversed(w, t)
      PROVE  BackedInv'
  <2>1. TypeOK' /\ (Turn(w, t) \/ Leaves(w))
    BY <1>0, <1>5, TurnShape
  <2>2. CASE Leaves(w)
    BY <2>1, <2>2, LeavesBacked
  <2>3. CASE Turn(w, t)
    <3>1. stl'[t] = "SETTLED" => stl[t] = "SETTLED" \/ paid'[t] > 0
      <4>1. CASE MarkSettled(w, t)
        BY <2>1, <4>1 DEF MarkSettled, BackedInv, PaidFirst
      <4>2. CASE MarkUnreversed(w, t) \/ MarkReversed(w, t)
        BY <1>0, <4>2 DEF MarkUnreversed, MarkReversed, UpdateSettlement, TypeOK
      <4> QED
        BY <1>5, <4>1, <4>2
        DEF MarkSettling, SarieSettle, MarkCompleted, Compensate, PostCompensation,
            CompensationFails, MarkFailed, rows
    <3>2. saga'[t] = "COMPENSATED" => saga[t] = "COMPENSATED" \/ Reversed(t)'
      <4>1. CASE PostCompensation(w, t)
        BY <4>1, TxIdsApart, PostHeaders DEF PostCompensation, Reversed
      <4>2. CASE MarkSettling(w, t) \/ MarkCompleted(w, t) \/ Compensate(w, t) \/ MarkFailed(w, t)
        BY <1>0, <4>2 DEF MarkSettling, MarkCompleted, Compensate, MarkFailed, UpdateSaga, TypeOK
      <4> QED
        BY <1>5, <4>1, <4>2
        DEF SarieSettle, MarkSettled, CompensationFails, MarkUnreversed, MarkReversed, rows
    <3>3. pc'[w] \in {"settled", "completing"} => paid'[t] > 0
      <4>1. CASE SarieSettle(w, t)
        BY <1>0, <4>1 DEF SarieSettle, Goto, TypeOK
      <4>2. CASE MarkSettled(w, t)
        BY <1>0, <4>2 DEF MarkSettled, BackedInv, PaidFirst
      <4>3. CASE MarkCompleted(w, t) \/ MarkFailed(w, t) \/ MarkReversed(w, t)
        BY <1>0, <4>3, NextItemEffect DEF MarkCompleted, MarkFailed, MarkReversed, Idle
      <4>4. CASE MarkSettling(w, t) \/ Compensate(w, t) \/ PostCompensation(w, t)
                 \/ CompensationFails(w, t) \/ MarkUnreversed(w, t)
        BY <1>0, <4>4
        DEF MarkSettling, Compensate, PostCompensation, CompensationFails, MarkUnreversed, Goto, TypeOK
      <4> QED
        BY <1>5, <4>1, <4>2, <4>3, <4>4
    <3> QED
      BY <2>1, <2>3, <3>1, <3>2, <3>3, TurnBacked
  <2> QED
    BY <2>1, <2>2, <2>3
<1>6. CASE UNCHANGED vars
  BY <1>6
  DEF vars, books, rows, worker, BackedInv, TypeOK, ClaimsHeld, PaidFirst, StatusesBacked,
      Current, Reversed
<1> QED
  BY <1>1, <1>2, <1>3, <1>4, <1>5, <1>6 DEF Next, Work

\* Rows in hand, payments made and statuses agree in every reachable state.
THEOREM BackedInvariant == Spec => []BackedInv
<1>1. Init => BackedInv
  <2> SUFFICES ASSUME Init PROVE BackedInv
    OBVIOUS
  <2>1. headers = SeedIds
    BY DEF Init, Ledger!Init
  <2>2. \A t \in Transfers : TransferTx(t) \notin headers /\ CompTx(t) \notin headers
    BY <2>1, TxIdsApart, SeedIdsAssumption
  <2>3. TypeOK
    BY SettlementAssumption DEF Init, TypeOK, Labels
  <2>4. ClaimsHeld /\ PaidFirst
    BY DEF Init, ClaimsHeld, PaidFirst, Idle
  <2>5. StatusesBacked
    BY <2>2, SettlementAssumption DEF Init, StatusesBacked
  <2> QED
    BY <2>3, <2>4, <2>5 DEF BackedInv
<1> QED
  BY <1>1, BackedStep, PTL DEF Spec

\* The settlement and saga rows, the journal and the rail agree, whatever workers
\* do at the same time and wherever they crash.
THEOREM StatusesAlwaysBacked == Spec => []StatusesBacked
<1>1. BackedInv => StatusesBacked
  BY DEF BackedInv
<1> QED
  BY <1>1, BackedInvariant, PTL

\* Type correctness of the worker.
THEOREM SettlementTypeCorrect == Spec => []TypeOK
<1>1. BackedInv => TypeOK
  BY DEF BackedInv
<1> QED
  BY <1>1, BackedInvariant, PTL

-----------------------------------------------------------------------------

\* The workers that owe an outcome can be counted.
LEMMA OwingFinite ==
    ASSUME NEW S \in SUBSET Workers, NEW T \in SUBSET Workers, NEW w
    PROVE  /\ Cardinality(S) \in Nat /\ Cardinality(T) \in Nat
           /\ S \subseteq T => Cardinality(S) <= Cardinality(T)
           /\ S \subseteq T \ {w} /\ w \in T => Cardinality(S) + 1 <= Cardinality(T)
           /\ S \subseteq T \union {w} => Cardinality(S) <= Cardinality(T) + 1
<1>0. IsFiniteSet(Workers)
  BY SettlementAssumption
<1>1. IsFiniteSet(S) /\ IsFiniteSet(T)
  BY <1>0, FS_Subset
<1>2. Cardinality(S) \in Nat /\ Cardinality(T) \in Nat
  BY <1>1, FS_CardinalityType
<1>3. ASSUME S \subseteq T PROVE Cardinality(S) <= Cardinality(T)
  BY <1>1, <1>3, FS_Subset
<1>4. ASSUME S \subseteq T \ {w}, w \in T PROVE Cardinality(S) + 1 <= Cardinality(T)
  <2>1. IsFiniteSet(T \ {w}) /\ Cardinality(T \ {w}) = Cardinality(T) - 1
    BY <1>1, <1>4, FS_RemoveElement
  <2>2. Cardinality(S) <= Cardinality(T \ {w})
    BY <1>4, <2>1, FS_Subset
  <2> QED
    BY <1>2, <2>1, <2>2
<1>5. ASSUME S \subseteq T \union {w} PROVE Cardinality(S) <= Cardinality(T) + 1
  <2>1. IsFiniteSet(T \union {w})
        /\ Cardinality(T \union {w}) = IF w \in T THEN Cardinality(T) ELSE Cardinality(T) + 1
    BY <1>1, FS_AddElement
  <2>2. Cardinality(S) <= Cardinality(T \union {w})
    BY <1>5, <2>1, FS_Subset
  <2> QED
    BY <1>2, <2>1, <2>2
<1> QED
  BY <1>2, <1>3, <1>4, <1>5

\* A step keeps the attempts covering t if nobody owes more and no outcome is new,
\* if who had an outcome due delivers it, or if an attempt is counted for a worker.
LEMMA CoverKept ==
    ASSUME TypeOK, TypeOK', NEW t \in Transfers, NEW w \in Workers,
           Outcomes(t) + Cardinality(Owing(t)) <= attempts[t],
           \/ /\ Owing(t)' \subseteq Owing(t)
              /\ Outcomes(t)' = Outcomes(t) /\ attempts'[t] = attempts[t]
           \/ /\ w \in Owing(t) /\ Owing(t)' \subseteq Owing(t) \ {w}
              /\ Outcomes(t)' = Outcomes(t) + 1 /\ attempts'[t] = attempts[t]
           \/ /\ Owing(t)' \subseteq Owing(t) \union {w}
              /\ Outcomes(t)' = Outcomes(t) /\ attempts'[t] = attempts[t] + 1
    PROVE  Outcomes(t)' + Cardinality(Owing(t)') <= attempts'[t]
<1> DEFINE S == Owing(t)'
           T == Owing(t)
<1>1. S \in SUBSET Workers /\ T \in SUBSET Workers
  BY DEF Owing
<1>2. Outcomes(t) \in Nat /\ attempts[t] \in Nat
  BY DEF Outcomes, TypeOK
<1>3. /\ Cardinality(S) \in Nat /\ Cardinality(T) \in Nat
      /\ S \subseteq T => Cardinality(S) <= Cardinality(T)
      /\ S \subseteq T \ {w} /\ w \in T => Cardinality(S) + 1 <= Cardinality(T)
      /\ S \subseteq T \union {w} => Cardinality(S) <= Cardinality(T) + 1
  <2> HIDE DEF S, T
  <2> QED
    BY <1>1, OwingFinite
<1> QED
  BY <1>2, <1>3

\* The labels at which a worker has neither paid nor given up its current row.
Due == {"settling", "calling", "reversing", "posting"}

\* A step on row t disturbs what workers owe on t only.
LEMMA TurnOwing ==
    ASSUME TypeOK, NEW w \in Workers, NEW t \in Transfers, Turn(w, t)
    PROVE  /\ \A u \in Transfers \ {t} : Owing(u)' \subseteq Owing(u)
           /\ Owing(t)' \subseteq Owing(t) \union {w}
           /\ w \in Owing(t) <=> pc[w] \in Due
           /\ w \in Owing(t)' => pc'[w] \in Due \ {"settling"}
<1> USE SettlementAssumption DEF Turn, Due, Idle
<1>1. \A v \in Workers \ {w}, u \in Transfers : Current(v, u)' <=> Current(v, u)
  BY DEF Current
<1>2. \A v \in Workers \ {w}, u \in Transfers : v \in Owing(u)' <=> v \in Owing(u)
  BY <1>1 DEF Owing
<1>3. ASSUME NEW u \in Transfers, u # t, w \in Owing(u)' PROVE w \in Owing(u)
  <2>1. u \in batch[w] /\ pc[w] # "claimed"
    BY <1>3 DEF Owing
  <2>2. ~Current(w, u)
    BY <1>3 DEF Current, TypeOK
  <2> QED
    BY <2>1, <2>2 DEF Owing
<1>4. w \in Owing(t) <=> pc[w] \in Due
  BY DEF Owing, Current
<1>5. ASSUME w \in Owing(t)' PROVE pc'[w] \in Due \ {"settling"}
  <2>1. t \in batch'[w]
    BY <1>5 DEF Owing
  <2>2. batch'[w] = batch[w] /\ pc'[w] \notin {Idle, "claimed", "settling"}
    BY <2>1
  <2>3. Current(w, t)'
    BY <2>2 DEF Current
  <2> QED
    BY <1>5, <2>2, <2>3 DEF Owing
<1>6. \A u \in Transfers : Owing(u) \subseteq Workers /\ Owing(u)' \subseteq Workers
  BY DEF Owing
<1> QED
  BY <1>2, <1>3, <1>4, <1>5, <1>6

\* What a worker leaves it no longer owes.
LEMMA LeavesOwing ==
    ASSUME TypeOK, NEW w \in Workers, Leaves(w)
    PROVE  /\ \A u \in Transfers : Owing(u)' \subseteq Owing(u)
           /\ \A u \in Transfers : Outcomes(u)' = Outcomes(u)
           /\ attempts' = attempts
<1>1. /\ batch'[w] = {} /\ UNCHANGED <<headers, attempts, paid>>
      /\ \A v \in Workers \ {w} : batch'[v] = batch[v] /\ pc'[v] = pc[v]
  BY DropEffect DEF Leaves
<1>2. \A u \in Transfers : Owing(u)' \subseteq Owing(u)
  BY <1>1 DEF Owing, Current
<1> QED
  BY <1>1, <1>2 DEF Outcomes, Reversed

\* The attempts cover the outcomes and the outcomes that are due.
LEMMA CoverStep ==
    ASSUME BackedInv, BackedInv', AttemptsCover, [Next]_vars
    PROVE  AttemptsCover'
<1> SUFFICES ASSUME NEW u \in Transfers
             PROVE  Outcomes(u)' + Cardinality(Owing(u)') <= attempts'[u]
  BY DEF AttemptsCover
<1>0. TypeOK /\ TypeOK' /\ Outcomes(u) + Cardinality(Owing(u)) <= attempts[u]
  BY DEF BackedInv, AttemptsCover
<1>1. ASSUME NEW t \in Transfers, PostTransfer(t)
      PROVE  Owing(u)' = Owing(u) /\ Outcomes(u)' = Outcomes(u) /\ attempts'[u] = attempts[u]
  <2>1. /\ UNCHANGED <<attempts, rowLock, pc, batch, paid, faults>>
        /\ CompTx(u) \in headers' <=> CompTx(u) \in headers
    BY <1>0, <1>1, PostShape
  <2> QED
    BY <2>1 DEF Owing, Current, Outcomes, Reversed
<1>2. ASSUME NEW w \in Workers, Claim(w)
      PROVE  Owing(u)' \subseteq Owing(u) /\ Outcomes(u)' = Outcomes(u) /\ attempts'[u] = attempts[u]
  <2>1. /\ UNCHANGED <<headers, saga, stl, attempts, paid, faults>>
        /\ pc'[w] = "claimed"
        /\ \A v \in Workers \ {w} : pc'[v] = pc[v] /\ batch'[v] = batch[v]
    BY <1>0, <1>2, ClaimShape
  <2>2. Owing(u)' \subseteq Owing(u)
    BY <2>1 DEF Owing, Current
  <2> QED
    BY <2>1, <2>2 DEF Outcomes, Reversed
<1>3. ASSUME NEW w \in Workers, ClaimCommit(w), ~ConnBusy
      PROVE  Outcomes(u)' + Cardinality(Owing(u)') <= attempts'[u]
  <2>1. /\ UNCHANGED <<headers, saga, stl, paid, faults, batch>>
        /\ \A v \in Workers \ {w} : pc'[v] = pc[v]
        /\ attempts'[u] = attempts[u] + (IF u \in batch[w] THEN 1 ELSE 0)
    BY <1>0, <1>3, CountShape
  <2>2. Owing(u)' \subseteq Owing(u) \union {w}
    BY <2>1 DEF Owing, Current
  <2>3. Outcomes(u)' = Outcomes(u)
    BY <2>1 DEF Outcomes, Reversed
  <2>4. CASE u \in batch[w]
    <3>1. attempts'[u] = attempts[u] + 1
      BY <2>1, <2>4
    <3> QED
      BY <1>0, <2>2, <2>3, <3>1, CoverKept
  <2>5. CASE u \notin batch[w]
    <3>1. attempts'[u] = attempts[u]
      BY <1>0, <2>1, <2>5 DEF TypeOK
    <3>2. w \notin Owing(u)'
      BY <2>1, <2>5 DEF Owing
    <3>3. Owing(u)' \subseteq Owing(u)
      BY <2>2, <3>2
    <3> QED
      BY <1>0, <2>3, <3>1, <3>3, CoverKept
  <2> QED
    BY <2>4, <2>5
<1>4. ASSUME NEW w \in Workers, Leaves(w)
      PROVE  Owing(u)' \subseteq Owing(u) /\ Outcomes(u)' = Outcomes(u) /\ attempts'[u] = attempts[u]
  BY <1>0, <1>4, LeavesOwing
<1>5. ASSUME NEW w \in Workers, NEW t \in Transfers, Turn(w, t),
             \/ MarkSettling(w, t) \/ SarieSettle(w, t)
             \/ MarkSettled(w, t) \/ MarkCompleted(w, t)
             \/ Compensate(w, t) \/ PostCompensation(w, t) \/ CompensationFails(w, t)
             \/ MarkUnreversed(w, t) \/ MarkFailed(w, t) \/ MarkReversed(w, t)
      PROVE  Outcomes(u)' + Cardinality(Owing(u)') <= attempts'[u]
  <2>0. attempts'[u] = attempts[u]
    BY <1>5 DEF Turn
  <2>1. /\ u # t => Owing(u)' \subseteq Owing(u)
        /\ Owing(t)' \subseteq Owing(t) \union {w}
        /\ w \in Owing(t) <=> pc[w] \in Due
        /\ w \in Owing(t)' => pc'[w] \in Due \ {"settling"}
    BY <1>0, <1>5, TurnOwing
  <2>2. CASE u # t
    <3>1. Outcomes(u)' = Outcomes(u)
      BY <1>5, <2>2 DEF Turn, Outcomes, Reversed
    <3> QED
      BY <1>0, <2>0, <2>1, <2>2, <3>1, CoverKept
  <2>3. ASSUME u = t, Outcomes(t)' = Outcomes(t), pc'[w] \in Due \ {"settling"} => pc[w] \in Due
        PROVE  Outcomes(u)' + Cardinality(Owing(u)') <= attempts'[u]
    <3>1. Owing(u)' \subseteq Owing(u)
      BY <2>1, <2>3
    <3> QED
      BY <1>0, <2>0, <2>3, <3>1, CoverKept
  <2>4. ASSUME u = t, Outcomes(t)' = Outcomes(t) + 1, pc[w] \in Due, pc'[w] \notin Due
        PROVE  Outcomes(u)' + Cardinality(Owing(u)') <= attempts'[u]
    <3>1. w \in Owing(u) /\ Owing(u)' \subseteq Owing(u) \ {w}
      BY <2>1, <2>4
    <3> QED
      BY <1>0, <2>0, <2>4, <3>1, CoverKept
  <2>5. ASSUME u = t, SarieSettle(w, t)
        PROVE  Outcomes(u)' + Cardinality(Owing(u)') <= attempts'[u]
    <3>1. CASE paid' = [paid EXCEPT ![t] = @ + 1] /\ Goto(w, "settled")
      <4>1. Outcomes(t)' = Outcomes(t) + 1
        BY <1>0, <2>5, <3>1 DEF SarieSettle, books, TypeOK, Outcomes, Reversed
      <4> QED
        BY <1>0, <2>4, <2>5, <3>1, <4>1 DEF SarieSettle, Goto, TypeOK, Due
    <3>2. CASE UNCHANGED paid /\ Goto(w, "reversing")
      BY <2>3, <2>5, <3>2 DEF SarieSettle, books, Outcomes, Reversed, Due
    <3> QED
      BY <2>5, <3>1, <3>2 DEF SarieSettle
  <2>6. ASSUME u = t, PostCompensation(w, t)
        PROVE  Outcomes(u)' + Cardinality(Owing(u)') <= attempts'[u]
    <3>1. Outcomes(t)' = Outcomes(t) + 1
      <4>1. ~Reversed(t) /\ Reversed(t)' /\ paid' = paid
        BY <2>6, TxIdsApart, PostHeaders DEF PostCompensation, Reversed
      <4> QED
        BY <1>0, <4>1 DEF Outcomes, TypeOK
    <3>2. pc[w] = "posting" /\ pc'[w] \in {"reversed", "unreversed"}
      BY <1>0, <2>6 DEF PostCompensation, Goto, TypeOK
    <3> QED
      BY <2>4, <2>6, <3>1, <3>2 DEF Due
  <2>7. ASSUME u = t, ~SarieSettle(w, t), ~PostCompensation(w, t)
        PROVE  Outcomes(u)' + Cardinality(Owing(u)') <= attempts'[u]
    <3>1. UNCHANGED <<headers, paid>>
      BY <1>5, <2>7
      DEF MarkSettling, MarkSettled, MarkCompleted, Compensate, CompensationFails,
          MarkUnreversed, MarkFailed, MarkReversed, books
    <3>2. pc'[w] \in Due \ {"settling"} => pc[w] \in Due
      <4>1. CASE MarkCompleted(w, t) \/ MarkFailed(w, t) \/ MarkReversed(w, t)
        BY <1>0, <4>1, NextItemEffect DEF MarkCompleted, MarkFailed, MarkReversed, Idle, Due
      <4>2. CASE MarkSettled(w, t)
        <5>1. CASE Goto(w, "completing")
          BY <1>0, <5>1, GotoEffect DEF Labels, Due
        <5>2. CASE Drop(w)
          BY <1>0, <5>2, DropEffect DEF Idle, Due
        <5> QED
          BY <4>2, <5>1, <5>2 DEF MarkSettled
      <4>3. CASE MarkSettling(w, t) \/ Compensate(w, t) \/ CompensationFails(w, t)
                 \/ MarkUnreversed(w, t)
        BY <1>0, <4>3
        DEF MarkSettling, Compensate, CompensationFails, MarkUnreversed, Goto, TypeOK, Due
      <4> QED
        BY <1>5, <2>7, <4>1, <4>2, <4>3
    <3>3. Outcomes(t)' = Outcomes(t)
      BY <3>1 DEF Outcomes, Reversed
    <3> QED
      BY <2>3, <2>7, <3>2, <3>3
  <2> QED
    BY <2>2, <2>5, <2>6, <2>7
<1>6. CASE UNCHANGED vars
  <2>1. Owing(u)' = Owing(u) /\ Outcomes(u)' = Outcomes(u) /\ attempts'[u] = attempts[u]
    BY <1>6 DEF vars, books, rows, worker, Owing, Current, Outcomes, Reversed
  <2> QED
    BY <1>0, <2>1
<1>7. ASSUME Owing(u)' \subseteq Owing(u), Outcomes(u)' = Outcomes(u), attempts'[u] = attempts[u],
             NEW w \in Workers
      PROVE  Outcomes(u)' + Cardinality(Owing(u)') <= attempts'[u]
  BY <1>0, <1>7, CoverKept
<1>8. CASE \E t \in Transfers : PostTransfer(t)
  BY <1>0, <1>1, <1>8
<1>9. ASSUME NEW w \in Workers, Work(w) \/ Crash(w)
      PROVE  Outcomes(u)' + Cardinality(Owing(u)') <= attempts'[u]
  <2>1. CASE Claim(w)
    BY <1>2, <1>7, <2>1
  <2>2. CASE ClaimCommit(w) /\ ~ConnBusy
    BY <1>3, <2>2
  <2>3. CASE Crash(w) \/ (ClaimCommit(w) /\ ConnBusy)
    BY <1>0, <1>4, <1>7, <2>3, LeaveShape
  <2>4. ASSUME NEW t \in Transfers,
               \/ MarkSettling(w, t) \/ SarieSettle(w, t)
               \/ MarkSettled(w, t) \/ MarkCompleted(w, t)
               \/ Compensate(w, t) \/ PostCompensation(w, t) \/ CompensationFails(w, t)
               \/ MarkUnreversed(w, t) \/ MarkFailed(w, t) \/ MarkReversed(w, t)
        PROVE  Outcomes(u)' + Cardinality(Owing(u)') <= attempts'[u]
    <3>1. Turn(w, t) \/ Leaves(w)
      BY <1>0, <2>4, TurnShape
    <3>2. CASE Turn(w, t)
      BY <1>5, <2>4, <3>2
    <3>3. CASE Leaves(w)
      BY <1>4, <1>7, <3>3
    <3> QED
      BY <3>1, <3>2, <3>3
  <2> QED
    BY <1>9, <2>1, <2>2, <2>3, <2>4 DEF Work
<1> QED
  BY <1>6, <1>8, <1>9 DEF Next

\* Payments and reversals of a transfer never outnumber the attempts its row has
\* counted, however many workers claim it and crash.
THEOREM OutcomesWithinAttempts == Spec => []OneOutcomePerAttempt
<1>1. Init => AttemptsCover
  <2> SUFFICES ASSUME Init, NEW t \in Transfers
               PROVE  Outcomes(t) + Cardinality(Owing(t)) <= attempts[t]
    BY DEF AttemptsCover
  <2>1. ~Reversed(t)
    BY TxIdsApart, SeedIdsAssumption DEF Init, Ledger!Init, Reversed
  <2>2. Owing(t) = {}
    BY DEF Init, Owing
  <2> QED
    BY <2>1, <2>2, FS_EmptySet DEF Init, Outcomes
<1>2. TypeOK /\ AttemptsCover => OneOutcomePerAttempt
  <2> SUFFICES ASSUME TypeOK, AttemptsCover, NEW t \in Transfers
               PROVE  Outcomes(t) <= attempts[t]
    BY DEF OneOutcomePerAttempt
  <2>1. Owing(t) \in SUBSET Workers
    BY DEF Owing
  <2>2. Cardinality(Owing(t)) \in Nat
    BY <2>1, OwingFinite
  <2>3. Outcomes(t) \in Nat /\ attempts[t] \in Nat
    BY DEF Outcomes, TypeOK
  <2> QED
    BY <2>2, <2>3 DEF AttemptsCover
<1> QED
  BY <1>1, <1>2, CoverStep, BackedInvariant, SettlementTypeCorrect, PTL DEF Spec

-----------------------------------------------------------------------------

\* A step on row t leaves in place who has another row in hand, and at what label.
LEMMA TurnHaving ==
    ASSUME TypeOK, NEW w \in Workers, NEW t \in Transfers, Turn(w, t)
    PROVE  /\ \A u \in Transfers \ {t} :
                 /\ Having(u)' = Having(u)
                 /\ \A v \in Having(u) : Label(v, u)' = Label(v, u)
           /\ w \in Having(t) /\ Label(w, t) = pc[w]
           /\ Having(t)' = IF batch'[w] = batch[w] THEN Having(t) ELSE Having(t) \ {w}
           /\ batch'[w] = batch[w] => Label(w, t)' = pc'[w]
<1> USE SettlementAssumption DEF Turn, Idle
<1>1. \A v \in Workers \ {w}, u \in Transfers :
          /\ v \in Having(u)' <=> v \in Having(u)
          /\ Label(v, u)' = Label(v, u)
  BY DEF Having, Label, Current
<1>2. ASSUME NEW u \in Transfers, u # t
      PROVE  /\ w \in Having(u)' <=> w \in Having(u)
             /\ w \in Having(u) => Label(w, u)' = Label(w, u)
  <2>1. w \in Having(u)' <=> w \in Having(u)
    BY <1>2 DEF Having
  <2>2. ASSUME w \in Having(u) PROVE Label(w, u)' = Label(w, u)
    <3>1. u \in batch[w] /\ u \in batch'[w]
      BY <1>2, <2>2 DEF Having
    <3>2. Label(w, u) = "settling"
      BY <1>2, <3>1 DEF Label, Current, TypeOK
    <3>3. CASE batch'[w] = batch[w]
      BY <1>2, <3>1, <3>2, <3>3 DEF Label, Current, TypeOK
    <3>4. CASE batch'[w] # batch[w]
      BY <3>1, <3>2, <3>4 DEF Label
    <3> QED
      BY <3>3, <3>4
  <2> QED
    BY <2>1, <2>2
<1>3. w \in Having(t) /\ Label(w, t) = pc[w]
  BY DEF Having, Label, Current
<1>4. w \in Having(t)' <=> batch'[w] = batch[w]
  BY DEF Having, Current
<1>5. batch'[w] = batch[w] => Label(w, t)' = pc'[w]
  BY DEF Label, Current
<1>6. \A u \in Transfers : Having(u) \subseteq Workers /\ Having(u)' \subseteq Workers
  BY DEF Having
<1>7. ASSUME NEW u \in Transfers, u # t PROVE Having(u)' = Having(u)
  <2>1. \A v \in Workers : v \in Having(u)' <=> v \in Having(u)
    BY <1>1, <1>2, <1>7
  <2> QED
    BY <2>1, <1>6 DEF Having
<1>8. Having(t)' = IF batch'[w] = batch[w] THEN Having(t) ELSE Having(t) \ {w}
  BY <1>1, <1>3, <1>4, <1>6
<1> QED
  BY <1>1, <1>2, <1>3, <1>5, <1>6, <1>7, <1>8

\* Without a fault, a step takes its row from one label's state to the next one's,
\* and the last step of a round leaves a row that tells what happened.
LEMMA LabelStep ==
    ASSUME TypeOK, NEW w \in Workers, NEW t \in Transfers, faults = 0, faults' = 0,
           Stands(t, pc[w]), Turn(w, t),
           \/ MarkSettling(w, t) \/ SarieSettle(w, t)
           \/ MarkSettled(w, t) \/ MarkCompleted(w, t)
           \/ Compensate(w, t) \/ PostCompensation(w, t) \/ CompensationFails(w, t)
           \/ MarkUnreversed(w, t) \/ MarkFailed(w, t) \/ MarkReversed(w, t)
    PROVE  IF batch'[w] = batch[w] THEN Stands(t, pc[w])' ELSE Told(t)'
<1>f. ~Fault
  BY DEF Fault
<1>g. ASSUME NEW l \in Labels, Goto(w, l) PROVE pc'[w] = l
  BY <1>g, GotoEffect
<1>s. ASSUME NEW state, UpdateSaga(t, state) PROVE saga'[t] = state
  BY <1>f, <1>s DEF UpdateSaga, TypeOK
<1>u. ASSUME NEW x, UpdateSettlement(t, x) PROVE stl'[t] = x
  BY <1>u DEF UpdateSettlement, TypeOK
<1>n. ASSUME NextItem(w, t) PROVE batch'[w] # batch[w]
  BY <1>n, NextItemEffect DEF Turn, Current
<1>1. CASE MarkSettling(w, t)
  <2>1. pc[w] = "settling" /\ pc'[w] = "calling" /\ saga'[t] = "SETTLING"
        /\ UNCHANGED <<headers, stl, batch, paid>>
    BY <1>1, <1>g, <1>s DEF MarkSettling, books, Labels
  <2> QED
    BY <2>1 DEF Stands, Reversed
<1>2. CASE SarieSettle(w, t)
  <2>1. /\ pc[w] = "calling" /\ UNCHANGED <<headers, stl, saga, batch>>
        /\ \/ pc'[w] = "settled" /\ paid'[t] = paid[t] + 1
           \/ pc'[w] = "reversing" /\ paid'[t] = paid[t]
    BY <1>2, <1>g DEF SarieSettle, books, rows, Labels, TypeOK
  <2> QED
    BY <2>1 DEF Stands, Reversed
<1>3. CASE MarkSettled(w, t)
  <2>1. pc[w] = "settled" /\ pc'[w] = "completing" /\ stl'[t] = "SETTLED"
        /\ UNCHANGED <<headers, saga, batch, paid>>
    BY <1>3, <1>f, <1>g, <1>u DEF MarkSettled, books, Labels
  <2> QED
    BY <2>1 DEF Stands, Reversed
<1>4. CASE MarkCompleted(w, t)
  <2>1. pc[w] = "completing" /\ saga'[t] = "COMPLETED" /\ batch'[w] # batch[w]
        /\ UNCHANGED <<headers, stl, paid>>
    BY <1>4, <1>n, <1>s DEF MarkCompleted, books
  <2> QED
    BY <2>1 DEF Stands, Told, Terminal, Reversed
<1>5. CASE Compensate(w, t)
  <2>1. pc[w] = "reversing" /\ pc'[w] = "posting" /\ saga'[t] = "COMPENSATING"
        /\ UNCHANGED <<headers, stl, batch, paid>>
    BY <1>5, <1>f, <1>g, <1>s DEF Compensate, books, Labels
  <2> QED
    BY <2>1 DEF Stands, Reversed
<1>6. CASE PostCompensation(w, t)
  <2>1. pc[w] = "posting" /\ pc'[w] = "reversed" /\ saga'[t] = "COMPENSATED"
        /\ UNCHANGED <<stl, batch, paid>>
    BY <1>6, <1>f, <1>g DEF PostCompensation, Labels, TypeOK
  <2>2. Reversed(t)'
    BY <1>6, TxIdsApart, PostHeaders DEF PostCompensation, Reversed
  <2> QED
    BY <2>1, <2>2 DEF Stands
<1>7. CASE CompensationFails(w, t)
  <2>1. pc[w] = "posting" /\ pc'[w] = "unreversed"
        /\ UNCHANGED <<headers, saga, stl, batch, paid>>
    BY <1>7, <1>g DEF CompensationFails, books, rows, Labels
  <2> QED
    BY <2>1 DEF Stands, Reversed
<1>8. CASE MarkUnreversed(w, t)
  <2>1. pc[w] = "unreversed" /\ pc'[w] = "failing" /\ stl'[t] = "FAILED"
        /\ UNCHANGED <<headers, saga, batch, paid>>
    BY <1>8, <1>f, <1>g, <1>u DEF MarkUnreversed, books, Labels
  <2> QED
    BY <2>1 DEF Stands, Reversed
<1>9. CASE MarkFailed(w, t)
  <2>1. pc[w] = "failing" /\ saga'[t] = "FAILED" /\ batch'[w] # batch[w]
        /\ UNCHANGED <<headers, stl, paid>>
    BY <1>9, <1>n, <1>s DEF MarkFailed, books
  <2> QED
    BY <2>1 DEF Stands, Told, Terminal, Reversed
<1>10. CASE MarkReversed(w, t)
  <2>1. pc[w] = "reversed" /\ stl'[t] = "FAILED" /\ batch'[w] # batch[w]
        /\ UNCHANGED <<headers, saga, paid>>
    BY <1>10, <1>f, <1>n, <1>u DEF MarkReversed, books
  <2> QED
    BY <2>1 DEF Stands, Told, Terminal, Reversed
<1> QED
  BY <1>1, <1>2, <1>3, <1>4, <1>5, <1>6, <1>7, <1>8, <1>9, <1>10

\* A step that moves neither t's rows nor who has t in hand changes nothing.
LEMMA FirstKept ==
    ASSUME NEW t \in Transfers, First(t),
           attempts'[t] = attempts[t], stl'[t] = stl[t], saga'[t] = saga[t],
           paid'[t] = paid[t], CompTx(t) \in headers' <=> CompTx(t) \in headers,
           Having(t)' = Having(t), \A v \in Having(t) : Label(v, t)' = Label(v, t)
    PROVE  First(t)'
<1>1. Reversed(t)' <=> Reversed(t)
  BY DEF Reversed
<1>2. \A l : Stands(t, l)' <=> Stands(t, l)
  BY <1>1 DEF Stands
<1>3. Told(t)' <=> Told(t)
  BY <1>1 DEF Told
<1> QED
  BY <1>1, <1>2, <1>3 DEF First

\* Every step without a fault keeps the first attempt on its way.
LEMMA FirstStep ==
    ASSUME BackedInv, BackedInv', FirstAttempt, [Next]_vars
    PROVE  FirstAttempt'
<1> SUFFICES ASSUME faults' = 0, NEW u \in Transfers PROVE First(u)'
  BY DEF FirstAttempt
<1>0. TypeOK /\ TypeOK' /\ ClaimsHeld
  BY DEF BackedInv
<1>f. faults = 0
  BY <1>0, SettlementAssumption
  DEF TypeOK, Next, Work, PostTransfer, Claim, ClaimCommit, MarkSettling, SarieSettle,
      MarkSettled, MarkCompleted, Compensate, PostCompensation, CompensationFails,
      MarkUnreversed, MarkFailed, MarkReversed, Crash, UpdateSaga, Fault, NoFault, vars
<1>i. First(u)
  BY <1>f DEF FirstAttempt
<1>1. ASSUME NEW t \in Transfers, PostTransfer(t) PROVE First(u)'
  <2>1. /\ UNCHANGED <<attempts, rowLock, pc, batch, paid, faults>>
        /\ saga[t] = None /\ saga'[t] = "POSTED" /\ stl'[t] = "PENDING"
        /\ \A x \in Transfers \ {t} : saga'[x] = saga[x] /\ stl'[x] = stl[x]
        /\ CompTx(u) \in headers' <=> CompTx(u) \in headers
    BY <1>0, <1>1, PostShape
  <2>2. Having(u)' = Having(u) /\ \A v \in Workers : Label(v, u)' = Label(v, u)
    BY <2>1 DEF Having, Label, Current
  <2>3. Having(u) \subseteq Workers
    BY DEF Having
  <2>4. CASE u # t
    BY <1>i, <2>1, <2>2, <2>3, <2>4, FirstKept
  <2>5. CASE u = t
    <3>1. Having(t) = {}
      BY <1>0, <2>1 DEF ClaimsHeld, Having
    <3>2. ~Told(t)
      BY <2>1, SettlementAssumption DEF Told, Terminal
    <3>3. attempts[t] # 1
      BY <1>i, <2>5, <3>1, <3>2 DEF First
    <3> QED
      BY <1>i, <2>1, <2>2, <2>5, <3>1, <3>3 DEF First, Reversed
  <2> QED
    BY <2>4, <2>5
<1>2. ASSUME NEW w \in Workers, Claim(w) PROVE First(u)'
  <2>1. /\ UNCHANGED <<headers, saga, stl, attempts, paid, faults>>
        /\ pc[w] = Idle /\ pc'[w] = "claimed"
        /\ \A v \in Workers \ {w} : pc'[v] = pc[v] /\ batch'[v] = batch[v]
    BY <1>0, <1>2, ClaimShape
  <2>2. w \notin Having(u) /\ w \notin Having(u)'
    BY <1>0, <2>1 DEF ClaimsHeld, Having
  <2>3. /\ Having(u)' = Having(u)
        /\ \A v \in Having(u) : Label(v, u)' = Label(v, u)
    BY <2>1, <2>2 DEF Having, Label, Current
  <2> QED
    BY <1>i, <2>1, <2>3, FirstKept
<1>3. ASSUME NEW w \in Workers, ClaimCommit(w), ~ConnBusy PROVE First(u)'
  <2>1. /\ UNCHANGED <<headers, saga, stl, paid, faults, batch>>
        /\ pc[w] = "claimed" /\ pc'[w] = "settling"
        /\ \A v \in Workers \ {w} : pc'[v] = pc[v]
        /\ attempts'[u] = attempts[u] + (IF u \in batch[w] THEN 1 ELSE 0)
    BY <1>0, <1>3, CountShape
  <2>2. attempts[u] \in Nat
    BY <1>0 DEF TypeOK
  <2>3. CASE u \notin batch[w]
    <3>1. attempts'[u] = attempts[u]
      BY <2>1, <2>2, <2>3
    <3>2. /\ Having(u)' = Having(u)
          /\ \A v \in Having(u) : Label(v, u)' = Label(v, u)
      BY <2>1, <2>3 DEF Having, Label, Current
    <3> QED
      BY <1>i, <2>1, <3>1, <3>2, FirstKept
  <2>4. CASE u \in batch[w] /\ attempts[u] = 0
    <3>1. attempts'[u] = 1
      BY <2>1, <2>4
    <3>2. Having(u) = {} /\ paid[u] = 0 /\ ~Reversed(u)
      BY <1>i, <2>4 DEF First
    <3>3. \A v \in Workers \ {w} : v \notin Having(u)'
      BY <2>1, <3>2 DEF Having
    <3>4. Having(u)' = {w}
      BY <2>1, <2>4, <3>3 DEF Having
    <3>5. Label(w, u)' = "settling"
      BY <2>1 DEF Label
    <3>6. stl'[u] = "PENDING" /\ paid'[u] = 0 /\ ~Reversed(u)'
      BY <1>0, <2>1, <2>4, <3>2 DEF ClaimsHeld, Reversed
    <3>7. Stands(u, "settling")'
      BY <3>6 DEF Stands
    <3> QED
      BY <3>1, <3>4, <3>5, <3>7 DEF First
  <2>5. CASE u \in batch[w] /\ attempts[u] # 0
    <3>1. attempts'[u] \notin {0, 1}
      BY <2>1, <2>2, <2>5
    <3> QED
      BY <3>1 DEF First
  <2> QED
    BY <2>3, <2>4, <2>5
<1>4. ASSUME NEW w \in Workers, ClaimCommit(w), ConnBusy PROVE First(u)'
  <2>1. /\ pc[w] = "claimed" /\ batch'[w] = {}
        /\ UNCHANGED <<headers, saga, stl, attempts, paid>>
        /\ \A v \in Workers \ {w} : batch'[v] = batch[v] /\ pc'[v] = pc[v]
    BY <1>0, <1>4, LeaveShape, DropEffect DEF Leaves, ClaimCommit
  <2>2. /\ Having(u)' = Having(u)
        /\ \A v \in Having(u) : Label(v, u)' = Label(v, u)
    BY <2>1 DEF Having, Label, Current
  <2> QED
    BY <1>i, <2>1, <2>2, FirstKept
<1>5. ASSUME NEW w \in Workers, NEW t \in Transfers,
             \/ MarkSettling(w, t) \/ SarieSettle(w, t)
             \/ MarkSettled(w, t) \/ MarkCompleted(w, t)
             \/ Compensate(w, t) \/ PostCompensation(w, t) \/ CompensationFails(w, t)
             \/ MarkUnreversed(w, t) \/ MarkFailed(w, t) \/ MarkReversed(w, t)
      PROVE  First(u)'
  <2>1. CASE ~Turn(w, t)
    <3>1. Fault
      BY <1>0, <1>5, <2>1, TurnShape
    <3> QED
      BY <1>f, <3>1 DEF Fault
  <2>2. CASE Turn(w, t)
    <3>1. attempts' = attempts
      BY <2>2 DEF Turn
    <3>2. /\ \A x \in Transfers \ {t} :
                 /\ Having(x)' = Having(x)
                 /\ \A v \in Having(x) : Label(v, x)' = Label(v, x)
          /\ w \in Having(t) /\ Label(w, t) = pc[w]
          /\ Having(t)' = IF batch'[w] = batch[w] THEN Having(t) ELSE Having(t) \ {w}
          /\ batch'[w] = batch[w] => Label(w, t)' = pc'[w]
      BY <1>0, <2>2, TurnHaving
    <3>3. CASE u # t
      <4>1. /\ saga'[u] = saga[u] /\ stl'[u] = stl[u] /\ paid'[u] = paid[u]
            /\ CompTx(u) \in headers' <=> CompTx(u) \in headers
        BY <2>2, <3>3 DEF Turn
      <4> QED
        BY <1>i, <3>1, <3>2, <3>3, <4>1, FirstKept
    <3>4. CASE u = t /\ attempts[t] = 1
      <4>1. Having(t) = {w} /\ Stands(t, pc[w])
        BY <1>i, <3>2, <3>4 DEF First
      <4>2. IF batch'[w] = batch[w] THEN Stands(t, pc[w])' ELSE Told(t)'
        BY <1>0, <1>f, <1>5, <2>2, <4>1, LabelStep
      <4>3. CASE batch'[w] = batch[w]
        <5>1. Having(t)' = {w} /\ Stands(t, Label(w, t))'
          BY <3>2, <4>1, <4>2, <4>3
        <5> QED
          BY <3>1, <3>4, <5>1 DEF First
      <4>4. CASE batch'[w] # batch[w]
        <5>1. Having(t)' = {} /\ Told(t)'
          BY <3>2, <4>1, <4>2, <4>4
        <5> QED
          BY <3>1, <3>4, <5>1 DEF First
      <4> QED
        BY <4>3, <4>4
    <3>5. CASE u = t /\ attempts[t] # 1
      <4>1. attempts[t] # 0
        BY <1>i, <3>2, <3>5 DEF First
      <4> QED
        BY <3>1, <3>5, <4>1 DEF First
    <3> QED
      BY <3>3, <3>4, <3>5
  <2> QED
    BY <2>1, <2>2
<1>6. ASSUME NEW w \in Workers, Crash(w) PROVE First(u)'
  BY <1>f, <1>6 DEF Crash, Fault
<1>7. CASE UNCHANGED vars
  <2>1. /\ Having(u)' = Having(u)
        /\ \A v \in Having(u) : Label(v, u)' = Label(v, u)
    BY <1>7 DEF vars, worker, Having, Label, Current
  <2> QED
    BY <1>i, <1>7, <2>1, FirstKept DEF vars, books, rows
<1> QED
  BY <1>1, <1>2, <1>3, <1>4, <1>5, <1>6, <1>7 DEF Next, Work

\* Where one worker settled a transfer and no fault disturbed it, saga, settlement,
\* rail and journal tell one story, whatever else the workers do.
THEOREM SagaAlwaysTellsOutcome == Spec => []SagaTellsOutcome
<1>1. Init => FirstAttempt
  <2> SUFFICES ASSUME Init, NEW t \in Transfers PROVE First(t)
    BY DEF FirstAttempt
  <2>1. ~Reversed(t)
    BY TxIdsApart, SeedIdsAssumption DEF Init, Ledger!Init, Reversed
  <2> QED
    BY <2>1 DEF Init, First, Having
<1>2. FirstAttempt => SagaTellsOutcome
  <2> SUFFICES ASSUME FirstAttempt, NEW t \in Transfers, faults = 0, attempts[t] = 1, Quiet(t)
               PROVE  Told(t)
    BY DEF SagaTellsOutcome, Told
  <2>1. Having(t) = {}
    BY DEF Quiet, Having
  <2> QED
    BY <2>1 DEF FirstAttempt, First
<1> QED
  BY <1>1, <1>2, FirstStep, BackedInvariant, PTL DEF Spec

-----------------------------------------------------------------------------
\* Sums, and the books.

\* Induction over the subsets of a finite set.
LEMMA SubsetInduction ==
    ASSUME NEW D, IsFiniteSet(D), NEW P,
           \A S \in SUBSET D : (\A x \in S : S \ {x} \in P) => S \in P
    PROVE  SUBSET D \subseteq P
<1> DEFINE Lt == OpToRel(<, Nat)
           Bad == {S \in SUBSET D : S \notin P}
           Sizes == {Cardinality(S) : S \in Bad}
<1>1. SUFFICES ASSUME Bad # {} PROVE FALSE
  OBVIOUS
<1>2. \A S \in Bad : IsFiniteSet(S) /\ Cardinality(S) \in Nat
  BY FS_Subset, FS_CardinalityType
<1>3. Sizes \subseteq Nat /\ Sizes # {}
  BY <1>1, <1>2
<1>4. PICK n \in Sizes : \A k \in Sizes : ~(<<k, n>> \in Lt)
  <2>1. IsWellFoundedOn(Lt, Nat)
    BY NatLessThanWellFounded
  <2> HIDE DEF Lt, Sizes
  <2> QED
    BY <1>3, <2>1, WFMin
<1>5. PICK S \in Bad : n = Cardinality(S)
  BY <1>4
<1>6. ASSUME NEW x \in S PROVE S \ {x} \in P
  <2>1. Cardinality(S \ {x}) = n - 1 /\ n \in Nat /\ IsFiniteSet(S \ {x})
    BY <1>2, <1>5, <1>6, FS_RemoveElement
  <2>2. Cardinality(S \ {x}) \in Nat
    BY <2>1, FS_CardinalityType
  <2>3. <<n - 1, n>> \in Lt
    BY <2>1, <2>2 DEF Lt, OpToRel
  <2>4. SUFFICES ASSUME S \ {x} \in Bad PROVE FALSE
    BY <1>5
  <2>5. n - 1 \in Sizes
    BY <2>1, <2>4
  <2> QED
    BY <1>4, <2>3, <2>5
<1> QED
  BY <1>5, <1>6

\* Totals is well defined on a finite domain.  (Its values for sets of at most k
\* arguments exist by induction on k, and CHOOSE then picks the whole function.)
LEMMA TotalsStep ==
    ASSUME NEW D, IsFiniteSet(D), NEW c \in [D -> Int]
    PROVE  /\ Totals(c)[{}] = 0
           /\ \A S \in SUBSET D : S # {} =>
                 \E x \in S : Totals(c)[S] = Totals(c)[S \ {x}] + c[x]
           /\ \A S \in SUBSET D : Totals(c)[S] \in Int
<1> DEFINE ch(S) == CHOOSE y \in S : TRUE
           Body(g, S) == IF S = {} THEN 0 ELSE g[S \ {ch(S)}] + c[ch(S)]
           Small(k) == {S \in SUBSET D : Cardinality(S) <= k}
           Good(k) == {g \in [Small(k) -> Int] : \A S \in Small(k) : g[S] = Body(g, S)}
           Lt == OpToRel(<, Nat)
           Bad == {k \in Nat : Good(k) = {}}
           Def(f) == [S \in SUBSET D |-> Body(f, S)]
<1>0. \A S : S # {} => ch(S) \in S
  OBVIOUS
<1>d. Totals(c) = CHOOSE f : f = Def(f)
  <2>1. DOMAIN c = D
    OBVIOUS
  <2> QED
    BY <2>1, Zenon DEF Totals
<1> HIDE DEF ch
<1>1. \A S \in SUBSET D : IsFiniteSet(S) /\ Cardinality(S) \in Nat
  BY FS_Subset, FS_CardinalityType
<1>2. 0 \notin Bad
  <2>1. \A S \in Small(0) : S = {}
    BY <1>1, FS_EmptySet
  <2>2. [S \in Small(0) |-> 0] \in Good(0)
    BY <2>1
  <2> QED
    BY <2>2
<1>3. ASSUME NEW k \in Nat, k # 0, k - 1 \notin Bad PROVE k \notin Bad
  <2>0. k - 1 \in Nat
    BY <1>3
  <2>1. PICK g \in Good(k - 1) : TRUE
    <3> HIDE DEF Good
    <3> QED
      BY <1>3, <2>0
  <2> DEFINE e == [S \in Small(k) |-> Body(g, S)]
  <2>2. ASSUME NEW S \in Small(k), S # {} PROVE S \ {ch(S)} \in Small(k - 1) /\ c[ch(S)] \in Int
    <3>1. ch(S) \in S /\ IsFiniteSet(S) /\ Cardinality(S) \in Nat
      BY <1>0, <1>1, <2>2
    <3>2. Cardinality(S \ {ch(S)}) = Cardinality(S) - 1
      BY <3>1, FS_RemoveElement
    <3> QED
      BY <1>3, <2>2, <3>1, <3>2
  <2>3. \A S \in Small(k - 1) : S \in Small(k) /\ g[S] = e[S] /\ g[S] \in Int
    <3>1. \A S \in Small(k - 1) : S \in Small(k)
      BY <1>1, <1>3
    <3>2. \A S \in Small(k - 1) : g[S] = Body(g, S) /\ g[S] \in Int
      BY <2>1
    <3> HIDE DEF Body, Small
    <3> QED
      BY <3>1, <3>2
  <2>4. ASSUME NEW S \in Small(k) PROVE e[S] \in Int /\ e[S] = Body(e, S)
    <3>1. CASE S = {}
      BY <3>1
    <3>2. CASE S # {}
      <4>1. S \ {ch(S)} \in Small(k - 1) /\ c[ch(S)] \in Int
        BY <2>2, <3>2
      <4>2. e[S] = g[S \ {ch(S)}] + c[ch(S)]
        BY <3>2
      <4>3. g[S \ {ch(S)}] = e[S \ {ch(S)}] /\ g[S \ {ch(S)}] \in Int
        BY <2>3, <4>1
      <4> HIDE DEF e, Small
      <4> QED
        BY <3>2, <4>1, <4>2, <4>3
    <3> QED
      BY <3>1, <3>2
  <2>5. e \in Good(k)
    <3>1. e \in [Small(k) -> Int]
      BY <2>4
    <3> HIDE DEF e
    <3> QED
      BY <2>4, <3>1
  <2> QED
    BY <2>5
<1>4. Bad = {}
  <2> SUFFICES ASSUME Bad # {} PROVE FALSE
    OBVIOUS
  <2>1. Bad \subseteq Nat /\ IsWellFoundedOn(Lt, Nat)
    BY NatLessThanWellFounded
  <2>2. PICK k \in Bad : \A j \in Bad : ~(<<j, k>> \in Lt)
    <3> HIDE DEF Bad, Lt
    <3> QED
      BY <2>1, WFMin
  <2>3. k \in Nat /\ k # 0 /\ k - 1 \in Nat
    <3>1. k \in Nat /\ k # 0
      <4> HIDE DEF Bad
      <4> QED
        BY <1>2, <2>1, <2>2
    <3> QED
      BY <3>1
  <2>4. <<k - 1, k>> \in Lt
    BY <2>3 DEF Lt, OpToRel
  <2> HIDE DEF Bad, Lt
  <2> QED
    BY <1>3, <2>2, <2>3, <2>4
<1>5. PICK g \in Good(Cardinality(D)) : TRUE
  <2>1. Cardinality(D) \in Nat
    BY FS_CardinalityType
  <2> QED
    BY <1>4, <2>1
<1>6. Small(Cardinality(D)) = SUBSET D
  BY FS_Subset
<1>7. g = Def(g)
  <2>1. g \in [SUBSET D -> Int] /\ \A S \in SUBSET D : g[S] = Body(g, S)
    BY <1>5, <1>6
  <2> HIDE DEF Body
  <2> QED
    BY <2>1
<1>8. Totals(c) = Def(Totals(c))
  <2> HIDE DEF Def
  <2> QED
    BY <1>7, <1>d
<1> DEFINE R == Totals(c)
<1> HIDE DEF R
<1>9. \A S \in SUBSET D : R[S] = Body(R, S)
  BY <1>8 DEF R
<1> HIDE DEF Small, Good, Bad, Def
<1>10. R[{}] = 0 /\ \A S \in SUBSET D : S # {} => ch(S) \in S /\ R[S] = R[S \ {ch(S)}] + c[ch(S)]
  BY <1>0, <1>9
<1>11. \A S \in SUBSET D : R[S] \in Int
  <2> DEFINE P == {S \in SUBSET D : R[S] \in Int}
  <2>1. ASSUME NEW S \in SUBSET D, \A x \in S : S \ {x} \in P PROVE S \in P
    <3>1. CASE S = {}
      BY <1>10, <3>1
    <3>2. CASE S # {}
      <4>1. ch(S) \in S /\ R[S] = R[S \ {ch(S)}] + c[ch(S)]
        BY <1>10, <3>2
      <4>2. R[S \ {ch(S)}] \in Int /\ c[ch(S)] \in Int
        BY <2>1, <4>1
      <4> QED
        BY <4>1, <4>2
    <3> QED
      BY <3>1, <3>2
  <2> HIDE DEF P
  <2>2. SUBSET D \subseteq P
    BY <2>1, SubsetInduction
  <2> QED
    BY <2>2 DEF P
<1> QED
  BY <1>10, <1>11 DEF R, ch

\* A sum over a set, whichever argument is counted last.
LEMMA TotalsTake ==
    ASSUME NEW D, IsFiniteSet(D), NEW c \in [D -> Int], NEW S \in SUBSET D, NEW x \in S
    PROVE  Totals(c)[S] = Totals(c)[S \ {x}] + c[x]
<1> DEFINE R == Totals(c)
           P == {U \in SUBSET D : \A z \in U : R[U] = R[U \ {z}] + c[z]}
<1>1. /\ \A U \in SUBSET D : U # {} => \E y \in U : R[U] = R[U \ {y}] + c[y]
      /\ \A U \in SUBSET D : R[U] \in Int
  BY TotalsStep, Zenon
<1> HIDE DEF R
<1>2. ASSUME NEW U \in SUBSET D, \A z \in U : U \ {z} \in P PROVE U \in P
  <2> SUFFICES ASSUME NEW z \in U PROVE R[U] = R[U \ {z}] + c[z]
    OBVIOUS
  <2>1. PICK y \in U : R[U] = R[U \ {y}] + c[y]
    BY <1>1
  <2>2. CASE y = z
    BY <2>1, <2>2
  <2>3. CASE y # z
    <3>1. R[U \ {y}] = R[(U \ {y}) \ {z}] + c[z]
      BY <1>2, <2>3
    <3>2. R[U \ {z}] = R[(U \ {z}) \ {y}] + c[y]
      BY <1>2, <2>3
    <3>3. (U \ {y}) \ {z} = (U \ {z}) \ {y}
      OBVIOUS
    <3>4. R[(U \ {z}) \ {y}] \in Int /\ c[z] \in Int /\ c[y] \in Int
      BY <1>1
    <3> HIDE DEF P
    <3>5. R[U] = (R[(U \ {z}) \ {y}] + c[z]) + c[y]
      BY <2>1, <3>1, <3>3
    <3> QED
      BY <3>2, <3>4, <3>5
  <2> QED
    BY <2>2, <2>3
<1> HIDE DEF P
<1>3. SUBSET D \subseteq P
  BY <1>2, SubsetInduction
<1> QED
  BY <1>3 DEF P, R

\* A sum depends on the values it adds only.
LEMMA TotalsAgree ==
    ASSUME NEW D, IsFiniteSet(D), NEW c \in [D -> Int],
           NEW E, IsFiniteSet(E), NEW d \in [E -> Int],
           NEW S \in SUBSET D, S \subseteq E, \A x \in S : c[x] = d[x]
    PROVE  Totals(c)[S] = Totals(d)[S]
<1> DEFINE P == {U \in SUBSET S : Totals(c)[U] = Totals(d)[U]}
<1>1. IsFiniteSet(S)
  BY FS_Subset
<1>2. ASSUME NEW U \in SUBSET S, \A z \in U : U \ {z} \in P PROVE U \in P
  <2>1. CASE U = {}
    <3>1. Totals(c)[{}] = 0 /\ Totals(d)[{}] = 0
      BY TotalsStep, Zenon
    <3> QED
      BY <2>1, <3>1
  <2>2. CASE U # {}
    <3>1. PICK z \in U : TRUE
      BY <2>2
    <3>2. U \in SUBSET D /\ U \in SUBSET E
      OBVIOUS
    <3>3. Totals(c)[U] = Totals(c)[U \ {z}] + c[z]
      BY <3>1, <3>2, TotalsTake
    <3>4. Totals(d)[U] = Totals(d)[U \ {z}] + d[z]
      BY <3>1, <3>2, TotalsTake
    <3>5. Totals(c)[U \ {z}] = Totals(d)[U \ {z}] /\ c[z] = d[z]
      BY <1>2
    <3> QED
      BY <3>3, <3>4, <3>5
  <2> QED
    BY <2>1, <2>2
<1> HIDE DEF P
<1>3. SUBSET S \subseteq P
  BY <1>1, <1>2, SubsetInduction
<1> QED
  BY <1>3 DEF P

\* The lemmas about the books, for this ledger.
Books == INSTANCE LedgerBooksProofs
         WITH TxIds <- SeedIds \union JournalIds, Requests <- JournalIds,
              Id <- [id \in JournalIds |-> id], Lines <- JournalLines

\* The two rows of a transfer.
LEMMA MoveRows ==
    ASSUME NEW id \in SeedIds \union JournalIds, NEW from \in Accounts, NEW to \in Accounts,
           NEW x \in 1..MaxHalalas
    PROVE  /\ Move(id, from, to, x) \in Seq(Ledger!Row) /\ Len(Move(id, from, to, x)) = 2
           /\ Move(id, from, to, x)[1] = [tx |-> id, account |-> from, side |-> "DEBIT", amount |-> x]
           /\ Move(id, from, to, x)[2] = [tx |-> id, account |-> to, side |-> "CREDIT", amount |-> x]
  BY DEF Move, Ledger!Row, Ledger!Sides

\* The transfers of this model are requests the ledger knows, so that what is
\* proved of its books holds of these.
LEMMA BooksHold ==
    Books!BooksAssumption /\ Books!RequestAssumption /\ Books!SeedAssumption
<1>1. Books!BooksAssumption
  BY LedgerAssumption DEF Ledger!BooksAssumption, Books!BooksAssumption
<1>2. Books!Row = Ledger!Row
  BY DEF Books!Row, Ledger!Row, Books!Sides, Ledger!Sides
<1>3. Books!SeedAssumption
  <2>1. Ledger!SeedAssumption
    BY LedgerAssumption
  <2> QED
    BY <2>1, Zenon
    DEF Ledger!SeedAssumption, Books!SeedAssumption, Books!Row, Ledger!Row, Books!Sides, Ledger!Sides,
        Ledger!ValidateBalanced, Books!ValidateBalanced, Ledger!SumBySide, Books!SumBySide,
        Ledger!AmountsOn, Books!AmountsOn, Ledger!BalanceFromEntries, Books!BalanceFromEntries,
        Ledger!Effects, Books!Effects, Ledger!Effect, Books!Effect, Ledger!Raises, Books!Raises,
        Ledger!IsDebitNormal, Books!IsDebitNormal, Ledger!Sum, Books!Sum, Ledger!Running, Books!Running
<1>4. Books!RequestAssumption
  <2>1. ASSUME NEW id \in JournalIds
        PROVE  /\ JournalLines[id] \in Seq(Ledger!Row)
               /\ \A i \in 1..Len(JournalLines[id]) : JournalLines[id][i].tx = id
    <3> DEFINE t == id[2]
    <3>1. t \in Transfers
      BY DEF JournalIds
    <3>2. From[t] \in Accounts /\ To[t] \in Accounts /\ Amount[t] \in 1..MaxHalalas
      BY <3>1, SettlementAssumption
    <3>3. JournalLines[id] = Move(id, From[t], To[t], Amount[t])
            \/ JournalLines[id] = Move(id, To[t], From[t], Amount[t])
      BY DEF JournalLines
    <3> HIDE DEF t
    <3>4. ASSUME NEW from \in Accounts, NEW to \in Accounts, NEW x \in 1..MaxHalalas
          PROVE  /\ Move(id, from, to, x) \in Seq(Ledger!Row)
                 /\ \A i \in 1..Len(Move(id, from, to, x)) : Move(id, from, to, x)[i].tx = id
      BY <3>4 DEF Move, Ledger!Row, Ledger!Sides
    <3> QED
      BY <3>2, <3>3, <3>4
  <2>2. DOMAIN JournalLines = JournalIds /\ JournalLines = [id \in JournalIds |-> JournalLines[id]]
    BY DEF JournalLines
  <2>3. JournalLines \in [JournalIds -> Seq(Books!Row)]
    BY <1>2, <2>1, <2>2
  <2> QED
    BY <2>1, <2>3 DEF Books!RequestAssumption
<1> QED
  BY <1>1, <1>3, <1>4

\* What a transfer or its reversal does to the balance of an account.
LEMMA MoveBalance ==
    ASSUME NEW a \in Accounts, NEW j \in Seq(Ledger!Row), NEW id \in SeedIds \union JournalIds,
           NEW from \in Accounts \ DebitNormal, NEW to \in Accounts \ DebitNormal,
           NEW x \in 1..MaxHalalas, from # to
    PROVE  /\ Ledger!BalanceFromEntries(a, j) \in Int
           /\ Ledger!BalanceFromEntries(a, j \o Move(id, from, to, x)) =
                 Ledger!BalanceFromEntries(a, j)
                    + ((IF to = a THEN x ELSE 0) - (IF from = a THEN x ELSE 0))
           /\ Ledger!ApplyEntries(a, Ledger!BalanceFromEntries(a, j), Move(id, from, to, x)) =
                 Ledger!BalanceFromEntries(a, j)
                    + ((IF to = a THEN x ELSE 0) - (IF from = a THEN x ELSE 0))
<1> DEFINE m == Move(id, from, to, x)
           v == Books!Effects(a, m)
<1>1. Books!Row = Ledger!Row
  BY DEF Books!Row, Ledger!Row, Books!Sides, Ledger!Sides
<1>2. \A r : Books!BalanceFromEntries(a, r) = Ledger!BalanceFromEntries(a, r)
  BY Zenon
  DEF Ledger!BalanceFromEntries, Books!BalanceFromEntries, Ledger!Effects, Books!Effects,
      Ledger!Effect, Books!Effect, Ledger!Raises, Books!Raises, Ledger!IsDebitNormal,
      Books!IsDebitNormal, Ledger!Sum, Books!Sum, Ledger!Running, Books!Running
<1>3. \A b, r : Books!ApplyEntries(a, b, r) = Ledger!ApplyEntries(a, b, r)
  BY Zenon
  DEF Ledger!ApplyEntries, Books!ApplyEntries, Ledger!Effects, Books!Effects,
      Ledger!Effect, Books!Effect, Ledger!Raises, Books!Raises, Ledger!IsDebitNormal,
      Books!IsDebitNormal, Ledger!Sum, Books!Sum, Ledger!Running, Books!Running
<1>4. /\ m \in Seq(Ledger!Row) /\ Len(m) = 2
      /\ m[1] = [tx |-> id, account |-> from, side |-> "DEBIT", amount |-> x]
      /\ m[2] = [tx |-> id, account |-> to, side |-> "CREDIT", amount |-> x]
  BY MoveRows
<1> HIDE DEF m
<1>5. /\ Books!BalanceFromEntries(a, j) \in Int
      /\ Books!BalanceFromEntries(a, j \o m) =
            Books!ApplyEntries(a, Books!BalanceFromEntries(a, j), m)
  BY <1>1, <1>4, BooksHold, Books!BalanceOfAppend
<1>6. v \in Seq(Int) /\ Len(v) = 2 /\ v[1] = Books!Effect(a, m[1]) /\ v[2] = Books!Effect(a, m[2])
  <2>1. v \in Seq(Int) /\ Len(v) = Len(m) /\ \A i \in 1..Len(m) : v[i] = Books!Effect(a, m[i])
    BY <1>1, <1>4, BooksHold, Books!EffectsSeq
  <2> HIDE DEF v
  <2> QED
    BY <1>4, <2>1
<1>7. Books!Effect(a, m[1]) = -(IF from = a THEN x ELSE 0)
  BY <1>4 DEF Books!Effect, Books!Raises, Books!IsDebitNormal
<1>8. Books!Effect(a, m[2]) = (IF to = a THEN x ELSE 0)
  BY <1>4 DEF Books!Effect, Books!Raises, Books!IsDebitNormal
<1> DEFINE b == Books!BalanceFromEntries(a, j)
<1>9. Books!ApplyEntries(a, b, m) = b + Books!Sum(v)
  BY DEF Books!ApplyEntries
<1> HIDE DEF v, b
<1>10. Books!Sum(v) = v[1] + v[2]
  BY <1>6, BooksHold, Books!SumTwo
<1>11. x \in Int /\ b \in Int
  BY <1>5, LedgerAssumption DEF b, Ledger!BooksAssumption
<1>12. Books!ApplyEntries(a, b, m) = b + ((IF to = a THEN x ELSE 0) - (IF from = a THEN x ELSE 0))
  <2> DEFINE out == IF from = a THEN x ELSE 0
             in == IF to = a THEN x ELSE 0
  <2>1. in \in Int /\ out \in Int
    BY <1>11
  <2>2. v[1] = -out /\ v[2] = in
    BY <1>6, <1>7, <1>8, Zenon
  <2> HIDE DEF in, out
  <2>3. Books!ApplyEntries(a, b, m) = b + (-out + in)
    BY <1>9, <1>10, <2>2, Zenon
  <2>4. b + (-out + in) = b + (in - out)
    BY <1>11, <2>1
  <2> QED
    BY <2>3, <2>4, Zenon DEF in, out
<1> QED
  BY <1>2, <1>3, <1>5, <1>12 DEF m, b

\* One more argument.
LEMMA TotalAdd ==
    ASSUME NEW D, IsFiniteSet(D), NEW c \in [D -> Int], NEW t, t \notin D,
           NEW d \in [D \union {t} -> Int], \A u \in D : d[u] = c[u]
    PROVE  Total(d) = Total(c) + d[t]
<1> DEFINE E == D \union {t}
<1>1. IsFiniteSet(E) /\ E \ {t} = D /\ t \in E /\ D \in SUBSET E /\ D \in SUBSET D /\ E \in SUBSET E
  BY FS_AddElement
<1> HIDE DEF E
<1>2. d \in [E -> Int]
  BY DEF E
<1>3. Totals(d)[E] = Totals(d)[E \ {t}] + d[t]
  <2>1. IsFiniteSet(E) /\ E \in SUBSET E /\ t \in E
    BY <1>1
  <2> QED
    BY <1>2, <2>1, TotalsTake
<1>4. Totals(c)[D] = Totals(d)[D]
  <2>1. \A x \in D : c[x] = d[x]
    OBVIOUS
  <2> QED
    BY <1>1, <1>2, <2>1, TotalsAgree
<1>5. DOMAIN d = E /\ DOMAIN c = D
  BY <1>2
<1> QED
  BY <1>1, <1>3, <1>4, <1>5 DEF Total

\* The inductive invariant of the books: only a transfer in the journal is ever
\* reversed, so every reversal takes one transfer out of the sum.
BooksInv ==
    /\ journal \in Seq(Ledger!Row)
    /\ IsFiniteSet(Open)
    /\ \A t \in Transfers : Reversed(t) => TransferTx(t) \in headers
    /\ BalancesExplained

\* The two steps that post to the ledger.
LEMMA BooksKept ==
    ASSUME [Next]_vars
    PROVE  \/ \E t \in Transfers : PostTransfer(t)
           \/ \E w \in Workers, t \in Transfers : PostCompensation(w, t)
           \/ UNCHANGED books
<1>1. CASE \E t \in Transfers : PostTransfer(t)
  BY <1>1
<1>2. CASE UNCHANGED vars
  BY <1>2 DEF vars
<1>3. CASE \E w \in Workers : Work(w) \/ Crash(w)
  BY <1>3
  DEF Work, Crash, Claim, ClaimCommit, MarkSettling, SarieSettle, MarkSettled, MarkCompleted,
      Compensate, CompensationFails, MarkUnreversed, MarkFailed, MarkReversed
<1> QED
  BY <1>1, <1>2, <1>3 DEF Next

\* The rows the two post.
LEMMA LinesOf ==
    ASSUME NEW t \in Transfers
    PROVE  /\ JournalLines[TransferTx(t)] = Move(TransferTx(t), From[t], To[t], Amount[t])
           /\ JournalLines[CompTx(t)] = Move(CompTx(t), To[t], From[t], Amount[t])
           /\ TransferTx(t) \in JournalIds /\ CompTx(t) \in JournalIds
           /\ From[t] \in Accounts \ DebitNormal /\ To[t] \in Accounts \ DebitNormal
           /\ From[t] # To[t] /\ Amount[t] \in 1..MaxHalalas /\ Amount[t] \in Int
<1>1. TransferTx(t) \in JournalIds /\ CompTx(t) \in JournalIds /\ CompTx(t) # TransferTx(t)
  BY TxIdsApart
<1>2. TransferTx(t)[2] = t /\ CompTx(t)[2] = t
  BY DEF TransferTx, CompTx
<1>3. /\ From[t] \in Accounts \ DebitNormal /\ To[t] \in Accounts \ DebitNormal
      /\ From[t] # To[t] /\ Amount[t] \in 1..MaxHalalas /\ Amount[t] \in Int
  BY SettlementAssumption, LedgerAssumption DEF Ledger!BooksAssumption
<1> QED
  BY <1>1, <1>2, <1>3 DEF JournalLines

\* BooksInv is inductive, as workers only hold transfers that were posted.
LEMMA BooksStep == BackedInv /\ BooksInv /\ [Next]_vars => BooksInv'
<1> SUFFICES ASSUME BackedInv, BooksInv, [Next]_vars PROVE BooksInv'
  OBVIOUS
<1>n. \A a, t : t \in Transfers => Net(a, t) \in Int
  BY LinesOf DEF Net
<1>o. \A t \in Open : t \in Transfers
  BY DEF Open
<1>1. ASSUME NEW t \in Transfers, PostTransfer(t) PROVE BooksInv'
  <2>1. /\ headers' = headers \union {TransferTx(t)} /\ TransferTx(t) \notin headers
        /\ journal' = journal \o Move(TransferTx(t), From[t], To[t], Amount[t])
    BY <1>1, LinesOf DEF PostTransfer, Ledger!Post, Ledger!CanPost
  <2>2. \A u \in Transfers : CompTx(u) \in headers' <=> CompTx(u) \in headers
    BY <2>1, TxIdsApart
  <2>3. Open' = Open \union {t} /\ t \notin Open
    BY <2>1, <2>2, TxIdsApart DEF Open, Reversed, BooksInv
  <2>4. journal' \in Seq(Ledger!Row)
    <3>1. Move(TransferTx(t), From[t], To[t], Amount[t]) \in Seq(Ledger!Row)
      BY LinesOf, MoveRows
    <3> QED
      BY <2>1, <3>1 DEF BooksInv
  <2>5. IsFiniteSet(Open')
    BY <2>3, FS_AddElement DEF BooksInv
  <2>6. ASSUME NEW a \in Accounts
        PROVE  Ledger!BalanceFromEntries(a, journal') =
                  Ledger!BalanceFromEntries(a, SeedRows) + Total([u \in Open' |-> Net(a, u)])
    <3> DEFINE c == [u \in Open |-> Net(a, u)]
               d == [u \in Open' |-> Net(a, u)]
    <3>1. c \in [Open -> Int] /\ d \in [Open \union {t} -> Int] /\ d[t] = Net(a, t)
          /\ \A u \in Open : d[u] = c[u]
      BY <1>n, <1>o, <2>3
    <3>2. IsFiniteSet(Open)
      BY DEF BooksInv
    <3>3. Ledger!BalanceFromEntries(a, journal) = Ledger!BalanceFromEntries(a, SeedRows) + Total(c)
      BY DEF BooksInv, BalancesExplained
    <3> HIDE DEF c, d
    <3>4. Total(d) = Total(c) + Net(a, t)
      BY <2>3, <3>1, <3>2, TotalAdd
    <3>5. Total(c) \in Int
      BY <3>1, <3>2, TotalsStep DEF Total
    <3>6. /\ Ledger!BalanceFromEntries(a, journal) \in Int
          /\ Ledger!BalanceFromEntries(a, journal') =
                Ledger!BalanceFromEntries(a, journal) + Net(a, t)
      <4>1. journal \in Seq(Ledger!Row)
        BY DEF BooksInv
      <4>2. /\ Ledger!BalanceFromEntries(a, journal) \in Int
            /\ Ledger!BalanceFromEntries(a, journal') =
                  Ledger!BalanceFromEntries(a, journal)
                     + ((IF To[t] = a THEN Amount[t] ELSE 0) - (IF From[t] = a THEN Amount[t] ELSE 0))
        <5> DEFINE id == TransferTx(t)
                   from == From[t]
                   to == To[t]
                   x == Amount[t]
        <5>1. /\ id \in SeedIds \union JournalIds /\ x \in 1..MaxHalalas
              /\ from \in Accounts \ DebitNormal /\ to \in Accounts \ DebitNormal
              /\ from # to
          BY LinesOf
        <5> HIDE DEF id, from, to, x
        <5>2. /\ Ledger!BalanceFromEntries(a, journal) \in Int
              /\ Ledger!BalanceFromEntries(a, journal \o Move(id, from, to, x)) =
                    Ledger!BalanceFromEntries(a, journal)
                       + ((IF to = a THEN x ELSE 0) - (IF from = a THEN x ELSE 0))
          BY <4>1, <5>1, MoveBalance
        <5> QED
          BY <2>1, <5>2 DEF id, from, to, x
      <4> QED
        BY <4>2, Zenon DEF Net
    <3>7. Ledger!BalanceFromEntries(a, SeedRows) \in Int
      BY LedgerAssumption DEF Ledger!SeedAssumption, Ledger!BooksAssumption
    <3> QED
      BY <1>n, <3>3, <3>4, <3>5, <3>6, <3>7 DEF d
  <2> QED
    BY <2>1, <2>2, <2>4, <2>5, <2>6 DEF BooksInv, BalancesExplained, Reversed
<1>2. ASSUME NEW w \in Workers, NEW t \in Transfers, PostCompensation(w, t) PROVE BooksInv'
  <2>1. /\ headers' = headers \union {CompTx(t)} /\ CompTx(t) \notin headers
        /\ journal' = journal \o Move(CompTx(t), To[t], From[t], Amount[t])
    BY <1>2, LinesOf DEF PostCompensation, Ledger!Post, Ledger!CanPost
  <2>2. \A u \in Transfers : TransferTx(u) \in headers' <=> TransferTx(u) \in headers
    BY <2>1, TxIdsApart
  <2>0. TransferTx(t) \in headers
    BY <1>2 DEF PostCompensation, Current, BackedInv, ClaimsHeld, StatusesBacked
  <2>3. Open = Open' \union {t} /\ t \notin Open'
    BY <2>0, <2>1, <2>2, TxIdsApart DEF Open, Reversed
  <2>4. journal' \in Seq(Ledger!Row)
    <3>1. Move(CompTx(t), To[t], From[t], Amount[t]) \in Seq(Ledger!Row)
      BY LinesOf, MoveRows
    <3> QED
      BY <2>1, <3>1 DEF BooksInv
  <2>5. IsFiniteSet(Open')
    BY <2>3, FS_Subset DEF BooksInv
  <2>6. ASSUME NEW a \in Accounts
        PROVE  Ledger!BalanceFromEntries(a, journal') =
                  Ledger!BalanceFromEntries(a, SeedRows) + Total([u \in Open' |-> Net(a, u)])
    <3> DEFINE c == [u \in Open' |-> Net(a, u)]
               d == [u \in Open |-> Net(a, u)]
    <3>1. c \in [Open' -> Int] /\ d \in [Open' \union {t} -> Int] /\ d[t] = Net(a, t)
          /\ \A u \in Open' : d[u] = c[u]
      BY <1>n, <1>o, <2>3
    <3>2. IsFiniteSet(Open)
      BY DEF BooksInv
    <3>3. Ledger!BalanceFromEntries(a, journal) = Ledger!BalanceFromEntries(a, SeedRows) + Total(d)
      BY DEF BooksInv, BalancesExplained
    <3> HIDE DEF c, d
    <3>4. Total(d) = Total(c) + Net(a, t)
      BY <2>3, <2>5, <3>1, TotalAdd
    <3>5. Total(c) \in Int
      BY <2>5, <3>1, TotalsStep DEF Total
    <3>6. /\ Ledger!BalanceFromEntries(a, journal) \in Int
          /\ Ledger!BalanceFromEntries(a, journal') =
                Ledger!BalanceFromEntries(a, journal)
                   + ((IF From[t] = a THEN Amount[t] ELSE 0) - (IF To[t] = a THEN Amount[t] ELSE 0))
      <4> DEFINE id == CompTx(t)
                 from == To[t]
                 to == From[t]
                 x == Amount[t]
      <4>1. /\ id \in SeedIds \union JournalIds /\ x \in 1..MaxHalalas
            /\ from \in Accounts \ DebitNormal /\ to \in Accounts \ DebitNormal
            /\ from # to /\ journal' = journal \o Move(id, from, to, x)
        BY <2>1, LinesOf
      <4>2. journal \in Seq(Ledger!Row)
        BY DEF BooksInv
      <4> HIDE DEF id, from, to, x
      <4>3. /\ Ledger!BalanceFromEntries(a, journal) \in Int
            /\ Ledger!BalanceFromEntries(a, journal \o Move(id, from, to, x)) =
                  Ledger!BalanceFromEntries(a, journal)
                     + ((IF to = a THEN x ELSE 0) - (IF from = a THEN x ELSE 0))
        BY <4>1, <4>2, MoveBalance
      <4> QED
        BY <4>1, <4>3, Zenon DEF from, to, x
    <3>8. Ledger!BalanceFromEntries(a, journal') = Ledger!BalanceFromEntries(a, journal) - Net(a, t)
      <4>1. Amount[t] \in Int
        BY LinesOf
      <4> QED
        BY <3>6, <4>1 DEF Net
    <3>7. Ledger!BalanceFromEntries(a, SeedRows) \in Int
      BY LedgerAssumption DEF Ledger!SeedAssumption, Ledger!BooksAssumption
    <3> QED
      BY <1>n, <3>3, <3>4, <3>5, <3>6, <3>7, <3>8 DEF c
  <2>7. \A u \in Transfers : Reversed(u)' => TransferTx(u) \in headers'
    BY <2>0, <2>1, <2>2, TxIdsApart DEF Reversed, BooksInv
  <2> QED
    BY <2>4, <2>5, <2>6, <2>7 DEF BooksInv, BalancesExplained
<1>3. CASE UNCHANGED books
  BY <1>3 DEF books, BooksInv, BalancesExplained, Open, Reversed
<1> QED
  BY <1>1, <1>2, <1>3, BooksKept

\* Before the first transfer, nothing is there to be explained.
LEMMA BooksInit == Init => BooksInv
<1> SUFFICES ASSUME Init PROVE BooksInv
  OBVIOUS
<1>1. headers = SeedIds /\ journal = SeedRows
  BY DEF Init, Ledger!Init
<1>2. \A t \in Transfers : TransferTx(t) \notin headers /\ CompTx(t) \notin headers
  BY <1>1, TxIdsApart, SeedIdsAssumption
<1>3. Open = {}
  BY <1>2 DEF Open
<1>4. IsFiniteSet({})
  BY FS_EmptySet
<1>5. ASSUME NEW a \in Accounts PROVE Total([t \in {} |-> Net(a, t)]) = 0
  <2> DEFINE c == [t \in {} |-> Net(a, t)]
  <2>1. c \in [{} -> Int] /\ DOMAIN c = {}
    OBVIOUS
  <2> HIDE DEF c
  <2>2. Totals(c)[{}] = 0
    BY <1>4, <2>1, TotalsStep
  <2> QED
    BY <2>1, <2>2 DEF Total, c
<1>6. /\ SeedRows \in Seq(Ledger!Row)
      /\ \A a \in Accounts : Ledger!BalanceFromEntries(a, SeedRows) \in Int
  BY LedgerAssumption DEF Ledger!SeedAssumption, Ledger!BooksAssumption
<1>7. BalancesExplained
  BY <1>1, <1>3, <1>5, <1>6 DEF BalancesExplained
<1> QED
  BY <1>1, <1>2, <1>3, <1>4, <1>6, <1>7 DEF BooksInv, Reversed

\* Every balance is explained by the transfers posted and not reversed, through
\* every crash, lost update and double claim (PostTransfer, compensate).
THEOREM BalancesAlwaysExplained == Spec => []BalancesExplained
<1>1. BooksInv => BalancesExplained
  BY DEF BooksInv
<1> QED
  BY <1>1, BooksInit, BooksStep, BackedInvariant, PTL DEF Spec

\* A sum of natural numbers is one, and at least as large as any two of them.
LEMMA TotalsNat ==
    ASSUME NEW D, IsFiniteSet(D), NEW c \in [D -> Int], \A x \in D : c[x] \in Nat,
           NEW S \in SUBSET D
    PROVE  Totals(c)[S] \in Nat
<1> DEFINE P == {U \in SUBSET D : Totals(c)[U] \in Nat}
<1>1. ASSUME NEW U \in SUBSET D, \A z \in U : U \ {z} \in P PROVE U \in P
  <2>1. CASE U = {}
    <3>1. Totals(c)[{}] = 0
      BY TotalsStep, Zenon
    <3> QED
      BY <2>1, <3>1
  <2>2. CASE U # {}
    <3>1. PICK z \in U : TRUE
      BY <2>2
    <3>2. Totals(c)[U] = Totals(c)[U \ {z}] + c[z]
      <4> HIDE DEF P
      <4> QED
        BY <3>1, TotalsTake, ZenonT(30)
    <3>3. Totals(c)[U \ {z}] \in Nat /\ c[z] \in Nat
      BY <1>1, <3>1
    <3> QED
      BY <3>2, <3>3
  <2> QED
    BY <2>1, <2>2
<1> HIDE DEF P
<1>2. SUBSET D \subseteq P
  BY <1>1, SubsetInduction
<1> QED
  BY <1>2 DEF P

\* Two arguments, counted last.
LEMMA TotalPair ==
    ASSUME NEW D, IsFiniteSet(D), NEW c \in [D -> Int], NEW p \in D, NEW q \in D, p # q
    PROVE  /\ Total(c) = (Totals(c)[D \ {p, q}] + c[q]) + c[p]
           /\ Totals(c)[D \ {p, q}] \in Int
<1>1. D \in SUBSET D /\ D \ {p} \in SUBSET D /\ q \in D \ {p} /\ DOMAIN c = D
  OBVIOUS
<1>2. Totals(c)[D] = Totals(c)[D \ {p}] + c[p]
  BY <1>1, TotalsTake
<1>3. Totals(c)[D \ {p}] = Totals(c)[(D \ {p}) \ {q}] + c[q]
  BY <1>1, TotalsTake
<1>4. (D \ {p}) \ {q} = D \ {p, q} /\ D \ {p, q} \in SUBSET D
  OBVIOUS
<1>5. \A S \in SUBSET D : Totals(c)[S] \in Int
  BY TotalsStep, Zenon
<1> QED
  BY <1>1, <1>2, <1>3, <1>4, <1>5 DEF Total

\* Moving an amount between two arguments leaves the sum.
LEMMA TotalMoved ==
    ASSUME NEW D, IsFiniteSet(D), NEW c \in [D -> Int], NEW d \in [D -> Int],
           NEW p \in D, NEW q \in D, p # q,
           \A x \in D \ {p, q} : c[x] = d[x], c[p] + c[q] = d[p] + d[q]
    PROVE  Total(c) = Total(d)
<1> DEFINE rest == D \ {p, q}
<1>1. rest \in SUBSET D /\ rest \subseteq D /\ \A x \in rest : c[x] = d[x]
  OBVIOUS
<1>2. Totals(c)[rest] = Totals(d)[rest]
  <2> HIDE DEF rest
  <2> QED
    BY <1>1, TotalsAgree
<1>3. Total(c) = (Totals(c)[rest] + c[q]) + c[p] /\ Totals(c)[rest] \in Int
  BY TotalPair
<1>4. Total(d) = (Totals(d)[rest] + d[q]) + d[p] /\ Totals(d)[rest] \in Int
  BY TotalPair
<1> HIDE DEF rest
<1> QED
  BY <1>2, <1>3, <1>4

\* The rows of a transfer mention its two accounts and balance.
LEMMA MoveBalanced ==
    ASSUME NEW id \in SeedIds \union JournalIds, NEW from \in Accounts, NEW to \in Accounts,
           NEW x \in 1..MaxHalalas
    PROVE  /\ Ledger!ValidateBalanced(Move(id, from, to, x))
           /\ Ledger!UniqueAccountIDs(Move(id, from, to, x)) = {from, to}
<1> DEFINE m == Move(id, from, to, x)
           On(side) == Books!AmountsOn(side, m)
<1>1. /\ m \in Seq(Ledger!Row) /\ Len(m) = 2
      /\ m[1] = [tx |-> id, account |-> from, side |-> "DEBIT", amount |-> x]
      /\ m[2] = [tx |-> id, account |-> to, side |-> "CREDIT", amount |-> x]
  BY MoveRows
<1>2. x \in Int
  BY LedgerAssumption DEF Ledger!BooksAssumption
<1>0. Books!ValidateBalanced(m) <=> Ledger!ValidateBalanced(m)
  BY Zenon
  DEF Ledger!ValidateBalanced, Books!ValidateBalanced, Ledger!SumBySide, Books!SumBySide,
      Ledger!AmountsOn, Books!AmountsOn, Ledger!Sum, Books!Sum, Ledger!Running, Books!Running
<1> HIDE DEF m
<1>3. ASSUME NEW side \in {"DEBIT", "CREDIT"} PROVE Books!SumBySide(side, m) = x
  <2>1. On(side) = [i \in 1..2 |-> IF m[i].side = side THEN m[i].amount ELSE 0]
    BY <1>1 DEF Books!AmountsOn
  <2>2. /\ On(side) \in Seq(Int) /\ Len(On(side)) = 2
        /\ On(side)[1] = IF m[1].side = side THEN m[1].amount ELSE 0
        /\ On(side)[2] = IF m[2].side = side THEN m[2].amount ELSE 0
    BY <1>1, <1>2, <2>1
  <2> DEFINE v == On(side)
  <2>3. v \in Seq(Int) /\ Len(v) = 2
    BY <2>2
  <2>4. Books!SumBySide(side, m) = Books!Sum(v)
    BY DEF Books!SumBySide
  <2> HIDE DEF v
  <2>5. Books!Sum(v) = v[1] + v[2]
    BY <2>3, BooksHold, Books!SumTwo
  <2>6. v[1] + v[2] = x
    BY <1>1, <1>2, <2>2 DEF v
  <2> QED
    BY <2>4, <2>5, <2>6
<1>4. Books!ValidateBalanced(m)
  BY <1>3 DEF Books!ValidateBalanced
<1>5. Ledger!UniqueAccountIDs(m) = {from, to}
  <2>1. Ledger!UniqueAccountIDs(m) = {m[i].account : i \in 1..2}
    BY <1>1 DEF Ledger!UniqueAccountIDs
  <2>2. 1..2 = {1, 2}
    OBVIOUS
  <2> QED
    BY <1>1, <2>1, <2>2
<1> QED
  BY <1>0, <1>4, <1>5 DEF m

\* The accounts transfers move money between, their balances, and whether the
\* beneficiary of t has sent money on.
Wallets == Accounts \ DebitNormal
Balance(a) == Ledger!BalanceFromEntries(a, journal)
Spent(t) == \E u \in Transfers : From[u] = To[t] /\ TransferTx(u) \in headers

\* Money is neither made nor lost, no wallet is overdrawn, and the accounts of a
\* posted transfer exist.
FundsInv ==
    /\ \A a \in Wallets : Balance(a) \in 0..MaxHalalas
    /\ Total([a \in Wallets |-> Balance(a)]) =
          Total([a \in Wallets |-> Ledger!BalanceFromEntries(a, SeedRows)])
    /\ \A t \in Transfers :
          TransferTx(t) \in headers => From[t] \in accounts /\ To[t] \in accounts

\* Without faults, whoever gives a transfer up found its funds spent.
SpentInv ==
    faults = 0 =>
        /\ \A w \in Workers, t \in Transfers : Current(w, t) =>
              /\ pc[w] = "unreversed" => Reversed(t) \/ Spent(t)
              /\ pc[w] = "reversed" => Reversed(t)
        /\ \A t \in Transfers : stl[t] = "FAILED" => Reversed(t) \/ Spent(t)

\* A posting that the ledger accepts moves money between two wallets.
LEMMA FundsMove ==
    ASSUME FundsInv, BooksInv, IsFiniteSet(Accounts), NEW id \in JournalIds, Ledger!Post(id),
           NEW from \in Wallets, NEW to \in Wallets, from # to, NEW x \in 1..MaxHalalas,
           JournalLines[id] = Move(id, from, to, x)
    PROVE  /\ \A a \in Wallets : Balance(a)' \in 0..MaxHalalas
           /\ Total([a \in Wallets |-> Balance(a)]) = Total([a \in Wallets |-> Balance(a)'])
           /\ from \in accounts /\ to \in accounts
<1> DEFINE m == Move(id, from, to, x)
           net(a) == (IF to = a THEN x ELSE 0) - (IF from = a THEN x ELSE 0)
<1>0. from \in Accounts /\ to \in Accounts /\ x \in Int /\ \A a \in Wallets : a \in Accounts
  BY LedgerAssumption DEF Wallets, Ledger!BooksAssumption
<1>1. /\ journal' = journal \o m
      /\ Ledger!UniqueAccountIDs(m) \subseteq accounts
      /\ \A a \in Ledger!UniqueAccountIDs(m) :
            Ledger!ApplyEntries(a, Ledger!BalanceFromEntries(a, journal), m) \in 0..MaxHalalas
  BY DEF Ledger!Post, Ledger!CanPost, Ledger!AccountsOf, Ledger!Projected
<1>2. Ledger!UniqueAccountIDs(m) = {from, to}
  BY <1>0, MoveBalanced
<1>3. ASSUME NEW a \in Wallets
      PROVE  /\ Balance(a) \in Int /\ Balance(a)' = Balance(a) + net(a)
             /\ Ledger!ApplyEntries(a, Ledger!BalanceFromEntries(a, journal), m) = Balance(a) + net(a)
  <2>1. journal \in Seq(Ledger!Row) /\ a \in Accounts /\ id \in SeedIds \union JournalIds
    BY <1>0 DEF BooksInv
  <2>2. from \in Accounts \ DebitNormal /\ to \in Accounts \ DebitNormal
    BY DEF Wallets
  <2>3. /\ Ledger!BalanceFromEntries(a, journal) \in Int
        /\ Ledger!BalanceFromEntries(a, journal \o m) = Ledger!BalanceFromEntries(a, journal) + net(a)
        /\ Ledger!ApplyEntries(a, Ledger!BalanceFromEntries(a, journal), m) =
              Ledger!BalanceFromEntries(a, journal) + net(a)
    BY <2>1, <2>2, MoveBalance
  <2> HIDE DEF m, net
  <2> QED
    BY <1>1, <2>3 DEF Balance
<1> HIDE DEF m
<1>4. ASSUME NEW a \in Wallets PROVE Balance(a)' \in 0..MaxHalalas
  <2>1. CASE a \in {from, to}
    BY <1>1, <1>2, <1>3, <2>1
  <2>2. CASE a \notin {from, to}
    BY <1>3, <2>2 DEF FundsInv
  <2> QED
    BY <2>1, <2>2
<1> DEFINE c == [a \in Wallets |-> Balance(a)]
           d == [a \in Wallets |-> Balance(a)']
<1>5. c \in [Wallets -> Int] /\ d \in [Wallets -> Int]
  <2>1. \A a \in Wallets : Balance(a) \in Int /\ Balance(a)' \in Int
    BY <1>0, <1>3
  <2> QED
    BY <2>1
<1>6. \A a \in Wallets \ {from, to} : c[a] = d[a]
  BY <1>3
<1>7. c[from] + c[to] = d[from] + d[to]
  BY <1>0, <1>3
<1>8. IsFiniteSet(Wallets)
  BY FS_Subset DEF Wallets
<1>9. Total(c) = Total(d)
  <2> HIDE DEF c, d
  <2> QED
    BY <1>5, <1>6, <1>7, <1>8, TotalMoved
<1> QED
  BY <1>1, <1>2, <1>4, <1>9

\* FundsInv is inductive.
LEMMA FundsStep ==
    ASSUME IsFiniteSet(Accounts), FundsInv, BooksInv, [Next]_vars
    PROVE  FundsInv'
<1>1. ASSUME NEW t \in Transfers, PostTransfer(t) PROVE FundsInv'
  <2>1. /\ TransferTx(t) \in JournalIds /\ From[t] \in Wallets /\ To[t] \in Wallets
        /\ From[t] # To[t] /\ Amount[t] \in 1..MaxHalalas
        /\ JournalLines[TransferTx(t)] = Move(TransferTx(t), From[t], To[t], Amount[t])
    BY LinesOf DEF Wallets
  <2>2. Ledger!Post(TransferTx(t))
    BY <1>1 DEF PostTransfer
  <2>3. /\ \A a \in Wallets : Balance(a)' \in 0..MaxHalalas
        /\ Total([a \in Wallets |-> Balance(a)]) = Total([a \in Wallets |-> Balance(a)'])
        /\ From[t] \in accounts /\ To[t] \in accounts
    BY <2>1, <2>2, FundsMove
  <2>4. headers' = headers \union {TransferTx(t)} /\ accounts' = accounts
    BY <2>1, <2>2, PostHeaders DEF Ledger!Post
  <2>5. ASSUME NEW u \in Transfers, TransferTx(u) \in headers'
        PROVE  From[u] \in accounts /\ To[u] \in accounts
    BY <2>3, <2>4, <2>5, TxIdsApart DEF FundsInv
  <2> QED
    BY <2>3, <2>4, <2>5 DEF FundsInv
<1>2. ASSUME NEW w \in Workers, NEW t \in Transfers, PostCompensation(w, t) PROVE FundsInv'
  <2>1. /\ CompTx(t) \in JournalIds /\ From[t] \in Wallets /\ To[t] \in Wallets
        /\ To[t] # From[t] /\ Amount[t] \in 1..MaxHalalas
        /\ JournalLines[CompTx(t)] = Move(CompTx(t), To[t], From[t], Amount[t])
    BY LinesOf DEF Wallets
  <2>2. Ledger!Post(CompTx(t))
    BY <1>2 DEF PostCompensation
  <2>3. /\ \A a \in Wallets : Balance(a)' \in 0..MaxHalalas
        /\ Total([a \in Wallets |-> Balance(a)]) = Total([a \in Wallets |-> Balance(a)'])
    BY <2>1, <2>2, FundsMove
  <2>4. headers' = headers \union {CompTx(t)} /\ accounts' = accounts
    BY <2>1, <2>2, PostHeaders DEF Ledger!Post
  <2>5. ASSUME NEW u \in Transfers, TransferTx(u) \in headers'
        PROVE  From[u] \in accounts /\ To[u] \in accounts
    BY <2>4, <2>5, TxIdsApart DEF FundsInv
  <2> QED
    BY <2>3, <2>4, <2>5 DEF FundsInv
<1>3. CASE UNCHANGED books
  BY <1>3 DEF books, FundsInv, Balance
<1> QED
  BY <1>1, <1>2, <1>3, BooksKept

\* A transfer that was posted, whose beneficiary has sent nothing on, can be
\* reversed: its amount is still there, and there is room for it where it came from.
LEMMA CanReverse ==
    ASSUME IsFiniteSet(Accounts),
           Total([a \in Wallets |-> Ledger!BalanceFromEntries(a, SeedRows)]) <= MaxHalalas,
           FundsInv, BooksInv, NEW t \in Transfers, TransferTx(t) \in headers,
           ~Reversed(t), ~Spent(t)
    PROVE  Ledger!CanPost(CompTx(t))
<1> DEFINE id == CompTx(t)
           from == To[t]
           to == From[t]
           x == Amount[t]
           m == Move(id, from, to, x)
<1>1. /\ id \in JournalIds /\ from \in Wallets /\ to \in Wallets /\ from # to
      /\ x \in 1..MaxHalalas /\ x \in Int /\ JournalLines[id] = m
  BY LinesOf DEF Wallets
<1>2. from \in Accounts /\ to \in Accounts /\ MaxHalalas \in Int
  BY <1>1, LedgerAssumption DEF Wallets, Ledger!BooksAssumption
<1>3. Ledger!ValidateBalanced(m) /\ Ledger!UniqueAccountIDs(m) = {from, to}
  BY <1>1, <1>2, MoveBalanced
<1>4. from \in accounts /\ to \in accounts
  BY DEF FundsInv
<1>5. Balance(from) >= x
  <2> DEFINE c == [u \in Open |-> Net(from, u)]
  <2>1. IsFiniteSet(Open) /\ t \in Open
    BY DEF BooksInv, Open
  <2>2. Balance(from) = Ledger!BalanceFromEntries(from, SeedRows) + Total(c)
    BY <1>2 DEF BooksInv, BalancesExplained, Balance
  <2>3. ASSUME NEW u \in Open PROVE Net(from, u) \in Nat
    <3>1. u \in Transfers /\ TransferTx(u) \in headers
      BY DEF Open
    <3>2. From[u] # from /\ Amount[u] \in Nat
      BY <3>1, SettlementAssumption, LedgerAssumption DEF Spent, Ledger!BooksAssumption
    <3> QED
      BY <3>2 DEF Net
  <2>4. Net(from, t) = x
    BY <1>1 DEF Net
  <2>5. c \in [Open -> Int] /\ (\A u \in Open : c[u] \in Nat) /\ DOMAIN c = Open /\ c[t] = x
    BY <2>1, <2>3, <2>4
  <2>6. Ledger!BalanceFromEntries(from, SeedRows) \in Nat
    <3>1. \A a \in Accounts : Ledger!BalanceFromEntries(a, SeedRows) \in 0..MaxHalalas
      BY LedgerAssumption, Zenon DEF Ledger!SeedAssumption
    <3> HIDE DEF from
    <3> QED
      BY <1>2, <3>1
  <2> HIDE DEF c, x, from
  <2>7. Totals(c)[Open] = Totals(c)[Open \ {t}] + c[t]
    BY <2>1, <2>5, TotalsTake
  <2>8. Totals(c)[Open \ {t}] \in Nat
    BY <2>1, <2>5, TotalsNat
  <2> QED
    BY <1>1, <2>2, <2>5, <2>6, <2>7, <2>8 DEF Total
<1>6. Balance(to) + x <= MaxHalalas
  <2> DEFINE c == [a \in Wallets |-> Balance(a)]
  <2>1. c \in [Wallets -> Int] /\ (\A a \in Wallets : c[a] \in Nat) /\ c[to] = Balance(to) /\ c[from] = Balance(from)
    BY <1>1 DEF FundsInv
  <2>2. IsFiniteSet(Wallets)
    BY FS_Subset DEF Wallets
  <2>3. Total(c) <= MaxHalalas
    BY DEF FundsInv
  <2> HIDE DEF c, from, to, x
  <2>4. Total(c) = (Totals(c)[Wallets \ {from, to}] + c[to]) + c[from]
    BY <1>1, <2>1, <2>2, TotalPair
  <2>5. Totals(c)[Wallets \ {from, to}] \in Nat
    BY <2>1, <2>2, TotalsNat
  <2>6. c[to] \in Nat /\ c[from] \in Nat
    BY <1>1, <2>1
  <2> QED
    BY <1>1, <1>2, <1>5, <2>1, <2>3, <2>4, <2>5, <2>6
<1>7. ASSUME NEW a \in {from, to}
      PROVE  Ledger!ApplyEntries(a, Ledger!BalanceFromEntries(a, journal), m) \in 0..MaxHalalas
  <2>1. /\ journal \in Seq(Ledger!Row) /\ a \in Accounts /\ a \in Wallets
        /\ id \in SeedIds \union JournalIds
        /\ from \in Accounts \ DebitNormal /\ to \in Accounts \ DebitNormal
    BY <1>1, <1>2 DEF BooksInv, Wallets
  <2> HIDE DEF id, from, to, x
  <2>2. Ledger!ApplyEntries(a, Ledger!BalanceFromEntries(a, journal), m) =
           Ledger!BalanceFromEntries(a, journal)
              + ((IF to = a THEN x ELSE 0) - (IF from = a THEN x ELSE 0))
    BY <1>1, <2>1, MoveBalance
  <2>3. Balance(a) \in 0..MaxHalalas /\ Balance(a) = Ledger!BalanceFromEntries(a, journal)
    BY <2>1 DEF FundsInv, Balance
  <2> HIDE DEF m
  <2> QED
    BY <1>1, <1>2, <1>5, <1>6, <2>2, <2>3
<1> HIDE DEF m
<1> QED
  BY <1>1, <1>3, <1>4, <1>7
  DEF Ledger!CanPost, Ledger!AccountsOf, Ledger!Projected, Reversed

\* Ids are never taken out of the ledger, so what was reversed or spent stays so.
LEMMA HeadersGrow ==
    ASSUME [Next]_vars
    PROVE  /\ headers \subseteq headers'
           /\ \A t \in Transfers : (Reversed(t) => Reversed(t)') /\ (Spent(t) => Spent(t)')
<1>1. headers \subseteq headers'
  <2>1. CASE \E t \in Transfers : PostTransfer(t)
    BY <2>1, TxIdsApart, PostHeaders DEF PostTransfer
  <2>2. CASE \E w \in Workers, t \in Transfers : PostCompensation(w, t)
    BY <2>2, TxIdsApart, PostHeaders DEF PostCompensation
  <2>3. CASE UNCHANGED books
    BY <2>3 DEF books
  <2> QED
    BY <2>1, <2>2, <2>3, BooksKept
<1> QED
  BY <1>1 DEF Reversed, Spent

\* A worker's step on its row t, if what it says of t is so.
LEMMA TurnSpent ==
    ASSUME TypeOK, SpentInv, faults = 0, [Next]_vars,
           NEW w \in Workers, NEW t \in Transfers, Turn(w, t),
           pc'[w] = "unreversed" => Reversed(t)' \/ Spent(t)',
           pc'[w] = "reversed" => Reversed(t)',
           stl'[t] = "FAILED" => stl[t] = "FAILED" \/ Reversed(t)' \/ Spent(t)'
    PROVE  SpentInv'
<1>0. \A u \in Transfers : (Reversed(u) => Reversed(u)') /\ (Spent(u) => Spent(u)')
  BY HeadersGrow
<1>1. ASSUME NEW v \in Workers, NEW u \in Transfers, Current(v, u)',
             pc'[v] \in {"unreversed", "reversed"}
      PROVE  /\ pc'[v] = "unreversed" => Reversed(u)' \/ Spent(u)'
             /\ pc'[v] = "reversed" => Reversed(u)'
  <2>1. CASE v = w
    <3>1. batch'[w] = batch[w]
      BY <1>1, <2>1 DEF Turn, Idle
    <3>2. u = t
      <4>1. u \in batch[w] /\ t \in batch[w] /\ u <= t /\ t <= u
        BY <1>1, <2>1, <3>1 DEF Turn, Current
      <4>2. u \in Nat /\ t \in Nat
        BY SettlementAssumption
      <4> QED
        BY <4>1, <4>2
    <3> QED
      BY <2>1, <3>2
  <2>2. CASE v # w
    <3>1. pc'[v] = pc[v] /\ batch'[v] = batch[v]
      BY <2>2 DEF Turn
    <3>2. Current(v, u)
      BY <1>1, <3>1 DEF Current
    <3> QED
      BY <1>0, <3>1, <3>2 DEF SpentInv
  <2> QED
    BY <2>1, <2>2
<1>2. ASSUME NEW u \in Transfers, stl'[u] = "FAILED" PROVE Reversed(u)' \/ Spent(u)'
  <2>1. CASE u = t
    BY <1>0, <1>2, <2>1 DEF SpentInv
  <2>2. CASE u # t
    BY <1>0, <1>2, <2>2 DEF SpentInv, Turn
  <2> QED
    BY <2>1, <2>2
<1> QED
  BY <1>1, <1>2 DEF SpentInv

\* SpentInv is inductive.
LEMMA SpentStep ==
    ASSUME IsFiniteSet(Accounts),
           Total([a \in Wallets |-> Ledger!BalanceFromEntries(a, SeedRows)]) <= MaxHalalas,
           BackedInv, BooksInv, FundsInv, SpentInv, [Next]_vars
    PROVE  SpentInv'
<1> SUFFICES ASSUME faults' = 0 PROVE SpentInv'
  BY DEF SpentInv
<1>0. TypeOK
  BY DEF BackedInv
<1>f. faults \in Nat /\ (Fault => FALSE)
  BY <1>0 DEF TypeOK, Fault
<1>g. \A u \in Transfers : (Reversed(u) => Reversed(u)') /\ (Spent(u) => Spent(u)')
  BY HeadersGrow
<1>k. ASSUME faults = 0, UNCHANGED stl,
             \A v \in Workers : (pc'[v] = pc[v] /\ batch'[v] = batch[v])
                                \/ pc'[v] \in {Idle, "claimed", "settling"}
      PROVE  SpentInv'
  <2>1. ASSUME NEW v \in Workers, NEW u \in Transfers, Current(v, u)',
               pc'[v] \in {"unreversed", "reversed"}
        PROVE  Current(v, u) /\ pc'[v] = pc[v]
    BY <1>k, <2>1 DEF Current, Idle
  <2> QED
    BY <1>g, <1>k, <2>1 DEF SpentInv
<1>1. ASSUME NEW t \in Transfers, PostTransfer(t) PROVE SpentInv'
  <2>1. /\ UNCHANGED <<pc, batch, faults>> /\ stl'[t] = "PENDING"
        /\ \A u \in Transfers \ {t} : stl'[u] = stl[u]
    BY <1>0, <1>1, PostShape
  <2> QED
    BY <1>g, <2>1 DEF SpentInv, Current
<1>2. ASSUME NEW w \in Workers, Claim(w) PROVE SpentInv'
  <2>1. /\ UNCHANGED <<stl, faults>> /\ pc'[w] = "claimed"
        /\ \A v \in Workers \ {w} : pc'[v] = pc[v] /\ batch'[v] = batch[v]
    BY <1>0, <1>2, ClaimShape
  <2> QED
    BY <1>k, <2>1
<1>3. ASSUME NEW w \in Workers, ClaimCommit(w), ~ConnBusy PROVE SpentInv'
  <2>1. /\ UNCHANGED <<stl, faults>> /\ pc'[w] = "settling" /\ batch' = batch
        /\ \A v \in Workers \ {w} : pc'[v] = pc[v]
    BY <1>0, <1>3, CountShape
  <2> QED
    BY <1>k, <2>1
<1>4. ASSUME NEW w \in Workers, ClaimCommit(w), ConnBusy PROVE SpentInv'
  <2>1. Drop(w) /\ UNCHANGED <<stl, faults>>
    BY <1>4 DEF ClaimCommit
  <2>2. /\ pc'[w] = Idle
        /\ \A v \in Workers \ {w} : batch'[v] = batch[v] /\ pc'[v] = pc[v]
    BY <1>0, <2>1, DropEffect
  <2> QED
    BY <1>k, <2>1, <2>2
<1>5. ASSUME NEW w \in Workers, Crash(w) PROVE SpentInv'
  BY <1>5, <1>f DEF Crash
<1>6. ASSUME NEW w \in Workers, NEW t \in Transfers,
             \/ MarkSettling(w, t) \/ SarieSettle(w, t)
             \/ MarkSettled(w, t) \/ MarkCompleted(w, t)
             \/ Compensate(w, t) \/ PostCompensation(w, t) \/ CompensationFails(w, t)
             \/ MarkUnreversed(w, t) \/ MarkFailed(w, t) \/ MarkReversed(w, t)
      PROVE  SpentInv'
  <2>1. Turn(w, t)
    BY <1>0, <1>6, <1>f, TurnShape
  <2>2. faults = 0
    BY <1>6, <1>f
    DEF MarkSettling, SarieSettle, MarkSettled, MarkCompleted, Compensate, PostCompensation,
        CompensationFails, MarkUnreversed, MarkFailed, MarkReversed, UpdateSaga, NoFault
  <2>p. ASSUME NEW l \in Labels, Goto(w, l) PROVE pc'[w] = l
    BY <1>0, <2>p, GotoEffect
  <2>n. ASSUME NextItem(w, t) PROVE pc'[w] \in {Idle, "settling"}
    BY <1>0, <2>n, NextItemEffect
  <2>l. {"calling", "settled", "completing", "reversing", "posting", "reversed", "unreversed",
         "failing"} \subseteq Labels
    BY DEF Labels
  <2>3. pc'[w] = "unreversed" => Reversed(t)' \/ Spent(t)'
    <3>1. CASE CompensationFails(w, t)
      <4>1. ~Ledger!CanPost(CompTx(t))
        BY <1>f, <3>1 DEF CompensationFails
      <4>2. TransferTx(t) \in headers
        BY <2>1 DEF Turn, Current, BackedInv, ClaimsHeld, StatusesBacked
      <4>3. Reversed(t) \/ Spent(t)
        BY <4>1, <4>2, CanReverse
      <4> QED
        BY <1>g, <4>3
    <3>2. CASE ~CompensationFails(w, t)
      <4>1. pc'[w] # "unreversed"
        BY <1>6, <1>f, <2>p, <2>n, <2>l, <3>2
        DEF MarkSettling, SarieSettle, MarkSettled, MarkCompleted, Compensate, PostCompensation,
            MarkUnreversed, MarkFailed, MarkReversed, Idle
      <4> QED
        BY <4>1
    <3> QED
      BY <3>1, <3>2
  <2>4. pc'[w] = "reversed" => Reversed(t)'
    <3>1. CASE PostCompensation(w, t)
      BY <3>1, TxIdsApart, PostHeaders DEF PostCompensation, Reversed
    <3>2. CASE ~PostCompensation(w, t)
      <4>1. pc'[w] # "reversed"
        BY <1>6, <1>f, <2>p, <2>n, <2>l, <3>2
        DEF MarkSettling, SarieSettle, MarkSettled, MarkCompleted, Compensate, CompensationFails,
            MarkUnreversed, MarkFailed, MarkReversed, Idle
      <4> QED
        BY <4>1
    <3> QED
      BY <3>1, <3>2
  <2>5. stl'[t] = "FAILED" => stl[t] = "FAILED" \/ Reversed(t)' \/ Spent(t)'
    <3>1. CASE MarkUnreversed(w, t) \/ MarkReversed(w, t)
      <4>1. Current(w, t) /\ pc[w] \in {"unreversed", "reversed"}
        BY <3>1 DEF MarkUnreversed, MarkReversed
      <4> QED
        BY <1>g, <2>2, <4>1 DEF SpentInv
    <3>2. CASE MarkSettled(w, t)
      <4>1. stl'[t] = "SETTLED"
        BY <1>0, <1>f, <3>2 DEF MarkSettled, UpdateSettlement, TypeOK
      <4> QED
        BY <4>1
    <3>3. CASE ~(MarkUnreversed(w, t) \/ MarkReversed(w, t) \/ MarkSettled(w, t))
      BY <1>6, <3>3
      DEF MarkSettling, SarieSettle, MarkCompleted, Compensate, PostCompensation, CompensationFails,
          MarkFailed, rows
    <3> QED
      BY <3>1, <3>2, <3>3
  <2> QED
    BY <1>0, <2>1, <2>2, <2>3, <2>4, <2>5, TurnSpent
<1>7. CASE UNCHANGED vars
  BY <1>k, <1>7 DEF vars, rows, worker
<1> QED
  BY <1>1, <1>2, <1>3, <1>4, <1>5, <1>6, <1>7 DEF Next, Work

\* The opening balances are all there is, and nothing has failed.
LEMMA FundsInit == Init => FundsInv /\ SpentInv
<1> SUFFICES ASSUME Init PROVE FundsInv /\ SpentInv
  OBVIOUS
<1>1. headers = SeedIds /\ journal = SeedRows
  BY DEF Init, Ledger!Init
<1>2. \A t \in Transfers : TransferTx(t) \notin headers
  BY <1>1, TxIdsApart, SeedIdsAssumption
<1>3. \A a \in Accounts : Ledger!BalanceFromEntries(a, SeedRows) \in 0..MaxHalalas
  BY LedgerAssumption, Zenon DEF Ledger!SeedAssumption
<1>4. FundsInv
  BY <1>1, <1>2, <1>3 DEF FundsInv, Balance, Wallets
<1>5. SpentInv
  BY SettlementAssumption DEF Init, SpentInv, Current
<1> QED
  BY <1>4, <1>5

\* If all the money there is fits one amount, only spent funds stand in the way of
\* a compensation: whatever the order of transfers and reversals, neither a refused
\* balance nor an overflow leaves a failed settlement unreversed (compensate).
THEOREM UnreversedAlwaysSpent ==
    ASSUME IsFiniteSet(Accounts),
           Total([a \in Wallets |-> Ledger!BalanceFromEntries(a, SeedRows)]) <= MaxHalalas
    PROVE  Spec => []UnreversedWasSpent
<1>1. BackedInv /\ BooksInv /\ FundsInv /\ SpentInv /\ [Next]_vars =>
         BooksInv' /\ FundsInv' /\ SpentInv'
  BY BooksStep, FundsStep, SpentStep
<1>2. SpentInv => UnreversedWasSpent
  BY DEF SpentInv, UnreversedWasSpent, Spent
<1> QED
  BY <1>1, <1>2, BooksInit, FundsInit, BackedInvariant, PTL DEF Spec

-----------------------------------------------------------------------------

\* A step of the tracking page leaves the worker's variables alone.
LEMMA TrackStep ==
    ASSUME [TrackNext]_trackVars
    PROVE  [Next]_vars
  BY DEF TrackNext, trackVars, Search, Refresh, LookupFails, Progress, PollAgain, ReadSaga,
         ReadSettlement, Answer, AnswerError

\* The worker beside the page is the worker.
LEMMA TrackRefines == TrackSpec => Spec
  BY TrackStep, PTL DEF TrackSpec, TrackInit, Spec

\* The types of the page's variables; an answer names a transfer and its saga.
PageTypeOK ==
    /\ query \in Targets
    /\ status \in Shown \union {None}
    /\ error \in BOOLEAN /\ polling \in BOOLEAN /\ timer \in BOOLEAN /\ disturbed \in BOOLEAN
    /\ lookup \in [Slots -> Lookups \union {None}]
    /\ \A s \in Slots :
          lookup[s] # None /\ lookup[s].phase \in {"saga", "answered"} =>
              lookup[s].target \in Transfers /\ lookup[s].saga \in SagaStates

ByPoll(s) == lookup[s] # None /\ lookup[s].auto

\* The poll loop is one thread: it sleeps or has one look-up under way, for what
\* is in the search field.
OnePoll ==
    /\ timer => query # None /\ \A s \in Slots : ~ByPoll(s)
    /\ \A r, s \in Slots : ByPoll(r) /\ ByPoll(s) => r = s
    /\ \A s \in Slots : ByPoll(s) => lookup[s].target = query

\* On a page that was left alone every look-up is the poll loop's.
LeftAlone == ~disturbed => \A s \in UnderWay : lookup[s].auto

LiveInv == PageTypeOK /\ OnePoll /\ LeftAlone /\ LiveUntilTheEnd

\* What is sent is a look-up.
LEMMA SentType ==
    ASSUME NEW target \in Transfers \union {Unknown}, NEW auto \in BOOLEAN
    PROVE  /\ Sent(target, auto) \in Lookups /\ Sent(target, auto) # None
           /\ Sent(target, auto).target = target /\ Sent(target, auto).auto = auto
           /\ Sent(target, auto).phase = "sent"
<1>1. Sent(target, auto) \in Lookups
  BY DEF Sent, Lookups
<1> QED
  BY <1>1, TrackAssumption DEF Sent

\* A search: the polls before it are cancelled, a new one is sent.
LEMMA SearchLive ==
    ASSUME TypeOK, LiveInv, NEW s \in Slots, NEW target \in Targets, Search(s, target)
    PROVE  LiveInv'
<1> DEFINE entry == IF target = None THEN None ELSE Sent(target, TRUE)
<1>0. PageTypeOK
  BY DEF LiveInv
<1>1. /\ query' = target /\ timer' = FALSE /\ polling' = (target # None)
      /\ error' = (error /\ target = None) /\ disturbed' = (UnderWay # {}) /\ status' = status
      /\ lookup[s] = None
      /\ lookup' = [Cancelled EXCEPT ![s] = entry]
  BY DEF Search, FirstFree
<1>2. \A r \in Slots : /\ Cancelled[r] \in Lookups \union {None}
                       /\ Cancelled[r] # None <=> lookup[r] # None
                       /\ lookup[r] # None => /\ ~Cancelled[r].auto
                                              /\ Cancelled[r].phase = lookup[r].phase
                                              /\ Cancelled[r].target = lookup[r].target
                                              /\ Cancelled[r].saga = lookup[r].saga
  <2> SUFFICES ASSUME NEW r \in Slots, lookup[r] # None
               PROVE  /\ Cancelled[r] \in Lookups
                      /\ ~Cancelled[r].auto /\ Cancelled[r].phase = lookup[r].phase
                      /\ Cancelled[r].target = lookup[r].target
                      /\ Cancelled[r].saga = lookup[r].saga
    BY TrackAssumption DEF Cancelled
  <2>1. lookup[r] \in Lookups
    BY <1>0 DEF PageTypeOK
  <2>2. Cancelled[r] = [lookup[r] EXCEPT !.auto = FALSE]
    BY DEF Cancelled
  <2> QED
    BY <2>1, <2>2 DEF Lookups
<1>3. /\ entry \in Lookups \union {None}
      /\ entry # None <=> target # None
      /\ target # None => entry.target = target /\ entry.auto /\ entry.phase = "sent"
  BY SentType DEF Targets
<1> HIDE DEF entry
<1>4. /\ Cancelled \in [Slots -> Lookups \union {None}]
      /\ lookup' \in [Slots -> Lookups \union {None}] /\ lookup'[s] = entry
      /\ \A r \in Slots \ {s} : lookup'[r] = Cancelled[r]
  BY <1>1, <1>2, <1>3 DEF Cancelled
<1>5. \A r \in Slots : ByPoll(r)' <=> r = s /\ target # None
  BY <1>2, <1>3, <1>4 DEF ByPoll
<1>6. PageTypeOK'
  BY <1>0, <1>1, <1>2, <1>3, <1>4 DEF PageTypeOK
<1>7. OnePoll'
  BY <1>1, <1>3, <1>4, <1>5 DEF OnePoll
<1>8. LeftAlone'
  <2> SUFFICES ASSUME UnderWay = {}, NEW r \in UnderWay' PROVE lookup'[r].auto
    BY <1>1 DEF LeftAlone
  <2>1. r \in Slots /\ lookup'[r] # None
    BY DEF UnderWay
  <2>2. r = s
    BY <1>2, <1>4, <2>1 DEF UnderWay
  <2> QED
    BY <1>3, <1>4, <2>1, <2>2
<1>9. LiveUntilTheEnd'
  BY <1>1, <1>5 DEF LiveUntilTheEnd, UnderWay, ByPoll
<1> QED
  BY <1>6, <1>7, <1>8, <1>9 DEF LiveInv

\* A refresh is nobody's poll.
LEMMA RefreshLive ==
    ASSUME TypeOK, LiveInv, NEW s \in Slots, Refresh(s)
    PROVE  LiveInv'
<1>0. PageTypeOK
  BY DEF LiveInv
<1>1. /\ query \in Transfers \union {Unknown} /\ lookup[s] = None /\ error' = FALSE /\ disturbed' = TRUE
      /\ UNCHANGED <<query, status, polling, timer>>
      /\ lookup' = [lookup EXCEPT ![s] = Sent(query, FALSE)]
  BY <1>0 DEF Refresh, FirstFree, PageTypeOK, Targets
<1>2. /\ Sent(query, FALSE) \in Lookups /\ Sent(query, FALSE) # None
      /\ ~Sent(query, FALSE).auto /\ Sent(query, FALSE).phase = "sent"
  BY <1>1, SentType
<1>3. /\ lookup' \in [Slots -> Lookups \union {None}] /\ lookup'[s] = Sent(query, FALSE)
      /\ \A r \in Slots \ {s} : lookup'[r] = lookup[r]
  BY <1>0, <1>1, <1>2 DEF PageTypeOK
<1>4. \A r \in Slots : ByPoll(r)' <=> ByPoll(r)
  BY <1>1, <1>2, <1>3 DEF ByPoll
<1>5. PageTypeOK'
  BY <1>0, <1>1, <1>2, <1>3 DEF PageTypeOK
<1>6. OnePoll'
  BY <1>1, <1>2, <1>3, <1>4 DEF LiveInv, OnePoll, ByPoll
<1>7. LeftAlone' /\ LiveUntilTheEnd'
  BY <1>1, <1>4 DEF LiveInv, LeftAlone, LiveUntilTheEnd, UnderWay, ByPoll
<1> QED
  BY <1>5, <1>6, <1>7 DEF LiveInv

\* The timer fires.
LEMMA PollAgainLive ==
    ASSUME TypeOK, LiveInv, NEW s \in Slots, PollAgain(s)
    PROVE  LiveInv'
<1>0. PageTypeOK
  BY DEF LiveInv
<1>1. /\ query \in Transfers \union {Unknown} /\ lookup[s] = None /\ timer /\ timer' = FALSE
      /\ polling' = TRUE /\ error' = FALSE /\ UNCHANGED <<query, status, disturbed>>
      /\ lookup' = [lookup EXCEPT ![s] = Sent(query, TRUE)]
  BY <1>0 DEF LiveInv, OnePoll, PollAgain, FirstFree, PageTypeOK, Targets
<1>2. /\ Sent(query, TRUE) \in Lookups /\ Sent(query, TRUE) # None
      /\ Sent(query, TRUE).auto /\ Sent(query, TRUE).phase = "sent"
      /\ Sent(query, TRUE).target = query
  BY <1>1, SentType
<1>3. /\ lookup' \in [Slots -> Lookups \union {None}] /\ lookup'[s] = Sent(query, TRUE)
      /\ \A r \in Slots \ {s} : lookup'[r] = lookup[r]
  BY <1>0, <1>1, <1>2 DEF PageTypeOK
<1>4. \A r \in Slots : ByPoll(r)' <=> r = s
  BY <1>1, <1>2, <1>3 DEF LiveInv, OnePoll, ByPoll
<1>5. PageTypeOK'
  BY <1>0, <1>1, <1>2, <1>3 DEF PageTypeOK
<1>6. OnePoll'
  BY <1>1, <1>2, <1>3, <1>4 DEF OnePoll
<1>7. LeftAlone'
  BY <1>1, <1>2, <1>3 DEF LiveInv, LeftAlone, UnderWay
<1>8. LiveUntilTheEnd'
  BY <1>1, <1>4 DEF LiveUntilTheEnd, UnderWay, ByPoll
<1> QED
  BY <1>5, <1>6, <1>7, <1>8 DEF LiveInv

\* A read, or a failure, takes a look-up further; page and poll stay as they are.
LEMMA ReadEffect ==
    ASSUME TypeOK, PageTypeOK, NEW s \in Slots,
           ReadSaga(s) \/ ReadSettlement(s) \/ LookupFails(s)
    PROVE  /\ PageTypeOK' /\ UNCHANGED <<query, status, error, polling, timer, disturbed>>
           /\ lookup[s] # None /\ lookup'[s] # None
           /\ lookup'[s].auto = lookup[s].auto /\ lookup'[s].target = lookup[s].target
           /\ \A r \in Slots \ {s} : lookup'[r] = lookup[r]
<1> DEFINE e == lookup[s]
<1>1. e # None /\ e \in Lookups /\ UNCHANGED <<query, status, error, polling, timer, disturbed>>
  BY DEF PageTypeOK, ReadSaga, ReadSettlement, LookupFails
<1>2. ASSUME NEW x \in Lookups, lookup' = [lookup EXCEPT ![s] = x],
             x.auto = e.auto, x.target = e.target,
             x.phase \in {"saga", "answered"} => x.target \in Transfers /\ x.saga \in SagaStates
      PROVE  /\ PageTypeOK' /\ lookup'[s] # None
             /\ lookup'[s].auto = lookup[s].auto /\ lookup'[s].target = lookup[s].target
             /\ \A r \in Slots \ {s} : lookup'[r] = lookup[r]
  BY <1>1, <1>2, TrackAssumption DEF PageTypeOK
<1>3. CASE ReadSaga(s)
  <2>1. CASE e.target = Unknown \/ saga[e.target] = None
    <3>1. lookup' = [lookup EXCEPT ![s] = [e EXCEPT !.phase = "failed"]]
      BY <1>3, <2>1 DEF ReadSaga
    <3>2. /\ [e EXCEPT !.phase = "failed"] \in Lookups
          /\ [e EXCEPT !.phase = "failed"].auto = e.auto
          /\ [e EXCEPT !.phase = "failed"].target = e.target
          /\ [e EXCEPT !.phase = "failed"].phase = "failed"
      BY <1>1 DEF Lookups
    <3> QED
      BY <1>1, <1>2, <3>1, <3>2
  <2>2. CASE ~(e.target = Unknown \/ saga[e.target] = None)
    <3> DEFINE x == [e EXCEPT !.phase = "saga", !.saga = saga[e.target]]
    <3>1. lookup' = [lookup EXCEPT ![s] = x]
      BY <1>3, <2>2, <1>1 DEF ReadSaga, PageTypeOK, Lookups
    <3>2. e.target \in Transfers /\ saga[e.target] \in SagaStates
      BY <1>1, <2>2 DEF Lookups, TypeOK
    <3>3. x \in Lookups /\ x.auto = e.auto /\ x.target = e.target /\ x.saga = saga[e.target]
      BY <1>1, <3>2 DEF Lookups
    <3> HIDE DEF x
    <3> QED
      BY <1>1, <1>2, <3>1, <3>2, <3>3
  <2> QED
    BY <2>1, <2>2
<1>4. CASE ReadSettlement(s)
  <2> DEFINE x == [e EXCEPT !.phase = "answered", !.settlement = stl[e.target]]
  <2>1. lookup' = [lookup EXCEPT ![s] = x] /\ e.phase = "saga"
    BY <1>4, <1>1 DEF ReadSettlement, PageTypeOK, Lookups
  <2>2. e.target \in Transfers /\ e.saga \in SagaStates
    BY <1>1, <2>1 DEF PageTypeOK
  <2>3. x \in Lookups /\ x.auto = e.auto /\ x.target = e.target /\ x.saga = e.saga
    BY <1>1, <2>2 DEF Lookups, TypeOK
  <2> HIDE DEF x
  <2> QED
    BY <1>1, <1>2, <2>1, <2>2, <2>3
<1>5. CASE LookupFails(s)
  <2>1. lookup' = [lookup EXCEPT ![s] = [e EXCEPT !.phase = "failed"]]
    BY <1>5 DEF LookupFails
  <2>2. /\ [e EXCEPT !.phase = "failed"] \in Lookups
        /\ [e EXCEPT !.phase = "failed"].auto = e.auto
        /\ [e EXCEPT !.phase = "failed"].target = e.target
        /\ [e EXCEPT !.phase = "failed"].phase = "failed"
    BY <1>1 DEF Lookups
  <2> QED
    BY <1>1, <1>2, <2>1, <2>2
<1> QED
  BY <1>3, <1>4, <1>5

\* So a read keeps the poll loop as it is.
LEMMA ReadLive ==
    ASSUME TypeOK, LiveInv, NEW s \in Slots,
           ReadSaga(s) \/ ReadSettlement(s) \/ LookupFails(s)
    PROVE  LiveInv'
<1>1. /\ PageTypeOK' /\ UNCHANGED <<query, status, error, polling, timer, disturbed>>
      /\ lookup[s] # None /\ lookup'[s] # None
      /\ lookup'[s].auto = lookup[s].auto /\ lookup'[s].target = lookup[s].target
      /\ \A r \in Slots \ {s} : lookup'[r] = lookup[r]
  BY ReadEffect DEF LiveInv
<1>2. \A r \in Slots : /\ ByPoll(r)' <=> ByPoll(r)
                       /\ lookup'[r] # None <=> lookup[r] # None
                       /\ lookup[r] # None => lookup'[r].target = lookup[r].target
                                              /\ lookup'[r].auto = lookup[r].auto
  BY <1>1 DEF ByPoll
<1>3. OnePoll'
  BY <1>1, <1>2 DEF LiveInv, OnePoll, ByPoll
<1>4. LeftAlone' /\ LiveUntilTheEnd'
  BY <1>1, <1>2 DEF LiveInv, LeftAlone, LiveUntilTheEnd, UnderWay
<1> QED
  BY <1>1, <1>3, <1>4 DEF LiveInv

\* An answer arrives, of the poll or of anybody else.
LEMMA AnswerLive ==
    ASSUME TypeOK, LiveInv, NEW s \in Slots, Answer(s) \/ AnswerError(s)
    PROVE  LiveInv'
<1>0. PageTypeOK
  BY DEF LiveInv
<1> DEFINE e == lookup[s]
<1>1. /\ e # None /\ e \in Lookups /\ UNCHANGED <<query, disturbed>>
      /\ lookup' = [lookup EXCEPT ![s] = None]
  BY <1>0 DEF PageTypeOK, Answer, AnswerError
<1>2. /\ lookup' \in [Slots -> Lookups \union {None}] /\ lookup'[s] = None
      /\ \A r \in Slots \ {s} : lookup'[r] = lookup[r]
  BY <1>0, <1>1 DEF PageTypeOK
<1>3. \A r \in Slots : ByPoll(r)' <=> ByPoll(r) /\ r # s
  BY <1>2 DEF ByPoll
<1>4. e.auto \in BOOLEAN
  BY <1>1 DEF Lookups
<1>5. /\ status' \in Shown \union {None} /\ error' \in BOOLEAN
      /\ error => error'
      /\ \E again \in BOOLEAN :
            /\ PollOn(s, again)
            /\ ~again => error' \/ (status' # None /\ status'.target = e.target /\ status'.saga \in Terminal)
  <2>1. CASE Answer(s)
    <3>1. e.target \in Transfers /\ e.saga \in SagaStates
      BY <1>0, <2>1 DEF PageTypeOK, Answer
    <3>2. status' = [target |-> e.target, saga |-> e.saga, settlement |-> e.settlement]
          /\ error' = error /\ PollOn(s, e.saga \notin TERMINAL)
      BY <2>1 DEF Answer
    <3>3. status' \in Shown
      BY <1>1, <3>1, <3>2 DEF Shown, Lookups
    <3>4. status' # None /\ status'.target = e.target /\ status'.saga = e.saga
      BY <3>2, <3>3, TrackAssumption
    <3>5. TERMINAL = Terminal
      BY DEF TERMINAL, Terminal
    <3> HIDE DEF e
    <3> QED
      BY <1>0, <3>2, <3>3, <3>4, <3>5 DEF PageTypeOK
  <2>2. CASE AnswerError(s)
    BY <2>2 DEF AnswerError
  <2> QED
    BY <2>1, <2>2
<1>6. PICK again \in BOOLEAN :
          /\ PollOn(s, again)
          /\ ~again => error' \/ (status' # None /\ status'.target = e.target /\ status'.saga \in Terminal)
  BY <1>5
<1>7. CASE e.auto
  <2>1. timer' = again /\ polling' = again
    BY <1>6, <1>7 DEF PollOn
  <2>2. ByPoll(s) /\ e.target = query /\ query # None
    BY <1>1, <1>7, TrackAssumption DEF LiveInv, OnePoll, ByPoll, Lookups
  <2>3. \A r \in Slots : ~ByPoll(r)'
    BY <1>3, <2>2 DEF LiveInv, OnePoll
  <2>4. PageTypeOK'
    BY <1>0, <1>1, <1>2, <1>5, <2>1 DEF PageTypeOK
  <2>5. OnePoll'
    BY <1>1, <2>1, <2>2, <2>3 DEF OnePoll
  <2>6. LeftAlone'
    BY <1>1, <1>2 DEF LiveInv, LeftAlone, UnderWay
  <2>7. LiveUntilTheEnd'
    <3>1. (polling <=> timer \/ \E r \in UnderWay : lookup[r].auto)'
      BY <2>1, <2>3 DEF UnderWay, ByPoll
    <3>2. ~polling' => error' \/ (status' # None /\ status'.target = query' /\ status'.saga \in Terminal)
      BY <1>1, <1>6, <2>1, <2>2
    <3> QED
      BY <3>1, <3>2 DEF LiveUntilTheEnd
  <2> QED
    BY <2>4, <2>5, <2>6, <2>7 DEF LiveInv
<1>8. CASE ~e.auto
  <2>1. timer' = timer /\ polling' = polling
    BY <1>6, <1>8 DEF PollOn
  <2>2. \A r \in Slots : ByPoll(r)' <=> ByPoll(r)
    BY <1>3, <1>8 DEF ByPoll
  <2>3. disturbed /\ disturbed'
    BY <1>0, <1>1, <1>8 DEF LiveInv, LeftAlone, UnderWay, PageTypeOK
  <2>4. PageTypeOK'
    BY <1>0, <1>1, <1>2, <1>5, <2>1 DEF PageTypeOK
  <2>5. OnePoll'
    BY <1>1, <1>2, <2>1, <2>2 DEF LiveInv, OnePoll, ByPoll
  <2>6. LeftAlone' /\ LiveUntilTheEnd'
    BY <2>1, <2>2, <2>3 DEF LiveInv, LeftAlone, LiveUntilTheEnd, UnderWay, ByPoll
  <2> QED
    BY <2>4, <2>5, <2>6 DEF LiveInv
<1> QED
  BY <1>4, <1>7, <1>8

\* The page's look-ups, timer and what it shows stay in step.
THEOREM LiveInvariant == TrackSpec => []LiveInv
<1>1. TrackInit => LiveInv
  <2> SUFFICES ASSUME TrackInit PROVE LiveInv
    OBVIOUS
  <2>1. PageTypeOK
    BY DEF TrackInit, PageTypeOK, Targets
  <2>2. \A s \in Slots : ~ByPoll(s)
    BY DEF TrackInit, ByPoll
  <2>3. OnePoll /\ LeftAlone /\ LiveUntilTheEnd
    BY <2>2 DEF TrackInit, OnePoll, LeftAlone, LiveUntilTheEnd, UnderWay, ByPoll
  <2> QED
    BY <2>1, <2>3 DEF LiveInv
<1>2. TypeOK /\ LiveInv /\ [TrackNext]_trackVars => LiveInv'
  <2> SUFFICES ASSUME TypeOK, LiveInv, [TrackNext]_trackVars PROVE LiveInv'
    OBVIOUS
  <2>1. CASE UNCHANGED page
    BY <2>1
    DEF page, LiveInv, PageTypeOK, OnePoll, LeftAlone, LiveUntilTheEnd, UnderWay, ByPoll
  <2>2. ASSUME NEW s \in Slots,
               \/ \E target \in Targets : Search(s, target)
               \/ Refresh(s) \/ LookupFails(s) \/ Progress(s)
        PROVE  LiveInv'
    BY <2>2, SearchLive, RefreshLive, ReadLive, PollAgainLive, AnswerLive DEF Progress
  <2> QED
    BY <2>1, <2>2 DEF TrackNext, trackVars
<1> QED
  BY <1>1, <1>2, TrackRefines, SettlementTypeCorrect, PTL DEF TrackSpec

\* "Live tracking" says what the page does: it is shown while, and only while, the
\* page is going to look again, and stops only at the transfer's end or an error.
THEOREM LiveAlwaysUntilTheEnd == TrackSpec => []LiveUntilTheEnd
<1>1. LiveInv => LiveUntilTheEnd
  BY DEF LiveInv
<1> QED
  BY <1>1, LiveInvariant, PTL

-----------------------------------------------------------------------------

\* The settlement status that goes with a label, where no second worker has the row.
Fits(t, label) ==
    IF label = "completing" THEN stl[t] = "SETTLED"
    ELSE IF label = "failing" THEN stl[t] # "SETTLED"
    ELSE stl[t] = "PENDING"

\* A single worker finds its rows as it left them, and completes the saga of none
\* but a settled one.
SoleInv ==
    /\ \A w \in Workers : \A t \in batch[w] : Fits(t, Label(w, t))
    /\ \A t \in Transfers : saga[t] = "COMPLETED" => stl[t] = "SETTLED"

\* What has been reached: these facts never go away again.
Lasts(t) ==
    /\ stl[t] = "SETTLED" => stl'[t] = "SETTLED"
    /\ Reversed(t) => Reversed(t)'

\* A step of the only worker on its row.
LEMMA SoleTurn ==
    ASSUME TypeOK, NEW w \in Workers, NEW t \in Transfers, Turn(w, t), Fits(t, pc[w]),
           saga[t] = "COMPLETED" => stl[t] = "SETTLED",
           \/ MarkSettling(w, t) \/ SarieSettle(w, t)
           \/ MarkSettled(w, t) \/ MarkCompleted(w, t)
           \/ Compensate(w, t) \/ PostCompensation(w, t) \/ CompensationFails(w, t)
           \/ MarkUnreversed(w, t) \/ MarkFailed(w, t) \/ MarkReversed(w, t)
    PROVE  /\ batch'[w] = batch[w] => Fits(t, pc[w])'
           /\ saga'[t] = "COMPLETED" => stl'[t] = "SETTLED"
           /\ stl[t] = "SETTLED" => stl'[t] = "SETTLED"
<1>g. ASSUME NEW l \in Labels, Goto(w, l) PROVE pc'[w] = l
  BY <1>g, GotoEffect
<1>s. ASSUME NEW state, UpdateSaga(t, state) PROVE saga'[t] \in {saga[t], state}
  BY <1>s DEF UpdateSaga, TypeOK
<1>u. ASSUME NEW x, UpdateSettlement(t, x) PROVE stl'[t] = x
  BY <1>u DEF UpdateSettlement, TypeOK
<1>n. ASSUME NextItem(w, t) PROVE batch'[w] # batch[w]
  BY <1>n, NextItemEffect DEF Turn, Current
<1>1. CASE MarkSettling(w, t)
  <2>1. pc[w] = "settling" /\ pc'[w] = "calling" /\ saga'[t] \in {saga[t], "SETTLING"} /\ stl' = stl
    BY <1>1, <1>g, <1>s DEF MarkSettling, Labels
  <2> QED
    BY <2>1 DEF Fits
<1>2. CASE SarieSettle(w, t)
  <2>1. pc[w] = "calling" /\ pc'[w] \in {"settled", "reversing"} /\ saga' = saga /\ stl' = stl
    BY <1>2, <1>g DEF SarieSettle, rows, Labels
  <2> QED
    BY <2>1 DEF Fits
<1>3. CASE MarkSettled(w, t)
  <2>1. CASE UpdateSettlement(t, "SETTLED") /\ Goto(w, "completing")
    BY <2>1, <1>g, <1>u DEF Labels, Fits
  <2>2. CASE Drop(w) /\ UNCHANGED stl
    BY <1>3, <2>2, DropEffect DEF MarkSettled, Turn, Current
  <2> QED
    BY <1>3, <2>1, <2>2 DEF MarkSettled
<1>4. CASE MarkCompleted(w, t)
  <2>1. pc[w] = "completing" /\ stl' = stl /\ batch'[w] # batch[w]
    BY <1>4, <1>n DEF MarkCompleted
  <2> QED
    BY <2>1 DEF Fits
<1>5. CASE Compensate(w, t)
  <2>1. /\ pc[w] = "reversing" /\ pc'[w] \in {"unreversed", "posting"} /\ stl' = stl
        /\ saga'[t] \in {saga[t], "COMPENSATING"}
    BY <1>5, <1>g, <1>s DEF Compensate, Labels
  <2> QED
    BY <2>1 DEF Fits
<1>6. CASE PostCompensation(w, t)
  <2>1. /\ pc[w] = "posting" /\ pc'[w] \in {"unreversed", "reversed"} /\ stl' = stl
        /\ saga'[t] = "COMPENSATED"
    BY <1>6, <1>g DEF PostCompensation, Labels, TypeOK
  <2> QED
    BY <2>1 DEF Fits
<1>7. CASE CompensationFails(w, t)
  <2>1. pc[w] = "posting" /\ pc'[w] = "unreversed" /\ saga' = saga /\ stl' = stl
    BY <1>7, <1>g DEF CompensationFails, rows, Labels
  <2> QED
    BY <2>1 DEF Fits
<1>8. CASE MarkUnreversed(w, t)
  <2>1. pc[w] = "unreversed" /\ pc'[w] = "failing" /\ saga' = saga /\ stl'[t] \in {stl[t], "FAILED"}
    BY <1>8, <1>g, <1>u DEF MarkUnreversed, Labels
  <2> QED
    BY <2>1 DEF Fits
<1>9. CASE MarkFailed(w, t)
  <2>1. pc[w] = "failing" /\ stl' = stl /\ batch'[w] # batch[w] /\ saga'[t] \in {saga[t], "FAILED"}
    BY <1>9, <1>n, <1>s DEF MarkFailed
  <2> QED
    BY <2>1
<1>10. CASE MarkReversed(w, t)
  <2>1. /\ pc[w] = "reversed" /\ saga' = saga /\ batch'[w] # batch[w]
        /\ stl'[t] \in {stl[t], "FAILED"}
    BY <1>10, <1>n, <1>u DEF MarkReversed
  <2> QED
    BY <2>1 DEF Fits
<1> QED
  BY <1>1, <1>2, <1>3, <1>4, <1>5, <1>6, <1>7, <1>8, <1>9, <1>10

\* With one worker, SETTLED is final and so is a reversal.
LEMMA SoleStep ==
    ASSUME \A v, w \in Workers : v = w, BackedInv, SoleInv, [Next]_vars
    PROVE  SoleInv' /\ \A t \in Transfers : Lasts(t)
<1>0. TypeOK /\ ClaimsHeld /\ StatusesBacked
  BY DEF BackedInv
<1>k. ASSUME UNCHANGED <<headers, saga, stl>>,
             \A w \in Workers : \A t \in batch'[w] :
                 \/ t \in batch[w] /\ Label(w, t)' = Label(w, t)
                 \/ stl[t] = "PENDING" /\ pc'[w] \in {"claimed", "settling"}
      PROVE  SoleInv' /\ \A t \in Transfers : Lasts(t)
  <2>1. ASSUME NEW w \in Workers, NEW t \in batch'[w] PROVE Fits(t, Label(w, t))'
    <3>1. CASE t \in batch[w] /\ Label(w, t)' = Label(w, t)
      BY <1>k, <3>1 DEF SoleInv, Fits
    <3>2. CASE stl[t] = "PENDING" /\ pc'[w] \in {"claimed", "settling"}
      BY <1>k, <3>2 DEF Fits, Label
    <3> QED
      BY <1>k, <2>1, <3>1, <3>2
  <2> QED
    BY <1>k, <2>1 DEF SoleInv, Lasts, Reversed
<1>1. ASSUME NEW t \in Transfers, PostTransfer(t)
      PROVE  SoleInv' /\ \A x \in Transfers : Lasts(x)
  <2>1. /\ UNCHANGED <<pc, batch>>
        /\ saga[t] = None /\ saga'[t] = "POSTED" /\ stl'[t] = "PENDING"
        /\ \A u \in Transfers \ {t} : saga'[u] = saga[u] /\ stl'[u] = stl[u]
        /\ \A u \in Transfers : CompTx(u) \in headers' <=> CompTx(u) \in headers
    BY <1>0, <1>1, PostShape
  <2>2. stl[t] # "SETTLED"
    BY <1>0, <2>1, SettlementAssumption DEF StatusesBacked
  <2>3. \A w \in Workers : t \notin batch[w] /\ batch[w] \subseteq Transfers
    BY <1>0, <2>1 DEF ClaimsHeld, TypeOK
  <2>4. \A w \in Workers : \A u \in batch'[w] : Fits(u, Label(w, u))'
    BY <2>1, <2>3 DEF SoleInv, Fits, Label, Current
  <2> QED
    BY <2>1, <2>2, <2>4 DEF SoleInv, Lasts, Reversed
<1>2. ASSUME NEW w \in Workers, Claim(w)
      PROVE  SoleInv' /\ \A x \in Transfers : Lasts(x)
  <2>1. /\ UNCHANGED <<headers, saga, stl>> /\ pc'[w] = "claimed"
        /\ \A t \in batch'[w] : stl[t] = "PENDING"
    BY <1>0, <1>2, ClaimShape
  <2> QED
    BY <1>k, <2>1
<1>3. ASSUME NEW w \in Workers, ClaimCommit(w), ~ConnBusy
      PROVE  SoleInv' /\ \A x \in Transfers : Lasts(x)
  <2>1. UNCHANGED <<headers, saga, stl, batch>> /\ pc[w] = "claimed" /\ pc'[w] = "settling"
    BY <1>0, <1>3, CountShape
  <2>2. \A t \in batch[w] : stl[t] = "PENDING"
    BY <1>0, <2>1 DEF ClaimsHeld
  <2> QED
    BY <1>k, <2>1, <2>2
<1>4. ASSUME NEW w \in Workers, Leaves(w)
      PROVE  SoleInv' /\ \A x \in Transfers : Lasts(x)
  <2>1. UNCHANGED <<headers, saga, stl>> /\ batch'[w] = {}
    BY <1>0, <1>4, DropEffect DEF Leaves
  <2> QED
    BY <1>k, <2>1
<1>5. ASSUME NEW w \in Workers, NEW t \in Transfers, Turn(w, t),
             \/ MarkSettling(w, t) \/ SarieSettle(w, t)
             \/ MarkSettled(w, t) \/ MarkCompleted(w, t)
             \/ Compensate(w, t) \/ PostCompensation(w, t) \/ CompensationFails(w, t)
             \/ MarkUnreversed(w, t) \/ MarkFailed(w, t) \/ MarkReversed(w, t)
      PROVE  SoleInv' /\ \A x \in Transfers : Lasts(x)
  <2>1. /\ \A u \in Transfers \ {t} :
               /\ Having(u)' = Having(u)
               /\ \A v \in Having(u) : Label(v, u)' = Label(v, u)
        /\ w \in Having(t) /\ Label(w, t) = pc[w]
        /\ Having(t)' = IF batch'[w] = batch[w] THEN Having(t) ELSE Having(t) \ {w}
        /\ batch'[w] = batch[w] => Label(w, t)' = pc'[w]
    BY <1>0, <1>5, TurnHaving
  <2>2. /\ pc[w] # "claimed" /\ pc'[w] # "claimed" /\ t \in batch[w]
        /\ batch'[w] \in {batch[w], batch[w] \ {t}} /\ batch[w] \subseteq Transfers
        /\ \A u \in Transfers \ {t} :
              /\ saga'[u] = saga[u] /\ stl'[u] = stl[u]
              /\ CompTx(u) \in headers' <=> CompTx(u) \in headers
        /\ CompTx(t) \in headers => CompTx(t) \in headers'
    BY <1>0, <1>5 DEF Turn, Current, Idle, TypeOK
  <2>3. Fits(t, pc[w]) /\ (saga[t] = "COMPLETED" => stl[t] = "SETTLED")
    BY <2>1, <2>2 DEF SoleInv
  <2>4. /\ batch'[w] = batch[w] => Fits(t, pc[w])'
        /\ saga'[t] = "COMPLETED" => stl'[t] = "SETTLED"
        /\ stl[t] = "SETTLED" => stl'[t] = "SETTLED"
    BY <1>0, <1>5, <2>3, SoleTurn
  <2>5. ASSUME NEW u \in batch'[w] PROVE Fits(u, Label(w, u))'
    <3>1. CASE u = t
      <4>1. batch'[w] = batch[w]
        BY <2>2, <2>5, <3>1
      <4> QED
        BY <2>1, <2>4, <3>1, <4>1
    <3>2. CASE u # t
      <4>1. u \in Transfers /\ u \in batch[w] /\ w \in Having(u)
        BY <2>2, <2>5, <3>2 DEF Having
      <4>2. Label(w, u)' = Label(w, u) /\ stl'[u] = stl[u] /\ Fits(u, Label(w, u))
        BY <2>1, <2>2, <3>2, <4>1 DEF SoleInv
      <4> QED
        BY <4>2 DEF Fits
    <3> QED
      BY <3>1, <3>2
  <2>6. \A u \in Transfers : Lasts(u) /\ (saga'[u] = "COMPLETED" => stl'[u] = "SETTLED")
    BY <2>2, <2>4 DEF SoleInv, Lasts, Reversed
  <2> QED
    BY <2>5, <2>6 DEF SoleInv
<1>6. CASE UNCHANGED vars
  BY <1>6 DEF vars, books, rows, worker, SoleInv, Lasts, Fits, Label, Current, Reversed
<1>7. ASSUME NEW w \in Workers, Work(w) \/ Crash(w)
      PROVE  SoleInv' /\ \A x \in Transfers : Lasts(x)
  <2>1. CASE Crash(w) \/ (ClaimCommit(w) /\ ConnBusy)
    BY <1>0, <1>4, <2>1, LeaveShape
  <2>2. ASSUME NEW t \in Transfers,
               \/ MarkSettling(w, t) \/ SarieSettle(w, t)
               \/ MarkSettled(w, t) \/ MarkCompleted(w, t)
               \/ Compensate(w, t) \/ PostCompensation(w, t) \/ CompensationFails(w, t)
               \/ MarkUnreversed(w, t) \/ MarkFailed(w, t) \/ MarkReversed(w, t)
        PROVE  SoleInv' /\ \A x \in Transfers : Lasts(x)
    BY <1>0, <1>4, <1>5, <2>2, TurnShape
  <2> QED
    BY <1>2, <1>3, <1>7, <2>1, <2>2 DEF Work
<1> QED
  BY <1>1, <1>6, <1>7 DEF Next

\* What a look-up has read, and what the page shows, is still so.
ReadTrue ==
    \A s \in Slots :
        lookup[s] # None /\ lookup[s].phase \in {"saga", "answered"} =>
            /\ lookup[s].saga = "COMPLETED" =>
                  /\ stl[lookup[s].target] = "SETTLED"
                  /\ lookup[s].phase = "answered" => lookup[s].settlement = "SETTLED"
            /\ lookup[s].saga = "COMPENSATED" => Reversed(lookup[s].target)

ShownTrue ==
    status # None =>
        /\ status.saga = "COMPLETED" =>
              status.settlement = "SETTLED" /\ stl[status.target] = "SETTLED"
        /\ status.saga = "COMPENSATED" => Reversed(status.target)

BannerInv == LiveInv /\ SoleInv /\ ReadTrue /\ ShownTrue

\* A step of the page: reads happen, answers are shown.
LEMMA PageReads ==
    ASSUME TypeOK, BackedInv, BannerInv, UNCHANGED vars, NEW s \in Slots,
           \/ \E target \in Targets : Search(s, target)
           \/ Refresh(s) \/ LookupFails(s) \/ Progress(s)
    PROVE  ReadTrue' /\ ShownTrue'
<1> DEFINE Fine(e) ==
      e # None /\ e.phase \in {"saga", "answered"} =>
          /\ e.saga = "COMPLETED" =>
                /\ stl[e.target] = "SETTLED"
                /\ e.phase = "answered" => e.settlement = "SETTLED"
          /\ e.saga = "COMPENSATED" => Reversed(e.target)
<1>0. PageTypeOK /\ SoleInv /\ ShownTrue /\ \A r \in Slots : Fine(lookup[r])
  BY DEF BannerInv, LiveInv, ReadTrue
<1>1. UNCHANGED <<stl, headers, saga>>
  BY DEF vars, books, rows
<1>2. ASSUME \A r \in Slots : Fine(lookup'[r]) PROVE ReadTrue'
  BY <1>1, <1>2 DEF ReadTrue, Reversed
<1>3. ASSUME status' = status PROVE ShownTrue'
  BY <1>0, <1>1, <1>3 DEF ShownTrue, Reversed
<1>4. ASSUME NEW target \in Targets, Search(s, target) PROVE ReadTrue' /\ ShownTrue'
  <2>1. /\ status' = status
        /\ lookup' = [Cancelled EXCEPT ![s] = IF target = None THEN None ELSE Sent(target, TRUE)]
    BY <1>4 DEF Search
  <2>2. ASSUME NEW r \in Slots, r # s PROVE Fine(lookup'[r])
    <3>1. lookup'[r] = IF lookup[r] = None THEN None ELSE [lookup[r] EXCEPT !.auto = FALSE]
      BY <2>1, <2>2 DEF Cancelled
    <3>2. CASE lookup[r] = None
      BY <3>1, <3>2
    <3>3. CASE lookup[r] # None
      <4>1. lookup[r] \in Lookups
        BY <1>0, <3>3 DEF PageTypeOK
      <4>2. /\ lookup'[r].phase = lookup[r].phase /\ lookup'[r].saga = lookup[r].saga
            /\ lookup'[r].target = lookup[r].target
            /\ lookup'[r].settlement = lookup[r].settlement
        BY <3>1, <3>3, <4>1 DEF Lookups
      <4> QED
        BY <1>0, <3>3, <4>2
    <3> QED
      BY <3>2, <3>3
  <2>3. Fine(lookup'[s])
    <3>1. lookup'[s] = IF target = None THEN None ELSE Sent(target, TRUE)
      BY <2>1 DEF Cancelled
    <3> QED
      BY <3>1 DEF Sent
  <2> QED
    BY <1>2, <1>3, <2>1, <2>2, <2>3
<1>5. ASSUME NEW x, lookup' = [lookup EXCEPT ![s] = x], Fine(x)
      PROVE  ReadTrue'
  <2>1. \A r \in Slots : lookup'[r] = IF r = s THEN x ELSE lookup[r]
    BY <1>0, <1>5 DEF PageTypeOK
  <2> HIDE DEF Fine
  <2>2. \A r \in Slots : Fine(lookup'[r])
    BY <1>0, <1>5, <2>1
  <2> QED
    BY <1>2, <2>2
<1>6. CASE Refresh(s)
  <2>1. Fine(Sent(query, FALSE))
    BY DEF Sent
  <2> HIDE DEF Fine
  <2> QED
    BY <1>3, <1>5, <1>6, <2>1 DEF Refresh
<1>7. CASE PollAgain(s)
  <2>1. Fine(Sent(query, TRUE))
    BY DEF Sent
  <2> HIDE DEF Fine
  <2> QED
    BY <1>3, <1>5, <1>7, <2>1 DEF PollAgain
<1>8. CASE Answer(s) \/ AnswerError(s)
  <2>1. ReadTrue'
    BY <1>5, <1>8 DEF Answer, AnswerError
  <2>2. CASE AnswerError(s)
    BY <2>1, <2>2 DEF AnswerError, ShownTrue
  <2>3. CASE Answer(s)
    <3>1. /\ lookup[s] # None /\ lookup[s].phase = "answered"
          /\ status' = [target |-> lookup[s].target, saga |-> lookup[s].saga,
                        settlement |-> lookup[s].settlement]
      BY <2>3 DEF Answer
    <3>2. /\ status'.target = lookup[s].target /\ status'.saga = lookup[s].saga
          /\ status'.settlement = lookup[s].settlement
      BY <3>1
    <3> QED
      BY <1>0, <1>1, <2>1, <3>1, <3>2 DEF ShownTrue, Reversed
  <2> QED
    BY <1>8, <2>1, <2>2, <2>3
<1>9. CASE ReadSaga(s) \/ ReadSettlement(s) \/ LookupFails(s)
  <2> DEFINE e == lookup[s]
  <2>0. status' = status /\ e # None /\ e \in Lookups
    BY <1>0, <1>9 DEF PageTypeOK, ReadSaga, ReadSettlement, LookupFails
  <2>1. ASSUME lookup' = [lookup EXCEPT ![s] = [e EXCEPT !.phase = "failed"]]
        PROVE  ReadTrue'
    <3>1. [e EXCEPT !.phase = "failed"].phase = "failed"
      BY <2>0 DEF Lookups
    <3>2. Fine([e EXCEPT !.phase = "failed"])
      BY <3>1
    <3> HIDE DEF Fine
    <3> QED
      BY <1>5, <2>1, <3>2
  <2>2. CASE LookupFails(s)
    BY <1>3, <2>0, <2>1, <2>2 DEF LookupFails
  <2>3. CASE ReadSettlement(s)
    <3> DEFINE x == [e EXCEPT !.phase = "answered", !.settlement = stl[e.target]]
    <3>1. lookup' = [lookup EXCEPT ![s] = x] /\ e.phase = "saga"
      BY <2>3, <1>0, <2>0 DEF ReadSettlement, PageTypeOK, Lookups
    <3>2. /\ x.phase = "answered" /\ x.settlement = stl[e.target]
          /\ x.target = e.target /\ x.saga = e.saga
      BY <2>0 DEF Lookups
    <3>3. Fine(e)
      BY <1>0
    <3> HIDE DEF x, e
    <3>4. Fine(x)
      BY <2>0, <3>1, <3>2, <3>3
    <3> HIDE DEF Fine
    <3> QED
      BY <1>3, <1>5, <2>0, <3>1, <3>4
  <2>4. CASE ReadSaga(s)
    <3>1. CASE e.target = Unknown \/ saga[e.target] = None
      <4>1. lookup' = [lookup EXCEPT ![s] = [e EXCEPT !.phase = "failed"]]
        BY <2>4, <3>1 DEF ReadSaga
      <4> QED
        BY <1>3, <2>0, <2>1, <4>1
    <3>2. CASE ~(e.target = Unknown \/ saga[e.target] = None)
      <4> DEFINE x == [e EXCEPT !.phase = "saga", !.saga = saga[e.target]]
      <4>1. lookup' = [lookup EXCEPT ![s] = x]
        BY <2>4, <3>2, <1>0, <2>0 DEF ReadSaga, PageTypeOK, Lookups
      <4>2. x.phase = "saga" /\ x.target = e.target /\ x.saga = saga[e.target]
            /\ e.target \in Transfers
        BY <2>0, <3>2 DEF Lookups
      <4>3. /\ saga[e.target] = "COMPLETED" => stl[e.target] = "SETTLED"
            /\ saga[e.target] = "COMPENSATED" => Reversed(e.target)
        BY <1>0, <4>2 DEF SoleInv, BackedInv, StatusesBacked
      <4> HIDE DEF x, e
      <4>4. Fine(x)
        BY <4>2, <4>3
      <4> HIDE DEF Fine
      <4> QED
        BY <1>3, <1>5, <2>0, <4>1, <4>4
    <3> QED
      BY <3>1, <3>2
  <2> QED
    BY <1>9, <2>2, <2>3, <2>4
<1> QED
  BY <1>4, <1>6, <1>7, <1>8, <1>9 DEF Progress

\* A page served by one worker never tells of an outcome that did not happen, or
\* that another one has overtaken, however late its answers arrive.
THEOREM BannerAlwaysTrue ==
    ASSUME \A v, w \in Workers : v = w
    PROVE  TrackSpec => []BannerTrue
<1>1. TrackInit => SoleInv /\ ReadTrue /\ ShownTrue
  <2> SUFFICES ASSUME TrackInit PROVE SoleInv /\ ReadTrue /\ ShownTrue
    OBVIOUS
  <2>1. SoleInv
    BY SettlementAssumption DEF TrackInit, Init, SoleInv
  <2> QED
    BY <2>1 DEF TrackInit, ReadTrue, ShownTrue
<1>2. BackedInv /\ LiveInv /\ SoleInv /\ ReadTrue /\ ShownTrue /\ [TrackNext]_trackVars
        => (SoleInv /\ ReadTrue /\ ShownTrue)'
  <2> SUFFICES ASSUME BackedInv, LiveInv, SoleInv, ReadTrue, ShownTrue, [TrackNext]_trackVars
               PROVE  SoleInv' /\ ReadTrue' /\ ShownTrue'
    OBVIOUS
  <2>1. SoleInv' /\ \A t \in Transfers : Lasts(t)
    BY TrackStep, SoleStep
  <2>2. CASE UNCHANGED page
    <3>1. UNCHANGED <<lookup, status>>
      BY <2>2 DEF page
    <3>2. PageTypeOK
      BY DEF LiveInv
    <3>3. ReadTrue'
      BY <2>1, <3>1, <3>2 DEF ReadTrue, PageTypeOK, Lasts
    <3>4. status # None => status.target \in Transfers
      BY <3>2 DEF PageTypeOK, Shown
    <3>5. ShownTrue'
      BY <2>1, <3>1, <3>4 DEF ShownTrue, Lasts
    <3> QED
      BY <2>1, <3>3, <3>5
  <2>3. ASSUME NEW s \in Slots,
               \/ \E target \in Targets : Search(s, target)
               \/ Refresh(s) \/ LookupFails(s) \/ Progress(s)
        PROVE  ReadTrue' /\ ShownTrue'
    <3>1. UNCHANGED vars
      BY <2>3 DEF Search, Refresh, LookupFails, Progress, PollAgain, ReadSaga, ReadSettlement,
                  Answer, AnswerError
    <3>2. TypeOK
      BY DEF BackedInv
    <3> QED
      BY <2>3, <3>1, <3>2, PageReads DEF BannerInv
  <2> QED
    BY <2>1, <2>2, <2>3 DEF TrackNext, trackVars
<1>3. BackedInv /\ LiveInv /\ ShownTrue => BannerTrue
  <2> SUFFICES ASSUME BackedInv, LiveInv, ShownTrue, status # None
               PROVE  /\ status.saga = "COMPLETED" =>
                            status.settlement = "SETTLED" /\ paid[status.target] > 0
                      /\ status.saga = "COMPENSATED" => Reversed(status.target)
    BY DEF BannerTrue
  <2>1. status.target \in Transfers
    BY DEF LiveInv, PageTypeOK, Shown
  <2> QED
    BY <2>1 DEF ShownTrue, BackedInv, StatusesBacked
<1> QED
  BY <1>1, <1>2, <1>3, LiveInvariant, TrackRefines, BackedInvariant, PTL DEF TrackSpec

=============================================================================
