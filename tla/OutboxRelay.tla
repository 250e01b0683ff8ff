---------------------------- MODULE OutboxRelay ----------------------------
(***************************************************************************)
(* The transactional outbox (internal/outbox): PostTransfer stages an      *)
(* event with the journal; the workers' relays claim pending rows with     *)
(* FOR UPDATE SKIP LOCKED, publish them and record the result, all in one  *)
(* database transaction that is held open while they publish.              *)
(***************************************************************************)
EXTENDS Integers, FiniteSets

CONSTANTS
    Events,        \* staged events, as the rank of their created_at
    Relays,        \* one relay goroutine per worker process
    BatchSize,
    MaxFaults,     \* bound: publish errors, database errors, crashes
    None

ASSUME OutboxAssumption ==
    /\ Events \subseteq Nat
    /\ BatchSize \in Nat \ {0} /\ MaxFaults \in Nat
    /\ None \notin Relays \union {"PENDING", "PUBLISHED", "FAILED"}

VARIABLES
    status,     \* status[e] : the committed outbox_events.status, None if not staged
    rowLock,    \* rowLock[e] : the relay whose open transaction claimed e
    pc,         \* pc[r]
    batch,      \* batch[r] : claimed events not yet published
    marks,      \* marks[r][e] : the status r's open transaction has written for e
    delivered,  \* delivered[e] : times the bus has accepted e
    faults

vars == <<status, rowLock, pc, batch, marks, delivered, faults>>

Status == {"PENDING", "PUBLISHED", "FAILED"}
NoMarks == [e \in Events |-> None]
Fault == faults < MaxFaults /\ faults' = faults + 1
NoFault == UNCHANGED faults

\* Publisher.Publish, as far as the bus accepts the message.
Accepted(e) == delivered' = [delivered EXCEPT ![e] = @ + 1]

Current(r, e) == e \in batch[r] /\ \A f \in batch[r] : e <= f

\* Mutant of EndTx: a rollback is forgotten and the row locks stay.
EndTxLeaky(r) ==
    /\ pc' = [pc EXCEPT ![r] = "idle"]
    /\ batch' = [batch EXCEPT ![r] = {}]
    /\ marks' = [marks EXCEPT ![r] = NoMarks]
    /\ UNCHANGED rowLock

\* The end of ProcessPendingBatch's transaction: its row locks go.
EndTx(r) ==
    /\ pc' = [pc EXCEPT ![r] = "idle"]
    /\ batch' = [batch EXCEPT ![r] = {}]
    /\ marks' = [marks EXCEPT ![r] = NoMarks]
    /\ rowLock' = [e \in Events |-> IF rowLock[e] = r THEN None ELSE rowLock[e]]

-----------------------------------------------------------------------------

Init ==
    /\ status = [e \in Events |-> None]
    /\ rowLock = [e \in Events |-> None]
    /\ pc = [r \in Relays |-> "idle"]
    /\ batch = [r \in Relays |-> {}]
    /\ marks = [r \in Relays |-> NoMarks]
    /\ delivered = [e \in Events |-> 0]
    /\ faults = 0

\* InsertInTx, visible when the transfer's transaction commits.
Stage(e) ==
    /\ status[e] = None
    /\ status' = [status EXCEPT ![e] = "PENDING"]
    /\ UNCHANGED <<rowLock, pc, batch, marks, delivered, faults>>

\* Mutant of Claim: the query lacks FOR UPDATE SKIP LOCKED.
ClaimLocked(r) ==
    /\ pc[r] = "idle"
    /\ LET free == {e \in Events : status[e] = "PENDING"}
           mine == {e \in free : Cardinality({f \in free : f < e}) < BatchSize}
       IN  /\ mine # {}
           /\ batch' = [batch EXCEPT ![r] = mine]
           /\ rowLock' = [e \in Events |-> IF e \in mine THEN r ELSE rowLock[e]]
    /\ pc' = [pc EXCEPT ![r] = "publishing"]
    /\ UNCHANGED <<status, marks, delivered, faults>>

\* claimPendingInTx: the oldest pending rows no other transaction has locked.
Claim(r) ==
    /\ pc[r] = "idle"
    /\ LET free == {e \in Events : status[e] = "PENDING" /\ rowLock[e] = None}
           mine == {e \in free : Cardinality({f \in free : f < e}) < BatchSize}
       IN  /\ mine # {}
           /\ batch' = [batch EXCEPT ![r] = mine]
           /\ rowLock' = [e \in Events |-> IF e \in mine THEN r ELSE rowLock[e]]
    /\ pc' = [pc EXCEPT ![r] = "publishing"]
    /\ UNCHANGED <<status, marks, delivered, faults>>

\* Mutant of Publish: the publisher's error is dropped.
PublishUnread(r, e) ==
    /\ pc[r] = "publishing" /\ Current(r, e)
    /\ \/ NoFault /\ Accepted(e)
       \/ Fault /\ UNCHANGED delivered
    /\ marks' = [marks EXCEPT ![r][e] = "PUBLISHED"]
    /\ batch' = [batch EXCEPT ![r] = @ \ {e}]
    /\ UNCHANGED <<status, rowLock, pc>>

\* One round of the loop: publish, then markPublishedInTx or, after an error,
\* markFailedInTx.  A publish that fails may have reached the bus all the same.
\* (A mark that fails ends the batch: see RollBack.)
Publish(r, e) ==
    /\ pc[r] = "publishing" /\ Current(r, e)
    /\ \/ /\ NoFault
          /\ Accepted(e)
          /\ marks' = [marks EXCEPT ![r][e] = "PUBLISHED"]
       \/ /\ Fault
          /\ Accepted(e) \/ UNCHANGED delivered
          /\ marks' = [marks EXCEPT ![r][e] = "FAILED"]
    /\ batch' = [batch EXCEPT ![r] = @ \ {e}]
    /\ UNCHANGED <<status, rowLock, pc>>

\* The publish took effect but the mark's statement failed or the relay died.
PublishUnmarked(r, e) ==
    /\ pc[r] = "publishing" /\ Current(r, e)
    /\ Fault
    /\ Accepted(e)
    /\ EndTx(r)
    /\ UNCHANGED status

CommitBatch(r) ==
    /\ pc[r] = "publishing" /\ batch[r] = {}
    /\ status' = [e \in Events |-> IF marks[r][e] = None THEN status[e] ELSE marks[r][e]]
    /\ EndTx(r)
    /\ UNCHANGED <<delivered, faults>>

\* A mark or the commit fails, or the worker dies: nothing the batch recorded
\* survives, what it published stays published.
RollBack(r) ==
    /\ pc[r] = "publishing"
    /\ Fault
    /\ EndTx(r)
    /\ UNCHANGED <<status, delivered>>

Relay(r) ==
    \/ Claim(r) \/ CommitBatch(r)
    \/ \E e \in Events : Publish(r, e)

Next ==
    \/ \E e \in Events : Stage(e)
    \/ \E r \in Relays : Relay(r) \/ RollBack(r)
    \/ \E r \in Relays, e \in Events : PublishUnmarked(r, e)

Spec == Init /\ [][Next]_vars

\* Relay.Run polls on a ticker and a started batch goes on.
FairSpec == Spec /\ \A r \in Relays : WF_vars(Relay(r))

-----------------------------------------------------------------------------

\* An event is PUBLISHED only if the bus accepted it.
PublishedWasDelivered ==
    \A e \in Events : status[e] = "PUBLISHED" => delivered[e] > 0

\* Duplicates come from faults only: however many relays run, the bus gets an
\* event once more than the number of faults at most.
DuplicatesBounded == \A e \in Events : delivered[e] <= 1 + faults

\* What relays have in hand is theirs alone and still PENDING in the table, so
\* no commit overwrites a status another relay recorded.
ClaimsExclusive ==
    \A r \in Relays, e \in Events :
        e \in batch[r] \/ marks[r][e] # None => rowLock[e] = r /\ status[e] = "PENDING"

\* Every staged event is processed, despite crashes and lost commits: it is
\* PUBLISHED, or FAILED (and then nothing retries it) after some fault.
EventsProcessed ==
    \A e \in Events :
        status[e] = "PENDING" ~>
            status[e] = "PUBLISHED" \/ (status[e] = "FAILED" /\ faults > 0)
=============================================================================
