------------------------- MODULE OutboxRelayProofs -------------------------
(***************************************************************************)
(* Proofs about the outbox relay for any number of events, relays and      *)
(* faults and any batch size: claims are exclusive, what is recorded as    *)
(* published was delivered, and duplicates come from faults only.          *)
(***************************************************************************)
EXTENDS OutboxRelay, TLAPS

\* The shape of the tables and of the relays' memory.
OutboxTypeOK ==
    /\ status \in [Events -> Status \union {None}]
    /\ rowLock \in [Events -> Relays \union {None}]
    /\ pc \in [Relays -> {"idle", "publishing"}]
    /\ batch \in [Relays -> SUBSET Events]
    /\ marks \in [Relays -> [Events -> {"PUBLISHED", "FAILED", None}]]
    /\ delivered \in [Events -> Nat]
    /\ faults \in Nat

\* A relay outside a transaction has nothing in hand, and what a transaction
\* has marked it does not publish again.
HandsClean ==
    \A r \in Relays, e \in Events :
        /\ pc[r] = "idle" => e \notin batch[r] /\ marks[r][e] = None
        /\ e \in batch[r] => marks[r][e] = None

\* Neither the table nor an open transaction says PUBLISHED of an event the bus
\* has not accepted.
MarksTrue ==
    /\ PublishedWasDelivered
    /\ \A r \in Relays, e \in Events : marks[r][e] = "PUBLISHED" => delivered[e] > 0

\* The delivery that is not paid for by a fault is recorded somewhere: in the
\* table or in an open transaction.
Recorded(e) ==
    \/ status[e] \in {"PUBLISHED", "FAILED"}
    \/ \E r \in Relays : marks[r][e] # None

DeliveriesExplained ==
    \A e \in Events :
        /\ delivered[e] <= 1 + faults
        /\ ~ Recorded(e) => delivered[e] <= faults

OutboxInv ==
    /\ OutboxTypeOK
    /\ ClaimsExclusive
    /\ HandsClean
    /\ MarksTrue
    /\ DeliveriesExplained

-----------------------------------------------------------------------------

\* Staging an event (InsertInTx) disturbs nothing of the others'.
LEMMA StagePreserves ==
    ASSUME OutboxInv, NEW e \in Events, Stage(e)
    PROVE  OutboxInv'
<1> USE OutboxAssumption DEF OutboxInv, Stage
<1>1. OutboxTypeOK'
  BY DEF OutboxTypeOK, Status
<1>2. ClaimsExclusive'
  BY DEF OutboxTypeOK, ClaimsExclusive, Status
<1>3. HandsClean'
  BY DEF HandsClean
<1>4. MarksTrue'
  BY DEF MarksTrue, PublishedWasDelivered, OutboxTypeOK, Status
<1>5. DeliveriesExplained'
  BY DEF DeliveriesExplained, Recorded, OutboxTypeOK, Status
<1> QED
  BY <1>1, <1>2, <1>3, <1>4, <1>5

\* claimPendingInTx takes only rows that are PENDING and that nobody has locked.
LEMMA ClaimPreserves ==
    ASSUME OutboxInv, NEW r \in Relays, Claim(r)
    PROVE  OutboxInv'
<1> DEFINE free == {e \in Events : status[e] = "PENDING" /\ rowLock[e] = None}
           mine == {e \in free : Cardinality({f \in free : f < e}) < BatchSize}
<1> USE OutboxAssumption DEF OutboxInv
<1>0. /\ pc[r] = "idle"
      /\ batch' = [batch EXCEPT ![r] = mine]
      /\ rowLock' = [e \in Events |-> IF e \in mine THEN r ELSE rowLock[e]]
      /\ pc' = [pc EXCEPT ![r] = "publishing"]
      /\ UNCHANGED <<status, marks, delivered, faults>>
  BY DEF Claim
<1>m. mine \subseteq Events /\ \A e \in mine : status[e] = "PENDING" /\ rowLock[e] = None
  OBVIOUS
<1> HIDE DEF mine
<1>1. OutboxTypeOK'
  BY <1>0, <1>m DEF OutboxTypeOK, Status
<1>2. ClaimsExclusive'
  BY <1>0, <1>m DEF OutboxTypeOK, ClaimsExclusive, HandsClean
<1>3. HandsClean'
  BY <1>0, <1>m DEF OutboxTypeOK, HandsClean
<1>4. MarksTrue'
  BY <1>0 DEF MarksTrue, PublishedWasDelivered
<1>5. DeliveriesExplained'
  BY <1>0 DEF DeliveriesExplained, Recorded
<1> QED
  BY <1>1, <1>2, <1>3, <1>4, <1>5

\* One round of the loop: the delivery is recorded by the mark, and a publish
\* that fails is a fault.
LEMMA PublishPreserves ==
    ASSUME OutboxInv, NEW r \in Relays, NEW e \in Events, Publish(r, e)
    PROVE  OutboxInv'
<1> USE OutboxAssumption DEF OutboxInv
<1>0. /\ pc[r] = "publishing" /\ e \in batch[r]
      /\ batch' = [batch EXCEPT ![r] = @ \ {e}]
      /\ UNCHANGED <<status, rowLock, pc>>
      /\ \/ /\ faults' = faults
            /\ delivered' = [delivered EXCEPT ![e] = @ + 1]
            /\ marks' = [marks EXCEPT ![r][e] = "PUBLISHED"]
         \/ /\ faults' = faults + 1
            /\ \/ delivered' = [delivered EXCEPT ![e] = @ + 1]
               \/ delivered' = delivered
            /\ marks' = [marks EXCEPT ![r][e] = "FAILED"]
  BY DEF Publish, Current, NoFault, Fault, Accepted
<1>a. /\ rowLock[e] = r /\ status[e] = "PENDING"
      /\ \A q \in Relays : marks[q][e] = None
  BY <1>0 DEF ClaimsExclusive, HandsClean, OutboxTypeOK
<1>b. \A q \in Relays, f \in Events : (q # r \/ f # e) => marks'[q][f] = marks[q][f]
  BY <1>0 DEF OutboxTypeOK
<1>c. \A q \in Relays, f \in Events : f \in batch'[q] => f \in batch[q]
  BY <1>0 DEF OutboxTypeOK
<1>d. marks'[r][e] \in {"PUBLISHED", "FAILED"}
  BY <1>0 DEF OutboxTypeOK
<1>1. OutboxTypeOK'
  BY <1>0, <1>d, SMTT(30) DEF OutboxTypeOK
<1>2. ClaimsExclusive'
  <2> SUFFICES ASSUME NEW q \in Relays, NEW f \in Events,
                      f \in batch'[q] \/ marks'[q][f] # None
               PROVE  rowLock[f] = q /\ status[f] = "PENDING"
    BY <1>0 DEF ClaimsExclusive
  <2>1. CASE q = r /\ f = e
    BY <1>a, <2>1
  <2>2. CASE q # r \/ f # e
    BY <1>b, <1>c, <2>2 DEF ClaimsExclusive
  <2> QED
    BY <2>1, <2>2
<1>3. HandsClean'
  BY <1>0 DEF OutboxTypeOK, HandsClean
<1>4. MarksTrue'
  <2>1. \A f \in Events : delivered[f] > 0 => delivered'[f] > 0
    BY <1>0 DEF OutboxTypeOK
  <2>2. marks'[r][e] = "PUBLISHED" => delivered'[e] > 0
    BY <1>0 DEF OutboxTypeOK
  <2> QED
    BY <1>0, <1>b, <2>1, <2>2 DEF MarksTrue, PublishedWasDelivered
<1>5. DeliveriesExplained'
  <2>1. delivered[e] <= faults
    BY <1>a DEF DeliveriesExplained, Recorded
  <2>2. ASSUME NEW f \in Events, f # e
        PROVE  Recorded(f)' <=> Recorded(f)
    BY <1>0, <1>b, <2>2 DEF Recorded
  <2>4. Recorded(e)'
    BY <1>d DEF Recorded
  <2> QED
    BY <1>0, <2>1, <2>2, <2>4 DEF OutboxTypeOK, DeliveriesExplained
<1> QED
  BY <1>1, <1>2, <1>3, <1>4, <1>5

\* The end of a transaction: the relay's locks and marks go, and an event it had
\* marked has its status recorded, or a fault to show for it.
LEMMA EndTxPreserves ==
    ASSUME OutboxInv, NEW r \in Relays, pc[r] = "publishing", EndTx(r), OutboxTypeOK',
           \A q \in Relays \ {r}, e \in Events :
              e \in batch[q] \/ marks[q][e] # None => status'[e] = status[e],
           PublishedWasDelivered',
           \A e \in Events : delivered'[e] >= delivered[e],
           DeliveriesExplained'
    PROVE  OutboxInv'
<1> USE OutboxAssumption DEF OutboxInv
<1>0. /\ pc' = [pc EXCEPT ![r] = "idle"]
      /\ batch' = [batch EXCEPT ![r] = {}]
      /\ marks' = [marks EXCEPT ![r] = NoMarks]
      /\ rowLock' = [e \in Events |-> IF rowLock[e] = r THEN None ELSE rowLock[e]]
  BY DEF EndTx
<1>2. ClaimsExclusive'
  <2> SUFFICES ASSUME NEW q \in Relays, NEW e \in Events,
                      e \in batch'[q] \/ marks'[q][e] # None
               PROVE  rowLock'[e] = q /\ status'[e] = "PENDING"
    BY DEF ClaimsExclusive
  <2>1. q # r /\ (e \in batch[q] \/ marks[q][e] # None)
    BY <1>0 DEF OutboxTypeOK, NoMarks
  <2> QED
    BY <1>0, <2>1 DEF OutboxTypeOK, ClaimsExclusive
<1>3. HandsClean'
  BY <1>0 DEF OutboxTypeOK, HandsClean, NoMarks
<1>4. MarksTrue'
  <2> SUFFICES ASSUME NEW q \in Relays, NEW e \in Events, marks'[q][e] = "PUBLISHED"
               PROVE  delivered'[e] > 0
    BY DEF MarksTrue
  <2>1. marks[q][e] = "PUBLISHED"
    BY <1>0 DEF OutboxTypeOK, NoMarks
  <2> QED
    BY <2>1 DEF MarksTrue, OutboxTypeOK
<1> QED
  BY <1>2, <1>3, <1>4

\* ProcessPendingBatch's commit writes its marks over rows it alone has locked.
LEMMA CommitBatchPreserves ==
    ASSUME OutboxInv, NEW r \in Relays, CommitBatch(r)
    PROVE  OutboxInv'
<1> USE OutboxAssumption DEF OutboxInv
<1>0. /\ pc[r] = "publishing" /\ EndTx(r)
      /\ status' = [e \in Events |-> IF marks[r][e] = None THEN status[e] ELSE marks[r][e]]
      /\ UNCHANGED <<delivered, faults>>
  BY DEF CommitBatch
<1>1. OutboxTypeOK'
  BY <1>0 DEF OutboxTypeOK, EndTx, NoMarks, Status
<1>2. ASSUME NEW q \in Relays \ {r}, NEW e \in Events, e \in batch[q] \/ marks[q][e] # None
      PROVE  status'[e] = status[e]
  BY <1>0, <1>2 DEF ClaimsExclusive, OutboxTypeOK
<1>3. PublishedWasDelivered'
  BY <1>0 DEF PublishedWasDelivered, MarksTrue, OutboxTypeOK
<1>4. DeliveriesExplained'
  <2> SUFFICES ASSUME NEW e \in Events, Recorded(e)
               PROVE  Recorded(e)'
    BY <1>0 DEF DeliveriesExplained, OutboxTypeOK
  <2>1. CASE marks[r][e] # None
    BY <1>0, <2>1 DEF Recorded, OutboxTypeOK
  <2>2. CASE marks[r][e] = None /\ status[e] \in {"PUBLISHED", "FAILED"}
    BY <1>0, <2>2 DEF Recorded, OutboxTypeOK
  <2>3. CASE marks[r][e] = None /\ \E q \in Relays : marks[q][e] # None
    <3>1. PICK q \in Relays : marks[q][e] # None
      BY <2>3
    <3>2. q # r
      BY <2>3, <3>1
    <3>3. marks'[q][e] # None
      BY <1>0, <3>1, <3>2 DEF EndTx, OutboxTypeOK
    <3> QED
      BY <3>3 DEF Recorded
  <2> QED
    BY <2>1, <2>2, <2>3 DEF Recorded
<1>5. \A e \in Events : delivered'[e] >= delivered[e]
  BY <1>0 DEF OutboxTypeOK
<1> QED
  BY <1>0, <1>1, <1>2, <1>3, <1>4, <1>5, EndTxPreserves

\* A rollback or a crash, before or after a publish whose mark is lost: one
\* delivery may go unrecorded, and one fault pays for it.
LEMMA RollBackPreserves ==
    ASSUME OutboxInv, NEW r \in Relays,
           RollBack(r) \/ \E e \in Events : PublishUnmarked(r, e)
    PROVE  OutboxInv'
<1> USE OutboxAssumption DEF OutboxInv
<1>0. /\ pc[r] = "publishing" /\ EndTx(r) /\ status' = status
      /\ faults' = faults + 1
      /\ \/ delivered' = delivered
         \/ \E e \in batch[r] \cap Events : delivered' = [delivered EXCEPT ![e] = @ + 1]
  BY DEF RollBack, PublishUnmarked, Current, Fault, Accepted
<1>1. OutboxTypeOK'
  BY <1>0 DEF OutboxTypeOK, EndTx, NoMarks
<1>3. PublishedWasDelivered'
  BY <1>0 DEF PublishedWasDelivered, MarksTrue, OutboxTypeOK
<1>4. DeliveriesExplained'
  <2> SUFFICES ASSUME NEW e \in Events
               PROVE  delivered'[e] <= faults'
    BY <1>1 DEF DeliveriesExplained, OutboxTypeOK
  <2>1. CASE e \in batch[r]
    <3>1. ~ Recorded(e)
      BY <2>1 DEF Recorded, ClaimsExclusive, HandsClean, OutboxTypeOK
    <3>2. delivered[e] <= faults
      BY <3>1 DEF DeliveriesExplained
    <3> QED
      BY <1>0, <3>2 DEF OutboxTypeOK
  <2>2. CASE e \notin batch[r]
    BY <1>0, <2>2 DEF DeliveriesExplained, OutboxTypeOK
  <2> QED
    BY <2>1, <2>2
<1>5. \A e \in Events : delivered'[e] >= delivered[e]
  BY <1>0 DEF OutboxTypeOK
<1> QED
  BY <1>0, <1>1, <1>3, <1>4, <1>5, EndTxPreserves

\* The inductive invariant of the outbox.
THEOREM OutboxInvariant == Spec => []OutboxInv
<1>1. Init => OutboxInv
  BY OutboxAssumption
  DEF Init, NoMarks, OutboxInv, OutboxTypeOK, ClaimsExclusive, HandsClean, MarksTrue,
      PublishedWasDelivered, DeliveriesExplained, Recorded, Status
<1>2. OutboxInv /\ [Next]_vars => OutboxInv'
  <2> SUFFICES ASSUME OutboxInv, [Next]_vars
               PROVE  OutboxInv'
    OBVIOUS
  <2>1. CASE \E e \in Events : Stage(e)
    BY <2>1, StagePreserves
  <2>2. ASSUME NEW r \in Relays, Relay(r)
        PROVE  OutboxInv'
    BY <2>2, ClaimPreserves, CommitBatchPreserves, PublishPreserves DEF Relay
  <2>3. ASSUME NEW r \in Relays, RollBack(r) \/ \E e \in Events : PublishUnmarked(r, e)
        PROVE  OutboxInv'
    BY <2>3, RollBackPreserves
  <2>4. CASE UNCHANGED vars
    BY <2>4
    DEF vars, OutboxInv, OutboxTypeOK, ClaimsExclusive, HandsClean, MarksTrue,
        PublishedWasDelivered, DeliveriesExplained, Recorded
  <2> QED
    BY <2>1, <2>2, <2>3, <2>4 DEF Next
<1> QED
  BY <1>1, <1>2, PTL DEF Spec

\* FOR UPDATE SKIP LOCKED: what a relay has in hand is its own and still PENDING,
\* so no commit overwrites what another relay recorded.
THEOREM ClaimsAlwaysExclusive == Spec => []ClaimsExclusive
<1>1. OutboxInv => ClaimsExclusive
  BY DEF OutboxInv
<1> QED
  BY <1>1, OutboxInvariant, PTL

\* A row is PUBLISHED only if the bus accepted the event.
THEOREM NothingSkipped == Spec => []PublishedWasDelivered
<1>1. OutboxInv => PublishedWasDelivered
  BY DEF OutboxInv, MarksTrue
<1> QED
  BY <1>1, OutboxInvariant, PTL

\* At-least-once with a bound: at most one delivery more than there were faults.
THEOREM DuplicatesFromFaults == Spec => []DuplicatesBounded
<1>1. OutboxInv => DuplicatesBounded
  BY DEF OutboxInv, DeliveriesExplained, DuplicatesBounded
<1> QED
  BY <1>1, OutboxInvariant, PTL
=============================================================================
