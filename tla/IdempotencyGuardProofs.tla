----------------------- MODULE IdempotencyGuardProofs -----------------------
(***************************************************************************)
(* Proofs about IdempotencyGuard for any number of handlers, keys and      *)
(* payloads: money moves once per key whatever Redis does, and what the    *)
(* guard adds to that as long as records outlive their owners.             *)
(***************************************************************************)
EXTENDS IdempotencyGuard, TLAPS

USE DEF Goto

\* What an answer from an existing record leaves as it was, and its types.
LEMMA AnswerFromType ==
    ASSUME TypeOK, NEW p \in Procs, key[p] \in Keys, body[p] \in Payloads,
           NEW r \in Record, AnswerFrom(p, r)
    PROVE  /\ pc' = [pc EXCEPT ![p] = "done"]
           /\ answer' \in [Procs -> Codes]
           /\ got' \in [Procs -> Payloads \union {None}]
           /\ acked' \in [Keys -> SUBSET Payloads]
<1>1. r.result \in Payloads \union {None} /\ r.status \in {"PROCESSING", "COMPLETED", "FAILED"}
  BY DEF Record
<1>2. \E code \in Codes, result \in Payloads \union {None} : Reply(p, code, result)
  BY <1>1 DEF AnswerFrom, Codes
<1> QED
  BY <1>2 DEF Reply, TypeOK

\* Type correctness.
THEOREM GuardTypeCorrect == Spec => []TypeOK
<1>1. Init => TypeOK
  BY DEF Init, TypeOK, Working, Running, Codes
<1>2. TypeOK /\ [Next]_vars => TypeOK'
  <2> SUFFICES ASSUME TypeOK, [Next]_vars PROVE TypeOK'
    OBVIOUS
  <2>1. ASSUME NEW p \in Procs, NEW k \in Keys, NEW b \in Payloads, Execute(p, k, b)
        PROVE  TypeOK'
    BY <2>1 DEF Execute, redis, db, TypeOK, Working, Running, Codes
  <2>2. ASSUME NEW p \in Procs, GetRecord(p) PROVE TypeOK'
    <3>1. key[p] \in Keys /\ body[p] \in Payloads
      BY <2>2 DEF GetRecord, TypeOK, Working
    <3>2. CASE rec[key[p]] = None
      BY <2>2, <3>2 DEF GetRecord, redis, db, req, TypeOK, Working, Running
    <3>3. CASE rec[key[p]] # None
      <4>1. rec[key[p]] \in Record /\ AnswerFrom(p, rec[key[p]])
        BY <2>2, <3>1, <3>3 DEF GetRecord, TypeOK
      <4> QED BY <2>2, <3>1, <4>1, AnswerFromType
              DEF GetRecord, redis, db, req, TypeOK, Working, Running
    <3> QED BY <3>2, <3>3
  <2>3. ASSUME NEW p \in Procs, TryAcquire(p) PROVE TypeOK'
    BY <2>3 DEF TryAcquire, Record, db, req, TypeOK, Working, Running
  <2>4. ASSUME NEW p \in Procs, WaitForExisting(p) PROVE TypeOK'
    <3>1. key[p] \in Keys /\ body[p] \in Payloads
      BY <2>4 DEF WaitForExisting, TypeOK, Working
    <3>2. CASE rec[key[p]] = None
      BY <2>4, <3>2 DEF WaitForExisting, Reply, redis, db, req, TypeOK, Working, Running, Codes
    <3>3. CASE rec[key[p]] # None
      <4>1. rec[key[p]] \in Record /\ AnswerFrom(p, rec[key[p]])
        BY <2>4, <3>1, <3>3 DEF WaitForExisting, TypeOK
      <4> QED BY <2>4, <3>1, <4>1, AnswerFromType
              DEF WaitForExisting, redis, db, req, TypeOK, Working, Running
    <3> QED BY <3>2, <3>3
  <2>5. ASSUME NEW p \in Procs, ChecksPass(p) PROVE TypeOK'
    BY <2>5 DEF ChecksPass, redis, db, req, TypeOK, Working, Running
  <2>6. ASSUME NEW p \in Procs, NEW code \in Refusals, ChecksRefuse(p, code) PROVE TypeOK'
    BY <2>6 DEF ChecksRefuse, redis, db, req, TypeOK, Working, Running, Codes
  <2>7. ASSUME NEW p \in Procs, PostTransfer(p) PROVE TypeOK'
    BY <2>7 DEF PostTransfer, redis, req, TypeOK, Working, Running, Codes
  <2>8. ASSUME NEW p \in Procs, PostRefused(p) PROVE TypeOK'
    BY <2>8 DEF PostRefused, redis, db, req, TypeOK, Working, Running, Codes
  <2>9. ASSUME NEW p \in Procs, CompleteGet(p) PROVE TypeOK'
    BY <2>9 DEF CompleteGet, Reply, redis, db, req, TypeOK, Working, Running, Codes
  <2>10. ASSUME NEW p \in Procs, CompleteSet(p) PROVE TypeOK'
    <3>1. [seen[p] EXCEPT !.status = "COMPLETED", !.result = body[p]] \in Record
      BY <2>10 DEF CompleteSet, TypeOK, Record, Working, Running
    <3> QED BY <2>10, <3>1
            DEF CompleteSet, Reply, db, req, TypeOK, Working, Running, Codes
  <2>11. ASSUME NEW p \in Procs, DeleteRecord(p) PROVE TypeOK'
    BY <2>11 DEF DeleteRecord, Reply, db, req, TypeOK, Working, Running
  <2>12. ASSUME NEW p \in Procs, FailGet(p) PROVE TypeOK'
    BY <2>12 DEF FailGet, Reply, redis, db, req, TypeOK, Working, Running
  <2>13. ASSUME NEW p \in Procs, FailSet(p) PROVE TypeOK'
    <3>1. [seen[p] EXCEPT !.status = "FAILED"] \in Record
      BY <2>13 DEF FailSet, TypeOK, Record
    <3> QED BY <2>13, <3>1 DEF FailSet, Reply, db, req, TypeOK, Working, Running
  <2>14. ASSUME NEW p \in Procs, Interrupted(p) PROVE TypeOK'
    BY <2>14 DEF Interrupted, Reply, redis, db, req, TypeOK, Working, Running, Codes
  <2>15. ASSUME NEW p \in Procs, WriteUnconfirmed(p) PROVE TypeOK'
    <3>1. rec' \in [Keys -> Record \union {None}]
      <4>1. CASE pc[p] = "acquire"
        BY <2>15, <4>1 DEF WriteUnconfirmed, TypeOK, Record, Working, Running
      <4>2. CASE pc[p] = "completeSet"
        <5>1. [seen[p] EXCEPT !.status = "COMPLETED", !.result = body[p]] \in Record
          BY <4>2 DEF TypeOK, Record, Working, Running
        <5> QED BY <2>15, <4>2, <5>1 DEF WriteUnconfirmed, TypeOK
      <4> QED BY <2>15, <4>1, <4>2 DEF WriteUnconfirmed
    <3> QED BY <2>15, <3>1
            DEF WriteUnconfirmed, Reply, db, req, TypeOK, Working, Running, Codes
  <2>16. ASSUME NEW k \in Keys, Expire(k) PROVE TypeOK'
    BY <2>16 DEF Expire, db, req, TypeOK
  <2>17. CASE UNCHANGED vars
    BY <2>17 DEF vars, TypeOK
  <2> QED
    BY <2>1, <2>2, <2>3, <2>4, <2>5, <2>6, <2>7, <2>8, <2>9, <2>10, <2>11, <2>12,
       <2>13, <2>14, <2>15, <2>16, <2>17
    DEF Next, Step
<1> QED
  BY <1>1, <1>2, PTL DEF Spec

\* The unique idempotency_key at work: a key has one commit exactly if it has a
\* saga row, and who is completing a record has seen its commit succeed.
OnceInv ==
    /\ \A k \in Keys : commits[k] = IF saga[k] = None THEN 0 ELSE 1
    /\ \A p \in Procs : pc[p] \in {"completing", "completeSet"} => saga[key[p]] # None
    /\ CompletedMeansPosted

\* A step that leaves the database and the records alone, moves one handler and
\* does not make it complete a record keeps OnceInv.
LEMMA OnceUndisturbed ==
    ASSUME TypeOK, OnceInv, NEW p \in Procs, NEW label \in Working \union {"done"},
           UNCHANGED <<rec, saga, commits, key>>,
           pc' = [pc EXCEPT ![p] = label],
           label \in {"completing", "completeSet"} => pc[p] \in {"completing", "completeSet"}
    PROVE  OnceInv'
  BY DEF OnceInv, TypeOK, CompletedMeansPosted

\* OnceInv holds whatever expires, breaks or is applied late.
THEOREM OnceInvariant == Spec => []OnceInv
<1>1. Init => OnceInv
  BY DEF Init, OnceInv, CompletedMeansPosted
<1>2. TypeOK /\ OnceInv /\ [Next]_vars => OnceInv'
  <2> SUFFICES ASSUME TypeOK, OnceInv, [Next]_vars PROVE OnceInv'
    OBVIOUS
  <2> USE GuardAssumption
  <2>0. \A p \in Procs : pc[p] \in Working => key[p] \in Keys /\ body[p] \in Payloads
    BY DEF TypeOK
  <2>1. ASSUME NEW p \in Procs, NEW k \in Keys, NEW b \in Payloads, Execute(p, k, b)
        PROVE  OnceInv'
    BY <2>1 DEF Execute, redis, db, OnceInv, TypeOK, CompletedMeansPosted
  <2>2. ASSUME NEW p \in Procs, GetRecord(p) \/ WaitForExisting(p) PROVE OnceInv'
    <3>1. key[p] \in Keys /\ body[p] \in Payloads /\ UNCHANGED <<rec, saga, commits, key>>
      BY <2>0, <2>2 DEF GetRecord, WaitForExisting, Working, redis, db, req
    <3>2. CASE rec[key[p]] = None
      BY <2>2, <3>1, <3>2, OnceUndisturbed DEF GetRecord, WaitForExisting, Reply, Working
    <3>3. CASE rec[key[p]] # None
      <4>1. rec[key[p]] \in Record /\ AnswerFrom(p, rec[key[p]])
        BY <2>2, <3>1, <3>3 DEF GetRecord, WaitForExisting, TypeOK
      <4> QED BY <3>1, <4>1, AnswerFromType, OnceUndisturbed DEF Working
    <3> QED BY <3>2, <3>3
  <2>3. ASSUME NEW p \in Procs, TryAcquire(p) PROVE OnceInv'
    BY <2>0, <2>3 DEF TryAcquire, db, req, OnceInv, TypeOK, CompletedMeansPosted, Working
  <2>4. ASSUME NEW p \in Procs, ChecksPass(p) \/ (\E code \in Refusals : ChecksRefuse(p, code))
        PROVE  OnceInv'
    BY <2>4, OnceUndisturbed DEF ChecksPass, ChecksRefuse, redis, db, req, Working, Running
  <2>5. ASSUME NEW p \in Procs, PostTransfer(p) PROVE OnceInv'
    <3>1. key[p] \in Keys /\ body[p] \in Payloads /\ body[p] # None
      BY <2>0, <2>5 DEF PostTransfer, Working, Running
    <3>2. /\ UNCHANGED <<rec, key>> /\ saga[key[p]] = None
          /\ saga' = [saga EXCEPT ![key[p]] = body[p]]
          /\ commits' = [commits EXCEPT ![key[p]] = @ + 1]
          /\ \E label \in {"completing", "failing"} : pc' = [pc EXCEPT ![p] = label]
      BY <2>5 DEF PostTransfer, redis, req
    <3>3. \A k \in Keys : commits'[k] = IF saga'[k] = None THEN 0 ELSE 1
      BY <3>1, <3>2 DEF OnceInv, TypeOK
    <3>4. \A k \in Keys : saga[k] # None => saga'[k] # None
      BY <3>1, <3>2 DEF TypeOK
    <3>5. \A q \in Procs : pc'[q] \in {"completing", "completeSet"} => saga'[key'[q]] # None
      <4> SUFFICES ASSUME NEW q \in Procs, pc'[q] \in {"completing", "completeSet"}
                   PROVE  saga'[key[q]] # None
        BY <3>2
      <4>1. CASE q = p
        BY <3>1, <3>2, <4>1 DEF TypeOK
      <4>2. CASE q # p
        <5>1. pc[q] \in {"completing", "completeSet"}
          BY <3>2, <4>2 DEF TypeOK
        <5>2. key[q] \in Keys /\ saga[key[q]] # None
          BY <2>0, <5>1 DEF OnceInv, Working, Running
        <5> QED BY <3>4, <5>2
      <4> QED BY <4>1, <4>2
    <3>6. CompletedMeansPosted'
      BY <3>2, <3>4 DEF OnceInv, CompletedMeansPosted
    <3> QED BY <3>3, <3>5, <3>6 DEF OnceInv
  <2>6. ASSUME NEW p \in Procs, PostRefused(p) PROVE OnceInv'
    BY <2>6, OnceUndisturbed DEF PostRefused, redis, db, req, Working, Running
  <2>7. ASSUME NEW p \in Procs, CompleteGet(p) PROVE OnceInv'
    BY <2>7, OnceUndisturbed DEF CompleteGet, Reply, redis, db, req, Working, Running
  <2>8. ASSUME NEW p \in Procs, CompleteSet(p) PROVE OnceInv'
    BY <2>0, <2>8 DEF CompleteSet, Reply, db, req, OnceInv, TypeOK, CompletedMeansPosted, Working, Running
  <2>9. ASSUME NEW p \in Procs, DeleteRecord(p) PROVE OnceInv'
    BY <2>0, <2>9 DEF DeleteRecord, Reply, db, req, OnceInv, TypeOK, CompletedMeansPosted, Working, Running
  <2>10. ASSUME NEW p \in Procs, FailGet(p) PROVE OnceInv'
    BY <2>10, OnceUndisturbed DEF FailGet, Reply, redis, db, req, Working, Running
  <2>11. ASSUME NEW p \in Procs, FailSet(p) PROVE OnceInv'
    <3>1. seen[p] \in Record /\ [seen[p] EXCEPT !.status = "FAILED"].status = "FAILED"
      BY <2>11 DEF FailSet, TypeOK, Record
    <3> QED BY <2>0, <2>11, <3>1
            DEF FailSet, Reply, db, req, OnceInv, TypeOK, CompletedMeansPosted, Working, Running
  <2>12. ASSUME NEW p \in Procs, Interrupted(p) PROVE OnceInv'
    BY <2>12, OnceUndisturbed DEF Interrupted, Reply, redis, db, req, Working, Running
  <2>13. ASSUME NEW p \in Procs, WriteUnconfirmed(p) PROVE OnceInv'
    BY <2>0, <2>13 DEF WriteUnconfirmed, Reply, db, req, OnceInv, TypeOK, CompletedMeansPosted, Working, Running
  <2>14. ASSUME NEW k \in Keys, Expire(k) PROVE OnceInv'
    BY <2>14 DEF Expire, db, req, OnceInv, TypeOK, CompletedMeansPosted
  <2>15. CASE UNCHANGED vars
    BY <2>15 DEF vars, OnceInv, CompletedMeansPosted
  <2> QED
    BY <2>1, <2>2, <2>3, <2>4, <2>5, <2>6, <2>7, <2>8, <2>9, <2>10, <2>11, <2>12,
       <2>13, <2>14, <2>15
    DEF Next, Step
<1> QED
  BY <1>1, <1>2, GuardTypeCorrect, PTL DEF Spec

\* A key moves money at most once, for any number of handlers and whatever
\* happens to its record (transfer_sagas.idempotency_key is unique).
THEOREM KeyPostsOnce == Spec => []PostedOnce
<1>1. TypeOK /\ OnceInv => PostedOnce
  BY DEF OnceInv, PostedOnce
<1> QED
  BY <1>1, GuardTypeCorrect, OnceInvariant, PTL

\* No COMPLETED record without a committed transfer (Guard.Run completes a
\* record only after runSaga returned).
THEOREM CompletedIsPosted == Spec => []CompletedMeansPosted
<1>1. OnceInv => CompletedMeansPosted
  BY DEF OnceInv
<1> QED
  BY <1>1, OnceInvariant, PTL

-----------------------------------------------------------------------------

\* The record a won TryAcquire writes.
Fresh(b) == [status |-> "PROCESSING", fingerprint |-> b, result |-> None]

\* While a handler runs fn its key's record is the one it acquired, and what
\* Complete or Fail has read is still there when it is written back.
OwnerInv ==
    /\ SingleOwner
    /\ \A p \in Procs : pc[p] \in Running => rec[key[p]] = Fresh(body[p])
    /\ \A p \in Procs : pc[p] \in {"completeSet", "failSet"} => seen[p] = Fresh(body[p])

\* A step that leaves the records alone and starts no run keeps OwnerInv.
LEMMA OwnerUndisturbed ==
    ASSUME TypeOK, OwnerInv, NEW p \in Procs, NEW label \in Working \union {"done"},
           UNCHANGED <<rec, key, body>>,
           pc' = [pc EXCEPT ![p] = label],
           label \in Running => pc[p] \in Running,
           \A q \in Procs : q # p => seen'[q] = seen[q],
           label \in {"completeSet", "failSet"} => seen'[p] = rec[key[p]]
    PROVE  OwnerInv'
  BY DEF OwnerInv, SingleOwner, TypeOK, Running

\* A step of the owner that ends its run keeps OwnerInv whatever it writes.
LEMMA OwnerEnds ==
    ASSUME TypeOK, OwnerInv, NEW p \in Procs, pc[p] \in Running, NEW r,
           UNCHANGED <<key, body, seen>>,
           rec' = [rec EXCEPT ![key[p]] = r],
           pc' = [pc EXCEPT ![p] = "done"]
    PROVE  OwnerInv'
<1>1. \A q \in Procs : pc'[q] \in Running => q # p /\ pc[q] \in Running /\ key[q] # key[p]
  BY DEF OwnerInv, SingleOwner, TypeOK, Running
<1>2. \A q \in Procs : pc[q] \in Running => key[q] \in Keys
  BY DEF TypeOK, Working
<1> QED
  BY <1>1, <1>2 DEF OwnerInv, SingleOwner, TypeOK, Running

\* As long as records outlive their owners, OwnerInv is an invariant: SET NX
\* keeps every other handler out.
THEOREM OwnerInvariant ==
    ASSUME ~ExpiryUnderway
    PROVE  Spec => []OwnerInv
<1>1. Init => OwnerInv
  BY DEF Init, OwnerInv, SingleOwner, Running
<1>2. TypeOK /\ OwnerInv /\ [Next]_vars => OwnerInv'
  <2> SUFFICES ASSUME TypeOK, OwnerInv, [Next]_vars PROVE OwnerInv'
    OBVIOUS
  <2> USE GuardAssumption
  <2>0. \A p \in Procs : pc[p] \in Working => key[p] \in Keys /\ body[p] \in Payloads
    BY DEF TypeOK
  <2>1. ASSUME NEW p \in Procs, NEW k \in Keys, NEW b \in Payloads, Execute(p, k, b)
        PROVE  OwnerInv'
    BY <2>1 DEF Execute, redis, db, OwnerInv, SingleOwner, TypeOK, Running
  <2>2. ASSUME NEW p \in Procs, GetRecord(p) \/ WaitForExisting(p) PROVE OwnerInv'
    <3>1. key[p] \in Keys /\ body[p] \in Payloads /\ UNCHANGED <<rec, key, body, seen>>
      BY <2>0, <2>2 DEF GetRecord, WaitForExisting, Working, redis, db, req
    <3>2. CASE rec[key[p]] = None
      BY <2>2, <3>1, <3>2, OwnerUndisturbed DEF GetRecord, WaitForExisting, Reply, Working, Running
    <3>3. CASE rec[key[p]] # None
      <4>1. rec[key[p]] \in Record /\ AnswerFrom(p, rec[key[p]])
        BY <2>2, <3>1, <3>3 DEF GetRecord, WaitForExisting, TypeOK
      <4> QED BY <3>1, <4>1, AnswerFromType, OwnerUndisturbed DEF Working, Running
    <3> QED BY <3>2, <3>3
  <2>3. ASSUME NEW p \in Procs, TryAcquire(p) PROVE OwnerInv'
    <3>1. key[p] \in Keys /\ body[p] \in Payloads /\ UNCHANGED <<key, body, seen>>
      BY <2>0, <2>3 DEF TryAcquire, Working, req
    <3>2. CASE rec[key[p]] # None
      BY <2>3, <3>1, <3>2, OwnerUndisturbed DEF TryAcquire, Working, Running
    <3>3. CASE rec[key[p]] = None
      <4>1. /\ rec' = [rec EXCEPT ![key[p]] = Fresh(body[p])]
            /\ pc' = [pc EXCEPT ![p] = "saga"]
        BY <2>3, <3>3 DEF TryAcquire, Fresh
      <4>2. \A q \in Procs : pc[q] \in Running => key[q] \in Keys /\ key[q] # key[p]
        <5>1. \A b : Fresh(b).status = "PROCESSING"
          BY DEF Fresh
        <5>2. \A q \in Procs : pc[q] \in Running => key[q] \in Keys /\ Fresh(body[q]) \in Record
          BY <2>0 DEF Fresh, Record, Working
        <5> QED BY <3>3, <5>2 DEF OwnerInv
      <4> QED BY <3>1, <4>1, <4>2 DEF OwnerInv, SingleOwner, TypeOK, Running
    <3> QED BY <3>2, <3>3
  <2>4. ASSUME NEW p \in Procs,
               \/ ChecksPass(p) \/ (\E code \in Refusals : ChecksRefuse(p, code))
               \/ PostTransfer(p) \/ PostRefused(p)
        PROVE  OwnerInv'
    BY <2>4, OwnerUndisturbed
    DEF ChecksPass, ChecksRefuse, PostTransfer, PostRefused, redis, db, req, Working, Running
  <2>5. ASSUME NEW p \in Procs, CompleteGet(p) \/ FailGet(p) PROVE OwnerInv'
    <3>1. key[p] \in Keys /\ UNCHANGED <<rec, key, body>> /\ pc[p] \in Running
      BY <2>0, <2>5 DEF CompleteGet, FailGet, Working, Running, redis, req
    <3>2. CASE rec[key[p]] = None
      BY <2>5, <3>1, <3>2, OwnerUndisturbed DEF CompleteGet, FailGet, Reply, Working, Running
    <3>3. CASE rec[key[p]] # None
      <4>1. \E label \in {"completeSet", "failSet"} : pc' = [pc EXCEPT ![p] = label]
        BY <2>5, <3>3 DEF CompleteGet, FailGet
      <4>2. seen' = [seen EXCEPT ![p] = rec[key[p]]]
        BY <2>5, <3>3 DEF CompleteGet, FailGet
      <4> QED BY <3>1, <4>1, <4>2, OwnerUndisturbed DEF TypeOK, Working, Running
    <3> QED BY <3>2, <3>3
  <2>6. ASSUME NEW p \in Procs, CompleteSet(p) \/ DeleteRecord(p) \/ FailSet(p) PROVE OwnerInv'
    BY <2>6, OwnerEnds DEF CompleteSet, DeleteRecord, FailSet, Reply, req, Running
  <2>7. ASSUME NEW p \in Procs, Interrupted(p) PROVE OwnerInv'
    BY <2>7, OwnerUndisturbed DEF Interrupted, Reply, redis, db, req, Running
  <2>8. ASSUME NEW p \in Procs, WriteUnconfirmed(p) PROVE OwnerInv'
    <3>1. CASE pc[p] = "completeSet"
      BY <2>8, <3>1, OwnerEnds DEF WriteUnconfirmed, Reply, req, Running
    <3>2. CASE pc[p] = "acquire"
      <4>1. /\ rec[key[p]] = None /\ key[p] \in Keys
            /\ \E r : rec' = [rec EXCEPT ![key[p]] = r]
            /\ pc' = [pc EXCEPT ![p] = "done"] /\ UNCHANGED <<key, body, seen>>
        BY <2>0, <2>8, <3>2 DEF WriteUnconfirmed, Reply, req, Working
      <4>2. \A q \in Procs : pc[q] \in Running => key[q] \in Keys /\ key[q] # key[p]
        <5>1. \A q \in Procs : pc[q] \in Running => key[q] \in Keys /\ Fresh(body[q]) \in Record
          BY <2>0 DEF Fresh, Record, Working
        <5> QED BY <4>1, <5>1 DEF OwnerInv
      <4>3. \A q \in Procs : pc'[q] \in Running => pc[q] \in Running /\ pc'[q] = pc[q]
        BY <4>1 DEF TypeOK, Running
      <4> QED BY <4>1, <4>2, <4>3 DEF OwnerInv, SingleOwner, TypeOK, Running
    <3> QED BY <2>8, <3>1, <3>2 DEF WriteUnconfirmed
  <2>9. ASSUME NEW k \in Keys, Expire(k) PROVE OwnerInv'
    BY <2>0, <2>9 DEF Expire, req, OwnerInv, SingleOwner, TypeOK, Working, Running
  <2>10. CASE UNCHANGED vars
    BY <2>10 DEF vars, OwnerInv, SingleOwner
  <2> QED
    BY <2>1, <2>2, <2>3, <2>4, <2>5, <2>6, <2>7, <2>8, <2>9, <2>10 DEF Next, Step
<1> QED
  BY <1>1, <1>2, GuardTypeCorrect, PTL DEF Spec

\* Two handlers never run fn for one key at once, as long as records outlive
\* their owners (TryAcquire's SET NX).
THEOREM OneOwner ==
    ASSUME ~ExpiryUnderway
    PROVE  Spec => []SingleOwner
<1>1. OwnerInv => SingleOwner
  BY DEF OwnerInv
<1> QED
  BY <1>1, OwnerInvariant, PTL

\* A verdict only ever disappears by expiry: the second half of Complete and Fail
\* never writes over one.
THEOREM VerdictStands ==
    ASSUME ~ExpiryUnderway
    PROVE  Spec => VerdictStable
<1> DEFINE Stable == \A k \in Keys : rec[k] # None /\ rec[k].status # "PROCESSING" =>
                         rec'[k] \in {rec[k], None}
<1>1. TypeOK /\ OwnerInv /\ [Next]_vars => [Stable]_vars
  <2> SUFFICES ASSUME TypeOK, OwnerInv, Next PROVE Stable
    OBVIOUS
  <2>1. CASE UNCHANGED rec
    BY <2>1
  <2>2. ASSUME NEW p \in Procs, NEW r, rec[key[p]] = None \/ pc[p] \in Running,
               rec' = [rec EXCEPT ![key[p]] = r]
        PROVE  Stable
    <3>1. Fresh(body[p]).status = "PROCESSING"
      BY DEF Fresh
    <3>2. \A k \in Keys : rec[k] # None /\ rec[k].status # "PROCESSING" => k # key[p]
      BY <2>2, <3>1 DEF OwnerInv
    <3> QED BY <2>2, <3>2 DEF TypeOK
  <2>3. ASSUME NEW p \in Procs,
               \/ TryAcquire(p) \/ CompleteSet(p) \/ DeleteRecord(p) \/ FailSet(p)
               \/ WriteUnconfirmed(p)
        PROVE  Stable
    BY <2>1, <2>2, <2>3
    DEF TryAcquire, CompleteSet, DeleteRecord, FailSet, WriteUnconfirmed, Running
  <2>4. ASSUME NEW k \in Keys, Expire(k) PROVE Stable
    BY <2>4 DEF Expire, TypeOK
  <2> HIDE DEF Stable
  <2> QED
    BY <2>1, <2>3, <2>4
    DEF Next, Step, Execute, GetRecord, WaitForExisting, ChecksPass, ChecksRefuse, PostTransfer,
        PostRefused, CompleteGet, FailGet, Interrupted, redis
<1> QED
  BY <1>1, GuardTypeCorrect, OwnerInvariant, PTL DEF Spec, VerdictStable

-----------------------------------------------------------------------------

\* What clients were told is what the database holds: a COMPLETED record and an
\* acknowledged payload are those of the committed saga.
ResultInv ==
    /\ \A k \in Keys : rec[k] # None /\ rec[k].status = "COMPLETED" =>
           rec[k].fingerprint = saga[k] /\ rec[k].result = saga[k]
    /\ \A p \in Procs : pc[p] \in {"completing", "completeSet"} => saga[key[p]] = body[p]
    /\ \A p \in Procs : pc[p] \in {"failing", "failSet"} => answer[p] \notin {"ok", "replay"}
    /\ \A k \in Keys : acked[k] \subseteq {saga[k]}
    /\ \A p \in Procs : pc[p] = "done" /\ answer[p] \in {"ok", "replay"} =>
           key[p] \in Keys /\ got[p] = body[p] /\ body[p] \in acked[key[p]]

\* A reply that is not a success keeps ResultInv.
LEMMA ResultRefused ==
    ASSUME TypeOK, ResultInv, NEW p \in Procs, key[p] \in Keys,
           NEW code \in Codes \ {"ok", "replay"}, Reply(p, code, None),
           UNCHANGED <<rec, saga, key, body>>
    PROVE  ResultInv'
  BY DEF ResultInv, TypeOK, Reply

\* Nor does a step that tells nobody anything.
LEMMA ResultUntold ==
    ASSUME TypeOK, ResultInv, NEW p \in Procs, NEW label \in Working,
           pc' = [pc EXCEPT ![p] = label],
           UNCHANGED <<rec, saga, key, body, got, acked>>,
           UNCHANGED answer \/ \E code \in Codes \ {"ok", "replay"} : answer' = [answer EXCEPT ![p] = code],
           label \in {"completing", "completeSet"} => pc[p] \in {"completing", "completeSet"},
           label \in {"failing", "failSet"} =>
               pc[p] \in {"failing", "failSet"} \/ answer'[p] \notin {"ok", "replay"}
    PROVE  ResultInv'
  BY DEF ResultInv, TypeOK, Working, Running

\* A success that names the committed payload, with its record or without.
LEMMA ResultTold ==
    ASSUME TypeOK, ResultInv, NEW p \in Procs, key[p] \in Keys, body[p] \in Payloads,
           saga[key[p]] = body[p], NEW code \in {"ok", "replay"}, Reply(p, code, body[p]),
           UNCHANGED <<saga, key, body>>, NEW r,
           \/ rec' = rec
           \/ /\ rec' = [rec EXCEPT ![key[p]] = r]
              /\ r.fingerprint = body[p] /\ r.result = body[p]
    PROVE  ResultInv'
<1>1. \A k \in Keys : rec'[k] # None /\ rec'[k].status = "COMPLETED" =>
          rec'[k].fingerprint = saga[k] /\ rec'[k].result = saga[k]
  BY DEF ResultInv, TypeOK
<1>2. acked' = [acked EXCEPT ![key[p]] = @ \union {body[p]}]
  BY DEF Reply
<1>3. \A k \in Keys : acked'[k] \subseteq {saga[k]}
  BY <1>2 DEF ResultInv, TypeOK
<1>4. \A q \in Procs : pc'[q] = "done" /\ answer'[q] \in {"ok", "replay"} =>
          key[q] \in Keys /\ got'[q] = body[q] /\ body[q] \in acked'[key[q]]
  <2> SUFFICES ASSUME NEW q \in Procs, pc'[q] = "done", answer'[q] \in {"ok", "replay"}
               PROVE  key[q] \in Keys /\ got'[q] = body[q] /\ body[q] \in acked'[key[q]]
    OBVIOUS
  <2>1. CASE q = p
    BY <1>2, <2>1 DEF Reply, TypeOK
  <2>2. CASE q # p
    BY <1>2, <2>2 DEF Reply, ResultInv, TypeOK
  <2> QED BY <2>1, <2>2
<1> QED
  BY <1>1, <1>3, <1>4 DEF ResultInv, Reply, TypeOK

\* A write of a record that is not COMPLETED, with a reply that is no success or
\* without a reply.
LEMMA ResultRewritten ==
    ASSUME TypeOK, ResultInv, NEW p \in Procs, key[p] \in Keys, NEW r,
           r # None => r.status # "COMPLETED",
           rec' = [rec EXCEPT ![key[p]] = r],
           UNCHANGED <<saga, key, body>>,
           \/ \E code \in Codes \ {"ok", "replay"} : Reply(p, code, None)
           \/ pc' = [pc EXCEPT ![p] = "saga"] /\ UNCHANGED <<answer, got, acked>>
    PROVE  ResultInv'
<1>1. \A k \in Keys : rec'[k] # None /\ rec'[k].status = "COMPLETED" =>
          rec'[k].fingerprint = saga[k] /\ rec'[k].result = saga[k]
  BY DEF ResultInv, TypeOK
<1>2. /\ UNCHANGED acked
      /\ \A q \in Procs : q # p => pc'[q] = pc[q] /\ answer'[q] = answer[q] /\ got'[q] = got[q]
      /\ pc'[p] \in {"saga", "done"}
      /\ pc'[p] = "done" => answer'[p] \notin {"ok", "replay"}
  BY DEF Reply, TypeOK
<1> QED
  BY <1>1, <1>2 DEF ResultInv

\* ResultInv holds as long as records outlive their owners.
THEOREM ResultInvariant ==
    ASSUME ~ExpiryUnderway
    PROVE  Spec => []ResultInv
<1>1. Init => ResultInv
  BY DEF Init, ResultInv
<1>2. TypeOK /\ OwnerInv /\ ResultInv /\ [Next]_vars => ResultInv'
  <2> SUFFICES ASSUME TypeOK, OwnerInv, ResultInv, [Next]_vars PROVE ResultInv'
    OBVIOUS
  <2> USE GuardAssumption
  <2>0. \A p \in Procs : pc[p] \in Working => key[p] \in Keys /\ body[p] \in Payloads
    BY DEF TypeOK
  <2>1. ASSUME NEW p \in Procs, NEW k \in Keys, NEW b \in Payloads, Execute(p, k, b)
        PROVE  ResultInv'
    BY <2>1 DEF Execute, redis, db, ResultInv, TypeOK
  <2>2. ASSUME NEW p \in Procs, GetRecord(p) \/ WaitForExisting(p) PROVE ResultInv'
    <3>1. key[p] \in Keys /\ body[p] \in Payloads /\ UNCHANGED <<rec, saga, key, body>>
      BY <2>0, <2>2 DEF GetRecord, WaitForExisting, Working, redis, db, req
    <3>2. CASE rec[key[p]] = None /\ GetRecord(p)
      BY <3>1, <3>2, ResultUntold DEF GetRecord, Working
    <3>3. CASE rec[key[p]] = None /\ WaitForExisting(p)
      BY <3>1, <3>3, ResultRefused DEF WaitForExisting, Codes
    <3>4. CASE rec[key[p]] # None
      <4> DEFINE r == rec[key[p]]
      <4>1. r \in Record /\ AnswerFrom(p, r)
        BY <2>2, <3>1, <3>4 DEF GetRecord, WaitForExisting, TypeOK
      <4>2. CASE r.fingerprint = body[p] /\ r.status = "COMPLETED"
        <5>1. r.result = body[p] /\ saga[key[p]] = body[p]
          BY <3>1, <3>4, <4>2 DEF ResultInv
        <5>2. Reply(p, "replay", body[p])
          BY <4>1, <4>2, <5>1 DEF AnswerFrom
        <5> QED BY <3>1, <5>1, <5>2, ResultTold
      <4>3. CASE ~(r.fingerprint = body[p] /\ r.status = "COMPLETED")
        <5>1. \E code \in Codes \ {"ok", "replay"} : Reply(p, code, None)
          BY <4>1, <4>3 DEF AnswerFrom, Record, Codes
        <5> QED BY <3>1, <5>1, ResultRefused
      <4> QED BY <4>2, <4>3
    <3> QED BY <2>2, <3>2, <3>3, <3>4
  <2>3. ASSUME NEW p \in Procs, TryAcquire(p) PROVE ResultInv'
    <3>1. key[p] \in Keys /\ UNCHANGED <<saga, key, body, answer, got, acked>>
      BY <2>0, <2>3 DEF TryAcquire, Working, db, req
    <3>2. CASE rec[key[p]] # None
      BY <2>3, <3>1, <3>2, ResultUntold DEF TryAcquire, Working
    <3>3. CASE rec[key[p]] = None
      <4>1. Fresh(body[p]).status # "COMPLETED"
        BY DEF Fresh
      <4>2. /\ rec' = [rec EXCEPT ![key[p]] = Fresh(body[p])]
            /\ pc' = [pc EXCEPT ![p] = "saga"]
        BY <2>3, <3>3 DEF TryAcquire, Fresh
      <4> QED BY <3>1, <4>1, <4>2, ResultRewritten
    <3> QED BY <3>2, <3>3
  <2>4. ASSUME NEW p \in Procs, ChecksPass(p) PROVE ResultInv'
    BY <2>4, ResultUntold DEF ChecksPass, redis, db, req, Working, Running
  <2>5. ASSUME NEW p \in Procs, NEW code \in Refusals, ChecksRefuse(p, code) PROVE ResultInv'
    <3>1. code \in Codes \ {"ok", "replay"}
      BY DEF Codes
    <3> QED BY <2>5, <3>1, ResultUntold
            DEF ChecksRefuse, redis, db, req, TypeOK, Working, Running
  <2>6. ASSUME NEW p \in Procs, PostTransfer(p) PROVE ResultInv'
    <3>1. key[p] \in Keys /\ body[p] \in Payloads
      BY <2>0, <2>6 DEF PostTransfer, Working, Running
    <3>2. /\ UNCHANGED <<rec, key, body, got, acked>> /\ saga[key[p]] = None
          /\ saga' = [saga EXCEPT ![key[p]] = body[p]]
          /\ \/ pc' = [pc EXCEPT ![p] = "completing"] /\ UNCHANGED answer
             \/ pc' = [pc EXCEPT ![p] = "failing"] /\ answer' = [answer EXCEPT ![p] = "error"]
      BY <2>6 DEF PostTransfer, redis, req
    <3>3. \A k \in Keys : rec[k] # None /\ rec[k].status = "COMPLETED" =>
              rec[k].fingerprint = saga'[k] /\ rec[k].result = saga'[k]
      <4>1. \A k \in Keys : rec[k] # None => rec[k].fingerprint # None
        BY DEF TypeOK, Record
      <4> QED BY <3>1, <3>2, <4>1 DEF ResultInv, TypeOK
    <3>4. \A k \in Keys : acked[k] \subseteq {saga'[k]}
      <4>1. \A k \in Keys : None \notin acked[k]
        BY DEF TypeOK
      <4> QED BY <3>1, <3>2, <4>1 DEF ResultInv, TypeOK
    <3>5. \A q \in Procs : pc'[q] \in {"completing", "completeSet"} => saga'[key[q]] = body[q]
      <4> SUFFICES ASSUME NEW q \in Procs, pc'[q] \in {"completing", "completeSet"}
                   PROVE  saga'[key[q]] = body[q]
        OBVIOUS
      <4>1. CASE q = p
        BY <3>1, <3>2, <4>1 DEF TypeOK
      <4>2. CASE q # p
        <5>1. pc[q] \in {"completing", "completeSet"}
          BY <3>2, <4>2 DEF TypeOK
        <5>2. key[q] \in Keys /\ body[q] # None /\ saga[key[q]] = body[q]
          BY <2>0, <5>1 DEF ResultInv, Working, Running
        <5> QED BY <3>2, <5>2 DEF TypeOK
      <4> QED BY <4>1, <4>2
    <3> QED BY <3>2, <3>3, <3>4, <3>5 DEF ResultInv, TypeOK
  <2>7. ASSUME NEW p \in Procs, PostRefused(p) PROVE ResultInv'
    <3>1. \E code \in Codes \ {"ok", "replay"} : answer' = [answer EXCEPT ![p] = code]
      BY <2>7 DEF PostRefused, Codes
    <3> QED BY <2>7, <3>1, ResultUntold
            DEF PostRefused, redis, db, req, TypeOK, Working, Running
  <2>8. ASSUME NEW p \in Procs, CompleteGet(p) PROVE ResultInv'
    <3>1. key[p] \in Keys
      BY <2>0, <2>8 DEF CompleteGet, Working, Running
    <3>2. CASE rec[key[p]] = None
      BY <2>8, <3>1, <3>2, ResultRefused DEF CompleteGet, redis, db, req, Codes
    <3>3. CASE rec[key[p]] # None
      BY <2>8, <3>3, ResultUntold DEF CompleteGet, redis, db, req, Working, Running
    <3> QED BY <3>2, <3>3
  <2>9. ASSUME NEW p \in Procs, FailGet(p) PROVE ResultInv'
    <3>1. key[p] \in Keys /\ answer[p] \in Codes \ {"ok", "replay"}
      BY <2>0, <2>9 DEF FailGet, ResultInv, TypeOK, Working, Running
    <3>2. CASE rec[key[p]] = None
      BY <2>9, <3>1, <3>2, ResultRefused DEF FailGet, redis, db, req
    <3>3. CASE rec[key[p]] # None
      BY <2>9, <3>3, ResultUntold DEF FailGet, redis, db, req, Working, Running
    <3> QED BY <3>2, <3>3
  <2>10. ASSUME NEW p \in Procs, pc[p] = "completeSet",
                CompleteSet(p) \/ WriteUnconfirmed(p)
         PROVE  ResultInv'
    <3>1. /\ key[p] \in Keys /\ body[p] \in Payloads /\ saga[key[p]] = body[p]
          /\ seen[p] = Fresh(body[p])
      BY <2>0, <2>10 DEF ResultInv, OwnerInv, Working, Running
    <3> DEFINE r == [seen[p] EXCEPT !.status = "COMPLETED", !.result = body[p]]
    <3>2. r.fingerprint = body[p] /\ r.result = body[p]
      BY <3>1 DEF Fresh
    <3>3. rec' = [rec EXCEPT ![key[p]] = r] /\ UNCHANGED <<saga, key, body>>
      BY <2>10 DEF CompleteSet, WriteUnconfirmed, db, req
    <3> HIDE DEF r
    <3>4. CASE CompleteSet(p)
      <4>1. Reply(p, "ok", body[p])
        BY <3>4 DEF CompleteSet
      <4> QED BY <3>1, <3>2, <3>3, <4>1, ResultTold
    <3>5. CASE WriteUnconfirmed(p)
      <4>1. Reply(p, "error", None)
        BY <3>5 DEF WriteUnconfirmed
      <4>2. \A k \in Keys : rec'[k] # None /\ rec'[k].status = "COMPLETED" =>
                rec'[k].fingerprint = saga[k] /\ rec'[k].result = saga[k]
        BY <3>1, <3>2, <3>3 DEF ResultInv, TypeOK
      <4> QED BY <3>3, <4>1, <4>2 DEF ResultInv, Reply, TypeOK
    <3> QED BY <2>10, <3>4, <3>5
  <2>11. ASSUME NEW p \in Procs, DeleteRecord(p) PROVE ResultInv'
    <3>1. key[p] \in Keys /\ answer[p] \in Codes \ {"ok", "replay"}
      BY <2>0, <2>11 DEF DeleteRecord, ResultInv, TypeOK, Working, Running
    <3> QED BY <2>11, <3>1, ResultRewritten DEF DeleteRecord, db, req
  <2>12. ASSUME NEW p \in Procs, FailSet(p) PROVE ResultInv'
    <3>1. key[p] \in Keys /\ answer[p] \in Codes \ {"ok", "replay"}
      BY <2>0, <2>12 DEF FailSet, ResultInv, TypeOK, Working, Running
    <3>2. seen[p] \in Record /\ [seen[p] EXCEPT !.status = "FAILED"].status = "FAILED"
      BY <2>12 DEF FailSet, TypeOK, Record
    <3> QED BY <2>12, <3>1, <3>2, ResultRewritten DEF FailSet, db, req
  <2>13. ASSUME NEW p \in Procs, Interrupted(p) PROVE ResultInv'
    <3>1. key[p] \in Keys
      BY <2>0, <2>13 DEF Interrupted
    <3>2. \E code \in Codes \ {"ok", "replay"} : Reply(p, code, None)
      <4>1. CASE pc[p] \in {"failing", "failSet"}
        <5>1. answer[p] \in Codes \ {"ok", "replay"}
          BY <4>1 DEF ResultInv, TypeOK
        <5> QED BY <2>13, <4>1, <5>1 DEF Interrupted
      <4>2. CASE pc[p] \notin {"failing", "failSet"}
        BY <2>13, <4>2 DEF Interrupted, Codes
      <4> QED BY <4>1, <4>2
    <3> QED BY <2>13, <3>1, <3>2, ResultRefused DEF Interrupted, redis, db, req
  <2>14. ASSUME NEW p \in Procs, pc[p] # "completeSet", WriteUnconfirmed(p) PROVE ResultInv'
    <3>1. /\ key[p] \in Keys /\ Reply(p, "error", None) /\ "error" \in Codes \ {"ok", "replay"}
          /\ rec' = [rec EXCEPT ![key[p]] = Fresh(body[p])] /\ UNCHANGED <<saga, key, body>>
      BY <2>0, <2>14 DEF WriteUnconfirmed, Fresh, Codes, Working, db, req
    <3>2. Fresh(body[p]).status # "COMPLETED"
      BY DEF Fresh
    <3> QED BY <3>1, <3>2, ResultRewritten
  <2>15. ASSUME NEW k \in Keys, Expire(k) PROVE ResultInv'
    BY <2>15 DEF Expire, db, req, ResultInv, TypeOK
  <2>16. CASE UNCHANGED vars
    BY <2>16 DEF vars, ResultInv
  <2>17. ASSUME NEW p \in Procs, CompleteSet(p) PROVE pc[p] = "completeSet"
    BY <2>17 DEF CompleteSet
  <2> QED
    BY <2>1, <2>2, <2>3, <2>4, <2>5, <2>6, <2>7, <2>8, <2>9, <2>10, <2>11, <2>12,
       <2>13, <2>14, <2>15, <2>16, <2>17
    DEF Next, Step
<1> QED
  BY <1>1, <1>2, GuardTypeCorrect, OwnerInvariant, PTL DEF Spec

\* Whoever is told "succeeded" is told about its own, committed transfer, and
\* nobody else was told otherwise under that key (AnswerFrom, Complete).
THEOREM AnswersAreTrue ==
    ASSUME ~ExpiryUnderway
    PROVE  Spec => []OwnResult
<1>1. TypeOK /\ ResultInv => OwnResult
  BY DEF ResultInv, OwnResult, TypeOK
<1> QED
  BY <1>1, GuardTypeCorrect, ResultInvariant, PTL

-----------------------------------------------------------------------------
(* The guard implements TransferContract. *)

\* An error that is being handled is one the contract allows.
ErrorInv ==
    \A p \in Procs : pc[p] \in {"failing", "failSet"} => answer[p] \in {"error"} \union Refusals

\* handleFailure is only entered with an error of runSaga.
THEOREM ErrorInvariant == Spec => []ErrorInv
<1>1. Init => ErrorInv
  BY DEF Init, ErrorInv
<1>2. TypeOK /\ ErrorInv /\ [Next]_vars => ErrorInv'
  <2> SUFFICES ASSUME TypeOK, ErrorInv, [Next]_vars PROVE ErrorInv'
    OBVIOUS
  <2>1. ASSUME NEW p \in Procs, NEW label \in {"saga", "posting", "get", "acquire", "wait",
                                               "completing", "completeSet", "done"},
               pc' = [pc EXCEPT ![p] = label],
               \A q \in Procs : q # p => answer'[q] = answer[q]
        PROVE  ErrorInv'
    BY <2>1 DEF ErrorInv, TypeOK
  <2>2. ASSUME NEW p \in Procs, NEW c, NEW r, Reply(p, c, r) PROVE ErrorInv'
    BY <2>1, <2>2 DEF Reply, TypeOK
  <2>3. ASSUME NEW p \in Procs, NEW k \in Keys, NEW b \in Payloads, Execute(p, k, b)
        PROVE  ErrorInv'
    BY <2>1, <2>3 DEF Execute, Goto, TypeOK
  <2>4. ASSUME NEW p \in Procs, key[p] \in Keys, rec[key[p]] # None, AnswerFrom(p, rec[key[p]])
        PROVE  ErrorInv'
    <3>1. rec[key[p]] \in Record
      BY <2>4 DEF TypeOK
    <3> QED BY <2>2, <2>4, <3>1 DEF AnswerFrom, Record
  <2>5. ASSUME NEW p \in Procs, Step(p) \/ Interrupted(p) \/ WriteUnconfirmed(p)
        PROVE  ErrorInv'
    <3>1. CASE GetRecord(p)
      BY <2>1, <2>4, <3>1 DEF GetRecord, Goto, TypeOK, Working
    <3>2. CASE TryAcquire(p) \/ ChecksPass(p)
      BY <2>1, <3>2 DEF TryAcquire, ChecksPass, Goto
    <3>3. CASE WaitForExisting(p)
      BY <2>2, <2>4, <3>3 DEF WaitForExisting, TypeOK, Working
    <3>4. CASE \E code \in Refusals : ChecksRefuse(p, code)
      BY <3>4 DEF ChecksRefuse, Goto, ErrorInv, TypeOK
    <3>5. CASE PostTransfer(p)
      BY <2>1, <3>5 DEF PostTransfer, Goto, ErrorInv, TypeOK
    <3>6. CASE PostRefused(p)
      BY <3>6 DEF PostRefused, Goto, ErrorInv, TypeOK
    <3>7. CASE CompleteGet(p)
      BY <2>1, <2>2, <3>7 DEF CompleteGet, Goto
    <3>8. CASE CompleteSet(p) \/ DeleteRecord(p) \/ FailSet(p)
      BY <2>2, <3>8 DEF CompleteSet, DeleteRecord, FailSet
    <3>9. CASE FailGet(p)
      <4>1. CASE rec[key[p]] = None
        BY <2>2, <3>9, <4>1 DEF FailGet
      <4>2. CASE rec[key[p]] # None
        BY <3>9, <4>2 DEF FailGet, Goto, ErrorInv, TypeOK
      <4> QED BY <4>1, <4>2
    <3>10. CASE Interrupted(p) \/ WriteUnconfirmed(p)
      BY <2>2, <3>10 DEF Interrupted, WriteUnconfirmed
    <3> QED BY <2>5, <3>1, <3>2, <3>3, <3>4, <3>5, <3>6, <3>7, <3>8, <3>9, <3>10 DEF Step
  <2>6. CASE (\E k \in Keys : Expire(k)) \/ UNCHANGED vars
    BY <2>6 DEF Expire, vars, ErrorInv
  <2> QED BY <2>3, <2>5, <2>6 DEF Next
<1> QED
  BY <1>1, <1>2, GuardTypeCorrect, PTL DEF Spec

\* A step inside a call changes neither the call nor what was told.
LEMMA CallGoesOn ==
    ASSUME TypeOK, NEW p \in Procs, pc[p] \in Working, NEW label \in Working,
           pc' = [pc EXCEPT ![p] = label], UNCHANGED <<key, body, got>>,
           \A q \in Procs : q # p => answer'[q] = answer[q]
    PROVE  UNCHANGED <<UnderWay, Told>>
<1>1. pc[p] # "done" /\ pc'[p] # "done" /\ \A q \in Procs : q # p => pc'[q] = pc[q]
  BY DEF TypeOK, Working, Running
<1>2. UnderWay' = UnderWay
  BY <1>1 DEF UnderWay
<1>3. Told' = Told
  BY <1>1 DEF Told
<1> QED BY <1>2, <1>3

\* A reply ends the call with what the handler is told.
LEMMA CallReturns ==
    ASSUME TypeOK, NEW p \in Procs, pc[p] \in Working, NEW c \in Codes, c # "none",
           NEW r, Reply(p, c, r), UNCHANGED <<saga, key, body>>
    PROVE  /\ UnderWay[p] = [key |-> key[p], body |-> body[p]]
           /\ UnderWay[p] # None
           /\ UnderWay' = [UnderWay EXCEPT ![p] = None]
           /\ Told' = [Told EXCEPT ![p] = [code |-> c, result |-> r]]
<1>1. pc[p] # "done" /\ key[p] \in Keys /\ body[p] \in Payloads
  BY DEF TypeOK, Working, Running
<1>2. pc'[p] = "done" /\ answer'[p] = c /\ got'[p] = r
  BY DEF TypeOK, Reply
<1>3. \A q \in Procs : q # p => pc'[q] = pc[q] /\ answer'[q] = answer[q] /\ got'[q] = got[q]
  BY DEF TypeOK, Reply
<1>4. UnderWay[p] = [key |-> key[p], body |-> body[p]]
  BY <1>1 DEF UnderWay
<1>5. UnderWay[p] # None
  BY <1>1, <1>4, GuardAssumption
<1>6. UnderWay' = [UnderWay EXCEPT ![p] = None]
  BY <1>2, <1>3 DEF UnderWay
<1>7. Told' = [Told EXCEPT ![p] = [code |-> c, result |-> r]]
  BY <1>2, <1>3 DEF Told
<1> QED BY <1>4, <1>5, <1>6, <1>7

\* A reply with an error is a failing call of the contract.
LEMMA ReplyFails ==
    ASSUME TypeOK, NEW p \in Procs, pc[p] \in Working, NEW c \in Codes, c \in Contract!Errors,
           Reply(p, c, None), UNCHANGED <<saga, key, body>>
    PROVE  Contract!Next
<1>1. c # "none"
  BY GuardAssumption DEF Contract!Errors
<1>2. /\ UnderWay[p] = [key |-> key[p], body |-> body[p]]
      /\ UnderWay[p] # None
      /\ UnderWay' = [UnderWay EXCEPT ![p] = None]
      /\ Told' = [Told EXCEPT ![p] = [code |-> c, result |-> None]]
  BY <1>1, CallReturns
<1>3. Contract!Return(p, c, None)
  BY <1>2 DEF Contract!Return
<1>4. Contract!Fail(p)
  BY <1>2, <1>3 DEF Contract!Fail
<1> QED BY <1>4 DEF Contract!Next, Contract!Work

\* A reply with the committed payload of the call is a success of the contract.
LEMMA ReplySucceeds ==
    ASSUME TypeOK, NEW p \in Procs, pc[p] \in Working, NEW c \in {"ok", "replay"},
           Reply(p, c, body[p]), saga[key[p]] = body[p], UNCHANGED <<saga, key, body>>
    PROVE  Contract!Next
<1>1. c \in Codes /\ c # "none"
  BY DEF Codes
<1>2. /\ UnderWay[p] = [key |-> key[p], body |-> body[p]]
      /\ UnderWay[p] # None
      /\ UnderWay' = [UnderWay EXCEPT ![p] = None]
      /\ Told' = [Told EXCEPT ![p] = [code |-> c, result |-> body[p]]]
  BY <1>1, CallReturns
<1>3. UnderWay[p].key = key[p] /\ UnderWay[p].body = body[p]
  BY <1>2
<1>4. Contract!Return(p, c, UnderWay[p].body)
  BY <1>2, <1>3 DEF Contract!Return
<1>5. Contract!Succeed(p)
  BY <1>2, <1>3, <1>4 DEF Contract!Succeed, Contract!Successes
<1> QED BY <1>5 DEF Contract!Next, Contract!Work

\* While records outlive their owners, every step of guard, store and saga is a
\* step of the contract or none at all: PostTransfer is Commit, an answer is
\* Succeed or Fail, and whatever Redis does in between is not seen.
THEOREM GuardImplementsContract ==
    ASSUME ~ExpiryUnderway
    PROVE  Spec => ImplementsContract
<1>1. Init => Contract!Init
  BY DEF Init, Contract!Init, UnderWay, Told
<1>2. TypeOK /\ OwnerInv /\ ResultInv /\ ErrorInv /\ [Next]_vars => [Contract!Next]_(Contract!service)
  <2> SUFFICES ASSUME TypeOK, OwnerInv, ResultInv, ErrorInv, [Next]_vars
               PROVE  Contract!Next \/ UNCHANGED <<saga, UnderWay, Told>>
    BY DEF Contract!service
  <2> DEFINE Implemented == Contract!Next \/ UNCHANGED <<saga, UnderWay, Told>>
  <2>1. ASSUME NEW p \in Procs, NEW k \in Keys, NEW b \in Payloads, Execute(p, k, b)
        PROVE  Implemented
    <3>1. pc[p] = "done" /\ pc'[p] = "get" /\ key'[p] = k /\ body'[p] = b
      BY <2>1 DEF Execute, Goto, TypeOK
    <3>2. \A q \in Procs : q # p => /\ pc'[q] = pc[q] /\ key'[q] = key[q] /\ body'[q] = body[q]
                                    /\ answer'[q] = answer[q] /\ got'[q] = got[q]
      BY <2>1 DEF Execute, Goto, TypeOK
    <3>3. UnderWay[p] = None /\ UnderWay' = [UnderWay EXCEPT ![p] = [key |-> k, body |-> b]]
      BY <3>1, <3>2 DEF UnderWay
    <3>4. Told' = [Told EXCEPT ![p] = None]
      BY <3>1, <3>2 DEF Told
    <3>5. saga' = saga
      BY <2>1 DEF Execute, db
    <3> QED BY <3>3, <3>4, <3>5 DEF Contract!Next, Contract!Execute
  <2>2. ASSUME NEW p \in Procs, Step(p) \/ Interrupted(p) \/ WriteUnconfirmed(p)
        PROVE  Implemented
    <3>1. pc[p] \in Working /\ key[p] \in Keys /\ body[p] \in Payloads
      <4>1. pc[p] \in Working
        BY <2>2 DEF Step, Interrupted, WriteUnconfirmed, GetRecord, TryAcquire, WaitForExisting,
           ChecksPass, ChecksRefuse, PostTransfer, PostRefused, CompleteGet, CompleteSet,
           DeleteRecord, FailGet, FailSet, Working, Running
      <4> QED BY <4>1 DEF TypeOK
    <3>2. \A c \in Codes : c \in Contract!Errors <=> c \notin {"none", "ok", "replay"}
      BY GuardAssumption DEF Codes, Contract!Errors
    <3>3. ASSUME rec[key[p]] # None, AnswerFrom(p, rec[key[p]]), UNCHANGED <<saga, key, body>>
          PROVE  Implemented
      <4> DEFINE r == rec[key[p]]
      <4>1. r \in Record
        BY <3>1, <3>3 DEF TypeOK
      <4>2. CASE r.fingerprint = body[p] /\ r.status = "COMPLETED"
        <5>1. r.result = body[p] /\ saga[key[p]] = body[p]
          BY <3>1, <3>3, <4>2 DEF ResultInv
        <5>2. Reply(p, "replay", body[p])
          BY <3>3, <4>2, <5>1 DEF AnswerFrom
        <5> QED BY <3>1, <3>3, <5>1, <5>2, ReplySucceeds
      <4>3. CASE ~(r.fingerprint = body[p] /\ r.status = "COMPLETED")
        <5>1. \E c \in {"PAYLOAD_MISMATCH", "REQUEST_IN_PROGRESS", "FAILED_KEY"} : Reply(p, c, None)
          BY <3>3, <4>1, <4>3 DEF AnswerFrom, Record
        <5>2. {"PAYLOAD_MISMATCH", "REQUEST_IN_PROGRESS", "FAILED_KEY"} \subseteq Codes \intersect Contract!Errors
          BY DEF Codes, Contract!Errors
        <5> QED BY <3>1, <3>3, <5>1, <5>2, ReplyFails
      <4> QED BY <4>2, <4>3
    <3>4. "error" \in Codes /\ "error" \in Contract!Errors /\ "NOT_FOUND" \in Codes /\ "NOT_FOUND" \in Contract!Errors
      BY DEF Codes, Contract!Errors
    <3>5. pc[p] \in {"failing", "failSet"} => answer[p] \in Codes /\ answer[p] \in Contract!Errors
      BY GuardAssumption DEF ErrorInv, Codes, Contract!Errors
    <3>6. CASE GetRecord(p)
      BY <3>1, <3>3, <3>6, CallGoesOn DEF GetRecord, Goto, db, req, Working
    <3>7. CASE TryAcquire(p)
      BY <3>1, <3>7, CallGoesOn DEF TryAcquire, Goto, db, req, Working, Running
    <3>8. CASE WaitForExisting(p)
      BY <3>1, <3>3, <3>4, <3>8, ReplyFails DEF WaitForExisting, db, req
    <3>9. CASE ChecksPass(p)
      BY <3>1, <3>9, CallGoesOn DEF ChecksPass, Goto, db, req, Working, Running
    <3>10. CASE (\E code \in Refusals : ChecksRefuse(p, code)) \/ PostRefused(p)
      <4>1. /\ pc' = [pc EXCEPT ![p] = "failing"] /\ "failing" \in Working
            /\ UNCHANGED <<saga, key, body, got>>
            /\ \A q \in Procs : q # p => answer'[q] = answer[q]
        BY <3>10 DEF ChecksRefuse, PostRefused, Goto, db, req, TypeOK, Working, Running
      <4> QED BY <3>1, <4>1, CallGoesOn
    <3>11. CASE PostTransfer(p)
      <4>1. \E label \in Working : pc' = [pc EXCEPT ![p] = label]
        BY <3>11 DEF PostTransfer, Goto, Working, Running
      <4>2. UNCHANGED <<key, body, got>> /\ \A q \in Procs : q # p => answer'[q] = answer[q]
        BY <3>11 DEF PostTransfer, req, TypeOK
      <4>3. UNCHANGED <<UnderWay, Told>>
        BY <3>1, <4>1, <4>2, CallGoesOn
      <4>4. UnderWay[p] # None /\ UnderWay[p].key = key[p] /\ UnderWay[p].body = body[p]
        <5>1. UnderWay[p] = [key |-> key[p], body |-> body[p]]
          BY <3>1 DEF UnderWay, Working, Running
        <5> QED BY <3>1, <5>1, GuardAssumption
      <4>5. Contract!Commit(p)
        BY <3>11, <4>3, <4>4 DEF PostTransfer, Contract!Commit
      <4> QED BY <4>5 DEF Contract!Next, Contract!Work
    <3>12. CASE CompleteGet(p)
      BY <3>1, <3>4, <3>12, CallGoesOn, ReplyFails DEF CompleteGet, Goto, db, req, Working, Running
    <3>13. CASE CompleteSet(p)
      <4>1. saga[key[p]] = body[p]
        BY <3>13 DEF CompleteSet, ResultInv
      <4> QED BY <3>1, <3>13, <4>1, ReplySucceeds DEF CompleteSet, db, req
    <3>14. CASE DeleteRecord(p) \/ FailSet(p)
      BY <3>1, <3>5, <3>14, ReplyFails DEF DeleteRecord, FailSet, db, req
    <3>15. CASE FailGet(p)
      BY <3>1, <3>5, <3>15, CallGoesOn, ReplyFails DEF FailGet, Goto, db, req, Working, Running
    <3>16. CASE Interrupted(p)
      BY <3>1, <3>4, <3>5, <3>16, ReplyFails DEF Interrupted, db, req
    <3>17. CASE WriteUnconfirmed(p)
      BY <3>1, <3>4, <3>17, ReplyFails DEF WriteUnconfirmed, db, req
    <3> QED BY <2>2, <3>6, <3>7, <3>8, <3>9, <3>10, <3>11, <3>12, <3>13, <3>14, <3>15,
               <3>16, <3>17 DEF Step
  <2>3. CASE (\E k \in Keys : Expire(k)) \/ UNCHANGED vars
    BY <2>3 DEF Expire, vars, db, req, UnderWay, Told
  <2> QED BY <2>1, <2>2, <2>3 DEF Next
<1> QED
  BY <1>1, <1>2, GuardTypeCorrect, OwnerInvariant, ResultInvariant, ErrorInvariant, PTL
  DEF Spec, ImplementsContract, Contract!Spec
=============================================================================
