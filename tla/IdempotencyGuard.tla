-------------------------- MODULE IdempotencyGuard --------------------------
(***************************************************************************)
(* Transfer requests behind the idempotency guard: Service.Execute and     *)
(* runSaga (internal/transfer/app), Guard.Run (internal/idempotency/app)   *)
(* and the Redis store.  Every Redis command is a step of its own: the     *)
(* store's Complete and Fail read the record and write it back in two      *)
(* commands.  The database side is Coordinator.PostTransfer, atomic by the *)
(* ledger contract, with the unique idempotency_key of transfer_sagas.     *)
(***************************************************************************)
EXTENDS Integers

CONSTANTS
    Procs,             \* request handlers of the api processes
    Keys,              \* idempotency keys
    Payloads,          \* request bodies; the fingerprint is an injective hash
    Refusals,          \* error codes the saga's checks may end with
    None,
    MaxRequests,       \* bound: requests that arrive in a behaviour
    ExpiryUnderway     \* may a record's TTL run out while its owner still runs?

Record == [status : {"PROCESSING", "COMPLETED", "FAILED"},
           fingerprint : Payloads, result : Payloads \union {None}]

ASSUME GuardAssumption ==
    /\ None \notin Payloads \union Record \union [key : Keys, body : Payloads]
    /\ MaxRequests \in Nat
    /\ ExpiryUnderway \in BOOLEAN
    /\ Refusals \subseteq {"VALIDATION", "INVALID_MONEY", "INVALID_IBAN", "FORBIDDEN",
                           "NOT_FOUND", "INSUFFICIENT_FUNDS"}

VARIABLES
    rec,       \* rec[k] : the Redis record of key k, or None
    saga,      \* saga[k] : the payload committed under key k, or None
    commits,   \* commits[k] : transfers committed under key k
    pc,        \* pc[p] : the step handler p is at
    key, body, \* its request
    seen,      \* seen[p] : the record Complete or Fail has read
    answer,    \* answer[p] : what its client is told (or the error being handled)
    got,       \* got[p] : the transfer result in that answer
    acked,     \* acked[k] : payloads some client was told succeeded under k
    arrived    \* requests so far

redis == rec
db == <<saga, commits>>
req == <<key, body>>
vars == <<rec, saga, commits, pc, key, body, seen, answer, got, acked, arrived>>

\* The steps between a won TryAcquire and the end of Run: fn and its bookkeeping.
Running == {"saga", "posting", "completing", "completeSet", "failing", "failSet"}
Working == {"get", "acquire", "wait"} \union Running
Codes == {"none", "ok", "replay", "error", "PAYLOAD_MISMATCH", "REQUEST_IN_PROGRESS",
          "FAILED_KEY", "NOT_FOUND"} \union Refusals

\* What the ledger refuses a posting with (Ledger).
LedgerRefusals == {"VALIDATION", "INSUFFICIENT_FUNDS", "INVALID_MONEY"}

\* isSafeToRetry: the errors after which the client may use the key again.
IsSafeToRetry(code) ==
    code \in {"VALIDATION", "INVALID_MONEY", "INVALID_IBAN", "FORBIDDEN"}

Reply(p, code, result) ==
    /\ pc' = [pc EXCEPT ![p] = "done"]
    /\ answer' = [answer EXCEPT ![p] = code]
    /\ got' = [got EXCEPT ![p] = result]
    /\ acked' = IF code \in {"ok", "replay"}
                THEN [acked EXCEPT ![key[p]] = @ \union {body[p]}] ELSE acked

Goto(p, label) == pc' = [pc EXCEPT ![p] = label]

\* Mutant of AnswerFrom: the fingerprints are not compared.
AnswerFromAny(p, r) ==
    CASE r.status = "COMPLETED" -> Reply(p, "replay", r.result)
      [] r.status = "PROCESSING" -> Reply(p, "REQUEST_IN_PROGRESS", None)
      [] r.status = "FAILED" -> Reply(p, "FAILED_KEY", None)

\* validateFingerprint, then the switch on the record's status: the answer
\* both Run and waitForExisting give when a record is there.
AnswerFrom(p, r) ==
    CASE r.fingerprint # body[p] -> Reply(p, "PAYLOAD_MISMATCH", None)
      [] r.fingerprint = body[p] /\ r.status = "COMPLETED" -> Reply(p, "replay", r.result)
      [] r.fingerprint = body[p] /\ r.status = "PROCESSING" -> Reply(p, "REQUEST_IN_PROGRESS", None)
      [] r.fingerprint = body[p] /\ r.status = "FAILED" -> Reply(p, "FAILED_KEY", None)

-----------------------------------------------------------------------------

Init ==
    /\ rec = [k \in Keys |-> None]
    /\ saga = [k \in Keys |-> None]
    /\ commits = [k \in Keys |-> 0]
    /\ pc = [p \in Procs |-> "done"]
    /\ key = [p \in Procs |-> None]
    /\ body = [p \in Procs |-> None]
    /\ seen = [p \in Procs |-> None]
    /\ answer = [p \in Procs |-> "none"]
    /\ got = [p \in Procs |-> None]
    /\ acked = [k \in Keys |-> {}]
    /\ arrived = 0

\* Execute with a valid command: a new request, or a client's retry.
Execute(p, k, b) ==
    /\ pc[p] = "done"
    /\ arrived < MaxRequests
    /\ arrived' = arrived + 1
    /\ key' = [key EXCEPT ![p] = k]
    /\ body' = [body EXCEPT ![p] = b]
    /\ seen' = [seen EXCEPT ![p] = None]
    /\ answer' = [answer EXCEPT ![p] = "none"]
    /\ got' = [got EXCEPT ![p] = None]
    /\ Goto(p, "get")
    /\ UNCHANGED <<redis, db, acked>>

GetRecord(p) ==
    /\ pc[p] = "get"
    /\ IF rec[key[p]] = None
       THEN Goto(p, "acquire") /\ UNCHANGED <<answer, got, acked>>
       ELSE AnswerFrom(p, rec[key[p]])
    /\ UNCHANGED <<redis, db, req, seen, arrived>>

\* Mutant of TryAcquire: SET without NX.
AcquireAlways(p) ==
    /\ pc[p] = "acquire"
    /\ rec' = [rec EXCEPT ![key[p]] = [status |-> "PROCESSING",
                                       fingerprint |-> body[p], result |-> None]]
    /\ Goto(p, "saga")
    /\ UNCHANGED <<db, req, seen, answer, got, acked, arrived>>

\* SET NX.
TryAcquire(p) ==
    /\ pc[p] = "acquire"
    /\ IF rec[key[p]] = None
       THEN /\ rec' = [rec EXCEPT ![key[p]] = [status |-> "PROCESSING",
                                               fingerprint |-> body[p], result |-> None]]
            /\ Goto(p, "saga")
       ELSE /\ Goto(p, "wait")
            /\ UNCHANGED rec
    /\ UNCHANGED <<db, req, seen, answer, got, acked, arrived>>

WaitForExisting(p) ==
    /\ pc[p] = "wait"
    /\ IF rec[key[p]] = None THEN Reply(p, "NOT_FOUND", None)
                             ELSE AnswerFrom(p, rec[key[p]])
    /\ UNCHANGED <<redis, db, req, seen, arrived>>

\* runSaga up to PostTransfer: fraud, compliance, the two accounts, the journal.
\* Any of them may refuse the transfer before anything is written.
ChecksPass(p) ==
    /\ pc[p] = "saga"
    /\ Goto(p, "posting")
    /\ UNCHANGED <<redis, db, req, seen, answer, got, acked, arrived>>

ChecksRefuse(p, code) ==
    /\ pc[p] = "saga"
    /\ answer' = [answer EXCEPT ![p] = code]
    /\ Goto(p, "failing")
    /\ UNCHANGED <<redis, db, req, seen, got, acked, arrived>>

\* Mutant of PostTransfer: idempotency_key is not unique in transfer_sagas.
PostTransferAgain(p) ==
    /\ pc[p] = "posting"
    /\ saga' = [saga EXCEPT ![key[p]] = body[p]]
    /\ commits' = [commits EXCEPT ![key[p]] = @ + 1]
    /\ Goto(p, "completing")
    /\ UNCHANGED <<redis, req, seen, answer, got, acked, arrived>>

\* PostTransfer.  The saga row is inserted first: a key that was posted before
\* fails there with an error that is not a domain error.  A commit may also
\* take effect while the caller sees an error.
PostTransfer(p) ==
    /\ pc[p] = "posting"
    /\ saga[key[p]] = None
    /\ saga' = [saga EXCEPT ![key[p]] = body[p]]
    /\ commits' = [commits EXCEPT ![key[p]] = @ + 1]
    /\ \/ Goto(p, "completing") /\ UNCHANGED answer
       \/ Goto(p, "failing") /\ answer' = [answer EXCEPT ![p] = "error"]
    /\ UNCHANGED <<redis, req, seen, got, acked, arrived>>

\* Mutant of PostRefused: the error of PostTransfer is dropped.
PostRefusedIgnored(p) ==
    /\ pc[p] = "posting"
    /\ Goto(p, "completing")
    /\ UNCHANGED <<redis, db, req, seen, answer, got, acked, arrived>>

PostRefused(p) ==
    /\ pc[p] = "posting"
    /\ \E code \in {"error"} \union (Refusals \intersect LedgerRefusals) :
          /\ code # "error" => saga[key[p]] = None
          /\ answer' = [answer EXCEPT ![p] = code]
    /\ Goto(p, "failing")
    /\ UNCHANGED <<redis, db, req, seen, got, acked, arrived>>

\* Store.Complete: read the record, then write it back COMPLETED.  A record
\* that is gone is NOT_FOUND, which Run returns to the client.
CompleteGet(p) ==
    /\ pc[p] = "completing"
    /\ IF rec[key[p]] = None
       THEN Reply(p, "NOT_FOUND", None) /\ UNCHANGED seen
       ELSE /\ seen' = [seen EXCEPT ![p] = rec[key[p]]]
            /\ Goto(p, "completeSet")
            /\ UNCHANGED <<answer, got, acked>>
    /\ UNCHANGED <<redis, db, req, arrived>>

CompleteSet(p) ==
    /\ pc[p] = "completeSet"
    /\ rec' = [rec EXCEPT ![key[p]] = [seen[p] EXCEPT !.status = "COMPLETED",
                                                      !.result = body[p]]]
    /\ Reply(p, "ok", body[p])
    /\ UNCHANGED <<db, req, seen, arrived>>

\* handleFailure: Delete after an error that is safe to retry, else Fail, which
\* again reads and then writes.  Errors of either are ignored.
DeleteRecord(p) ==
    /\ pc[p] = "failing"
    /\ IsSafeToRetry(answer[p])
    /\ rec' = [rec EXCEPT ![key[p]] = None]
    /\ Reply(p, answer[p], None)
    /\ UNCHANGED <<db, req, seen, arrived>>

FailGet(p) ==
    /\ pc[p] = "failing"
    /\ ~IsSafeToRetry(answer[p])
    /\ IF rec[key[p]] = None
       THEN Reply(p, answer[p], None) /\ UNCHANGED seen
       ELSE /\ seen' = [seen EXCEPT ![p] = rec[key[p]]]
            /\ Goto(p, "failSet")
            /\ UNCHANGED <<answer, got, acked>>
    /\ UNCHANGED <<redis, db, req, arrived>>

FailSet(p) ==
    /\ pc[p] = "failSet"
    /\ rec' = [rec EXCEPT ![key[p]] = [seen[p] EXCEPT !.status = "FAILED"]]
    /\ Reply(p, answer[p], None)
    /\ UNCHANGED <<db, req, seen, arrived>>

\* Redis does not answer, the client disconnects (its context is cancelled, so
\* every later command of the request fails too) or the process dies.  An
\* error that was being handled is still the one returned.
Interrupted(p) ==
    /\ pc[p] \in Working
    /\ Reply(p, IF pc[p] \in {"failing", "failSet"} THEN answer[p] ELSE "error", None)
    /\ UNCHANGED <<redis, db, req, seen, arrived>>

\* A Redis write that was applied although its caller got an error.
WriteUnconfirmed(p) ==
    /\ \/ /\ pc[p] = "acquire"
          /\ rec[key[p]] = None
          /\ rec' = [rec EXCEPT ![key[p]] = [status |-> "PROCESSING",
                                             fingerprint |-> body[p], result |-> None]]
       \/ /\ pc[p] = "completeSet"
          /\ rec' = [rec EXCEPT ![key[p]] = [seen[p] EXCEPT !.status = "COMPLETED",
                                                            !.result = body[p]]]
    /\ Reply(p, "error", None)
    /\ UNCHANGED <<db, req, seen, arrived>>

\* Mutant of Expire: PROCESSING records are written without a TTL.
ExpireAnswered(k) ==
    /\ rec[k] # None
    /\ rec[k].status # "PROCESSING"
    /\ rec' = [rec EXCEPT ![k] = None]
    /\ UNCHANGED <<db, pc, req, seen, answer, got, acked, arrived>>

\* processingTTL (15 minutes) or completedTTL (24 hours) runs out.
Expire(k) ==
    /\ rec[k] # None
    /\ ExpiryUnderway \/ \A p \in Procs : key[p] = k => pc[p] \notin Running
    /\ rec' = [rec EXCEPT ![k] = None]
    /\ UNCHANGED <<db, pc, req, seen, answer, got, acked, arrived>>

Step(p) ==
    \/ GetRecord(p) \/ TryAcquire(p) \/ WaitForExisting(p)
    \/ ChecksPass(p) \/ (\E code \in Refusals : ChecksRefuse(p, code))
    \/ PostTransfer(p) \/ PostRefused(p)
    \/ CompleteGet(p) \/ CompleteSet(p)
    \/ DeleteRecord(p) \/ FailGet(p) \/ FailSet(p)

Next ==
    \/ \E p \in Procs, k \in Keys, b \in Payloads : Execute(p, k, b)
    \/ \E p \in Procs : Step(p) \/ Interrupted(p) \/ WriteUnconfirmed(p)
    \/ \E k \in Keys : Expire(k)

Spec == Init /\ [][Next]_vars

\* Handlers keep running until they answer, and Redis removes expired keys.
FairSpec ==
    /\ Spec
    /\ \A p \in Procs : WF_vars(Step(p))
    /\ \A k \in Keys : WF_vars(Expire(k))

-----------------------------------------------------------------------------

\* Every variable has its type, and a handler at work has a request.
TypeOK ==
    /\ rec \in [Keys -> Record \union {None}]
    /\ saga \in [Keys -> Payloads \union {None}]
    /\ commits \in [Keys -> Nat]
    /\ pc \in [Procs -> Working \union {"done"}]
    /\ key \in [Procs -> Keys \union {None}]
    /\ body \in [Procs -> Payloads \union {None}]
    /\ seen \in [Procs -> Record \union {None}]
    /\ answer \in [Procs -> Codes]
    /\ got \in [Procs -> Payloads \union {None}]
    /\ acked \in [Keys -> SUBSET Payloads]
    /\ arrived \in Nat
    /\ \A p \in Procs : pc[p] \in Working => key[p] \in Keys /\ body[p] \in Payloads
    /\ \A p \in Procs : pc[p] \in {"completeSet", "failSet"} => seen[p] \in Record

\* "Replays return the original result without double-posting": whatever Redis
\* loses, expires or applies late, a key moves money at most once.
PostedOnce == \A k \in Keys : commits[k] <= 1

\* A COMPLETED record is never written for a transfer that was not committed.
CompletedMeansPosted ==
    \A k \in Keys : rec[k] # None /\ rec[k].status = "COMPLETED" => saga[k] # None

\* "Run executes fn at most once per (scope, key)" (guard.go): as long as
\* records outlive their owners, two handlers never run fn for one key at once.
SingleOwner ==
    \A p, q \in Procs : pc[p] \in Running /\ pc[q] \in Running /\ key[p] = key[q] => p = q

\* A client told that its transfer succeeded, first time or by replay, was told
\* the truth about its own payload: that very transfer is the committed one.
OwnResult ==
    \A p \in Procs : pc[p] = "done" /\ answer[p] \in {"ok", "replay"} =>
        got[p] = body[p] /\ acked[key[p]] = {body[p]} /\ saga[key[p]] = body[p]

\* A verdict stands: a COMPLETED or FAILED record is never overwritten, also by
\* the write-back of a Complete or Fail that read the key earlier; it stays as it
\* is until it expires, and so does what its key answers.
VerdictStable ==
    [][\A k \in Keys : rec[k] # None /\ rec[k].status # "PROCESSING" =>
          rec'[k] \in {rec[k], None}]_vars

\* The record of a request that ended never blocks its key for ever: a
\* PROCESSING record is resolved by its owner or removed by its TTL.
KeyFreed ==
    \A k \in Keys :
        (rec[k] # None /\ rec[k].status = "PROCESSING") ~>
        ~(rec[k] # None /\ rec[k].status = "PROCESSING")

\* "idempotency key already used for a failed operation; use a new key"
\* (guard.go): a key is marked FAILED only if its transfer moved no money.
FailedMovedNothing ==
    \A k \in Keys : rec[k] # None /\ rec[k].status = "FAILED" => saga[k] = None

\* The refinement mapping: the call a handler has under way and the reply it
\* got are read off its program counter.
UnderWay == [p \in Procs |-> IF pc[p] = "done" THEN None ELSE [key |-> key[p], body |-> body[p]]]

Told == [p \in Procs |-> IF pc[p] # "done" \/ answer[p] = "none" THEN None
                         ELSE [code |-> answer[p], result |-> got[p]]]

Contract == INSTANCE TransferContract WITH posted <- saga, request <- UnderWay, reply <- Told

\* Guard, store and saga together look to the HTTP handler like one step per
\* key that moves money (TransferContract).
ImplementsContract == Contract!Spec
=============================================================================
