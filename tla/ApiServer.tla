----------------------------- MODULE ApiServer -----------------------------
(***************************************************************************)
(* The HTTP side of the api process: the middleware chain of NewServer,    *)
(* the handlers of POST /v1/transfers and POST /v1/accounts, the mapping   *)
(* of errors to status codes and the audit middleware.  The transfer       *)
(* handler calls Service.Execute, which keeps TransferContract.  The GET   *)
(* routes change nothing.                                                  *)
(***************************************************************************)
EXTENDS Integers

CONSTANTS
    Procs,             \* connections a request can be served on
    Keys, Payloads, Refusals, None,   \* of TransferContract
    AccountIds         \* ids an account may be created with

\* ErrorCode: the codes a domain error may carry.
DomainCodes ==
    {"INVALID_MONEY", "INVALID_IBAN", "INSUFFICIENT_FUNDS", "NOT_FOUND", "CONFLICT",
     "REQUEST_IN_PROGRESS", "FORBIDDEN", "VALIDATION"}

ASSUME ApiAssumption == Refusals \subseteq DomainCodes

VARIABLES
    posted, request, reply,           \* of TransferContract
    conn,       \* conn[p] : the request served on connection p
    accounts,   \* rows of ledger_accounts created over HTTP
    auditLog    \* resource ids that have a row in audit_log

service == <<posted, request, reply>>
ledgers == <<accounts, auditLog>>
apiVars == <<service, conn, ledgers>>

Service == INSTANCE TransferContract

Resources == Keys \union AccountIds
Statuses == {201, 400, 403, 404, 409, 422, 500}
Conn == [stage : {"free", "transfer", "account", "audit", "flush"},
         status : Statuses \union {None},      \* the answer that is written
         resource : Resources \union {None},   \* the id in its body
         result : Payloads \union {None},      \* the transfer in its body
         auditError : BOOLEAN]                 \* its audit row could not be inserted
Free == [stage |-> "free", status |-> None, resource |-> None, result |-> None,
         auditError |-> FALSE]

\* statusForError.  What is not a domain error is internal; both refusals of
\* the guard, a FAILED key and another payload, carry CONFLICT.
StatusForError(code) ==
    CASE code \in {"VALIDATION", "INVALID_MONEY", "INVALID_IBAN"} -> 400
      [] code = "INSUFFICIENT_FUNDS" -> 422
      [] code \in {"CONFLICT", "PAYLOAD_MISMATCH", "FAILED_KEY", "REQUEST_IN_PROGRESS"} -> 409
      [] code = "FORBIDDEN" -> 403
      [] code = "NOT_FOUND" -> 404
      [] code = "error" -> 500

\* Mutant of Written: every answer is audited, also the errors.
WrittenAlwaysAudited(p, status, resource, result) ==
    conn' = [conn EXCEPT ![p].status = status, ![p].resource = resource,
                         ![p].result = result, ![p].stage = "audit"]

\* Mutant of Written: the answer is sent before the audit row is written.
WrittenUnaudited(p, status, resource, result) ==
    conn' = [conn EXCEPT ![p].status = status, ![p].resource = resource,
                         ![p].result = result, ![p].stage = "flush"]

\* A handler has written its answer into the response buffer.  Middleware
\* Audit looks at the status before the server sends the buffer.
Written(p, status, resource, result) ==
    conn' = [conn EXCEPT ![p].status = status, ![p].resource = resource,
                         ![p].result = result,
                         ![p].stage = IF status >= 400 THEN "flush" ELSE "audit"]

-----------------------------------------------------------------------------

ApiInit ==
    /\ Service!Init
    /\ conn = [p \in Procs |-> Free]
    /\ accounts = {}
    /\ auditLog = {}

\* What a request may be refused with before it has an effect: by the check of
\* its API key, or for its body by the decoder, by ParseSAR or by Validate.
\* Payloads are the bodies that pass.
KeyErrors == {"FORBIDDEN"}
BodyErrors == {"VALIDATION", "INVALID_MONEY", "INVALID_IBAN"}

Refused(p) ==
    /\ conn[p].stage = "free"
    /\ \E code \in KeyErrors \union BodyErrors :
          conn' = [conn EXCEPT ![p] = [Free EXCEPT !.stage = "flush",
                                                   !.status = StatusForError(code)]]
    /\ UNCHANGED <<service, ledgers>>

\* POST /v1/transfers with idempotency key k and body b.
PostTransfers(p, k, b) ==
    /\ conn[p].stage = "free"
    /\ Service!Execute(p, k, b)
    /\ conn' = [conn EXCEPT ![p] = [Free EXCEPT !.stage = "transfer", !.resource = k]]
    /\ UNCHANGED ledgers

\* POST /v1/accounts by some client of the API.
PostAccounts(p, id) ==
    /\ conn[p].stage = "free"
    /\ conn' = [conn EXCEPT ![p] = [Free EXCEPT !.stage = "account", !.resource = id]]
    /\ UNCHANGED <<service, ledgers>>

\* A step of Execute.  A client that disconnects, a store error and the end
\* of the process make it fail, before or after the money has moved.
TransferStep(p) == Service!Work(p) /\ UNCHANGED <<conn, ledgers>>

\* Execute has returned.  The transaction id in the body is derived from the key.
TransferDone(p) ==
    /\ conn[p].stage = "transfer"
    /\ Service!Collect(p)
    /\ IF reply[p].code \in Service!Successes
       THEN Written(p, 201, conn[p].resource, reply[p].result)
       ELSE Written(p, StatusForError(reply[p].code), None, None)
    /\ UNCHANGED ledgers

\* AccountHandler.Create at its insert: the id is new, or a unique violation;
\* or the database fails, possibly after the row was written.
CreateAccount(p) ==
    /\ conn[p].stage = "account"
    /\ \/ /\ conn[p].resource \notin accounts
          /\ accounts' = accounts \union {conn[p].resource}
          /\ Written(p, 201, conn[p].resource, None)
       \/ /\ conn[p].resource \in accounts
          /\ Written(p, StatusForError("CONFLICT"), None, None)
          /\ UNCHANGED accounts
       \/ /\ accounts' \in {accounts, accounts \union {conn[p].resource}}
          /\ Written(p, StatusForError("error"), None, None)
    /\ UNCHANGED <<service, auditLog>>

\* audit.Logger.Log: one row for every successful request, replays included.
AuditWritten(p) ==
    /\ conn[p].stage = "audit"
    /\ conn' = [conn EXCEPT ![p].stage = "flush"]
    /\ auditLog' = auditLog \union {conn[p].resource}
    /\ UNCHANGED <<service, accounts>>

\* The insert runs in the request's context: a client that is gone makes it
\* fail as a database error does.  The failure is logged and nothing else.
AuditFails(p) ==
    /\ conn[p].stage = "audit"
    /\ conn' = [conn EXCEPT ![p].stage = "flush", ![p].auditError = TRUE]
    /\ UNCHANGED <<service, ledgers>>

\* The handlers have returned; net/http sends the buffered answer, if anybody
\* still listens.
Flush(p) ==
    /\ conn[p].stage = "flush"
    /\ conn' = [conn EXCEPT ![p] = Free]
    /\ UNCHANGED <<service, ledgers>>

\* What goes on in the server without a word from a client.
Serve(p) ==
    TransferStep(p) \/ TransferDone(p) \/ CreateAccount(p) \/ AuditWritten(p) \/ AuditFails(p)

-----------------------------------------------------------------------------

ApiTypeOK ==
    /\ posted \in [Keys -> Payloads \union {None}]
    /\ request \in [Procs -> Service!Request \union {None}]
    /\ conn \in [Procs -> Conn]
    /\ accounts \subseteq AccountIds
    /\ auditLog \subseteq Resources \union {None}
    /\ \A p \in Procs : conn[p].stage = "transfer" <=> (request[p] # None \/ reply[p] # None)

\* The audit log never speaks of what did not happen: every row names a
\* transfer that is committed or an account that exists (audit.go).
AuditTruthful ==
    \A r \in auditLog : r \in accounts \/ (r \in Keys /\ posted[r] # None)
=============================================================================
