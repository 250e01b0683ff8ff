-------------------------- MODULE TransferContract --------------------------
(***************************************************************************)
(* What Service.Execute promises the HTTP handler (internal/transfer/app): *)
(* a call may move the money of its payload once per key, in one step, and *)
(* it returns that transfer, or an error that says nothing about it.       *)
(* IdempotencyGuard shows that the guard around the saga implements this   *)
(* as long as records outlive the handlers that own them.                  *)
(***************************************************************************)
CONSTANTS Procs, Keys, Payloads, Refusals, None

VARIABLES
    posted,    \* posted[k] : the payload committed under key k, or None
    request,   \* request[p] : the call handler p has under way, or None
    reply      \* reply[p] : what it returned, or None

service == <<posted, request, reply>>

Successes == {"ok", "replay"}
Errors == {"error", "PAYLOAD_MISMATCH", "REQUEST_IN_PROGRESS", "FAILED_KEY", "NOT_FOUND"} \union Refusals
Request == [key : Keys, body : Payloads]
Reply == [code : Successes \union Errors, result : Payloads \union {None}]

Init ==
    /\ posted = [k \in Keys |-> None]
    /\ request = [p \in Procs |-> None]
    /\ reply = [p \in Procs |-> None]

Execute(p, k, b) ==
    /\ request[p] = None
    /\ request' = [request EXCEPT ![p] = [key |-> k, body |-> b]]
    /\ reply' = [reply EXCEPT ![p] = None]
    /\ UNCHANGED posted

\* Mutant of Commit: the key is not looked at.
CommitAgain(p) ==
    /\ request[p] # None
    /\ posted' = [posted EXCEPT ![request[p].key] = request[p].body]
    /\ UNCHANGED <<request, reply>>

\* PostTransfer commits the transfer; the call goes on.
Commit(p) ==
    /\ request[p] # None
    /\ posted[request[p].key] = None
    /\ posted' = [posted EXCEPT ![request[p].key] = request[p].body]
    /\ UNCHANGED <<request, reply>>

Return(p, code, result) ==
    /\ request' = [request EXCEPT ![p] = None]
    /\ reply' = [reply EXCEPT ![p] = [code |-> code, result |-> result]]
    /\ UNCHANGED posted

\* The first result or a replay of it.
Succeed(p) ==
    /\ request[p] # None
    /\ posted[request[p].key] = request[p].body
    /\ \E code \in Successes : Return(p, code, request[p].body)

\* An error, after the commit too.
Fail(p) ==
    /\ request[p] # None
    /\ \E code \in Errors : Return(p, code, None)

\* The handler has read the reply.
Collect(p) ==
    /\ reply[p] # None
    /\ reply' = [reply EXCEPT ![p] = None]
    /\ UNCHANGED <<posted, request>>

Work(p) == Commit(p) \/ Succeed(p) \/ Fail(p)

Next ==
    \E p \in Procs :
        \/ \E k \in Keys, b \in Payloads : Execute(p, k, b)
        \/ Work(p) \/ Collect(p)

Spec == Init /\ [][Next]_service
=============================================================================
