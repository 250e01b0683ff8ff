-------------------------- MODULE TransferConsole --------------------------
(***************************************************************************)
(* The transfer page of the web console (web/src/app/transfer/page.tsx)    *)
(* on top of the api: a form, its review, the submission, and the          *)
(* idempotency key that is drawn once per form.  The user may go back and  *)
(* edit while an answer is awaited, retry after an error, reload the page  *)
(* or start a new transfer; other clients create accounts meanwhile.       *)
(***************************************************************************)
EXTENDS ApiServer, FiniteSets

CONSTANTS
    DefaultForm,    \* what the form holds when the page opens
    MaxForms        \* bound: forms the user begins

ASSUME ConsoleAssumption ==
    /\ MaxForms \in Nat \ {0}
    /\ Keys = 1..MaxForms    \* the keys the console draws, in order
    /\ DefaultForm \in Payloads
    /\ AccountIds \intersect Keys = {}
    /\ None \notin Resources \union Statuses \union Procs \union Payloads
    /\ None \notin Service!Request \union Service!Reply

VARIABLES
    step,            \* "details", "review" or "result"
    form,            \* what the form holds
    idempotencyKey,  \* the key of the form
    call,            \* the connection onSubmit awaits an answer on, or None
    sent,            \* the form behind the awaited or shown answer, or None
    result,          \* the transfer on the result step, or None
    forms            \* forms the user has begun: page loads and New Transfer

page == <<step, form, idempotencyKey, call, sent, result, forms>>
vars == <<apiVars, page>>

Init ==
    /\ ApiInit
    /\ step = "details"
    /\ form = DefaultForm
    /\ idempotencyKey = 1
    /\ call = None
    /\ sent = None
    /\ result = None
    /\ forms = 1

\* The inputs of the first step and the buttons between the first two.  Back
\* is not disabled while an answer is awaited.
EditForm(b) ==
    /\ step = "details"
    /\ form' = b
    /\ UNCHANGED <<apiVars, step, idempotencyKey, call, sent, result, forms>>

Continue ==
    /\ step = "details"
    /\ step' = "review"
    /\ UNCHANGED <<apiVars, form, idempotencyKey, call, sent, result, forms>>

Back ==
    /\ step = "review"
    /\ step' = "details"
    /\ UNCHANGED <<apiVars, form, idempotencyKey, call, sent, result, forms>>

\* Mutant of Confirm: a key is drawn for every submission.
ConfirmWithFreshKey(p) ==
    /\ step = "review"
    /\ call = None
    /\ \E k \in Keys : PostTransfers(p, k, form) /\ idempotencyKey' = k
    /\ call' = p
    /\ sent' = form
    /\ UNCHANGED <<step, form, result, forms>>

\* onSubmit up to its await.  The settings with the API key are read again for
\* each request, and the texts of the form may not be what the server accepts.
Confirm(p) ==
    /\ step = "review"
    /\ call = None
    /\ PostTransfers(p, idempotencyKey, form) \/ Refused(p)
    /\ call' = p
    /\ sent' = form
    /\ UNCHANGED <<step, form, idempotencyKey, result, forms>>

\* Mutant of Failed: the finally clause does not end the loading state.
FailedStillLoading ==
    /\ step' = "details"
    /\ sent' = None
    /\ UNCHANGED <<form, idempotencyKey, call, result, forms>>

\* onSubmit after its await: an error puts the page back to the details, with
\* the form and the key as they are.
Failed ==
    /\ step' = "details"
    /\ call' = None
    /\ sent' = None
    /\ UNCHANGED <<form, idempotencyKey, result, forms>>

\* The answer of connection p arrives; the page reads it if it awaits it.
Deliver(p) ==
    /\ Flush(p)
    /\ \/ /\ call = p
          /\ conn[p].status = 201
          /\ result' = conn[p].result
          /\ step' = "result"
          /\ call' = None
          /\ UNCHANGED <<form, idempotencyKey, sent, forms>>
       \/ call = p /\ conn[p].status # 201 /\ Failed
       \/ call # p /\ UNCHANGED page

\* fetch rejects: no answer will come, whatever the server still does.
ConnectionLost ==
    /\ call # None
    /\ Failed
    /\ UNCHANGED apiVars

\* The page mounts with a new key: loaded again, or entered from another page
\* of the console.  Nobody reads the answer of a pending request any more.
Reload ==
    /\ idempotencyKey + 1 \in Keys
    /\ idempotencyKey' = idempotencyKey + 1
    /\ forms' = forms + 1
    /\ step' = "details"
    /\ form' = DefaultForm
    /\ call' = None
    /\ sent' = None
    /\ result' = None
    /\ UNCHANGED apiVars

\* resetForm, offered on the result step only.
NewTransfer == step = "result" /\ Reload

Next ==
    \/ \E b \in Payloads : EditForm(b)
    \/ Continue \/ Back \/ ConnectionLost \/ NewTransfer \/ Reload
    \/ \E p \in Procs :
          \/ Confirm(p) \/ Deliver(p)
          \/ (Serve(p) /\ UNCHANGED page)
          \/ \E id \in AccountIds : PostAccounts(p, id) /\ UNCHANGED page

Spec == Init /\ [][Next]_vars

\* The server's goroutines run on and an answer is sent once it is written.
\* Nothing is asked of the user or of the network's failures.
FairSpec ==
    /\ Spec
    /\ \A p \in Procs : WF_vars(Serve(p) /\ UNCHANGED page) /\ WF_vars(Deliver(p))

-----------------------------------------------------------------------------

TypeOK ==
    /\ ApiTypeOK
    /\ step \in {"details", "review", "result"}
    /\ form \in Payloads
    /\ idempotencyKey \in Keys
    /\ call \in Procs \union {None}
    /\ sent \in Payloads \union {None}
    /\ result \in Payloads \union {None}
    /\ forms \in Nat
    /\ call # None => conn[call].stage # "free"

\* However often the user confirms, edits and confirms again, after errors,
\* lost answers and expired records: one form pays at most once.
PaidOncePerForm == Cardinality({k \in Keys : posted[k] # None}) <= forms

\* The result step shows the form that was submitted, and it is the transfer
\* that was committed under the form's key.
ResultTrue ==
    step = "result" => result = sent /\ posted[idempotencyKey] = result

\* The user sees a success only after its audit row was written or its insert
\* failed: the answer is sent when the audit middleware has run.
AcknowledgedAudited ==
    [][step' = "result" /\ step # "result" =>
          idempotencyKey \in auditLog \/ conn[call].auditError]_vars

\* "Processing" ends: every submission gets an answer or an error.
SubmissionEnds == (call # None) ~> (call = None)
=============================================================================
