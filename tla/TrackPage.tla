----------------------------- MODULE TrackPage -----------------------------
(***************************************************************************)
(* The tracking page of the web console (web/src/app/track/page.tsx) and   *)
(* the status requests it makes, beside the worker that changes the rows   *)
(* they read.  A status request reads the saga and then its settlement, in *)
(* two queries; its answer is shown when it arrives, whatever the page is  *)
(* looking for by then.                                                    *)
(***************************************************************************)
EXTENDS SettlementWorker

CONSTANTS
    Unknown,     \* a text that names no transfer, in either mode
    MaxUnderWay, \* bound: look-ups under way at once
    MaxInputs    \* bound: what the user types and clicks

\* A status request and what it has read so far, and what the page shows.
Lookups ==
    [target : Transfers \union {Unknown}, auto : BOOLEAN,
     phase : {"sent", "saga", "answered", "failed"},
     saga : SagaStates \union {None}, settlement : {"PENDING", "SETTLED", "FAILED", None}]

Shown ==
    [target : Transfers, saga : SagaStates, settlement : {"PENDING", "SETTLED", "FAILED", None}]

ASSUME TrackAssumption ==
    /\ Unknown \notin Transfers \union {None}
    /\ None \notin Transfers \union Lookups \union Shown
    /\ MaxUnderWay \in Nat \ {0} /\ MaxInputs \in Nat

Slots == 1..MaxUnderWay

\* What mode and query together name: nothing (a blank query), a transfer or
\* no transfer.
Targets == Transfers \union {Unknown, None}

VARIABLES
    query,      \* the target in the search field
    status,     \* the target, saga state and settlement status shown, or None
    error,      \* is "Lookup Failed" shown?
    polling,    \* is "Live tracking" shown?
    timer,      \* has poll set its timer?
    lookup,     \* lookup[s] : a look-up under way, or None.  It is auto if poll
                \* made it and its effect has not been cleaned up.
    disturbed,  \* has the user refreshed since the last search, or searched
                \* while an answer was under way?
    inputs

page == <<query, status, error, polling, timer, lookup, disturbed, inputs>>
trackVars == <<vars, page>>

\* Mutant of TERMINAL: reversed transfers are forgotten.
TERMINALShort == {"COMPLETED", "FAILED"}

\* The saga states after which the page stops polling.
TERMINAL == {"COMPLETED", "COMPENSATED", "FAILED"}

UnderWay == {s \in Slots : lookup[s] # None}
FirstFree(s) == lookup[s] = None /\ \A r \in 1..(s - 1) : lookup[r] # None

Sent(target, auto) ==
    [target |-> target, auto |-> auto, phase |-> "sent", saga |-> None, settlement |-> None]

Cancelled == [s \in Slots |-> IF lookup[s] = None THEN None
                              ELSE [lookup[s] EXCEPT !.auto = FALSE]]

Input == inputs < MaxInputs /\ inputs' = inputs + 1

TrackInit ==
    /\ Init
    /\ query = None
    /\ status = None
    /\ error = FALSE
    /\ polling = FALSE
    /\ timer = FALSE
    /\ lookup = [s \in Slots |-> None]
    /\ disturbed = FALSE
    /\ inputs = 0

-----------------------------------------------------------------------------

\* The user types, switches the mode or follows a link: the effect's cleanup
\* cancels the poll under way and its timer, and the effect polls anew, unless
\* the query is blank.  What is shown stays until the next answer.
Search(s, target) ==
    /\ Input
    /\ FirstFree(s)
    /\ query' = target
    /\ timer' = FALSE
    /\ polling' = (target # None)
    /\ error' = (error /\ target = None)
    /\ lookup' = [Cancelled EXCEPT ![s] = IF target = None THEN None ELSE Sent(target, TRUE)]
    /\ disturbed' = (UnderWay # {})
    /\ UNCHANGED <<vars, status>>

\* The refresh button calls fetchStatus by itself.
Refresh(s) ==
    /\ Input
    /\ query # None
    /\ FirstFree(s)
    /\ error' = FALSE
    /\ lookup' = [lookup EXCEPT ![s] = Sent(query, FALSE)]
    /\ disturbed' = TRUE
    /\ UNCHANGED <<vars, query, status, polling, timer>>

\* Three seconds after an answer that was not terminal.
PollAgain(s) ==
    /\ timer
    /\ FirstFree(s)
    /\ timer' = FALSE
    /\ polling' = TRUE
    /\ error' = FALSE
    /\ lookup' = [lookup EXCEPT ![s] = Sent(query, TRUE)]
    /\ UNCHANGED <<vars, query, status, disturbed, inputs>>

\* GetSagaByTransactionID or GetSagaByIdempotencyKey; no row is a 404.
ReadSaga(s) ==
    /\ lookup[s] # None /\ lookup[s].phase = "sent"
    /\ LET t == lookup[s].target
       IN  lookup' = IF t = Unknown \/ saga[t] = None
                     THEN [lookup EXCEPT ![s].phase = "failed"]
                     ELSE [lookup EXCEPT ![s].phase = "saga", ![s].saga = saga[t]]
    /\ UNCHANGED <<vars, query, status, error, polling, timer, disturbed, inputs>>

\* Mutant of ReadSettlement: an error of the second query leaves a gap.
ReadSettlementOrSkip(s) ==
    /\ lookup[s] # None /\ lookup[s].phase = "saga"
    /\ \E read \in {stl[lookup[s].target], None} :
          lookup' = [lookup EXCEPT ![s].phase = "answered", ![s].settlement = read]
    /\ UNCHANGED <<vars, query, status, error, polling, timer, disturbed, inputs>>

\* statusFromSaga's GetSettlementBySagaID.
ReadSettlement(s) ==
    /\ lookup[s] # None /\ lookup[s].phase = "saga"
    /\ lookup' = [lookup EXCEPT ![s].phase = "answered",
                                ![s].settlement = stl[lookup[s].target]]
    /\ UNCHANGED <<vars, query, status, error, polling, timer, disturbed, inputs>>

\* A query fails, or the connection of the browser does.
LookupFails(s) ==
    /\ lookup[s] # None /\ lookup[s].phase # "failed"
    /\ lookup' = [lookup EXCEPT ![s].phase = "failed"]
    /\ UNCHANGED <<vars, query, status, error, polling, timer, disturbed, inputs>>

\* Mutant of PollOn: every answer, a cancelled poll's too, decides on the polling.
PollOnAnyway(s, again) ==
    /\ timer' = (timer \/ again)
    /\ polling' = (polling /\ again)

\* What poll does with the result of fetchStatus; a refresh, and a poll that was
\* cancelled, do nothing.
PollOn(s, again) ==
    IF lookup[s].auto THEN timer' = again /\ polling' = again
                      ELSE UNCHANGED <<timer, polling>>

\* fetchStatus after its await.
Answer(s) ==
    /\ lookup[s] # None /\ lookup[s].phase = "answered"
    /\ status' = [target |-> lookup[s].target, saga |-> lookup[s].saga,
                  settlement |-> lookup[s].settlement]
    /\ PollOn(s, lookup[s].saga \notin TERMINAL)
    /\ lookup' = [lookup EXCEPT ![s] = None]
    /\ UNCHANGED <<vars, query, error, disturbed, inputs>>

AnswerError(s) ==
    /\ lookup[s] # None /\ lookup[s].phase = "failed"
    /\ status' = None
    /\ error' = TRUE
    /\ PollOn(s, FALSE)
    /\ lookup' = [lookup EXCEPT ![s] = None]
    /\ UNCHANGED <<vars, query, disturbed, inputs>>

Progress(s) ==
    PollAgain(s) \/ ReadSaga(s) \/ ReadSettlement(s) \/ Answer(s) \/ AnswerError(s)

TrackNext ==
    \/ Next /\ UNCHANGED page
    \/ \E s \in Slots :
          \/ \E target \in Targets : Search(s, target)
          \/ Refresh(s) \/ LookupFails(s) \/ Progress(s)

\* The worker polls, the api answers and the browser runs its callbacks and
\* timers.
TrackSpec ==
    /\ TrackInit /\ [][TrackNext]_trackVars
    /\ \A w \in Workers : WF_trackVars(Work(w) /\ UNCHANGED page)
    /\ \A s \in Slots : WF_trackVars(Progress(s))

-----------------------------------------------------------------------------

\* "successfully settled via SARIE", "funds were automatically reversed": what
\* the banner says of a transfer has happened, however late the answer and
\* whatever the worker wrote between its two reads, and a COMPLETED saga is
\* never shown beside a settlement that is not SETTLED.
BannerTrue ==
    status # None =>
        /\ status.saga = "COMPLETED" => status.settlement = "SETTLED" /\ paid[status.target] > 0
        /\ status.saga = "COMPENSATED" => Reversed(status.target)

\* "Live tracking" is shown exactly as long as the page is going to look again,
\* also when answers of an earlier search arrive; and a page that was left alone
\* after its search stops only at the end of the transfer it looks for, or with
\* an error.
LiveUntilTheEnd ==
    /\ polling <=> timer \/ \E s \in UnderWay : lookup[s].auto
    /\ ~polling /\ ~disturbed /\ query # None =>
          \/ error
          \/ status # None /\ status.target = query /\ status.saga \in Terminal

\* Tracking ends: the page does not poll for ever, unless a lost update or a
\* dead worker left the saga short of its end.
TrackingEnds == polling ~> ~polling \/ faults > 0
=============================================================================
