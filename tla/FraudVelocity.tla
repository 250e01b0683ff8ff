--------------------------- MODULE FraudVelocity ---------------------------
(***************************************************************************)
(* The velocity rule of the fraud check (internal/fraud): one Redis        *)
(* counter per account, incremented and given a fresh TTL by every         *)
(* transfer that passes the amount limit.  One account; time in ticks.     *)
(***************************************************************************)
EXTENDS Integers, FiniteSets

CONSTANTS
    MaxTransfers,   \* maxHourlyTransfers (20)
    Window,         \* velocityWindow (one hour) in ticks
    MaxTime,        \* bound: length of a behaviour in ticks
    MaxPerTick,     \* bound: attempts in one tick
    None

ASSUME VelocityAssumption ==
    /\ MaxTransfers \in Nat \ {0} /\ Window \in Nat \ {0}
    /\ MaxTime \in Nat /\ MaxPerTick \in Nat
    /\ None \notin Nat

VARIABLES
    now,
    count,      \* the counter, 0 when the key is not there
    ttl,        \* the tick at which the key expires, None if it never does
    attempts,   \* attempts[i] : attempts made in tick i
    allowed     \* allowed[i] : those that passed

vars == <<now, count, ttl, attempts, allowed>>

Ticks == 0..MaxTime

Init ==
    /\ now = 0 /\ count = 0 /\ ttl = None
    /\ attempts = [i \in Ticks |-> 0]
    /\ allowed = [i \in Ticks |-> 0]

\* Redis removes the key when its TTL runs out.
Tick ==
    /\ now < MaxTime
    /\ now' = now + 1
    /\ IF ttl = now + 1 THEN count' = 0 /\ ttl' = None ELSE UNCHANGED <<count, ttl>>
    /\ UNCHANGED <<attempts, allowed>>

\* Mutants of Check: EXPIRE only when the key is new, or one tick too long.
CheckFixedWindow ==
    /\ attempts[now] < MaxPerTick
    /\ attempts' = [attempts EXCEPT ![now] = @ + 1]
    /\ count' = count + 1
    /\ ttl' = IF count = 0 THEN now + Window ELSE ttl
    /\ IF count + 1 > MaxTransfers
       THEN UNCHANGED allowed
       ELSE allowed' = [allowed EXCEPT ![now] = @ + 1]
    /\ UNCHANGED now

CheckLongTTL ==
    /\ attempts[now] < MaxPerTick
    /\ attempts' = [attempts EXCEPT ![now] = @ + 1]
    /\ count' = count + 1
    /\ ttl' = now + Window + 1
    /\ allowed' = [allowed EXCEPT ![now] = @ + 1]
    /\ UNCHANGED now

\* Check on an amount within the limit: Increment (INCR, then EXPIRE, also when
\* the answer will be a refusal), then the comparison with the maximum.
Check ==
    /\ attempts[now] < MaxPerTick
    /\ attempts' = [attempts EXCEPT ![now] = @ + 1]
    /\ count' = count + 1
    /\ ttl' = now + Window
    /\ IF count + 1 > MaxTransfers
       THEN UNCHANGED allowed
       ELSE allowed' = [allowed EXCEPT ![now] = @ + 1]
    /\ UNCHANGED now

\* The pipeline is not atomic: the connection breaks after INCR, before EXPIRE
\* took effect or before its answer came.  Check returns the error and the
\* transfer is refused.
CheckBroken ==
    /\ attempts[now] < MaxPerTick
    /\ attempts' = [attempts EXCEPT ![now] = @ + 1]
    /\ count' = count + 1
    /\ ttl' \in {ttl, now + Window}
    /\ UNCHANGED <<now, allowed>>

Next == Tick \/ Check \/ CheckBroken

Spec == Init /\ [][Next]_vars

-----------------------------------------------------------------------------

\* What a history adds up to over the last n ticks up to i, and over the window
\* that ends with i.
Back(history, i, n) == IF i - n + 1 >= 0 THEN history[i - n + 1] ELSE 0

LastTicks(history, i) ==
    LET sum[n \in 0..Window] == IF n = 0 THEN 0 ELSE sum[n - 1] + Back(history, i, n)
    IN  sum

InWindow(history, i) == LastTicks(history, i)[Window]

\* The limit holds: no window of that length lets more transfers through.
LimitHolds == \A i \in Ticks : InWindow(allowed, i) <= MaxTransfers

\* An account that has been quiet for a whole window starts afresh, unless its
\* key was left without a TTL.
QuietResets ==
    InWindow(attempts, now) = 0 => count = 0 \/ ttl = None
=============================================================================
