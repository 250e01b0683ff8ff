------------------------- MODULE FraudVelocityProofs -------------------------
(***************************************************************************)
(* Proofs about the velocity rule, for any limit and window and any        *)
(* history of attempts: no window lets more transfers through than the     *)
(* limit, and a quiet window resets the counter.                           *)
(***************************************************************************)
EXTENDS FraudVelocity, TLAPS, WellFoundedInduction

VelocityTypeOK ==
    /\ now \in Ticks /\ count \in Nat /\ ttl \in Nat \union {None}
    /\ attempts \in [Ticks -> Nat]
    /\ allowed \in [Ticks -> Nat]

\* The key expires one window after an attempt that set its TTL, and has not
\* expired yet.
TtlFresh ==
    ttl # None =>
        /\ now < ttl
        /\ ttl - Window \in 0..now /\ attempts[ttl - Window] > 0

\* A transfer that passed is a window old, or the key outlives its window.
TtlCovers ==
    \A j \in Ticks : allowed[j] > 0 => j + Window <= now \/ (ttl # None /\ j + Window <= ttl)

\* The counter bounds what passed in every window that is not over.
CountCovers == \A i \in Ticks : now <= i => InWindow(allowed, i) <= count

VelocityInv ==
    VelocityTypeOK /\ TtlFresh /\ TtlCovers /\ CountCovers /\ LimitHolds

-----------------------------------------------------------------------------

\* Induction up to the length of the window, over a set.
LEMMA WindowInduction ==
    ASSUME NEW T, 0 \in T, \A n \in 0..(Window - 1) : n \in T => n + 1 \in T
    PROVE  0..Window \subseteq T
<1> DEFINE Lt == OpToRel(<, Nat)
<1> DEFINE Bad == {n \in 0..Window : n \notin T}
<1>1. SUFFICES ASSUME Bad # {} PROVE FALSE
  OBVIOUS
<1>2. IsWellFoundedOn(Lt, Nat)
  BY NatLessThanWellFounded
<1>3. Bad \subseteq Nat
  OBVIOUS
<1> HIDE DEF Lt
<1>4. PICK m \in Bad : \A k \in Bad : ~ (<<k, m>> \in Lt)
  <2> HIDE DEF Bad
  <2> QED
    BY <1>1, <1>2, <1>3, WFMin
<1>5. m \in Nat /\ m # 0 /\ m \in 0..Window
  BY <1>4
<1>6. m - 1 \in 0..(Window - 1) /\ m - 1 < m /\ (m - 1) + 1 = m
  BY <1>5, VelocityAssumption
<1>7. m - 1 \in Bad
  BY <1>4, <1>6, VelocityAssumption
<1>8. <<m - 1, m>> \in Lt
  BY <1>5, <1>6 DEF Lt, OpToRel
<1> QED
  BY <1>4, <1>7, <1>8

\* The sum over the last ticks is well defined: it starts at 0, takes in one more
\* tick a round and stays a natural number.
LEMMA LastTicksStep ==
    ASSUME NEW h \in [Ticks -> Nat], NEW i \in Ticks
    PROVE  /\ LastTicks(h, i)[0] = 0
           /\ \A n \in 1..Window : LastTicks(h, i)[n] = LastTicks(h, i)[n - 1] + Back(h, i, n)
           /\ \A n \in 1..Window : Back(h, i, n) \in Nat
           /\ \A n \in 0..Window : LastTicks(h, i)[n] \in Nat
<1> DEFINE b(n) == Back(h, i, n)
<1> DEFINE Def(f) == [n \in 0..Window |-> IF n = 0 THEN 0 ELSE f[n - 1] + b(n)]
<1> DEFINE Prefix(k) ==
      {g \in [0..k -> Nat] : g[0] = 0 /\ \A n \in 1..k : g[n] = g[n - 1] + b(n)}
<1> DEFINE Ok == {k \in 0..Window : Prefix(k) # {}}
<1>0. Window \in Nat
  BY VelocityAssumption
<1>1. \A n \in 1..Window : b(n) \in Nat
  BY VelocityAssumption DEF Back, Ticks
<1>d. LastTicks(h, i) = CHOOSE f : f = Def(f)
  BY DEF LastTicks
<1> HIDE DEF b
<1>2. 0 \in Ok
  <2>1. [n \in 0..0 |-> 0] \in Prefix(0)
    OBVIOUS
  <2> QED
    BY <1>0, <2>1
<1>3. ASSUME NEW k \in 0..(Window - 1), k \in Ok PROVE k + 1 \in Ok
  <2>1. PICK g \in Prefix(k) : TRUE
    BY <1>3
  <2> DEFINE e == [n \in 0..(k + 1) |-> IF n = k + 1 THEN g[k] + b(k + 1) ELSE g[n]]
  <2>2. e \in [0..(k + 1) -> Nat]
    BY <1>0, <1>1, <2>1
  <2>3. e[0] = 0 /\ \A n \in 1..(k + 1) : e[n] = e[n - 1] + b(n)
    BY <1>0, <1>1, <2>1
  <2>4. e \in Prefix(k + 1)
    BY <2>2, <2>3
  <2>5. k + 1 \in 0..Window
    BY <1>0
  <2> HIDE DEF Prefix
  <2> QED
    BY <2>4, <2>5
<1>4. Window \in Ok
  <2> HIDE DEF Ok
  <2>1. 0..Window \subseteq Ok
    BY <1>2, <1>3, WindowInduction
  <2> QED
    BY <1>0, <2>1
<1>5. PICK g \in Prefix(Window) : TRUE
  <2> HIDE DEF Prefix
  <2> QED
    BY <1>4
<1>6. g = Def(g)
  BY <1>0, <1>5
<1>7. LastTicks(h, i) = Def(LastTicks(h, i))
  BY <1>6, <1>d
<1> DEFINE R == LastTicks(h, i)
<1> HIDE DEF R
<1>8. R[0] = 0 /\ \A n \in 1..Window : R[n] = R[n - 1] + b(n)
  BY <1>0, <1>7 DEF R
<1> DEFINE Whole == {k \in 0..Window : R[k] \in Nat}
<1>9. 0 \in Whole
  BY <1>0, <1>8
<1>10. ASSUME NEW k \in 0..(Window - 1), k \in Whole PROVE k + 1 \in Whole
  <2>1. k + 1 \in 1..Window /\ (k + 1) - 1 = k
    BY <1>0
  <2>2. R[k + 1] = R[k] + b(k + 1) /\ b(k + 1) \in Nat
    BY <1>1, <1>8, <2>1
  <2> QED
    BY <1>0, <1>10, <2>1, <2>2
<1>11. 0..Window \subseteq Whole
  <2> HIDE DEF Whole
  <2> QED
    BY <1>9, <1>10, WindowInduction
<1> QED
  BY <1>1, <1>8, <1>11 DEF R, b

\* A window's sum is a natural number.
LEMMA WindowNat ==
    ASSUME NEW h \in [Ticks -> Nat], NEW i \in Ticks
    PROVE  InWindow(h, i) \in Nat
  BY LastTicksStep, VelocityAssumption DEF InWindow

\* Nothing in the window, nothing in its sum.
LEMMA EmptyWindow ==
    ASSUME NEW h \in [Ticks -> Nat], NEW i \in Ticks,
           \A j \in Ticks : i - Window < j /\ j <= i => h[j] = 0
    PROVE  InWindow(h, i) = 0
<1> DEFINE R == LastTicks(h, i)
<1> DEFINE Zero == {n \in 0..Window : R[n] = 0}
<1>0. Window \in Nat /\ i \in Int
  BY VelocityAssumption DEF Ticks
<1>1. R[0] = 0 /\ \A n \in 1..Window : R[n] = R[n - 1] + Back(h, i, n)
  BY LastTicksStep
<1>2. \A n \in 1..Window : Back(h, i, n) = 0
  BY VelocityAssumption DEF Back, Ticks
<1> HIDE DEF R
<1>3. 0 \in Zero
  BY <1>0, <1>1
<1>4. ASSUME NEW n \in 0..(Window - 1), n \in Zero PROVE n + 1 \in Zero
  <2>1. n + 1 \in 1..Window /\ (n + 1) - 1 = n
    BY <1>0
  <2> QED
    BY <1>1, <1>2, <1>4, <2>1
<1>5. 0..Window \subseteq Zero
  <2> HIDE DEF Zero
  <2> QED
    BY <1>3, <1>4, WindowInduction
<1> QED
  BY <1>0, <1>5 DEF R, InWindow

\* Something in the window, something in its sum.
LEMMA BusyWindow ==
    ASSUME NEW h \in [Ticks -> Nat], NEW i \in Ticks, NEW j \in Ticks,
           i - Window < j, j <= i, h[j] > 0
    PROVE  InWindow(h, i) > 0
<1> DEFINE R == LastTicks(h, i)
           at == i - j + 1
           Seen == {n \in 0..Window : at <= n => R[n] > 0}
<1>0. Window \in Nat /\ at \in 1..Window
  BY VelocityAssumption DEF Ticks
<1>1. /\ R[0] = 0 /\ \A n \in 1..Window : R[n] = R[n - 1] + Back(h, i, n)
      /\ \A n \in 1..Window : Back(h, i, n) \in Nat
      /\ \A n \in 0..Window : R[n] \in Nat
  BY LastTicksStep
<1>2. Back(h, i, at) > 0
  BY VelocityAssumption DEF Back, Ticks
<1> HIDE DEF R, at
<1>3. 0 \in Seen
  BY <1>0
<1>4. ASSUME NEW n \in 0..(Window - 1), n \in Seen PROVE n + 1 \in Seen
  <2>1. n + 1 \in 1..Window /\ (n + 1) - 1 = n /\ n \in 0..Window
    BY <1>0
  <2>2. R[n + 1] = R[n] + Back(h, i, n + 1) /\ R[n] \in Nat /\ Back(h, i, n + 1) \in Nat
    BY <1>1, <2>1
  <2>3. CASE at <= n
    BY <1>0, <1>4, <2>1, <2>2, <2>3
  <2>4. CASE at = n + 1
    BY <1>0, <1>2, <2>1, <2>2, <2>4
  <2>5. CASE at > n + 1
    BY <1>0, <2>1, <2>5
  <2> QED
    BY <1>0, <2>3, <2>4, <2>5
<1>5. 0..Window \subseteq Seen
  <2> HIDE DEF Seen
  <2> QED
    BY <1>3, <1>4, WindowInduction
<1> QED
  BY <1>0, <1>5 DEF R, InWindow

\* One more in tick j adds one to the windows that hold j, none to those before.
LEMMA OneMore ==
    ASSUME NEW h \in [Ticks -> Nat], NEW i \in Ticks, NEW j \in Ticks
    PROVE  /\ i < j => InWindow([h EXCEPT ![j] = @ + 1], i) = InWindow(h, i)
           /\ InWindow([h EXCEPT ![j] = @ + 1], i) <= InWindow(h, i) + 1
<1> DEFINE g == [h EXCEPT ![j] = @ + 1]
           R == LastTicks(h, i)
           S == LastTicks(g, i)
           at == i - j + 1
           more(n) == IF 1 <= at /\ at <= n THEN 1 ELSE 0
           Plus == {n \in 0..Window : S[n] = R[n] + more(n)}
<1>0. Window \in Nat /\ at \in Int
  BY VelocityAssumption DEF Ticks
<1>g. g \in [Ticks -> Nat]
  OBVIOUS
<1>1. /\ R[0] = 0 /\ \A n \in 1..Window : R[n] = R[n - 1] + Back(h, i, n)
      /\ \A n \in 1..Window : Back(h, i, n) \in Nat
      /\ \A n \in 0..Window : R[n] \in Nat
  BY LastTicksStep
<1>2. S[0] = 0 /\ \A n \in 1..Window : S[n] = S[n - 1] + Back(g, i, n)
  <2> HIDE DEF g
  <2> QED
    BY <1>g, LastTicksStep
<1>3. \A n \in 1..Window : Back(g, i, n) = Back(h, i, n) + (IF n = at THEN 1 ELSE 0)
  BY VelocityAssumption DEF Back, Ticks
<1> HIDE DEF R, S, at, g
<1>4. 0 \in Plus
  BY <1>0, <1>1, <1>2
<1>5. ASSUME NEW n \in 0..(Window - 1), n \in Plus PROVE n + 1 \in Plus
  <2>1. n + 1 \in 1..Window /\ (n + 1) - 1 = n /\ n \in 0..Window
    BY <1>0
  <2>2. /\ R[n + 1] = R[n] + Back(h, i, n + 1) /\ R[n] \in Nat /\ Back(h, i, n + 1) \in Nat
        /\ S[n + 1] = S[n] + Back(g, i, n + 1) /\ S[n] = R[n] + more(n)
        /\ Back(g, i, n + 1) = Back(h, i, n + 1) + (IF n + 1 = at THEN 1 ELSE 0)
    BY <1>1, <1>2, <1>3, <1>5, <2>1
  <2>3. S[n + 1] = R[n + 1] + more(n + 1)
    BY <1>0, <2>1, <2>2
  <2> QED
    BY <1>0, <2>1, <2>3
<1>6. 0..Window \subseteq Plus
  <2> HIDE DEF Plus
  <2> QED
    BY <1>4, <1>5, WindowInduction
<1>7. S[Window] = R[Window] + more(Window) /\ R[Window] \in Nat
  BY <1>0, <1>1, <1>6
<1>8. S[Window] <= R[Window] + 1
  BY <1>7
<1>9. i < j => S[Window] = R[Window]
  BY <1>0, <1>7 DEF at, Ticks
<1> QED
  BY <1>8, <1>9 DEF R, S, g, InWindow

-----------------------------------------------------------------------------

\* A tick: the window moves on, and the key may expire.
LEMMA TickKeeps ==
    ASSUME VelocityInv, Tick PROVE VelocityInv'
<1> USE VelocityAssumption
<1>1. VelocityTypeOK'
  BY DEF VelocityInv, VelocityTypeOK, Tick, Ticks
<1>2. TtlFresh'
  BY DEF VelocityInv, VelocityTypeOK, TtlFresh, Tick, Ticks
<1>3. TtlCovers'
  BY DEF VelocityInv, VelocityTypeOK, TtlCovers, Tick, Ticks
<1>4. LimitHolds'
  BY DEF VelocityInv, LimitHolds, Tick, InWindow, LastTicks, Back
<1>5. CountCovers'
  <2> SUFFICES ASSUME NEW i \in Ticks, now' <= i
               PROVE  InWindow(allowed, i) <= count'
    BY DEF CountCovers, Tick, InWindow, LastTicks, Back
  <2>1. CASE ttl = now + 1
    <3>1. \A j \in Ticks : i - Window < j /\ j <= i => allowed[j] = 0
      BY <2>1 DEF VelocityInv, VelocityTypeOK, TtlCovers, Tick, Ticks
    <3>2. InWindow(allowed, i) = 0
      BY <3>1, EmptyWindow DEF VelocityInv, VelocityTypeOK
    <3> QED
      BY <2>1, <3>2 DEF Tick
  <2>2. CASE ttl # now + 1
    BY <2>2 DEF VelocityInv, VelocityTypeOK, CountCovers, Tick, Ticks
  <2> QED
    BY <2>1, <2>2
<1> QED
  BY <1>1, <1>2, <1>3, <1>4, <1>5 DEF VelocityInv

\* A check that Redis answered: it passes only while the counter has room.
LEMMA CheckKeeps ==
    ASSUME VelocityInv, Check PROVE VelocityInv'
<1> USE VelocityAssumption
<1>1. VelocityTypeOK'
  <2>1. now' \in Ticks /\ count' \in Nat /\ ttl' \in Nat \union {None}
    BY DEF VelocityInv, VelocityTypeOK, Check, Ticks
  <2>2. attempts' \in [Ticks -> Nat] /\ allowed' \in [Ticks -> Nat]
    BY DEF VelocityInv, VelocityTypeOK, Check
  <2> QED
    BY <2>1, <2>2 DEF VelocityTypeOK
<1>2. TtlFresh'
  BY DEF VelocityInv, VelocityTypeOK, TtlFresh, Check, Ticks
<1>3. TtlCovers'
  <2> SUFFICES ASSUME NEW j \in Ticks, allowed'[j] > 0
               PROVE  j + Window <= now' \/ (ttl' # None /\ j + Window <= ttl')
    BY DEF TtlCovers
  <2>1. ttl' = now + Window /\ now' = now /\ now \in Nat /\ ttl' # None
    BY DEF VelocityInv, VelocityTypeOK, Check, Ticks
  <2>2. CASE j = now
    BY <2>1, <2>2
  <2>3. CASE j # now
    <3>1. allowed[j] > 0
      BY <2>3 DEF VelocityInv, VelocityTypeOK, Check
    <3>2. CASE j + Window <= now
      BY <2>1, <3>2
    <3>3. CASE ttl # None /\ j + Window <= ttl
      BY <2>1, <3>3 DEF VelocityInv, VelocityTypeOK, TtlFresh, Ticks
    <3> QED
      BY <3>1, <3>2, <3>3 DEF VelocityInv, TtlCovers
  <2> QED
    BY <2>2, <2>3
<1>4. \A i \in Ticks :
          /\ InWindow(allowed, i) \in Nat
          /\ \/ allowed' = allowed
             \/ /\ count + 1 <= MaxTransfers
                /\ InWindow(allowed, i)' \in Nat
                /\ i < now => InWindow(allowed, i)' = InWindow(allowed, i)
                /\ InWindow(allowed, i)' <= InWindow(allowed, i) + 1
  <2> SUFFICES ASSUME NEW i \in Ticks, allowed' # allowed
               PROVE  /\ count + 1 <= MaxTransfers
                      /\ InWindow(allowed, i)' \in Nat
                      /\ i < now => InWindow(allowed, i)' = InWindow(allowed, i)
                      /\ InWindow(allowed, i)' <= InWindow(allowed, i) + 1
    BY WindowNat DEF VelocityInv, VelocityTypeOK
  <2>1. count + 1 <= MaxTransfers /\ allowed' = [allowed EXCEPT ![now] = @ + 1]
    BY DEF VelocityInv, VelocityTypeOK, Check
  <2>2. InWindow(allowed, i)' = InWindow([allowed EXCEPT ![now] = @ + 1], i)
    BY <2>1 DEF InWindow, LastTicks, Back
  <2>3. [allowed EXCEPT ![now] = @ + 1] \in [Ticks -> Nat]
    BY DEF VelocityInv, VelocityTypeOK
  <2>4. InWindow([allowed EXCEPT ![now] = @ + 1], i) \in Nat
    BY <2>3, WindowNat
  <2> QED
    BY <2>1, <2>2, <2>4, OneMore DEF VelocityInv, VelocityTypeOK
<1>5. CountCovers' /\ LimitHolds'
  <2> SUFFICES ASSUME NEW i \in Ticks
               PROVE  /\ now <= i => InWindow(allowed, i)' <= count + 1
                      /\ InWindow(allowed, i)' <= MaxTransfers
    BY DEF CountCovers, LimitHolds, Check
  <2>1. /\ InWindow(allowed, i) \in Nat /\ count \in Nat /\ now \in Nat /\ i \in Nat
        /\ InWindow(allowed, i) <= MaxTransfers
        /\ now <= i => InWindow(allowed, i) <= count
    BY <1>4 DEF VelocityInv, VelocityTypeOK, LimitHolds, CountCovers, Ticks
  <2>2. CASE allowed' = allowed
    <3>1. InWindow(allowed, i)' = InWindow(allowed, i)
      BY <2>2 DEF InWindow, LastTicks, Back
    <3> QED
      BY <2>1, <3>1
  <2>3. CASE allowed' # allowed
    BY <1>4, <2>1, <2>3
  <2> QED
    BY <2>2, <2>3
<1> QED
  BY <1>1, <1>2, <1>3, <1>5 DEF VelocityInv

\* A check whose EXPIRE or answer was lost: the counter runs ahead, which only
\* refuses more, and a TTL that is set again lies no earlier than the old one.
LEMMA BrokenKeeps ==
    ASSUME VelocityInv, CheckBroken PROVE VelocityInv'
<1> USE VelocityAssumption
<1>1. VelocityTypeOK'
  BY SMTT(30) DEF VelocityInv, VelocityTypeOK, CheckBroken, Ticks
<1>a. now \in Nat /\ Window \in Nat \ {0} /\ now \in Ticks /\ (ttl = None \/ ttl \in Nat)
  BY DEF VelocityInv, VelocityTypeOK, Ticks
<1>b. ASSUME ttl' = ttl PROVE TtlFresh' /\ TtlCovers'
  <2>1. TtlFresh'
    BY <1>b DEF VelocityInv, VelocityTypeOK, TtlFresh, CheckBroken, Ticks
  <2>2. TtlCovers'
    BY <1>b DEF VelocityInv, TtlCovers, CheckBroken
  <2> QED
    BY <2>1, <2>2
<1>c. ASSUME ttl' = now + Window PROVE TtlFresh' /\ TtlCovers'
  <2>1. TtlFresh'
    <3>1. now' = now /\ ttl' - Window = now /\ now < ttl' /\ now \in 0..now
      BY <1>a, <1>c DEF CheckBroken
    <3>2. attempts'[now] > 0
      BY <1>a DEF VelocityInv, VelocityTypeOK, CheckBroken
    <3> QED
      BY <3>1, <3>2 DEF TtlFresh
  <2>2. TtlCovers'
    <3> SUFFICES ASSUME NEW j \in Ticks, allowed[j] > 0
                 PROVE  j + Window <= now \/ (ttl' # None /\ j + Window <= ttl')
      BY DEF TtlCovers, CheckBroken
    <3>1. CASE j + Window <= now
      BY <3>1
    <3>2. CASE ttl # None /\ j + Window <= ttl
      BY <1>a, <1>c, <3>2 DEF VelocityInv, TtlFresh, Ticks
    <3> QED
      BY <3>1, <3>2 DEF VelocityInv, TtlCovers
  <2> QED
    BY <2>1, <2>2
<1>3. TtlFresh' /\ TtlCovers'
  BY <1>b, <1>c DEF CheckBroken
<1>4. \A i \in Ticks : InWindow(allowed, i)' = InWindow(allowed, i) /\ InWindow(allowed, i) \in Nat
  BY WindowNat DEF VelocityInv, VelocityTypeOK, CheckBroken, InWindow, LastTicks, Back
<1>5. CountCovers' /\ LimitHolds'
  BY <1>4 DEF VelocityInv, VelocityTypeOK, CountCovers, LimitHolds, CheckBroken
<1> QED
  BY <1>1, <1>3, <1>5 DEF VelocityInv

\* Counter, TTL and history stay in step, with checks lost halfway and however
\* long the account is quiet.
THEOREM VelocityInvariant == Spec => []VelocityInv
<1>1. Init => VelocityInv
  <2> SUFFICES ASSUME Init PROVE VelocityInv
    OBVIOUS
  <2>1. VelocityTypeOK /\ TtlFresh /\ TtlCovers
    BY VelocityAssumption DEF Init, VelocityTypeOK, TtlFresh, TtlCovers, Ticks
  <2>2. \A i \in Ticks : InWindow(allowed, i) = 0
    BY EmptyWindow DEF Init
  <2> QED
    BY <2>1, <2>2, VelocityAssumption DEF VelocityInv, CountCovers, LimitHolds, Init
<1>2. VelocityInv /\ UNCHANGED vars => VelocityInv'
  BY DEF VelocityInv, VelocityTypeOK, TtlFresh, TtlCovers, CountCovers, LimitHolds, vars,
         InWindow, LastTicks, Back
<1>3. VelocityInv /\ [Next]_vars => VelocityInv'
  BY <1>2, TickKeeps, CheckKeeps, BrokenKeeps DEF Next
<1> QED
  BY <1>1, <1>3, PTL DEF Spec

\* No window of the configured length lets more transfers through than the limit.
THEOREM LimitAlwaysHolds == Spec => []LimitHolds
<1>1. VelocityInv => LimitHolds
  BY DEF VelocityInv
<1> QED
  BY <1>1, VelocityInvariant, PTL

\* After a quiet window the counter is gone, unless its key has no TTL.
THEOREM QuietAlwaysResets == Spec => []QuietResets
<1>1. VelocityInv => QuietResets
  <2> SUFFICES ASSUME VelocityInv, ttl # None
               PROVE  InWindow(attempts, now) > 0
    BY WindowNat DEF QuietResets, VelocityInv, VelocityTypeOK
  <2>1. /\ ttl \in Nat /\ now \in Nat /\ now \in Ticks /\ now < ttl
        /\ ttl - Window \in 0..now /\ attempts[ttl - Window] > 0
    BY DEF VelocityInv, VelocityTypeOK, TtlFresh, Ticks
  <2>2. ttl - Window \in Ticks /\ now - Window < ttl - Window /\ ttl - Window <= now
    BY <2>1, VelocityAssumption DEF Ticks
  <2> QED
    BY <2>1, <2>2, BusyWindow DEF VelocityInv, VelocityTypeOK
<1> QED
  BY <1>1, VelocityInvariant, PTL

=============================================================================
