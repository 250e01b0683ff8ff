------------------------- MODULE LedgerBooksProofs -------------------------
(***************************************************************************)
(* Lemmas on the arithmetic of LedgerBooks: what the loops that derive     *)
(* balances and totals compute when rows are appended to the journal.      *)
(***************************************************************************)
EXTENDS LedgerBooks, TLAPS, WellFoundedInduction, SequenceTheorems

\* Induction on the naturals over a set, the form the provers can apply: a set
\* that holds 0 and is closed under successor holds every natural number.
LEMMA NatSetInduction ==
    ASSUME NEW T, 0 \in T, \A n \in Nat : n \in T => n + 1 \in T
    PROVE  Nat \subseteq T
<1> DEFINE Lt == OpToRel(<, Nat)
<1> DEFINE Bad == Nat \ T
<1>1. SUFFICES ASSUME Bad # {} PROVE FALSE
  OBVIOUS
<1>2. IsWellFoundedOn(Lt, Nat)
  BY NatLessThanWellFounded
<1>3. Bad \subseteq Nat
  OBVIOUS
<1> HIDE DEF Lt
<1>4. PICK m \in Bad : \A k \in Bad : ~ (<<k, m>> \in Lt)
  <2> HIDE DEF Bad
  <2> QED BY <1>1, <1>2, <1>3, WFMin
<1>5. m \in Nat /\ m # 0
  BY <1>4
<1>6. m - 1 \in Nat /\ m - 1 < m /\ (m - 1) + 1 = m
  BY <1>5
<1>7. m - 1 \in Bad
  BY <1>4, <1>6
<1>8. <<m - 1, m>> \in Lt
  BY <1>5, <1>6 DEF Lt, OpToRel
<1> QED
  BY <1>4, <1>7, <1>8

\* The loop over v is well defined: it starts at 0, adds one element a round
\* and stays an integer.  (The recursive function exists by induction on the
\* length of its prefix, and CHOOSE then picks it.)
LEMMA RunningStep ==
    ASSUME NEW v \in Seq(Int)
    PROVE  /\ Running(v)[0] = 0
           /\ \A i \in 1..Len(v) : Running(v)[i] = Running(v)[i - 1] + v[i]
           /\ \A i \in 0..Len(v) : Running(v)[i] \in Int
<1> DEFINE n == Len(v)
<1> DEFINE Def(f) == [i \in 0..n |-> IF i = 0 THEN 0 ELSE f[i - 1] + v[i]]
<1> DEFINE Prefix(k) ==
      {g \in [0..k -> Int] : g[0] = 0 /\ \A i \in 1..k : g[i] = g[i - 1] + v[i]}
<1> DEFINE Ok == {k \in Nat : k <= n => Prefix(k) # {}}
<1>1. n \in Nat /\ \A i \in 1..n : v[i] \in Int
  BY LenProperties, ElementOfSeq
<1> HIDE DEF n
<1>2. 0 \in Ok
  <2>1. [i \in 0..0 |-> 0] \in Prefix(0)
    OBVIOUS
  <2> QED BY <2>1
<1>3. ASSUME NEW k \in Nat, k \in Ok PROVE k + 1 \in Ok
  <2>1. SUFFICES ASSUME k + 1 <= n PROVE Prefix(k + 1) # {}
    OBVIOUS
  <2>2. PICK g \in Prefix(k) : TRUE
    BY <1>1, <1>3, <2>1
  <2> DEFINE h == [i \in 0..(k + 1) |-> IF i = k + 1 THEN g[k] + v[k + 1] ELSE g[i]]
  <2>3. h \in [0..(k + 1) -> Int]
    BY <1>1, <2>1, <2>2
  <2>4. h[0] = 0 /\ \A i \in 1..(k + 1) : h[i] = h[i - 1] + v[i]
    BY <1>1, <2>1, <2>2
  <2>5. h \in Prefix(k + 1)
    BY <2>3, <2>4
  <2> QED BY <2>5
<1>4. n \in Ok
  <2> HIDE DEF Ok
  <2>1. Nat \subseteq Ok
    BY <1>2, <1>3, NatSetInduction
  <2> QED BY <1>1, <2>1
<1>5. PICK g \in Prefix(n) : TRUE
  <2>1. Prefix(n) # {}
    <3> HIDE DEF Prefix
    <3> QED BY <1>1, <1>4
  <2> QED BY <2>1
<1>6. g = Def(g)
  BY <1>1, <1>5
<1>7. Running(v) = CHOOSE f : f = Def(f)
  BY DEF Running, n
<1>8. Running(v) = Def(Running(v))
  BY <1>6, <1>7
<1> DEFINE R == Running(v)
<1> HIDE DEF R
<1>9. R[0] = 0 /\ \A i \in 1..n : R[i] = R[i - 1] + v[i]
  BY <1>1, <1>8 DEF R
<1> DEFINE Whole == {k \in Nat : k <= n => R[k] \in Int}
<1>10. 0 \in Whole
  BY <1>9
<1>11. ASSUME NEW k \in Nat, k \in Whole PROVE k + 1 \in Whole
  <2>1. SUFFICES ASSUME k + 1 <= n PROVE R[k + 1] \in Int
    OBVIOUS
  <2>2. k + 1 \in 1..n /\ (k + 1) - 1 = k /\ k <= n
    BY <1>1, <2>1
  <2>3. R[k + 1] = R[k] + v[k + 1]
    BY <1>9, <2>2
  <2>4. R[k] \in Int /\ v[k + 1] \in Int
    BY <1>1, <1>11, <2>2
  <2> QED BY <2>3, <2>4
<1>12. Nat \subseteq Whole
  <2> HIDE DEF Whole
  <2> QED BY <1>10, <1>11, NatSetInduction
<1> QED
  BY <1>1, <1>9, <1>12 DEF R, n
\* A sum is an integer.
LEMMA SumInt ==
    ASSUME NEW v \in Seq(Int)
    PROVE  Sum(v) \in Int
BY RunningStep, LenProperties DEF Sum

\* Summing two sequences one after the other adds their sums.
LEMMA SumConcat ==
    ASSUME NEW v \in Seq(Int), NEW w \in Seq(Int)
    PROVE  Sum(v \o w) = Sum(v) + Sum(w)
<1> DEFINE u == v \o w
<1> DEFINE m == Len(v)
<1> DEFINE n == Len(w)
<1>1. /\ m \in Nat /\ n \in Nat
      /\ u \in Seq(Int) /\ Len(u) = m + n
      /\ \A i \in 1..m : u[i] = v[i]
      /\ \A i \in 1..n : u[m + i] = w[i]
  BY LenProperties, ConcatProperties
<1> HIDE DEF u, m, n
<1>2. /\ Running(u)[0] = 0
      /\ \A i \in 1..(m + n) : Running(u)[i] = Running(u)[i - 1] + u[i]
  BY <1>1, RunningStep
<1>3. /\ Running(v)[0] = 0
      /\ \A i \in 1..m : Running(v)[i] = Running(v)[i - 1] + v[i]
      /\ \A i \in 0..m : Running(v)[i] \in Int
  BY RunningStep DEF m
<1>4. /\ Running(w)[0] = 0
      /\ \A i \in 1..n : Running(w)[i] = Running(w)[i - 1] + w[i]
      /\ \A i \in 0..n : Running(w)[i] \in Int
  BY RunningStep DEF n
<1>5. \A i \in 1..n : w[i] \in Int
  BY ElementOfSeq DEF n
<1> DEFINE Left == {k \in Nat : k <= m => Running(u)[k] = Running(v)[k]}
<1>6. 0 \in Left
  BY <1>2, <1>3
<1>7. ASSUME NEW k \in Nat, k \in Left PROVE k + 1 \in Left
  BY <1>1, <1>2, <1>3, <1>7
<1>8. Running(u)[m] = Running(v)[m]
  <2>1. Nat \subseteq Left
    <3> HIDE DEF Left
    <3> QED BY <1>6, <1>7, NatSetInduction
  <2> QED BY <1>1, <2>1
<1> DEFINE Right == {k \in Nat : k <= n => Running(u)[m + k] = Running(v)[m] + Running(w)[k]}
<1>9. 0 \in Right
  BY <1>1, <1>3, <1>4, <1>8
<1>10. ASSUME NEW k \in Nat, k \in Right PROVE k + 1 \in Right
  <2>1. SUFFICES ASSUME k + 1 <= n
                 PROVE  Running(u)[m + (k + 1)] = Running(v)[m] + Running(w)[k + 1]
    OBVIOUS
  <2>2. Running(u)[m + (k + 1)] = Running(u)[m + k] + u[m + (k + 1)]
    BY <1>1, <1>2, <2>1
  <2>3. u[m + (k + 1)] = w[k + 1] /\ Running(w)[k + 1] = Running(w)[k] + w[k + 1]
    BY <1>1, <1>4, <2>1
  <2>4. Running(u)[m + k] = Running(v)[m] + Running(w)[k]
    BY <1>1, <1>10, <2>1
  <2>5. Running(v)[m] \in Int /\ Running(w)[k] \in Int /\ w[k + 1] \in Int
    BY <1>1, <1>3, <1>4, <1>5, <2>1
  <2> QED BY <2>2, <2>3, <2>4, <2>5
<1>11. Nat \subseteq Right
  <2> HIDE DEF Right
  <2> QED BY <1>9, <1>10, NatSetInduction
<1>12. Running(u)[m + n] = Running(v)[m] + Running(w)[n]
  BY <1>1, <1>11
<1> QED
  BY <1>1, <1>12 DEF Sum, u, m, n

\* A sum of zeros is zero.
LEMMA SumZero ==
    ASSUME NEW v \in Seq(Int), \A i \in 1..Len(v) : v[i] = 0
    PROVE  Sum(v) = 0
<1> DEFINE n == Len(v)
<1>1. n \in Nat
  BY LenProperties
<1>2. /\ Running(v)[0] = 0
      /\ \A i \in 1..n : Running(v)[i] = Running(v)[i - 1] + v[i]
  BY RunningStep
<1> HIDE DEF n
<1> DEFINE Zero == {k \in Nat : k <= n => Running(v)[k] = 0}
<1>3. 0 \in Zero
  BY <1>2
<1>4. ASSUME NEW k \in Nat, k \in Zero PROVE k + 1 \in Zero
  BY <1>1, <1>2, <1>4 DEF n
<1>5. Nat \subseteq Zero
  <2> HIDE DEF Zero
  <2> QED BY <1>3, <1>4, NatSetInduction
<1> QED
  BY <1>1, <1>5 DEF Sum, n

\* The sum of two elements.
LEMMA SumTwo ==
    ASSUME NEW v \in Seq(Int), Len(v) = 2
    PROVE  Sum(v) = v[1] + v[2]
<1> DEFINE R == Running(v)
<1>1. R[0] = 0 /\ \A i \in 1..2 : R[i] = R[i - 1] + v[i]
  BY RunningStep
<1> HIDE DEF R
<1>2. 1 \in 1..2 /\ 2 \in 1..2 /\ 1 - 1 = 0 /\ 2 - 1 = 1
  OBVIOUS
<1>3. R[1] = R[0] + v[1] /\ R[2] = R[1] + v[2]
  BY <1>1, <1>2
<1>4. \A i \in 1..Len(v) : v[i] \in Int
  BY ElementOfSeq
<1>5. v[1] \in Int /\ v[2] \in Int
  BY <1>2, <1>4
<1> QED
  BY <1>1, <1>3, <1>5 DEF Sum, R

-----------------------------------------------------------------------------

\* The effects of rows on an account are integers, one per row, and those of a
\* concatenation are the concatenated effects.
LEMMA EffectsSeq ==
    ASSUME NEW a \in Accounts, NEW rows \in Seq(Row)
    PROVE  /\ Effects(a, rows) \in Seq(Int)
           /\ Len(Effects(a, rows)) = Len(rows)
           /\ \A i \in 1..Len(rows) : Effects(a, rows)[i] = Effect(a, rows[i])
<1>1. Len(rows) \in Nat
  BY LenProperties
<1>2. \A i \in 1..Len(rows) : rows[i] \in Row
  BY ElementOfSeq
<1>3. \A i \in 1..Len(rows) : Effect(a, rows[i]) \in Int
  BY <1>2, BooksAssumption DEF Effect, Row
<1> QED
  BY <1>1, <1>3 DEF Effects

\* Effects distributes over concatenation: the rows of a request come last.
LEMMA EffectsConcat ==
    ASSUME NEW a \in Accounts, NEW s \in Seq(Row), NEW t \in Seq(Row)
    PROVE  Effects(a, s \o t) = Effects(a, s) \o Effects(a, t)
<1>1. /\ s \o t \in Seq(Row)
      /\ Len(s) \in Nat /\ Len(t) \in Nat
      /\ Len(s \o t) = Len(s) + Len(t)
      /\ \A i \in 1..(Len(s) + Len(t)) :
            (s \o t)[i] = IF i <= Len(s) THEN s[i] ELSE t[i - Len(s)]
  BY LenProperties, ConcatProperties
<1> DEFINE es == Effects(a, s)
<1> DEFINE et == Effects(a, t)
<1> DEFINE est == Effects(a, s \o t)
<1>2. /\ es \in Seq(Int) /\ Len(es) = Len(s)
      /\ \A i \in 1..Len(s) : es[i] = Effect(a, s[i])
  BY EffectsSeq
<1>3. /\ et \in Seq(Int) /\ Len(et) = Len(t)
      /\ \A i \in 1..Len(t) : et[i] = Effect(a, t[i])
  BY EffectsSeq
<1>4. /\ est \in Seq(Int) /\ Len(est) = Len(s) + Len(t)
      /\ \A i \in 1..(Len(s) + Len(t)) : est[i] = Effect(a, (s \o t)[i])
  BY <1>1, EffectsSeq
<1> HIDE DEF es, et, est
<1>5. /\ es \o et \in Seq(Int) /\ Len(es \o et) = Len(s) + Len(t)
      /\ \A i \in 1..(Len(s) + Len(t)) :
            (es \o et)[i] = IF i <= Len(s) THEN es[i] ELSE et[i - Len(s)]
  <2>1. es \in Seq(Int) /\ et \in Seq(Int)
    BY <1>2, <1>3
  <2>2. /\ es \o et \in Seq(Int) /\ Len(es \o et) = Len(es) + Len(et)
        /\ \A i \in 1..(Len(es) + Len(et)) :
              (es \o et)[i] = IF i <= Len(es) THEN es[i] ELSE et[i - Len(es)]
    BY <2>1, ConcatProperties
  <2>3. Len(es) = Len(s) /\ Len(et) = Len(t)
    BY <1>2, <1>3
  <2> QED BY <2>2, <2>3
<1>6. ASSUME NEW i \in 1..(Len(s) + Len(t)) PROVE est[i] = (es \o et)[i]
  <2>1. CASE i <= Len(s)
    BY <1>1, <1>2, <1>4, <1>5, <2>1
  <2>2. CASE ~(i <= Len(s))
    <3>1. i - Len(s) \in 1..Len(t)
      BY <1>1, <2>2
    <3> QED BY <1>1, <1>3, <1>4, <1>5, <2>2, <3>1
  <2> QED BY <2>1, <2>2
<1>7. est = es \o et
  BY <1>4, <1>5, <1>6, SeqEqual
<1> QED
  BY <1>7 DEF es, et, est

\* Deriving the balance from a longer journal is applying the new rows to the
\* balance derived before: BalanceFromEntries and ApplyEntries agree.
LEMMA BalanceOfAppend ==
    ASSUME NEW a \in Accounts, NEW s \in Seq(Row), NEW t \in Seq(Row)
    PROVE  /\ BalanceFromEntries(a, s) \in Int
           /\ BalanceFromEntries(a, s \o t) = ApplyEntries(a, BalanceFromEntries(a, s), t)
  BY EffectsSeq, EffectsConcat, SumInt, SumConcat DEF BalanceFromEntries, ApplyEntries

\* Rows that do not mention an account leave its balance alone.
LEMMA BalanceUntouched ==
    ASSUME NEW a \in Accounts, NEW s \in Seq(Row), NEW t \in Seq(Row),
           a \notin UniqueAccountIDs(t)
    PROVE  BalanceFromEntries(a, s \o t) = BalanceFromEntries(a, s)
<1>1. \A i \in 1..Len(t) : Effect(a, t[i]) = 0
  BY DEF UniqueAccountIDs, Effect
<1>2. Sum(Effects(a, t)) = 0
  BY <1>1, EffectsSeq, SumZero, ZenonT(30)
<1> QED
  BY <1>2, BalanceOfAppend DEF ApplyEntries

\* Appending a balanced transaction keeps debits equal to credits.
LEMMA BalancedAppend ==
    ASSUME NEW s \in Seq(Row), NEW t \in Seq(Row),
           ValidateBalanced(s), ValidateBalanced(t)
    PROVE  ValidateBalanced(s \o t)
<1>1. ASSUME NEW side \in Sides
      PROVE  SumBySide(side, s \o t) = SumBySide(side, s) + SumBySide(side, t)
  <2> DEFINE On(rows) == AmountsOn(side, rows)
  <2>1. ASSUME NEW rows \in Seq(Row)
        PROVE  /\ On(rows) \in Seq(Int)
               /\ Len(On(rows)) = Len(rows)
               /\ \A i \in 1..Len(rows) :
                     On(rows)[i] = IF rows[i].side = side THEN rows[i].amount ELSE 0
    <3>1. Len(rows) \in Nat /\ \A i \in 1..Len(rows) : rows[i] \in Row
      BY LenProperties, ElementOfSeq
    <3>2. \A i \in 1..Len(rows) : rows[i].amount \in Int
      BY <3>1, BooksAssumption DEF Row
    <3> QED BY <3>1, <3>2 DEF AmountsOn
  <2>2. /\ s \o t \in Seq(Row)
        /\ Len(s) \in Nat /\ Len(t) \in Nat
        /\ Len(s \o t) = Len(s) + Len(t)
        /\ \A i \in 1..(Len(s) + Len(t)) :
              (s \o t)[i] = IF i <= Len(s) THEN s[i] ELSE t[i - Len(s)]
    BY LenProperties, ConcatProperties
  <2> HIDE DEF On
  <2>3. /\ On(s) \o On(t) \in Seq(Int)
        /\ Len(On(s) \o On(t)) = Len(s) + Len(t)
        /\ \A i \in 1..(Len(s) + Len(t)) : (On(s) \o On(t))[i] =
              IF i <= Len(s) THEN On(s)[i] ELSE On(t)[i - Len(s)]
    <3> DEFINE os == On(s)
    <3> DEFINE ot == On(t)
    <3>1. os \in Seq(Int) /\ ot \in Seq(Int) /\ Len(os) = Len(s) /\ Len(ot) = Len(t)
      BY <2>1
    <3> HIDE DEF os, ot
    <3>2. /\ os \o ot \in Seq(Int) /\ Len(os \o ot) = Len(os) + Len(ot)
          /\ \A i \in 1..(Len(os) + Len(ot)) :
                (os \o ot)[i] = IF i <= Len(os) THEN os[i] ELSE ot[i - Len(os)]
      BY <3>1, ConcatProperties
    <3> QED BY <3>1, <3>2 DEF os, ot
  <2>4. ASSUME NEW i \in 1..(Len(s) + Len(t)) PROVE On(s \o t)[i] = (On(s) \o On(t))[i]
    <3>1. On(s \o t)[i] = IF (s \o t)[i].side = side THEN (s \o t)[i].amount ELSE 0
      BY <2>1, <2>2
    <3>2. CASE i <= Len(s)
      BY <2>1, <2>2, <2>3, <3>1, <3>2
    <3>3. CASE ~(i <= Len(s))
      <4>1. i - Len(s) \in 1..Len(t)
        BY <2>2, <3>3
      <4> QED BY <2>1, <2>2, <2>3, <3>1, <3>3, <4>1
    <3> QED BY <3>2, <3>3
  <2>5. On(s \o t) = On(s) \o On(t)
    <3> DEFINE whole == On(s \o t)
    <3> DEFINE parts == On(s) \o On(t)
    <3>1. whole \in Seq(Int) /\ Len(whole) = Len(s) + Len(t)
      BY <2>1, <2>2
    <3>2. parts \in Seq(Int) /\ Len(parts) = Len(s) + Len(t)
      BY <2>3
    <3>3. \A i \in 1..Len(whole) : whole[i] = parts[i]
      BY <2>4, <3>1
    <3> HIDE DEF whole, parts
    <3>4. whole = parts
      BY <3>1, <3>2, <3>3, SeqEqual
    <3> QED BY <3>4 DEF whole, parts
  <2>6. Sum(On(s \o t)) = Sum(On(s)) + Sum(On(t))
    BY <2>1, <2>5, SumConcat
  <2> QED BY <2>6 DEF On, SumBySide
<1> QED
  BY <1>1 DEF ValidateBalanced, Sides
=============================================================================
