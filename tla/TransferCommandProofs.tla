----------------------- MODULE TransferCommandProofs -----------------------
(***************************************************************************)
(* Proofs about TransferCommand. The arithmetic of Money is exact for      *)
(* every width of the integer, and an amount survives the trip through     *)
(* its text. The loop of ibanMod97 computes the remainder of ISO 13616 for *)
(* letters of any number, so of the texts in ASCII the parser passes       *)
(* exactly the Saudi IBANs, and a retry is recognised in any spelling.     *)
(***************************************************************************)
EXTENDS TransferCommand, TLAPS, WellFoundedInduction, SequenceTheorems

\* A remainder of a dividend below the divisor.
LEMMA SmallMod ==
    ASSUME NEW n \in Nat, NEW d \in Nat, n < d
    PROVE  n % d = n
    OBVIOUS

\* An exact result that fits is what the machine computes.
LEMMA WrapFits ==
    ASSUME NEW n \in Int64
    PROVE  Wrap(n) = n
<1> DEFINE H == MaxInt64 + 1
<1>1. H \in Nat /\ MinInt64 = -H /\ n >= -H /\ n <= H - 1 /\ n \in Int
    BY IntAssumption DEF Int64, MinInt64
<1> HIDE DEF H
<1>2. n - MinInt64 \in Nat /\ n - MinInt64 < 2 * H
    BY <1>1
<1>3. (n - MinInt64) % (2 * H) = n - MinInt64
    BY <1>1, <1>2, SmallMod
<1>4. Wrap(n) = MinInt64 + ((n - MinInt64) % (2 * H))
    BY DEF Wrap, H
<1> QED
    BY <1>1, <1>3, <1>4

\* safeAdd refuses exactly the sums an int64 cannot hold, and computes every
\* other sum exactly (Money.Add).
THEOREM AddExact ==
    ASSUME NEW a \in Int64, NEW b \in Int64
    PROVE  /\ AddOverflows(a, b) <=> a + b \notin Int64
           /\ ~AddOverflows(a, b) => Add(a, b) = a + b
<1>1. a \in Int /\ b \in Int /\ MaxInt64 \in Int /\ MinInt64 \in Int
    BY IntAssumption DEF Int64, MinInt64
<1>2. ASSUME b > 0 PROVE Wrap(MaxInt64 - b) = MaxInt64 - b
    <2>1. MaxInt64 - b \in Int64
        BY <1>2, IntAssumption DEF Int64, MinInt64
    <2> QED
        BY <2>1, WrapFits
<1>3. ASSUME b < 0 PROVE Wrap(MinInt64 - b) = MinInt64 - b
    <2>1. MinInt64 - b \in Int64
        BY <1>3, IntAssumption DEF Int64, MinInt64
    <2> QED
        BY <2>1, WrapFits
<1>4. AddOverflows(a, b) <=> a + b \notin Int64
    BY <1>1, <1>2, <1>3, IntAssumption DEF AddOverflows, Int64, MinInt64
<1> QED
    BY <1>4, WrapFits DEF Add

\* safeSub, likewise; b may be the smallest int64, whose negation is not one.
THEOREM SubExact ==
    ASSUME NEW a \in Int64, NEW b \in Int64
    PROVE  /\ SubOverflows(a, b) <=> a - b \notin Int64
           /\ ~SubOverflows(a, b) => Sub(a, b) = a - b
<1>1. a \in Int /\ b \in Int /\ MaxInt64 \in Int /\ MinInt64 \in Int
    BY IntAssumption DEF Int64, MinInt64
<1>2. ASSUME b < 0 PROVE Wrap(MaxInt64 + b) = MaxInt64 + b
    <2>1. MaxInt64 + b \in Int64
        BY <1>2, IntAssumption DEF Int64, MinInt64
    <2> QED
        BY <2>1, WrapFits
<1>3. ASSUME b > 0 PROVE Wrap(MinInt64 + b) = MinInt64 + b
    <2>1. MinInt64 + b \in Int64
        BY <1>3, IntAssumption DEF Int64, MinInt64
    <2> QED
        BY <2>1, WrapFits
<1>4. SubOverflows(a, b) <=> a - b \notin Int64
    BY <1>1, <1>2, <1>3, IntAssumption DEF SubOverflows, Int64, MinInt64
<1> QED
    BY <1>4, WrapFits DEF Sub

\* String and ParseSAR are inverse on every amount a transfer may have.
THEOREM StringReadsBack ==
    ASSUME NEW m \in 0..MaxInt64
    PROVE  /\ String(m) \in Text
           /\ ~ParseRefuses(String(m))
           /\ ParseSAR(String(m)) = m
<1> DEFINE q == m \div 100
           h == m % 100
           x == h \div 10
           y == h % 10
           t == String(m)
<1>1. m \in Int /\ m >= 0 /\ m <= MaxInt64 /\ MaxInt64 \in Nat
    BY IntAssumption
<1>2. q \in 0..m /\ h \in 0..99 /\ m = q * 100 + h
    BY <1>1
<1>3. x \in 0..9 /\ y \in 0..9 /\ h = 10 * x + y
    BY <1>2
<1>4. t = [minus |-> FALSE, riyals |-> q, dot |-> TRUE, frac |-> <<x, y>>]
    <2>1. (m < 0) = FALSE
        BY <1>1
    <2>2. (IF m < 0 THEN Wrap(-m) ELSE m) = m
        BY <2>1, Zenon
    <2> QED
        BY <2>1, <2>2, Zenon DEF String, HalalasPerSAR
<1> HIDE DEF q, h, x, y, t
<1>5. t \in Text
    BY <1>2, <1>3, <1>4 DEF Text, Digit
<1>0. Padded(t) = <<x, y>> /\ x \in Digit /\ y \in Digit
    BY <1>3, <1>4 DEF Padded, Digit
<1>6. Fraction(t) = h /\ ~FractionRefuses(t)
    <2>1. Fraction(t) = 10 * x + y
        <3> DEFINE frac == Padded(t)
        <3>1. frac[1] = x /\ frac[2] = y /\ t.dot
            BY <1>0, <1>4
        <3>2. Fraction(t) = CASE frac[1] \in Digit -> 10 * frac[1] + frac[2]
                              [] frac[1] = Plus -> frac[2]
                              [] frac[1] = Minus -> -frac[2]
            BY <3>1, Zenon DEF Fraction
        <3> HIDE DEF frac
        <3>3. x # Plus /\ x # Minus
            BY <1>3 DEF Plus, Minus
        <3> QED
            BY <1>0, <3>1, <3>2, <3>3
    <2>2. Len(t.frac) \in 1..2
        BY <1>4
    <2>3. x # OtherMark
        BY <1>3 DEF OtherMark
    <2> QED
        BY <1>0, <1>3, <2>1, <2>2, <2>3 DEF FractionRefuses
<1>7. q \in Int64 /\ m \in Int64
    BY <1>1, <1>2 DEF Int64, MinInt64
<1>8. ~ParseRefuses(t)
    BY <1>2, <1>4, <1>6, <1>7 DEF ParseRefuses, SARRefuses, HalalasPerSAR
<1>9. ParseSAR(t) = Wrap(m)
    BY <1>2, <1>4, <1>6 DEF ParseSAR, SAR, HalalasPerSAR
<1> QED
    BY <1>5, <1>7, <1>8, <1>9, WrapFits DEF t

\* FundsRefuse in exact arithmetic, for balances and amounts of a transfer.
LEMMA FundsExact ==
    ASSUME NEW from \in 0..MaxInt64, NEW to \in 0..MaxInt64, NEW m \in 1..MaxInt64
    PROVE  /\ FundsRefuse(from, to, m) <=> (from < m \/ to + m > MaxInt64)
           /\ ~FundsRefuse(from, to, m) => Sub(from, m) = from - m /\ Add(to, m) = to + m
<1>1. from \in Int64 /\ to \in Int64 /\ m \in Int64
    BY IntAssumption DEF Int64, MinInt64
<1>2. SubOverflows(from, m) <=> from - m \notin Int64
    BY <1>1, SubExact
<1>3. ~SubOverflows(from, m) => Sub(from, m) = from - m
    BY <1>1, SubExact
<1>4. AddOverflows(to, m) <=> to + m \notin Int64
    BY <1>1, AddExact
<1>5. ~AddOverflows(to, m) => Add(to, m) = to + m
    BY <1>1, AddExact
<1>6. from - m \in Int64 /\ (to + m \notin Int64 <=> to + m > MaxInt64)
    BY IntAssumption DEF Int64, MinInt64
<1> QED
    BY <1>2, <1>3, <1>4, <1>5, <1>6, IntAssumption DEF FundsRefuse

\* The inductive invariant: while a transfer is posted its amount has gone from
\* the payer to the payee, so giving it back fits.
AmountInv ==
    /\ TypeOK
    /\ MoneyConserved
    /\ shown = 0 \/ (stage = "posted" /\ shown = amount)
    /\ stage = "posted" => /\ stored = String(amount)
                           /\ payee >= amount
                           /\ payer + amount <= MaxInt64

\* Results of ParseSAR and of Wrap are machine integers.
LEMMA WrapType ==
    ASSUME NEW n \in Int
    PROVE  Wrap(n) \in Int64
<1> DEFINE H == MaxInt64 + 1
           k == (n - MinInt64) % (2 * H)
<1>1. H \in Nat /\ H > 0 /\ MinInt64 = -H /\ MinInt64 \in Int
    BY IntAssumption DEF MinInt64
<1>2. 2 * H \in Nat /\ 2 * H > 0 /\ n - MinInt64 \in Int
    BY <1>1
<1>3. k \in 0..(2 * H - 1)
    BY <1>2
<1>4. Wrap(n) = MinInt64 + k
    BY DEF Wrap
<1> HIDE DEF k
<1>5. MaxInt64 = H - 1 /\ MaxInt64 \in Int
    BY IntAssumption
<1> QED
    BY <1>1, <1>3, <1>4, <1>5 DEF Int64

\* A text the parser accepts yields an int64, whatever was typed.
LEMMA ParseType ==
    ASSUME NEW t \in Text, ~ParseRefuses(t)
    PROVE  ParseSAR(t) \in Int64
<1>1. Fraction(t) \in Int /\ t.riyals \in Int
    <2>1. t.riyals \in Int
        BY DEF Text
    <2>2. ~SARRefuses(t.riyals, Fraction(t))
        BY Zenon DEF ParseRefuses
    <2>3. Fraction(t) \in 0..(HalalasPerSAR - 1)
        BY <2>2, Zenon DEF SARRefuses
    <2> QED
        BY <2>1, <2>3 DEF HalalasPerSAR
<1>2. t.riyals * 100 + Fraction(t) \in Int
    BY <1>1
<1>3. SAR(t.riyals, Fraction(t)) \in Int64
    BY <1>2, WrapType DEF SAR, HalalasPerSAR
<1>4. -SAR(t.riyals, Fraction(t)) \in Int
    BY <1>3, IntAssumption DEF Int64, MinInt64
<1>5. Negate(SAR(t.riyals, Fraction(t))) \in Int64
    BY <1>4, WrapType DEF Negate
<1> QED
    BY <1>3, <1>5 DEF ParseSAR

\* AmountInv holds in every reachable state: ParseSAR, the checked arithmetic
\* and String keep it whatever clients type.
THEOREM AmountInvariant == Spec => []AmountInv
<1>1. Init => AmountInv
    <2> SUFFICES ASSUME Init PROVE AmountInv
        OBVIOUS
    <2>1. 0 \in 0..MaxInt64 /\ 0 \in Int64
        BY IntAssumption DEF Int64, MinInt64
    <2>2. String(0) \in Text
        BY <2>1, StringReadsBack
    <2>5. Blank \in Command
        BY <2>2 DEF Blank, Command, IbanText
    <2>3. payer \in Int64 /\ payee \in Int64 /\ payer >= 0 /\ payee >= 0
        BY IntAssumption, AmountAssumption DEF Init, Int64, MinInt64
    <2>4. payer + payee = PayerOpening + PayeeOpening /\ posts \in 0..MaxPosts
        BY AmountAssumption DEF Init
    <2> QED
        BY <2>1, <2>2, <2>3, <2>4, <2>5 DEF Init, AmountInv, TypeOK, MoneyConserved
<1>2. AmountInv /\ [Next]_vars => AmountInv'
    <2> SUFFICES ASSUME AmountInv, [Next]_vars PROVE AmountInv'
        OBVIOUS
    <2> USE DEF AmountInv, TypeOK, MoneyConserved
    <2>0. MaxInt64 \in Nat /\ 0 \in Int64 /\ (\A n \in Int : n \in Int64 <=> n >= -MaxInt64 - 1 /\ n <= MaxInt64)
        BY IntAssumption DEF Int64, MinInt64
    <2>a. payer \in 0..MaxInt64 /\ payee \in 0..MaxInt64
        BY IntAssumption DEF Int64, MinInt64
    <2>b. stage \in {"checked", "posted"} => amount \in 1..MaxInt64
        BY IntAssumption DEF Int64, MinInt64
    <2>c. String(0) \in Text /\ Blank \in Command
        BY <2>0, StringReadsBack DEF Blank, Command, IbanText
    <2>d. ASSUME Finish, payer' \in Int64, payee' \in Int64, payer' >= 0, payee' >= 0,
                 payer' + payee' = payer + payee, UNCHANGED posts
          PROVE  AmountInv'
        BY <2>0, <2>c, <2>d DEF Finish
    <2>1. ASSUME NEW c \in Commands, Create(c) PROVE AmountInv'
        <3>1. c \in Command /\ c.amount \in Text
            BY AmountAssumption DEF Command
        <3>2. ParseSAR(c.amount) \in Int64 /\ ParseSAR(c.amount) > 0
            BY <2>1, <3>1, ParseType DEF Create, Validate
        <3> QED
            BY <2>0, <2>1, <3>1, <3>2 DEF Create, balances, retry
    <2>8. ASSUME NEW c \in Commands, CreateRefused(c) PROVE AmountInv'
        BY <2>8, AmountAssumption DEF CreateRefused, balances, retry
    <2>9. ASSUME NEW c \in Commands, Retry(c) PROVE AmountInv'
        BY <2>9, AmountAssumption DEF Retry, balances
    <2>2. CASE PostTransfer
        <3>1. amount \in 1..MaxInt64
            BY <2>2, <2>b DEF PostTransfer
        <3>2. /\ payer' = payer - amount /\ payee' = payee + amount
              /\ payer >= amount /\ payee + amount <= MaxInt64
            <4>1. ~FundsRefuse(payer, payee, amount)
                BY <2>2 DEF PostTransfer
            <4>2. /\ ~(payer < amount \/ payee + amount > MaxInt64)
                  /\ Sub(payer, amount) = payer - amount
                  /\ Add(payee, amount) = payee + amount
                BY <4>1, <2>a, <3>1, FundsExact, Zenon
            <4> QED
                BY <4>2, <2>0, <2>2, <2>a, <3>1 DEF PostTransfer
        <3>3. String(amount) \in Text
            BY <2>0, <3>1, StringReadsBack
        <3>4. posts' \in 0..MaxPosts
            BY <2>2, AmountAssumption DEF PostTransfer
        <3>5. /\ payer' \in 0..MaxInt64 /\ payee' \in 0..MaxInt64
              /\ payer' + payee' = payer + payee
              /\ payee' >= amount /\ payer' + amount <= MaxInt64
            BY <2>0, <2>a, <3>1, <3>2
        <3>6. payer' \in Int64 /\ payee' \in Int64
            BY <2>0, <3>5
        <3> QED
            BY <2>2, <2>0, <3>3, <3>4, <3>5, <3>6 DEF PostTransfer, retry
    <2>3. CASE PostRefused
        BY <2>3, <2>d DEF PostRefused, balances
    <2>4. CASE GetStatus
        <3>1. ParseSAR(stored) = amount
            BY <2>0, <2>4, <2>b, StringReadsBack DEF GetStatus
        <3> QED
            BY <2>4, <3>1 DEF GetStatus, balances, retry
    <2>5. CASE Over
        BY <2>5, <2>d DEF Over, balances
    <2>6. CASE Compensate
        <3>1. amount \in 1..MaxInt64
            BY <2>6, <2>b DEF Compensate
        <3>2. /\ payee' = payee - amount /\ payer' = payer + amount
              /\ payee >= amount /\ payer + amount <= MaxInt64
            <4>1. ~FundsRefuse(payee, payer, amount)
                BY <2>6 DEF Compensate
            <4>2. /\ ~(payee < amount \/ payer + amount > MaxInt64)
                  /\ Sub(payee, amount) = payee - amount
                  /\ Add(payer, amount) = payer + amount
                BY <4>1, <2>a, <3>1, FundsExact, Zenon
            <4> QED
                BY <4>2, <2>0, <2>6, <2>a, <3>1 DEF Compensate
        <3>5. /\ payer' \in 0..MaxInt64 /\ payee' \in 0..MaxInt64
              /\ payer' + payee' = payer + payee
            BY <2>0, <2>a, <3>1, <3>2
        <3>6. payer' \in Int64 /\ payee' \in Int64
            BY <2>0, <3>5
        <3> QED
            BY <2>6, <2>0, <2>d, <3>5, <3>6 DEF Compensate
    <2>7. CASE UNCHANGED vars
        BY <2>7 DEF vars, balances, retry
    <2> QED
        BY <2>1, <2>2, <2>3, <2>4, <2>5, <2>6, <2>7, <2>8, <2>9 DEF Next
<1> QED
    BY <1>1, <1>2, PTL DEF Spec

\* No balance wraps and no halala appears or disappears, for every width of the
\* integer and every text typed (safeAdd, safeSub).
THEOREM ArithmeticConserves == Spec => []MoneyConserved
<1>1. AmountInv => MoneyConserved
    BY DEF AmountInv
<1> QED
    BY <1>1, AmountInvariant, PTL

\* The text in command_json always reads back as the posted amount (String,
\* CommandFromJSON).
THEOREM StoredTextReads == Spec => []StoredAmountReads
<1>1. AmountInv => StoredAmountReads
    <2> SUFFICES ASSUME AmountInv, stage = "posted" PROVE StoredAmountReads
        BY DEF StoredAmountReads
    <2>1. amount \in 0..MaxInt64
        BY IntAssumption DEF AmountInv, TypeOK, Int64, MinInt64
    <2> QED
        BY <2>1, StringReadsBack DEF AmountInv, StoredAmountReads
<1> QED
    BY <1>1, AmountInvariant, PTL

\* A posted transfer can always be given back (ProcessOnce, compensate), as far
\* as its two balances have not moved since.
THEOREM CompensationAlwaysFits == Spec => []CompensationFits
<1>1. AmountInv => CompensationFits
    <2> SUFFICES ASSUME AmountInv, stage = "posted" PROVE CompensationFits
        BY DEF CompensationFits
    <2>1. amount \in 1..MaxInt64 /\ payer \in 0..MaxInt64 /\ payee \in 0..MaxInt64
        BY IntAssumption DEF AmountInv, TypeOK, MoneyConserved, Int64, MinInt64
    <2>2. ~(payee < amount \/ payer + amount > MaxInt64)
        BY <2>1, IntAssumption DEF AmountInv
    <2>3. ~FundsRefuse(payee, payer, amount)
        BY <2>1, <2>2, FundsExact, Zenon
    <2> QED
        BY <2>3 DEF CompensationFits
<1> QED
    BY <1>1, AmountInvariant, PTL

-----------------------------------------------------------------------------
\* The loops over a text.

\* Induction from 0 up to n, over a set.
LEMMA UpTo ==
    ASSUME NEW n \in Nat, NEW T, 0 \in T, \A i \in 1..n : i - 1 \in T => i \in T
    PROVE  0..n \subseteq T
<1> DEFINE Lt == OpToRel(<, Nat)
           Bad == {i \in 0..n : i \notin T}
<1>1. SUFFICES ASSUME Bad # {} PROVE FALSE
    OBVIOUS
<1>2. IsWellFoundedOn(Lt, Nat)
    BY NatLessThanWellFounded
<1>3. Bad \subseteq Nat
    OBVIOUS
<1> HIDE DEF Lt
<1>4. PICK m \in Bad : \A k \in Bad : ~ (<<k, m>> \in Lt)
    <2> HIDE DEF Bad
    <2> QED
        BY <1>1, <1>2, <1>3, WFMin
<1>5. m \in 1..n
    BY <1>4
<1>6. m - 1 \in Bad
    BY <1>4, <1>5
<1>7. <<m - 1, m>> \in Lt
    BY <1>5 DEF Lt, OpToRel
<1> QED
    BY <1>4, <1>6, <1>7

\* The runs of a loop of n rounds, each of which takes a value to the next.
Runs(n, S, init, step) ==
    {g \in [0..n -> S] : g[0] = init /\ \A i \in 1..n : g[i] = step[i][g[i - 1]]}

\* Such a loop can be run.
LEMMA LoopRuns ==
    ASSUME NEW n \in Nat, NEW S, NEW init \in S, NEW step \in [1..n -> [S -> S]]
    PROVE  Runs(n, S, init, step) # {}
<1> DEFINE Ok == {k \in 0..n : Runs(k, S, init, step) # {}}
<1>1. 0 \in Ok
    <2>1. [i \in 0..0 |-> init] \in Runs(0, S, init, step)
        BY DEF Runs
    <2> QED
        BY <2>1
<1>2. ASSUME NEW k \in 1..n, k - 1 \in Ok PROVE k \in Ok
    <2>1. PICK g \in Runs(k - 1, S, init, step) : TRUE
        BY <1>2
    <2> DEFINE e == [i \in 0..k |-> IF i = k THEN step[k][g[k - 1]] ELSE g[i]]
    <2>2. e \in [0..k -> S]
        BY <2>1 DEF Runs
    <2>3. e[0] = init /\ \A i \in 1..k : e[i] = step[i][e[i - 1]]
        BY <2>1 DEF Runs
    <2>4. e \in Runs(k, S, init, step)
        BY <2>2, <2>3 DEF Runs
    <2> QED
        BY <2>4
<1>3. 0..n \subseteq Ok
    <2> HIDE DEF Ok
    <2> QED
        BY <1>1, <1>2, UpTo
<1> QED
    BY <1>3

\* Whatever runs like it stays in S.
LEMMA LoopStays ==
    ASSUME NEW n \in Nat, NEW S, NEW f, f[0] \in S,
           \A i \in 1..n : f[i - 1] \in S => f[i] \in S
    PROVE  \A i \in 0..n : f[i] \in S
<1> DEFINE T == {i \in 0..n : f[i] \in S}
<1>1. 0 \in T /\ \A i \in 1..n : i - 1 \in T => i \in T
    OBVIOUS
<1> HIDE DEF T
<1>2. 0..n \subseteq T
    BY <1>1, UpTo
<1> QED
    BY <1>2 DEF T

\* The elements of a sequence, by position.
LEMMA Elements ==
    ASSUME NEW S, NEW d \in Seq(S)
    PROVE  Len(d) \in Nat /\ \A i \in 1..Len(d) : d[i] \in S
    BY LenProperties, ElementOfSeq

\* Removing the spaces of a text leaves a text.
LEMMA PackedType ==
    ASSUME NEW raw \in IbanText
    PROVE  Packed(raw) \in Seq(Rune)
<1> DEFINE n == Len(raw)
           S == Seq(Rune)
           next(i, x) == IF Dropped(raw, i) THEN x ELSE Append(x, raw[i])
           Def(f) == [i \in 0..n |-> IF i = 0 THEN <<>> ELSE next(i, f[i - 1])]
           step == [i \in 1..n |-> [x \in S |-> next(i, x)]]
<1>1. n \in Nat /\ \A i \in 1..n : raw[i] \in Rune
    BY DEF IbanText
<1>2. <<>> \in S /\ \A i \in 1..n, x \in S : next(i, x) \in S
    BY <1>1
<1>d. Kept(raw) = CHOOSE f : f = Def(f)
    BY Zenon DEF Kept
<1> HIDE DEF n, S, next
<1>3. step \in [1..n -> [S -> S]]
    BY <1>2
<1>4. PICK g \in Runs(n, S, <<>>, step) : TRUE
    <2> HIDE DEF step
    <2> QED
        BY <1>1, <1>2, <1>3, LoopRuns
<1>5. g = Def(g)
    <2>1. ASSUME NEW i \in 1..n PROVE g[i - 1] \in S /\ g[i] = next(i, g[i - 1])
        <3>1. g[i - 1] \in S /\ g[i] = step[i][g[i - 1]]
            <4> HIDE DEF step
            <4> QED
                BY <1>1, <1>4 DEF Runs
        <3> QED
            BY <3>1
    <2>2. g \in [0..n -> S] /\ g[0] = <<>>
        BY <1>4 DEF Runs
    <2> HIDE DEF step
    <2> QED
        BY <1>1, <2>1, <2>2
<1>6. Kept(raw) = Def(Kept(raw))
    BY <1>5, <1>d
<1> DEFINE R == Kept(raw)
<1> HIDE DEF R
<1>7. R[0] = <<>> /\ \A i \in 1..n : R[i] = next(i, R[i - 1])
    BY <1>1, <1>6 DEF R
<1>8. \A i \in 0..n : R[i] \in S
    <2>1. R[0] \in S
        BY <1>2, <1>7
    <2>2. \A i \in 1..n : R[i - 1] \in S => R[i] \in S
        BY <1>2, <1>7
    <2> QED
        BY <1>1, <2>1, <2>2, LoopStays
<1> QED
    BY <1>1, <1>8 DEF R, n, S, Packed

\* A remainder is a remainder.
LEMMA Rem97 ==
    ASSUME NEW y \in Nat
    PROVE  y % 97 \in 0..96 /\ (y < 97 => y % 97 = y)
    OBVIOUS

\* A value is written as a digit or a capital letter.
LEMMA CodeType ==
    ASSUME NEW v \in Values
    PROVE  /\ Code(v) \in Alphanumeric
           /\ v < 10 => Code(v) \in Numerals /\ Code(v) - 48 = v
           /\ v >= 10 => Code(v) \notin Numerals /\ Code(v) - LetterA + 10 = v
    BY DEF Values, Code, Alphanumeric, Numerals, Capitals, LetterA

\* One round from the left keeps a remainder.
LEMMA ShiftType ==
    ASSUME NEW x \in 0..96, NEW c \in Alphanumeric
    PROVE  Shift(x, c) \in 0..96
    BY DEF Shift, Alphanumeric, Numerals, Capitals, LetterA

\* Likewise for a round from the right, whose factor of a letter is a hundred.
LEMMA WeighType ==
    ASSUME NEW x \in [sum : 0..96, weight : 0..96], NEW v \in Values
    PROVE  Weigh(x, v) \in [sum : 0..96, weight : 0..96]
<1>1. x.sum \in Nat /\ x.weight \in Nat
    OBVIOUS
<1>2. x.sum + v * x.weight \in Nat /\ x.weight * (IF v < 10 THEN 10 ELSE 100) \in Nat
    BY <1>1 DEF Values
<1>3. /\ (x.sum + v * x.weight) % 97 \in 0..96
      /\ (x.weight * (IF v < 10 THEN 10 ELSE 100)) % 97 \in 0..96
    BY <1>2, Rem97
<1> QED
    BY <1>3 DEF Weigh

\* The loop of ibanMod97.
LEMMA RemaindersStep ==
    ASSUME NEW d \in Seq(Alphanumeric)
    PROVE  /\ Remainders(d)[0] = 0
           /\ \A i \in 1..Len(d) : Remainders(d)[i] = Shift(Remainders(d)[i - 1], d[i])
           /\ \A i \in 0..Len(d) : Remainders(d)[i] \in 0..96
<1> DEFINE n == Len(d)
           S == 0..96
           next(i, x) == Shift(x, d[i])
           Def(f) == [i \in 0..n |-> IF i = 0 THEN 0 ELSE next(i, f[i - 1])]
           step == [i \in 1..n |-> [x \in S |-> next(i, x)]]
<1>1. n \in Nat /\ \A i \in 1..n : d[i] \in Alphanumeric
    BY Elements, Zenon
<1>2. 0 \in S /\ \A i \in 1..n, x \in S : next(i, x) \in S
    <2>1. ASSUME NEW i \in 1..n, NEW x \in 0..96 PROVE Shift(x, d[i]) \in 0..96
        <3>1. d[i] \in Alphanumeric
            BY <1>1, Zenon
        <3> QED
            BY <2>1, <3>1, ShiftType, Zenon
    <2>2. 0 \in 0..96
        OBVIOUS
    <2> QED
        BY <2>1, <2>2, Zenon
<1>d. Remainders(d) = CHOOSE f : f = Def(f)
    BY Zenon DEF Remainders
<1> HIDE DEF n, S, next
<1>3. step \in [1..n -> [S -> S]]
    BY <1>2
<1>4. PICK g \in Runs(n, S, 0, step) : TRUE
    <2> HIDE DEF step
    <2> QED
        BY <1>1, <1>2, <1>3, LoopRuns
<1>5. g = Def(g)
    <2>1. ASSUME NEW i \in 1..n PROVE g[i - 1] \in S /\ g[i] = next(i, g[i - 1])
        <3>1. g[i - 1] \in S /\ g[i] = step[i][g[i - 1]]
            <4> HIDE DEF step
            <4> QED
                BY <1>1, <1>4 DEF Runs
        <3> QED
            BY <3>1
    <2>2. g \in [0..n -> S] /\ g[0] = 0
        BY <1>4 DEF Runs
    <2> HIDE DEF step
    <2> QED
        BY <1>1, <2>1, <2>2
<1>6. Remainders(d) = Def(Remainders(d))
    BY <1>5, <1>d
<1> DEFINE R == Remainders(d)
<1> HIDE DEF R
<1>7. R[0] = 0 /\ \A i \in 1..n : R[i] = next(i, R[i - 1])
    BY <1>1, <1>6 DEF R
<1>8. \A i \in 0..n : R[i] \in S
    <2>1. R[0] \in S
        BY <1>2, <1>7
    <2>2. \A i \in 1..n : R[i - 1] \in S => R[i] \in S
        BY <1>2, <1>7
    <2> QED
        BY <1>1, <2>1, <2>2, LoopStays
<1> QED
    BY <1>7, <1>8 DEF R, n, S, next

\* The standard's sum, digit by digit from the right.
LEMMA FromRightStep ==
    ASSUME NEW d \in Seq(Values)
    PROVE  /\ FromRight(d)[0] = [sum |-> 0, weight |-> 1]
           /\ \A k \in 1..Len(d) : FromRight(d)[k] = Weigh(FromRight(d)[k - 1], d[Len(d) - k + 1])
           /\ \A k \in 0..Len(d) : FromRight(d)[k] \in [sum : 0..96, weight : 0..96]
<1> DEFINE n == Len(d)
           S == [sum : 0..96, weight : 0..96]
           zero == [sum |-> 0, weight |-> 1]
           next(k, x) == Weigh(x, d[n - k + 1])
           Def(f) == [k \in 0..n |-> IF k = 0 THEN zero ELSE next(k, f[k - 1])]
           step == [k \in 1..n |-> [x \in S |-> next(k, x)]]
<1>0. n \in Nat /\ \A i \in 1..n : d[i] \in Values
    BY Elements, Zenon
<1>1. n \in Nat /\ \A k \in 1..n : d[n - k + 1] \in Values
    <2> HIDE DEF n
    <2> QED
        BY <1>0
<1>2. zero \in S /\ \A k \in 1..n, x \in S : next(k, x) \in S
    <2>1. ASSUME NEW k \in 1..n, NEW x \in S PROVE Weigh(x, d[n - k + 1]) \in S
        <3>1. d[n - k + 1] \in Values
            BY <1>1, Zenon
        <3> QED
            BY <2>1, <3>1, WeighType, Zenon
    <2>2. zero \in S
        OBVIOUS
    <2> QED
        BY <2>1, <2>2, Zenon
<1>d. FromRight(d) = CHOOSE f : f = Def(f)
    BY Zenon DEF FromRight
<1> HIDE DEF n, S, next, zero
<1>3. step \in [1..n -> [S -> S]]
    BY <1>2
<1>4. PICK g \in Runs(n, S, zero, step) : TRUE
    <2> HIDE DEF step
    <2> QED
        BY <1>1, <1>2, <1>3, LoopRuns
<1>5. g = Def(g)
    <2>1. ASSUME NEW k \in 1..n PROVE g[k - 1] \in S /\ g[k] = next(k, g[k - 1])
        <3>1. g[k - 1] \in S /\ g[k] = step[k][g[k - 1]]
            <4> HIDE DEF step
            <4> QED
                BY <1>1, <1>4 DEF Runs
        <3> QED
            BY <3>1
    <2>2. g \in [0..n -> S] /\ g[0] = zero
        BY <1>4 DEF Runs
    <2> HIDE DEF step
    <2> QED
        BY <1>1, <2>1, <2>2
<1>6. FromRight(d) = Def(FromRight(d))
    BY <1>5, <1>d
<1> DEFINE R == FromRight(d)
<1> HIDE DEF R
<1>7. R[0] = zero /\ \A k \in 1..n : R[k] = next(k, R[k - 1])
    BY <1>1, <1>6 DEF R
<1>8. \A k \in 0..n : R[k] \in S
    <2>1. R[0] \in S
        BY <1>2, <1>7
    <2>2. \A i \in 1..n : R[i - 1] \in S => R[i] \in S
        BY <1>2, <1>7
    <2> QED
        BY <1>1, <2>1, <2>2, LoopStays
<1> QED
    BY <1>7, <1>8 DEF R, n, S, next, zero

-----------------------------------------------------------------------------
\* The two readings of the check digits.

\* A remainder of a product and a summand, with the factor reduced before or not.
Early(a, w, s) == ((a % 97) * w + s) % 97
Late(a, w, s) == (a * w + s) % 97

\* A factor may be reduced before or after.
LEMMA ReduceFirst ==
    ASSUME NEW a \in Nat, NEW w \in Nat, NEW s \in Nat
    PROVE  Early(a, w, s) = Late(a, w, s)
<1> DEFINE q == a \div 97
           r == a % 97
<1>1. q \in Nat /\ r \in 0..96 /\ a = 97 * q + r
    OBVIOUS
<1> HIDE DEF q, r
<1>2. a * w + s = (r * w + s) + 97 * (q * w) /\ q * w \in Nat /\ r * w + s \in Nat
    BY <1>1
<1>3. ASSUME NEW x \in Nat, NEW k \in Nat PROVE (x + 97 * k) % 97 = x % 97
    BY <1>3
<1> QED
    BY <1>2, <1>3 DEF r, Early, Late

\* A letter read as two digits counts a hundredfold.
LEMMA ShiftExact ==
    ASSUME NEW r \in 0..96, NEW v \in Values
    PROVE  Shift(r, Code(v)) = (r * (IF v < 10 THEN 10 ELSE 100) + v) % 97
<1>0. v \in 0..35
    BY DEF Values
<1>1. CASE v < 10
    <2>1. Code(v) \in Numerals /\ Code(v) - 48 = v
        BY <1>1, CodeType
    <2> QED
        BY <1>1, <2>1, Zenon DEF Shift
<1>2. CASE v >= 10
    <2>0. Code(v) \notin Numerals /\ Code(v) - LetterA + 10 = v
        BY <1>2, CodeType
    <2>1. v = 10 * (v \div 10) + (v % 10) /\ v \div 10 \in Nat /\ v % 10 \in Nat
        BY <1>0, <1>2
    <2>2. r * 10 + (v \div 10) \in Nat
        BY <2>1
    <2>3. Shift(r, Code(v)) = ((r * 10 + (v \div 10)) * 10 + (v % 10)) % 97
        <3> DEFINE a == r * 10 + (v \div 10)
                   u == v % 10
        <3>1. Early(a, 10, u) = Late(a, 10, u)
            BY <2>1, <2>2, ReduceFirst
        <3>2. Shift(r, Code(v)) = Early(a, 10, u)
            BY <2>0, Zenon DEF Shift, Early
        <3> QED
            BY <3>1, <3>2 DEF Late
    <2>4. (r * 10 + (v \div 10)) * 10 + (v % 10) = r * 100 + v
        BY <1>0, <2>1
    <2>5. ~(v < 10)
        BY <1>0, <1>2
    <2> QED
        BY <2>3, <2>4, <2>5, Zenon
<1> QED
    BY <1>0, <1>1, <1>2

\* One digit moves from the left part to the right part.
LEMMA DigitMoves ==
    ASSUME NEW r \in 0..96, NEW v \in Values, NEW x \in [sum : 0..96, weight : 0..96]
    PROVE  (r * Weigh(x, v).weight + Weigh(x, v).sum) % 97 = (Shift(r, Code(v)) * x.weight + x.sum) % 97
<1> DEFINE b == IF v < 10 THEN 10 ELSE 100
           w == x.weight
           s == x.sum
<1>1. w \in Nat /\ s \in Nat /\ b \in Nat /\ r \in Nat /\ v \in Nat
    BY DEF Values
<1>2. Weigh(x, v).weight = (w * b) % 97 /\ Weigh(x, v).sum = (s + v * w) % 97
    BY DEF Weigh
<1>3. Shift(r, Code(v)) = (r * b + v) % 97
    BY ShiftExact
<1> HIDE DEF b, w, s
<1>4. (Shift(r, Code(v)) * w + s) % 97 = ((r * b + v) * w + s) % 97
    <2> DEFINE a == r * b + v
    <2>1. a \in Nat
        BY <1>1
    <2> HIDE DEF a
    <2>2. Early(a, w, s) = Late(a, w, s)
        BY <1>1, <2>1, ReduceFirst, Zenon
    <2>3. (Shift(r, Code(v)) * w + s) % 97 = Early(a, w, s)
        BY <1>3, Zenon DEF a, Early
    <2> QED
        BY <2>2, <2>3, Zenon DEF a, Late
<1>5. (r * ((w * b) % 97) + ((s + v * w) % 97)) % 97 = ((w * b) * r + (s + v * w)) % 97
    <2> DEFINE p == w * b
               q == s + v * w
    <2>1. p \in Nat /\ q \in Nat
        BY <1>1
    <2> HIDE DEF p, q
    <2>2. p % 97 \in Nat /\ q % 97 \in Nat /\ p * r \in Nat
        BY <1>1, <2>1
    <2>3. r * (p % 97) + (q % 97) = (p % 97) * r + (q % 97)
        BY <1>1, <2>2
    <2>4. ((p % 97) * r + (q % 97)) % 97 = (p * r + (q % 97)) % 97
        <3>1. Early(p, r, q % 97) = Late(p, r, q % 97)
            BY <1>1, <2>1, <2>2, ReduceFirst, Zenon
        <3> QED
            BY <3>1, Zenon DEF Early, Late
    <2>5. p * r + (q % 97) = (q % 97) * 1 + p * r
        BY <2>2
    <2>6. ((q % 97) * 1 + p * r) % 97 = (q * 1 + p * r) % 97
        <3>1. Early(q, 1, p * r) = Late(q, 1, p * r)
            BY <2>1, <2>2, ReduceFirst
        <3> QED
            BY <3>1, Zenon DEF Early, Late
    <2>7. q * 1 + p * r = p * r + q
        BY <2>1, <2>2
    <2> QED
        BY <2>3, <2>4, <2>5, <2>6, <2>7 DEF p, q
<1>6. (r * b + v) * w + s = (w * b) * r + (s + v * w)
    BY <1>1
<1> QED
    BY <1>2, <1>4, <1>5, <1>6 DEF w, s

\* ibanMod97, from the left and without big integers, computes the remainder the
\* standard defines from the right, for any number of letters; u is how the
\* values d are written.
THEOREM Mod97Exact ==
    ASSUME NEW d \in Seq(Values), NEW u \in Seq(Alphanumeric), Len(u) = Len(d),
           \A i \in 1..Len(d) : u[i] = Code(d[i])
    PROVE  Remainders(u)[Len(u)] = FromRight(d)[Len(d)].sum
<1> DEFINE n == Len(d)
           R == Remainders(u)
           F == FromRight(d)
           Same == {k \in 0..n : (R[n - k] * F[k].weight + F[k].sum) % 97 = R[n]}
<1>0. n \in Nat /\ \A i \in 1..n : d[i] \in Values
    BY Elements, Zenon
<1>1. /\ R[0] = 0 /\ \A i \in 1..n : R[i] = Shift(R[i - 1], Code(d[i]))
      /\ \A i \in 0..n : R[i] \in 0..96
    BY RemaindersStep
<1>2. /\ F[0] = [sum |-> 0, weight |-> 1]
      /\ \A k \in 1..n : F[k] = Weigh(F[k - 1], d[n - k + 1])
      /\ \A k \in 0..n : F[k] \in [sum : 0..96, weight : 0..96]
    BY FromRightStep
<1> HIDE DEF n, R, F
<1>3. 0 \in Same
    <2>1. F[0].sum = 0 /\ F[0].weight = 1 /\ R[n] \in 0..96 /\ n - 0 = n
        <3>1. F[0].sum = 0 /\ F[0].weight = 1
            BY <1>2
        <3>2. n \in 0..n /\ n - 0 = n
            BY <1>0
        <3>3. R[n] \in 0..96
            BY <1>1, <3>2, Zenon
        <3> QED
            BY <3>1, <3>2, <3>3
    <2>2. ASSUME NEW y \in 0..96 PROVE y * 1 + 0 = y /\ y % 97 = y
        BY <2>2, Rem97
    <2>3. R[n - 0] * F[0].weight + F[0].sum = R[n] /\ R[n] % 97 = R[n]
        <3>1. R[n - 0] = R[n]
            BY <2>1
        <3> QED
            BY <2>1, <2>2, <3>1, Zenon
    <2> QED
        BY <1>0, <2>3
<1>4. ASSUME NEW k \in 1..n, k - 1 \in Same PROVE k \in Same
    <2>1. /\ n - k \in 0..n /\ n - k + 1 \in 1..n /\ (n - k + 1) - 1 = n - k
          /\ n - (k - 1) = n - k + 1 /\ k - 1 \in 0..n
        BY <1>0
    <2>2. /\ R[n - k] \in 0..96 /\ d[n - k + 1] \in Values
          /\ F[k - 1] \in [sum : 0..96, weight : 0..96]
          /\ R[n - k + 1] = Shift(R[n - k], Code(d[n - k + 1]))
          /\ F[k] = Weigh(F[k - 1], d[n - k + 1])
        BY <1>0, <1>1, <1>2, <2>1
    <2>3. (R[n - k] * F[k].weight + F[k].sum) % 97
            = (R[n - k + 1] * F[k - 1].weight + F[k - 1].sum) % 97
        <3> DEFINE r == R[n - k]
                   v == d[n - k + 1]
                   x == F[k - 1]
        <3> HIDE DEF r, v, x
        <3>1. (r * Weigh(x, v).weight + Weigh(x, v).sum) % 97 = (Shift(r, Code(v)) * x.weight + x.sum) % 97
            BY <2>2, DigitMoves DEF r, v, x
        <3> QED
            BY <2>2, <3>1 DEF r, v, x
    <2>4. (R[n - k + 1] * F[k - 1].weight + F[k - 1].sum) % 97 = R[n]
        BY <1>4, <2>1
    <2> QED
        BY <2>3, <2>4
<1>5. 0..n \subseteq Same
    <2> HIDE DEF Same
    <2> QED
        BY <1>0, <1>3, <1>4, UpTo
<1>6. (R[n - n] * F[n].weight + F[n].sum) % 97 = R[n]
    BY <1>0, <1>5
<1>7. n - n = 0 /\ F[n].weight \in 0..96 /\ F[n].sum \in 0..96
    BY <1>0, <1>2
<1>8. ASSUME NEW y \in 0..96, NEW z \in 0..96 PROVE 0 * z + y = y /\ y % 97 = y
    BY <1>8, Rem97
<1>9. R[n - n] * F[n].weight + F[n].sum = F[n].sum /\ F[n].sum % 97 = F[n].sum
    <2> DEFINE z == F[n].weight
               y == F[n].sum
    <2>1. R[n - n] = 0
        BY <1>1, <1>7
    <2>2. z \in 0..96 /\ y \in 0..96
        BY <1>7
    <2> HIDE DEF y, z
    <2>3. 0 * z + y = y /\ y % 97 = y
        BY <1>8, <2>2
    <2> QED
        BY <2>1, <2>3, Zenon DEF y, z
<1> QED
    BY <1>6, <1>9 DEF R, F, n

-----------------------------------------------------------------------------
\* What ParseSAIBAN and Fingerprint make of a text.

\* The capital of an ASCII character does not depend on the tables beyond it.
LEMMA AsciiUpper ==
    ASSUME NEW c \in Ascii
    PROVE  ToUpper(c) = (IF c \in 97..122 THEN c - 32 ELSE c) /\ ToUpper(c) \in Ascii
<1>1. c \notin DOMAIN Uppercase
    BY UnicodeAssumption DEF Ascii, Beyond
<1>2. ToUpper(c) = IF c \in 97..122 THEN c - 32 ELSE c
    BY <1>1, Zenon DEF ToUpper
<1> QED
    BY <1>2 DEF Ascii

\* Two characters are the same letter if they have the same capital.
LEMMA SameCapital ==
    ASSUME NEW c \in Rune, NEW d \in Rune
    PROVE  SameChar(c, d) <=> ToUpper(c) = ToUpper(d)
<1>1. CASE c \in Ascii /\ d \in Ascii
    BY <1>1, AsciiUpper DEF SameChar, Ascii, Capitals
<1>2. CASE ~(c \in Ascii /\ d \in Ascii)
    <2>1. ~({c, d} \subseteq Ascii)
        BY <1>2
    <2>2. ~(c \in Capitals /\ d = c + 32) /\ ~(d \in Capitals /\ c = d + 32)
        BY <1>2 DEF Ascii, Capitals
    <2> QED
        BY <2>1, <2>2, Zenon DEF SameChar
<1> QED
    BY <1>1, <1>2

\* A character reads as a value if it is an ASCII one and its capital is how the
\* value is written.
LEMMA ReadsAsOwn ==
    ASSUME NEW c \in Rune, NEW v \in Values
    PROVE  ReadsAs(c, v) <=> c \in Ascii /\ ToUpper(c) = Code(v)
<1>1. Code(v) \in Alphanumeric /\ (v >= 10 <=> Code(v) \in Capitals)
    BY DEF Code, Values, Alphanumeric, Numerals, Capitals
<1>2. CASE c \in Ascii
    BY <1>1, <1>2, AsciiUpper DEF ReadsAs, Ascii, Alphanumeric, Numerals, Capitals
<1>3. CASE c \notin Ascii
    BY <1>1, <1>3 DEF ReadsAs, Ascii, Alphanumeric, Numerals, Capitals
<1> QED
    BY <1>2, <1>3

\* Every digit and capital letter is how one value is written.
LEMMA CodeOnto ==
    /\ \A c \in Alphanumeric : \E v \in Values : c = Code(v)
    /\ \A v \in Values, w \in Values : Code(v) = Code(w) => v = w
<1>1. ASSUME NEW c \in Alphanumeric PROVE \E v \in Values : c = Code(v)
    <2>1. CASE c \in Numerals
        <3>1. c - 48 \in Values /\ c = Code(c - 48)
            BY <2>1 DEF Values, Code, Numerals
        <3> QED
            BY <3>1, Zenon
    <2>2. CASE c \in Capitals
        <3>1. c - 55 \in Values /\ c = Code(c - 55)
            BY <2>2 DEF Values, Code, Capitals
        <3> QED
            BY <3>1, Zenon
    <2> QED
        BY <2>1, <2>2 DEF Alphanumeric
<1>2. ASSUME NEW v \in Values, NEW w \in Values, Code(v) = Code(w) PROVE v = w
    BY <1>2 DEF Values, Code
<1> QED
    BY <1>1, <1>2

\* normalizeIBAN keeps the order and the number of the letters.
LEMMA NormalizeType ==
    ASSUME NEW raw \in IbanText
    PROVE  /\ Len(Packed(raw)) \in Nat
           /\ \A i \in 1..Len(Packed(raw)) : Packed(raw)[i] \in Rune
           /\ Normalize(raw) = [i \in 1..Len(Packed(raw)) |-> ToUpper(Packed(raw)[i])]
           /\ Len(Normalize(raw)) = Len(Packed(raw))
<1> DEFINE x == Packed(raw)
<1>1. x \in Seq(Rune)
    BY PackedType
<1> HIDE DEF x
<1>2. Len(x) \in Nat /\ \A i \in 1..Len(x) : x[i] \in Rune
    BY <1>1, Elements
<1>3. Normalize(raw) = [i \in 1..Len(x) |-> ToUpper(x[i])]
    BY DEF Normalize, x
<1>4. Len([i \in 1..Len(x) |-> ToUpper(x[i])]) = Len(x)
    BY <1>2
<1> QED
    BY <1>2, <1>3, <1>4 DEF x

\* An ASCII text has one byte for each character.
LEMMA AsciiEnds ==
    ASSUME NEW s \in Seq(Ascii)
    PROVE  /\ \A i \in 0..Len(s) : Ends(s)[i] = i
           /\ Size(s) = Len(s)
<1> DEFINE n == Len(s)
           Def(f) == [i \in 0..n |-> IF i = 0 THEN 0 ELSE f[i - 1] + Width(s[i])]
           g == [i \in 0..n |-> i]
           R == Ends(s)
<1>1. n \in Nat /\ \A i \in 1..n : s[i] \in Ascii
    BY Elements
<1>2. \A i \in 1..n : Width(s[i]) = 1
    <2>1. ASSUME NEW c \in Ascii PROVE Width(c) = 1
        <3>1. c < 128
            BY DEF Ascii
        <3> QED
            BY <3>1, SMT DEF Width
    <2> QED
        BY <1>1, <2>1
<1>d. R = CHOOSE f : f = Def(f)
    BY Zenon DEF Ends
<1> HIDE DEF n, R
<1>3. g = Def(g)
    BY <1>1, <1>2
<1>4. R = Def(R)
    <2> HIDE DEF g, Def
    <2> QED
        BY <1>3, <1>d
<1>5. R[0] = 0 /\ \A i \in 1..n : R[i] = R[i - 1] + 1
    BY <1>1, <1>2, <1>4
<1> DEFINE T == {i \in 0..n : R[i] = i}
<1>6. 0 \in T /\ \A i \in 1..n : i - 1 \in T => i \in T
    BY <1>1, <1>5
<1>7. 0..n \subseteq T
    <2> HIDE DEF T
    <2> QED
        BY <1>1, <1>6, UpTo
<1>8. \A i \in 0..n : R[i] = i
    BY <1>7
<1>9. R[n] = n
    BY <1>1, <1>8
<1> QED
    BY <1>8, <1>9 DEF Size, R, n

\* On an ASCII text the cut between two bytes is the standard's.
LEMMA AsciiRearranged ==
    ASSUME NEW iban \in Seq(Ascii), Len(iban) = 24
    PROVE  Rearranged(iban) = Turned(iban)
<1>1. \A i \in 0..24 : Ends(iban)[i] = i
    BY AsciiEnds
<1> DEFINE P(k) == Ends(iban)[k] <= 4 /\ (k < Len(iban) => Ends(iban)[k + 1] > 4)
<1>2. ASSUME NEW k \in 0..24 PROVE P(k) <=> k = 4
    <2> DEFINE e == Ends(iban)
    <2> HIDE DEF e
    <2>1. e[k] = k
        BY <1>1 DEF e
    <2>2. ASSUME k < 24 PROVE e[k + 1] = k + 1
        <3>1. k + 1 \in 0..24
            BY <2>2
        <3> QED
            BY <1>1, <3>1, Zenon DEF e
    <2>3. (k <= 4 /\ (k < 24 => k + 1 > 4)) <=> k = 4
        OBVIOUS
    <2>4. P(k) <=> k <= 4 /\ (k < 24 => e[k + 1] > 4)
        BY <2>1, Zenon DEF e
    <2> QED
        BY <2>2, <2>3, <2>4
<1>3. WholeHead(iban) = CHOOSE k \in 0..Len(iban) : P(k)
    BY Zenon DEF WholeHead
<1> HIDE DEF P
<1>4. WholeHead(iban) = 4
    BY <1>2, <1>3
<1>5. 4 - Ends(iban)[4] = 0 /\ 4 + 1 = 5
    BY <1>1
<1> QED
    BY <1>4, <1>5, Zenon DEF Rearranged, Turned

\* A function on 1..n is a sequence of length n.
LEMMA FunctionSeq ==
    ASSUME NEW S, NEW n \in Nat, NEW f \in [1..n -> S]
    PROVE  f \in Seq(S) /\ Len(f) = n
<1> DEFINE g == [i \in 1..n |-> f[i]]
<1>1. g \in Seq(S) /\ Len(g) = n
    OBVIOUS
<1>2. f = g
    OBVIOUS
<1> QED
    BY <1>1, <1>2

\* A part of a text, by position.
LEMMA PartAt ==
    ASSUME NEW S, NEW s, NEW m \in Int, NEW n \in Int, m <= n, \A i \in m..n : s[i] \in S
    PROVE  /\ SubSeq(s, m, n) \in Seq(S) /\ Len(SubSeq(s, m, n)) = n - m + 1
           /\ \A i \in 1..(n - m + 1) : SubSeq(s, m, n)[i] = s[m + i - 1]
<1> DEFINE p == SubSeq(s, m, n)
<1>1. p \in Seq(S)
    BY SubSeqProperties, Zenon
<1>2. Len(p) = IF m <= n THEN n - m + 1 ELSE 0
    BY SubSeqProperties, Zenon
<1>3. ASSUME NEW i \in 1..(n - m + 1) PROVE p[i] = s[m + i - 1]
    BY SubSeqProperties
<1> QED
    BY <1>1, <1>2, <1>3, Zenon

\* The letters of the rearranged text, by position.
LEMMA TurnedAt ==
    ASSUME NEW S, NEW s \in Seq(S), Len(s) = 24
    PROVE  /\ Turned(s) \in Seq(S) /\ Len(Turned(s)) = 24
           /\ \A i \in 1..24 : Turned(s)[i] = s[IF i <= 20 THEN i + 4 ELSE i - 20]
<1> DEFINE a == SubSeq(s, 5, 24)
           b == SubSeq(s, 1, 4)
<1>1. \A i \in 1..24 : s[i] \in S
    BY Elements
<1>2. a \in Seq(S) /\ Len(a) = 20 /\ \A i \in 1..20 : a[i] = s[i + 4]
    <2>1. 5 \in Int /\ 24 \in Int /\ 5 <= 24 /\ \A i \in 5..24 : s[i] \in S
        BY <1>1
    <2>2. /\ a \in Seq(S) /\ Len(a) = 24 - 5 + 1
          /\ \A i \in 1..(24 - 5 + 1) : a[i] = s[5 + i - 1]
        BY <2>1, PartAt
    <2> HIDE DEF a
    <2> QED
        BY <2>2
<1>3. b \in Seq(S) /\ Len(b) = 4 /\ \A i \in 1..4 : b[i] = s[i]
    <2>1. 1 \in Int /\ 4 \in Int /\ 1 <= 4 /\ \A i \in 1..4 : s[i] \in S
        BY <1>1
    <2>2. /\ b \in Seq(S) /\ Len(b) = 4 - 1 + 1
          /\ \A i \in 1..(4 - 1 + 1) : b[i] = s[1 + i - 1]
        BY <2>1, PartAt
    <2> HIDE DEF b
    <2> QED
        BY <2>2
<1>4. Turned(s) = a \o b
    BY Zenon DEF Turned
<1> HIDE DEF a, b
<1>5. /\ a \o b \in Seq(S) /\ Len(a \o b) = Len(a) + Len(b)
      /\ \A i \in 1..(Len(a) + Len(b)) :
             (a \o b)[i] = IF i <= Len(a) THEN a[i] ELSE b[i - Len(a)]
    <2>1. a \o b \in Seq(S)
        BY <1>2, <1>3, ConcatProperties, Zenon
    <2>2. Len(a \o b) = Len(a) + Len(b)
        BY <1>2, <1>3, ConcatProperties, Zenon
    <2>3. \A i \in 1..(Len(a) + Len(b)) :
              (a \o b)[i] = IF i <= Len(a) THEN a[i] ELSE b[i - Len(a)]
        BY <1>2, <1>3, ConcatProperties, Zenon
    <2> QED
        BY <2>1, <2>2, <2>3, Zenon
<1> DEFINE q == a \o b
<1>6. Turned(s) = q /\ q \in Seq(S)
    BY <1>4, <1>5
<1>7. Len(q) = 24 /\ \A i \in 1..24 : q[i] = IF i <= 20 THEN a[i] ELSE b[i - 20]
    <2> HIDE DEF q
    <2>1. Len(q) = Len(a) + Len(b)
        BY <1>5, Zenon DEF q
    <2>2. \A i \in 1..(Len(a) + Len(b)) : q[i] = IF i <= Len(a) THEN a[i] ELSE b[i - Len(a)]
        BY <1>5, Zenon DEF q
    <2>3. Len(a) = 20 /\ Len(b) = 4
        BY <1>2, <1>3
    <2> QED
        BY <2>1, <2>2, <2>3
<1> HIDE DEF q
<1>8. ASSUME NEW i \in 1..24 PROVE q[i] = s[IF i <= 20 THEN i + 4 ELSE i - 20]
    <2>1. CASE i <= 20
        <3>1. i \in 1..20
            BY <2>1
        <3>2. q[i] = a[i] /\ a[i] = s[i + 4]
            BY <1>2, <1>7, <2>1, <3>1, Zenon
        <3> QED
            BY <2>1, <3>2, Zenon
    <2>2. CASE i > 20
        <3>1. i - 20 \in 1..4 /\ ~(i <= 20)
            BY <2>2
        <3> QED
            BY <1>3, <1>7, <3>1, Zenon
    <2> QED
        BY <2>1, <2>2
<1> QED
    BY <1>6, <1>7, <1>8

\* ParseSAIBAN accepts, of the texts in ASCII, exactly the Saudi IBANs, however
\* spaced and capitalised; whatever else it accepts has a digit or a capital of
\* another script in it.
THEOREM ParseAgrees ==
    ASSUME NEW raw \in IbanText
    PROVE  IsSaudiIban(raw) <=> ~IbanRefuses(raw) /\ InAscii(raw)
<1> DEFINE x == Packed(raw)
           norm == Normalize(raw)
           values == [i \in 1..Len(x) |-> CHOOSE v \in Values : ReadsAs(x[i], v)]
<1>1. /\ Len(x) \in Nat /\ \A i \in 1..Len(x) : x[i] \in Rune
      /\ norm = [i \in 1..Len(x) |-> ToUpper(x[i])] /\ Len(norm) = Len(x)
    BY NormalizeType, Zenon
<1>2. IsSaudiIban(raw) <=> /\ Len(x) = 24
                           /\ \A i \in 1..24 : \E v \in Values : ReadsAs(x[i], v)
                           /\ values[1] = 28 /\ values[2] = 10
                           /\ CheckDigitsRight(values)
    BY Zenon DEF IsSaudiIban
<1>3. ~IbanRefuses(raw) <=> /\ Size(norm) = 24
                            /\ SubSeq(norm, 1, 2) = <<LetterS, LetterA>>
                            /\ \A i \in 1..Len(norm) : IsDigit(norm[i]) \/ IsUpper(norm[i])
                            /\ Mod97(norm) = 1
    BY Zenon DEF IbanRefuses, SaIBANLength
<1>i. InAscii(raw) <=> \A i \in 1..Len(x) : x[i] \in Ascii
    BY Zenon DEF InAscii
<1> HIDE DEF x, norm
<1>4. ASSUME NEW i \in 1..Len(x)
      PROVE  /\ norm[i] = ToUpper(x[i]) /\ x[i] \in Rune
             /\ (\E v \in Values : ReadsAs(x[i], v)) <=> x[i] \in Ascii /\ norm[i] \in Alphanumeric
             /\ x[i] \in Ascii => norm[i] \in Ascii
    <2>1. norm[i] = ToUpper(x[i]) /\ x[i] \in Rune
        BY <1>1
    <2>2. ASSUME NEW v \in Values PROVE ReadsAs(x[i], v) <=> x[i] \in Ascii /\ norm[i] = Code(v)
        BY <2>1, ReadsAsOwn, Zenon
    <2>3. (\E v \in Values : norm[i] = Code(v)) <=> norm[i] \in Alphanumeric
        BY CodeType, CodeOnto, Zenon
    <2>4. x[i] \in Ascii => norm[i] \in Ascii
        BY <2>1, AsciiUpper
    <2> QED
        BY <2>1, <2>2, <2>3, <2>4, Zenon
<1>a. ASSUME NEW c \in Ascii PROVE IsDigit(c) \/ IsUpper(c) <=> c \in Alphanumeric
    <2>1. c \notin OtherDigits /\ c \notin OtherCapitals
        BY UnicodeAssumption DEF Ascii, Beyond
    <2> QED
        BY <2>1, Zenon DEF IsDigit, IsUpper, Alphanumeric
<1>b. ASSUME InAscii(raw) PROVE norm \in Seq(Ascii) /\ Size(norm) = Len(x)
    <2>1. norm \in [1..Len(x) -> Ascii]
        BY <1>1, <1>4, <1>b, <1>i
    <2>2. norm \in Seq(Ascii)
        BY <1>1, <2>1
    <2> QED
        BY <1>1, <2>2, AsciiEnds
<1>5. CASE Len(x) = 24 /\ \A i \in 1..24 : x[i] \in Ascii /\ norm[i] \in Alphanumeric
    <2>0. InAscii(raw)
        BY <1>5, <1>i
    <2>1. ASSUME NEW i \in 1..24 PROVE values[i] \in Values /\ norm[i] = Code(values[i])
        <3>1. /\ norm[i] = ToUpper(x[i]) /\ x[i] \in Rune
              /\ \E v \in Values : ReadsAs(x[i], v)
            BY <1>4, <1>5
        <3>2. values[i] = CHOOSE v \in Values : ReadsAs(x[i], v)
            BY <1>5
        <3> HIDE DEF values
        <3>3. values[i] \in Values /\ ReadsAs(x[i], values[i])
            BY <3>1, <3>2, Zenon
        <3> QED
            BY <3>1, <3>3, ReadsAsOwn, Zenon
    <2>2. values \in Seq(Values) /\ Len(values) = 24
        <3>1. values \in [1..24 -> Values]
            BY <1>5, <2>1
        <3> HIDE DEF values
        <3> QED
            BY <3>1, FunctionSeq
    <2> HIDE DEF values
    <2>3. norm \in [1..24 -> Alphanumeric]
        BY <1>1, <1>5
    <2>4. norm \in Seq(Alphanumeric) /\ norm \in Seq(Ascii) /\ Len(norm) = 24 /\ Size(norm) = 24
        BY <1>1, <1>5, <1>b, <2>0, <2>3
    <2>5. Mod97(norm) = 1 <=> CheckDigitsRight(values)
        <3> DEFINE u == Turned(norm)
                   d == Turned(values)
        <3>1. Rearranged(norm) = u
            BY <2>4, AsciiRearranged
        <3>2. /\ u \in Seq(Alphanumeric) /\ Len(u) = 24
              /\ \A i \in 1..24 : u[i] = norm[IF i <= 20 THEN i + 4 ELSE i - 20]
            BY <2>4, TurnedAt
        <3>3. /\ d \in Seq(Values) /\ Len(d) = 24
              /\ \A i \in 1..24 : d[i] = values[IF i <= 20 THEN i + 4 ELSE i - 20]
            BY <2>2, TurnedAt
        <3>m. Mod97(norm) = 1 <=> Remainders(u)[Len(u)] = 1
            BY <3>1, Zenon DEF Mod97
        <3>c. CheckDigitsRight(values) <=> FromRight(d)[Len(d)].sum = 1
            BY Zenon DEF CheckDigitsRight
        <3> HIDE DEF u, d
        <3>4. ASSUME NEW i \in 1..24 PROVE u[i] = Code(d[i])
            <4> DEFINE j == IF i <= 20 THEN i + 4 ELSE i - 20
            <4>1. j \in 1..24
                OBVIOUS
            <4>2. u[i] = norm[j] /\ d[i] = values[j]
                BY <3>2, <3>3
            <4> HIDE DEF j
            <4> QED
                BY <2>1, <4>1, <4>2
        <3>5. Remainders(u)[Len(u)] = FromRight(d)[Len(d)].sum
            BY <3>2, <3>3, <3>4, Mod97Exact
        <3> QED
            BY <3>5, <3>m, <3>c, Zenon
    <2>6. SubSeq(norm, 1, 2) = <<LetterS, LetterA>> <=> values[1] = 28 /\ values[2] = 10
        <3>1. \A i \in 1..2 : norm[i] \in Alphanumeric
            BY <1>5
        <3> DEFINE head == SubSeq(norm, 1, 2)
        <3>2. head \in Seq(Alphanumeric) /\ Len(head) = 2 /\ head[1] = norm[1] /\ head[2] = norm[2]
            BY <3>1, SubSeqProperties
        <3> HIDE DEF head
        <3>3. head = <<head[1], head[2]>>
            BY <3>2
        <3>4. head = <<LetterS, LetterA>> <=> norm[1] = LetterS /\ norm[2] = LetterA
            BY <3>2, <3>3
        <3>5. Code(28) = LetterS /\ Code(10) = LetterA /\ 28 \in Values /\ 10 \in Values
            BY DEF Code, LetterS, LetterA, Values
        <3>6. /\ values[1] \in Values /\ norm[1] = Code(values[1])
              /\ values[2] \in Values /\ norm[2] = Code(values[2])
            BY <2>1
        <3>7. (norm[1] = LetterS <=> values[1] = 28) /\ (norm[2] = LetterA <=> values[2] = 10)
            BY <3>5, <3>6, CodeOnto, Zenon
        <3> QED
            BY <3>4, <3>7, Zenon DEF head
    <2>7. /\ \A i \in 1..24 : \E v \in Values : ReadsAs(x[i], v)
          /\ \A i \in 1..Len(norm) : IsDigit(norm[i]) \/ IsUpper(norm[i])
        <3>1. ASSUME NEW i \in 1..24
              PROVE  (\E v \in Values : ReadsAs(x[i], v)) /\ (IsDigit(norm[i]) \/ IsUpper(norm[i]))
            <4>1. norm[i] \in Ascii /\ norm[i] \in Alphanumeric /\ x[i] \in Ascii /\ i \in 1..Len(x)
                BY <1>4, <1>5
            <4> QED
                BY <1>4, <1>a, <4>1, Zenon
        <3> QED
            BY <2>4, <3>1, Zenon
    <2> QED
        BY <1>2, <1>3, <1>5, <2>0, <2>4, <2>5, <2>6, <2>7, Zenon
<1>6. CASE ~(Len(x) = 24 /\ \A i \in 1..24 : x[i] \in Ascii /\ norm[i] \in Alphanumeric)
    <2> HIDE DEF values
    <2>1. ~IsSaudiIban(raw)
        <3> SUFFICES ASSUME IsSaudiIban(raw) PROVE FALSE
            OBVIOUS
        <3>1. Len(x) = 24 /\ \A i \in 1..24 : \E v \in Values : ReadsAs(x[i], v)
            BY <1>2, Zenon
        <3>2. \A i \in 1..24 : x[i] \in Ascii /\ norm[i] \in Alphanumeric
            BY <1>4, <3>1, Zenon
        <3> QED
            BY <1>6, <3>1, <3>2, Zenon
    <2>2. ASSUME ~IbanRefuses(raw), InAscii(raw) PROVE FALSE
        <3>1. Len(x) = 24
            BY <1>3, <1>b, <2>2, Zenon
        <3>2. ASSUME NEW i \in 1..24 PROVE x[i] \in Ascii /\ norm[i] \in Alphanumeric
            <4>1. i \in 1..Len(x) /\ i \in 1..Len(norm)
                BY <1>1, <3>1
            <4>2. x[i] \in Ascii /\ norm[i] \in Ascii /\ (IsDigit(norm[i]) \/ IsUpper(norm[i]))
                BY <1>3, <1>4, <1>i, <2>2, <4>1, Zenon
            <4> QED
                BY <1>a, <4>2, Zenon
        <3> QED
            BY <1>6, <3>1, <3>2, Zenon
    <2> QED
        BY <2>1, <2>2, Zenon
<1> QED
    BY <1>5, <1>6

\* Two texts have the same normal form if they have the same letters.
THEOREM SameNormal ==
    ASSUME NEW s \in IbanText, NEW t \in IbanText
    PROVE  Normalize(s) = Normalize(t) <=> SameLetters(s, t)
<1> DEFINE x == Packed(s)
           y == Packed(t)
<1>1. /\ Len(x) \in Nat /\ \A i \in 1..Len(x) : x[i] \in Rune
      /\ Normalize(s) = [i \in 1..Len(x) |-> ToUpper(x[i])] /\ Len(Normalize(s)) = Len(x)
    BY NormalizeType, Zenon
<1>2. /\ Len(y) \in Nat /\ \A i \in 1..Len(y) : y[i] \in Rune
      /\ Normalize(t) = [i \in 1..Len(y) |-> ToUpper(y[i])] /\ Len(Normalize(t)) = Len(y)
    BY NormalizeType, Zenon
<1>3. SameLetters(s, t) <=> Len(x) = Len(y) /\ \A i \in 1..Len(x) : SameChar(x[i], y[i])
    BY Zenon DEF SameLetters
<1> HIDE DEF x, y
<1>4. ASSUME Len(x) = Len(y), NEW i \in 1..Len(x)
      PROVE  SameChar(x[i], y[i]) <=> Normalize(s)[i] = Normalize(t)[i]
    <2>1. Normalize(s)[i] = ToUpper(x[i]) /\ Normalize(t)[i] = ToUpper(y[i])
        BY <1>1, <1>2, <1>4
    <2>2. x[i] \in Rune /\ y[i] \in Rune
        BY <1>1, <1>2, <1>4
    <2> QED
        BY <2>1, <2>2, SameCapital
<1>5. ASSUME Normalize(s) = Normalize(t) PROVE SameLetters(s, t)
    BY <1>1, <1>2, <1>3, <1>4, <1>5
<1>6. ASSUME SameLetters(s, t) PROVE Normalize(s) = Normalize(t)
    <2>1. Len(x) = Len(y) /\ \A i \in 1..Len(x) : Normalize(s)[i] = Normalize(t)[i]
        BY <1>3, <1>4, <1>6
    <2> QED
        BY <1>1, <1>2, <2>1
<1> QED
    BY <1>5, <1>6

\* The first integer past the range is the smallest one to the machine.
LEMMA WrapPast == Wrap(MaxInt64 + 1) = MinInt64
<1> DEFINE H == MaxInt64 + 1
<1>1. H \in Nat /\ H > 0 /\ MinInt64 = -H
    BY IntAssumption DEF MinInt64
<1>2. Wrap(H) = MinInt64 + ((H - MinInt64) % (2 * H))
    BY DEF Wrap
<1> HIDE DEF H
<1>3. H - MinInt64 = 2 * H /\ 2 * H \in Nat /\ 2 * H > 0
    BY <1>1
<1>4. ASSUME NEW k \in Nat, k > 0 PROVE k % k = 0
    BY <1>4
<1>5. (H - MinInt64) % (2 * H) = 0
    BY <1>3, <1>4
<1>6. Wrap(H) = MinInt64
    BY <1>1, <1>2, <1>5
<1> QED
    BY <1>6 DEF H

\* ParseSAR yields what a text means, if an int64 can hold that.
THEOREM ParseExact ==
    ASSUME NEW t \in Text, ~ParseRefuses(t), Meaning(t) \in Int64
    PROVE  ParseSAR(t) = Meaning(t)
<1> DEFINE m == t.riyals * 100 + Fraction(t)
<1>1. m \in Int
    <2>1. t.riyals \in Int
        BY DEF Text
    <2>2. ~SARRefuses(t.riyals, Fraction(t))
        BY Zenon DEF ParseRefuses
    <2>3. Fraction(t) \in 0..(HalalasPerSAR - 1)
        BY <2>2, Zenon DEF SARRefuses
    <2> QED
        BY <2>1, <2>3 DEF HalalasPerSAR
<1>2. Meaning(t) = IF t.minus THEN -m ELSE m
    BY Zenon DEF Meaning, HalalasPerSAR
<1>3. ParseSAR(t) = IF t.minus THEN Wrap(-Wrap(m)) ELSE Wrap(m)
    BY Zenon DEF ParseSAR, SAR, Negate, HalalasPerSAR
<1> HIDE DEF m
<1>4. CASE ~t.minus
    BY <1>2, <1>3, <1>4, WrapFits
<1>5. CASE t.minus
    <2>1. -m \in Int64
        BY <1>2, <1>5
    <2>2. Wrap(-m) = -m
        BY <2>1, WrapFits
    <2>3. CASE m \in Int64
        <3>1. Wrap(m) = m
            BY <2>3, WrapFits
        <3> QED
            BY <1>2, <1>3, <1>5, <2>2, <3>1, Zenon
    <2>4. CASE m \notin Int64
        <3>1. m = MaxInt64 + 1 /\ -m = MinInt64 /\ -MinInt64 = MaxInt64 + 1
            BY <1>1, <2>1, <2>4, IntAssumption DEF Int64, MinInt64
        <3>2. Wrap(m) = MinInt64 /\ Wrap(-MinInt64) = MinInt64
            BY <3>1, WrapPast, Zenon
        <3> QED
            BY <1>2, <1>3, <1>5, <3>1, <3>2, Zenon
    <2> QED
        BY <2>3, <2>4
<1> QED
    BY <1>4, <1>5

\* The inductive invariant behind the answers: they still rest on what Validate
\* and the guard saw, through status requests and retries.
CommandInv ==
    /\ typed \in Command /\ retyped \in Command
    /\ stage \in {"checked", "posted"} => Validate(typed)
    /\ stage = "refused" => ~Validate(typed)
    /\ told # "none" =>
           /\ stage = "posted" /\ Validate(retyped)
           /\ told = "replay" <=> Fingerprint(retyped) = Fingerprint(typed)

\* CommandInv holds in every reachable state.
THEOREM CommandInvariant == Spec => []CommandInv
<1>0. Blank \in Command
    <2>1. 0 \in 0..MaxInt64
        BY IntAssumption
    <2> QED
        BY <2>1, StringReadsBack DEF Blank, Command, IbanText
<1>1. Init => CommandInv
    BY <1>0 DEF Init, CommandInv
<1>2. CommandInv /\ [Next]_vars => CommandInv'
    <2> SUFFICES ASSUME CommandInv, [Next]_vars PROVE CommandInv'
        OBVIOUS
    <2> USE DEF CommandInv
    <2>1. ASSUME Finish PROVE CommandInv'
        BY <1>0, <2>1 DEF Finish
    <2>2. ASSUME NEW c \in Commands, Create(c) PROVE CommandInv'
        <3>1. c \in Command /\ told = "none"
            BY <2>2, AmountAssumption DEF Create
        <3> QED
            BY <2>2, <3>1 DEF Create, retry
    <2>3. ASSUME NEW c \in Commands, CreateRefused(c) PROVE CommandInv'
        <3>1. c \in Command /\ told = "none"
            BY <2>3, AmountAssumption DEF CreateRefused
        <3> QED
            BY <2>3, <3>1 DEF CreateRefused, retry
    <2>4. ASSUME NEW c \in Commands, Retry(c) PROVE CommandInv'
        <3>1. c \in Command
            BY AmountAssumption
        <3> QED
            BY <2>4, <3>1 DEF Retry
    <2>5. CASE PostTransfer
        BY <2>5 DEF PostTransfer, retry
    <2>6. CASE PostRefused
        BY <2>1, <2>6 DEF PostRefused
    <2>7. CASE GetStatus
        BY <2>7 DEF GetStatus, retry
    <2>8. CASE Over
        BY <2>1, <2>8 DEF Over
    <2>9. CASE Compensate
        BY <2>1, <2>9 DEF Compensate
    <2>10. CASE UNCHANGED vars
        BY <2>10 DEF vars, retry
    <2> QED
        BY <2>2, <2>3, <2>4, <2>5, <2>6, <2>7, <2>8, <2>9, <2>10 DEF Next
<1> QED
    BY <1>1, <1>2, PTL DEF Spec

\* No transfer of ASCII letters passes Validate with anything but a Saudi IBAN, and
\* none with one and a good amount is refused, for every Unicode text a client may
\* type (ParseSAIBAN).
THEOREM IbanAlwaysChecked == Spec => []IbanChecked
<1>1. CommandInv => IbanChecked
    <2> SUFFICES ASSUME CommandInv PROVE IbanChecked
        OBVIOUS
    <2>1. typed.iban \in IbanText /\ typed.amount \in Text
        BY DEF CommandInv, Command
    <2>2. IsSaudiIban(typed.iban) <=> ~IbanRefuses(typed.iban) /\ InAscii(typed.iban)
        BY <2>1, ParseAgrees
    <2>3. ~ParseRefuses(typed.amount) => (ParseSAR(typed.amount) > 0 \/ ParseSAR(typed.amount) <= 0)
        <3>1. ASSUME ~ParseRefuses(typed.amount) PROVE ParseSAR(typed.amount) \in Int
            BY <2>1, <3>1, ParseType, IntAssumption DEF Int64, MinInt64
        <3> QED
            BY <3>1
    <2> QED
        BY <2>2, <2>3 DEF CommandInv, Validate, IbanChecked
<1> QED
    BY <1>1, CommandInvariant, PTL

\* A retry is replayed exactly if it means the same transfer, for every spelling
\* of the two (Fingerprint, idempotency.Guard).
THEOREM RetriesAlwaysTrue == Spec => []RetryTrue
<1>1. CommandInv => RetryTrue
    <2> SUFFICES ASSUME CommandInv, told # "none",
                        Meaning(typed.amount) \in Int64, Meaning(retyped.amount) \in Int64
                 PROVE  told = "replay" <=> /\ SameLetters(typed.iban, retyped.iban)
                                            /\ Meaning(typed.amount) = Meaning(retyped.amount)
        BY DEF RetryTrue
    <2>1. /\ typed.iban \in IbanText /\ typed.amount \in Text
          /\ retyped.iban \in IbanText /\ retyped.amount \in Text
        BY DEF CommandInv, Command
    <2>2. /\ ~ParseRefuses(typed.amount) /\ ~IbanRefuses(typed.iban)
          /\ ~ParseRefuses(retyped.amount) /\ ~IbanRefuses(retyped.iban)
        BY DEF CommandInv, Validate
    <2>3. /\ ParseSAR(typed.amount) = Meaning(typed.amount)
          /\ ParseSAR(retyped.amount) = Meaning(retyped.amount)
        BY <2>1, <2>2, ParseExact
    <2>4. Normalize(typed.iban) = Normalize(retyped.iban) <=> SameLetters(typed.iban, retyped.iban)
        BY <2>1, SameNormal
    <2>5. /\ Fingerprint(typed) = [amount |-> Meaning(typed.amount), iban |-> Normalize(typed.iban)]
          /\ Fingerprint(retyped) = [amount |-> Meaning(retyped.amount), iban |-> Normalize(retyped.iban)]
        BY <2>2, <2>3 DEF Fingerprint
    <2>6. told = "replay" <=> Fingerprint(retyped) = Fingerprint(typed)
        BY DEF CommandInv
    <2> QED
        BY <2>4, <2>5, <2>6
<1> QED
    BY <1>1, CommandInvariant, PTL

=============================================================================
