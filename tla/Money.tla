------------------------------- MODULE Money -------------------------------
(***************************************************************************)
(* Money (internal/shared/domain/money.go): signed halalas in an int64,    *)
(* the decimal text clients and the database exchange it in, and the       *)
(* overflow checks of its arithmetic.  Every amount is in SAR.  An         *)
(* operator that may refuse its argument has a predicate that says when.   *)
(***************************************************************************)
EXTENDS Integers, Sequences

CONSTANT MaxInt64      \* 2^63 - 1 in the code

ASSUME IntAssumption == MaxInt64 \in Nat \ {0}

HalalasPerSAR == 100
MinInt64 == -MaxInt64 - 1
Int64 == MinInt64..MaxInt64

\* The int64 a Go computation leaves when its exact result is n.
Wrap(n) == MinInt64 + ((n - MinInt64) % (2 * (MaxInt64 + 1)))

\* A character after the point: a digit, a sign, or another one.
Digit == 0..9
Plus == 10
Minus == 11
OtherMark == 12

\* A decimal text: an optional sign, what ParseInt reads before the point, and
\* the characters after it.
Text == [minus : BOOLEAN, riyals : Int, dot : BOOLEAN,
         frac : Seq(Digit \union {Plus, Minus, OtherMark})]

-----------------------------------------------------------------------------

SARRefuses(riyals, halalas) ==
    halalas \notin 0..(HalalasPerSAR - 1) \/ (riyals < 0 /\ halalas > 0)

\* Mutant of SAR: the halalas are lost.
SARWhole(riyals, halalas) == Wrap(riyals * HalalasPerSAR)

\* The multiplication is not checked.
SAR(riyals, halalas) == Wrap(riyals * HalalasPerSAR + halalas)

Negate(m) == Wrap(-m)

\* One character after the point is followed by a zero.
Padded(t) == IF Len(t.frac) = 1 THEN <<t.frac[1], 0>> ELSE t.frac

\* ParseInt, which takes a sign there as well.
FractionRefuses(t) ==
    \/ Len(t.frac) \notin 1..2
    \/ Padded(t)[1] = OtherMark \/ Padded(t)[2] \notin Digit

Fraction(t) ==
    LET frac == Padded(t)
    IN  IF ~t.dot THEN 0
        ELSE CASE frac[1] \in Digit -> 10 * frac[1] + frac[2]
               [] frac[1] = Plus -> frac[2]
               [] frac[1] = Minus -> -frac[2]

ParseRefuses(t) ==
    \/ t.riyals \notin Int64
    \/ t.dot /\ FractionRefuses(t)
    \/ SARRefuses(t.riyals, Fraction(t))

ParseSAR(t) ==
    LET m == SAR(t.riyals, Fraction(t)) IN IF t.minus THEN Negate(m) ELSE m

\* String; "%02d" always writes two digits after the point.
String(m) ==
    LET abs == IF m < 0 THEN Wrap(-m) ELSE m
        halalas == abs % HalalasPerSAR
    IN  [minus |-> m < 0, riyals |-> abs \div HalalasPerSAR, dot |-> TRUE,
         frac |-> <<halalas \div 10, halalas % 10>>]

\* safeAdd and safeSub: the checks, and the sum or difference Go computes.
AddOverflows(a, b) ==
    \/ b > 0 /\ a > Wrap(MaxInt64 - b)
    \/ b < 0 /\ a < Wrap(MinInt64 - b)

Add(a, b) == Wrap(a + b)

SubOverflows(a, b) ==
    \/ b < 0 /\ a > Wrap(MaxInt64 + b)
    \/ b > 0 /\ a < Wrap(MinInt64 + b)

Sub(a, b) == Wrap(a - b)

\* What a text means.
Meaning(t) ==
    LET m == t.riyals * HalalasPerSAR + Fraction(t) IN IF t.minus THEN -m ELSE m
=============================================================================
