------------------------- MODULE MCTransferCommand -------------------------
(***************************************************************************)
(* TransferCommand with an 11-bit int64 (MaxInt64 = 1023 halalas, so 10.23 *)
(* SAR) and amounts around zero, one riyal and both ends of the range,     *)
(* with every shape of fraction; and with two IBANs of the repository's    *)
(* tests in their spellings and with the slips of a typist, some of them   *)
(* in letters of other scripts.                                            *)
(***************************************************************************)
EXTENDS TransferCommand

\* What is typed before the point: 20 and 1023 riyals do not fit in halalas,
\* 1024 is refused by ParseInt, and ParseInt reads a sign of its own.
Riyals == {-1, 0, 1, 5, 10, 20, 1023, 1024}

Fractions == {<<FALSE, <<>>>>, <<TRUE, <<>>>>, <<TRUE, <<5>>>>, <<TRUE, <<0, 5>>>>,
              <<TRUE, <<2, 3>>>>, <<TRUE, <<9, 9>>>>, <<TRUE, <<1, 2, 3>>>>}

\* ParseInt reads a sign after the point as well.
SignedFractions == {<<Plus>>, <<Plus, 5>>, <<Minus, 0>>, <<Minus, 5>>, <<5, Minus>>, <<OtherMark>>}

Amounts ==
    {[minus |-> s, riyals |-> r, dot |-> f[1], frac |-> f[2]] :
        s \in BOOLEAN, r \in Riyals, f \in Fractions}
    \union {[minus |-> FALSE, riyals |-> r, dot |-> TRUE, frac |-> f] :
               r \in {-1, 1}, f \in SignedFractions}

OneRiyal == [minus |-> FALSE, riyals |-> 1, dot |-> FALSE, frac |-> <<>>]

-----------------------------------------------------------------------------
\* An excerpt of the Unicode tables: the digits of Arabic (two bytes), of full
\* width (three) and of mathematics (four); E acute, the long s, whose capital is
\* the S of ASCII; the no-break space and the next-line control.

ArabicZero == 1632
WideZero == 65296
BoldZero == 120782
SmallEAcute == 233
CapitalEAcute == 201
LongS == 383
NoBreakSpace == 160

MCOtherDigits ==
    UNION {zero..(zero + 9) : zero \in {ArabicZero, WideZero, BoldZero}}
MCOtherCapitals == {CapitalEAcute}
MCOtherSpaces == {133, NoBreakSpace}
MCUppercase ==
    [c \in {SmallEAcute, LongS} |-> IF c = LongS THEN LetterS ELSE CapitalEAcute]

Tab == 9
Hyphen == 45
Small(c) == c + 32
Written(values) == [i \in 1..Len(values) |-> Code(values[i])]

\* SA03 8000 0000 6080 1016 7519 and SA44 2000 0001 2345 6789 1234.
Base == Written(<<28, 10, 0, 3, 8, 0, 0, 0, 0, 0, 0, 0, 6, 0, 8, 0, 1, 0, 1, 6, 7, 5, 1, 9>>)
Other == Written(<<28, 10, 4, 4, 2, 0, 0, 0, 0, 0, 0, 1, 2, 3, 4, 5, 6, 7, 8, 9, 1, 2, 3, 4>>)

Spellings(iban) ==
    {iban, Formatted(iban), <<Space, Tab>> \o iban \o <<NoBreakSpace>>,
     [iban EXCEPT ![1] = Small(@)], [iban EXCEPT ![1] = LongS],
     [Formatted(iban) EXCEPT ![1] = Small(@), ![2] = Small(@)]}

\* One character wrong, two neighbours swapped, one too many, one too few.
Slips(iban) ==
    {[iban EXCEPT ![i] = c] : i \in 1..Len(iban), c \in {49, LetterA, Hyphen}}
    \union {[iban EXCEPT ![i] = iban[i + 1], ![i + 1] = iban[i]] : i \in 1..(Len(iban) - 1)}
    \union {Append(iban, 48), SubSeq(iban, 1, Len(iban) - 1), <<>>}

\* As many letters as it has bytes give way to a rune of another script.
Swap(iban, i, c) == SubSeq(iban, 1, i - 1) \o <<c>> \o SubSeq(iban, i + Width(c), Len(iban))
Foreign(iban) ==
    {Swap(iban, i, c) : i \in {3, 4, 8, 13, 14},
        c \in {zero + d : zero \in {ArabicZero, WideZero, BoldZero}, d \in {3, 8, 9}}
             \union {SmallEAcute, CapitalEAcute}}

MCCommands ==
    {[amount |-> a, iban |-> Base] : a \in Amounts}
    \union {[amount |-> OneRiyal, iban |-> t] :
               t \in Spellings(Base) \union Spellings(Other)
                     \union Slips(Base) \union Foreign(Other)}

\* "IBAN is a validated Saudi Arabia IBAN value object" (iban.go:14), except for
\* texts such as these: a digit of another script passes unicode.IsDigit, counts
\* as the two digits of a letter, and the remainder may be 1.
ASSUME ForeignDigitsPass ==
    \A zero \in {ArabicZero, WideZero, BoldZero} : \E t \in Foreign(Other) :
        /\ ~IbanRefuses(t) /\ ~IsSaudiIban(t)
        /\ \E i \in 1..Len(t) : t[i] \in zero..(zero + 9)
=============================================================================
