-------------------------------- MODULE Iban --------------------------------
(***************************************************************************)
(* Saudi IBANs (internal/shared/domain/iban.go).  A text is a sequence of  *)
(* runes, the Unicode code points a JSON string decodes to.  The code asks *)
(* Go's Unicode tables about them, and counts and cuts bytes of UTF-8.     *)
(***************************************************************************)
EXTENDS Integers, Sequences

\* The Unicode tables beyond ASCII.
CONSTANTS
    OtherDigits,     \* unicode.IsDigit
    OtherCapitals,   \* unicode.IsUpper
    OtherSpaces,     \* unicode.IsSpace
    Uppercase        \* unicode.ToUpper, of the runes that it changes

MaxRune == 1114111
Ascii == 0..127
Beyond == 128..MaxRune
Rune == 0..MaxRune
IbanText == Seq(Rune)

ASSUME UnicodeAssumption ==
    /\ OtherDigits \union OtherCapitals \union OtherSpaces \subseteq Beyond
    /\ DOMAIN Uppercase \subseteq Beyond
    /\ \A c \in DOMAIN Uppercase : Uppercase[c] \in Rune

Space == 32
Numerals == 48..57
Capitals == 65..90
LetterA == 65
LetterS == 83
RuneError == 65533
Alphanumeric == Numerals \union Capitals
White == 9..13 \union {Space} \union OtherSpaces

IsDigit(c) == c \in Numerals \union OtherDigits
IsUpper(c) == c \in Capitals \union OtherCapitals

ToUpper(c) ==
    IF c \in 97..122 THEN c - 32
    ELSE IF c \in DOMAIN Uppercase THEN Uppercase[c] ELSE c

SaIBANLength == 24

-----------------------------------------------------------------------------

\* TrimSpace takes white space of every kind off both ends, ReplaceAll the
\* remaining spaces.
Dropped(raw, i) ==
    \/ raw[i] = Space
    \/ \A j \in 1..i : raw[j] \in White
    \/ \A j \in i..Len(raw) : raw[j] \in White

\* What is left of the first i runes.
Kept(raw) ==
    LET kept[i \in 0..Len(raw)] ==
            IF i = 0 THEN <<>>
            ELSE IF Dropped(raw, i) THEN kept[i - 1] ELSE Append(kept[i - 1], raw[i])
    IN  kept

Packed(raw) == Kept(raw)[Len(raw)]

\* normalizeIBAN: no spaces, capitals.
Normalize(raw) ==
    LET packed == Packed(raw) IN [i \in 1..Len(packed) |-> ToUpper(packed[i])]

\* The bytes of a rune in UTF-8, of the first i runes of a text, of a text.
Width(c) == IF c < 128 THEN 1 ELSE IF c < 2048 THEN 2 ELSE IF c < 65536 THEN 3 ELSE 4

Ends(s) ==
    LET end[i \in 0..Len(s)] == IF i = 0 THEN 0 ELSE end[i - 1] + Width(s[i])
    IN  end

Size(s) == Ends(s)[Len(s)]

\* The runes that lie in the first four bytes.
WholeHead(s) ==
    CHOOSE k \in 0..Len(s) : Ends(s)[k] <= 4 /\ (k < Len(s) => Ends(s)[k + 1] > 4)

\* n bytes of a rune that was cut in two, as range reads them.
Broken(n) == [i \in 1..n |-> RuneError]

\* iban[4:] + iban[:4]: the country code and the check digits go to the end.
\* The cut is between two bytes, which may be of one rune.
Rearranged(iban) ==
    LET k == WholeHead(iban)
        cut == 4 - Ends(iban)[k]
    IN  IF cut = 0 THEN SubSeq(iban, k + 1, Len(iban)) \o SubSeq(iban, 1, k)
        ELSE Broken(Width(iban[k + 1]) - cut) \o SubSeq(iban, k + 2, Len(iban))
             \o SubSeq(iban, 1, k) \o Broken(cut)

\* One round of the loop of ibanMod97: what is not an ASCII digit counts as the
\* two digits of a letter.
Shift(remainder, r) ==
    LET val == r - LetterA + 10
    IN  IF r \in Numerals THEN (remainder * 10 + (r - 48)) % 97
        ELSE (((remainder * 10 + (val \div 10)) % 97) * 10 + (val % 10)) % 97

\* ibanMod97: the remainder of the whole number, without big integers.
Remainders(digits) ==
    LET remainder[i \in 0..Len(digits)] ==
            IF i = 0 THEN 0 ELSE Shift(remainder[i - 1], digits[i])
    IN  remainder

Mod97(iban) == LET digits == Rearranged(iban) IN Remainders(digits)[Len(digits)]

\* Mutant of IbanRefuses: any remainder but 0 will do.
IbanRefusesZero(raw) ==
    LET normalized == Normalize(raw)
    IN  \/ Size(normalized) # SaIBANLength
        \/ SubSeq(normalized, 1, 2) # <<LetterS, LetterA>>
        \/ \E i \in 1..Len(normalized) : ~IsDigit(normalized[i]) /\ ~IsUpper(normalized[i])
        \/ Mod97(normalized) = 0

\* ParseSAIBAN's refusals, in its order; otherwise the IBAN is Normalize(raw).
IbanRefuses(raw) ==
    LET normalized == Normalize(raw)
    IN  \/ Size(normalized) # SaIBANLength
        \/ SubSeq(normalized, 1, 2) # <<LetterS, LetterA>>
        \/ \E i \in 1..Len(normalized) : ~IsDigit(normalized[i]) /\ ~IsUpper(normalized[i])
        \/ Mod97(normalized) # 1

\* Formatted: a space at every fourth byte where a rune begins.
Formatted(iban) ==
    LET out[i \in 0..Len(iban)] ==
            IF i = 0 THEN <<>>
            ELSE out[i - 1]
                 \o (IF i > 1 /\ Ends(iban)[i - 1] % 4 = 0 THEN <<Space>> ELSE <<>>)
                 \o <<iban[i]>>
    IN  out[Len(iban)]

-----------------------------------------------------------------------------

\* The standard's definition, ISO 13616: the letters of an IBAN are the ASCII
\* digits, worth 0 to 9, and A to Z, worth 10 to 35.
Values == 0..35
Code(v) == IF v < 10 THEN 48 + v ELSE 55 + v
ReadsAs(c, v) == c = Code(v) \/ (v >= 10 /\ c = Code(v) + 32)

\* The number with every letter replaced by its value, each digit times its
\* power of ten, leaves 1.
Weigh(right, d) ==
    [sum |-> (right.sum + d * right.weight) % 97,
     weight |-> (right.weight * (IF d < 10 THEN 10 ELSE 100)) % 97]

FromRight(digits) ==
    LET right[k \in 0..Len(digits)] ==
            IF k = 0 THEN [sum |-> 0, weight |-> 1]
            ELSE Weigh(right[k - 1], digits[Len(digits) - k + 1])
    IN  right

Turned(values) == SubSeq(values, 5, Len(values)) \o SubSeq(values, 1, 4)

CheckDigitsRight(values) ==
    LET digits == Turned(values) IN FromRight(digits)[Len(digits)].sum = 1

\* A text is a Saudi IBAN if it reads, spaces and case apart, as one that
\* satisfies the standard.
IsSaudiIban(raw) ==
    LET x == Packed(raw)
        values == [i \in 1..Len(x) |-> CHOOSE v \in Values : ReadsAs(x[i], v)]
    IN  /\ Len(x) = 24
        /\ \A i \in 1..24 : \E v \in Values : ReadsAs(x[i], v)
        /\ values[1] = 28 /\ values[2] = 10      \* S, A
        /\ CheckDigitsRight(values)

\* A text, spaces apart, in ASCII.
InAscii(raw) == \A i \in 1..Len(Packed(raw)) : Packed(raw)[i] \in Ascii

\* Two runes with one capital.
SameChar(c, d) ==
    \/ c = d
    \/ c \in Capitals /\ d = c + 32
    \/ d \in Capitals /\ c = d + 32
    \/ ~({c, d} \subseteq Ascii) /\ ToUpper(c) = ToUpper(d)

\* Two texts that differ in spaces and capitals only.
SameLetters(s, t) ==
    LET x == Packed(s)
        y == Packed(t)
    IN  Len(x) = Len(y) /\ \A i \in 1..Len(x) : SameChar(x[i], y[i])
=============================================================================
