-------------------------- MODULE TransferCommand --------------------------
(***************************************************************************)
(* What a client typed on its way through the system, one transfer after   *)
(* another between two wallets: the amount and the beneficiary's IBAN, the *)
(* command the handler builds and validates, the balances the ledger       *)
(* computes, the amount kept as text in transfer_sagas.command_json that   *)
(* status requests and the compensation parse again, and retries of the    *)
(* request, which may be spelled differently.                              *)
(***************************************************************************)
EXTENDS Money, Iban

CONSTANTS
    Commands,        \* the amounts and IBANs clients type
    PayerOpening,    \* opening balances
    PayeeOpening,
    MaxPosts         \* bound: transfers posted in a behaviour

Command == [amount : Text, iban : IbanText]

ASSUME AmountAssumption ==
    /\ Commands \subseteq Command
    /\ PayerOpening \in 0..MaxInt64 /\ PayeeOpening \in 0..MaxInt64
    /\ MaxPosts \in Nat

VARIABLES
    stage,           \* "idle", "refused", "checked" (Validate passed) or "posted"
    typed,           \* the command of the transfer in hand
    amount,          \* cmd.Amount, settlements.amount_halalas
    stored,          \* its amount in command_json
    shown,           \* the amount its last status request showed, 0 before
    retyped, told,   \* the last retry under its key and its answer
    payer, payee,    \* balances
    posts

balances == <<payer, payee>>
retry == <<retyped, told>>
vars == <<stage, typed, amount, stored, shown, retry, balances, posts>>

Blank == [amount |-> String(0), iban |-> <<>>]

\* The handler parses the amount, then Validate looks at it and at the IBAN.
Validate(c) ==
    ~ParseRefuses(c.amount) /\ ParseSAR(c.amount) > 0 /\ ~IbanRefuses(c.iban)

\* Mutant of Fingerprint: the IBAN as it was typed.
FingerprintRaw(c) == [amount |-> ParseSAR(c.amount), iban |-> c.iban]

\* Fingerprint: an injective hash of the halalas and the normalized IBAN.  (The
\* other fields are compared as they are.)
Fingerprint(c) ==
    [amount |-> ParseSAR(c.amount),
     iban |-> IF IbanRefuses(c.iban) THEN c.iban ELSE Normalize(c.iban)]

\* Mutant of FundsRefuse: the payee's side is not checked.
FundsRefusePayer(from, to, m) == SubOverflows(from, m) \/ Sub(from, m) < 0

\* validateSufficientFunds on the two rows of a transfer between wallets.
FundsRefuse(from, to, m) ==
    \/ SubOverflows(from, m) \/ Sub(from, m) < 0
    \/ AddOverflows(to, m) \/ Add(to, m) < 0

-----------------------------------------------------------------------------

Init ==
    /\ stage = "idle"
    /\ typed = Blank
    /\ amount = 0
    /\ stored = String(0)
    /\ shown = 0
    /\ retyped = Blank /\ told = "none"
    /\ payer = PayerOpening /\ payee = PayeeOpening
    /\ posts = 0

\* Nothing more happens to the transfer in hand.
Finish ==
    /\ stage' = "idle"
    /\ typed' = Blank
    /\ amount' = 0
    /\ stored' = String(0)
    /\ shown' = 0
    /\ retyped' = Blank /\ told' = "none"

\* A new request that passes Validate, or does not.
Create(c) ==
    /\ stage = "idle"
    /\ Validate(c)
    /\ typed' = c
    /\ amount' = ParseSAR(c.amount)
    /\ stage' = "checked"
    /\ UNCHANGED <<stored, shown, retry, balances, posts>>

CreateRefused(c) ==
    /\ stage = "idle"
    /\ ~Validate(c)
    /\ typed' = c
    /\ stage' = "refused"
    /\ UNCHANGED <<amount, stored, shown, retry, balances, posts>>

\* The client sends a request again under the key of the posted one: the guard
\* compares fingerprints.
Retry(c) ==
    /\ stage = "posted" /\ told = "none"
    /\ Validate(c)
    /\ retyped' = c
    /\ told' = IF Fingerprint(c) = Fingerprint(typed) THEN "replay" ELSE "PAYLOAD_MISMATCH"
    /\ UNCHANGED <<stage, typed, amount, stored, shown, balances, posts>>

\* Mutant of PostTransfer: the row that credits the payee is missing.
PostTransferUncredited ==
    /\ stage = "checked"
    /\ posts < MaxPosts
    /\ ~FundsRefuse(payer, payee, amount)
    /\ payer' = Sub(payer, amount) /\ UNCHANGED payee
    /\ stored' = String(amount)
    /\ posts' = posts + 1
    /\ stage' = "posted"
    /\ UNCHANGED <<typed, amount, shown, retry>>

\* Coordinator.PostTransfer on the two wallets: both rows and the saga row with
\* the command's text commit together.
PostTransfer ==
    /\ stage = "checked"
    /\ posts < MaxPosts
    /\ ~FundsRefuse(payer, payee, amount)
    /\ payer' = Sub(payer, amount) /\ payee' = Add(payee, amount)
    /\ stored' = String(amount)
    /\ posts' = posts + 1
    /\ stage' = "posted"
    /\ UNCHANGED <<typed, amount, shown, retry>>

\* The ledger refuses the rows: insufficient funds or an overflow.
PostRefused ==
    /\ stage = "checked"
    /\ FundsRefuse(payer, payee, amount)
    /\ Finish
    /\ UNCHANGED <<balances, posts>>

\* statusFromSaga: CommandFromJSON parses the stored text.
GetStatus ==
    /\ stage = "posted"
    /\ ~ParseRefuses(stored)
    /\ shown' = ParseSAR(stored)
    /\ UNCHANGED <<stage, typed, amount, stored, retry, balances, posts>>

\* The transfer in hand is settled, or was refused; the next one may come.
Over ==
    /\ stage \in {"refused", "posted"}
    /\ Finish
    /\ UNCHANGED <<balances, posts>>

\* compensate: the command must parse, the amount is the settlement's.
Compensate ==
    /\ stage = "posted"
    /\ ~ParseRefuses(stored)
    /\ ~FundsRefuse(payee, payer, amount)
    /\ payee' = Sub(payee, amount) /\ payer' = Add(payer, amount)
    /\ Finish
    /\ UNCHANGED posts

Next ==
    \/ \E c \in Commands : Create(c) \/ CreateRefused(c) \/ Retry(c)
    \/ PostTransfer \/ PostRefused \/ GetStatus \/ Over \/ Compensate

Spec == Init /\ [][Next]_vars

-----------------------------------------------------------------------------

\* Every variable has its type; an amount past Validate is positive.
TypeOK ==
    /\ stage \in {"idle", "refused", "checked", "posted"}
    /\ typed \in Command /\ retyped \in Command
    /\ told \in {"none", "replay", "PAYLOAD_MISMATCH"}
    /\ stored \in Text
    /\ amount \in Int64 /\ shown \in Int64
    /\ payer \in Int64 /\ payee \in Int64
    /\ posts \in 0..MaxPosts
    /\ stage \in {"checked", "posted"} => amount > 0

\* What was stored reads back as what was posted, so the status shows the
\* posted amount and no compensation fails on its command's text.
StoredAmountReads ==
    stage = "posted" =>
        /\ ~ParseRefuses(stored) /\ ParseSAR(stored) = amount
        /\ shown \in {0, amount}

\* int64 arithmetic neither makes nor loses a halala, at either end of its
\* range: no balance wraps around and their sum is the opening sum.
MoneyConserved ==
    /\ payer >= 0 /\ payee >= 0
    /\ payer + payee = PayerOpening + PayeeOpening

\* A transfer that was just posted can be compensated: the refusals of the
\* arithmetic never stand in the way of giving the money back.
CompensationFits ==
    stage = "posted" => ~FundsRefuse(payee, payer, amount)

\* ParseSAIBAN against the standard: a command of ASCII letters passes only with
\* a Saudi IBAN, in any spelling, and one that is refused, of whatever letters,
\* has a wrong IBAN or amount.  (Digits and capitals of other scripts pass
\* unicode.IsDigit and IsUpper; MCTransferCommand has texts that pass with them.)
IbanChecked ==
    /\ stage \in {"checked", "posted"} /\ InAscii(typed.iban) => IsSaudiIban(typed.iban)
    /\ stage = "refused" /\ IsSaudiIban(typed.iban) =>
           ParseRefuses(typed.amount) \/ ParseSAR(typed.amount) <= 0

\* A retry is told "replay" exactly if it means the transfer that was posted: the
\* same account, however spaced or capitalised, and the same amount, however
\* written (of those that fit an int64, see TypedIsPosted).
RetryTrue ==
    told # "none" /\ {Meaning(typed.amount), Meaning(retyped.amount)} \subseteq Int64 =>
        (told = "replay" <=> /\ SameLetters(typed.iban, retyped.iban)
                            /\ Meaning(typed.amount) = Meaning(retyped.amount))

\* "SAR constructs money from whole riyals and halalas", "ParseSAR parses a
\* decimal string such as 1500.50" (money.go): what is posted is what the
\* client typed.
TypedIsPosted == stage = "posted" => amount = Meaning(typed.amount)
=============================================================================
