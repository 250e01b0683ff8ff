----------------------------- MODULE MCLedger -----------------------------
(***************************************************************************)
(* Ledger with the demo accounts of the seed migration: suspense-funding   *)
(* (1, an asset), wallet-alice (2), wallet-bob (3) and one account (4)     *)
(* that is created while requests run.                                     *)
(***************************************************************************)
EXTENDS Ledger

Transfer(id, from, to, amount) ==
    << [tx |-> id, account |-> from, side |-> "DEBIT", amount |-> amount],
       [tx |-> id, account |-> to, side |-> "CREDIT", amount |-> amount] >>

\* "pay" and "rent" compete for alice's 3 halalas, "back" crosses them, "reuse"
\* is another payload under the id of "pay" and needs the new account, "huge"
\* overflows, "bad" is unbalanced.  Every request may be posted again and again.
MCLines ==
    [ pay   |-> Transfer("t1", 2, 3, 2),
      reuse |-> Transfer("t1", 1, 4, 1),
      rent  |-> Transfer("t2", 2, 3, 2),
      back  |-> Transfer("t3", 3, 2, 2),
      huge  |-> Transfer("t4", 1, 2, 2),
      bad   |-> << [tx |-> "t5", account |-> 2, side |-> "DEBIT", amount |-> 2],
                   [tx |-> "t5", account |-> 3, side |-> "CREDIT", amount |-> 1] >> ]

MCRequests == DOMAIN MCLines
MCId == [r \in MCRequests |-> MCLines[r][1].tx]
MCSeedRows ==
    << [tx |-> "seed", account |-> 2, side |-> "CREDIT", amount |-> 3],
       [tx |-> "seed", account |-> 1, side |-> "DEBIT", amount |-> 3] >>
=============================================================================
