------------------------- MODULE MCSettlementWorker -------------------------
(***************************************************************************)
(* SettlementWorker on suspense (1) and three wallets.  Transfer 1 pays    *)
(* wallet 3 from 2, transfer 2 lets wallet 3 spend what it got.            *)
(***************************************************************************)
EXTENDS SettlementWorker

MCFrom == [t \in Transfers |-> IF t = 2 THEN 3 ELSE 2]
MCTo == [t \in Transfers |-> IF t = 2 THEN 4 ELSE 3]
MCAmount == [t \in Transfers |-> 2]
MCSeedIds == {<<"seed", 0>>}
MCSeedRows == Move(<<"seed", 0>>, 1, 2, 4)
=============================================================================
