---------------------------- MODULE MCTrackPage ----------------------------
(***************************************************************************)
(* TrackPage over one worker and one transfer from wallet 2 to wallet 3,   *)
(* funded from suspense (1).                                               *)
(***************************************************************************)
EXTENDS TrackPage

MCFrom == [t \in Transfers |-> 2]
MCTo == [t \in Transfers |-> 3]
MCAmount == [t \in Transfers |-> 2]
MCSeedIds == {<<"seed", 0>>}
MCSeedRows == Move(<<"seed", 0>>, 1, 2, 4)
=============================================================================
