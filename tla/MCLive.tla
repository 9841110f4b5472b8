------------------------------- MODULE MCLive -------------------------------
(***************************************************************************)
(* Three lanes (trades, deltas, anchors); a clock that stalls and runs     *)
(* backwards over the keys; messages that make no row, one, two, or a row  *)
(* and the checkpoint it made due.                                         *)
(***************************************************************************)
EXTENDS Live

MCBatches == {<<0, 0, 0>>, <<1, 0, 0>>, <<0, 2, 0>>, <<0, 1, 1>>}
MCQuota == <<9, 9, 9>>
=============================================================================
