------------------------------ MODULE MCWeaver ------------------------------
(***************************************************************************)
(* Three lanes (trades, deltas, anchors) under the keys -3..2, with        *)
(* Arrival::MIN among them, and cells of two keys, so that runs meet cell  *)
(* ends, ties, other lanes' heads and the saturated first cell.            *)
(***************************************************************************)
EXTENDS Weaver

\* A trade message, one book message of one or two levels, a book message
\* with the checkpoint it made due, a checkpoint of its own.  Two checkpoints
\* may be keyed into one run, of which only the newer is handed over.
MCBatches == {<<1, 0, 0>>, <<0, 1, 0>>, <<0, 2, 0>>, <<0, 1, 1>>, <<0, 0, 1>>}

MCQuota == <<1, 3, 2>>
=============================================================================
