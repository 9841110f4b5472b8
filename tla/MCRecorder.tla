----------------------------- MODULE MCRecorder -----------------------------
(* Two lanes; messages of one row, of two at one venue time, of two apart. *)
EXTENDS Recorder

MCMessages == {<<0>>, <<0, 0>>, <<0, 1>>}
MCMaxRows == <<4, 1>>
=============================================================================
