----------------------------- MODULE MCStrategy -----------------------------
(***************************************************************************)
(* A band alone, evidence for each side, against each other, and against   *)
(* ignorance; mids a full retrace apart, and envelopes they leave.         *)
(***************************************************************************)
EXTENDS Strategy

MCSituations == {
    {"band mid"}, {"band mid", "extended day"}, {"large cap", "band low", "worked book"},
    {"worked book", "volume surge"}}
=============================================================================
