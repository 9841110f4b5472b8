----------------------------- MODULE MCBookFold -----------------------------
(***************************************************************************)
(* A recorder of five rows on two levels, over up to four periods: rows    *)
(* that set a level, reset it and remove it, so that folding two of them   *)
(* in the wrong order, or skipping one, shows.                             *)
(***************************************************************************)
EXTENDS BookFold

CONSTANTS bid, ask

MCLevel == {bid, ask}
MCSeeds == {[l \in Level |-> IF l = bid THEN 1 ELSE Absent]}
MCWrites == {<<bid, 0>>, <<bid, 2>>, <<ask, 1>>}
=============================================================================
