---------------------------- MODULE MCBookReplay ----------------------------
(***************************************************************************)
(* Four rows on two levels, over up to three periods; a range that starts  *)
(* with the recording, or on a checkpoint both of whose levels have moved  *)
(* since, or neither.                                                      *)
(***************************************************************************)
EXTENDS BookReplay

CONSTANTS bid, ask

MCLevel == {bid, ask}
MCSeeds == {[l \in Level |-> IF l = bid THEN 1 ELSE Absent]}
MCCarried == MCSeeds \cup {[l \in Level |-> IF l = bid THEN 2 ELSE 1]}
MCWrites == {<<bid, 0>>, <<bid, 2>>, <<ask, 1>>}
=============================================================================
