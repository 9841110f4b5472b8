---------------------------- MODULE MCShadowBook ----------------------------
(* One bid and one ask: a level set, reset and removed, alone and together *)
(* with the other one.                                                     *)
EXTENDS ShadowBook

CONSTANTS bid, ask

MCLevel == {bid, ask}
MCChanges == {[l \in {bid} |-> 1], [l \in {ask} |-> 0],
              [l \in Level |-> IF l = bid THEN 0 ELSE 1],
              [l \in Level |-> IF l = bid THEN 2 ELSE 0]}
=============================================================================
