---------------------------- MODULE ArrivalMerge ----------------------------
(***************************************************************************)
(* What a feed promises its graph: an arrival-ordered merge of lanes.      *)
(* Every row that was keyed is passed exactly once, in the order its lane  *)
(* received it, in blocks of one lane each; no block reaches past a row    *)
(* some lane still holds, and no block starts before the last one ended.   *)
(* A block is handed over whole, but for the lanes of which only the       *)
(* newest row counts, the checkpoints: of those, its last row alone.  How  *)
(* blocks are cut, how ties between lanes break and how the rows are       *)
(* stored is left to the implementation (Weaver).                          *)
(***************************************************************************)
EXTENDS Integers, Sequences

CONSTANTS Lanes,      \* the source lanes
          Keys,       \* arrival keys, integers
          Conflated   \* the lanes a block of which is told by its newest row

VARIABLES pending,    \* [Lanes -> Seq of <<key, row>>]: keyed and not passed
          out         \* what was handed over last of a block of one lane

mergeVars == <<pending, out>>

Key(r) == r[1]

\* The key the last block ended on may not be undercut.
NotBefore(k) == out # <<>> => Key(out[Len(out)]) <= k

Init == /\ pending = [l \in Lanes |-> <<>>]
        /\ out = <<>>

\* Rows arrive under the key k, behind what their lanes already hold.
Arrive(k) ==
    /\ DOMAIN pending' = Lanes
    /\ \A l \in Lanes :
         LET n == Len(pending[l])
         IN  /\ Len(pending'[l]) >= n
             /\ SubSeq(pending'[l], 1, n) = pending[l]
             /\ \A i \in (n + 1)..Len(pending'[l]) : Key(pending'[l][i]) = k
             /\ Len(pending'[l]) > n => \A i \in 1..n : Key(pending[l][i]) <= k
    /\ NotBefore(k)
    /\ UNCHANGED out

\* The first n rows of lane l are passed as one block.
HandOver(l, n) ==
    /\ NotBefore(Key(pending[l][1]))
    /\ out' = IF l \in Conflated THEN <<pending[l][n]>> ELSE SubSeq(pending[l], 1, n)
    /\ pending' = [pending EXCEPT ![l] = SubSeq(@, n + 1, Len(@))]
    /\ \A m \in Lanes : \A i \in 1..Len(pending'[m]) :
         Key(pending[l][n]) <= Key(pending'[m][i])

Next == \/ \E k \in Keys : Arrive(k)
        \/ \E l \in Lanes : \E n \in 1..Len(pending[l]) : HandOver(l, n)

Spec == Init /\ [][Next]_mergeVars
=============================================================================
