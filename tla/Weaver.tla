------------------------------- MODULE Weaver -------------------------------
(***************************************************************************)
(* The weaver of trading_data_persistence/src/sync/mod.rs: N arrival-keyed *)
(* lanes, and the step that hands the graph the next run of one of them.   *)
(* Both feeds are this machine: Replay keys every row before the first     *)
(* step and never compacts, Live keys one message at a time, under stamps  *)
(* above everything it has keyed, and compacts before every step.          *)
(*                                                                         *)
(* A lane is ts (its weave keys), buf (its rows, by their number in the    *)
(* lane) and cur (how many of those were consumed); lane order is the      *)
(* order of heads(): trades, deltas, anchors, oi, mc.                      *)
(***************************************************************************)
EXTENDS Integers, Sequences

CONSTANTS
    N,          \* lanes
    MaxKey,     \* i64::MAX; Arrival::MIN is the key -MaxKey - 1
    Clock,      \* the ReadClock's cell width; 0 is EVENT, MaxKey is ALL
    Deltas,     \* the lanes a Past is cut from
    Anchors,
    Batches,    \* rows per lane a message may carry: a subset of [1..N -> Nat]
    Quota       \* bound on the rows ever keyed, per lane

ASSUME WeaverConstants ==
    /\ N \in Nat \ {0}
    /\ MaxKey \in Nat \ {0}
    /\ Clock \in 0..MaxKey
    /\ Deltas \in 1..N
    /\ Anchors \in 1..N
    /\ Batches \subseteq [1..N -> Nat]
    /\ Quota \in [1..N -> Nat]

MinKey == -MaxKey - 1
Lanes == 1..N
Keys == MinKey..MaxKey

VARIABLES
    ts,         \* [Lanes -> Seq(Keys)]
    buf,        \* [Lanes -> Seq(Nat)]
    cur,        \* [Lanes -> Nat]
    prevEmit,   \* the key the last run ended on
    keyed,      \* history: rows ever keyed, per lane
    run,        \* the run the last step took off a lane: <<key, row>> pairs
    winner,     \* and the lane it came from, 0 before the first step
    past        \* the Past handed over with it: rows of Deltas and of Anchors

vars == <<ts, buf, cur, prevEmit, keyed, run, winner, past>>

-----------------------------------------------------------------------------
(* A lane.                                                                 *)

Pending(l) == cur[l] < Len(ts[l])

HeadKey(l) == ts[l][cur[l] + 1]

\* Rows of lane l handed over so far.
Delivered(l) == keyed[l] - (Len(ts[l]) - cur[l])

\* The last arrival of the cell k falls in, with i64 saturation: flooring
\* Arrival::MIN must not wrap.
Saturated(k) == IF k < MinKey THEN MinKey ELSE IF k > MaxKey THEN MaxKey ELSE k

CellEnd(k) ==
    IF Clock = 0 THEN k ELSE Saturated(Saturated(k - (k % Clock)) + (Clock - 1))

\* The lane whose head is earliest; the first of them in lane order.
IsWinner(w) ==
    /\ Pending(w)
    /\ \A l \in Lanes : Pending(l) =>
         \/ HeadKey(w) < HeadKey(l)
         \/ HeadKey(w) = HeadKey(l) /\ w <= l

\* Bug: a run bounded by its cell alone.
CellOnlyWithin(w, k) == k <= CellEnd(HeadKey(w))

\* k may still join the run that opens at w's head: it lies in that head's
\* cell, and no other lane holds a row before it.
Within(w, k) ==
    /\ k <= CellEnd(HeadKey(w))
    /\ \A l \in Lanes \ {w} : Pending(l) => k <= HeadKey(l)

\* The run that starts at w's head ends at index e: take_run's maximal scan.
IsRunEnd(w, e) ==
    /\ cur[w] < e
    /\ \A i \in (cur[w] + 2)..e : Within(w, ts[w][i])
    /\ e < Len(ts[w]) => ~ Within(w, ts[w][e + 1])

-----------------------------------------------------------------------------
Init ==
    /\ ts = [l \in Lanes |-> <<>>]
    /\ buf = [l \in Lanes |-> <<>>]
    /\ cur = [l \in Lanes |-> 0]
    /\ prevEmit = MinKey
    /\ keyed = [l \in Lanes |-> 0]
    /\ run = <<>>
    /\ winner = 0
    /\ past = [deltas |-> <<>>, anchors |-> <<>>]

\* What Lane::key asserts of its lane, and what both feeds give the weave: a
\* key is never below one already handed over.
MayKey(l, k) ==
    /\ prevEmit <= k
    /\ ts[l] # <<>> => ts[l][Len(ts[l])] <= k

\* One message's rows, n[l] of them on lane l, claim their slots at key k.
AppendRows(k, n) ==
    /\ ts' = [l \in Lanes |-> ts[l] \o [i \in 1..n[l] |-> k]]
    /\ buf' = [l \in Lanes |-> buf[l] \o [i \in 1..n[l] |-> keyed[l] + i]]
    /\ keyed' = [l \in Lanes |-> keyed[l] + n[l]]
    /\ UNCHANGED <<cur, prevEmit, run, winner, past>>

\* A message, under a key the assertions of Lane::key and Weaver::step allow.
KeyRows(k, n) ==
    /\ \A l \in Lanes : n[l] > 0 => MayKey(l, k)
    /\ AppendRows(k, n)

\* The book rows delivered before the step that hands over w's run up to e.
\* Bug first: the cursors read after the winner advanced.
LatePast(w, e) ==
    LET stands(l) == IF l = w THEN e ELSE cur[l]
    IN  [deltas  |-> SubSeq(buf[Deltas], 1, stands(Deltas)),
         anchors |-> SubSeq(buf[Anchors], 1, stands(Anchors))]

PastOf(w, e) ==
    [deltas  |-> SubSeq(buf[Deltas], 1, cur[Deltas]),
     anchors |-> SubSeq(buf[Anchors], 1, cur[Anchors])]

\* Bug: the first checkpoint of a run, not the last.
HandedFirst == IF winner = Anchors THEN <<run[1]>> ELSE run

\* What the step hands over of the run it took: every row of it, but of the
\* anchors lane its newest checkpoint alone.
Handed == IF winner = Anchors THEN <<run[Len(run)]>> ELSE run

\* Weaver::step.  Both pre-step book cursors are read before the winner moves.
Step(w, e) ==
    /\ IsWinner(w)
    /\ IsRunEnd(w, e)
    /\ past' = PastOf(w, e)
    /\ run' = [i \in 1..(e - cur[w]) |-> <<ts[w][cur[w] + i], buf[w][cur[w] + i]>>]
    /\ winner' = w
    /\ cur' = [cur EXCEPT ![w] = e]
    /\ prevEmit' = ts[w][e]
    /\ UNCHANGED <<ts, buf, keyed>>

\* Lane::compact reclaims a consumed prefix that dominates its lane.
Dominated(l) == cur[l] > 0 /\ cur[l] * 2 >= Len(ts[l])

\* Bug: one row too many is drained.
AfterPrefixAndOne(s, n) == SubSeq(s, n + 2, Len(s))

AfterPrefix(s, n) == SubSeq(s, n + 1, Len(s))

Compact ==
    /\ \E l \in Lanes : Dominated(l)
    /\ ts' = [l \in Lanes |-> IF Dominated(l) THEN AfterPrefix(ts[l], cur[l]) ELSE ts[l]]
    /\ buf' = [l \in Lanes |-> IF Dominated(l) THEN AfterPrefix(buf[l], cur[l]) ELSE buf[l]]
    /\ cur' = [l \in Lanes |-> IF Dominated(l) THEN 0 ELSE cur[l]]
    /\ UNCHANGED <<prevEmit, keyed, run, winner, past>>

Weave == \E w \in Lanes : \E e \in 1..Len(ts[w]) : Step(w, e)

Ingest == \E k \in Keys, n \in Batches : KeyRows(k, n)

\* Whatever its feed, and however much of it.
Weaving == Init /\ [][Ingest \/ Weave \/ Compact]_vars

InQuota(n) == \A l \in Lanes : keyed[l] + n[l] <= Quota[l]

Next ==
    \/ \E k \in Keys, n \in Batches : InQuota(n) /\ KeyRows(k, n)
    \/ Weave
    \/ Compact

Spec == Init /\ [][Next]_vars

-----------------------------------------------------------------------------
(* Properties.                                                             *)

TypeOK ==
    /\ ts \in [Lanes -> Seq(Keys)]
    /\ buf \in [Lanes -> Seq(Nat)]
    /\ cur \in [Lanes -> Nat]
    /\ prevEmit \in Keys
    /\ keyed \in [Lanes -> Nat]
    /\ run \in Seq(Keys \X Nat)
    /\ winner \in 0..N
    /\ past \in [deltas : Seq(Nat), anchors : Seq(Nat)]

\* The assertion of Weaver::step never fires: whatever it may pick next is not
\* keyed before the run it handed over last, however runs were cut and lanes
\* compacted.
NeverOutOfOrder == \A l \in Lanes : Pending(l) => prevEmit <= HeadKey(l)

\* Keys and rows of a lane stay in step, and a lane holds exactly its newest
\* rows: compaction reclaims consumed rows only, each of them once.
HoldsTheTail ==
    \A l \in Lanes :
      /\ Len(buf[l]) = Len(ts[l])
      /\ cur[l] <= Len(ts[l])
      /\ Len(ts[l]) <= keyed[l]
      /\ \A i \in 1..Len(buf[l]) : buf[l][i] = keyed[l] - Len(buf[l]) + i

\* The rows a Past slice holds end where the weave stood before the step it
\* came with: rows, the slice of lane l, are numbered up to the row before
\* the run handed over, or before whatever lane l still holds.
StopsAtTheWeave(rows, l) ==
    LET stood == IF winner = l THEN run[1][2] - 1 ELSE Delivered(l)
    IN  \A i \in 1..Len(rows) : rows[i] = stood - Len(rows) + i

\* No rewind can read its own future, nor this step's own batch.
PastStopsAtTheWeave ==
    StopsAtTheWeave(past.deltas, Deltas) /\ StopsAtTheWeave(past.anchors, Anchors)

\* What is keyed and not handed over, as ArrivalMerge sees it.
Held == [l \in Lanes |->
           [i \in 1..(Len(ts[l]) - cur[l]) |-> <<ts[l][cur[l] + i], buf[l][cur[l] + i]>>]]

Merge == INSTANCE ArrivalMerge WITH pending <- Held, out <- Handed, Conflated <- {Anchors}

\* The weaver is an arrival-ordered merge: no row comes out twice, and none is
\* passed over but a checkpoint, for a newer one of its own run; rows keep
\* their lane's order, and no run passes a row another lane still holds.
IsArrivalMerge == Merge!Spec

=============================================================================
