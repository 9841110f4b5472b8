---------------------------- MODULE Derivatives -----------------------------
(***************************************************************************)
(* A chain of the indicator tier, swept batch by batch: trades close the   *)
(* bars of a period (Ohlcs, Volumes and Bars of trading_data_derivatives/  *)
(* src/bar.rs), bars are retained, and an RSI is taken of their closes     *)
(* (RsiDelta, AvgGain, AvgLoss and Rsi of rsi_node.rs), over the kernels   *)
(* Close, Scan and Fold and the carry of trading_data_dag/src/lib.rs.      *)
(*                                                                         *)
(* Prices are integers.  A mean is [sum, over], standing for sum / over; a *)
(* reading off two averages is the pair, and the smoothing of readings is  *)
(* the sequence of those it has seen.                                      *)
(***************************************************************************)
EXTENDS Retention

CONSTANTS Prices, Gaps,   \* a trade's price, and its distance from the last
          Period,         \* what a bar closes on
          ReadSets,       \* the reaches bars may be read at, graph by graph
          BaseLen, SmoothLen,
          MaxTrades, MaxTicks, MaxBatch

ASSUME DerivativesConstants ==
    /\ Period \in Nat \ {0} /\ BaseLen \in Nat \ {0} /\ SmoothLen \in Nat \ {0}
    /\ Gaps \subseteq Nat /\ Prices \subseteq Int
    /\ {MaxTrades, MaxTicks, MaxBatch} \subseteq Nat
    \* The RSI reads two bars, and a buffer retains one element at least.
    /\ \A rs \in ReadSets : IsFiniteSet(rs) /\ Elems(2) \in rs
                            /\ rs \subseteq [kind : {"elems", "over"}, n : Nat \ {0}]

VARIABLES reads,      \* the reaches this graph reads bars at
          tape,       \* every trade delivered
          ticks,
          node,       \* what each node holds between ticks
          out,        \* what each published this tick
          published   \* what each published so far

vars == <<reads, tape, ticks, node, out, published>>

\* Bug: a bar is stamped where its period opens.
OpenOf(ts) == ts - (ts % Period)

\* closed_by: the instant that ends the period ts is in.
CloseOf(ts) == ts - (ts % Period) + Period

-----------------------------------------------------------------------------
(* The bodies: what opens, folds and reads each accumulator.                *)

OhlcOpen(t) == [open |-> t.price, high |-> t.price, low |-> t.price, close |-> t.price]
OhlcFold(o, t) == [open |-> o.open, high |-> Max({o.high, t.price}),
                   low |-> Min({o.low, t.price}), close |-> t.price]
VolumeOpen(t) == 1
VolumeFold(v, t) == v + 1

Opened(body, t) == IF body = "ohlc" THEN OhlcOpen(t) ELSE VolumeOpen(t)
Folded(body, slots, t) == IF body = "ohlc" THEN OhlcFold(slots, t) ELSE VolumeFold(slots, t)

ColdMean == [mean |-> [sum |-> 0, over |-> 1], warmed |-> 0]

\* Bug: the mean is divided a sample late.
WilderLate(c, x) ==
    LET n == BaseLen
        m == c.mean
    IN  [mean |-> IF c.warmed < n THEN [m EXCEPT !.sum = @ + x]
                  ELSE [sum |-> m.sum * (n - 1) + x * m.over, over |-> m.over * n],
         warmed |-> Min({c.warmed + 1, n})]

\* wilder: the plain mean of the first BaseLen, then the recurrence.
Wilder(c, x) ==
    LET n == BaseLen
        m == c.mean
    IN  [mean |-> IF c.warmed < n - 1 THEN [m EXCEPT !.sum = @ + x]
                  ELSE IF c.warmed < n THEN [sum |-> m.sum + x, over |-> n]
                  ELSE [sum |-> m.sum * (n - 1) + x * m.over, over |-> m.over * n],
         warmed |-> Min({c.warmed + 1, n})]

GainStep(c, d) == Wilder(c, Max({d, 0}))
LossStep(c, d) == Wilder(c, Max({-d, 0}))
MeanValue(c, d) == IF c.warmed < BaseLen THEN None ELSE Some(c.mean)

\* Rsi: the reading, smoothed; present once the smoothing is warm too.
ColdRsi == [smooth |-> <<>>, seen |-> 0]
RsiStep(c, reading) == [smooth |-> IF c.seen < 1 THEN <<reading>> ELSE Append(c.smooth, reading),
                        seen |-> Min({c.seen + 1, SmoothLen})]
RsiValue(c, reading) == IF c.seen < SmoothLen THEN None
                        ELSE Some([actual |-> reading, smooth |-> c.smooth])

Step(body, c, x) ==
    CASE body = "gain" -> GainStep(c, x)
      [] body = "loss" -> LossStep(c, x)
      [] body = "rsi" -> RsiStep(c, x)
Value(body, c, x) == IF body = "rsi" THEN RsiValue(c, x) ELSE MeanValue(c, x)

-----------------------------------------------------------------------------
(* Close, Fold and carry: the kernels.                                     *)

NoPending == [live |-> FALSE, ts |-> 0, slots |-> None]

\* A period is closed by the first element past its boundary; the one still
\* open is pending.
Close(body, acc, t) ==
    IF acc.p.live /\ acc.p.ts = CloseOf(t.ts)
    THEN [acc EXCEPT !.p.slots = Folded(body, @, t)]
    ELSE [p |-> [live |-> TRUE, ts |-> CloseOf(t.ts), slots |-> Opened(body, t)],
          out |-> IF acc.p.live THEN Append(acc.out, [ts |-> acc.p.ts, slots |-> acc.p.slots])
                                ELSE acc.out]
CloseRun(body, p, run) ==
    FoldLeft(LAMBDA acc, t : Close(body, acc, t), [p |-> p, out |-> <<>>], run)

\* One element out per element in; an absent one advances nothing.
Fold(body, acc, x) ==
    IF x = None THEN [acc EXCEPT !.out = Append(@, None)]
    ELSE LET to == Step(body, acc.c, x[1])
         IN  [c |-> to, out |-> Append(acc.out, Value(body, to, x[1]))]
FoldRun(body, c, run) ==
    FoldLeft(LAMBDA acc, x : Fold(body, acc, x), [c |-> c, out |-> <<>>], run)

\* The last present element of the run, or what already stood.
Carry(held, run) ==
    LET present == {k \in DOMAIN run : run[k] # None}
    IN  IF present = {} THEN held ELSE run[Max(present)]

-----------------------------------------------------------------------------
(* Between the kernels.                                                    *)

\* Bars: both accumulators close on the same trade, so the two runs zip.
Zipped(ohlc, volume) ==
    [k \in DOMAIN ohlc |-> [ts |-> ohlc[k].ts, ohlc |-> ohlc[k].slots, volume |-> volume[k].slots]]

\* RsiDelta: close to close, absent where nothing is behind.
Deltas(v) ==
    [i \in 1..v.fresh |->
        LET p == LaggedAt(v, i, 1)
        IN  IF p = None THEN None
            ELSE Some(v.run[Len(v.run) - v.fresh + i].ohlc.close - p[1].ohlc.close)]

\* Both legs, or neither.
Legs(gain, loss) ==
    [k \in DOMAIN gain |-> IF gain[k] = None \/ loss[k] = None THEN None
                           ELSE Some([gain |-> gain[k][1], loss |-> loss[k][1]])]

-----------------------------------------------------------------------------
(* A tick.                                                                 *)

\* The frame's one buffer over the bars: the join of every read.
Retained == FoldLeft(Join, Unit, SetToSeq(reads))

Cold == [ohlc |-> NoPending, volume |-> NoPending, rows |-> NoRows,
         alone |-> [r \in reads |-> NoRows], gain |-> ColdMean, loss |-> ColdMean,
         rsi |-> ColdRsi, carry |-> None]

NoRuns == [bars |-> <<>>, rsi |-> <<>>]

\* The sweep, node by node; alone is each read's own buffer, as a graph with no
\* other consumer would keep it.
Tick(batch) ==
    LET ohlc == CloseRun("ohlc", node.ohlc, batch)
        volume == CloseRun("volume", node.volume, batch)
        bars == Zipped(ohlc.out, volume.out)
        rows == AdvanceRows(node.rows, bars, Retained)
        deltas == Deltas(ViewRows(rows, Elems(2)))
        gain == FoldRun("gain", node.gain, deltas)
        loss == FoldRun("loss", node.loss, deltas)
        rsi == FoldRun("rsi", node.rsi, Legs(gain.out, loss.out))
    IN  /\ UNCHANGED reads
        /\ tape' = tape \o batch
        /\ ticks' = ticks + 1
        /\ out' = [trades |-> batch, bars |-> bars, rsi |-> rsi.out]
        /\ node' = [ohlc |-> ohlc.p, volume |-> volume.p, rows |-> rows,
                    alone |-> [r \in reads |-> AdvanceRows(node.alone[r], bars, r)],
                    gain |-> gain.c, loss |-> loss.c, rsi |-> rsi.c,
                    carry |-> Carry(node.carry, rsi.out)]
        /\ published' = [bars |-> published.bars \o bars, rsi |-> published.rsi \o rsi.out]

Init == /\ reads \in ReadSets
        /\ tape = <<>> /\ ticks = 0 /\ node = Cold
        /\ out = [trades |-> <<>>, bars |-> <<>>, rsi |-> <<>>]
        /\ published = NoRuns

\* Trades later than those before them, however the feed batches them.
Elapsed(gaps, k) == FoldLeft(+, 0, SubSeq(gaps, 1, k))
BatchesOf(n) ==
    LET last == IF tape = <<>> THEN 0 ELSE Last(tape).ts
    IN  {[k \in 1..n |-> [ts |-> last + Elapsed(gaps, k), price |-> prices[k]]] :
            gaps \in [1..n -> Gaps], prices \in [1..n -> Prices]}
Batches == UNION {BatchesOf(n) : n \in 0..Min({MaxBatch, MaxTrades - Len(tape)})}

Next == ticks < MaxTicks /\ \E batch \in Batches : Tick(batch)

Spec == Init /\ [][Next]_vars

-----------------------------------------------------------------------------
(* References, over the tape as a whole.                                   *)

BarAt(trades, end) ==
    LET within == {k \in DOMAIN trades : CloseOf(trades[k].ts) = end}
        paid == {trades[k].price : k \in within}
    IN  [ts |-> end, volume |-> Cardinality(within),
         ohlc |-> [open |-> trades[Min(within)].price, high |-> Max(paid),
                   low |-> Min(paid), close |-> trades[Max(within)].price]]

Nth(S, k) == CHOOSE x \in S : Cardinality({y \in S : y <= x}) = k

\* The bars of the periods the trades have left behind.
Closed(trades) == {CloseOf(trades[k].ts) : k \in DOMAIN trades}
                     \ (IF trades = <<>> THEN {} ELSE {CloseOf(Last(trades).ts)})
BarsOf(trades) ==
    [k \in 1..Cardinality(Closed(trades)) |-> BarAt(trades, Nth(Closed(trades), k))]

\* The moves of one sign between the first j bars, close to close.
Moves(bars, sign, j) ==
    [k \in 1..(j - 1) |-> Max({sign * (bars[k + 1].ohlc.close - bars[k].ohlc.close), 0})]

\* Their Wilder mean, taken whole: the first BaseLen summed, the rest recurred over.
Recurred(m, x) == [sum |-> m.sum * (BaseLen - 1) + x * m.over, over |-> m.over * BaseLen]
MeanOf(moves) ==
    FoldLeft(LAMBDA m, x : Recurred(m, x),
             [sum |-> FoldLeft(+, 0, SubSeq(moves, 1, BaseLen)), over |-> BaseLen],
             SubSeq(moves, BaseLen + 1, Len(moves)))

ReadingAt(bars, j) == [gain |-> MeanOf(Moves(bars, 1, j)), loss |-> MeanOf(Moves(bars, -1, j))]

\* The RSI as it stood at bar j, from the bars alone.
RsiAt(bars, j) ==
    IF j < BaseLen + SmoothLen THEN None
    ELSE Some([actual |-> ReadingAt(bars, j),
               smooth |-> [k \in 1..(j - BaseLen) |-> ReadingAt(bars, BaseLen + k)]])

\* The window of a reach that ends at bar j, None where it begins before the
\* first bar.
WindowAt(bars, r, j) ==
    LET cut == bars[j].ts - r.n
    IN  IF r.kind = "elems"
        THEN IF j >= r.n THEN Some(SubSeq(bars, j - r.n + 1, j)) ELSE None
        ELSE IF cut >= bars[1].ts
             THEN Some(SubSeq(bars, Min({k \in 1..j : bars[k].ts > cut}), j)) ELSE None

-----------------------------------------------------------------------------
(* Properties.                                                             *)

\* How the feed cut its batches shows in nothing: the runs published are those of
\* the tape taken whole, cold elements absent and warm ones present, and the
\* carry stands at the last reading any of them had.
RunsMatchTheTape ==
    /\ published.bars = BarsOf(tape)
    /\ published.rsi = [j \in DOMAIN published.bars |-> RsiAt(published.bars, j)]
    /\ node.carry = LET n == Len(published.bars)
                    IN  IF n = 0 THEN None ELSE RsiAt(published.bars, n)

\* A window handed out is the true one, whatever the buffer dropped; and a buffer
\* of the read's own kind declines only what reaches back past the first bar.
WindowsAreExact ==
    \A r \in reads, i \in DOMAIN out.bars :
        LET w == TrailingAt(ViewRows(node.rows, r), i)
            true == WindowAt(published.bars, r, Len(published.bars) - Len(out.bars) + i)
        IN  w = true \/ (w = None /\ r.kind # Retained.kind)

\* A count beside a span is of bars the longest span holds however the gaps fall.
Reaching ==
    \A rs \in ReadSets : \A c \in rs :
        c.kind = "elems" /\ (\E s \in rs : s.kind = "over")
            => \E s \in rs : /\ s.kind = "over"
                            /\ \A g \in Gaps : (c.n - 1) * (g + Period - 1) < s.n

\* A read is what a buffer at exactly its reach would hold: no other consumer of
\* the series shows in it.
ReadsAsIfAlone ==
    \A r \in reads : All(ViewRows(node.rows, r)) = All(ViewRows(node.alone[r], r))

\* A node clocked by trades finds, at each of them, the bar that had closed by
\* then: not one a later trade of the batch closed, and never none where one
\* stood.
ClosedBy(run, deadline) == SubSeq(run, 1, UpTo(run, deadline))
NoReadAhead ==
    \A r \in reads, i \in DOMAIN out.trades :
        LET by == ClosedBy(All(ViewRows(node.rows, r)), out.trades[i].ts)
            stood == BarsOf(SubSeq(tape, 1, Len(tape) - Len(out.trades) + i))
        IN  IF stood = <<>> THEN by = <<>> ELSE by # <<>> /\ Last(by) = Last(stood)
=============================================================================
