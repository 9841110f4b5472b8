----------------------------- MODULE Retention ------------------------------
(***************************************************************************)
(* What the engine retains of a series, and how it is read: Horizon, Rows, *)
(* Hist and Buffer of trading_data_dag/src/lib.rs.  An element is a record *)
(* with a field ts; a run is a sequence of them, in ts order.              *)
(***************************************************************************)
EXTENDS Integers, Sequences, FiniteSets, SequencesExt

Unit == [kind |-> "unit", n |-> 0]
Unbounded == [kind |-> "unbounded", n |-> 0]
Elems(k) == [kind |-> "elems", n |-> k]
Over(tf) == [kind |-> "over", n |-> tf]

\* i64::MIN: the watermark of a batch that has seen nothing.
NoTs == -1000

None == <<>>
Some(x) == <<x>>

Longer(hs) == CHOOSE h \in hs : \A o \in hs : h.n >= o.n

\* What one buffer retains for two reads: a span outranks any count.
Join(a, b) ==
    LET of(kind) == {h \in {a, b} : h.kind = kind}
    IN  IF of("unbounded") # {} THEN Unbounded
        ELSE IF of("over") # {} THEN Longer(of("over"))
        ELSE IF of("elems") # {} THEN Longer(of("elems"))
        ELSE Unit

-----------------------------------------------------------------------------
(* Rows: a buffer with a cursor where the retained window starts.          *)

NoRows == [buf |-> <<>>, cur |-> 0, watermark |-> NoTs, fresh |-> 0]

RowsWindow(rows) == SubSeq(rows.buf, rows.cur + 1, Len(rows.buf))

\* partition_point(ts <= cut) over a run in ts order.
UpTo(run, cut) == Cardinality({k \in DOMAIN run : run[k].ts <= cut})

\* How many of a run h no longer reaches, from its newest.
Trim(run, h) == IF h.kind = "elems" THEN Max({Len(run) - h.n, 0})
                ELSE IF run = <<>> THEN 0 ELSE UpTo(run, Last(run).ts - h.n)

\* Bug: what is dropped leaves no mark.
AdvanceUnmarked(rows, fresh, h) ==
    LET drop == Trim(RowsWindow(rows), h)
    IN  [rows EXCEPT !.buf = @ \o fresh, !.cur = @ + drop, !.fresh = Len(fresh)]

\* Rows::advance: trim against what stood before the batch, then append.
AdvanceRows(rows, fresh, h) ==
    LET win == RowsWindow(rows)
        drop == Trim(win, h)
        cur == rows.cur + drop
        compact == drop > 0 /\ cur * 2 >= Len(rows.buf)
        mark == IF drop > 0 THEN Max({rows.watermark, win[drop].ts}) ELSE rows.watermark
    IN  [buf |-> (IF compact THEN SubSeq(rows.buf, cur + 1, Len(rows.buf)) ELSE rows.buf) \o fresh,
         cur |-> IF compact THEN 0 ELSE cur,
         watermark |-> IF mark = NoTs /\ fresh # <<>> THEN fresh[1].ts ELSE mark,
         fresh |-> Len(fresh)]

-----------------------------------------------------------------------------
(* Hist: a view of the rows at the reach its consumer declared.            *)

ViewRows(rows, h) == [run |-> RowsWindow(rows), fresh |-> rows.fresh,
                      horizon |-> h, watermark |-> rows.watermark]

\* Bug: a run as long as the deepest consumer of the series asked for.
AllUncut(v) == v.run

\* Hist::all: past and batch, the past cut to the declared reach.
All(v) ==
    LET behind == SubSeq(v.run, 1, Len(v.run) - v.fresh)
    IN  SubSeq(v.run, Trim(behind, v.horizon) + 1, Len(v.run))

\* The window that ends at the i-th fresh element, where it is complete.
TrailingAt(v, i) ==
    LET end == Len(v.run) - v.fresh + i
        upto == SubSeq(v.run, 1, end)
        cut == v.run[end].ts - v.horizon.n
    IN  IF v.horizon.kind = "elems"
        THEN IF end >= v.horizon.n THEN Some(SubSeq(v.run, end - v.horizon.n + 1, end)) ELSE None
        ELSE IF cut >= v.watermark THEN Some(SubSeq(upto, UpTo(upto, cut) + 1, end)) ELSE None

\* The element n back from the i-th fresh one.
LaggedAt(v, i, n) ==
    LET all == All(v)
        at == Len(all) - v.fresh + i - n
    IN  IF at >= 1 THEN Some(all[at]) ELSE None
=============================================================================
