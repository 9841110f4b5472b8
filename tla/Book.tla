-------------------------------- MODULE Book --------------------------------
(***************************************************************************)
(* The order-book fold and the net it can be woken from: Book and          *)
(* BookChunk of trading_data_core/src/{book,chunk}.rs, as values and the   *)
(* functions on them.  A level is one (side, price); a book maps each to   *)
(* its quantity, Absent where it holds none.  Prices, precision and the    *)
(* venue-time span are left out: no guard of the fold reads them.          *)
(***************************************************************************)
EXTENDS Integers, Sequences, SequencesExt

CONSTANTS Level,    \* (side, price) pairs
          Qty       \* quantities on the wire; 0 removes a level

ASSUME BookConstants == Level # {} /\ Qty \subseteq Nat /\ 0 \in Qty

Absent == -1
None == 0                        \* no seq: ShadowBook numbers rows from 1
NoLevels == [l \in Level |-> Absent]
NoAnchor == [l \in {} |-> Absent]

Levels == [Level -> (Qty \ {0}) \cup {Absent}]
Rows == [seq : Nat, level : Level, qty : Qty, period : Nat]

-----------------------------------------------------------------------------
(* BookChunk: the net of the current period and, whole, of the one before. *)

EmptyNet == [levels |-> NoLevels, first |-> None, last |-> None, contiguous |-> TRUE]

EmptyChunk == [base |-> -1, cur |-> EmptyNet, prev |-> EmptyNet, fresh |-> <<>>]

\* Bug: the tumble throws the closing period away.
TumbleDropping(c, period) ==
    IF c.base = period THEN c
    ELSE [c EXCEPT !.base = period, !.prev = EmptyNet, !.cur = EmptyNet]

\* The tumble sets the closing period's net aside.
Tumble(c, period) ==
    IF c.base = period THEN c
    ELSE [c EXCEPT !.base = period, !.prev = c.cur, !.cur = EmptyNet]

\* One row folds into the period's net; a removal is kept, as quantity 0.
FoldRow(net, r) ==
    [levels |-> [net.levels EXCEPT ![r.level] = r.qty],
     first |-> IF net.first = None THEN r.seq ELSE net.first,
     last |-> r.seq,
     contiguous |-> net.contiguous /\ (net.first # None => r.seq = net.last + 1)]

\* BookChunk::advance: every tick, dark book or not.
Advance(c, rows) ==
    FoldLeft(LAMBDA d, r : LET t == Tumble(d, r.period)
                           IN  [t EXCEPT !.cur = FoldRow(t.cur, r)],
             [c EXCEPT !.fresh = rows], rows)

\* The first seq a two-period net speaks for, when the two join.
Joins(c) ==
    /\ c.prev.first # None /\ c.cur.first # None
    /\ c.prev.contiguous /\ c.cur.contiguous
    /\ c.prev.last + 1 = c.cur.first

-----------------------------------------------------------------------------
(* Book.                                                                   *)

EmptyBook == [levels |-> NoLevels, epoch |-> 0, synced |-> FALSE, seq |-> None]

\* Book::set: absolute in the level, quantity 0 deletes.
SetLevel(levels, l, q) == [levels EXCEPT ![l] = IF q = 0 THEN Absent ELSE q]

SetRows(levels, rows) == FoldLeft(LAMBDA b, r : SetLevel(b, r.level, r.qty), levels, rows)

\* A net's keys are distinct, so its order does not matter.
SetNet(levels, net) ==
    [l \in Level |-> IF net[l] = Absent THEN levels[l] ELSE SetLevel(levels, l, net[l])[l]]

\* Book::apply.
Apply(b, rows) ==
    IF rows = <<>> THEN b
    ELSE [b EXCEPT !.levels = SetRows(@, rows), !.seq = Last(rows).seq]

\* Bug: the older of two joined periods is folded last.
AbsorbBackwards(b, c, prev) ==
    IF c.cur.first = None THEN b
    ELSE [b EXCEPT !.levels = IF prev THEN SetNet(SetNet(@, c.cur.levels), c.prev.levels)
                              ELSE SetNet(@, c.cur.levels),
                   !.seq = c.cur.last]

\* Book::absorb: the period's net wholesale, the one before it first.
Absorb(b, c, prev) ==
    IF c.cur.first = None THEN b
    ELSE [b EXCEPT !.levels = SetNet(IF prev THEN SetNet(@, c.prev.levels) ELSE @,
                                     c.cur.levels),
                   !.seq = c.cur.last]

\* Book::resync: a checkpoint carries no seq.
Resync(b, anchor) ==
    [levels |-> anchor, epoch |-> b.epoch + 1, synced |-> TRUE, seq |-> None]

\* Book::reach, first match wins: how far the chunk reaches back towards b.
Reach(b, c) ==
    IF c.cur.first = None THEN "fresh"
    ELSE IF b.seq = None
         THEN IF c.fresh = <<>> \/ c.fresh[1].seq = c.cur.first THEN "fresh" ELSE "gone"
    ELSE IF c.fresh = <<>> \/ c.fresh[1].seq = b.seq + 1 THEN "fresh"
    ELSE IF b.seq > c.cur.last THEN "gone"
    ELSE IF c.cur.contiguous /\ b.seq + 1 >= c.cur.first THEN "net"
    ELSE IF Joins(c) /\ b.seq + 1 >= c.prev.first THEN "both"
    ELSE "gone"

\* The seed a book without a place takes from a checkpoint.
Seeded(b, anchor, c) ==
    IF anchor = NoAnchor THEN b
    ELSE IF c.cur.contiguous THEN Absorb(Resync(b, anchor), c, FALSE)
    ELSE Apply(Resync(b, anchor), c.fresh)

\* One fold step for a book whose reach is known.
StepBy(reach, b, anchor, c) ==
    CASE reach = "fresh" -> Apply(b, c.fresh)
      [] reach = "net"   -> Absorb(b, c, FALSE)
      [] reach = "both"  -> Absorb(b, c, TRUE)
      [] OTHER           -> Seeded([b EXCEPT !.synced = FALSE], anchor, c)

\* Book::step; the book is readable afterwards iff it is synced.
StepBook(b, anchor, c) ==
    StepBy(IF b.synced THEN Reach(b, c) ELSE "gone", b, anchor, c)
=============================================================================
