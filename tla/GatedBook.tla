----------------------------- MODULE GatedBook -----------------------------
(***************************************************************************)
(* The recording a gated book is stepped over, and what is kept of it: each*)
(* step of a weaver carries rows of one lane only -- a run of deltas, a    *)
(* checkpoint, or something a book does not read.  The recorder's own book *)
(* is carried beside the tape, as the truth a fold must land on.           *)
(***************************************************************************)
EXTENDS Book, FiniteSets

CONSTANTS
    Seeds,          \* books a recording may open on
    Writes,         \* <<level, qty>> a row may carry
    MaxSeq,         \* bound: rows recorded
    MaxPeriod,      \* bound: periods of BookChunk's grid
    MaxRun          \* bound: rows of one run

ASSUME GatedBookConstants ==
    /\ Seeds \subseteq Levels /\ Seeds # {}
    /\ Writes \subseteq Level \X Qty
    /\ MaxSeq \in Nat /\ MaxPeriod \in Nat /\ MaxRun \in Nat \ {0}

VARIABLES
    tape,       \* the recorder's rows so far
    history,    \* history[s + 1]: the recorder's book after row s
    chunk,      \* the retained BookChunk
    book,       \* the gated Book
    open,       \* was the gate open in the last step
    shown       \* and did the book publish itself

vars == <<tape, history, chunk, book, open, shown>>

Truth == Last(history)
Period == IF tape = <<>> THEN chunk.base ELSE Last(tape).period

Init ==
    /\ tape = <<>>
    /\ history \in {<<s>> : s \in Seeds}
    /\ chunk = EmptyChunk
    /\ book = EmptyBook
    /\ open = FALSE
    /\ shown = FALSE

\* A run of rows: consecutive seqs.  The chunk only asks whether a row's period
\* is the last row's, so ascending labels stand for a venue clock that regresses
\* too.
NextRows(run) ==
    [i \in 1..Len(run) |->
       [seq |-> Len(tape) + i, level |-> run[i].write[1], qty |-> run[i].write[2],
        period |-> run[i].period]]

RunsOf(n) == [1..n -> [write : Writes, period : 0..MaxPeriod]]

\* Each row of a run is written to the recorder's book as it is recorded.
Record(rows) ==
    /\ tape' = tape \o rows
    /\ history' = history \o
         [i \in 1..Len(rows) |-> SetRows(Truth, SubSeq(rows, 1, i))]

-----------------------------------------------------------------------------
\* Some row after the a-th, up to the b-th, writes l.
Wrote(rows, l, a, b) == \E i \in (a + 1)..b : rows[i].level = l

\* The periods of the rows after row s.
Missed(rows, s) == {rows[i].period : i \in (s + 1)..Len(rows)}
=============================================================================
