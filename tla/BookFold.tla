------------------------------ MODULE BookFold ------------------------------
(***************************************************************************)
(* A gated book, as trading_data/tests/book_gating.rs wraps Book::step: the*)
(* engine folds every run into the retained chunk whether or not the book's*)
(* gate is open, and the gate may open on any step, one that carries rows  *)
(* or not.  So a book may be read behind the tape, and one seeded before   *)
(* the first row has no place to miss rows from.                           *)
(***************************************************************************)
EXTENDS GatedBook

VARIABLE passed     \* history: rows gone by unread when a run gave the book its place

bookVars == <<vars, passed>>

BookInit == Init /\ passed = 0

\* What every step does: the chunk folds the run, an open book is stepped.
Sweep(rows, anchor, opens) ==
    /\ chunk' = Advance(chunk, rows)
    /\ open' = opens
    /\ book' = IF opens THEN StepBook(book, anchor, chunk') ELSE book
    /\ shown' = (opens /\ book'.synced)
    /\ passed' = IF book'.epoch # book.epoch THEN 0
                 ELSE IF book.seq = None /\ book'.seq # None THEN rows[1].seq - 1
                 ELSE passed

\* A run of rows.
RowsStep(rows, opens) ==
    /\ Record(rows)
    /\ Sweep(rows, NoAnchor, opens)

\* A checkpoint: the recorder's book as it stands.
AnchorStep(opens) ==
    /\ Sweep(<<>>, Truth, opens)
    /\ UNCHANGED <<tape, history>>

\* A step of a lane the book does not read.
OtherStep(opens) ==
    /\ Sweep(<<>>, NoAnchor, opens)
    /\ UNCHANGED <<tape, history>>

BookNext ==
    \E opens \in BOOLEAN :
      \/ \E n \in 1..MaxRun : \E run \in RunsOf(n) :
           /\ Len(tape) + n <= MaxSeq
           /\ \A i \in 1..n : run[i].period >= IF i = 1 THEN Period ELSE run[i - 1].period
           /\ RowsStep(NextRows(run), opens)
      \/ AnchorStep(opens)
      \/ OtherStep(opens)

BookSpec == BookInit /\ [][BookNext]_bookVars

-----------------------------------------------------------------------------
(* Properties.                                                             *)

\* A book that publishes itself is the recorder's book as of the row it stands
\* on, whatever it slept through and however it was resumed, and a step that
\* carries rows leaves it on the last.  One hole is Book::reach's of a book without
\* a place: seeded before the first row and asleep until a run opened a period, it
\* holds wrong what the rows gone by wrote and no row since.
ReadableAsOf ==
    shown =>
      /\ chunk.fresh # <<>> => book.seq = Len(tape)
      /\ passed # 0 => tape[passed].period # tape[passed + 1].period
      /\ \A l \in Level :
           book.levels[l] # history[book.seq + 1][l] =>
             Wrote(tape, l, 0, passed) /\ ~ Wrote(tape, l, passed, book.seq)

\* A placed book that wakes on rows it can be carried over -- the rest of one
\* period, or of two -- is readable and is the same epoch; one that slept past
\* two boundaries declines rather than fold onto stale state.
WakesAsFarAsTheNetReaches ==
    [][ book.synced /\ book.seq # None /\ book.seq < Len(tape) /\ open' /\ tape' # tape
          => /\ shown' <=> Cardinality(Missed(tape', book.seq)) <= 2
             /\ book'.epoch = book.epoch ]_bookVars
=============================================================================
