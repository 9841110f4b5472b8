----------------------------- MODULE BookReplay -----------------------------
(***************************************************************************)
(* An anchored book in a replay: Rewound<Book> for Past (sync/mod.rs) over *)
(* Book::rewind, at the sweep's own position (trading_data_macros          *)
(* resolve.rs): on a step the book advances on, its buffer steps first,    *)
(* then the past brings the book to the last row delivered before the step *)
(* -- from its own cursor or from the newest checkpoint, whichever costs   *)
(* less -- then the book folds the step.  A buffer read by anchored nodes  *)
(* only sleeps with them.                                                  *)
(*                                                                         *)
(* The replayed range starts with the recording or inside it.  Inside it   *)
(* the weave opens on the checkpoint pick_anchor carried in (read.rs), at  *)
(* Arrival::MIN, and the rows between that checkpoint and the start are    *)
(* read by nobody.                                                         *)
(***************************************************************************)
EXTENDS GatedBook, FiniteSetsExt

CONSTANT Carried    \* pre-start checkpoints a range may open on

ASSUME BookReplayConstants == Carried \subseteq Levels

VARIABLES
    carried,    \* the one this range opens on, NoAnchor where none was picked
    anchor,     \* the newest checkpoint delivered: its book, and how many rows
                \* were received strictly before it
    sleeps      \* is every reader of the buffer anchored

replayVars == <<vars, carried, anchor, sleeps>>

Unanchored == [levels |-> NoAnchor, from |-> 0]
Delivered == anchor # Unanchored

\* Book::seq.
Place(b) == IF b.synced THEN b.seq ELSE None

Depth(levels) == Cardinality({l \in Level : levels[l] # Absent})

\* Bug: the checkpoint's own rows are skipped, and one more.
ResumeLate(b, a, rows) ==
    IF a = NoAnchor THEN Apply(b, rows)
    ELSE Apply([Resync(b, a) EXCEPT !.epoch = IF b.synced THEN b.epoch ELSE @],
               SubSeq(rows, 2, Len(rows)))

\* Book::rewind: a resync that keeps the epoch of a synced book.
Resume(b, a, rows) ==
    Apply(IF a = NoAnchor THEN b
          ELSE [Resync(b, a) EXCEPT !.epoch = IF b.synced THEN b.epoch ELSE @],
          rows)

\* Bug: a rewind that seeks its own cursor and nothing else.
RewindFromCursor(b) ==
    IF tape = <<>> \/ Place(b) = None THEN b
    ELSE Resume(b, NoAnchor, SubSeq(tape, Place(b) + 1, Len(tape)))

\* Past::rewind over the rows and the checkpoint delivered so far.
Rewind(b) ==
    LET n == Len(tape)
        From(a, k) == Resume(b, a, SubSeq(tape, k + 1, n))
        k == Min({anchor.from, n - 1})
        cheaper == Place(b) = None \/ Depth(anchor.levels) + n - k < n - Place(b)
    IN  IF n = 0 \/ Place(b) = n THEN b
        ELSE IF Delivered /\ cheaper THEN From(anchor.levels, k)
        ELSE IF Place(b) # None THEN From(NoAnchor, Place(b))
        ELSE b

\* Bug: the sweep rewinds a book only once it has slept through rows of two
\* periods, trusting the retained nets before that.
RewindWhenFar(b) ==
    IF Place(b) # None /\ Cardinality(Missed(tape, b.seq)) <= 1 THEN b ELSE Rewind(b)

\* The book as the step finds it.
Stood(b) == Rewind(b)

ReplaySweep(rows, a, opens) ==
    /\ chunk' = IF opens \/ ~ sleeps THEN Advance(chunk, rows) ELSE chunk
    /\ open' = opens
    /\ book' = IF opens THEN StepBook(Stood(book), a, chunk') ELSE book
    /\ shown' = (opens /\ book'.synced)

\* The checkpoint carried in: state, not an arrival, so it sorts before everything.
ReplayCarried(opens) ==
    /\ carried # NoAnchor /\ ~ Delivered
    /\ ReplaySweep(<<>>, carried, opens)
    /\ anchor' = [levels |-> carried, from |-> 0]
    /\ UNCHANGED <<tape, history, carried, sleeps>>

\* A run of rows.  The first message of a period makes a checkpoint due, and one
\* of the period before a start is young enough to be picked, so a range none was
\* picked for delivers one behind its first message.
ReplayRows(rows, opens) ==
    /\ Delivered \/ (carried = NoAnchor /\ tape = <<>>)
    /\ Record(rows)
    /\ ReplaySweep(rows, NoAnchor, opens)
    /\ UNCHANGED <<carried, anchor, sleeps>>

\* A checkpoint, made due by a message of the last m rows: they share its
\* reception, so a seek to it folds them again.
ReplayAnchor(m, opens) ==
    /\ Delivered \/ carried = NoAnchor
    /\ ReplaySweep(<<>>, Truth, opens)
    /\ anchor' = [levels |-> Truth, from |-> Len(tape) - m]
    /\ UNCHANGED <<tape, history, carried, sleeps>>

ReplayOther(opens) ==
    /\ ReplaySweep(<<>>, NoAnchor, opens)
    /\ UNCHANGED <<tape, history, carried, anchor, sleeps>>

ReplayInit ==
    Init /\ anchor = Unanchored /\ sleeps \in BOOLEAN /\ carried \in Carried \cup {NoAnchor}

ReplayNext ==
    \E opens \in BOOLEAN :
      \/ \E n \in 1..MaxRun : \E run \in RunsOf(n) :
           /\ Len(tape) + n <= MaxSeq
           /\ \A i \in 1..n : run[i].period >= IF i = 1 THEN Period ELSE run[i - 1].period
           /\ ReplayRows(NextRows(run), opens)
      \/ ReplayCarried(opens)
      \/ \E m \in 0..Min({MaxRun, Len(tape)}) : ReplayAnchor(m, opens)
      \/ ReplayOther(opens)

ReplaySpec == ReplayInit /\ [][ReplayNext]_replayVars

-----------------------------------------------------------------------------
(* Properties.                                                             *)

\* The levels written between the checkpoint carried in and the start, and by no
\* row since.
Unread ==
    {l \in Level : /\ carried # NoAnchor /\ carried[l] # history[1][l]
                   /\ \A i \in DOMAIN tape : tape[i].level # l}

AgreesBut(levels, stale) == \A l \in Level : levels[l] # Truth[l] => l \in stale

\* A book that publishes itself is the recorder's but for the levels nobody read:
\* sleeping, resuming and resyncing make no level wrong that was right, and what a
\* row rewrites is right from then on.  Over a range that starts with the
\* recording it is the recorder's book.
WrongOnlyWhereUnread == shown => AgreesBut(book.levels, Unread)

\* The tripwire of Past::rewind: where there is anything to resume from, it
\* leaves the book on the last row delivered, whichever resume was the cheaper.
StandsOnTheLastRow ==
    tape # <<>> /\ (Delivered \/ Place(book) # None) =>
      /\ Rewind(book).seq = Len(tape)
      /\ AgreesBut(Rewind(book).levels, Unread)

\* A demanded book answers on the tick it is demanded, however long it slept:
\* once a checkpoint and a row were delivered, asleep or not.
AnswersOnTheTick == [][ open' /\ Delivered /\ tape # <<>> => shown' ]_replayVars

\* "Our own chain is gapless, so while we are synced the checkpoint is the state we
\* already hold": what a book reads while a checkpoint is delivered is that
\* checkpoint.
CheckpointIsWhatWeHold ==
    [][ anchor' # anchor /\ shown' => book'.levels = anchor'.levels ]_replayVars
=============================================================================
