------------------------------ MODULE Recorder ------------------------------
(***************************************************************************)
(* The record tee: Feather, Writer and Catalog::write of                   *)
(* trading_data_persistence/src/{feather,sync/mod,catalog}.rs.  The ingest *)
(* thread appends whole messages to a feather per lane and hands a full    *)
(* batch to the writer thread, which writes one file at a time and refuses *)
(* one whose interval of venue time meets another's.  The process may be   *)
(* killed between any two steps; a later session records into what it left.*)
(* When a batch is full -- bytes, rows or age -- is left free.             *)
(***************************************************************************)
EXTENDS Integers, Sequences, SequencesExt, FiniteSets

CONSTANTS
    Lanes,          \* 1..n, in the order final_flush takes them
    Messages,       \* venue times of one message's rows, ascending from its first
    MaxTime,        \* bound: venue time
    MaxAge,         \* how old a seeding checkpoint may be
    MaxRows,        \* bound: rows of each lane
    MaxSessions     \* bound: sessions

ASSUME RecorderConstants ==
    /\ IsFiniteSet(Lanes) /\ Lanes # {} /\ Lanes = 1..Cardinality(Lanes)
    /\ Messages \subseteq Seq(Nat) /\ <<>> \notin Messages
    /\ \A m \in Messages : \A i, j \in DOMAIN m : i <= j => m[i] <= m[j]
    /\ MaxTime \in Nat /\ MaxAge \in Nat
    /\ MaxRows \in [Lanes -> Nat]
    /\ MaxSessions \in Nat

VARIABLES
    pushed,     \* history: per lane, the rows recorded and not lost to a kill
    feather,    \* per lane, the rows of the batch being built
    tx,         \* does the session still hold the writer's sender
    queue,      \* batches sent and not written
    writer,     \* the writer thread: "idle", "encoding", "dead" or "exited"
    files,      \* per lane, the files on disk
    session,    \* "recording", "joining", "over", "panicked" or "killed"
    sessions,   \* sessions begun
    latest,     \* external: per lane, the venue time of its last message, or -1
    tied        \* history: did two messages of a lane share a venue time

vars == <<pushed, feather, tx, queue, writer, files, session, sessions, latest, tied>>

Time(r) == r[1]

Lo(rows) == CHOOSE t \in {Time(rows[i]) : i \in DOMAIN rows} :
              \A i \in DOMAIN rows : t <= Time(rows[i])
Hi(rows) == CHOOSE t \in {Time(rows[i]) : i \in DOMAIN rows} :
              \A i \in DOMAIN rows : Time(rows[i]) <= t

Overlap(a, b) == a.lo <= b.hi /\ b.lo <= a.hi

\* A file as its name and its close make it.
File(rows, closed) == [lo |-> Lo(rows), hi |-> Hi(rows), rows |-> rows, closed |-> closed]

\* What a reader of lane l finds: its files by their lower bound.
Listing(l) ==
    CHOOSE s \in [1..Cardinality(files[l]) -> files[l]] :
      \A i, j \in DOMAIN s : i < j => s[i].lo < s[j].lo

\* The elements of s that are in T, in their order.
Among(s, T) == FoldLeft(LAMBDA kept, e : IF e \in T THEN Append(kept, e) ELSE kept, <<>>, s)

\* The rows of files, or of batches, one after another.
Rows(listed) == FoldLeft(LAMBDA rows, f : rows \o f.rows, <<>>, listed)

-----------------------------------------------------------------------------
NoRows == [l \in Lanes |-> <<>>]

Init ==
    /\ pushed = NoRows
    /\ feather = NoRows
    /\ tx = TRUE
    /\ queue = <<>>
    /\ writer = "idle"
    /\ files = [l \in Lanes |-> {}]
    /\ session = "recording"
    /\ sessions = 1
    /\ latest = [l \in Lanes |-> -1]
    /\ tied = FALSE

\* The rows of a message at time t on lane l.
RowsAt(l, t, message) ==
    [i \in 1..Len(message) |-> <<t + message[i], Len(pushed[l]) + i>>]

\* A send to the writer; one that outlived its thread comes down.
Send(batches) ==
    IF writer \in {"idle", "encoding"}
    THEN queue' = queue \o batches /\ UNCHANGED session
    ELSE session' = "panicked" /\ UNCHANGED queue

\* Bug: the batch is full between two rows of one message.
RecordSplitting(l, rows, full) ==
    /\ pushed' = [pushed EXCEPT ![l] = @ \o rows]
    /\ IF full
       THEN /\ feather' = [feather EXCEPT ![l] = Tail(rows)]
            /\ Send(<<[lane |-> l, rows |-> Append(feather[l], Head(rows))]>>)
       ELSE /\ feather' = [feather EXCEPT ![l] = @ \o rows]
            /\ UNCHANGED <<queue, session>>

\* A whole message, then Feather::maybe_take.
Record(l, rows, full) ==
    /\ pushed' = [pushed EXCEPT ![l] = @ \o rows]
    /\ IF full
       THEN /\ feather' = [feather EXCEPT ![l] = <<>>]
            /\ Send(<<[lane |-> l, rows |-> feather[l] \o rows]>>)
       ELSE /\ feather' = [feather EXCEPT ![l] = @ \o rows]
            /\ UNCHANGED <<queue, session>>

Ingest(l, t, message, full) ==
    /\ session = "recording"
    /\ latest[l] <= t                  \* the venue's clock stalls, and never regresses
    /\ t + Last(message) <= MaxTime /\ Len(pushed[l]) + Len(message) <= MaxRows[l]
    /\ Record(l, RowsAt(l, t, message), full)
    /\ latest' = [latest EXCEPT ![l] = t + Last(message)]
    /\ tied' = (tied \/ latest[l] = t)
    /\ UNCHANGED <<tx, writer, files, sessions>>

\* The tail of every lane.
Tails ==
    FoldLeft(LAMBDA sent, l : IF feather[l] = <<>> THEN sent
                              ELSE Append(sent, [lane |-> l, rows |-> feather[l]]),
             <<>>, [l \in Lanes |-> l])

\* Bug: the sender outlives the last send.
FinalFlushKeepingSender ==
    /\ session = "recording" /\ writer \in {"idle", "encoding"}
    /\ queue' = queue \o Tails
    /\ feather' = NoRows
    /\ session' = "joining"
    /\ UNCHANGED <<pushed, tx, writer, files, sessions, latest, tied>>

\* Live::final_flush and Writer::finish, up to the join: the end of the feed or
\* the drop of it.  Sending to a dead writer panics, and so does joining one.
FinalFlush ==
    /\ session = "recording"
    /\ feather' = NoRows
    /\ tx' = FALSE
    /\ IF writer = "dead" THEN session' = "panicked" /\ UNCHANGED queue
       ELSE session' = "joining" /\ queue' = queue \o Tails
    /\ UNCHANGED <<pushed, writer, files, sessions, latest, tied>>

\* The join answers.
Join ==
    /\ session = "joining" /\ writer \in {"exited", "dead"}
    /\ session' = IF writer = "exited" THEN "over" ELSE "panicked"
    /\ UNCHANGED <<pushed, feather, tx, queue, writer, files, sessions, latest, tied>>

-----------------------------------------------------------------------------
(* The writer thread.                                                      *)

Running == session \in {"recording", "joining"}
Batch == File(Head(queue).rows, TRUE)
Refused == \E f \in files[Head(queue).lane] : Overlap(f, Batch)

\* Catalog::write up to the file's creation: it stands under its final name.
Create ==
    /\ Running /\ writer = "idle" /\ queue # <<>>
    /\ ~ Refused
    /\ files' = [files EXCEPT ![Head(queue).lane] = @ \cup {File(Head(queue).rows, FALSE)}]
    /\ writer' = "encoding"
    /\ UNCHANGED <<pushed, feather, tx, queue, session, sessions, latest, tied>>

Close ==
    /\ Running /\ writer = "encoding"
    /\ files' = [files EXCEPT ![Head(queue).lane] =
                   (@ \ {File(Head(queue).rows, FALSE)}) \cup {Batch}]
    /\ queue' = Tail(queue)
    /\ writer' = "idle"
    /\ UNCHANGED <<pushed, feather, tx, session, sessions, latest, tied>>

\* The interval meets a file's: the thread panics, and its queue goes with it.
Refuse ==
    /\ Running /\ writer = "idle" /\ queue # <<>>
    /\ Refused
    /\ writer' = "dead"
    /\ queue' = <<>>
    /\ UNCHANGED <<pushed, feather, tx, files, session, sessions, latest, tied>>

Exit ==
    /\ Running /\ writer = "idle" /\ queue = <<>> /\ ~ tx
    /\ writer' = "exited"
    /\ UNCHANGED <<pushed, feather, tx, queue, files, session, sessions, latest, tied>>

-----------------------------------------------------------------------------
(* Readers of a catalog nobody writes to.                                  *)

\* The rows of lane l that are in files a reader can open.
OnDisk(l) == Rows(Among(Listing(l), {f \in files[l] : f.closed}))

\* A reader comes down on a file a kill left unclosed.
Opens(listed) == \A i \in DOMAIN listed : listed[i].closed

\* Bug: the files that lie in the range.
ListWithin(l, from, to) == Among(Listing(l), {f \in files[l] : from <= f.lo /\ f.hi <= to})

\* Catalog::list_range: the files that meet it.
ListRange(l, from, to) == Among(Listing(l), {f \in files[l] : f.hi >= from /\ f.lo <= to})

\* LaneReader: their rows, the ones of the range.
Between(rows, from, to) == Among(rows, (from..to) \X Nat)
ReadRange(l, from, to) == Between(Rows(ListRange(l, from, to)), from, to)

\* Bug: the last file that ends by the start.
CandidateClosedBy(l, start) == Among(Listing(l), {f \in files[l] : f.hi <= start})

\* The files that begin by the start: the last of them is searched, and no other.
Candidates(l, start) == Among(Listing(l), {f \in files[l] : f.lo <= start})

\* pick_anchor: the newest row at or before the start, the first of equals, unless
\* it is too old.
PickAnchor(l, start) ==
    LET found == Candidates(l, start)
        rows == IF found = <<>> THEN <<>> ELSE Between(Rows(<<Last(found)>>), 0, start)
        newest == Among(rows, {Hi(rows)} \X Nat)
    IN  IF rows = <<>> \/ start - Hi(rows) > MaxAge THEN <<>> ELSE <<Head(newest)>>

-----------------------------------------------------------------------------
\* The process is killed: what is not in a closed file is lost.
Kill ==
    /\ Running
    /\ session' = "killed"
    /\ pushed' = [l \in Lanes |-> OnDisk(l)]
    /\ feather' = NoRows
    /\ queue' = <<>>
    /\ UNCHANGED <<tx, writer, files, sessions, latest, tied>>

\* A new session over the same catalog.
Restart ==
    /\ session \in {"over", "killed"}
    /\ sessions < MaxSessions
    /\ session' = "recording"
    /\ sessions' = sessions + 1
    /\ tx' = TRUE
    /\ writer' = "idle"
    /\ UNCHANGED <<pushed, feather, queue, files, latest, tied>>

Write == Create \/ Close \/ Refuse \/ Exit

Next ==
    \/ \E l \in Lanes, t \in 0..MaxTime, message \in Messages, full \in BOOLEAN :
         Ingest(l, t, message, full)
    \/ FinalFlush \/ Join
    \/ Write
    \/ Kill \/ Restart

Spec == Init /\ [][Next]_vars

\* Threads run; a session owes no end and a process no restart.
FairSpec == Spec /\ WF_vars(Write) /\ WF_vars(Join)

-----------------------------------------------------------------------------
(* Properties.                                                             *)

\* The rows sent and not in a closed file.
Sent(l) == FoldLeft(LAMBDA rows, b : IF b.lane = l THEN rows \o b.rows ELSE rows, <<>>, queue)

\* "A drained feed is a catalog someone is about to read": once a session is
\* over everything it recorded is in closed files, and whatever range a reader
\* asks for -- off the files an earlier kill left unclosed -- it is given the rows
\* of that range, in the order they were received.
FinishedIsReadable ==
    session = "over" =>
      \A l \in Lanes :
        /\ Sent(l) = <<>> /\ feather[l] = <<>>
        /\ \A from, to \in 0..MaxTime :
             Opens(ListRange(l, from, to)) =>
               ReadRange(l, from, to) = Between(pushed[l], from, to)

\* A replay is seeded whenever a row of the checkpoint lane is young enough, and
\* with one no other at or before the start is newer than, although one file only
\* is searched: the writer's refusals keep the others out of its interval.
AnchorIsTheNewest ==
    session = "over" =>
      \A l \in Lanes, start \in 0..MaxTime :
        LET young == Between(pushed[l], start - MaxAge, start)
            found == Candidates(l, start)
            picked == PickAnchor(l, start)
        IN  (found # <<>> => Last(found).closed) =>
              /\ picked = <<>> <=> young = <<>>
              /\ picked # <<>> => /\ Head(picked) \in {young[i] : i \in DOMAIN young}
                                 /\ Time(Head(picked)) = Hi(young)

\* A batch holds whole messages, so its interval meets another's only where two
\* messages share a venue time -- nothing else stops the recording.
DiesOfTiesOnly == writer = "dead" => tied

\* The end of a session does not wait forever for its writer.
Finishes == session = "joining" ~> session # "joining"
=============================================================================
