------------------------------ MODULE Acquire -------------------------------
(***************************************************************************)
(* How examples/spl fills its catalog (ensure_lanes of src/lib.rs): trades *)
(* a day at a time, the book folded out of an archive by a pump thread     *)
(* into a recording Live on the main one, then open interest and market    *)
(* cap, each skipped where a probe finds a row.  A flush creates its file  *)
(* under its final name, then writes and closes it.  The process may be    *)
(* killed anywhere and run again.                                          *)
(*                                                                         *)
(* A message of the archive is [ts, snapshot, writes], writes a function   *)
(* of <<side, price>>, a quantity of 0 removing its level.  The tee is     *)
(* Recorder's, taken here a batch at a time.                               *)
(***************************************************************************)
EXTENDS Integers, Sequences, FiniteSets, SequencesExt, Functions

CONSTANTS
    Level,          \* <<side, price>> a book may hold
    Qty,            \* and in what quantities; 0 is none
    Archives,       \* what the venue published for the window
    Tapes,          \* and of its trades: the times of each day's archive
    DayLength,      \* what day_bounds adds
    Depth,          \* levels a side the strategy reads
    Lead,           \* PUMP_LEAD_NS
    Days,           \* trading days of the window
    MaxRuns         \* bound: runs of the program

View == UNION {[S -> Qty] : S \in SUBSET Level}
Message == [ts : Nat, snapshot : BOOLEAN, writes : View]

\* An archive is in the order of its venue's clock, which tells its messages apart.
Ascends(rows) == \A j, k \in DOMAIN rows : j < k => rows[j].ts < rows[k].ts

ASSUME AcquireConstants ==
    /\ Qty \subseteq Nat /\ 0 \in Qty
    /\ Archives \subseteq Seq(Message) /\ \A a \in Archives : Ascends(a)
    /\ Tapes \subseteq [1..Days -> SUBSET Nat] /\ DayLength \in Nat
    /\ Depth \in Nat \ {0} /\ Lead \in Nat /\ Days \in Nat /\ MaxRuns \in Nat

VARIABLES
    archive,    \* the messages of the window
    main,       \* the main thread: "trades", "book", "draining", "joining",
                \* "oi", "mc", "done", "panicked" or "killed"
    runs,       \* runs begun
    tape,       \* the trades of each day's archive
    day,        \* the day of trades the run is at
    kept,       \* on disk: the files of trades in the order they were made,
                \* the file of oi, and of mc; each "open" or "closed"
    writing,    \* is a file of them being written by this run
    sentinel,   \* the file that says the book lane is whole
    files,      \* the book lane's files: each its rows
    pump,       \* the pump thread: [at, book, emitted, diff, done]
    clock,      \* ArchiveClock
    channel,    \* emissions sent and not ingested
    live        \* [stamp, rows not handed over, rows not in a file]

lanes == <<tape, day, kept, writing>>
vars == <<archive, main, runs, lanes, sentinel, files, pump, clock, channel, live>>

-----------------------------------------------------------------------------
(* The fold, and its top.                                                  *)

NoLevels == [l \in {} |-> 0]

\* apply: a quantity replaces its level, nothing removes it.
Apply(levels, writes) ==
    LET said(l) == IF l \in DOMAIN writes THEN writes[l] ELSE levels[l]
    IN  [l \in {k \in DOMAIN levels \cup DOMAIN writes : said(k) # 0} |-> said(l)]

\* Is price p of a side ahead of q.
Ahead(side, p, q) == IF side = "bids" THEN p > q ELSE p < q

\* The best Depth levels of each side.
Top(levels) ==
    Restrict(levels, {l \in DOMAIN levels :
        Cardinality({k \in DOMAIN levels : k[1] = l[1] /\ Ahead(l[1], k[2], l[2])}) < Depth})

\* emit's diff: what moved, and what is gone as a zero.
Diff(old, new) ==
    [l \in {k \in DOMAIN new : k \notin DOMAIN old \/ old[k] # new[k]}
           \cup (DOMAIN old \ DOMAIN new) |->
        IF l \in DOMAIN new THEN new[l] ELSE 0]

-----------------------------------------------------------------------------
(* The pump thread.                                                        *)

NewPump == [at |-> 0, book |-> NoLevels, emitted |-> NoLevels, diff |-> NoLevels, done |-> FALSE]
NewClock == [pump |-> 0, consumed |-> 0]
NewLive == [stamp |-> 0, buffer |-> <<>>, tee |-> <<>>, disconnected |-> FALSE]

Feeding == main \in {"draining", "joining"}
Leashed == pump.diff # NoLevels
Now == archive[pump.at].ts

\* One message folded; one that moves the view has something to say.
PumpFold ==
    /\ Feeding /\ ~pump.done /\ ~Leashed /\ pump.at < Len(archive)
    /\ LET m == archive[pump.at + 1]
           book == Apply(IF m.snapshot THEN NoLevels ELSE pump.book, m.writes)
           diff == Diff(pump.emitted, Top(book))
       IN  pump' = [pump EXCEPT !.at = @ + 1, !.book = book, !.diff = diff,
                                !.emitted = IF diff = NoLevels THEN @ ELSE Top(book)]
    /\ UNCHANGED <<archive, main, runs, lanes, sentinel, files, clock, channel, live>>

\* Bug: the leash is held to the message about to be pushed.
WithinItself == Now - clock.consumed <= Lead

\* The leash: what was last pushed, against what was last consumed.
WithinLead == clock.pump - clock.consumed <= Lead

\* Past the leash: the clock, then the event.
PumpPush ==
    /\ Feeding /\ Leashed /\ WithinLead
    /\ clock' = [clock EXCEPT !.pump = Now]
    /\ channel' = Append(channel, [ts |-> Now, diff |-> pump.diff])
    /\ pump' = [pump EXCEPT !.diff = NoLevels]
    /\ UNCHANGED <<archive, main, runs, lanes, sentinel, files, live>>

\* The archive is over: the thread ends, and its sink with it.
PumpEnd ==
    /\ Feeding /\ ~pump.done /\ ~Leashed /\ pump.at = Len(archive)
    /\ pump' = [pump EXCEPT !.done = TRUE]
    /\ UNCHANGED <<archive, main, runs, lanes, sentinel, files, clock, channel, live>>

-----------------------------------------------------------------------------
(* Live, on the main thread, and its tee.                                  *)

\* Ingest: stamped off the pump's clock, strictly later than the last.
Ingest ==
    /\ main = "draining" /\ channel # <<>>
    /\ LET stamp == Max({clock.pump, live.stamp + 1})
           row == [ts |-> Head(channel).ts, diff |-> Head(channel).diff, stamp |-> stamp]
       IN  live' = [live EXCEPT !.stamp = stamp, !.buffer = Append(@, row), !.tee = Append(@, row)]
    /\ channel' = Tail(channel)
    /\ UNCHANGED <<archive, main, runs, lanes, sentinel, files, pump, clock>>

Span(rows) == Head(rows).ts..Last(rows).ts

\* A batch of the lane refused: its interval of venue time meets a file's.
Refused == \E k \in DOMAIN files : Span(files[k]) \cap Span(live.tee) # {}

\* What the tee holds goes to disk, or the writer comes down and the program
\* with it.
Rotated(next) ==
    IF live.tee = <<>> THEN main' = next /\ UNCHANGED files
    ELSE IF Refused THEN main' = "panicked" /\ UNCHANGED files
    ELSE main' = next /\ files' = Append(files, live.tee)

\* A batch is full.
Rotate ==
    /\ main = "draining" /\ live.tee # <<>>
    /\ Rotated(main)
    /\ live' = [live EXCEPT !.tee = <<>>]
    /\ UNCHANGED <<archive, runs, lanes, sentinel, pump, clock, channel>>

\* Live::next hands over a run of what is buffered, and the loop reports it.
Consume ==
    /\ main = "draining" /\ live.buffer # <<>>
    /\ \E n \in 1..Len(live.buffer) :
        /\ live' = [live EXCEPT !.buffer = SubSeq(@, n + 1, Len(@))]
        /\ clock' = [clock EXCEPT !.consumed = live.buffer[n].ts]
    /\ UNCHANGED <<archive, main, runs, lanes, sentinel, files, pump, channel>>

\* Drained and disconnected: the final flush.
Drained ==
    /\ main = "draining" /\ pump.done /\ channel = <<>> /\ live.buffer = <<>>
    /\ Rotated("joining")
    /\ live' = [live EXCEPT !.tee = <<>>]
    /\ UNCHANGED <<archive, runs, lanes, sentinel, pump, clock, channel>>

\* Bug: the sentinel is written when the pump is through.
JoinFirst ==
    /\ main = "draining" /\ pump.done
    /\ sentinel' = TRUE /\ main' = "oi"
    /\ UNCHANGED <<archive, runs, lanes, files, pump, clock, channel, live>>

\* The pump has ended; the lane is whole, and says so.
Join ==
    /\ main = "joining" /\ pump.done
    /\ sentinel' = TRUE /\ main' = "oi"
    /\ UNCHANGED <<archive, runs, lanes, files, pump, clock, channel, live>>

-----------------------------------------------------------------------------
(* The trades, a day at a time.                                            *)

\* day_bounds.
Midnight(d) == d * DayLength

\* What a day is probed over, the next midnight included.
Probe(d) == Midnight(d)..Midnight(d + 1)

Rows(file) == tape[file.day]

Unclosed == {k \in DOMAIN kept.trades : kept.trades[k].state = "open"}
Closed == {k \in DOMAIN kept.trades : kept.trades[k].state = "closed"}

\* list_range: the files whose interval, their name, meets the probe's.
Listed(d) ==
    {k \in DOMAIN kept.trades :
        /\ \E t \in Rows(kept.trades[k]) : t >= Midnight(d)
        /\ \E t \in Rows(kept.trades[k]) : t <= Midnight(d + 1)}

\* The interval of one file is before another's.
Precedes(f, g) == \A t \in Rows(f), u \in Rows(g) : t < u

\* Bug: a file listed is taken for its rows.
CachedByListing(d) == Listed(d) # {}

\* The probe finds a row before it comes to a file it cannot open.
Cached(d) ==
    \E k \in Closed :
        /\ Rows(kept.trades[k]) \cap Probe(d) # {}
        /\ \A j \in Listed(d) \cap Unclosed : Precedes(kept.trades[k], kept.trades[j])

\* Catalog::write: the interval of the day's rows meets a file's.
Taken(d) ==
    \E k \in DOMAIN kept.trades :
        LET there == Rows(kept.trades[k])
        IN  /\ \E t \in there, u \in tape[d] : t <= u
            /\ \E t \in there, u \in tape[d] : u <= t

\* The probe comes to a file that cannot be read, the day has no trade, or the
\* catalog refuses it.
Fails(d) == Listed(d) \cap Unclosed # {} \/ tape[d] = {} \/ Taken(d)

Trading == main = "trades" /\ ~writing /\ day <= Days

SkipDay ==
    /\ Trading /\ Cached(day)
    /\ day' = day + 1 /\ UNCHANGED <<main, kept, writing>>

FailDay ==
    /\ Trading /\ ~Cached(day) /\ Fails(day)
    /\ main' = "panicked" /\ UNCHANGED <<day, kept, writing>>

\* The file stands under its name, and nothing can read it yet.
CreateDay ==
    /\ Trading /\ ~Cached(day) /\ ~Fails(day)
    /\ kept' = [kept EXCEPT !.trades = Append(@, [day |-> day, state |-> "open"])]
    /\ writing' = TRUE /\ UNCHANGED <<main, day>>

CloseDay ==
    /\ main = "trades" /\ writing
    /\ kept' = [kept EXCEPT !.trades[Len(kept.trades)].state = "closed"]
    /\ writing' = FALSE /\ day' = day + 1 /\ UNCHANGED main

TradesDone ==
    /\ main = "trades" /\ ~writing /\ day > Days
    /\ main' = "book" /\ UNCHANGED <<day, kept, writing>>

EnsureTrades ==
    /\ SkipDay \/ FailDay \/ CreateDay \/ CloseDay \/ TradesDone
    /\ UNCHANGED <<archive, runs, tape, sentinel, files, pump, clock, channel, live>>

-----------------------------------------------------------------------------
(* The other lanes, and the process.                                       *)

\* The book lane: skipped behind its sentinel, or recorded in one session.
EnsureBook ==
    /\ main = "book"
    /\ main' = IF sentinel THEN "oi" ELSE "draining"
    /\ pump' = NewPump /\ clock' = NewClock /\ channel' = <<>> /\ live' = NewLive
    /\ UNCHANGED <<archive, runs, lanes, sentinel, files>>

\* Readings of the whole window in one file: read where there is one, which an
\* unclosed one does not survive, or created, and closed.
Readings(lane, next) ==
    /\ main = lane
    /\ \/ ~writing /\ kept[lane] = "closed" /\ main' = next /\ UNCHANGED <<kept, writing>>
       \/ ~writing /\ kept[lane] = "open" /\ main' = "panicked" /\ UNCHANGED <<kept, writing>>
       \/ /\ ~writing /\ kept[lane] = "none"
          /\ kept' = [kept EXCEPT ![lane] = "open"] /\ writing' = TRUE /\ UNCHANGED main
       \/ /\ writing
          /\ kept' = [kept EXCEPT ![lane] = "closed"] /\ writing' = FALSE /\ main' = next
    /\ UNCHANGED <<archive, runs, tape, day, sentinel, files, pump, clock, channel, live>>

EnsureOi == Readings("oi", "mc")
EnsureMc == Readings("mc", "done")

\* Killed, or a request to the venue failed: what is not in a file is gone.
Kill ==
    /\ main \notin {"done", "panicked", "killed"}
    /\ main' = "killed" /\ writing' = FALSE
    /\ UNCHANGED <<archive, runs, tape, day, kept, sentinel, files, pump, clock, channel, live>>

\* Run again, over the catalog as it was left.
Start ==
    /\ main \in {"done", "panicked", "killed"} /\ runs < MaxRuns
    /\ main' = "trades" /\ day' = 1 /\ runs' = runs + 1
    /\ UNCHANGED <<archive, tape, kept, writing, sentinel, files, pump, clock, channel, live>>

Init ==
    /\ archive \in Archives /\ tape \in Tapes
    /\ main = "trades" /\ day = 1 /\ runs = 1
    /\ kept = [trades |-> <<>>, oi |-> "none", mc |-> "none"] /\ writing = FALSE
    /\ sentinel = FALSE /\ files = <<>>
    /\ pump = NewPump /\ clock = NewClock /\ channel = <<>> /\ live = NewLive

Pump == PumpFold \/ PumpPush \/ PumpEnd
Feed == Ingest \/ Consume \/ Drained \/ Join
Ensure == EnsureTrades \/ EnsureBook \/ EnsureOi \/ EnsureMc

Next == Pump \/ Feed \/ Rotate \/ Ensure \/ Kill \/ Start

Spec == Init /\ [][Next]_vars

\* Both threads run; a batch is full when it is, and nobody owes a kill or a run.
FairSpec == Spec /\ WF_vars(Pump) /\ WF_vars(Feed) /\ WF_vars(Ensure)

-----------------------------------------------------------------------------
(* Properties.                                                             *)

\* The book after n messages, level by level: the last thing said of it since the
\* last snapshot.
BookAfter(n) ==
    LET from == Max({0} \cup {k \in 1..n : archive[k].snapshot})
        since == {k \in 1..n : k >= from}
        said == UNION {DOMAIN archive[k].writes : k \in since}
        final(l) == archive[Max({k \in since : l \in DOMAIN archive[k].writes})].writes[l]
    IN  [l \in {k \in said : final(k) # 0} |-> final(l)]

Folded(diffs) == FoldLeft(LAMBDA levels, d : Apply(levels, d), NoLevels, diffs)

DiffsOf(rows) == [k \in DOMAIN rows |-> rows[k].diff]

Recorded == FoldLeft(LAMBDA rows, f : rows \o f, <<>>, files)

\* A sentinel is the whole lane: every change of the view, once, in order, under
\* arrivals that order them.
SentinelMeansWhole ==
    sentinel =>
        /\ Folded(DiffsOf(Recorded)) = Top(BookAfter(Len(archive)))
        /\ \A j, k \in DOMAIN Recorded : j < k =>
               Recorded[j].ts < Recorded[k].ts /\ Recorded[j].stamp < Recorded[k].stamp
        /\ \A k \in DOMAIN archive :
               Top(BookAfter(k)) # Top(BookAfter(k - 1)) =>
                   \E j \in DOMAIN Recorded : Recorded[j].ts = archive[k].ts

\* A day is in the lane: a file of its own, or skipped, for an earlier day's
\* archive had a row where it is probed.
InLane(d) ==
    \E k \in DOMAIN kept.trades :
        \/ kept.trades[k].day = d
        \/ /\ kept.trades[k].day < d /\ kept.trades[k].state = "closed"
           /\ Rows(kept.trades[k]) \cap Probe(d) # {}

\* Killed or not, a file half written or not, however often it runs, the program
\* never records anything twice, and finishes only over a catalog whose files can
\* all be read and where every day stands, but one an earlier day spilled into.
NothingTwice ==
    /\ \A j, k \in DOMAIN kept.trades :
           j # k => Rows(kept.trades[j]) \cap Rows(kept.trades[k]) = {}
    /\ \A i, j \in DOMAIN files : \A a \in DOMAIN files[i], b \in DOMAIN files[j] :
           <<i, a>> # <<j, b>> => files[i][a].ts # files[j][b].ts
    /\ main = "done" =>
           /\ Unclosed = {} /\ \A d \in 1..Days : InLane(d)
           /\ sentinel /\ kept.oi = "closed" /\ kept.mc = "closed"

\* The pump and the consumer never wait on each other.
FoldsToTheEnd == main = "draining" ~> main # "draining"
=============================================================================
