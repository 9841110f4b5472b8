---------------------------- MODULE AcquireProofs ----------------------------
(***************************************************************************)
(* That filling the catalog records nothing twice, finishes only over a    *)
(* catalog it can read and where every day stands but those an earlier one *)
(* spilled into, and writes its sentinel only over a whole lane: for any   *)
(* archive in the order of its clock, any trades, any leash, any number of *)
(* days and of runs, killed anywhere, a file half written included.        *)
(***************************************************************************)
EXTENDS Acquire, SequenceTheorems, TLAPS

Laying == INSTANCE FoldTheorems WITH Op <- LAMBDA env, rows, f : rows \o f
Viewing == INSTANCE FoldTheorems WITH Op <- LAMBDA env, levels, d : Apply(levels, d)

Emission == [ts : Nat, diff : View]
Row == [ts : Nat, diff : View, stamp : Int]

Mains == {"trades", "book", "draining", "joining", "oi", "mc", "done", "panicked", "killed"}

File == [day : 1..Days, state : {"open", "closed"}]
Lanes == [trades : Seq(File), oi : {"none", "open", "closed"}, mc : {"none", "open", "closed"}]
Pumps == [at : Nat, book : View, emitted : View, diff : View, done : BOOLEAN]
Lives == [stamp : Int, buffer : Seq(Row), tee : Seq(Row), disconnected : BOOLEAN]

\* The intervals of two files meet.
Meets(f, g) ==
    /\ \E t \in Rows(f), u \in Rows(g) : t <= u
    /\ \E t \in Rows(f), u \in Rows(g) : u <= t

TypeOK ==
    /\ archive \in Archives
    /\ main \in Mains
    /\ tape \in Tapes /\ day \in Nat /\ writing \in BOOLEAN
    /\ kept \in Lanes
    /\ sentinel \in BOOLEAN
    /\ files \in Seq(Seq(Row))
    /\ pump \in Pumps
    /\ clock \in [pump : Nat, consumed : Nat]
    /\ channel \in Seq(Emission)
    /\ live \in Lives

\* The files of trades lie apart, and before the day of each every day stands.
DaysApart ==
    /\ \A k \in DOMAIN kept.trades :
          /\ tape[kept.trades[k].day] # {}
          /\ \A d \in 1..(kept.trades[k].day - 1) : InLane(d)
    /\ \A j, k \in DOMAIN kept.trades : j # k => ~Meets(kept.trades[j], kept.trades[k])

\* A file cut short: no run finds its day, none passes it, none writes another.
CutShort ==
    \A k \in Unclosed :
        /\ ~Cached(kept.trades[k].day)
        /\ main = "trades" => day <= kept.trades[k].day
        /\ main = "trades" /\ writing => k = Len(kept.trades)

\* Where the loop over the days stands.
AtTheDay ==
    /\ main = "trades" => day \in 1..(Days + 1) /\ \A d \in 1..(day - 1) : InLane(d)
    /\ writing => main \in {"trades", "oi", "mc"}
    /\ main = "trades" /\ writing =>
           Len(kept.trades) \in Unclosed /\ kept.trades[Len(kept.trades)].day = day

LanesStand == DaysApart /\ CutShort /\ AtTheDay

\* What a place in the program says of the artifacts behind it.
Passed ==
    /\ main \in {"book", "draining", "joining", "oi", "mc", "done"} =>
           Unclosed = {} /\ \A d \in 1..Days : InLane(d)
    /\ main \in {"oi", "mc", "done"} => sentinel
    /\ main \in {"mc", "done"} => kept.oi = "closed"
    /\ main = "done" => kept.mc = "closed"

\* A time behind everything the pump has yet to say.
Behind(ts, said, messages) ==
    \A k \in DOMAIN messages :
        k > said.at \/ (k = said.at /\ said.diff # NoLevels) => ts < messages[k].ts

\* In flight, in the order of the archive: what waits for a file, then what waits
\* to be ingested, then what the pump has yet to say.
InFlight ==
    /\ pump.at <= Len(archive)
    /\ Leashed => pump.at \in DOMAIN archive
    /\ Ascends(live.tee) /\ Ascends(channel)
    /\ \A a \in DOMAIN live.tee, b \in DOMAIN channel : live.tee[a].ts < channel[b].ts
    /\ \A a \in DOMAIN live.tee : Behind(live.tee[a].ts, pump, archive)
    /\ \A b \in DOMAIN channel : Behind(channel[b].ts, pump, archive)

\* Every file in order, and no two over one time.
FilesApart ==
    /\ \A i \in DOMAIN files : files[i] # <<>> /\ Ascends(files[i])
    /\ \A i, j \in DOMAIN files : i # j => Span(files[i]) \cap Span(files[j]) = {}

AcquireInv == TypeOK /\ LanesStand /\ Passed /\ InFlight /\ FilesApart

-----------------------------------------------------------------------------
(* What the fold computes is a view.                                       *)

\* The empty view is a view.
LEMMA NoView == NoLevels \in View
  <1>1. NoLevels \in [{} -> Qty]
    BY DEF NoLevels
  <1> QED
    BY <1>1 DEF View

\* A view is a quantity on each of some levels.
LEMMA ViewIs == \A f : f \in View <=> \E S \in SUBSET Level : f \in [S -> Qty]
  BY DEF View

\* Writes over a view make a view.
LEMMA ApplyView == ASSUME NEW levels \in View, NEW writes \in View
                   PROVE  Apply(levels, writes) \in View
  <1>1. PICK S \in SUBSET Level : levels \in [S -> Qty]
    BY DEF View
  <1>2. PICK T \in SUBSET Level : writes \in [T -> Qty]
    BY DEF View
  <1> DEFINE said(l) == IF l \in DOMAIN writes THEN writes[l] ELSE levels[l]
             D == {k \in DOMAIN levels \cup DOMAIN writes : said(k) # 0}
  <1>3. Apply(levels, writes) = [l \in D |-> said(l)]
    BY DEF Apply
  <1>4. D \in SUBSET Level /\ [l \in D |-> said(l)] \in [D -> Qty]
    BY <1>1, <1>2
  <1> QED
    BY <1>3, <1>4 DEF View

\* The part of a view the depth leaves is one.
LEMMA TopView == ASSUME NEW levels \in View PROVE Top(levels) \in View
  <1>1. PICK S \in SUBSET Level : levels \in [S -> Qty]
    BY DEF View
  <1>2. PICK T \in SUBSET DOMAIN levels : Top(levels) = [l \in T |-> levels[l]]
    BY DEF Top, Restrict
  <1>3. T \in SUBSET Level /\ [l \in T |-> levels[l]] \in [T -> Qty]
    BY <1>1
  <1> QED
    BY <1>2, <1>3 DEF View

\* The difference of two views is one.
LEMMA DiffView == ASSUME NEW old \in View, NEW new \in View PROVE Diff(old, new) \in View
  <1>1. PICK S \in SUBSET Level : old \in [S -> Qty]
    BY DEF View
  <1>2. PICK T \in SUBSET Level : new \in [T -> Qty]
    BY DEF View
  <1> DEFINE D == {k \in DOMAIN new : k \notin DOMAIN old \/ old[k] # new[k]}
                    \cup (DOMAIN old \ DOMAIN new)
             d == [l \in D |-> IF l \in DOMAIN new THEN new[l] ELSE 0]
  <1>3. Diff(old, new) = d
    BY DEF Diff
  <1>4. D \in SUBSET Level /\ d \in [D -> Qty]
    BY <1>1, <1>2, AcquireConstants
  <1> QED
    BY <1>3, <1>4 DEF View
-----------------------------------------------------------------------------
(* The steps.                                                              *)

\* The stamp is a number.
LEMMA MaxOfTwo == ASSUME NEW a \in Int, NEW b \in Int PROVE Max({a, b}) \in Int
  <1>1. \E x \in {a, b} : \A y \in {a, b} : x >= y
    OBVIOUS
  <1> QED
    BY <1>1 DEF Max

\* A catalog nobody filled keeps the invariant.
LEMMA Initially == Init => AcquireInv
  <1> SUFFICES ASSUME Init PROVE AcquireInv
    OBVIOUS
  <1>1. archive \in Seq(Message)
    BY AcquireConstants DEF Init
  <1>2. TypeOK
    <2>1. NewPump \in Pumps
      BY NoView DEF NewPump, Pumps
    <2>2. NewLive \in Lives
      BY DEF NewLive, Lives
    <2>3. NewClock \in [pump : Nat, consumed : Nat]
      BY DEF NewClock
    <2>4. kept \in Lanes /\ tape \in Tapes /\ day \in Nat /\ writing \in BOOLEAN
      <3>1. <<>> \in Seq(File)
        OBVIOUS
      <3> QED
        BY <3>1 DEF Init, Lanes
    <2>5. files \in Seq(Seq(Row)) /\ channel \in Seq(Emission) /\ main \in Mains
      BY DEF Init, Mains
    <2> QED
      BY <2>1, <2>2, <2>3, <2>4, <2>5 DEF Init, TypeOK
  <1>3. LanesStand
    <2>1. kept.trades = <<>> /\ day = 1 /\ ~writing /\ Unclosed = {} /\ Days \in Nat
      BY AcquireConstants DEF Init, Unclosed
    <2> QED
      BY <2>1 DEF LanesStand, DaysApart, CutShort, AtTheDay
  <1>4. Passed
    BY DEF Init, Passed
  <1>5. ~Leashed /\ live.tee = <<>> /\ channel = <<>> /\ pump.at = 0
    BY DEF Init, Leashed, NewPump, NewLive
  <1>6. InFlight
    BY <1>1, <1>5 DEF InFlight, Ascends
  <1>7. FilesApart
    BY DEF Init, FilesApart
  <1> QED
    BY <1>2, <1>3, <1>4, <1>6, <1>7 DEF AcquireInv

\* The archive's messages ascend in time, as its days are read.
LEMMA Messages == ASSUME TypeOK
                  PROVE  /\ archive \in Seq(Message) /\ Ascends(archive)
                         /\ \A k \in DOMAIN archive :
                              archive[k].ts \in Nat /\ archive[k].writes \in View
  <1>1. archive \in Seq(Message) /\ Ascends(archive)
    BY AcquireConstants DEF TypeOK
  <1>2. \A k \in DOMAIN archive : archive[k] \in Message
    BY <1>1
  <1> QED
    BY <1>1, <1>2 DEF Message

\* The files of trades, each of a day of numbers.
LEMMA FilesAre ==
    ASSUME TypeOK
    PROVE  /\ kept.trades \in Seq(File) /\ DOMAIN kept.trades = 1..Len(kept.trades)
           /\ Len(kept.trades) \in Nat /\ Days \in Nat
           /\ \A k \in DOMAIN kept.trades :
                 /\ kept.trades[k] \in File /\ kept.trades[k].day \in 1..Days
                 /\ Rows(kept.trades[k]) \subseteq Nat
  <1>1. kept.trades \in Seq(File) /\ tape \in Tapes /\ Days \in Nat
    BY AcquireConstants DEF TypeOK, Lanes
  <1>2. \A k \in DOMAIN kept.trades : kept.trades[k] \in File
    BY <1>1
  <1>3. \A d \in 1..Days : tape[d] \subseteq Nat
    BY <1>1, AcquireConstants
  <1> QED
    BY <1>1, <1>2, <1>3 DEF File, Rows

\* What the lanes say of themselves, where nothing is written in them.
LEMMA LanesSame ==
    ASSUME LanesStand, UNCHANGED lanes, main' = "trades" => main = "trades",
           writing => main' = main
    PROVE  LanesStand' /\ Unclosed' = Unclosed /\ \A d : InLane(d)' <=> InLane(d)
  <1>1. UNCHANGED <<tape, day, kept, writing>>
    BY DEF lanes
  <1>2. Unclosed' = Unclosed /\ Closed' = Closed /\ \A d : Listed(d)' = Listed(d)
    BY <1>1 DEF Unclosed, Closed, Listed, Rows
  <1>3. \A d : (InLane(d)' <=> InLane(d)) /\ (Cached(d)' <=> Cached(d))
    BY <1>1, <1>2 DEF InLane, Cached, Rows, Precedes
  <1>4. DaysApart'
    BY <1>1, <1>3 DEF LanesStand, DaysApart, Meets, Rows
  <1>5. CutShort' /\ AtTheDay'
    BY <1>1, <1>2, <1>3 DEF LanesStand, CutShort, AtTheDay
  <1> QED
    BY <1>2, <1>3, <1>4, <1>5 DEF LanesStand

\* Nor does the program's place move.
LEMMA LanesSteady ==
    ASSUME LanesStand, Passed, UNCHANGED <<main, lanes, sentinel>>
    PROVE  LanesStand' /\ Passed'
  <1>1. LanesStand' /\ Unclosed' = Unclosed /\ \A d : InLane(d)' <=> InLane(d)
    BY LanesSame
  <1> QED
    BY <1>1 DEF Passed, lanes

\* The pump folds a message it has nothing to say of.
LEMMA Folding == ASSUME AcquireInv, PumpFold PROVE AcquireInv'
  <1> USE DEF AcquireInv
  <1> DEFINE m == archive[pump.at + 1]
             book == Apply(IF m.snapshot THEN NoLevels ELSE pump.book, m.writes)
             diff == Diff(pump.emitted, Top(book))
             next == [pump EXCEPT !.at = @ + 1, !.book = book, !.diff = diff,
                                  !.emitted = IF diff = NoLevels THEN @ ELSE Top(book)]
             emitted == IF diff = NoLevels THEN pump.emitted ELSE Top(book)
  <1>1. /\ pump.at \in Nat /\ pump.at + 1 \in DOMAIN archive
        /\ pump' = next /\ ~Leashed
        /\ UNCHANGED <<archive, main, lanes, sentinel, files, clock, channel, live>>
    BY Messages DEF PumpFold, TypeOK, Pumps
  <1>2. m.writes \in View
    BY <1>1, Messages
  <1>3. book \in View
    BY <1>2, NoView, ApplyView DEF TypeOK, Pumps
  <1>4. Top(book) \in View /\ diff \in View
    BY <1>3, TopView, DiffView DEF TypeOK, Pumps
  <1> HIDE DEF book, diff
  <1>5. next \in Pumps
        /\ next.at = pump.at + 1
    <2>1. pump \in Pumps /\ pump.emitted \in View
      BY DEF TypeOK, Pumps
    <2>2. emitted \in View
      BY <1>4, <2>1
    <2>3. /\ next = [pump EXCEPT !.at = pump.at + 1, !.book = book, !.diff = diff,
                                 !.emitted = emitted]
          /\ pump.at + 1 \in Nat
      BY <1>1, <2>1 DEF Pumps
    <2> HIDE DEF next, emitted
    <2> QED
      BY <1>3, <1>4, <2>1, <2>2, <2>3 DEF Pumps
  <1> HIDE DEF next
  <1>6. TypeOK'
    BY <1>1, <1>5 DEF TypeOK, lanes
  <1>7. \A ts : Behind(ts, pump, archive) => Behind(ts, pump', archive')
    BY <1>1, <1>5, Messages DEF Behind, Leashed
  <1>8. InFlight'
    BY <1>1, <1>5, <1>7, Messages DEF InFlight, Ascends
  <1> QED
    BY <1>1, <1>6, <1>8, LanesSteady DEF FilesApart, Ascends, Span

\* The pump pushes what it said, in the archive's order.
LEMMA Pushing == ASSUME AcquireInv, PumpPush PROVE AcquireInv'
  <1> USE DEF AcquireInv
  <1> DEFINE e == [ts |-> Now, diff |-> pump.diff]
  <1>1. /\ Leashed /\ pump.at \in DOMAIN archive /\ Now \in Nat /\ pump.diff \in View
    BY Messages DEF PumpPush, InFlight, TypeOK, Pumps, Now
  <1>2. /\ channel' = Append(channel, e) /\ e.ts = Now
        /\ pump' = [pump EXCEPT !.diff = NoLevels] /\ clock' = [clock EXCEPT !.pump = Now]
        /\ UNCHANGED <<archive, main, lanes, sentinel, files, live>>
    BY DEF PumpPush
  <1>3. e \in Emission /\ pump'.at = pump.at /\ pump'.diff = NoLevels
    BY <1>1, <1>2 DEF TypeOK, Emission, Pumps
  <1>4. TypeOK'
    <2>1. pump' \in Pumps
      BY <1>2, NoView DEF TypeOK, Pumps
    <2>2. clock' \in [pump : Nat, consumed : Nat]
      BY <1>1, <1>2 DEF TypeOK
    <2>3. channel' \in Seq(Emission)
      BY <1>2, <1>3 DEF TypeOK
    <2> QED
      BY <1>2, <2>1, <2>2, <2>3 DEF TypeOK, lanes
  <1>5. ~Leashed'
    BY <1>3 DEF Leashed
  <1>6. \A ts : Behind(ts, pump, archive) => Behind(ts, pump', archive')
    BY <1>1, <1>2, <1>3, <1>5 DEF Behind
  <1>7. Behind(Now, pump', archive')
    BY <1>1, <1>2, <1>3, <1>5, Messages DEF Behind, Now, Ascends, TypeOK
  <1> HIDE DEF e
  <1>8. /\ channel \in Seq(Emission)
        /\ DOMAIN channel' = DOMAIN channel \cup {Len(channel) + 1}
        /\ \A b \in DOMAIN channel : channel'[b] = channel[b]
        /\ channel'[Len(channel) + 1] = e
        /\ DOMAIN channel = 1..Len(channel) /\ Len(channel) \in Nat
    BY <1>2, <1>3 DEF TypeOK
  <1>9. /\ \A b \in DOMAIN channel : channel[b].ts < Now
        /\ \A a \in DOMAIN live.tee : live.tee[a].ts < Now
    BY <1>1 DEF InFlight, Behind, Leashed, Now
  <1>10. InFlight'
    <2>1. Ascends(channel)'
      BY <1>2, <1>8, <1>9 DEF InFlight, Ascends
    <2>2. \A a \in DOMAIN live.tee', b \in DOMAIN channel' : live'.tee[a].ts < channel'[b].ts
      BY <1>2, <1>8, <1>9 DEF InFlight
    <2>3. \A b \in DOMAIN channel' : Behind(channel'[b].ts, pump', archive')
      BY <1>2, <1>6, <1>7, <1>8 DEF InFlight
    <2>4. \A a \in DOMAIN live.tee' : Behind(live'.tee[a].ts, pump', archive')
      BY <1>2, <1>6 DEF InFlight
    <2> QED
      BY <1>2, <1>3, <1>5, <2>1, <2>2, <2>3, <2>4 DEF InFlight, Ascends
  <1> QED
    BY <1>2, <1>4, <1>10, LanesSteady DEF FilesApart, Ascends, Span

\* The pump hangs up.
LEMMA Ending == ASSUME AcquireInv, PumpEnd PROVE AcquireInv'
  <1> USE DEF AcquireInv
  <1>1. /\ pump' = [pump EXCEPT !.done = TRUE]
        /\ UNCHANGED <<archive, main, lanes, sentinel, files, clock, channel, live>>
    BY DEF PumpEnd
  <1>2. pump' \in Pumps /\ pump'.at = pump.at /\ pump'.diff = pump.diff
    BY <1>1 DEF TypeOK, Pumps
  <1>3. TypeOK'
    BY <1>1, <1>2 DEF TypeOK, lanes
  <1>4. InFlight'
    BY <1>1, <1>2 DEF InFlight, Ascends, Behind, Leashed
  <1> QED
    BY <1>1, <1>3, <1>4, LanesSteady DEF FilesApart, Ascends, Span

\* Live::ingest moves the oldest message on the way to the tee.
LEMMA Ingesting == ASSUME AcquireInv, Ingest PROVE AcquireInv'
  <1> USE DEF AcquireInv
  <1> DEFINE stamp == Max({clock.pump, live.stamp + 1})
             row == [ts |-> Head(channel).ts, diff |-> Head(channel).diff, stamp |-> stamp]
  <1>1. /\ live' = [live EXCEPT !.stamp = stamp, !.buffer = Append(@, row), !.tee = Append(@, row)]
        /\ channel' = Tail(channel) /\ channel # <<>>
        /\ UNCHANGED <<archive, main, lanes, sentinel, files, pump, clock>>
    BY DEF Ingest
  <1>2. stamp \in Int
    <2>1. clock.pump \in Int /\ live.stamp + 1 \in Int
      BY DEF TypeOK, Lives
    <2> QED
      BY <2>1, MaxOfTwo
  <1> HIDE DEF stamp
  <1>3. /\ channel \in Seq(Emission) /\ Len(channel) \in Nat
        /\ 1 \in DOMAIN channel /\ DOMAIN channel = 1..Len(channel)
        /\ Head(channel) = channel[1]
        /\ channel[1] \in Emission
        /\ channel' \in Seq(Emission)
        /\ DOMAIN channel' = 1..(Len(channel) - 1)
        /\ \A b \in DOMAIN channel' : b + 1 \in DOMAIN channel /\ channel'[b] = channel[b + 1]
    BY <1>1 DEF TypeOK
  <1>4. row \in Row /\ row.ts = channel[1].ts
    <2>1. channel[1].ts \in Nat /\ channel[1].diff \in View
      BY <1>3 DEF Emission
    <2> QED
      BY <1>2, <1>3, <2>1 DEF Row
  <1> HIDE DEF row
  <1>5. TypeOK' /\ live'.tee = Append(live.tee, row)
    <2>1. live' \in Lives /\ live'.tee = Append(live.tee, row)
      <3>1. live \in Lives /\ live.buffer \in Seq(Row) /\ live.tee \in Seq(Row)
        BY DEF TypeOK, Lives
      <3>2. Append(live.buffer, row) \in Seq(Row) /\ Append(live.tee, row) \in Seq(Row)
        BY <1>4, <3>1
      <3>3. live' = [live EXCEPT !.stamp = stamp, !.buffer = Append(live.buffer, row),
                                 !.tee = Append(live.tee, row)]
        BY <1>1, <3>1 DEF Lives
      <3> QED
        BY <1>2, <3>1, <3>2, <3>3 DEF Lives
    <2> QED
      BY <1>1, <1>3, <2>1 DEF TypeOK, lanes
  <1>6. /\ live.tee \in Seq(Row) /\ Len(live.tee) \in Nat
        /\ DOMAIN live.tee = 1..Len(live.tee)
        /\ DOMAIN live'.tee = DOMAIN live.tee \cup {Len(live.tee) + 1}
        /\ \A a \in DOMAIN live.tee : live'.tee[a] = live.tee[a]
        /\ live'.tee[Len(live.tee) + 1] = row
    <2>1. live.tee \in Seq(Row)
      BY DEF TypeOK, Lives
    <2> QED
      BY <1>4, <1>5, <2>1
  <1>7. \A ts : Behind(ts, pump, archive) => Behind(ts, pump', archive')
    BY <1>1 DEF Behind, Leashed
  <1>8. InFlight'
    <2> DEFINE t == row.ts
    <2>0. /\ \A a \in DOMAIN live.tee : live.tee[a].ts < t
          /\ \A b \in DOMAIN channel' : t < channel'[b].ts
      BY <1>3, <1>4 DEF InFlight, Ascends
    <2>1. Ascends(live.tee)'
      BY <1>6, <2>0 DEF InFlight, Ascends
    <2>2. Ascends(channel)'
      BY <1>3 DEF InFlight, Ascends
    <2>3. \A a \in DOMAIN live.tee', b \in DOMAIN channel' : live'.tee[a].ts < channel'[b].ts
      BY <1>3, <1>6, <2>0 DEF InFlight, Ascends
    <2>4. \A a \in DOMAIN live.tee' : Behind(live'.tee[a].ts, pump', archive')
      BY <1>3, <1>4, <1>6, <1>7 DEF InFlight
    <2>5. \A b \in DOMAIN channel' : Behind(channel'[b].ts, pump', archive')
      BY <1>3, <1>7 DEF InFlight
    <2> QED
      BY <1>1, <2>1, <2>2, <2>3, <2>4, <2>5 DEF InFlight, Leashed
  <1> QED
    BY <1>1, <1>5, <1>8, LanesSteady DEF FilesApart, Ascends, Span

\* What the tee holds goes to disk, or the process ends.
LEMMA Rotating == ASSUME AcquireInv, main = "draining", NEW next \in {"draining", "joining"},
                         Rotated(next), live' = [live EXCEPT !.tee = <<>>],
                         UNCHANGED <<archive, lanes, sentinel, pump, clock, channel>>
                  PROVE  AcquireInv'
  <1> USE DEF AcquireInv
  <1>1. /\ live \in Lives /\ live.tee \in Seq(Row) /\ files \in Seq(Seq(Row))
        /\ live' \in Lives /\ live'.tee = <<>>
    <2>1. live \in Lives /\ live.tee \in Seq(Row) /\ files \in Seq(Seq(Row))
      BY DEF TypeOK, Lives
    <2>2. <<>> \in Seq(Row)
      OBVIOUS
    <2> QED
      BY <2>1, <2>2 DEF Lives
  <1>2. main' \in {"draining", "joining", "panicked"}
    BY DEF Rotated
  <1>3. files' = files \/ (live.tee # <<>> /\ ~Refused /\ files' = Append(files, live.tee))
    BY DEF Rotated
  <1>4. TypeOK'
    <2>1. files' \in Seq(Seq(Row))
      BY <1>1, <1>3
    <2> QED
      BY <1>1, <1>2, <2>1 DEF TypeOK, Mains, lanes
  <1>5. InFlight'
    BY <1>1 DEF InFlight, Ascends, Leashed
  <1>6. Passed' /\ LanesStand'
    <2>1. ~writing
      BY DEF LanesStand, AtTheDay
    <2> QED
      BY <1>2, <2>1, LanesSame DEF Passed
  <1>7. FilesApart'
    <2>1. CASE files' = files
      BY <2>1 DEF FilesApart, Ascends, Span
    <2>2. CASE live.tee # <<>> /\ ~Refused /\ files' = Append(files, live.tee)
      <3>1. /\ DOMAIN files' = DOMAIN files \cup {Len(files) + 1}
            /\ DOMAIN files = 1..Len(files) /\ Len(files) \in Nat
            /\ \A i \in DOMAIN files : files'[i] = files[i]
            /\ files'[Len(files) + 1] = live.tee
        BY <1>1, <2>2
      <3>2. \A i \in DOMAIN files : Span(files[i]) \cap Span(live.tee) = {}
        BY <2>2 DEF Refused
      <3>3. live.tee # <<>> /\ Ascends(live.tee)
        BY <2>2 DEF InFlight
      <3>4. \A i \in DOMAIN files' : files'[i] # <<>> /\ Ascends(files'[i])
        BY <3>1, <3>3 DEF FilesApart
      <3>5. \A i, j \in DOMAIN files' : i # j => Span(files'[i]) \cap Span(files'[j]) = {}
        BY <3>1, <3>2 DEF FilesApart
      <3> QED
        BY <3>4, <3>5 DEF FilesApart, Ascends, Span
    <2> QED
      BY <1>3, <2>1, <2>2
  <1> QED
    BY <1>4, <1>5, <1>6, <1>7

\* The main thread's loop, a file written or refused included.
LEMMA Consuming == ASSUME AcquireInv, Consume PROVE AcquireInv'
  <1> USE DEF AcquireInv
  <1>1. PICK n \in 1..Len(live.buffer) :
          /\ live' = [live EXCEPT !.buffer = SubSeq(@, n + 1, Len(@))]
          /\ clock' = [clock EXCEPT !.consumed = live.buffer[n].ts]
    BY DEF Consume
  <1>2. UNCHANGED <<archive, main, lanes, sentinel, files, pump, channel>>
    BY DEF Consume
  <1>3. live \in Lives /\ live.buffer \in Seq(Row) /\ clock \in [pump : Nat, consumed : Nat]
    BY DEF TypeOK, Lives
  <1>4. live.buffer[n] \in Row /\ SubSeq(live.buffer, n + 1, Len(live.buffer)) \in Seq(Row)
    BY <1>3
  <1>5. live.buffer[n].ts \in Nat
    BY <1>4 DEF Row
  <1>6. live' \in Lives /\ live'.tee = live.tee
    BY <1>1, <1>3, <1>4 DEF Lives
  <1>7. clock' \in [pump : Nat, consumed : Nat]
    BY <1>1, <1>3, <1>5
  <1>8. TypeOK'
    BY <1>2, <1>6, <1>7 DEF TypeOK, lanes
  <1>9. InFlight'
    BY <1>2, <1>6 DEF InFlight, Ascends, Leashed
  <1> QED
    BY <1>2, <1>8, <1>9, LanesSteady DEF FilesApart, Ascends, Span

\* What of a lane its probes rest on is kept where its files only close.
LEMMA Stays ==
    ASSUME NEW d, UNCHANGED tape,
           \A k \in DOMAIN kept.trades :
               /\ k \in DOMAIN kept'.trades
               /\ kept'.trades[k].day = kept.trades[k].day
               /\ kept.trades[k].state = "closed" => kept'.trades[k].state = "closed",
           InLane(d)
    PROVE  InLane(d)'
  <1>1. PICK k \in DOMAIN kept.trades :
          \/ kept.trades[k].day = d
          \/ /\ kept.trades[k].day < d /\ kept.trades[k].state = "closed"
             /\ Rows(kept.trades[k]) \cap Probe(d) # {}
    BY DEF InLane
  <1>2. Rows(kept.trades[k])' = Rows(kept.trades[k]) /\ k \in DOMAIN kept'.trades
    BY DEF Rows
  <1> QED
    BY <1>1, <1>2 DEF InLane

\* A day found is in the lane.
LEMMA FoundIsInLane ==
    ASSUME TypeOK, LanesStand, NEW d \in Nat \ {0}, Cached(d)
    PROVE  InLane(d)
  <1>1. PICK k \in Closed : Rows(kept.trades[k]) \cap Probe(d) # {}
    BY DEF Cached
  <1>2. /\ k \in DOMAIN kept.trades /\ kept.trades[k].state = "closed"
        /\ kept.trades[k].day \in Nat
    BY <1>1, FilesAre DEF Closed
  <1>3. CASE d < kept.trades[k].day
    BY <1>2, <1>3 DEF LanesStand, DaysApart
  <1>4. CASE kept.trades[k].day <= d
    BY <1>1, <1>2, <1>4 DEF InLane
  <1> QED
    BY <1>2, <1>3, <1>4

\* Over a day in the lane no file is created: it is found, or the run fails.
LEMMA InLaneIsLeft ==
    ASSUME TypeOK, LanesStand, NEW d \in Nat, InLane(d)
    PROVE  Cached(d) \/ Fails(d)
  <1>1. PICK k \in DOMAIN kept.trades :
          \/ kept.trades[k].day = d
          \/ /\ kept.trades[k].day < d /\ kept.trades[k].state = "closed"
             /\ Rows(kept.trades[k]) \cap Probe(d) # {}
    BY DEF InLane
  <1>2. CASE kept.trades[k].day = d
    <2>1. tape[d] # {} /\ Rows(kept.trades[k]) = tape[d] /\ tape[d] \subseteq Nat
      BY <1>1, <1>2, FilesAre DEF LanesStand, DaysApart, Rows
    <2>2. PICK t \in tape[d] : t \in Nat /\ t <= t
      BY <2>1
    <2> QED
      BY <1>1, <2>1, <2>2 DEF Fails, Taken
  <1>3. CASE kept.trades[k].state = "closed" /\ Rows(kept.trades[k]) \cap Probe(d) # {}
    <2>1. k \in Closed
      BY <1>1, <1>3 DEF Closed
    <2>2. CASE Listed(d) \cap Unclosed = {}
      BY <1>3, <2>1, <2>2 DEF Cached
    <2> QED
      BY <2>2 DEF Fails
  <1> QED
    BY <1>1, <1>2, <1>3

\* The days of trades: what is found is passed, and what is created is of a day no
\* file stands for, in a lane whose files are all closed.
LEMMA TheDays == ASSUME AcquireInv, EnsureTrades PROVE AcquireInv'
  <1> USE DEF AcquireInv
  <1>1. UNCHANGED <<archive, tape, sentinel, files, pump, clock, channel, live>> /\ main = "trades"
    BY DEF EnsureTrades, Trading, SkipDay, FailDay, CreateDay, CloseDay, TradesDone
  <1>2. InFlight' /\ FilesApart'
    BY <1>1 DEF InFlight, FilesApart, Ascends, Span, Leashed
  <1> DEFINE F == kept.trades
  <1>3. /\ F \in Seq(File) /\ Len(F) \in Nat /\ DOMAIN F = 1..Len(F)
        /\ \A k \in DOMAIN F : F[k] \in File
        /\ Days \in Nat /\ day \in 1..(Days + 1) /\ \A d \in 1..(day - 1) : InLane(d)
    BY <1>1, AcquireConstants DEF TypeOK, Lanes, LanesStand, AtTheDay
  <1>4. CASE SkipDay
    <2>1. /\ UNCHANGED <<main, kept, writing>> /\ ~writing /\ Cached(day) /\ day' = day + 1
          /\ day <= Days
      BY <1>4 DEF SkipDay, Trading
    <2>2. InLane(day)
      BY <1>3, <2>1, FoundIsInLane
    <2>3. \A d : (InLane(d)' <=> InLane(d)) /\ (Cached(d)' <=> Cached(d))
      BY <1>1, <2>1 DEF InLane, Cached, Rows, Closed, Unclosed, Listed, Precedes
    <2>4. Unclosed' = Unclosed
      BY <2>1 DEF Unclosed
    <2>5. DaysApart'
      BY <1>1, <2>1, <2>3 DEF LanesStand, DaysApart, Meets, Rows
    <2>6. CutShort'
      <3>1. ASSUME NEW k \in Unclosed PROVE day + 1 <= F[k].day
        <4>1. F[k].day \in Nat /\ ~Cached(F[k].day) /\ day <= F[k].day
          BY <1>1, <1>3 DEF LanesStand, CutShort, Unclosed, File
        <4> QED
          BY <1>3, <2>1, <4>1
      <3> QED
        BY <1>1, <2>1, <2>3, <2>4, <3>1 DEF LanesStand, CutShort
    <2>7. AtTheDay'
      BY <1>1, <1>3, <2>1, <2>2, <2>3 DEF AtTheDay
    <2>8. TypeOK' /\ Passed'
      BY <1>1, <1>3, <2>1 DEF TypeOK, Passed
    <2> QED
      BY <1>2, <2>5, <2>6, <2>7, <2>8 DEF LanesStand
  <1>5. CASE FailDay \/ TradesDone
    <2>1. /\ UNCHANGED <<day, kept, writing>> /\ ~writing /\ main' \in {"panicked", "book"}
      BY <1>5 DEF FailDay, TradesDone, Trading
    <2>2. LanesStand' /\ Unclosed' = Unclosed /\ \A d : InLane(d)' <=> InLane(d)
      BY <1>1, <2>1, LanesSame DEF lanes
    <2>3. TypeOK'
      BY <1>1, <2>1 DEF TypeOK, Mains
    <2>4. Passed'
      <3>1. CASE FailDay
        BY <3>1 DEF FailDay, Passed
      <3>2. CASE TradesDone
        <4>1. day = Days + 1 /\ main' = "book"
          BY <1>3, <3>2 DEF TradesDone
        <4>2. ASSUME NEW k \in Unclosed PROVE FALSE
          <5>1. F[k].day \in 1..Days /\ day <= F[k].day
            BY <1>1, <1>3 DEF LanesStand, CutShort, Unclosed, File
          <5> QED
            BY <1>3, <4>1, <5>1
        <4>3. \A d \in 1..Days : InLane(d)
          BY <1>3, <4>1
        <4> QED
          BY <2>2, <4>1, <4>2, <4>3 DEF Passed
      <3> QED
        BY <1>5, <3>1, <3>2
    <2> QED
      BY <1>2, <2>2, <2>3, <2>4
  <1>6. CASE CreateDay
    <2> DEFINE f == [day |-> day, state |-> "open"]
               n == Len(F) + 1
    <2>1. /\ kept' = [kept EXCEPT !.trades = Append(F, f)] /\ writing' = TRUE
          /\ UNCHANGED <<main, day>> /\ ~writing /\ day \in 1..Days
          /\ ~Cached(day) /\ ~Fails(day)
      BY <1>3, <1>6 DEF CreateDay, Trading
    <2>2. f \in File /\ kept' \in Lanes /\ kept'.trades = Append(F, f)
      <3>1. f \in File
        BY <2>1 DEF File
      <3>2. Append(F, f) \in Seq(File) /\ kept \in Lanes
        BY <1>3, <3>1 DEF TypeOK
      <3> HIDE DEF f
      <3> QED
        BY <2>1, <3>1, <3>2 DEF Lanes
    <2>3. /\ DOMAIN kept'.trades = DOMAIN F \cup {n} /\ Len(kept'.trades) = n /\ n \notin DOMAIN F
          /\ kept'.trades[n] = f /\ \A k \in DOMAIN F : kept'.trades[k] = F[k]
      BY <1>3, <2>2
    <2>4. f.day = day /\ f.state = "open"
      OBVIOUS
    <2> HIDE DEF f, n
    <2>5. ~InLane(day)
      BY <1>3, <2>1, InLaneIsLeft
    <2>6. Unclosed = {}
      <3> SUFFICES ASSUME NEW k \in Unclosed PROVE FALSE
        OBVIOUS
      <3>1. k \in DOMAIN F /\ F[k].day \in Nat /\ day <= F[k].day
        BY <1>1, <1>3 DEF LanesStand, CutShort, Unclosed, File
      <3>2. CASE day = F[k].day
        BY <2>5, <3>1, <3>2 DEF InLane
      <3>3. CASE day < F[k].day
        BY <1>3, <2>5, <3>1, <3>3 DEF LanesStand, DaysApart
      <3> QED
        BY <1>3, <3>1, <3>2, <3>3
    <2>7. Unclosed' = {n}
      BY <2>3, <2>4, <2>6 DEF Unclosed
    <2>8. \A d : InLane(d) => InLane(d)'
      BY <1>1, <2>3, Stays
    <2>9. Rows(f) = tape[day] /\ \A k \in DOMAIN F : Rows(F[k])' = Rows(F[k])
      BY <1>1, <2>3, <2>4 DEF Rows
    <2>10. DaysApart'
      <3>1. ASSUME NEW k \in DOMAIN F
            PROVE  ~Meets(F[k], f) /\ ~Meets(f, F[k])
        BY <2>1, <2>9 DEF Fails, Taken, Meets
      <3>2. ASSUME NEW j \in DOMAIN kept'.trades, NEW k \in DOMAIN kept'.trades, j # k
            PROVE  ~Meets(kept'.trades[j], kept'.trades[k])
        BY <2>3, <3>1, <3>2 DEF LanesStand, DaysApart
      <3>3. \A g, h : Meets(g, h)' <=> Meets(g, h)
        BY <1>1 DEF Meets, Rows
      <3>4. ASSUME NEW k \in DOMAIN kept'.trades
            PROVE  /\ tape'[kept'.trades[k].day] # {}
                   /\ \A d \in 1..(kept'.trades[k].day - 1) : InLane(d)'
        <4>1. CASE k = n
          BY <1>1, <1>3, <2>1, <2>3, <2>4, <2>8, <4>1 DEF Fails
        <4>2. CASE k \in DOMAIN F
          BY <1>1, <2>3, <2>8, <4>2 DEF LanesStand, DaysApart
        <4> QED
          BY <2>3, <4>1, <4>2
      <3> QED
        BY <3>2, <3>3, <3>4 DEF DaysApart
    <2>11. ~Cached(day)'
      <3> SUFFICES ASSUME Cached(day)' PROVE Cached(day)
        BY <2>1
      <3>1. Closed' = Closed /\ Listed(day) \cap Unclosed = {}
        BY <2>3, <2>4, <2>6 DEF Closed
      <3>2. PICK k \in Closed' : (Rows(kept.trades[k]) \cap Probe(day) # {})'
        BY Zenon DEF Cached
      <3>3. k \in DOMAIN F /\ kept'.trades[k] = F[k] /\ Rows(F[k])' = Rows(F[k]) /\ k \in Closed
        BY <2>3, <2>9, <3>1, <3>2 DEF Closed
      <3>4. Rows(F[k]) \cap Probe(day) # {}
        BY <2>1, <3>2, <3>3
      <3> QED
        BY <3>1, <3>3, <3>4 DEF Cached
    <2>12. CutShort'
      BY <1>1, <2>1, <2>3, <2>4, <2>7, <2>11, <1>3 DEF CutShort
    <2>13. AtTheDay'
      BY <1>1, <1>3, <2>1, <2>3, <2>4, <2>7, <2>8 DEF AtTheDay
    <2>14. TypeOK' /\ Passed'
      BY <1>1, <2>1, <2>2 DEF TypeOK, Passed
    <2> QED
      BY <1>2, <2>10, <2>12, <2>13, <2>14 DEF LanesStand
  <1>7. CASE CloseDay
    <2> DEFINE n == Len(F)
    <2>1. /\ kept' = [kept EXCEPT !.trades[Len(kept.trades)].state = "closed"]
          /\ writing' = FALSE /\ writing /\ day' = day + 1 /\ main' = main
      BY <1>7 DEF CloseDay
    <2>2. /\ n \in Unclosed /\ F[n].day = day /\ Unclosed = {n} /\ n \in DOMAIN F
      BY <1>1, <2>1 DEF LanesStand, AtTheDay, CutShort, Unclosed
    <2>3. day \in 1..Days
      BY <1>3, <2>2 DEF File
    <2>4. kept' = [kept EXCEPT !.trades = [F EXCEPT ![n] = [F[n] EXCEPT !.state = "closed"]]]
      BY <1>3, <2>1, <2>2 DEF TypeOK, Lanes
    <2>5. [F[n] EXCEPT !.state = "closed"] = [day |-> day, state |-> "closed"]
      BY <1>3, <2>2 DEF File
    <2>6. kept' \in Lanes /\ kept'.trades = [F EXCEPT ![n] = [day |-> day, state |-> "closed"]]
      <3>1. [day |-> day, state |-> "closed"] \in File
        BY <2>3 DEF File
      <3>2. [F EXCEPT ![n] = [day |-> day, state |-> "closed"]] \in Seq(File)
        BY <1>3, <2>2, <3>1
      <3> QED
        BY <2>4, <2>5, <3>2 DEF TypeOK, Lanes
    <2>7. /\ DOMAIN kept'.trades = DOMAIN F /\ Len(kept'.trades) = Len(F)
          /\ \A k \in DOMAIN F : kept'.trades[k].day = F[k].day
          /\ \A k \in DOMAIN F \ {n} : kept'.trades[k] = F[k]
          /\ kept'.trades[n].state = "closed"
      BY <1>3, <2>2, <2>6
    <2> HIDE DEF n
    <2>8. Unclosed' = {}
      BY <2>2, <2>7 DEF Unclosed
    <2>9. \A d : InLane(d) => InLane(d)'
      BY <1>1, <2>7, Stays
    <2>10. InLane(day)
      BY <2>2 DEF InLane
    <2>11. DaysApart'
      <3>1. \A k \in DOMAIN F : Rows(F[k])' = Rows(F[k])
        BY <1>1, <2>7 DEF Rows
      <3>2. \A j, k \in DOMAIN F : j # k => (~Meets(kept.trades[j], kept.trades[k]))'
        BY <2>7, <3>1 DEF LanesStand, DaysApart, Meets
      <3> QED
        BY <1>1, <2>7, <2>9, <3>2 DEF LanesStand, DaysApart
    <2>12. CutShort'
      BY <2>8 DEF CutShort
    <2>13. AtTheDay'
      BY <1>1, <1>3, <2>1, <2>3, <2>9, <2>10 DEF AtTheDay
    <2>14. TypeOK' /\ Passed'
      <3>1. day' \in Nat
        BY <2>1, <2>3
      <3>2. writing' \in BOOLEAN /\ kept' \in Lanes /\ main' \in Mains /\ main' = "trades"
        BY <1>1, <2>1, <2>6 DEF TypeOK
      <3> QED
        BY <1>1, <3>1, <3>2 DEF TypeOK, Passed
    <2> QED
      BY <1>2, <2>11, <2>12, <2>13, <2>14 DEF LanesStand
  <1> QED
    BY <1>4, <1>5, <1>6, <1>7 DEF EnsureTrades

\* ensure_book, from the probe of the lane to the spawned pump.
LEMMA Recording == ASSUME AcquireInv, EnsureBook PROVE AcquireInv'
  <1> USE DEF AcquireInv
  <1>1. /\ UNCHANGED <<archive, lanes, sentinel, files>>
        /\ main = "book" /\ main' = IF sentinel THEN "oi" ELSE "draining"
        /\ pump' = NewPump /\ clock' = NewClock /\ channel' = <<>> /\ live' = NewLive
    BY DEF EnsureBook
  <1>2. TypeOK'
    <2>1. pump' \in Pumps
      BY <1>1, NoView DEF NewPump, Pumps
    <2>2. live' \in Lives
      BY <1>1 DEF NewLive, Lives
    <2>3. clock' \in [pump : Nat, consumed : Nat] /\ channel' \in Seq(Emission)
      BY <1>1 DEF NewClock
    <2> QED
      BY <1>1, <2>1, <2>2, <2>3 DEF TypeOK, Mains, lanes
  <1>3. /\ ~Leashed' /\ live'.tee = <<>> /\ channel' = <<>> /\ pump'.at = 0
        /\ Len(archive) \in Nat
    BY <1>1, Messages DEF Leashed, NewPump, NewLive
  <1>4. InFlight'
    BY <1>1, <1>3 DEF InFlight, Ascends
  <1>5. Passed' /\ LanesStand'
    <2>1. ~writing
      BY <1>1 DEF LanesStand, AtTheDay
    <2> QED
      BY <1>1, <2>1, LanesSame DEF Passed
  <1>6. FilesApart'
    BY <1>1 DEF FilesApart, Ascends, Span
  <1> QED
    BY <1>2, <1>4, <1>5, <1>6

\* Readings of the window: probed, created, closed.
LEMMA Reading ==
    ASSUME AcquireInv, EnsureOi \/ EnsureMc
    PROVE  AcquireInv'
  <1> USE DEF AcquireInv
  <1>1. /\ UNCHANGED <<archive, tape, day, sentinel, files, pump, clock, channel, live>>
        /\ main \in {"oi", "mc"} /\ main' \in {"oi", "mc", "done", "panicked"}
    BY DEF EnsureOi, EnsureMc, Readings
  <1>2. InFlight' /\ FilesApart'
    BY <1>1 DEF InFlight, FilesApart, Ascends, Span, Leashed
  <1>3. kept' \in Lanes /\ kept'.trades = kept.trades
    <2>1. kept \in Lanes
      BY DEF TypeOK
    <2>2. PICK lane \in {"oi", "mc"} : Readings(lane, IF lane = "oi" THEN "mc" ELSE "done")
      BY DEF EnsureOi, EnsureMc
    <2>3. \/ kept' = kept
          \/ kept' = [kept EXCEPT ![lane] = "open"]
          \/ kept' = [kept EXCEPT ![lane] = "closed"]
      BY <2>2 DEF Readings
    <2> QED
      BY <2>1, <2>3 DEF Lanes
  <1>4. writing' \in BOOLEAN /\ (writing' => main' \in {"oi", "mc"})
    <2>1. PICK lane \in {"oi", "mc"} : Readings(lane, IF lane = "oi" THEN "mc" ELSE "done")
      BY DEF EnsureOi, EnsureMc
    <2>2. ~writing' \/ main' = main
      BY <2>1 DEF Readings
    <2>3. writing' = writing \/ writing' = TRUE \/ writing' = FALSE
      BY <2>1 DEF Readings
    <2>4. writing' \in BOOLEAN
      BY <2>3, Zenon DEF TypeOK
    <2> QED
      BY <1>1, <2>2, <2>4
  <1>5. TypeOK'
    BY <1>1, <1>3, <1>4 DEF TypeOK, Mains
  <1>6. Unclosed' = Unclosed /\ Unclosed = {} /\ \A d : InLane(d)' <=> InLane(d)
    BY <1>1, <1>3 DEF Unclosed, InLane, Rows, Passed
  <1>7. LanesStand'
    <2>1. DaysApart'
      BY <1>1, <1>3, <1>6 DEF LanesStand, DaysApart, Meets, Rows
    <2>2. CutShort' /\ AtTheDay'
      BY <1>1, <1>4, <1>6 DEF CutShort, AtTheDay
    <2> QED
      BY <2>1, <2>2 DEF LanesStand
  <1>8. Passed'
    <2>1. sentinel /\ \A d \in 1..Days : InLane(d)
      BY <1>1 DEF Passed
    <2>2. CASE EnsureOi
      <3>1. main' = "mc" => kept'.oi = "closed"
        BY <2>2 DEF EnsureOi, Readings, TypeOK, Lanes
      <3>2. main' \in {"oi", "mc", "panicked"}
        BY <2>2 DEF EnsureOi, Readings
      <3> QED
        BY <1>1, <1>6, <2>1, <3>1, <3>2 DEF Passed
    <2>3. CASE EnsureMc
      <3>1. main = "mc" /\ main' \in {"mc", "done", "panicked"}
        BY <2>3 DEF EnsureMc, Readings
      <3>2. kept.oi = "closed"
        BY <3>1 DEF Passed
      <3>3. kept'.oi = kept.oi /\ (main' = "done" => kept'.mc = "closed")
        BY <2>3 DEF EnsureMc, Readings, TypeOK, Lanes
      <3> QED
        BY <1>1, <1>6, <2>1, <3>1, <3>2, <3>3 DEF Passed
    <2> QED
      BY <2>2, <2>3
  <1> QED
    BY <1>2, <1>5, <1>7, <1>8

\* The steps that move the main thread on and touch no row.
LEMMA MovingOn ==
    ASSUME AcquireInv, Join \/ Kill \/ Start \/ UNCHANGED vars
    PROVE  AcquireInv'
  <1> USE DEF AcquireInv
  <1>1. UNCHANGED <<archive, tape, kept, files, pump, clock, channel, live>>
    BY DEF Join, Kill, Start, vars, lanes
  <1>2. InFlight' /\ FilesApart'
    BY <1>1 DEF InFlight, FilesApart, Ascends, Span, Leashed
  <1>3. TypeOK'
    <2>1. sentinel' = sentinel \/ sentinel' = TRUE
      BY Zenon DEF Join, Kill, Start, vars
    <2>2. writing' = writing \/ writing' = FALSE
      BY Zenon DEF Join, Kill, Start, vars, lanes
    <2>3. main' = main \/ main' \in {"oi", "killed", "trades"}
      BY DEF Join, Kill, Start, vars
    <2>4. day' = day \/ day' = 1
      BY DEF Join, Kill, Start, vars, lanes
    <2>5. sentinel' \in BOOLEAN /\ writing' \in BOOLEAN
      BY <2>1, <2>2 DEF TypeOK
    <2>6. main' \in Mains /\ day' \in Nat
      BY <2>3, <2>4 DEF TypeOK, Mains
    <2> QED
      BY <1>1, <2>5, <2>6 DEF TypeOK
  <1>4. \A d : (InLane(d)' <=> InLane(d)) /\ (Cached(d)' <=> Cached(d))
    BY <1>1 DEF InLane, Cached, Rows, Closed, Unclosed, Listed, Precedes
  <1>5. Unclosed' = Unclosed
    BY <1>1 DEF Unclosed
  <1>6. DaysApart'
    BY <1>1, <1>4 DEF LanesStand, DaysApart, Meets, Rows
  <1>7. ASSUME NEW k \in Unclosed PROVE kept.trades[k].day \in Nat \ {0}
    BY FilesAre DEF Unclosed
  <1>8. CASE Join
    <2>1. LanesStand'
      BY <1>8, LanesSame DEF Join, LanesStand, AtTheDay
    <2>2. Passed'
      BY <1>4, <1>5, <1>8 DEF Join, Passed
    <2> QED
      BY <1>2, <1>3, <2>1, <2>2
  <1>9. CASE Kill
    <2>1. main' = "killed" /\ ~writing'
      BY <1>9 DEF Kill
    <2>2. CutShort' /\ AtTheDay' /\ Passed'
      BY <1>1, <1>4, <1>5, <2>1 DEF LanesStand, CutShort, AtTheDay, Passed
    <2> QED
      BY <1>2, <1>3, <1>6, <2>2 DEF LanesStand
  <1>10. CASE Start
    <2>1. main' = "trades" /\ day' = 1 /\ ~writing'
      BY <1>10 DEF Start, LanesStand, AtTheDay
    <2>2. CutShort'
      BY <1>1, <1>4, <1>5, <1>7, <2>1 DEF LanesStand, CutShort
    <2>3. AtTheDay' /\ Passed'
      BY <2>1, AcquireConstants DEF AtTheDay, Passed
    <2> QED
      BY <1>2, <1>3, <1>6, <2>2, <2>3 DEF LanesStand
  <1>11. CASE UNCHANGED vars
    BY <1>2, <1>3, <1>11, LanesSteady DEF vars
  <1> QED
    BY <1>8, <1>9, <1>10, <1>11

\* Every step of the pump, the main thread, a kill and a rerun keeps it.
LEMMA Stepping == AcquireInv /\ [Next]_vars => AcquireInv'
  <1> SUFFICES ASSUME AcquireInv, [Next]_vars PROVE AcquireInv'
    OBVIOUS
  <1>1. CASE Pump
    BY <1>1, Folding, Pushing, Ending DEF Pump
  <1>2. CASE Ingest \/ Consume
    BY <1>2, Ingesting, Consuming
  <1>3. CASE Rotate
    BY <1>3, Rotating DEF Rotate
  <1>4. CASE Drained
    BY <1>4, Rotating DEF Drained
  <1>5. CASE EnsureTrades \/ EnsureBook
    BY <1>5, TheDays, Recording
  <1>6. CASE EnsureOi \/ EnsureMc
    BY <1>6, Reading
  <1>7. CASE Join \/ Kill \/ Start \/ UNCHANGED vars
    BY <1>7, MovingOn
  <1> QED
    BY <1>1, <1>2, <1>3, <1>4, <1>5, <1>6, <1>7 DEF Next, Feed, Ensure

\* A row of an ordered file is of the file's time.
LEMMA Within == ASSUME NEW rows \in Seq(Row), Ascends(rows), NEW a \in DOMAIN rows
                PROVE  rows[a].ts \in Span(rows)
  <1>1. Len(rows) \in Nat /\ DOMAIN rows = 1..Len(rows) /\ Head(rows) = rows[1]
    OBVIOUS
  <1>2. /\ 1 \in DOMAIN rows /\ Len(rows) \in DOMAIN rows
        /\ \A k \in DOMAIN rows : rows[k] \in Row
    BY <1>1
  <1>3. rows[1].ts \in Nat /\ rows[a].ts \in Nat /\ rows[Len(rows)].ts \in Nat
    BY <1>2 DEF Row
  <1>4. rows[1].ts <= rows[a].ts
    BY <1>1, <1>2, <1>3 DEF Ascends
  <1>5. rows[a].ts <= rows[Len(rows)].ts
    BY <1>1, <1>2, <1>3 DEF Ascends
  <1> QED
    BY <1>1, <1>3, <1>4, <1>5 DEF Span, Last

-----------------------------------------------------------------------------
(* The theorems.                                                           *)

\* However the two threads run, whenever a batch is full, killed anywhere: the files
\* of trades lie apart and in the order of their days, no run gets past a file cut
\* short or writes another after it, what is in flight is in the archive's order
\* and behind what is to be said, the book's files lie apart, and the program has
\* passed nothing that is missing (ensure_lanes, Catalog::write).
THEOREM AcquireInvariance == Spec => []AcquireInv
  <1>1. Init => AcquireInv
    BY Initially
  <1>2. AcquireInv /\ [Next]_vars => AcquireInv'
    BY Stepping
  <1> QED
    BY <1>1, <1>2, PTL DEF Spec

\* Nothing is recorded twice, and the program finishes only over files that can be
\* read, with every day there but one an earlier day spilled into (ensure_lanes of
\* examples/spl over Catalog::write and its readers).
THEOREM RecordsNothingTwice == Spec => []NothingTwice
  <1>1. AcquireInv => NothingTwice
    <2> SUFFICES ASSUME AcquireInv PROVE NothingTwice
      OBVIOUS
    <2> USE DEF AcquireInv
    <2>1. ASSUME NEW j \in DOMAIN kept.trades, NEW k \in DOMAIN kept.trades, j # k
          PROVE  Rows(kept.trades[j]) \cap Rows(kept.trades[k]) = {}
      <3>1. kept.trades[j].day \in 1..Days
        BY FilesAre
      <3>2. Rows(kept.trades[j]) \subseteq Nat
        BY FilesAre
      <3>3. ~Meets(kept.trades[j], kept.trades[k])
        BY <2>1 DEF LanesStand, DaysApart
      <3> QED
        BY <3>2, <3>3 DEF Meets
    <2>2. ASSUME NEW i \in DOMAIN files, NEW j \in DOMAIN files,
                 NEW a \in DOMAIN files[i], NEW b \in DOMAIN files[j], <<i, a>> # <<j, b>>
          PROVE  files[i][a].ts # files[j][b].ts
      <3>1. /\ files[i] \in Seq(Row) /\ files[j] \in Seq(Row)
            /\ Len(files[i]) \in Nat /\ Len(files[j]) \in Nat
            /\ DOMAIN files[i] = 1..Len(files[i]) /\ DOMAIN files[j] = 1..Len(files[j])
        BY DEF TypeOK
      <3>2. /\ \A k \in DOMAIN files[i] : files[i][k] \in Row
            /\ \A k \in DOMAIN files[j] : files[j][k] \in Row
        BY <3>1
      <3>3. /\ \A k \in DOMAIN files[i] : files[i][k].ts \in Nat
            /\ \A k \in DOMAIN files[j] : files[j][k].ts \in Nat
        BY <3>2 DEF Row
      <3>4. Ascends(files[i]) /\ Ascends(files[j])
        BY DEF FilesApart
      <3>5. CASE i = j
        <4>1. a < b \/ b < a
          BY <2>2, <3>1, <3>5
        <4> QED
          BY <3>3, <3>4, <3>5, <4>1 DEF Ascends
      <3>6. CASE i # j
        <4>1. Span(files[i]) \cap Span(files[j]) = {}
          BY <3>6 DEF FilesApart
        <4>2. files[i][a].ts \in Span(files[i]) /\ files[j][b].ts \in Span(files[j])
          BY <3>1, <3>4, Within
        <4> QED
          BY <4>1, <4>2
      <3> QED
        BY <3>5, <3>6
    <2>3. main = "done" =>
            /\ Unclosed = {} /\ \A d \in 1..Days : InLane(d)
            /\ sentinel /\ kept.oi = "closed" /\ kept.mc = "closed"
      BY DEF Passed
    <2> QED
      BY <2>1, <2>2, <2>3 DEF NothingTwice
  <1> QED
    BY <1>1, AcquireInvariance, PTL

-----------------------------------------------------------------------------
(* What lies in the files, and what was said of the view.                  *)

Flat(batches) == FoldLeft(LAMBDA rows, f : rows \o f, <<>>, batches)

\* Flat, the rows of a lane's files, is a fold.
LEMMA FlatFolds == \A batches : Laying!Fold({}, <<>>, batches) = Flat(batches)
  BY Zenon DEF Flat, Laying!Fold, FoldLeft, MapThenFoldSet,
               Laying!FoldLeft, Laying!MapThenFoldSet, Max, Laying!Max

\* No files hold no rows.
LEMMA FlatEmpty == Flat(<<>>) = <<>>
  BY FlatFolds, Laying!FoldEmpty

\* A file written is read last.
LEMMA FlatAppend ==
    ASSUME NEW S, NEW batches \in Seq(S), NEW f \in S
    PROVE  Flat(Append(batches, f)) = Flat(batches) \o f
  <1>1. Laying!Fold({}, <<>>, Append(batches, f)) = Laying!Fold({}, <<>>, batches) \o f
    BY Laying!FoldAppend
  <1> QED
    BY <1>1, FlatFolds

\* Files of rows hold rows.
LEMMA FlatType == \A batches \in Seq(Seq(Row)) : Flat(batches) \in Seq(Row)
  <1> DEFINE T == {b \in Seq(Seq(Row)) : Flat(b) \in Seq(Row)}
  <1>1. <<>> \in T
    <2>1. <<>> \in Seq(Seq(Row)) /\ <<>> \in Seq(Row)
      OBVIOUS
    <2> QED
      BY <2>1, FlatEmpty
  <1>2. ASSUME NEW b \in Seq(Seq(Row)), NEW f \in Seq(Row), b \in T
        PROVE  Append(b, f) \in T
    <2>1. Append(b, f) \in Seq(Seq(Row))
      OBVIOUS
    <2>2. Flat(b) \o f \in Seq(Row)
      BY <1>2, ConcatProperties
    <2> QED
      BY <2>1, <2>2, FlatAppend
  <1> HIDE DEF T
  <1>3. Seq(Seq(Row)) \subseteq T
    BY <1>1, <1>2, Laying!SeqInduction
  <1> QED
    BY <1>3 DEF T

\* Folded, the view the diffs lead to, is a fold.
LEMMA FoldedFolds == \A diffs : Viewing!Fold({}, NoLevels, diffs) = Folded(diffs)
  BY Zenon DEF Folded, Viewing!Fold, FoldLeft, MapThenFoldSet,
               Viewing!FoldLeft, Viewing!MapThenFoldSet, Max, Viewing!Max

\* No diffs lead to the empty view.
LEMMA FoldedEmpty == Folded(<<>>) = NoLevels
  BY FoldedFolds, Viewing!FoldEmpty

\* One diff more is applied last.
LEMMA FoldedAppend ==
    ASSUME NEW S, NEW diffs \in Seq(S), NEW d \in S
    PROVE  Folded(Append(diffs, d)) = Apply(Folded(diffs), d)
  <1>1. Viewing!Fold({}, NoLevels, Append(diffs, d)) = Apply(Viewing!Fold({}, NoLevels, diffs), d)
    BY Viewing!FoldAppend
  <1> QED
    BY <1>1, FoldedFolds

\* A row without its stamp.
Plain(rows) == [k \in DOMAIN rows |-> [ts |-> rows[k].ts, diff |-> rows[k].diff]]

\* Rows without their stamps, one for one.
LEMMA PlainIs ==
    ASSUME NEW rows \in Seq(Row)
    PROVE  /\ Plain(rows) \in Seq(Emission) /\ Len(Plain(rows)) = Len(rows)
           /\ \A k \in 1..Len(rows) : /\ Plain(rows)[k].ts = rows[k].ts
                                      /\ Plain(rows)[k].diff = rows[k].diff
  <1>1. DOMAIN rows = 1..Len(rows) /\ Len(rows) \in Nat /\ \A k \in 1..Len(rows) : rows[k] \in Row
    OBVIOUS
  <1>2. \A k \in 1..Len(rows) : [ts |-> rows[k].ts, diff |-> rows[k].diff] \in Emission
    BY <1>1 DEF Row, Emission
  <1>3. Plain(rows) = [k \in 1..Len(rows) |-> [ts |-> rows[k].ts, diff |-> rows[k].diff]]
    BY <1>1 DEF Plain
  <1>4. Plain(rows) \in [1..Len(rows) -> Emission]
    BY <1>2, <1>3
  <1> QED
    BY <1>1, <1>3, <1>4

\* Of no rows, none.
LEMMA PlainEmpty == Plain(<<>>) = <<>>
  <1>1. <<>> \in Seq(Row) /\ Len(<<>>) = 0
    OBVIOUS
  <1>2. Plain(<<>>) \in Seq(Emission) /\ Len(Plain(<<>>)) = 0
    BY <1>1, PlainIs
  <1> QED
    BY <1>2, EmptySeq

\* Of one row more, one more.
LEMMA PlainAppend ==
    ASSUME NEW rows \in Seq(Row), NEW r \in Row
    PROVE  Plain(Append(rows, r)) = Append(Plain(rows), [ts |-> r.ts, diff |-> r.diff])
  <1> DEFINE n == Len(rows)
             all == Append(rows, r)
             e == [ts |-> r.ts, diff |-> r.diff]
             p == Plain(rows)
             said == Append(p, e)
  <1>1. /\ all \in Seq(Row) /\ n \in Nat /\ Len(all) = n + 1 /\ DOMAIN all = 1..(n + 1) /\ all[n + 1] = r
        /\ \A k \in 1..n : all[k] = rows[k]
    OBVIOUS
  <1>2. p \in Seq(Emission) /\ Len(p) = n /\ p = [k \in 1..n |-> [ts |-> rows[k].ts, diff |-> rows[k].diff]]
    BY PlainIs DEF Plain
  <1>3. e \in Emission
    BY DEF Row, Emission
  <1> HIDE DEF all, p, e
  <1>4. said \in Seq(Emission) /\ Len(said) = n + 1 /\ said[n + 1] = e /\ \A k \in 1..n : said[k] = p[k]
    BY <1>1, <1>2, <1>3
  <1> HIDE DEF said, n
  <1>5. ASSUME NEW k \in 1..(n + 1)
        PROVE  [ts |-> all[k].ts, diff |-> all[k].diff] = said[k]
    <2>1. CASE k \in 1..n
      BY <1>1, <1>2, <1>4, <2>1
    <2>2. CASE k = n + 1
      BY <1>1, <1>4, <2>2 DEF e
    <2> QED
      BY <1>1, <2>1, <2>2
  <1>6. Plain(all) = [k \in 1..(n + 1) |-> [ts |-> all[k].ts, diff |-> all[k].diff]]
    BY <1>1 DEF Plain
  <1>7. said = [k \in 1..(n + 1) |-> said[k]]
    BY <1>1, <1>4
  <1>8. [k \in 1..(n + 1) |-> [ts |-> all[k].ts, diff |-> all[k].diff]] = [k \in 1..(n + 1) |-> said[k]]
    BY <1>5, Zenon
  <1> QED
    BY <1>6, <1>7, <1>8 DEF all, said, p, e, n

\* No emission, no diff.
LEMMA DiffsEmpty == DiffsOf(<<>>) = <<>>
  <1>1. DOMAIN <<>> = {} /\ <<>> = [k \in {} |-> <<>>[k].diff]
    OBVIOUS
  <1> QED
    BY <1>1 DEF DiffsOf

\* One emission more, one diff more.
LEMMA DiffsAppend ==
    ASSUME NEW q \in Seq(Emission), NEW e \in Emission
    PROVE  /\ DiffsOf(q) \in Seq(View) /\ e.diff \in View
           /\ DiffsOf(Append(q, e)) = Append(DiffsOf(q), e.diff)
  <1> DEFINE n == Len(q)
             all == Append(q, e)
             d == DiffsOf(q)
             said == Append(d, e.diff)
  <1>1. /\ all \in Seq(Emission) /\ n \in Nat /\ Len(all) = n + 1 /\ DOMAIN all = 1..(n + 1) /\ all[n + 1] = e
        /\ \A k \in 1..n : all[k] = q[k] /\ q[k] \in Emission
    OBVIOUS
  <1>2. d = [k \in 1..n |-> q[k].diff] /\ e.diff \in View /\ \A k \in 1..n : q[k].diff \in View
    BY <1>1 DEF DiffsOf, Emission
  <1>3. d \in Seq(View) /\ Len(d) = n
    BY <1>1, <1>2
  <1> HIDE DEF all, d
  <1>4. said \in Seq(View) /\ Len(said) = n + 1 /\ said[n + 1] = e.diff /\ \A k \in 1..n : said[k] = d[k]
    BY <1>1, <1>2, <1>3
  <1> HIDE DEF said, n
  <1>5. ASSUME NEW k \in 1..(n + 1)
        PROVE  all[k].diff = said[k]
    <2>1. CASE k \in 1..n
      BY <1>1, <1>2, <1>4, <2>1
    <2>2. CASE k = n + 1
      BY <1>1, <1>4, <2>2
    <2> QED
      BY <1>1, <2>1, <2>2
  <1>6. DiffsOf(all) = [k \in 1..(n + 1) |-> all[k].diff]
    BY <1>1 DEF DiffsOf
  <1>7. said = [k \in 1..(n + 1) |-> said[k]]
    BY <1>1, <1>4
  <1>8. [k \in 1..(n + 1) |-> all[k].diff] = [k \in 1..(n + 1) |-> said[k]]
    BY <1>5, Zenon
  <1> QED
    BY <1>2, <1>3, <1>6, <1>7, <1>8 DEF all, said, d

-----------------------------------------------------------------------------
(* The book after a message is the book before it, folded: what is last said of a *)
(* level since the last snapshot is what the message says of it, or else what was. *)

\* BookAfter by its parts.
Clears(n) == {0} \cup {k \in 1..n : archive[k].snapshot}
Clear(n) == Max(Clears(n))
Since(n) == {k \in 1..n : k >= Clear(n)}
Says(n, l) == {k \in Since(n) : l \in DOMAIN archive[k].writes}
SaidOf(n) == UNION {DOMAIN archive[k].writes : k \in Since(n)}
Final(n, l) == archive[Max(Says(n, l))].writes[l]

\* The archive's book after n messages is what the levels' last writers left.
LEMMA BookAfterIs ==
    \A n : BookAfter(n) = [l \in {k \in SaidOf(n) : Final(n, k) # 0} |-> Final(n, l)]
  BY Zenon DEF BookAfter, SaidOf, Final, Says, Since, Clear, Clears

\* A level has been said of if a message since the last snapshot says it.
LEMMA SaidHas ==
    ASSUME NEW n, NEW l
    PROVE  l \in SaidOf(n) <=> Says(n, l) # {}
  BY DEF SaidOf, Says

\* The greatest of finitely many naturals.
LEMMA GreatestIs ==
    ASSUME NEW n \in Nat, NEW S, S \subseteq 0..n, S # {}
    PROVE  Max(S) \in S /\ \A y \in S : y <= Max(S)
  <1> DEFINE T == {b \in Nat : \A y \in S : y <= b}
  <1>1. n \in T /\ T \subseteq Nat
    OBVIOUS
  <1>2. PICK m \in T : \A b \in T : m <= b
    BY <1>1, Laying!Least
  <1>3. m \in S
    <2>1. ASSUME m \notin S
          PROVE  FALSE
      <3>1. \A y \in S : y \in Nat /\ y <= m /\ y # m
        BY <1>2, <2>1
      <3>2. PICK x \in S : TRUE
        OBVIOUS
      <3>3. m # 0 /\ m - 1 \in Nat
        BY <1>2, <3>1, <3>2
      <3>4. m - 1 \in T
        BY <1>2, <3>1, <3>3
      <3>5. m <= m - 1
        BY <1>2, <3>4
      <3> QED
        BY <1>2, <3>5
    <2> QED
      BY <2>1
  <1>4. S \subseteq Int /\ \A y \in S : y <= m
    BY <1>2
  <1>5. Max(S) = m
    <2>1. Laying!Max(S) = m
      BY <1>3, <1>4, Laying!MaxIs
    <2> QED
      BY <2>1, Zenon DEF Max, Laying!Max
  <1> QED
    BY <1>3, <1>4, <1>5

\* Before the first message the book is empty.
LEMMA BookAtFirst == BookAfter(0) = NoLevels
  <1>1. 1..0 = {}
    OBVIOUS
  <1>2. SaidOf(0) = {}
    BY <1>1 DEF SaidOf, Since
  <1>3. BookAfter(0) = [l \in {k \in SaidOf(0) : Final(0, k) # 0} |-> Final(0, l)]
    BY BookAfterIs
  <1>4. BookAfter(0) = [l \in {} |-> Final(0, l)]
    BY <1>2, <1>3
  <1> QED
    BY <1>4, Zenon DEF NoLevels

\* What is since the last snapshot, a message later.
LEMMA SinceGrows ==
    ASSUME NEW n \in Nat, n + 1 \in DOMAIN archive
    PROVE  Since(n + 1) = IF archive[n + 1].snapshot THEN {n + 1} ELSE Since(n) \cup {n + 1}
  <1> DEFINE N == n + 1
  <1>1. Clears(N) = IF archive[N].snapshot THEN Clears(n) \cup {N} ELSE Clears(n)
    <2>1. 1..N = (1..n) \cup {N}
      OBVIOUS
    <2> HIDE DEF N
    <2> QED
      BY <2>1 DEF Clears
  <1>2. Clears(n) \subseteq 0..n /\ Clears(n) # {} /\ Clears(N) \subseteq 0..N /\ Clears(N) # {}
    BY DEF Clears
  <1>3. Clear(n) \in 0..n /\ Clear(N) \in Clears(N) /\ \A y \in Clears(N) : y <= Clear(N)
    BY <1>2, GreatestIs DEF Clear
  <1>4. CASE archive[N].snapshot
    <2>1. N \in Clears(N)
      BY <1>1, <1>4
    <2>2. Clear(N) = N
      BY <1>2, <1>3, <2>1
    <2> QED
      BY <1>4, <2>2 DEF Since
  <1>5. CASE ~ archive[N].snapshot
    <2>1. Clear(N) = Clear(n)
      BY <1>1, <1>5 DEF Clear
    <2>2. \A k : k \in Since(N) <=> k \in 1..N /\ k >= Clear(n)
      BY <2>1 DEF Since
    <2>3. \A k : k \in Since(n) <=> k \in 1..n /\ k >= Clear(n)
      BY DEF Since
    <2>4. Since(N) = Since(n) \cup {N}
      BY <1>3, <2>2, <2>3
    <2> QED
      BY <1>5, <2>4
  <1> QED
    BY <1>4, <1>5

\* One message more applies its writes, over nothing if it is a snapshot.
LEMMA BookGrows ==
    ASSUME NEW n \in Nat, n + 1 \in DOMAIN archive
    PROVE  BookAfter(n + 1) =
             Apply(IF archive[n + 1].snapshot THEN NoLevels ELSE BookAfter(n), archive[n + 1].writes)
  <1> DEFINE N == n + 1
             W == archive[N].writes
             snap == archive[N].snapshot
             old == IF snap THEN NoLevels ELSE BookAfter(n)
             said(l) == IF l \in DOMAIN W THEN W[l] ELSE old[l]
             D == {k \in SaidOf(N) : Final(N, k) # 0}
             E == {k \in DOMAIN old \cup DOMAIN W : said(k) # 0}
  <1>1. Since(N) = IF snap THEN {N} ELSE Since(n) \cup {N}
    BY SinceGrows
  <1>2. Since(n) \subseteq 1..n /\ N \in Nat /\ N > n
    BY DEF Since
  <1> HIDE DEF N
  <1>3. ASSUME NEW l \in DOMAIN W
        PROVE  l \in SaidOf(N) /\ Final(N, l) = W[l]
    <2>1. N \in Says(N, l) /\ Says(N, l) \subseteq 0..N
      BY <1>1, <1>2 DEF Says
    <2>2. Max(Says(N, l)) \in Says(N, l) /\ \A y \in Says(N, l) : y <= Max(Says(N, l))
      BY <1>2, <2>1, GreatestIs
    <2>3. Max(Says(N, l)) = N
      BY <1>2, <2>1, <2>2
    <2> QED
      BY <2>1, <2>3, SaidHas DEF Final
  <1>4. ASSUME NEW l, l \notin DOMAIN W, ~ snap
        PROVE  (l \in SaidOf(N) <=> l \in SaidOf(n)) /\ Final(N, l) = Final(n, l)
    <2>1. Says(N, l) = Says(n, l)
      BY <1>1, <1>4 DEF Says
    <2> QED
      BY <2>1, SaidHas DEF Final
  <1>5. ASSUME NEW l, l \notin DOMAIN W, snap
        PROVE  l \notin SaidOf(N)
    BY <1>1, <1>5, SaidHas DEF Says
  <1>6. DOMAIN NoLevels = {} /\ DOMAIN BookAfter(n) = {k \in SaidOf(n) : Final(n, k) # 0}
        /\ \A l \in DOMAIN BookAfter(n) : BookAfter(n)[l] = Final(n, l)
    BY BookAfterIs DEF NoLevels
  <1>7. ASSUME NEW l
        PROVE  /\ l \in D <=> l \in E
               /\ l \in D => Final(N, l) = said(l)
    <2>1. CASE l \in DOMAIN W
      BY <1>3, <2>1
    <2>2. CASE l \notin DOMAIN W /\ snap
      BY <1>5, <1>6, <2>2
    <2>3. CASE l \notin DOMAIN W /\ ~ snap
      BY <1>4, <1>6, <2>3
    <2> QED
      BY <2>1, <2>2, <2>3
  <1>8. BookAfter(N) = [l \in D |-> Final(N, l)]
    BY BookAfterIs
  <1>9. Apply(old, W) = [l \in E |-> said(l)]
    BY DEF Apply
  <1> HIDE DEF D, E, said, old, W, snap
  <1>10. [l \in D |-> Final(N, l)] = [l \in E |-> said(l)]
    <2>1. D = E
      BY <1>7
    <2>2. \A l \in D : Final(N, l) = said(l)
      BY <1>7
    <2> QED
      BY <2>1, <2>2, Zenon
  <1> QED
    BY <1>8, <1>9, <1>10 DEF old, snap, W, N

\* The difference takes a view to the next, and there is none only between equals.
Positive(levels) == levels = [l \in DOMAIN levels |-> levels[l]] /\ \A l \in DOMAIN levels : levels[l] # 0

\* The diff of two views leads from one to the other, and is empty only between equals.
LEMMA DiffLeads ==
    ASSUME NEW old, NEW new, Positive(old), Positive(new)
    PROVE  /\ Apply(old, Diff(old, new)) = new
           /\ Diff(old, new) = NoLevels <=> old = new
  <1> DEFINE D == {k \in DOMAIN new : k \notin DOMAIN old \/ old[k] # new[k]}
                    \cup (DOMAIN old \ DOMAIN new)
             d == Diff(old, new)
             said(l) == IF l \in DOMAIN d THEN d[l] ELSE old[l]
             E == {k \in DOMAIN old \cup DOMAIN d : said(k) # 0}
  <1>1. DOMAIN d = D /\ \A l \in D : d[l] = IF l \in DOMAIN new THEN new[l] ELSE 0
    BY DEF Diff
  <1>2. Apply(old, d) = [l \in E |-> said(l)]
    BY DEF Apply
  <1> HIDE DEF d
  <1>3. \A l : l \in E <=> l \in DOMAIN new
    BY <1>1 DEF Positive
  <1>4. \A l \in DOMAIN new : said(l) = new[l]
    BY <1>1
  <1> HIDE DEF E, said
  <1>5. [l \in E |-> said(l)] = [l \in DOMAIN new |-> new[l]]
    <2>1. E = DOMAIN new
      BY <1>3
    <2> QED
      BY <1>4, <2>1, Zenon
  <1>6. Apply(old, d) = new
    BY <1>2, <1>5 DEF Positive
  <1>7. ASSUME old = new
        PROVE  d = NoLevels
    <2>1. D = {}
      BY <1>7
    <2>2. d = [l \in D |-> IF l \in DOMAIN new THEN new[l] ELSE 0]
      BY DEF d, Diff
    <2> HIDE DEF D
    <2> QED
      BY <2>1, <2>2, Zenon DEF NoLevels
  <1>8. ASSUME d = NoLevels
        PROVE  old = new
    <2>1. D = {}
      BY <1>1, <1>8 DEF NoLevels
    <2>2. DOMAIN old = DOMAIN new /\ \A l \in DOMAIN new : old[l] = new[l]
      BY <2>1
    <2>3. [l \in DOMAIN old |-> old[l]] = [l \in DOMAIN new |-> new[l]]
      BY <2>2, Zenon
    <2> QED
      BY <2>3 DEF Positive
  <1> QED
    BY <1>6, <1>7, <1>8 DEF d

-----------------------------------------------------------------------------
(* What a stretch of rows tells of the view.                               *)

ViewAfter(n) == Top(BookAfter(n))

\* The time of the first message that leaves anything in the view.
Starts(t) ==
    \E k \in DOMAIN archive :
        /\ t = archive[k].ts /\ ViewAfter(k) # NoLevels
        /\ \A i \in 0..(k - 1) : ViewAfter(i) = NoLevels

\* The rows q say all the view did up to message n: they fold to it, in the order of
\* the archive, a row for every change, from the first on.
Tells(q, n) ==
    /\ Folded(DiffsOf(q)) = ViewAfter(n)
    /\ Ascends(q)
    /\ \A j \in DOMAIN q : \E k \in 1..n : q[j].ts = archive[k].ts
    /\ \A k \in 1..n : ViewAfter(k) # ViewAfter(k - 1) => \E j \in DOMAIN q : q[j].ts = archive[k].ts
    /\ q = <<>> => \A k \in 0..n : ViewAfter(k) = NoLevels
    /\ q # <<>> => Starts(q[1].ts)

\* A view's quantities are positive: removals are not in it.
LEMMA ViewPositive == \A n : Positive(ViewAfter(n))
  <1> SUFFICES ASSUME NEW n PROVE Positive(ViewAfter(n))
    OBVIOUS
  <1> DEFINE b == BookAfter(n)
             S == {l \in DOMAIN b :
                     Cardinality({k \in DOMAIN b : k[1] = l[1] /\ Ahead(l[1], k[2], l[2])}) < Depth}
  <1>1. \A l \in DOMAIN b : b[l] # 0
    <2>1. b = [l \in {k \in SaidOf(n) : Final(n, k) # 0} |-> Final(n, l)]
      BY BookAfterIs
    <2> HIDE DEF b
    <2> QED
      BY <2>1
  <1>2. ViewAfter(n) = [l \in S |-> b[l]]
    BY Zenon DEF ViewAfter, Top, Restrict
  <1>3. S \subseteq DOMAIN b
    OBVIOUS
  <1> HIDE DEF S, b
  <1> QED
    BY <1>1, <1>2, <1>3 DEF Positive

\* Before the first message the view is empty.
LEMMA ViewAtFirst == ViewAfter(0) = NoLevels
  <1> DEFINE S == {l \in DOMAIN NoLevels :
                     Cardinality({k \in DOMAIN NoLevels : k[1] = l[1] /\ Ahead(l[1], k[2], l[2])}) < Depth}
  <1>1. ViewAfter(0) = [l \in S |-> NoLevels[l]]
    BY BookAtFirst, Zenon DEF ViewAfter, Top, Restrict
  <1>2. DOMAIN NoLevels = {}
    BY DEF NoLevels
  <1>3. S = {}
    BY <1>2
  <1> HIDE DEF S
  <1>4. ViewAfter(0) = [l \in {} |-> NoLevels[l]]
    BY <1>1, <1>3
  <1> QED
    BY <1>4, Zenon DEF NoLevels

\* The archive's first telling message is one.
LEMMA StartsOnce ==
    ASSUME NEW s, NEW t, Starts(s), Starts(t), archive \in Seq(Message)
    PROVE  s = t
  <1>1. PICK k \in DOMAIN archive : /\ s = archive[k].ts /\ ViewAfter(k) # NoLevels
                                    /\ \A i \in 0..(k - 1) : ViewAfter(i) = NoLevels
    BY DEF Starts
  <1>2. PICK m \in DOMAIN archive : /\ t = archive[m].ts /\ ViewAfter(m) # NoLevels
                                    /\ \A i \in 0..(m - 1) : ViewAfter(i) = NoLevels
    BY DEF Starts
  <1>3. DOMAIN archive = 1..Len(archive) /\ Len(archive) \in Nat
    OBVIOUS
  <1>4. ~ (k < m) /\ ~ (m < k)
    BY <1>1, <1>2, <1>3
  <1>5. k = m
    BY <1>3, <1>4
  <1> QED
    BY <1>1, <1>2, <1>5

\* Nothing said is told by nothing.
LEMMA TellsNothing == Tells(<<>>, 0)
  <1>1. DOMAIN <<>> = {} /\ 1..0 = {} /\ 0..0 = {0}
    OBVIOUS
  <1>2. Folded(DiffsOf(<<>>)) = ViewAfter(0)
    BY DiffsEmpty, FoldedEmpty, ViewAtFirst
  <1> QED
    BY <1>1, <1>2, ViewAtFirst DEF Tells, Ascends

\* A message that leaves the view as it was needs no row.
LEMMA TellsOn ==
    ASSUME NEW q, NEW n \in Nat, Tells(q, n), ViewAfter(n + 1) = ViewAfter(n)
    PROVE  Tells(q, n + 1)
  <1>1. \A k \in 1..(n + 1) : k \in 1..n \/ (k = n + 1 /\ k - 1 = n)
    OBVIOUS
  <1>2. \A k \in 0..(n + 1) : k \in 0..n \/ k = n + 1
    OBVIOUS
  <1>3. \A k \in 1..n : k \in 1..(n + 1)
    OBVIOUS
  <1>4. Folded(DiffsOf(q)) = ViewAfter(n + 1)
    BY DEF Tells
  <1>5. Ascends(q) /\ (q # <<>> => Starts(q[1].ts))
    BY DEF Tells
  <1>6. \A j \in DOMAIN q : \E k \in 1..(n + 1) : q[j].ts = archive[k].ts
    BY <1>3 DEF Tells
  <1>7. \A k \in 1..(n + 1) :
          ViewAfter(k) # ViewAfter(k - 1) => \E j \in DOMAIN q : q[j].ts = archive[k].ts
    BY <1>1 DEF Tells
  <1>8. q = <<>> => \A k \in 0..(n + 1) : ViewAfter(k) = NoLevels
    BY <1>2 DEF Tells
  <1> QED
    BY <1>4, <1>5, <1>6, <1>7, <1>8 DEF Tells

\* One that moves it is told by a row of its time.
LEMMA TellsMore ==
    ASSUME NEW q \in Seq(Emission), NEW n \in Nat, Tells(q, n), n + 1 \in DOMAIN archive,
           archive \in Seq(Message), Ascends(archive), ViewAfter(n + 1) # ViewAfter(n),
           NEW e \in Emission, e.ts = archive[n + 1].ts, e.diff = Diff(ViewAfter(n), ViewAfter(n + 1))
    PROVE  Tells(Append(q, e), n + 1)
  <1> DEFINE all == Append(q, e)
             m == Len(q)
  <1>1. /\ all \in Seq(Emission) /\ m \in Nat /\ Len(all) = m + 1 /\ all # <<>>
        /\ DOMAIN all = 1..(m + 1) /\ DOMAIN q = 1..m /\ all[m + 1] = e
        /\ \A k \in 1..m : all[k] = q[k]
    <2>1. all \in Seq(Emission) /\ m \in Nat /\ Len(all) = m + 1 /\ all[m + 1] = e
      OBVIOUS
    <2>2. \A k \in 1..m : all[k] = q[k]
      OBVIOUS
    <2>3. DOMAIN all = 1..(m + 1) /\ DOMAIN q = 1..m
      BY <2>1
    <2> HIDE DEF all
    <2>4. all # <<>>
      <3>1. Len(<<>>) = 0
        OBVIOUS
      <3> QED
        BY <2>1, <3>1
    <2> QED
      BY <2>1, <2>2, <2>3, <2>4
  <1>2. Folded(DiffsOf(all)) = ViewAfter(n + 1)
    <2>1. Folded(DiffsOf(all)) = Apply(Folded(DiffsOf(q)), e.diff)
      BY DiffsAppend, FoldedAppend
    <2>2. Apply(ViewAfter(n), Diff(ViewAfter(n), ViewAfter(n + 1))) = ViewAfter(n + 1)
      BY ViewPositive, DiffLeads
    <2>3. Folded(DiffsOf(q)) = ViewAfter(n)
      BY DEF Tells
    <2> QED
      BY <2>1, <2>2, <2>3
  <1> HIDE DEF all, m
  <1>3. DOMAIN archive = 1..Len(archive) /\ Len(archive) \in Nat
    OBVIOUS
  <1>4. \A k \in 1..n : k \in 1..(n + 1) /\ k \in DOMAIN archive /\ archive[k].ts < archive[n + 1].ts
    BY <1>3 DEF Ascends
  <1>5. \A j \in 1..m : \E k \in 1..n : q[j].ts = archive[k].ts
    BY <1>1 DEF Tells
  <1>6. Ascends(all)
    <2>1. \A j \in 1..m : q[j].ts < e.ts
      BY <1>4, <1>5
    <2>2. ASSUME NEW j \in 1..(m + 1), NEW k \in 1..(m + 1), j < k
          PROVE  all[j].ts < all[k].ts
      <3>1. j \in 1..m /\ all[j] = q[j]
        BY <1>1, <2>2
      <3>2. CASE k \in 1..m
        BY <1>1, <2>2, <3>1, <3>2 DEF Tells, Ascends
      <3>3. CASE k = m + 1
        BY <1>1, <2>1, <3>1, <3>3
      <3> QED
        BY <1>1, <3>2, <3>3
    <2> QED
      BY <1>1, <2>2 DEF Ascends
  <1>7. ASSUME NEW j \in DOMAIN all
        PROVE  \E k \in 1..(n + 1) : all[j].ts = archive[k].ts
    <2>1. CASE j \in 1..m
      <3>1. PICK k \in 1..n : q[j].ts = archive[k].ts
        BY <1>5, <2>1
      <3> QED
        BY <1>1, <1>4, <2>1, <3>1
    <2>2. CASE j = m + 1
      <3>1. n + 1 \in 1..(n + 1)
        OBVIOUS
      <3> QED
        BY <1>1, <2>2, <3>1
    <2> QED
      BY <1>1, <2>1, <2>2
  <1>8. ASSUME NEW k \in 1..(n + 1), ViewAfter(k) # ViewAfter(k - 1)
        PROVE  \E j \in DOMAIN all : all[j].ts = archive[k].ts
    <2>1. CASE k \in 1..n
      <3>1. PICK j \in 1..m : q[j].ts = archive[k].ts
        BY <1>1, <1>8, <2>1 DEF Tells
      <3> QED
        BY SMTT(30), <1>1, <3>1
    <2>2. CASE k = n + 1
      <3>1. m + 1 \in DOMAIN all
        BY <1>1
      <3> QED
        BY <1>1, <2>2, <3>1
    <2> QED
      BY <2>1, <2>2
  <1>9. Starts(all[1].ts)
    <2>1. CASE q = <<>>
      <3>1. m = 0 /\ all[1] = e
        BY <1>1, <2>1 DEF m
      <3>2. \A k \in 0..n : ViewAfter(k) = NoLevels
        BY <2>1 DEF Tells
      <3>3. n \in 0..n /\ (n + 1) - 1 = n
        OBVIOUS
      <3>4. ViewAfter(n + 1) # NoLevels /\ \A i \in 0..((n + 1) - 1) : ViewAfter(i) = NoLevels
        BY <3>2, <3>3
      <3> QED
        BY <3>1, <3>4 DEF Starts
    <2>2. CASE q # <<>>
      <3>1. 1 \in 1..m
        BY <1>1, <2>2 DEF m
      <3> QED
        BY <1>1, <2>2, <3>1 DEF Tells
    <2> QED
      BY <2>1, <2>2
  <1>10. Tells(all, n + 1)
    BY <1>1, <1>2, <1>6, <1>7, <1>8, <1>9 DEF Tells
  <1> QED
    BY <1>10 DEF all

-----------------------------------------------------------------------------
(* The account of a session: what it filed, what its tee holds and what is on the *)
(* way from the pump.                                                      *)

Stamped(rows, last) ==
    /\ \A j, k \in DOMAIN rows : j < k => rows[j].stamp < rows[k].stamp
    /\ \A k \in DOMAIN rows : rows[k].stamp <= last

\* Of the first n messages, files fs, tee and what is on the way tell everything; or
\* the files are of an earlier session and the tee and the way tell it anew.
Accounts(n, fs, tee, way, last) ==
    \/ Tells(Plain(Flat(fs) \o tee) \o way, n) /\ Stamped(Flat(fs) \o tee, last)
    \/ fs # <<>> /\ Tells(Plain(tee) \o way, n)

\* A lane that is whole.
WholeRows(rows) ==
    /\ Folded(DiffsOf(rows)) = Top(BookAfter(Len(archive)))
    /\ \A j, k \in DOMAIN rows : j < k =>
           rows[j].ts < rows[k].ts /\ rows[j].stamp < rows[k].stamp
    /\ \A k \in DOMAIN archive :
           Top(BookAfter(k)) # Top(BookAfter(k - 1)) =>
               \E j \in DOMAIN rows : rows[j].ts = archive[k].ts

\* Pushed to nobody yet.
Unsaid == IF Leashed THEN <<[ts |-> Now, diff |-> pump.diff]>> ELSE <<>>

\* Where things stand, named so that it can be spoken of after a step.
Stands(n, fs, tee, way, last) ==
    n = pump.at /\ fs = files /\ tee = live.tee /\ way = channel \o Unsaid /\ last = live.stamp

Book(n, fs, tee, way, last) ==
    /\ pump.book = BookAfter(n) /\ pump.emitted = ViewAfter(n)
    /\ pump.done => n = Len(archive) /\ ~ Leashed
    /\ fs # <<>> => Starts(fs[1][1].ts)
    /\ Feeding => ~ sentinel /\ Accounts(n, fs, tee, way, last)
    /\ main = "joining" =>
         /\ pump.done /\ channel = <<>> /\ tee = <<>>
         /\ Tells(Plain(Flat(fs)), n) /\ Stamped(Flat(fs), last)
    /\ sentinel => WholeRows(Flat(fs))

WholeInv == \E n, fs, tee, way, last : Stands(n, fs, tee, way, last) /\ Book(n, fs, tee, way, last)

\* The archive stays what it is, and what is said of it.
LEMMA SameArchive ==
    ASSUME archive' = archive
    PROVE  /\ \A n : BookAfter(n)' = BookAfter(n)
           /\ \A n : ViewAfter(n)' = ViewAfter(n)
           /\ \A t : Starts(t)' <=> Starts(t)
           /\ \A q, n : Tells(q, n)' <=> Tells(q, n)
           /\ \A n, fs, tee, way, last : Accounts(n, fs, tee, way, last)' <=> Accounts(n, fs, tee, way, last)
           /\ \A rows : WholeRows(rows)' <=> WholeRows(rows)
  <1>1. \A n : BookAfter(n)' = BookAfter(n)
    BY DEF BookAfter
  <1>2. \A n : ViewAfter(n)' = ViewAfter(n)
    BY <1>1 DEF ViewAfter
  <1>3. \A t : Starts(t)' <=> Starts(t)
    BY <1>2 DEF Starts
  <1>4. \A q, n : Tells(q, n)' <=> Tells(q, n)
    BY <1>2, <1>3 DEF Tells
  <1>5. \A n, fs, tee, way, last : Accounts(n, fs, tee, way, last)' <=> Accounts(n, fs, tee, way, last)
    BY <1>4 DEF Accounts
  <1>6. \A rows : WholeRows(rows)' <=> WholeRows(rows)
    BY <1>1 DEF WholeRows
  <1> QED
    BY <1>1, <1>2, <1>3, <1>4, <1>5, <1>6

\* Joining: named, so that the provers take the sequences whole.
Joins(s, t, u) == (s \o t) \o u = s \o (t \o u)
Extends(s, t, e) == Append(s \o t, e) = s \o Append(t, e)
Splits(s, e, t) == Append(s, e) \o t = s \o (<<e>> \o t)

\* Concatenation associates.
LEMMA JoinsAll ==
    ASSUME NEW S, NEW s \in Seq(S), NEW t \in Seq(S), NEW u \in Seq(S)
    PROVE  Joins(s, t, u)
  BY ConcatAssociative DEF Joins

\* An element appended to the second of two joined sequences is appended to both.
LEMMA ExtendsAll ==
    ASSUME NEW S, NEW s \in Seq(S), NEW t \in Seq(S), NEW e \in S
    PROVE  Extends(s, t, e)
  <1>1. \A q, x : Append(q, x) = q \o <<x>>
    OBVIOUS
  <1> QED
    BY <1>1 DEF Extends

\* An element moved from the front of one sequence to the end of another stays in order.
LEMMA SplitsAll ==
    ASSUME NEW S, NEW s \in Seq(S), NEW t \in Seq(S), NEW e \in S
    PROVE  Splits(s, e, t)
  <1>1. \A q, x : Append(q, x) = q \o <<x>>
    OBVIOUS
  <1>2. <<e>> \in Seq(S)
    OBVIOUS
  <1>3. Joins(s, <<e>>, t)
    BY <1>2, JoinsAll
  <1> QED
    BY <1>1, <1>3 DEF Splits, Joins

\* The parts of an account, typed.
LEMMA AccountTypes ==
    ASSUME NEW fs \in Seq(Seq(Row)), NEW tee \in Seq(Row), NEW way \in Seq(Emission)
    PROVE  /\ Flat(fs) \in Seq(Row) /\ Flat(fs) \o tee \in Seq(Row)
           /\ Plain(Flat(fs) \o tee) \in Seq(Emission) /\ Plain(tee) \in Seq(Emission)
           /\ Plain(Flat(fs) \o tee) \o way \in Seq(Emission) /\ Plain(tee) \o way \in Seq(Emission)
  <1>1. Flat(fs) \in Seq(Row)
    BY FlatType
  <1>2. Flat(fs) \o tee \in Seq(Row)
    BY <1>1, ConcatProperties
  <1>3. Plain(Flat(fs) \o tee) \in Seq(Emission) /\ Plain(tee) \in Seq(Emission)
    BY <1>2, PlainIs
  <1> QED
    BY <1>1, <1>2, <1>3, ConcatProperties

\* A message that says nothing of the view, and one that does.
LEMMA AccountsOn ==
    ASSUME NEW n \in Nat, NEW fs, NEW tee, NEW way, NEW last,
           Accounts(n, fs, tee, way, last), ViewAfter(n + 1) = ViewAfter(n)
    PROVE  Accounts(n + 1, fs, tee, way, last)
  BY TellsOn DEF Accounts

\* What the pump says next goes last on the way.
LEMMA AccountsMore ==
    ASSUME NEW n \in Nat, NEW fs \in Seq(Seq(Row)), NEW tee \in Seq(Row), NEW way \in Seq(Emission), NEW last,
           Accounts(n, fs, tee, way, last), n + 1 \in DOMAIN archive,
           archive \in Seq(Message), Ascends(archive), ViewAfter(n + 1) # ViewAfter(n),
           NEW e \in Emission, e.ts = archive[n + 1].ts, e.diff = Diff(ViewAfter(n), ViewAfter(n + 1))
    PROVE  Accounts(n + 1, fs, tee, Append(way, e), last)
  <1> DEFINE p == Plain(Flat(fs) \o tee)
             o == Plain(tee)
  <1>1. p \in Seq(Emission) /\ o \in Seq(Emission) /\ p \o way \in Seq(Emission) /\ o \o way \in Seq(Emission)
    BY AccountTypes
  <1> HIDE DEF p, o
  <1>2. Extends(p, way, e) /\ Extends(o, way, e)
    BY <1>1, ExtendsAll
  <1>3. Tells(p \o way, n) => Tells(p \o Append(way, e), n + 1)
    <2>1. Tells(p \o way, n) => Tells(Append(p \o way, e), n + 1)
      BY <1>1, TellsMore
    <2> QED
      BY <1>2, <2>1 DEF Extends
  <1>4. Tells(o \o way, n) => Tells(o \o Append(way, e), n + 1)
    <2>1. Tells(o \o way, n) => Tells(Append(o \o way, e), n + 1)
      BY <1>1, TellsMore
    <2> QED
      BY <1>2, <2>1 DEF Extends
  <1> QED
    BY <1>3, <1>4 DEF Accounts, p, o

\* A message off the way into the tee, stamped after everything before it.
LEMMA StampedMore ==
    ASSUME NEW rows \in Seq(Row), NEW r \in Row, NEW last \in Int, Stamped(rows, last), last < r.stamp
    PROVE  Stamped(Append(rows, r), r.stamp)
  <1> DEFINE all == Append(rows, r)
             m == Len(rows)
  <1>1. /\ m \in Nat /\ DOMAIN all = 1..(m + 1) /\ DOMAIN rows = 1..m /\ all[m + 1] = r
        /\ \A k \in 1..m : all[k] = rows[k] /\ rows[k] \in Row
    <2>1. all \in Seq(Row) /\ m \in Nat /\ Len(all) = m + 1 /\ all[m + 1] = r
      OBVIOUS
    <2>2. \A k \in 1..m : all[k] = rows[k] /\ rows[k] \in Row
      OBVIOUS
    <2> QED
      BY <2>1, <2>2
  <1> HIDE DEF all, m
  <1>2. r.stamp \in Int /\ \A k \in 1..m : rows[k].stamp \in Int /\ rows[k].stamp <= last
    BY <1>1 DEF Stamped, Row
  <1>3. \A k \in 1..m : rows[k].stamp < r.stamp
    BY <1>2
  <1>4. ASSUME NEW j \in 1..(m + 1), NEW k \in 1..(m + 1), j < k
        PROVE  all[j].stamp < all[k].stamp
    <2>1. j \in 1..m /\ all[j] = rows[j]
      BY <1>1, <1>4
    <2>2. CASE k \in 1..m
      BY <1>1, <1>4, <2>1, <2>2 DEF Stamped
    <2>3. CASE k = m + 1
      BY <1>1, <1>3, <2>1, <2>3
    <2> QED
      BY <1>1, <2>2, <2>3
  <1>5. ASSUME NEW k \in 1..(m + 1)
        PROVE  all[k].stamp <= r.stamp
    <2>1. CASE k \in 1..m
      BY <1>1, <1>2, <1>3, <2>1
    <2>2. CASE k = m + 1
      BY <1>1, <1>2, <2>2
    <2> QED
      BY <1>1, <2>1, <2>2
  <1>6. Stamped(all, r.stamp)
    BY <1>1, <1>4, <1>5 DEF Stamped
  <1> QED
    BY <1>6 DEF all

\* What Live takes off the way goes last in the tee, under a later stamp.
LEMMA AccountsIngest ==
    ASSUME NEW n, NEW fs \in Seq(Seq(Row)), NEW tee \in Seq(Row), NEW way \in Seq(Emission), NEW last \in Int,
           NEW e \in Emission, NEW r \in Row, r.ts = e.ts, r.diff = e.diff, last < r.stamp,
           Accounts(n, fs, tee, <<e>> \o way, last)
    PROVE  Accounts(n, fs, Append(tee, r), way, r.stamp)
  <1> DEFINE x == Flat(fs)
             p == Plain(x \o tee)
             o == Plain(tee)
  <1>1. x \in Seq(Row) /\ x \o tee \in Seq(Row) /\ p \in Seq(Emission) /\ o \in Seq(Emission)
    BY AccountTypes
  <1>2. Plain(Append(x \o tee, r)) = Append(p, [ts |-> r.ts, diff |-> r.diff])
        /\ Plain(Append(tee, r)) = Append(o, [ts |-> r.ts, diff |-> r.diff])
    BY <1>1, PlainAppend
  <1>3. e = [ts |-> r.ts, diff |-> r.diff]
    BY DEF Emission
  <1> HIDE DEF x, p, o
  <1>4. Splits(p, e, way) /\ Splits(o, e, way) /\ Extends(x, tee, r)
    BY <1>1, SplitsAll, ExtendsAll
  <1>5. Plain(x \o Append(tee, r)) = Append(p, e) /\ Plain(Append(tee, r)) = Append(o, e)
    BY <1>2, <1>3, <1>4 DEF Extends
  <1>6. /\ Plain(x \o Append(tee, r)) \o way = p \o (<<e>> \o way)
        /\ Plain(Append(tee, r)) \o way = o \o (<<e>> \o way)
    BY <1>4, <1>5 DEF Splits
  <1>7. Stamped(x \o tee, last) => Stamped(x \o Append(tee, r), r.stamp)
    <2>1. Stamped(x \o tee, last) => Stamped(Append(x \o tee, r), r.stamp)
      BY <1>1, StampedMore
    <2> QED
      BY <1>4, <2>1 DEF Extends
  <1> QED
    BY <1>6, <1>7 DEF Accounts, x, p, o

-----------------------------------------------------------------------------
(* The steps, and the account.                                             *)

\* What the types say of the places an account is of.
LEMMA Standing ==
    ASSUME AcquireInv, NEW n, NEW fs, NEW tee, NEW way, NEW last, Stands(n, fs, tee, way, last)
    PROVE  /\ n \in Nat /\ n <= Len(archive) /\ fs \in Seq(Seq(Row)) /\ tee \in Seq(Row)
           /\ way \in Seq(Emission) /\ last \in Int
           /\ channel \in Seq(Emission) /\ Unsaid \in Seq(Emission)
           /\ archive \in Seq(Message) /\ Ascends(archive)
           /\ DOMAIN archive = 1..Len(archive) /\ Len(archive) \in Nat
  <1>1. TypeOK /\ InFlight
    BY DEF AcquireInv
  <1>2. n \in Nat /\ fs \in Seq(Seq(Row)) /\ tee \in Seq(Row) /\ last \in Int /\ channel \in Seq(Emission)
    BY <1>1 DEF Stands, TypeOK, Pumps, Lives
  <1>3. archive \in Seq(Message) /\ Ascends(archive)
    BY <1>1, Messages
  <1>4. Unsaid \in Seq(Emission)
    <2>1. CASE Leashed
      <3>1. Now \in Nat /\ pump.diff \in View
        BY <1>1, <2>1, Messages DEF InFlight, Now, TypeOK, Pumps
      <3>2. [ts |-> Now, diff |-> pump.diff] \in Emission
        BY <3>1 DEF Emission
      <3> QED
        BY <2>1, <3>2 DEF Unsaid
    <2>2. CASE ~ Leashed
      BY <2>2 DEF Unsaid
    <2> QED
      BY <2>1, <2>2
  <1>5. way \in Seq(Emission)
    BY <1>2, <1>4, ConcatProperties DEF Stands
  <1> QED
    BY <1>1, <1>2, <1>3, <1>4, <1>5 DEF InFlight, Stands

\* A catalog nobody filled accounts for nothing.
LEMMA WholeInitially == ASSUME Init PROVE WholeInv
  <1>1. /\ main = "trades" /\ sentinel = FALSE /\ files = <<>> /\ pump.at = 0 /\ pump.book = NoLevels
        /\ pump.emitted = NoLevels /\ pump.done = FALSE
    BY DEF Init, NewPump
  <1>2. PICK n, fs, tee, way, last : Stands(n, fs, tee, way, last)
    BY DEF Stands
  <1>3. n = 0 /\ fs = <<>>
    BY <1>1, <1>2 DEF Stands
  <1>4. Book(n, fs, tee, way, last)
    BY <1>1, <1>3, BookAtFirst, ViewAtFirst DEF Book, Feeding
  <1> QED
    BY <1>2, <1>4 DEF WholeInv

\* A step that leaves the pump, the way and the tee alone.
LEMMA WholeSteady ==
    ASSUME WholeInv, UNCHANGED <<archive, pump, channel, files, sentinel>>,
           live'.tee = live.tee, live'.stamp = live.stamp,
           Feeding' => Feeding, main' = "joining" => main = "joining"
    PROVE  WholeInv'
  <1>1. PICK n, fs, tee, way, last : Stands(n, fs, tee, way, last) /\ Book(n, fs, tee, way, last)
    BY DEF WholeInv
  <1>2. Unsaid' = Unsaid /\ (Leashed' <=> Leashed)
    BY DEF Unsaid, Leashed, Now
  <1>3. Stands(n, fs, tee, way, last)'
    BY <1>1, <1>2 DEF Stands
  <1>4. Book(n, fs, tee, way, last)'
    BY <1>1, <1>2, SameArchive DEF Book
  <1> QED
    BY <1>3, <1>4 DEF WholeInv

\* A message folded in silence changes no view.
LEMMA WholeFold == ASSUME AcquireInv, WholeInv, PumpFold PROVE WholeInv'
  <1>1. PICK n, fs, tee, way, last : Stands(n, fs, tee, way, last) /\ Book(n, fs, tee, way, last)
    BY DEF WholeInv
  <1> DEFINE m == archive[pump.at + 1]
             book == Apply(IF m.snapshot THEN NoLevels ELSE pump.book, m.writes)
             diff == Diff(pump.emitted, Top(book))
             new == [pump EXCEPT !.at = @ + 1, !.book = book, !.diff = diff,
                                 !.emitted = IF diff = NoLevels THEN @ ELSE Top(book)]
             e == [ts |-> archive[n + 1].ts, diff |-> diff]
  <1>2. /\ Feeding /\ ~ pump.done /\ ~ Leashed /\ pump.at < Len(archive) /\ pump' = new
        /\ UNCHANGED <<archive, main, sentinel, files, channel, live>>
    BY DEF PumpFold
  <1>3. /\ n \in Nat /\ n = pump.at /\ fs \in Seq(Seq(Row)) /\ tee \in Seq(Row)
        /\ way \in Seq(Emission) /\ channel \in Seq(Emission)
        /\ archive \in Seq(Message) /\ Ascends(archive) /\ n + 1 \in DOMAIN archive
    BY <1>1, <1>2, Standing DEF Stands
  <1>4. book = BookAfter(n + 1)
    BY <1>1, <1>3, BookGrows DEF Book
  <1>5. Top(book) = ViewAfter(n + 1)
    BY <1>4 DEF ViewAfter
  <1>6. diff = Diff(ViewAfter(n), ViewAfter(n + 1))
    BY <1>1, <1>5 DEF Book
  <1>7. diff = NoLevels <=> ViewAfter(n) = ViewAfter(n + 1)
    BY <1>6, DiffLeads, ViewPositive
  <1>8. diff \in View
    <2>1. pump.emitted \in View /\ pump.book \in View /\ m.writes \in View
      BY <1>3, Messages DEF AcquireInv, TypeOK, Pumps
    <2> QED
      BY <2>1, NoView, ApplyView, TopView, DiffView
  <1>9. pump \in Pumps
    BY DEF AcquireInv, TypeOK
  <1> HIDE DEF book, diff
  <1>10. /\ pump'.at = n + 1 /\ pump'.book = BookAfter(n + 1) /\ pump'.diff = diff
         /\ pump'.emitted = ViewAfter(n + 1) /\ pump'.done = pump.done
    <2>1. /\ pump'.at = n + 1 /\ pump'.book = book /\ pump'.diff = diff /\ pump'.done = pump.done
          /\ pump'.emitted = IF diff = NoLevels THEN pump.emitted ELSE Top(book)
      BY <1>2, <1>3, <1>9 DEF Pumps
    <2> QED
      BY <1>1, <1>4, <1>5, <1>7, <2>1 DEF Book
  <1>11. way = channel
    <2>1. channel \o <<>> = channel
      BY <1>3
    <2> QED
      BY <1>1, <1>2, <2>1 DEF Stands, Unsaid
  <1> HIDE DEF new
  <1>12. main # "joining"
    BY <1>1, <1>2 DEF Book
  <1>13. Accounts(n, fs, tee, way, last) /\ ~ sentinel
    BY <1>1, <1>2 DEF Book
  <1>14. CASE diff = NoLevels
    <2>1. ~ Leashed'
      BY <1>10, <1>14 DEF Leashed
    <2>2. Unsaid' = <<>>
      BY <2>1 DEF Unsaid
    <2>3. channel \o <<>> = channel
      BY <1>3
    <2>4. Stands(n + 1, fs, tee, way, last)'
      BY <1>1, <1>2, <1>10, <1>11, <2>2, <2>3 DEF Stands
    <2>5. Accounts(n + 1, fs, tee, way, last)
      BY <1>3, <1>7, <1>13, <1>14, AccountsOn
    <2>6. Book(n + 1, fs, tee, way, last)'
      BY <1>1, <1>2, <1>10, <1>12, <1>13, <2>5, SameArchive DEF Book, Feeding
    <2> QED
      BY <2>4, <2>6 DEF WholeInv
  <1>15. CASE diff # NoLevels
    <2>0. e \in Emission /\ e.ts = archive[n + 1].ts /\ e.diff = diff
      <3>1. archive[n + 1].ts \in Nat
        BY <1>3, Messages DEF AcquireInv
      <3> QED
        BY <1>8, <3>1 DEF Emission
    <2>1. Leashed'
      BY <1>10, <1>15 DEF Leashed
    <2>2. Unsaid' = <<e>>
      BY <1>2, <1>10, <2>1 DEF Unsaid, Now
    <2> HIDE DEF e
    <2>3. \A q : Append(q, e) = q \o <<e>>
      OBVIOUS
    <2>4. Accounts(n + 1, fs, tee, Append(way, e), last)
      BY <1>3, <1>6, <1>7, <1>13, <1>15, <2>0, AccountsMore
    <2>5. PICK along : along = Append(way, e)
      OBVIOUS
    <2>6. Stands(n + 1, fs, tee, along, last)'
      <3>1. channel' = channel /\ along = channel \o <<e>>
        BY <1>2, <1>11, <2>3, <2>5
      <3>2. along = channel' \o Unsaid'
        BY <2>2, <3>1
      <3> QED
        BY <1>1, <1>2, <1>10, <3>2 DEF Stands
    <2>7. Book(n + 1, fs, tee, along, last)'
      BY <1>1, <1>2, <1>10, <1>12, <1>13, <2>4, <2>5, SameArchive DEF Book, Feeding
    <2> QED
      BY <2>6, <2>7 DEF WholeInv
  <1> QED
    BY <1>14, <1>15

\* A push moves the unsaid to the channel.
LEMMA WholePush == ASSUME AcquireInv, WholeInv, PumpPush PROVE WholeInv'
  <1>1. PICK n, fs, tee, way, last : Stands(n, fs, tee, way, last) /\ Book(n, fs, tee, way, last)
    BY DEF WholeInv
  <1> DEFINE e == [ts |-> Now, diff |-> pump.diff]
  <1>2. /\ Leashed /\ channel' = Append(channel, e) /\ pump' = [pump EXCEPT !.diff = NoLevels]
        /\ UNCHANGED <<archive, main, sentinel, files, live>>
    BY DEF PumpPush
  <1>3. Unsaid = <<e>>
    BY <1>2 DEF Unsaid
  <1>4. pump \in Pumps
    BY DEF AcquireInv, TypeOK
  <1>5. /\ pump'.at = pump.at /\ pump'.book = pump.book /\ pump'.emitted = pump.emitted
        /\ pump'.done = pump.done /\ ~ Leashed'
    BY <1>2, <1>4 DEF Leashed, Pumps
  <1>6. Unsaid' = <<>>
    BY <1>5 DEF Unsaid
  <1>7. e \in Emission
    <2>1. Leashed /\ pump.at \in DOMAIN archive /\ pump.diff \in View
      BY <1>2 DEF AcquireInv, InFlight, TypeOK, Pumps
    <2> QED
      BY <2>1, Messages DEF AcquireInv, Emission, Now
  <1> HIDE DEF e
  <1>8. channel' = way /\ channel' \o <<>> = way
    <2>1. \A q : Append(q, e) = q \o <<e>>
      OBVIOUS
    <2>2. way = channel \o <<e>> /\ channel' = channel \o <<e>>
      BY <1>1, <1>2, <1>3, <2>1 DEF Stands
    <2>3. way \in Seq(Emission)
      BY <1>1, Standing
    <2>4. way \o <<>> = way
      BY <2>3
    <2> QED
      BY <2>2, <2>4
  <1>9. Stands(n, fs, tee, way, last)'
    BY <1>1, <1>2, <1>5, <1>6, <1>8 DEF Stands
  <1>10. main # "joining" /\ ~ pump.done
    BY <1>1, <1>2 DEF Book
  <1>11. Book(n, fs, tee, way, last)'
    BY <1>1, <1>2, <1>5, <1>10, SameArchive DEF Book, Feeding
  <1> QED
    BY <1>9, <1>11 DEF WholeInv

\* A pump ends with nothing unsaid and the archive read.
LEMMA WholeEnd == ASSUME AcquireInv, WholeInv, PumpEnd PROVE WholeInv'
  <1>1. PICK n, fs, tee, way, last : Stands(n, fs, tee, way, last) /\ Book(n, fs, tee, way, last)
    BY DEF WholeInv
  <1>2. /\ ~ Leashed /\ ~ pump.done /\ pump.at = Len(archive) /\ pump' = [pump EXCEPT !.done = TRUE]
        /\ UNCHANGED <<archive, main, sentinel, files, channel, live>>
    BY DEF PumpEnd
  <1>3. pump \in Pumps
    BY DEF AcquireInv, TypeOK
  <1>4. /\ pump'.at = pump.at /\ pump'.book = pump.book /\ pump'.emitted = pump.emitted
        /\ pump'.diff = pump.diff
    BY <1>2, <1>3 DEF Pumps
  <1>5. Unsaid' = Unsaid /\ ~ Leashed'
    BY <1>2, <1>4 DEF Unsaid, Leashed, Now
  <1>6. Stands(n, fs, tee, way, last)'
    BY <1>1, <1>2, <1>4, <1>5 DEF Stands
  <1>7. main # "joining" /\ n = Len(archive)
    BY <1>1, <1>2 DEF Book, Stands
  <1>8. Book(n, fs, tee, way, last)'
    BY <1>1, <1>2, <1>4, <1>5, <1>7, SameArchive DEF Book, Feeding
  <1> QED
    BY <1>6, <1>8 DEF WholeInv

\* A stamp is not below the clock.
LEMMA MaxBounds == ASSUME NEW a \in Int, NEW b \in Int PROVE b <= Max({a, b})
  <1>1. \E x \in {a, b} : \A y \in {a, b} : x >= y
    OBVIOUS
  <1> QED
    BY <1>1 DEF Max

\* Live takes a message from the way to the tee.
LEMMA WholeIngest == ASSUME AcquireInv, WholeInv, Ingest PROVE WholeInv'
  <1>1. PICK n, fs, tee, way, last : Stands(n, fs, tee, way, last) /\ Book(n, fs, tee, way, last)
    BY DEF WholeInv
  <1> DEFINE stamp == Max({clock.pump, live.stamp + 1})
             row == [ts |-> Head(channel).ts, diff |-> Head(channel).diff, stamp |-> stamp]
  <1>2. /\ main = "draining" /\ channel # <<>> /\ channel' = Tail(channel)
        /\ live' = [live EXCEPT !.stamp = stamp, !.buffer = Append(@, row), !.tee = Append(@, row)]
        /\ UNCHANGED <<archive, main, sentinel, files, pump>>
    BY DEF Ingest
  <1>3. /\ fs \in Seq(Seq(Row)) /\ tee \in Seq(Row) /\ way \in Seq(Emission) /\ last \in Int
        /\ channel \in Seq(Emission) /\ Unsaid \in Seq(Emission)
    BY <1>1, Standing
  <1>4. stamp \in Int /\ last < stamp
    <2>1. clock.pump \in Int /\ last + 1 \in Int /\ last = live.stamp
      BY <1>1, <1>3 DEF Stands, AcquireInv, TypeOK
    <2>2. last + 1 <= stamp /\ stamp \in Int
      BY <2>1, MaxOfTwo, MaxBounds
    <2> HIDE DEF stamp
    <2> QED
      BY <1>3, <2>2
  <1> HIDE DEF stamp
  <1>5. PICK e : e = Head(channel)
    OBVIOUS
  <1>6. e \in Emission /\ channel = <<e>> \o channel' /\ channel' \in Seq(Emission)
    BY <1>2, <1>3, <1>5
  <1>7. row \in Row /\ row.ts = e.ts /\ row.diff = e.diff /\ row.stamp = stamp
    BY <1>4, <1>5, <1>6 DEF Row, Emission
  <1> HIDE DEF row
  <1>8. PICK r, more, along : r = row /\ more = Append(tee, row) /\ along = channel' \o Unsaid
    OBVIOUS
  <1>9. live'.tee = more /\ live'.stamp = r.stamp
    <2>1. live \in Lives
      BY DEF AcquireInv, TypeOK
    <2> QED
      BY <1>1, <1>2, <1>7, <1>8, <2>1 DEF Lives, Stands
  <1>10. way = <<e>> \o along
    <2>1. <<e>> \in Seq(Emission)
      BY <1>6
    <2>2. Joins(<<e>>, channel', Unsaid)
      BY <1>3, <1>6, <2>1, JoinsAll
    <2> QED
      BY <1>1, <1>6, <1>8, <2>2 DEF Stands, Joins
  <1>11. along \in Seq(Emission)
    BY <1>3, <1>6, <1>8, ConcatProperties
  <1>12. Accounts(n, fs, more, along, r.stamp)
    <2>1. Accounts(n, fs, tee, <<e>> \o along, last)
      BY <1>1, <1>2, <1>10 DEF Book, Feeding
    <2>2. r \in Row /\ r.ts = e.ts /\ r.diff = e.diff /\ last < r.stamp /\ more = Append(tee, r)
      BY <1>4, <1>7, <1>8
    <2> QED
      BY <1>3, <1>6, <1>11, <2>1, <2>2, AccountsIngest
  <1>13. Unsaid' = Unsaid /\ (Leashed' <=> Leashed)
    BY <1>2 DEF Unsaid, Leashed, Now
  <1>14. PICK s : s = r.stamp
    OBVIOUS
  <1>15. Stands(n, fs, more, along, s)'
    BY <1>1, <1>2, <1>8, <1>9, <1>13, <1>14 DEF Stands
  <1>16. Book(n, fs, more, along, s)'
    BY <1>1, <1>2, <1>12, <1>13, <1>14, SameArchive DEF Book, Feeding
  <1> QED
    BY <1>15, <1>16 DEF WholeInv

\* The first row told is the archive's first telling message.
LEMMA StartsTheRows ==
    ASSUME NEW rows \in Seq(Row), rows # <<>>, NEW way \in Seq(Emission), NEW n,
           Tells(Plain(rows) \o way, n)
    PROVE  Starts(rows[1].ts)
  <1> DEFINE p == Plain(rows)
             q == p \o way
  <1>1. /\ p \in Seq(Emission) /\ Len(p) = Len(rows) /\ Len(rows) \in Nat /\ Len(rows) > 0
        /\ p[1].ts = rows[1].ts
    <2>1. Len(rows) \in Nat /\ Len(rows) > 0
      OBVIOUS
    <2> QED
      BY <2>1, PlainIs
  <1> HIDE DEF p
  <1>2. Len(q) = Len(p) + Len(way) /\ q[1] = p[1] /\ Len(way) \in Nat
    BY <1>1
  <1>3. q # <<>>
    <2>1. Len(<<>>) = 0
      OBVIOUS
    <2> HIDE DEF q
    <2> QED
      BY <1>1, <1>2, <2>1
  <1>4. Tells(q, n)
    BY DEF q, p
  <1> HIDE DEF q
  <1> QED
    BY <1>1, <1>2, <1>3, <1>4 DEF Tells

\* A tee that meets no file is of the session that wrote them all: the first batch
\* of a second session would begin where the lane does.
LEMMA FiledWhole ==
    ASSUME NEW n, NEW fs \in Seq(Seq(Row)), NEW tee \in Seq(Row), NEW way \in Seq(Emission), NEW last,
           Accounts(n, fs, tee, way, last), tee # <<>>, Ascends(tee), archive \in Seq(Message),
           fs # <<>> => Starts(fs[1][1].ts),
           \A k \in DOMAIN fs : fs[k] # <<>> /\ Ascends(fs[k]) /\ Span(fs[k]) \cap Span(tee) = {}
    PROVE  /\ Append(fs, tee) \in Seq(Seq(Row)) /\ Append(fs, tee) # <<>> /\ Starts(Append(fs, tee)[1][1].ts)
           /\ Tells(Plain(Flat(Append(fs, tee))) \o way, n) /\ Stamped(Flat(Append(fs, tee)), last)
  <1> DEFINE gs == Append(fs, tee)
  <1>1. /\ gs \in Seq(Seq(Row)) /\ Len(gs) = Len(fs) + 1 /\ Len(fs) \in Nat
        /\ fs = <<>> => gs[1] = tee
        /\ fs # <<>> => gs[1] = fs[1] /\ 1 \in DOMAIN fs /\ fs[1] \in Seq(Row)
    OBVIOUS
  <1>2. 1 \in DOMAIN tee
    OBVIOUS
  <1>3. Flat(gs) = Flat(fs) \o tee
    BY FlatAppend
  <1> HIDE DEF gs
  <1>4. gs # <<>>
    <2>1. Len(<<>>) = 0
      OBVIOUS
    <2> QED
      BY <1>1, <2>1
  <1>5. ASSUME fs # <<>>, Tells(Plain(tee) \o way, n)
        PROVE  FALSE
    <2>1. Starts(tee[1].ts) /\ Starts(fs[1][1].ts)
      BY <1>5, StartsTheRows
    <2>2. tee[1].ts = fs[1][1].ts
      BY <2>1, StartsOnce
    <2>3. tee[1].ts \in Span(tee)
      BY <1>2, Within
    <2>4. fs[1] \in Seq(Row) /\ fs[1] # <<>> /\ Ascends(fs[1]) /\ Span(fs[1]) \cap Span(tee) = {}
      BY <1>1, <1>5
    <2>5. 1 \in DOMAIN fs[1]
      BY <2>4
    <2>6. fs[1][1].ts \in Span(fs[1])
      BY <2>4, <2>5, Within
    <2> QED
      BY <2>2, <2>3, <2>4, <2>6
  <1>6. Tells(Plain(Flat(fs) \o tee) \o way, n) /\ Stamped(Flat(fs) \o tee, last)
    BY <1>5 DEF Accounts
  <1>7. Starts(gs[1][1].ts)
    <2>1. CASE fs = <<>>
      <3>1. Flat(fs) \o tee = tee
        <4>1. <<>> \o tee = tee
          OBVIOUS
        <4> QED
          BY <2>1, <4>1, FlatEmpty
      <3>2. Starts(tee[1].ts)
        BY <1>6, <3>1, StartsTheRows
      <3> QED
        BY <1>1, <2>1, <3>2
    <2>2. CASE fs # <<>>
      BY <1>1, <2>2
    <2> QED
      BY <2>1, <2>2
  <1> QED
    BY <1>1, <1>3, <1>4, <1>6, <1>7 DEF gs

\* All that is on the way is filed: there is nothing left of an earlier session's
\* files to tell anew, where there is anything to tell.
LEMMA NothingToFile ==
    ASSUME NEW fs \in Seq(Seq(Row)), NEW last, archive \in Seq(Message),
           Accounts(Len(archive), fs, <<>>, <<>>, last), fs # <<>> => Starts(fs[1][1].ts)
    PROVE  Tells(Plain(Flat(fs)), Len(archive)) /\ Stamped(Flat(fs), last)
  <1>1. /\ Flat(fs) \in Seq(Row) /\ Plain(Flat(fs)) \in Seq(Emission)
        /\ Flat(fs) \o <<>> = Flat(fs) /\ Plain(Flat(fs)) \o <<>> = Plain(Flat(fs))
    <2>1. <<>> \in Seq(Row) /\ <<>> \in Seq(Emission)
      OBVIOUS
    <2>2. Flat(fs) \in Seq(Row)
      BY FlatType
    <2>3. Plain(Flat(fs)) \in Seq(Emission)
      BY <2>2, PlainIs
    <2> QED
      BY <2>2, <2>3
  <1>2. ASSUME fs # <<>>, Tells(Plain(<<>>) \o <<>>, Len(archive))
        PROVE  FALSE
    <2>1. Plain(<<>>) \o <<>> = <<>>
      <3>1. <<>> \o <<>> = <<>>
        OBVIOUS
      <3> QED
        BY <3>1, PlainEmpty
    <2>2. \A k \in 0..Len(archive) : ViewAfter(k) = NoLevels
      BY <1>2, <2>1 DEF Tells
    <2>3. PICK k \in DOMAIN archive : ViewAfter(k) # NoLevels
      BY <1>2 DEF Starts
    <2>4. k \in 0..Len(archive)
      OBVIOUS
    <2> QED
      BY <2>2, <2>3, <2>4
  <1> QED
    BY <1>1, <1>2 DEF Accounts

\* A batch is filed, or its file refused and the session over.
LEMMA WholeRotate ==
    ASSUME AcquireInv, WholeInv, main = "draining", NEW next \in {"draining", "joining"},
           Rotated(next), live' = [live EXCEPT !.tee = <<>>],
           UNCHANGED <<archive, sentinel, pump, channel>>,
           next = "joining" => pump.done /\ channel = <<>>
    PROVE  WholeInv'
  <1>1. PICK n, fs, tee, way, last : Stands(n, fs, tee, way, last) /\ Book(n, fs, tee, way, last)
    BY DEF WholeInv
  <1>2. /\ n \in Nat /\ fs \in Seq(Seq(Row)) /\ tee \in Seq(Row)
        /\ way \in Seq(Emission) /\ last \in Int /\ archive \in Seq(Message)
    BY <1>1, Standing
  <1>3. live'.tee = <<>> /\ live'.stamp = live.stamp
    BY DEF AcquireInv, TypeOK, Lives
  <1>4. Unsaid' = Unsaid /\ (Leashed' <=> Leashed)
    BY DEF Unsaid, Leashed, Now
  <1>5. Accounts(n, fs, tee, way, last) /\ ~ sentinel
    BY <1>1 DEF Book, Feeding
  <1>6. next = "joining" => way = <<>> /\ n = Len(archive)
    <2>1. <<>> \o <<>> = <<>>
      OBVIOUS
    <2> QED
      BY <1>1, <2>1 DEF Stands, Book, Unsaid
  <1>7. CASE main' = "panicked" /\ files' = files
    <2>1. Stands(n, fs, <<>>, way, last)'
      BY <1>1, <1>3, <1>4, <1>7 DEF Stands
    <2>2. Book(n, fs, <<>>, way, last)'
      BY <1>1, <1>4, <1>7, SameArchive DEF Book, Feeding
    <2> QED
      BY <2>1, <2>2 DEF WholeInv
  <1>8. CASE tee = <<>> /\ main' = next /\ files' = files
    <2>1. Stands(n, fs, tee, way, last)'
      BY <1>1, <1>3, <1>4, <1>8 DEF Stands
    <2>2. next = "joining" => Tells(Plain(Flat(fs)), n) /\ Stamped(Flat(fs), last)
      <3>1. fs # <<>> => Starts(fs[1][1].ts)
        BY <1>1 DEF Book
      <3> QED
        BY <1>2, <1>5, <1>6, <1>8, <3>1, NothingToFile
    <2>3. Book(n, fs, tee, way, last)'
      BY <1>1, <1>4, <1>5, <1>8, <2>2, SameArchive DEF Book, Feeding
    <2> QED
      BY <2>1, <2>3 DEF WholeInv
  <1>9. CASE tee # <<>> /\ ~ Refused /\ main' = next /\ files' = Append(files, tee)
    <2>1. PICK gs : gs = Append(fs, tee)
      OBVIOUS
    <2>2. /\ \A k \in DOMAIN fs : fs[k] # <<>> /\ Ascends(fs[k]) /\ Span(fs[k]) \cap Span(tee) = {}
          /\ Ascends(tee)
      BY <1>1, <1>9 DEF Refused, Stands, AcquireInv, FilesApart, InFlight
    <2>3. fs # <<>> => Starts(fs[1][1].ts)
      BY <1>1 DEF Book
    <2>4. /\ gs \in Seq(Seq(Row)) /\ gs # <<>> /\ Starts(gs[1][1].ts)
          /\ Tells(Plain(Flat(gs)) \o way, n) /\ Stamped(Flat(gs), last)
      BY <1>2, <1>5, <1>9, <2>1, <2>2, <2>3, FiledWhole
    <2>5. /\ Flat(gs) \o <<>> = Flat(gs)
          /\ Plain(Flat(gs)) \o <<>> = Plain(Flat(gs))
      <3>1. Flat(gs) \in Seq(Row)
        BY <2>4, FlatType
      <3>2. Plain(Flat(gs)) \in Seq(Emission)
        BY <3>1, PlainIs
      <3> QED
        BY <3>1, <3>2
    <2>6. Accounts(n, gs, <<>>, way, last)
      BY <2>4, <2>5 DEF Accounts
    <2>7. Stands(n, gs, <<>>, way, last)'
      BY <1>1, <1>3, <1>4, <1>9, <2>1 DEF Stands
    <2>8. next = "joining" => Tells(Plain(Flat(gs)), n)
      BY <1>6, <2>4, <2>5
    <2>9. Book(n, gs, <<>>, way, last)'
      BY <1>1, <1>4, <1>5, <1>9, <2>4, <2>6, <2>8, SameArchive DEF Book, Feeding
    <2> QED
      BY <2>7, <2>9 DEF WholeInv
  <1> QED
    BY <1>1, <1>7, <1>8, <1>9 DEF Rotated, Stands

\* What tells everything is the whole lane.
LEMMA ToldIsWhole ==
    ASSUME NEW rows \in Seq(Row), NEW last, archive \in Seq(Message),
           Tells(Plain(rows), Len(archive)), Stamped(rows, last)
    PROVE  WholeRows(rows)
  <1>1. /\ DOMAIN rows = 1..Len(rows) /\ DOMAIN Plain(rows) = 1..Len(rows)
        /\ \A k \in 1..Len(rows) : Plain(rows)[k].ts = rows[k].ts /\ Plain(rows)[k].diff = rows[k].diff
    BY PlainIs DEF Plain
  <1>2. DiffsOf(Plain(rows)) = DiffsOf(rows)
    <2>1. [k \in 1..Len(rows) |-> Plain(rows)[k].diff] = [k \in 1..Len(rows) |-> rows[k].diff]
      BY <1>1, Zenon
    <2> QED
      BY <1>1, <2>1 DEF DiffsOf
  <1>3. DOMAIN archive = 1..Len(archive)
    OBVIOUS
  <1>4. Folded(DiffsOf(rows)) = Top(BookAfter(Len(archive)))
    BY <1>2 DEF Tells, ViewAfter
  <1>5. \A j, k \in DOMAIN rows : j < k =>
          rows[j].ts < rows[k].ts /\ rows[j].stamp < rows[k].stamp
    BY <1>1 DEF Tells, Ascends, Stamped
  <1>6. \A k \in DOMAIN archive :
          Top(BookAfter(k)) # Top(BookAfter(k - 1)) => \E j \in DOMAIN rows : rows[j].ts = archive[k].ts
    <2> SUFFICES ASSUME NEW k \in DOMAIN archive, Top(BookAfter(k)) # Top(BookAfter(k - 1))
                 PROVE  \E j \in DOMAIN rows : rows[j].ts = archive[k].ts
      OBVIOUS
    <2>1. ViewAfter(k) # ViewAfter(k - 1)
      BY DEF ViewAfter
    <2>2. PICK j \in DOMAIN Plain(rows) : Plain(rows)[j].ts = archive[k].ts
      BY <1>3, <2>1 DEF Tells
    <2> QED
      BY <1>1, <2>2
  <1> QED
    BY <1>4, <1>5, <1>6 DEF WholeRows

\* The sentinel is written after the pump ended and everything was filed.
LEMMA WholeJoin == ASSUME AcquireInv, WholeInv, Join PROVE WholeInv'
  <1>1. PICK n, fs, tee, way, last : Stands(n, fs, tee, way, last) /\ Book(n, fs, tee, way, last)
    BY DEF WholeInv
  <1>2. /\ main = "joining" /\ sentinel' = TRUE /\ main' = "oi"
        /\ UNCHANGED <<archive, files, pump, channel, live>>
    BY DEF Join
  <1>3. fs \in Seq(Seq(Row)) /\ archive \in Seq(Message)
    BY <1>1, Standing
  <1>4. Tells(Plain(Flat(fs)), Len(archive)) /\ Stamped(Flat(fs), last)
    BY <1>1, <1>2 DEF Book
  <1>5. WholeRows(Flat(fs))
    BY <1>3, <1>4, FlatType, ToldIsWhole
  <1>6. Unsaid' = Unsaid /\ (Leashed' <=> Leashed)
    BY <1>2 DEF Unsaid, Leashed, Now
  <1>7. Stands(n, fs, tee, way, last)'
    BY <1>1, <1>2, <1>6 DEF Stands
  <1>8. Book(n, fs, tee, way, last)'
    BY <1>1, <1>2, <1>5, <1>6, SameArchive DEF Book, Feeding
  <1> QED
    BY <1>7, <1>8 DEF WholeInv

\* ensure_book begins the lane anew.
LEMMA WholeBook == ASSUME AcquireInv, WholeInv, EnsureBook PROVE WholeInv'
  <1>1. PICK n, fs, tee, way, last : Stands(n, fs, tee, way, last) /\ Book(n, fs, tee, way, last)
    BY DEF WholeInv
  <1>2. /\ main' = IF sentinel THEN "oi" ELSE "draining"
        /\ pump' = NewPump /\ channel' = <<>> /\ live' = NewLive
        /\ UNCHANGED <<archive, sentinel, files>>
    BY DEF EnsureBook
  <1>3. /\ pump'.at = 0 /\ pump'.book = NoLevels /\ pump'.emitted = NoLevels
        /\ pump'.diff = NoLevels /\ pump'.done = FALSE
        /\ live'.tee = <<>> /\ live'.stamp = 0
    BY <1>2 DEF NewPump, NewLive
  <1>4. ~ Leashed' /\ Unsaid' = <<>>
    BY <1>3 DEF Leashed, Unsaid
  <1>5. Stands(0, fs, <<>>, <<>>, 0)'
    <2>1. <<>> \o <<>> = <<>>
      OBVIOUS
    <2> QED
      BY <1>1, <1>2, <1>3, <1>4, <2>1 DEF Stands
  <1>6. Accounts(0, fs, <<>>, <<>>, 0)
    <2>1. Plain(<<>>) \o <<>> = <<>> /\ <<>> \o <<>> = <<>>
      <3>1. <<>> \o <<>> = <<>>
        OBVIOUS
      <3> QED
        BY <3>1, PlainEmpty
    <2>2. Tells(Plain(<<>>) \o <<>>, 0)
      BY <2>1, TellsNothing
    <2>3. CASE fs = <<>>
      <3>1. Flat(fs) \o <<>> = <<>>
        BY <2>1, <2>3, FlatEmpty
      <3>2. Stamped(<<>>, 0)
        <4>1. DOMAIN <<>> = {}
          OBVIOUS
        <4> QED
          BY <4>1 DEF Stamped
      <3> QED
        BY <2>2, <3>1, <3>2 DEF Accounts
    <2>4. CASE fs # <<>>
      BY <2>2, <2>4 DEF Accounts
    <2> QED
      BY <2>3, <2>4
  <1>7. Book(0, fs, <<>>, <<>>, 0)'
    BY <1>1, <1>2, <1>3, <1>4, <1>6, BookAtFirst, ViewAtFirst, SameArchive DEF Book, Feeding
  <1> QED
    BY <1>5, <1>7 DEF WholeInv

\* Every step keeps the lane accounted for.
LEMMA WholeSteps == AcquireInv /\ WholeInv /\ [Next]_vars => WholeInv'
  <1> SUFFICES ASSUME AcquireInv, WholeInv, [Next]_vars PROVE WholeInv'
    OBVIOUS
  <1>1. CASE Pump
    BY <1>1, WholeFold, WholePush, WholeEnd DEF Pump
  <1>2. CASE Ingest
    BY <1>2, WholeIngest
  <1>3. CASE Consume
    <2>1. UNCHANGED <<archive, main, pump, channel, files, sentinel>>
      BY <1>3 DEF Consume
    <2>2. live'.tee = live.tee /\ live'.stamp = live.stamp
      BY <1>3 DEF Consume, AcquireInv, TypeOK, Lives
    <2>3. Feeding' => Feeding
      BY <2>1 DEF Feeding
    <2> QED
      BY <2>1, <2>2, <2>3, WholeSteady
  <1>4. CASE Rotate
    BY <1>4, WholeRotate DEF Rotate
  <1>5. CASE Drained
    BY <1>5, WholeRotate DEF Drained
  <1>6. CASE Join
    BY <1>6, WholeJoin
  <1>7. CASE EnsureBook
    BY <1>7, WholeBook
  <1>8. CASE EnsureTrades \/ EnsureOi \/ EnsureMc \/ Kill \/ Start \/ UNCHANGED vars
    <2>1. UNCHANGED <<archive, pump, channel, files, sentinel, live>>
      BY <1>8 DEF EnsureTrades, EnsureOi, EnsureMc, Readings, Kill, Start, vars
    <2>2. main' = main \/ main' \notin {"draining", "joining"}
      <3>1. CASE EnsureTrades
        BY <3>1 DEF EnsureTrades, SkipDay, FailDay, CreateDay, CloseDay, TradesDone
      <3>2. CASE EnsureOi \/ EnsureMc \/ Kill \/ Start \/ UNCHANGED vars
        BY <3>2 DEF EnsureOi, EnsureMc, Readings, Kill, Start, vars
      <3> QED
        BY <1>8, <3>1, <3>2
    <2>3. Feeding' => Feeding
      BY <2>2 DEF Feeding
    <2> QED
      BY <2>1, <2>2, <2>3, WholeSteady
  <1> QED
    BY <1>1, <1>2, <1>3, <1>4, <1>5, <1>6, <1>7, <1>8 DEF Next, Feed, Ensure

-----------------------------------------------------------------------------

\* Where the sentinel stands (written once the pump is joined, ensure_lanes of
\* examples/spl), the files of the book lane hold one whole session: their rows fold
\* to the view of the archive's last message, in the order of the venue and of
\* arrival, and every message that moved the view has its row; and a session begun
\* over the files of a killed one never comes to write it.
THEOREM ASentinelIsAWholeLane == Spec => []SentinelMeansWhole
  <1>1. Init => WholeInv
    BY WholeInitially
  <1>2. AcquireInv /\ WholeInv /\ [Next]_vars => WholeInv'
    BY WholeSteps
  <1>3. WholeInv => SentinelMeansWhole
    <2> SUFFICES ASSUME WholeInv, sentinel PROVE SentinelMeansWhole
      BY DEF SentinelMeansWhole
    <2>1. PICK n, fs, tee, way, last : Stands(n, fs, tee, way, last) /\ Book(n, fs, tee, way, last)
      BY DEF WholeInv
    <2>2. WholeRows(Flat(fs))
      BY <2>1 DEF Book
    <2>3. Flat(fs) = Recorded
      BY <2>1, Zenon DEF Stands, Flat, Recorded
    <2> QED
      BY <2>2, <2>3 DEF WholeRows, SentinelMeansWhole
  <1> QED
    BY <1>1, <1>2, <1>3, AcquireInvariance, PTL DEF Spec
=============================================================================
