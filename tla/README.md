# trading_data in TLA+

`trading_data` records what venues say (trades, order-book messages, open
interest, market cap), keeps it as parquet lanes, and drives a graph of
derivations with it, live or replayed, so that both runs see *the same steps in
the same order*.  What makes a backtest mean anything is order, state that
sleeps and wakes, derivatives that are of what ran, and what survives a
session: this project models those, checks them with TLC and proves the central
ones with TLAPS.

Paths below leave out `src/` at their front.  `sync` is
`trading_data_persistence/src/sync/mod.rs`, `book` is
`trading_data_core/src/book.rs`, `dag` is `trading_data_dag/src/lib.rs`,
`resolve` and `demand` are in `trading_data_macros/src`, `spl` is `examples/spl/src`.

## 1. Inventory

| Component | State | Operations | Talks to | What makes it hard | What makes it correct |
|---|---|---|---|---|---|
| **Weaver** (`sync` 105-265) | per lane `ts`, `buf`, `cur`; `prev_emit` | `key`, `push/extend`, `take_run`, `step`, `compact` | owned by both feeds; hands a `Past` and a run to the graph | lanes fill between steps; ties; cells at the edge of `i64`; drains under live cursors | arrival order, each row passed once, the newest checkpoint of a run, the past strictly before the run |
| **Live feed** (`sync` 460-490, 570-830) | channel, own sender, `last_stamp`, `disconnected` | `sink`, `ingest`, `stamp`, `next`; `Sink::push/clone/drop` | pumps on other threads -> channel -> weaver; tee to the recorder | pushes, clones and drops between any two channel operations; a clock that stalls or regresses | keys never below what is keyed or given; ends exactly when drained |
| **Replay feed** (`sync` 298-411) | a weaver keyed up front | `new`, `next`, range and anchor reading | `LaneReader`, catalog | a start in mid-session | same steps as live |
| **ShadowBook** (`book` 328-425) | a book, `seq`, the cadence of checkpoints | `ingest`, `seed`, `checkpoint` | venue messages -> our rows and checkpoints | lost deltas, snapshots, gapped deltas | the rows and checkpoints replay to the book it holds; one checkpoint a period |
| **Book fold** (`book` 56-325) | levels, `seq`, `epoch`, `synced` | `step`, `reach`, `apply`, `absorb`, `resync`, `rewind` | `BookChunk`, checkpoints, `Past` | gates: it sleeps through rows and must know how far it may be carried | readable means the recorder's book as of its own row |
| **BookChunk** (`trading_data_core/src/chunk.rs`) | two periods' nets | `advance`, `fold`, `net`, `joined` | read by books | tumbling, the order of the two nets, holes | the net carries exactly the rows it claims |
| **Past / rewind** (`sync` 78-82, 415-455) | cursors into rows and checkpoints | `rewind` | the generated sweep (`resolve`) | two resumes chosen by cost | a demanded book answers on that tick |
| **Record tee** (`trading_data_persistence/src/feather.rs`, `sync` 494-558, 713-783) | feather per lane, channel, writer thread | `push`, `maybe_take`, `take`, `send`, `finish`, `final_flush`, drop | ingest thread -> writer thread -> catalog | the writer dies, the process dies, files overlap | a finished session is readable |
| **Catalog, readers** (`.../catalog.rs`, `.../read.rs`) | files per lane, named by interval | `write`, `scan`, `list_range`, `pick_anchor` | recorder, replay | closed intervals, unclosed files, one file searched | ranges read whole and in order; the newest anchor |
| **Resolve** (`resolve`) | stack, queue, aliases | the compile-time walk of `graph!` | asks the compiler per dep | spellings that differ, reads that are retained, cycles | each node once, after all it reads |
| **Demand** (`demand`) | none: a fixpoint | suppressors, anchoring, assertions | decides what a tick may skip | a gate stepped too late, state behind a gate | sleeping is invisible |
| **Sweep** (`dag`, `resolve` emit) | latches, buffers, carries, gates, emitter clocks | the generated tick | everything above drives it | all of it at once, over any graph | outputs as if nothing slept; episodes apart |
| **Shape** (`trading_data_macros/src/shape.rs`, `trading_data_dag/src/shape.rs`) | none | `under`, `render` | a reader of the graph | lanes shared between producers | the picture is the sweep |
| **Retention** (`dag` Horizon, Rows, Hist, Buffer) | rows kept, marks | `advance`, `view`, `trailing_at`, `lagged_at` | one buffer for all readers of a series | the longest reach serves all | a read is blind to the others' reach |
| **Derivatives** (`trading_data_derivatives/src`) | pending periods, recurrences | `Close`, `Scan`, `Fold` emitters, `carry` | trades -> bars -> RSI | batches cut anywhere | runs are those of the tape; no look-ahead |
| **Expression algebra** (`trading_data_expr/src/lib.rs`) | none | `eval`, `grad`, `lower`, `diff`, `simplify`, `MAYBE` | bodies of nodes | absence as NaN, kinks, identities | the planes agree |
| **Observed sweep** (`dag` step_seen, Flats, fd_cols) | flattening buffers, seats | `pre`, `advance`, `jac`, `exact` | recorders and inspectors | seats by counting, shared buffers, clones | watching changes nothing |
| **Episode** (`spl/classify.rs`, `spl/nodes`, `spl/main.rs`) | latch, deprecator, driver's book-keeping | screen, classify, enter, trail, drain, end | the sweep | terminal, recovery and deadline in any order | an episode lives as long as its latch |
| **Acquire** (`spl/lib.rs`) | catalog, sentinel, pump, leash | `ensure_trades/_book/_oi/_mc` | archive -> pump thread -> Live -> catalog | kill anywhere, inside the writing of a file too; days that spill past midnight; two threads on a leash | nothing twice; done only over whole, readable lanes |
| Domain types, row codec, facade, benches, other examples, fuzz harness | values | pure functions, I/O | | | unit tests |

How they interact, in one picture:

```
venue pumps --Sink::push--> channel --Live::ingest--> ShadowBook --rows, checkpoints--> Weaver lanes
                                          |                                                |
spl archive --pump, leash-----------------+--tee--> Feather --send--> Writer thread      step: Past + run
                                                                        |                  v
graph! --resolve--> order --demand--> plan                Catalog files-+--Replay--> Weaver ... tick: buffers, books,
                       \--shape--> picture                                            latches, bars, bodies, observers
```

The hazards of this code, each at its line with the properties aimed at it, are
the list `hazards` of `PROJECT.json`; the four no property covers say why.

## 2. Modules

| Module | Models | State and actions against the code |
|---|---|---|
| `ArrivalMerge` | *abstract*: what a feed promises | rows pending per lane and what was handed over of the last block: all of it, or of a lane in `Conflated` its newest row; `Arrive`, `HandOver` |
| `Weaver` | `Lane`, `Weaver`, `ReadClock::cell_end` | `ts`/`buf`/`cur`/`prevEmit` are the fields; `KeyRows` is `Lane::key` with `push`, `Step` is `Weaver::step` with `take_run`; `Handed` is what its `Lanes` carry of the run, of the anchors lane `.last()` alone (`sync` 281); `Compact` is `Weaver::compact` |
| `Live` (extends `Weaver`) | `Live`, `Sink`, the channel | `next` is cut at every channel operation: `CallNext` (drops its own sender, compacts), `Recv`/`FindDisconnected`, `Drain`*/`Drained`, `Return`/`End`; pumps interleave everywhere |
| `Book` | `BookChunk` and `Book` as values and operators | `FoldRow`, `Tumble`, `Advance`, `Net`, `Reach`, `Absorb`, `Resync`, `StepBook` |
| `GatedBook` (extends `Book`) | what both book runs share | the tape, the recorder's book after each row, the chunk, the book, its gate |
| `BookFold` (extends `GatedBook`) | a gated book under a weaver's steps | `RowsStep`, `AnchorStep`, `OtherStep`, each with the gate open or shut as it likes; the recorder's book rides along as the truth |
| `BookReplay` (extends `GatedBook`) | `Rewound<Book> for Past`, over a range that may start mid-session | `Rewind` is the choice between the two resumes; `carried` is the checkpoint at `Arrival::MIN` |
| `ShadowBook` (extends `Book`) | `ShadowBook`, `Live::ingest_book` | `SnapshotArrives`, `DeltaArrives`, `DeltaIsLost`; each message received takes the checkpoint that is due |
| `Recorder` | `Feather`, `Writer`, `Catalog::write`, range reading, `pick_anchor` | `Ingest` (+ `maybe_take` + `send`), `FinalFlush`, `Join` on the ingest thread; `Create`, `Close`, `Refuse`, `Exit` on the writer's; `Kill`, `Restart` |
| `Resolve` | the walk of `graph!` | `Expand` and the resolution of one dep at a time; ends in an order, a cycle or a refusal |
| `Demand` (extends `Resolve`) | suppressors, anchoring, const assertions | operators over a resolved graph; a demand is a DNF over gates |
| `Sweep` (extends `Demand`) | the generated tick | one graph driven twice on the same batches, as compiled (`run`) and with every demand true (`twin`); an out is the set of ticks it was computed from |
| `Shape` (extends `Sweep`) | the picture | `LiveUnder` is `Shape::under`, `Drawing` the lanes of `render` |
| `Retention` | `Horizon`, `Rows`, `Hist`, `Buffer` | operators over runs of timed elements |
| `Derivatives` (extends `Retention`) | bars and RSI | `Tick` sweeps `Ohlcs`, `Volumes`, `Bars`, `RsiDelta`, both Wilder halves, `Rsi` and the carry over one batch |
| `Expr` | the algebra | a body is written one operator at a time (`Write`); f64 is an exact rational with infinities and NaN |
| `Observation` (extends `Expr`) | `step_seen`, `Flats`, `Fire`, the kernels' readings | `Tick` sweeps four nodes of four kernels under two observers; `bare` is the same graph unobserved |
| `Strategy` | the episode of spl | `TradesCloseBar`, `Deltas`, `Seed`, `Other`: a lane of the tick and then `Sweep`, the six nodes and the driver's checks |
| `Acquire` | `ensure_lanes` of spl | `EnsureTrades` is a day found, failed, created, closed; `EnsureBook` the pump thread, `Live` on the main thread, its tee a batch at a time; `EnsureOi` and `EnsureMc` a file created, then closed; `Kill`, `Start` |
| `MC*` | instances | model values, bounds and sets of inputs only |
| `FoldTheorems` | lemmas about folds and data, parameterised by the operator folded | section 5 |
| `FeedProofs` (weaver and live), `BookProofs` (the recorder's book and both book runs), `RecorderProofs`, `AcquireProofs`, `StrategyProofs`, `SweepProofs` (walk, sweep, picture and sleep), `DerivativesProofs` | theorems | section 5 |

Definitions whose comment begins `Bug:` are not part of any specification: each
is a definition of the code with a plausible bug, and `PROJECT.json` pairs it
with the property it breaks.

What is abstracted, and the assumptions a reader should know:

- **Rows are numbers**, levels are a few (side, price) pairs, periods and venue
  times small integers.  Precision, best-first storage and what a trade says are
  left out: no modelled guard reads them.
- **A message is a batch**: how many rows it makes on each lane, none included.
- **`BookFold`** folds every run into the chunk whether or not the book's gate is
  open, the way `trading_data/tests/book_gating.rs` wraps `Book::step`.  The gate is
  free: it opens and shuts on any step, one that carries rows, a checkpoint or
  neither (that test gates on trades), and before the book holds a place.  A
  checkpoint stands for the recorder's book as of the last row delivered.  The shipped
  book is anchored and rewound instead: `BookReplay`.
- **`BookReplay`**: a recording's first message seeds its book and makes a
  checkpoint due (`book` 387-399, `sync` 696); a range that starts later carries
  in an older checkpoint, none of whose later rows before the start are read.
- **`Recorder`**: when a batch is full (bytes, rows, age) is free at every
  message; the venue's clock stalls but never regresses on one lane; rows lost
  to a kill are dropped from the history; the code's `LaneReader` panics on a
  file a kill left unclosed, so a reader's promises are about the other ranges.
- **`Resolve`** walks graphs that are written right (`IsGraph`, assumed by
  `ResolveConstants`): every dep spells something the graph has, what Rust's
  name resolution checks first.  `Demand`'s `PostOrder` is the assertion
  `demand` 178-193 makes of the order before anything is emitted.
- **`Sweep`**: bodies are abstract, values are provenance.  A run of `tick`s is
  over one fixed graph of `MCGraphs`; every root may carry a batch or not.
- **`Expr`**: no rounding, no sign of zero, no `sqrt` or `exp`.  Values that
  divide by zero are followed through, and the properties say where they stop.
- **`Observation`**: a difference quotient bumps by one, exact for the affine
  bodies it is checked on; the code's own bump is a float epsilon.
- **`Strategy`**: a market reading is a set of traits; sizes and probabilities are
  compared and never computed.
- **`Acquire`**: the times of an archive of the book tell its messages apart and
  ascend (`AcquireConstants`); its checkpoints go with its rows and are `Recorder`'s
  subject.  `Tapes` are the times of each day's trades, free to spill past the
  midnight that ends the day or to be missing.  A file of trades, oi or mc is created
  under its final name and closed in a later step (`catalog.rs` 84-91), with a kill in between; a
  batch of the book lane is written in one, for what such a kill leaves there has the
  outcome the model already has: a lane whose next recording is refused.

## 3. Runs

| Run | Distinct states | What it shows |
|---|---|---|
| `weaver` | 70 k | The weave of three lanes, any interleaving of messages, steps and compactions over keys with Arrival::MIN and cells of two: it is an arrival-ordered merge that gives of a run of checkpoints the newest, and no past reaches its own step.  Checks `NeverOutOfOrder`, `PastStopsAtTheWeave`, `IsArrivalMerge`. |
| `live` | 108 k | The live feed with sinks pushing, cloned and dropped between any two channel operations and a clock that stalls and regresses: it keeps the weaver's contract, weaves what it took in the order taken, hands over all of it but the checkpoints a newer one of their run replaces, and ends exactly when everything is drained.  Checks `GivesTheLog`, `IsWeaver`, `Ends`. |
| `bookfold` | 1.06 M | A gated book under any gate, waking on rows, on a checkpoint or on neither, over up to four periods: what it publishes is the recorder's book as of the row it stands on, but for what went by before it had a place, and it is carried over exactly two periods.  Checks `ReadableAsOf`, `WakesAsFarAsTheNetReaches`. |
| `shadow` | 552 k | The recorder's book against a venue whose deltas are lost: every checkpoint and the rows behind it replay to the recorder's book, a snapshot reconciles it with the venue, and each period it was heard in has one checkpoint.  Checks `CheckpointsReplay`, `AgreesWithTheVenue`, `OneCheckpointPerPeriod`. |
| `bookreplay` | 1.39 M | An anchored book in a replay that may start mid-session, its buffer asleep with it or not: the rewind stands it on the last row delivered whichever resume it takes, it answers on the tick it is demanded, and is wrong at most where nobody read the rows before the range.  Checks `WrongOnlyWhereUnread`, `StandsOnTheLastRow`, `AnswersOnTheTick`. |
| `recorder` | 374 k | The record tee with its writer thread, kills and restarts, and the readers after it: a finished session is readable over every range, the anchor of a range is the newest young enough, and only tied venue times across two batches end a recording.  Checks `FinishedIsReadable`, `AnchorIsTheNewest`, `DiesOfTiesOnly`, `Finishes`. |
| `sweep` | 83.4 k | graph! resolved, planned and driven over thirteen wirings beside a twin that suppresses nothing: sleeping changes no output and starves no state, a latch keeps episodes apart, and the picture drawn of the graph is the sweep that runs.  Checks `StepsInOrder`, `SleepIsInvisible`, `NothingHeldIsShort`, `EpisodesAreSeparate`, `PictureIsTrue`, `WalkEnds`. |
| `derivatives` | 82.8 k | Bars and RSI over one shared retention, any tape of trades cut into any batches: runs are those of the tape taken whole, windows are exact, a read is blind to the other consumers' reach, and no trade reads a bar a later trade closed.  Checks `RunsMatchTheTape`, `WindowsAreExact`, `ReadsAsIfAlone`, `NoReadAhead`. |
| `observe` | 56.8 k | Bodies of the expression algebra on its four planes, and a graph built with them swept under any watchers: absence is where the type says, simplification and differentiation keep what evaluation says, watching changes nothing, and a derivative is one step of the dep however it was reached.  Checks `AbsenceIsTyped`, `PlanesAgree`, `SimplifyKeeps`, `ObservedAsBare`, `ToldWhereItMoved`, `DerivativesAreOneStep`. |
| `strategy` | 48.3 k | The spl episode from a screened minute to its last intent: positions are taken on agreeing evidence, an episode lives exactly as long as its latch, and within it the trail and the drain clock only tighten.  Checks `TradesOnEvidence`, `EpisodeIsTheLatchs`, `TrailTightens`. |
| `acquire` | 112 k | spl filling its catalog with a leashed pump thread, a recording Live, files created before they are written, kills and reruns: the sentinel is only ever written over the whole book, nothing is recorded twice, no run finishes over a file cut short or over a missing day that no earlier one spilled into, and pump and consumer never wait on each other.  Checks `SentinelMeansWhole`, `NothingTwice`, `FoldsToTheEnd`. |
| `range_replay` | | a violation: section 6 |

**Bounds, and why they are enough.**

- `weaver`: keys -3..2 with cells of two hold a saturated first cell
  (`Arrival::MIN`), a whole cell and a cut one; the batches make ties within a
  message and between lanes; three rows on the delta lane are what it takes for
  a drain to happen with rows left behind the cursor.
- `live`: readings {0, 2} under stamps up to 5 make the clock stall, regress and
  jump; four messages let two be in the channel while one is keyed and one
  given, and two of them hold a checkpoint, so that a run of checkpoints comes about;
  two sinks let one be cloned from another that is then dropped.
- `bookfold`: four periods are the two the chunk holds and two boundaries to
  sleep past; five rows and runs of two put a boundary inside a run and rows on
  both sides of it; the three writes set, reset and remove one level and touch
  another, so a fold in the wrong order or with a row skipped shows.
- `shadow`: two periods and four rows: a loss, a gapped delta, a snapshot that
  corrects, and rows after the checkpoint.
- `bookreplay`: four rows over the periods, runs of two: both resumes are the
  cheaper one in some state (depth of the checkpoint against rows missed); the
  carried checkpoint differs from the start on both levels or on none.
- `recorder`: four rows and three instants on one lane make three files, a tie
  across a rotation, and a message whose rows are apart; the second lane makes
  the queue and the final flush mix lanes; two sessions are one recovery.
- `sweep`: thirteen wirings, one per shape the engine's fixtures have (gates alone,
  nested and late, two spellings, an anchored node with and without a past that
  rewinds, an episode, a flow behind a latch, a clock), four of them refused (a cycle, one
  through a sampled series, a fold that is gated, a latch gated by its own arm);
  five ticks are an episode of two, its end, and the start of the next.
- `derivatives`: six trades make three bars of two instants, the RSI's warm-up
  and its first smoothed reading; batches of up to two put the boundary inside a
  batch, at its end and between batches; gaps of three skip a period.
- `observe`: two operators nest any two of the laws, and every literal the
  identities treat apart is in; three ticks let a level move, stand and be
  watched again after it was not.
- `strategy`: mids a full retrace apart make the trail fire; two instants are a
  drain deadline met and missed; the four situations hold evidence for one side,
  for both, and against ignorance.
- `acquire`: five messages make a burst past the leash and a silence longer than
  it, and a level that falls out of the view and back; three days and two runs are
  one recovery.  The four tapes are: every day within its midnights, a trade at the very
  midnight that ends a day, a day that runs into the next one, and a day without trades.

`weaver`, `shadow`, `recorder`, `sweep`, `derivatives`, `observe`, `strategy` and
`acquire` say `CHECK_DEADLOCK FALSE`: their inputs are used up at the bound, a
refused graph does not tick, and a process that is over may stay so.  `live` and
the book runs check it.

## 4. Fairness

- `Live!FairLiveSpec`, WF of `Consume`: the consumer thread runs on as long as it
  is not blocked in `recv`.  Pumps owe nothing: `Ends` assumes that every sink
  is dropped for good.
- `Recorder!FairSpec`, WF of `Write` and of `Join`: the writer is an OS thread in
  a loop over its channel, and the join returns once it ended.  No session is
  obliged to end and no killed process to come back.
- `Sweep!SweepSpec`, WF of `Expand`: the compiler expands a macro it began
  (`WalkEnds`: in an order, a cycle or a refusal).  Ticks owe nothing.
- `Acquire!FairSpec`, WF of `Pump`, `Feed` and `Ensure`: two OS threads, neither
  of which may spin for ever without the other running; `Ensure` is the main
  thread's work on trades, oi and mc, each file's creation and closing among it.  `Rotate`, `Kill` and
  `Start` owe nothing.  `FoldsToTheEnd` is that the leash and the blocking
  `recv` never close a circle.

The other specifications are safety only.

## 5. Proofs

Every theorem is for any value of the constants that their assumptions admit:
any number of lanes, keys, levels, periods, messages, clock readings, sinks,
graphs, archives, prices, and any bound.  `tlapm` checks each to its last leaf.

| Component | Theorem | Says |
|---|---|---|
| weaver (`FeedProofs`) | `Invariance` | `Weaving => []Inv` |
| | `TypeCorrect`, `InOrder`, `TailHeld`, `PastStops` | `Spec => []TypeOK`, `[]NeverOutOfOrder`, `[]HoldsTheTail`, `[]PastStopsAtTheWeave` |
| | `WeavingMerges`, `Merges` | `Weaving => IsArrivalMerge`, `Spec => IsArrivalMerge`: it implements `ArrivalMerge`, with the anchors lane `Conflated` |
| live feed (`FeedProofs`) | `LiveInvariance` | `LiveSpec => []LiveInv` |
| | `LiveIsWeaver`, `LiveInOrder`, `LiveMerges` | `LiveSpec => IsWeaver`, `[]NeverOutOfOrder`, `IsArrivalMerge` |
| | `LiveGivesTheLog` | `LiveSpec => []GivesTheLog` |
| recorder's book (`BookProofs`) | `CheckpointInvariance`, `OnePerPeriod` | `ShadowSpec => []CheckpointInv`, `[]OneCheckpointPerPeriod` |
| | `RecordingInvariance`, `CheckpointsReplayExactly`, `TheBookIsTheVenues` | `ShadowSpec => []RecordingInv`, `[]CheckpointsReplay`, `[]AgreesWithTheVenue` |
| book fold (`BookProofs`) | `ReadableAsOfItsRow`, `CarriedOverTwoPeriods` | `BookSpec => []ReadableAsOf`, `WakesAsFarAsTheNetReaches`, under any gate |
| replayed book (`BookProofs`) | `ReplayIsTheRecorders`, `RewindsToTheLastRow`, `DemandedIsAnswered` | `ReplaySpec => []WrongOnlyWhereUnread`, `[]StandsOnTheLastRow`, `AnswersOnTheTick` |
| record tee, catalog (`RecorderProofs`) | `RecorderInvariance`, `OnlyTiesKill` | `Spec => []RecorderInv`, `[]DiesOfTiesOnly` |
| | `WhatIsFinishedIsReadable`, `TheAnchorIsTheNewest` | `Spec => []FinishedIsReadable`, `[]AnchorIsTheNewest` |
| acquire (`AcquireProofs`) | `AcquireInvariance`, `RecordsNothingTwice`, `ASentinelIsAWholeLane` | `Spec => []AcquireInv`, `[]NothingTwice`, `[]SentinelMeansWhole` |
| episode (`StrategyProofs`) | `EpisodeInvariance`, `EpisodesAreTheLatchs`, `TheTrailTightens`, `EvidenceIsNeeded` | `Spec => []EpisodeInv`, `[]EpisodeIsTheLatchs`, `TrailTightens`, `[]TradesOnEvidence` |
| graph walk (`SweepProofs`) | `WalkInvariance`, `WalkStepsInOrder` | `SweepSpec => []WalkInv`, `[]StepsInOrder` |
| sweep (`SweepProofs`) | `EpisodeInvariance`, `EpisodesApart` | sealed latches: `SweepSpec => []EpisodeInv`, `[]EpisodesAreSeparate` |
| picture (`SweepProofs`) | `PictureInvariance`, `PicturesAreTrue` | sealed latches: `SweepSpec => []PictureInv`, `[]PictureIsTrue` |
| sleep (`SweepProofs`) | `SleepInvariance`, `SleepUnseen`, `NothingShort` | sealed latches, all that lasts attended: `[]SleepInv`, `[]SleepIsInvisible`, `[]NothingHeldIsShort` |
| | `UnlatchedSleepUnseen` | no latch: `[]NothingHeldIsShort`, and every output is the twin's on every tick |
| bars and their windows (`DerivativesProofs`) | `WindowsExact`, `ReadsBehind` | `Spec => []WindowsAreExact`, `[]NoReadAhead` |
| | `AsIfAlone` | counts the spans hold (`Reaching`): `Spec => []ReadsAsIfAlone` |
| bars and RSI (`DerivativesProofs`) | `RunsAreTheTapes` | `Spec => []RunsMatchTheTape` |

**Assumptions beyond types.**  `Live`: readings are keys and the live feed reads
whole prefixes, `ReadClock::ALL` (`LiveConstants`).  `BookFold`: there is a level;
`ShadowBook`: they are finitely many.  `Recorder`: the rows of one message
ascend.  `Strategy`: every situation reads one momentum band, the three being
cases of one match.  `Acquire`: the archive ascends on its clock (of the trades nothing is assumed).  `Resolve`: `IsGraph`,
its roots finitely many.  `Demand`: a gate is no root and a latch no run, which `Gate: Node`
says (`GatesAreNodes`).  `Derivatives`: prices are integers, and a buffer is read at
finitely many reaches of one bar or one tick of the clock at least, two bars back among them
(`dag` 3609-3613).  Some theorems carry a hypothesis of their own.  Those of the sweep and of the
picture are of latches as `Armed` makes them, not anchored and behind no gate
(`Sealed`), which all wirings of `sweep` are; of others `EpisodesAreSeparate` is false
(section 6), and a latch that stands may publish false.
Those of sleep are also of graphs that are `Attended`: what a node leaves behind for a later tick
(a fold, a retention, a latch, what a latch cuts, a sampled series) is asked for
whenever its own gates are open, and nothing that it reads waits on a latch.  That
is decided by the graph, its order and its demands, and no tick moves it; TLC finds
it of all wirings of `sweep`, and where it fails sleep does show (section 6: a cut asleep
behind another gate, a sampled series that sleeps with its readers).  A graph
without a latch, whose sampled series are roots, folds or outputs, is attended by
theorem (`UnlatchedAttended`).
`AsIfAlone` is of read sets where a count beside a span is of bars the longest
span holds however the gaps fall (`Reaching`): otherwise `Horizon::join` leaves the count short
(section 6).  The read sets of `derivatives` are such, which TLC evaluates as the
assumption `CountsHeld`; the other three theorems about bars ask nothing of the kind.

**Induction over data.**  `FoldTheorems` holds the lemmas the rest stands on, which say nothing
of the code: induction for a set (`Induction`,
`SeqInduction`: a set with the empty sequence, closed under `Append`) and what a fold of the
community modules does to one element more, for any operator folded, a
CONSTANT of the module.  A component instantiates it with its own operator
(`Writing`, `Netting`, `Sifting`, `Ticking`, `Closing`...) and so may reason about what its
folds make of every input.

**Weaver.**  `NeverOutOfOrder` (no head is below the last key given) is not
inductive alone: after a step the winner's *next* row becomes its head.
`Inv` adds `Sorted` (a lane's keys ascend, which `Lane::key` asserts) and
`HoldsTheTail` (keys and rows in step, the cursor within them).  A message keeps
it by its guard `MayKey`; a step keeps it because the run's last key is below
every other head (`Within`), below what follows in its own lane (`Sorted`), and
not below the last run (`NeverOutOfOrder` before); a drain keeps it because it
moves each lane to its own suffix with cursor 0.  `PastStopsAtTheWeave` is a
statement about the last step only; it follows from the cursors being read
before the winner advances, and survives what comes after because the rows
delivered from a lane are unmoved by a message or a drain (`DeliveredStands`).
The refinement maps a lane to what it holds behind its cursor, and `out` to what the
last step handed over.  A message is
`Arrive`, a step `HandOver`, a drain a stutter; it needs, besides `Inv`, that the
last row given is the last delivered of its lane (`EndsOn`), for the merge speaks
of the row and the weaver of its key: the newest row of a run is in what is handed
over on every lane, the conflated one too.

**Live.**  `MayKey` is an assertion in the code, so it is a guard of `Weaver`; that
no feed trips it is a theorem about the feed.  `BelowStamp` (every key held
and the last one given are at most the last stamp) with `StampGrows` (a new
stamp is above the last whatever the clock reads) gives `MayKey` for each
message taken, so each step of `Live` is a step of `Weaving` or leaves the
weaver alone.  `GivesTheLog` speaks of two sequences: `woven`, what the cursors passed, and
`given`, what the steps handed over of it.  That `woven` is the log's beginning,
by key and lane, is `LogInv`: what was woven is what the cursors passed
(`WovenIsDelivered`), what is held is logged under its key (`HeldIsLogged`), and
no woven row is behind a logged one that precedes it
(`InOrderOf`).  A run follows what was woven (`RunFollows`) because
it is below every head, and a message's rows come after everything logged.  What is woven
and not given is a checkpoint with the next one right behind it, since a run passes its
rows without a gap (`NewestReturn`, `GivenSteps`).  At the end, whatever was logged is woven
(`WovenWhole`).

**ShadowBook.**  `OneCheckpointPerPeriod` needs that the checkpoints stand in the
order of their periods and that the last is in the period checkpointed: then a
message of a later period writes above all of them, and one of the same period
writes none.  `heard` is within the periods because the first message of a
period always finds the cadence due.  `RecordingInv` says of every checkpoint that it
and the rows behind it make the book (`Makes`).  A message's rows, folded in whatever order they are numbered,
make what the message says (`FoldsToWhatIsSaid`), so appending them to those emitted
moves every checkpoint's replay to the new book; that is all a snapshot, a delta
and a gapped delta have in common.

**Book.**  `Whole` says of a chunk that each of its nets carries exactly the rows
it claims, or nothing; a net of rows a+1..n set over the book of *any* row from a to n makes the
book of n (`NetCarries`), since a row sets its level absolutely.  With it
`GatedInv` says that the book equals the history at its own seq and lags only
while its gate is shut, save for levels that rows gone by before it had a place wrote and no row
since (`RightBut`): `Book::reach` lets a book without a place take one
from a run that opens a period, whatever went by before (`book` 187).  A checkpoint, a reach
or a row then only makes more of it right.  That a step with rows leaves an open book
on the last of them, or dark, is the other half of `ReadableAsOf`.  The replay has no history before the range: `Right`
weakens equality to the levels that a row read has settled, and `ReplayInv` says
that of the book, of the checkpoint delivered, and of every place a rewind may
resume from (`RewindStands`).  How far the net reaches needs the grid: `OnGrid` says that each net holds
the rows of one period from that period's first row on, and that nothing lies
between the two, so the rows a book missed are of two periods at most exactly if a net
goes back to the first of them.  `NetInv` keeps it from row to row
(`GridGrows`) and with it, for any gates, that the book's seq is one the tape has reached.

**Recorder.**  Every lane is one line of rows cut in pieces: files, the queue,
the feather.  `InOrder` says that the pieces lie behind one another in venue time,
strictly unless a tie has been pushed; so the refusal in `Catalog::write` never
fires without one.  `Shelved` says that the files, in the order written, with the queue and
the feather are what was recorded, while nothing has been lost.  A finished session has everything in closed
files, and a range read is a sieve over them (`ReadSame`: leaving out the files
that do not meet the range leaves out no row of it).  `pick_anchor` searches one
file; that it is the right one is that files lie apart.  `Phases` ties the program
counters together.

**Acquire.**  `NothingTwice` compares rows across files that were written in
different runs, so it needs an invariant about what is *in flight*: the tee,
then the channel, then what the pump has yet to say, each in the archive's
order and strictly behind the next (`InFlight`).  That makes every batch ordered,
so its interval of venue time holds all its rows (`Within`), and the refusal in
`Catalog::write` keeps intervals apart (`FilesApart`) also against what an
earlier, killed run left.  `LanesStand` is about the other lanes.  Files of trades lie apart, for
`Catalog::write` refuses to create one that meets a listed interval, closed or not, and a day
that is in the lane is found before it is created again (`DaysApart`).  A file cut short is one
that no probe finds, since reading it panics, so no later run gets past its day, and none writes behind
it (`CutShort`): that is why a run that is done has no such file.  A day the loop
has passed has a file, or an earlier day's row was found at its midnight
(`AtTheDay`).  `Passed` ties each place in the program to the artifacts behind it.  `SentinelMeansWhole` adds `WholeInv`: files, tee and
the way from the pump tell the archive's first n messages, exactly the changes
of its visible book, or the files are an earlier session's and the next write is
refused because it starts at the same message.

**Episode.**  `EpisodeInv` is `EpisodeIsTheLatchs` with the shapes of what is kept; the
work is in `ManageKeeps`, which walks the deprecator's management of an open
episode and shows together that a terminal intent leaves no state and that
nothing loosens.  `TradesOnEvidence` is about a finite table: every category's
votes are summed from `classify.rs`'s traits, which no solver does at once; the votes are
tabled (`VoteTable`), summed (`TotalNine`), and the certainty's bar compared.

**Walk.**  `WalkSound` is the loop invariant of `graph!`'s explicit stack: what is
known is on the stack or in the order and nothing twice, the deps a place on the
stack has walked past are in the order, known above it, or what it waits for
(`Frame`), everything in the order has its deps before it (`OrderVisited`), an alias names a known
cell, and every output is reached, asked for, or to come.  When the stack is empty
`StepsInOrder` is what is left.

**Sweep.**  A tick is a fold over the order.  `Apart` (behind a latch that is down
nothing is held) is kept by each step: a gated node advances only if its latch
published this tick, and a sealed latch publishes only with something held; the
commutation that drops a latch drops everything it gates with it.

**Picture.**  `Shape::under` reads the gates once, after the tick; the sweep reads each as
it comes to it.  The two agree because nothing a node's demand names can change
behind it.  `Ordered` is what `graph!` accepts: every node once and behind what it reads
(`WalkStepsInOrder`, and the wirings refused).  From there the demands are solved
backwards (`LiveIs`: a node's demand is what its readers ask, or TRUE), so that a demand
names gates only, each a latch or stepped before the node (`DemandsFollow`).  Whether a
node runs depends on those gates alone (`RanAsEarlier`), so a fold over the order leaves the
outs its decisions were made on (`Told`, `TickShows`).  A latch is asked by whether it stood
when the tick began, and `under` by what it publishes: a sealed one runs on every tick and
shows what it holds (`LatchShows`).
The lanes are another fold, over the picture: `Drawn` says that after k lines the counts are
those of the readers not drawn yet, and the lanes held are one for each
producer with a reader still to come (`Laned`).  A line keeps it because all it reads is drawn
above it (`Listed`): what it reads last closes (`LanesClose`), and it takes one slot that is free
or new (`LanesTake`).

**Sleep.**  The twin takes the same batches and suppresses nothing.  What is wanted reads
alike on both (`Good`): a demand granted to a reader passes to what it reads
(`DemandPasses`; absorption leaves a weaker conjunct, `AbsorbedBelow`), so along the order every node a
wanted one reads has run, on the same input, or carried the same (`NodeThrough`).  What
lasts goes through a tick alike (`Through`): attended, it runs on every tick on which the
twin's runs on anything, and asleep it holds what the twin's holds.  So `Alike` (episodes, carries,
periods and all that is held, save that a past which rewinds holds something between the
batch and the record, `Within`) survives a tick (`TickAlike`).  A fold over the order is compared
stage by stage (`Stages`), since a carry is read in the middle of it.  An output may differ only on
a tick on which a latch arms: what the latch gates is asked by whether it stood when
the tick began.

**Derivatives.**  `Standing` is what the sweep holds, said of the tape alone.  A bar is published
exactly if its period has a trade and a later trade lies past it, bars ascend, and each is
what its trades fold to (`Tells`); what is pending is the last trade's period, open on both
accumulators (`Stands`), so that the two runs of a batch close alike and zip (`Zips`).
The buffer holds a suffix of all bars, in which nothing that its retention covers is missing, and
marks the first bar of all or the last it dropped (`Buffers`, `Marked`): dropping what has aged (`Trim`) and appending a
run keeps that, whatever the run's length, and it is enough for a window to be the
true one or declined.  `Follows` says the same of a tick's beginning, for a node clocked by trades
reads bars of that very tick.  Whether a span covers a count (`BarsNear`, `SpanCovers`) is
arithmetic on gaps: bars of successive trades end less than a gap and a period apart.
`Reckons` then says of the RSI what `Standing` does of bars: both averages are `Averaged` of the moves so far,
the smoothing is `Smoothed` of the readings so far, and the carry is the last of them.
One element keeps it (`WilderOn`, `SmoothOn`), hence a run of any length by induction along the
fold (`FoldsOn`), where the first element of all, which has nothing behind it, is the absent one.

**Only model-checked, and why.**

- Liveness: `Ends`, `Finishes`, `WalkEnds`, `FoldsToTheEnd`.
- The algebra and its kernels (`AbsenceIsTyped`, `PlanesAgree`, `SimplifyKeeps`,
  `ObservedAsBare`, `ToldWhereItMoved`, `DerivativesAreOneStep`): their operators
  are `RECURSIVE`, over expression trees.

## 6. Where the code disagrees with what is said of it

Run `range_replay` is refuted by TLC, and its counterexample is a behaviour of
the code.  In a replay that starts mid-session the book is seeded by the newest
checkpoint before the start (`read.rs` 149-191), and nobody reads the rows
between the two.  The first checkpoint inside the range then holds levels the
synced book does not; the book ignores it and keeps the old ones until a row
rewrites each, although `book` 160-162 says that "while we are synced the
checkpoint is the state we already hold".  What does hold,
`WrongOnlyWhereUnread`, is that exactly those levels may be wrong.

Met while modelling, and kept here as observations; each is a reading of the
code with no run of its own:

- *Weaver and books.*  A run takes rows that tie with an earlier lane's head
  (`sync` 157 against 217: lane order is the tie-break).  Of a run of two checkpoints,
  which two messages waiting in `Live` make, a step carries the newest alone (`sync` 281); and where the
  later message's rows tie with it, the checkpoint may be handed over
  before them, which `BookFold`'s `AnchorStep` leaves out.  An end of a cell that wrapped
  would cut runs shorter, out of reach of every property here.  A book that missed rows
  and wakes on a step without any publishes what it fell asleep with (`book` 193;
  `book_gating.rs` 6): `ReadableAsOf` says of which row.  A book seeded before the first row
  that stays dark until a run opens a period takes its place there, and holds wrong what the rows gone by
  wrote, since `book` 184-191 looks back to the start of that period only (`passed` in `BookFold`).  Across two sessions in one period the first run after a
  checkpoint does not re-seed the chain (`book` 187 against 229).  Before any row
  was delivered a delivered checkpoint is not used (`sync` 417;
  `book_rewind.rs` 1).  An opening delta with a removal seeds a level of quantity
  0 (`book` 387 against 30).
- *Recorder.*  Two messages at one venue time on both sides of a rotation kill the
  writer thread (`sync` 522; 535).  A killed session can leave deltas without
  their checkpoint, whose net a later session's checkpoint then absorbs.
- *Graph.*  A cut may be asleep behind another gate (`demand.rs` 166).  A cycle
  through a `Sampling` is caught by the post-order assertion rather than reported
  as a cycle (`demand.rs` 186; `PostOrder`).  Each latch that falls resets what it
  gates (`resolve.rs` 511-545): a hand-written latch gated by another would be
  reset by the outer one while what it gates itself is kept.  An `Armed` cannot
  be, since it folds its trigger.  A sampled series may sleep with its readers
  (`resolve.rs` 190-191).  `Horizon::join` lets a span leave a count short
  (`dag` 146-155) where `Hist::all` speaks of the reach declared.  The doc of
  `Emitter::opens` (`dag` 1314 on) and `step_emit_obs` (4709-4710) differ on who
  enforces the clock.
- *Bodies.*  A declined element of a `Scan` or a `Fold` is stamped 0.  `simplify`
  evaluates a `Cmp` over a constant NaN, and makes a zero of `0*x` and `0/x` also
  where they are no number; `powi(x, 0)` of an absence is 1.  A `prev` seat keeps
  the last value published over an absence.
- *spl.*  `BookTop` republishes on trade ticks with the stamp of its last row, so
  `main.rs` 275 ("intents not strictly increasing") may flag a tick of two lanes
  (deprecator 198-199).  The pump's stamps run past the leash by one message.
  A day of trades is said to be "wholly in the lane or wholly absent" (`spl/lib.rs` 113-115);
  a kill while its file is written leaves one that is neither, on which each later run's probe panics
  (`catalog.rs` 84-91, `read.rs` 63).  That probe reads up to and including the next midnight
  (`spl/lib.rs` 119-120, `read.rs` 52): a trade there, in the archive of the day before,
  makes the next day look cached, and it is never fetched.  `NothingTwice` states both as they are.
  A kill during `ensure_book` leaves a lane whose next recording is refused,
  although the doc calls it idempotent (`spl/lib.rs` 153).  `Day` is kept per run
  and documented per day.  A tie between categories goes to the later one.
  What the driver's checks flag (`day.flags`) is kept in `Strategy` for the reader of a trace; no
  property reads it, since some flags are raised by legal runs.

## 7. Not modelled, and the plan

Not modelled for good: domain types and parsing, the row codec and parquet (I/O),
the facade, benches, the other examples and the fuzz harness; LaTeX, `Display` and
traces as text; the other indicators of the derivatives crate, which are the same
three emitters over other bodies.

Left out of a modelled part: two sessions' rows in one replayed range (`book` 343),
a venue clock that regresses across rotations (`sync` 147), the latency sampled
into a lane without receptions, `PrevOut`, the earlier elements of a `Folding`'s
reach, the error paths of file I/O.

What is left, in order:

1. `RangeReplay` over two sessions: `NewSession` restarts the seq, the reader lists
   both, and the specification is the live feed's log, cut.
2. A recorder whose venue clock regresses across rotations.
