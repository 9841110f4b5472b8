----------------------------- MODULE ShadowBook -----------------------------
(***************************************************************************)
(* ShadowBook of trading_data_core/src/book.rs, driven as Live::ingest_book*)
(* drives it: one venue message is reconciled into rows of our own, then a *)
(* checkpoint of the book it left is written if the cadence period has     *)
(* none.  The venue and the wire are external: every message the venue     *)
(* sends arrives or is lost, and the adapter marks the delta that follows a*)
(* loss as gapped.                                                         *)
(***************************************************************************)
EXTENDS Book, FiniteSets

CONSTANTS
    Changes,        \* level changes of one BatchDelta: [subset of Level -> Qty]
    MaxEmitted,     \* bound: rows emitted
    MaxCadence      \* bound: cadence periods

ASSUME ShadowConstants ==
    /\ IsFiniteSet(Level)
    /\ \A c \in Changes : DOMAIN c \subseteq Level /\ DOMAIN c # {}
                          /\ \A l \in DOMAIN c : c[l] \in Qty
    /\ MaxEmitted \in Nat /\ MaxCadence \in Nat

VARIABLES
    levels,         \* the shadow's book
    synced,
    seq,            \* the last row's number
    checkpointed,   \* the cadence period a checkpoint was written in, -1: none
    now,            \* the cadence period of the last message
    emitted,        \* history: every row emitted
    checkpoints,    \* history: every checkpoint, and the rows before it
    heard,          \* history: periods a message found the book synced in
    venue,          \* external: the venue's book
    broken,         \* external: a delta was lost since the last message
    drifts          \* history: the shadow may differ from the venue

shadow == <<levels, synced, seq, checkpointed>>
shadowVars == <<shadow, now, emitted, checkpoints, heard, venue, broken, drifts>>

Update(change) == [kind |-> "Update", levels |-> change]
Correction(change) == [kind |-> "Correction", levels |-> change]

\* The book that a set of changes makes of an empty one: what a shape holds.
Shape(change) == [l \in Level |-> IF l \in DOMAIN change THEN change[l] ELSE Absent]

\* Bug: levels the venue no longer holds are not dropped.
DiffKeepingDropped(ours, theirs) ==
    [l \in {m \in Level : theirs[m] # Absent /\ ours[m] # theirs[m]} |-> theirs[l]]

\* Book::diff: the changes that carry ours onto theirs.
Diff(ours, theirs) ==
    [l \in {m \in Level : ours[m] # theirs[m]} |->
       IF theirs[l] = Absent THEN 0 ELSE theirs[l]]

\* A frame's rows, numbered on from the last.
Numbered(frame) ==
    LET keys == SetToSeq(DOMAIN frame.levels)
    IN  [i \in 1..Len(keys) |->
           [seq |-> seq + i, level |-> keys[i], qty |-> frame.levels[keys[i]],
            kind |-> frame.kind]]

-----------------------------------------------------------------------------
ShadowInit ==
    /\ levels = NoLevels
    /\ synced = FALSE
    /\ seq = 0
    /\ checkpointed = -1
    /\ now = 0
    /\ emitted = <<>>
    /\ checkpoints = <<>>
    /\ heard = {}
    /\ venue = NoLevels
    /\ broken = FALSE
    /\ drifts = TRUE

\* ShadowBook::seed: an unsynced book takes the message's shape for its own.
Seed(shape) ==
    /\ ~ synced
    /\ levels' = shape
    /\ synced' = TRUE
    /\ UNCHANGED <<seq, emitted>>

\* A synced book numbers the frame's rows and applies them.
Fold(frame) ==
    /\ synced
    /\ levels' = SetRows(levels, Numbered(frame))
    /\ seq' = seq + Cardinality(DOMAIN frame.levels)
    /\ emitted' = emitted \o Numbered(frame)
    /\ UNCHANGED synced

\* Bug: the checkpoint is taken before the message is folded.
CheckpointBefore(period) ==
    IF synced /\ checkpointed # period
    THEN /\ checkpointed' = period
         /\ checkpoints' = Append(checkpoints,
              [period |-> period, at |-> Len(emitted'), levels |-> levels])
    ELSE UNCHANGED <<checkpointed, checkpoints>>

\* Bug: a checkpoint is due a whole cadence after the last one.
CheckpointElapsed(period) ==
    IF ~ synced \/ period > checkpointed + 1
    THEN /\ checkpointed' = period
         /\ checkpoints' = Append(checkpoints,
              [period |-> period, at |-> Len(emitted'), levels |-> levels'])
    ELSE UNCHANGED <<checkpointed, checkpoints>>

\* ShadowBook::checkpoint, after the message: due once per period, and at once
\* for a book just seeded.
Checkpoint(period) ==
    IF ~ synced \/ checkpointed # period
    THEN /\ checkpointed' = period
         /\ checkpoints' = Append(checkpoints,
              [period |-> period, at |-> Len(emitted'), levels |-> levels'])
    ELSE UNCHANGED <<checkpointed, checkpoints>>

\* Live::ingest_book of a message received in the given period.
Receive(period) ==
    /\ now <= period
    /\ now' = period
    /\ heard' = heard \cup {period}
    /\ Checkpoint(period)
    /\ broken' = FALSE

\* A snapshot: the venue's book as it stands.
SnapshotArrives(period) ==
    /\ \/ Seed(venue)
       \/ Fold(Correction(Diff(levels, venue)))
    /\ drifts' = FALSE
    /\ UNCHANGED venue
    /\ Receive(period)

\* A change of the venue's book, and its delta.
DeltaArrives(change, period) ==
    /\ venue' = SetNet(venue, Shape(change))
    /\ \/ Seed(Shape(change)) /\ drifts' = TRUE
       \/ Fold(IF broken THEN Correction(change) ELSE Update(change)) /\ UNCHANGED drifts
    /\ Receive(period)

DeltaIsLost(change) ==
    /\ venue' = SetNet(venue, Shape(change))
    /\ broken' = TRUE
    /\ drifts' = TRUE
    /\ UNCHANGED <<shadow, now, emitted, checkpoints, heard>>

ShadowNext ==
    \/ /\ \E period \in 0..MaxCadence :
            \/ SnapshotArrives(period)
            \/ \E change \in Changes : DeltaArrives(change, period)
       /\ seq' <= MaxEmitted
    \/ \E change \in Changes : DeltaIsLost(change)

ShadowSpec == ShadowInit /\ [][ShadowNext]_shadowVars

-----------------------------------------------------------------------------
(* Properties.                                                             *)

\* The recording replays exactly: folding the rows written after a checkpoint,
\* any checkpoint, over it makes the shadow's book -- through losses, gapped
\* deltas and reconciling snapshots.
CheckpointsReplay ==
    \A i \in 1..Len(checkpoints) :
      LET c == checkpoints[i]
      IN  SetRows(c.levels, SubSeq(emitted, c.at + 1, Len(emitted))) = levels

\* From a snapshot on, whatever was held before it, the shadow is the venue's
\* book until a delta is lost.
AgreesWithTheVenue == ~ drifts => levels = venue

\* A period in which a message found the book synced holds a checkpoint, and
\* just one: a reader that wakes in it waits for no boundary.
OneCheckpointPerPeriod ==
    \A p \in heard :
      /\ \E i \in DOMAIN checkpoints : checkpoints[i].period = p
      /\ \A i, j \in DOMAIN checkpoints :
            checkpoints[i].period = p /\ checkpoints[j].period = p => i = j
=============================================================================
