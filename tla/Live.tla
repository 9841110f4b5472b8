-------------------------------- MODULE Live --------------------------------
(***************************************************************************)
(* The live feed of trading_data_persistence/src/sync/mod.rs: venue pumps  *)
(* push whole messages through cloned sinks into one channel; the consumer *)
(* thread stamps what it takes off it, keys it in the weaver and weaves    *)
(* one step per Feed::next.  Each channel operation is a step of its own,  *)
(* so sinks push, are cloned and are dropped between any two of them.      *)
(* What a message becomes -- the rows ShadowBook makes of it, none for a   *)
(* snapshot that agrees -- is its batch: rows per lane.                    *)
(***************************************************************************)
EXTENDS Weaver, SequencesExt

CONSTANTS
    Readings,   \* what the clock may read, in any order
    MaxSinks,   \* bound: sinks alive at once
    MaxPushes   \* bound: messages pushed

ASSUME LiveConstants ==
    /\ Readings \subseteq Keys
    /\ MaxSinks \in Nat /\ MaxPushes \in Nat
    /\ Clock = MaxKey       \* no configured read clock: ReadClock::ALL

VARIABLES
    sinks,          \* external sinks alive
    own,            \* does the feed still hold its own sender
    channel,        \* messages pushed and not taken: their batches
    pushed,         \* history: messages pushed
    lastStamp,      \* the last key issued
    disconnected,   \* has the channel been found closed
    pc,             \* where Feed::next stands: "idle", "topup" or "drain"
    ended,          \* has Feed::next returned None
    log,            \* history: <<key, lane, row>> in the order ingested
    woven,          \* history: <<lane, row>> in the order the weave passed them
    given           \* history: those of them that were handed over

wire == <<sinks, own, channel, pushed>>
consumer == <<lastStamp, disconnected, pc, ended, log, woven, given>>
liveVars == <<vars, wire, consumer>>

IsEmpty == \A l \in Lanes : ~ Pending(l)

LiveInit ==
    /\ Init
    /\ sinks = 0
    /\ own = TRUE
    /\ channel = <<>>
    /\ pushed = 0
    /\ lastStamp = MinKey
    /\ disconnected = FALSE
    /\ pc = "idle"
    /\ ended = FALSE
    /\ log = <<>>
    /\ woven = <<>>
    /\ given = {}

-----------------------------------------------------------------------------
(* The pumps.                                                              *)

\* Live::sink, before the feed is consumed, and Sink's clone.
TakeSink ==
    /\ own \/ sinks > 0
    /\ sinks < MaxSinks
    /\ sinks' = sinks + 1
    /\ UNCHANGED <<vars, own, channel, pushed, consumer>>

DropSink ==
    /\ sinks > 0
    /\ sinks' = sinks - 1
    /\ UNCHANGED <<vars, own, channel, pushed, consumer>>

\* Sink::push: enqueues, and reads no clock.
Push(n) ==
    /\ sinks > 0
    /\ pushed < MaxPushes
    /\ channel' = Append(channel, n)
    /\ pushed' = pushed + 1
    /\ UNCHANGED <<vars, sinks, own, consumer>>

-----------------------------------------------------------------------------
(* The consumer's thread: Feed::next.                                      *)

\* Bug: the key is the clock's reading.
StampRaw(reading) == reading

\* Live::stamp.
Stamp(reading) == IF reading > lastStamp + 1 THEN reading ELSE lastStamp + 1

\* What a message appends to the lanes, lane by lane.
Logged(k, n) ==
    FoldLeft(LAMBDA rows, of : rows \o of, <<>>,
             [l \in Lanes |-> [i \in 1..n[l] |-> <<k, l, keyed[l] + i>>]])

\* Live::ingest of the message at the head of the channel.
Take(reading) ==
    LET n == Head(channel)
        k == Stamp(reading)
    IN  /\ channel' = Tail(channel)
        /\ k <= MaxKey
        /\ AppendRows(k, n)
        /\ lastStamp' = k
        /\ log' = log \o Logged(k, n)
        /\ UNCHANGED <<sinks, own, pushed, disconnected, ended, woven, given>>

\* Bug: the feed keeps the sender it lends sinks from.
CallNextKeepingSender ==
    /\ pc = "idle"
    /\ \/ Compact
       \/ (\A l \in Lanes : ~ Dominated(l)) /\ UNCHANGED vars
    /\ pc' = "topup"
    /\ UNCHANGED <<wire, lastStamp, disconnected, ended, log, woven, given>>

\* The call: the feed's own sender goes, and what the last step consumed.
CallNext ==
    /\ pc = "idle"
    /\ own' = FALSE
    /\ \/ Compact
       \/ (\A l \in Lanes : ~ Dominated(l)) /\ UNCHANGED vars
    /\ pc' = "topup"
    /\ UNCHANGED <<sinks, channel, pushed, lastStamp, disconnected, ended, log, woven, given>>

\* recv: blocks until there is a message...
Recv(reading) ==
    /\ pc = "topup" /\ IsEmpty /\ ~ disconnected
    /\ channel # <<>>
    /\ Take(reading)
    /\ pc' = "drain"

\* ... or no sender left to push one.
FindDisconnected ==
    /\ pc = "topup" /\ IsEmpty /\ ~ disconnected
    /\ channel = <<>> /\ sinks = 0 /\ ~ own
    /\ disconnected' = TRUE
    /\ pc' = "drain"
    /\ UNCHANGED <<vars, wire, lastStamp, ended, log, woven, given>>

\* try_recv, for as long as there is one.
Drain(reading) ==
    /\ pc = "drain"
    /\ channel # <<>>
    /\ Take(reading)
    /\ UNCHANGED pc

Drained ==
    /\ pc = "drain"
    /\ channel = <<>>
    /\ pc' = "topup"
    /\ UNCHANGED <<vars, wire, lastStamp, disconnected, ended, log, woven, given>>

\* The weaver's step, handed to the caller.
Return ==
    /\ pc = "topup"
    /\ Weave
    /\ woven' = woven \o [i \in 1..Len(run') |-> <<winner', run'[i][2]>>]
    /\ given' = given \union {<<winner', Handed'[i][2]>> : i \in DOMAIN Handed'}
    /\ pc' = "idle"
    /\ UNCHANGED <<wire, lastStamp, disconnected, ended, log>>

\* None: disconnected, and nothing left to weave.
End ==
    /\ pc = "topup" /\ IsEmpty /\ disconnected
    /\ pc' = "idle"
    /\ ended' = TRUE
    /\ UNCHANGED <<vars, wire, lastStamp, disconnected, log, woven, given>>

Consume ==
    \/ CallNext \/ FindDisconnected \/ Drained \/ Return \/ End
    \/ \E reading \in Readings : Recv(reading) \/ Drain(reading)

Pump == TakeSink \/ DropSink \/ \E n \in Batches : Push(n)

LiveNext == Consume \/ Pump

LiveSpec == LiveInit /\ [][LiveNext]_liveVars

\* The consumer keeps asking for the next step; pumps owe nothing.
FairLiveSpec == LiveSpec /\ WF_liveVars(Consume)

-----------------------------------------------------------------------------
(* Properties.                                                             *)

\* The feed keeps the weaver's contract: a message ingested between any two
\* steps, however the clock reads, claims a slot after everything keyed and
\* everything handed over, so the assertions of Lane::key and Weaver::step
\* never fire.
IsWeaver == Weaving

\* Rows are woven in the order they were taken off the wire: the rows passed
\* so far are the log's beginning, but that rows of one message, which share a
\* key, may come in another order.
WeavesTheLog ==
    /\ IsInjective(woven)
    /\ \A i \in 1..Len(woven) :
         i <= Len(log) /\ <<log[i][1], woven[i][1], woven[i][2]>> \in ToSet(log)

\* What is woven is given, but a checkpoint right before another one.
GivesTheNewest ==
    \A i \in 1..Len(woven) : woven[i] \notin given =>
      i < Len(woven) /\ woven[i][1] = Anchors /\ woven[i + 1][1] = Anchors

\* None is said when nothing is left: no message on the channel, no sink that
\* could still push one, no row unwoven.
EndsDrained ==
    ended => /\ sinks = 0 /\ channel = <<>>
             /\ Len(woven) = Len(log)

\* Steps give what was taken off the wire, in the order it was taken, and all
\* of it before the session ends; only a checkpoint is passed over, and only
\* where the next row of the feed is a newer one.
GivesTheLog == WeavesTheLog /\ GivesTheNewest /\ EndsDrained

\* A session whose sinks are all dropped ends.
Ends == <>[](sinks = 0) => <>ended

=============================================================================
