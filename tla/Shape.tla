------------------------------- MODULE Shape --------------------------------
(***************************************************************************)
(* The picture of a graph (trading_data_macros/src/shape.rs, and Shape,    *)
(* Under and render of trading_data_dag/src/shape.rs): roots first, then   *)
(* the sweep order, a lane per producer somebody still reads, and under an *)
(* assignment of the gates which nodes are dark.                           *)
(***************************************************************************)
EXTENDS Sweep

\* Roots first, so every edge points backwards.
Pictured == SetToSeq({Cell(r) : r \in g.roots}) \o order

IsRoot(n) == ~IsBuffer(n) /\ n[1] \in g.roots

\* However many dep positions name it, a producer is one lane.
Uniq(n) == IF IsRoot(n) THEN {} ELSE {Target(d) : d \in Deps(n)}

Free == <<>>

-----------------------------------------------------------------------------
(* Under: dark or live.                                                    *)

OpenUnder(n, open) == IsRoot(n) \/ Gates(n) \subseteq open

\* Demanded, and open: the sweep's own reading, behind a past that rewinds.
LiveUnder(open) ==
    {n \in Nodes : (\E conj \in plan[n] : conj \subseteq open) /\ OpenUnder(n, open)}

-----------------------------------------------------------------------------
(* render's lanes.                                                         *)

\* Bug: counted per dep position.
RemainingPositions ==
    [n \in Range(Pictured) |->
        Cardinality({p \in Nodes \X (1..4) :
                        p[2] \in DOMAIN DepsOf(p[1]) /\ Target(DepsOf(p[1])[p[2]]) = n})]

\* Readers not drawn yet, per node.
Remaining == [n \in Range(Pictured) |-> Cardinality({c \in Nodes : n \in Uniq(c)})]

FirstFree(lanes) ==
    Min({k \in DOMAIN lanes : lanes[k] = Free} \cup {Len(lanes) + 1})

\* Free slots at the right edge are given up.
TrimLanes(lanes) ==
    SubSeq(lanes, 1, Max({k \in DOMAIN lanes : lanes[k] # Free} \cup {0}))

\* Draw one node: the lanes it is the last reader of close, then it takes one.
DrawNode(d, n) ==
    LET lastRead == {t \in Uniq(n) : d.remaining[t] = 1}
        left == [t \in DOMAIN d.remaining |->
                    IF t \in Uniq(n) THEN d.remaining[t] - 1 ELSE d.remaining[t]]
        lanes == TrimLanes([k \in DOMAIN d.lanes |->
                    IF d.lanes[k] \in lastRead THEN Free ELSE d.lanes[k]])
        target == FirstFree(lanes)
    IN  [remaining |-> left,
         found |-> d.found /\ Uniq(n) \subseteq Range(d.lanes),
         lanes |-> IF left[n] = 0 THEN lanes
                   ELSE [k \in 1..Max({Len(lanes), target}) |->
                            IF k = target THEN n ELSE lanes[k]]]

\* The lanes after k nodes are drawn.
Drawing(k) ==
    FoldLeft(DrawNode, [remaining |-> Remaining, found |-> TRUE, lanes |-> <<>>],
             SubSeq(Pictured, 1, k))

-----------------------------------------------------------------------------
(* Properties.                                                             *)

\* What the picture calls live under the gates as a tick read them is what that
\* tick ran, latches taken as they stood when it began.
UnderForetells ==
    phase = "emitted" /\ tick > 0 /\ g.rewinds /\ ArmedNow(run) = {} =>
        run.ran = LiveUnder({n \in Nodes : IsGate(n) /\ run.out[n] # {}})

\* A producer holds one lane of its own from the line it is drawn on to its last
\* reader's, and no longer: the picture crosses no wires.
LanesHold ==
    phase = "emitted" /\ tick = 0 =>
        \A k \in DOMAIN Pictured :
            LET d == Drawing(k)
                reading == {n \in Range(SubSeq(Pictured, 1, k)) :
                               \E c \in Range(SubSeq(Pictured, k + 1, Len(Pictured))) :
                                   n \in Uniq(c)}
                held == {j \in DOMAIN d.lanes : d.lanes[j] # Free}
            IN  /\ d.found
                /\ {d.lanes[j] : j \in held} = reading
                /\ Cardinality(held) = Cardinality(reading)

\* A reader of the picture is told what the sweep does: what it runs under any
\* reading of the gates, and who reads whom.
PictureIsTrue == UnderForetells /\ LanesHold
=============================================================================
