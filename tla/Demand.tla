------------------------------- MODULE Demand -------------------------------
(***************************************************************************)
(* What graph! decides about a resolved graph before any tick runs: which  *)
(* gates a node's whole demand sits behind (trading_data_macros/src/       *)
(* demand.rs), which nodes may be anchored, and the wirings it refuses.    *)
(* A demand is a set of conjuncts, each a set of gates: a disjunctive      *)
(* normal form, {{}} being TRUE.                                           *)
(***************************************************************************)
EXTENDS Resolve

\* Gate: Node, whose out is a bool.  A gate is no root, and a latch, which is one,
\* is no run.
GatesAreNodes(w) ==
    \A c \in DOMAIN w.node :
        /\ w.node[c].latch => ~w.node[c].emit
        /\ \A d \in Range(w.node[c].deps) : d.as = "gate" => w.is[d.cell] \notin w.roots

ASSUME DemandConstants == \A w \in Graphs : GatesAreNodes(w)

Truth == {{}}

Nodes == Range(order)
At(n) == CHOOSE k \in DOMAIN order : order[k] = n

IsEmit(n) == ~IsBuffer(n) /\ g.node[n[1]].emit
IsLatch(n) == ~IsBuffer(n) /\ g.node[n[1]].latch
IsAnchored(n) == ~IsBuffer(n) /\ g.node[n[1]].anchored
Outputs == {Cell(g.is[g.outputs[k]]) : k \in DOMAIN g.outputs}

\* The node, or root, a dep reads, through its wrapper and its alias.
Target(d) == IF d.as = "buf" THEN Buffer(g.is[d.cell]) ELSE Cell(g.is[d.cell])

Deps(n) == Range(DepsOf(n))
Data(n) == {d \in Deps(n) : d.as # "gate"}
Gates(n) == {Target(d) : d \in Deps(n) \ Data(n)}
Folds(n) == \E d \in Deps(n) : d.as = "fold"
Consumers(n) == {c \in Nodes : \E d \in Deps(c) : Target(d) = n}
IsGate(n) == \E c \in Nodes : n \in Gates(c)

-----------------------------------------------------------------------------
(* suppressors.                                                            *)

\* A retention read by anchored nodes alone sleeps with them.
Held(n) == IsBuffer(n) /\ Consumers(n) # {} /\ \A c \in Consumers(n) : IsAnchored(c)

\* Bug: retention sleeps like anything else.
PinnedButBuffers(n) == Folds(n) \/ IsLatch(n) \/ IsGate(n)

\* Never suppressed, and so is nothing it reads.
Pinned(n) == Folds(n) \/ (IsBuffer(n) /\ ~Held(n)) \/ IsLatch(n) \/ IsGate(n)

\* The anchored nodes whose past has to rewind before n may sleep.
Rewinders(n) == IF IsAnchored(n) THEN {n} ELSE IF Held(n) THEN Consumers(n) ELSE {}

\* Whether every input read for data stands into the next tick.
Rebuilds(n) ==
    /\ Data(n) # {}
    /\ \A d \in Data(n) : \/ d.as \in {"buf", "sample"}
                          \/ Target(d) \in Nodes /\ ~IsEmit(Target(d))

\* A \/ (A /\ B) = A.
Absorbed(dnf) == {c \in dnf : ~\E o \in dnf : o # c /\ o \subseteq c}

\* What consumer c asks of what it reads, live being its own demand.
Term(c, live) == IF Pinned(c) THEN Truth ELSE {conj \cup Gates(c) : conj \in live}

\* Bug: a gate is asked for before it is stepped.
UnresolvedNever(n, dnf) == FALSE

\* A gate stepped after n has not resolved when the sweep asks.
Unresolved(n, dnf) == \E gate \in UNION dnf : At(gate) >= At(n) /\ ~IsLatch(gate)

\* Consumers before what they read, by the DAG.
DemandWalk ==
    LET live[n \in Nodes] ==
            IF Pinned(n) \/ n \in Outputs THEN Truth
            ELSE LET all == Absorbed(UNION {Term(c, live[c]) : c \in Consumers(n)})
                 IN  IF Unresolved(n, all) THEN Truth ELSE all
    IN  live

\* A latch's bit is read a tick ahead of the consumer it arms.
KeptFromLatches(n, dnf) ==
    /\ ~Rebuilds(n) /\ ~IsAnchored(n)
    /\ \E gate \in UNION dnf : IsLatch(gate)

\* Per node, the condition under which its out is read by anybody.
Demands == LET live == DemandWalk
           IN  [n \in Nodes |-> IF KeptFromLatches(n, live[n]) THEN Truth ELSE live[n]]

-----------------------------------------------------------------------------
(* The wirings graph! refuses.                                             *)

\* anchoring: an anchored node is a level, folds nothing, reads roots.
Anchorable(n) ==
    /\ ~IsEmit(n)
    /\ \A d \in Data(n) : d.as # "fold" /\ g.is[d.cell] \in g.roots

\* A closed gate pulls no deps, so a fold behind one never re-warms.
Gateable(n) == Gates(n) # {} => ~Folds(n)

\* gating_leads: the permissions come first.
GatingLeads(n) ==
    \A j, k \in DOMAIN DepsOf(n) :
        j < k /\ DepsOf(n)[k].as = "gate" => DepsOf(n)[j].as = "gate"

Cut(l) == Cell(g.node[l[1]].cut)

\* A latch is cut by a node it gates.
CutGated(l) == Cut(l) \in Nodes /\ l \in Gates(Cut(l))

\* A latch must not gate its own arm.
Deadlocked(l) == \E d \in Deps(l) : Target(d) \in Nodes /\ l \in Gates(Target(d))

ClockOf(c) == IF g.is[c] \in g.roots THEN 0 ELSE g.node[g.is[c]].clock

\* clock_divides: a declared period is whole periods of every clocked input.
ClockDivides(n) ==
    ClockOf(n[1]) # 0 =>
        \A d \in Deps(n) : LET c == ClockOf(d.cell)
                           IN  c # 0 => ClockOf(n[1]) % c = 0

\* suppressors' own assertion: no node is stepped after its consumer.
PostOrder == \A n \in Nodes : \A d \in Deps(n) : Target(d) \in Nodes => At(Target(d)) < At(n)

Accepted ==
    /\ PostOrder
    /\ \A n \in Nodes : /\ IsAnchored(n) => Anchorable(n)
                        /\ Gateable(n) /\ GatingLeads(n) /\ ClockDivides(n)
    /\ \A l \in {n \in Nodes : IsLatch(n)} : CutGated(l) /\ ~Deadlocked(l)
=============================================================================
