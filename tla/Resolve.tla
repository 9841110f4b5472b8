------------------------------ MODULE Resolve ------------------------------
(***************************************************************************)
(* The walk of graph! (trading_data_macros/src/resolve.rs): from the       *)
(* outputs down the deps, asking the compiler for each cell it has not     *)
(* seen, to the order the sweep steps the nodes in.  A retained read is    *)
(* walked twice: the first visit asks for the cell behind it, the second   *)
(* keys the buffer, or the carry, by what the cell answered.               *)
(*                                                                         *)
(* A graph as written is a record: roots, a set of names; outputs, a       *)
(* sequence of names; is, what a spelling names (an alias names another    *)
(* cell); node, per cell its shape and its deps, each [cell, as].          *)
(***************************************************************************)
EXTENDS Integers, Sequences, FiniteSets, SequencesExt

CONSTANT Graphs          \* the graphs as written

Reading == {"plain", "gate", "fold", "buf", "sample"}

\* What is written names what is there: a root is its own key and is asked for
\* under no other, and every other spelling is answered by a cell under its own.
IsGraph(w) ==
    /\ IsFiniteSet(w.roots)
    /\ \A c \in w.roots : w.is[c] = c
    /\ \A c \in DOMAIN w.is \ w.roots :
           w.is[c] \in DOMAIN w.node \ w.roots /\ w.is[w.is[c]] = w.is[c]
    /\ w.roots \cup DOMAIN w.node \subseteq DOMAIN w.is /\ "" \notin DOMAIN w.is
    /\ \A c \in DOMAIN w.node : w.node[c].deps \in Seq([cell : DOMAIN w.is, as : Reading])
    /\ w.outputs \in Seq(DOMAIN w.is)

ASSUME ResolveConstants == \A w \in Graphs : IsGraph(w)

VARIABLES g,         \* the graph being resolved
          stack,     \* the walk: <<[node, walked]>>, walked deps of it visited
          queue,     \* outputs not yet walked
          awaiting,  \* the spelling the compiler was asked for; "" when none
          known,     \* nodes recorded so far
          aliases,   \* spellings that answered under another cell's key
          samples,   \* series with a carry
          order,     \* the nodes walked to the end, in sweep order
          phase      \* "walk", then "emitted", "cycle" or "refused"

walkVars == <<g, stack, queue, awaiting, known, aliases, samples, order, phase>>

Cell(c) == <<c>>
Buffer(c) == <<c, "buffer">>
IsBuffer(n) == Len(n) = 2

Settled(c) == c \in g.roots \/ Cell(c) \in known
OnStack(n) == \E k \in DOMAIN stack : stack[k].node = n

\* Bug: a retention is keyed by how the dep spells its series.
KeyBySpelling(c) == c

\* The key a spelling was recorded under, once it has answered.
Key(c) == IF c \in aliases THEN g.is[c] ELSE c

\* A buffer's one dep is the series it retains.
DepsOf(n) == IF IsBuffer(n) THEN <<[cell |-> n[1], as |-> "plain"]>>
             ELSE g.node[n[1]].deps

-----------------------------------------------------------------------------

WalkInit ==
    /\ g \in Graphs
    /\ stack = <<>> /\ queue = [k \in DOMAIN g.outputs |-> [cell |-> g.outputs[k], as |-> "plain"]]
    /\ awaiting = "" /\ known = {} /\ aliases = {} /\ samples = {}
    /\ order = <<>> /\ phase = "walk"

\* A node is pushed once; met again on the stack, it reads what it feeds.
Record(n, under) ==
    IF n \notin known
    THEN /\ known' = known \cup {n}
         /\ stack' = Append(under, [node |-> n, walked |-> 0])
         /\ UNCHANGED phase
    ELSE /\ phase' = IF OnStack(n) THEN "cycle" ELSE phase
         /\ stack' = under
         /\ UNCHANGED known

\* The two visits of a retained read: ask for the cell first, key it after.
VisitRetained(dep, past, here) ==
    IF ~Settled(dep.cell) /\ dep.cell \notin aliases
    THEN /\ awaiting' = dep.cell
         /\ stack' = here
         /\ UNCHANGED <<known, samples, phase>>
    ELSE IF dep.as = "sample"
    THEN /\ samples' = samples \cup {Key(dep.cell)}
         /\ stack' = past
         /\ UNCHANGED <<awaiting, known, phase>>
    ELSE /\ Record(Buffer(Key(dep.cell)), past)
         /\ UNCHANGED <<awaiting, samples>>

VisitPlain(dep, past) ==
    /\ IF Settled(dep.cell)
       THEN /\ phase' = IF OnStack(Cell(dep.cell)) THEN "cycle" ELSE phase
            /\ UNCHANGED awaiting
       ELSE awaiting' = dep.cell /\ UNCHANGED phase
    /\ stack' = past
    /\ UNCHANGED <<known, samples>>

Visit(dep, past, here) ==
    IF dep.as \in {"buf", "sample"} THEN VisitRetained(dep, past, here)
    ELSE VisitPlain(dep, past)

Walking == phase = "walk" /\ awaiting = ""

\* The next dep of the node on top.
WalkDep ==
    /\ Walking /\ stack # <<>>
    /\ LET top == Last(stack)
       IN  /\ top.walked < Len(DepsOf(top.node))
           /\ Visit(DepsOf(top.node)[top.walked + 1],
                    [stack EXCEPT ![Len(stack)].walked = @ + 1], stack)
    /\ UNCHANGED <<g, queue, aliases, order>>

\* All its deps are stepped: so may it be.
WalkPop ==
    /\ Walking /\ stack # <<>>
    /\ LET top == Last(stack)
       IN  /\ top.walked = Len(DepsOf(top.node))
           /\ order' = Append(order, top.node)
    /\ stack' = Front(stack)
    /\ UNCHANGED <<g, queue, awaiting, known, aliases, samples, phase>>

\* An output is a dep of nobody's.
WalkOutput ==
    /\ Walking /\ stack = <<>> /\ queue # <<>>
    /\ Visit(Head(queue), <<>>, <<>>)
    /\ queue' = Tail(queue)
    /\ UNCHANGED <<g, aliases, order>>

\* Bug: an alias is recorded under its answer, and forgotten.
AnswerForgets ==
    /\ phase = "walk" /\ awaiting # ""
    /\ Record(Cell(g.is[awaiting]), stack)
    /\ awaiting' = ""
    /\ UNCHANGED <<g, queue, samples, order, aliases>>

\* The compiler's answer: the cell under its own key.
Answer ==
    /\ phase = "walk" /\ awaiting # ""
    /\ Record(Cell(g.is[awaiting]), stack)
    /\ aliases' = IF g.is[awaiting] = awaiting THEN aliases ELSE aliases \cup {awaiting}
    /\ awaiting' = ""
    /\ UNCHANGED <<g, queue, samples, order>>

Walk == WalkDep \/ WalkPop \/ WalkOutput \/ Answer

Walked == Walking /\ stack = <<>> /\ queue = <<>>
=============================================================================
