---------------------------- MODULE SweepProofs -----------------------------
(***************************************************************************)
(* Of any graph whose spellings name what is there: that the walk of       *)
(* graph! leaves every node behind all it reads (the post-order assertion  *)
(* of the demand pass is owed to sampled cycles, and to nothing else),     *)
(* that a sweep of it keeps a latch's episodes apart, that the picture     *)
(* drawn of it is the sweep that runs, and that suppressing what is not    *)
(* asked for shows in nothing.                                             *)
(***************************************************************************)
EXTENDS Shape, SequenceTheorems, FiniteSetTheorems, TLAPS

-----------------------------------------------------------------------------
(* A graph, as a value.                                                    *)

DepsIn(w, n) == IF Len(n) = 2 THEN <<[cell |-> n[1], as |-> "plain"]>> ELSE w.node[n[1]].deps
TargetIn(w, d) == IF d.as = "buf" THEN Buffer(w.is[d.cell]) ELSE Cell(w.is[d.cell])
RootsIn(w) == {Cell(r) : r \in w.roots}

Spelled(w) == DOMAIN w.is
Keys(w) == {c \in Spelled(w) : w.is[c] = c}
NodesIn(w) == {Cell(c) : c \in Keys(w) \ w.roots} \cup {Buffer(c) : c \in Keys(w)}
Written(w) == [cell : Spelled(w), as : Reading]
Places(w) == [node : NodesIn(w), walked : Nat]

\* Resolve's deps and targets are those of the graph it walks.
LEMMA AsWritten ==
    /\ \A n : DepsOf(n) = DepsIn(g, n)
    /\ \A d : Target(d) = TargetIn(g, d)
  BY DEF DepsOf, DepsIn, IsBuffer, Target, TargetIn

\* A cell is told from its buffer.
LEMMA Lengths == \A c : Len(Cell(c)) = 1 /\ Len(Buffer(c)) = 2 /\ Cell(c)[1] = c /\ Buffer(c)[1] = c
  BY DEF Cell, Buffer

\* What a spelling that is no root's is answered by.
LEMMA Answers ==
    ASSUME NEW w, IsGraph(w), NEW c \in Spelled(w), c \notin w.roots
    PROVE  /\ w.is[c] \in Keys(w) \ w.roots /\ w.is[c] \in DOMAIN w.node
           /\ Cell(w.is[c]) \in NodesIn(w)
  <1>1. w.is[c] \in DOMAIN w.node \ w.roots /\ w.is[w.is[c]] = w.is[c] /\ DOMAIN w.node \subseteq Spelled(w)
    BY DEF IsGraph, Spelled
  <1>2. w.is[c] \in Keys(w) \ w.roots
    BY <1>1 DEF Keys
  <1> QED
    BY <1>1, <1>2 DEF NodesIn

\* A node's deps are of the cells the graph writes.
LEMMA DepsAreWritten ==
    ASSUME NEW w, IsGraph(w), NEW n \in NodesIn(w)
    PROVE  DepsIn(w, n) \in Seq(Written(w))
  <1>1. CASE \E c \in Keys(w) \ w.roots : n = Cell(c)
    <2>1. PICK c \in Keys(w) \ w.roots : n = Cell(c)
      BY <1>1
    <2>2. c \in DOMAIN w.node
      BY Answers, <2>1 DEF Keys
    <2>3. w.node[c].deps \in Seq(Written(w))
      BY <2>2 DEF IsGraph, Written, Spelled
    <2>4. DepsIn(w, n) = w.node[c].deps
      <3>1. Len(n) = 1 /\ n[1] = c
        BY <2>1, Lengths
      <3> QED
        BY <3>1 DEF DepsIn
    <2> QED
      BY <2>3, <2>4
  <1>2. CASE \E c \in Keys(w) : n = Buffer(c)
    <2>1. PICK c \in Keys(w) : n = Buffer(c)
      BY <1>2
    <2> DEFINE d == [cell |-> c, as |-> "plain"]
    <2>2. d \in Written(w)
      BY <2>1 DEF Written, Keys, Reading
    <2>3. DepsIn(w, n) = <<d>>
      BY <2>1, Lengths DEF DepsIn
    <2> HIDE DEF d
    <2> QED
      BY <2>2, <2>3
  <1> QED
    BY <1>1, <1>2 DEF NodesIn

-----------------------------------------------------------------------------
(* What the walk has visited.                                              *)

\* A dep is visited once what it reads is stepped, or is the one being walked; a
\* sampled series need only be known.
Visited(w, d, walking, O, kn) ==
    IF d.as = "sample" THEN TargetIn(w, d) \in RootsIn(w) \cup kn
    ELSE TargetIn(w, d) \in RootsIn(w) \cup O \cup walking

\* What is being walked under place k of the stack.
Under(st, k, asked) == IF k < Len(st) THEN {st[k + 1].node} ELSE asked

StackVisited(w, st, asked, O, kn) ==
    \A k \in 1..Len(st) :
        /\ st[k].walked <= Len(DepsIn(w, st[k].node))
        /\ \A j \in 1..st[k].walked :
               Visited(w, DepsIn(w, st[k].node)[j], Under(st, k, asked), O, kn)

EarlierIn(ord, i) == {ord[x] : x \in 1..(i - 1)}

OrderVisited(w, ord, kn) ==
    \A i \in 1..Len(ord) : \A j \in 1..Len(DepsIn(w, ord[i])) :
        Visited(w, DepsIn(w, ord[i])[j], {}, EarlierIn(ord, i), kn)

\* A dep visited stays visited as more becomes known.
LEMMA VisitedWidens ==
    ASSUME NEW w, NEW d, NEW a, NEW b, NEW O, NEW P, NEW kn, NEW more,
           Visited(w, d, a, O, kn), O \cup a \subseteq P \cup b, kn \subseteq more
    PROVE  Visited(w, d, b, P, more)
  BY DEF Visited

\* A place on the stack is of a node, and how far its deps were walked.
LEMMA PlacesAre ==
    ASSUME NEW w, IsGraph(w), NEW st \in Seq(Places(w)), NEW k \in 1..Len(st)
    PROVE  /\ st[k].node \in NodesIn(w) /\ st[k].walked \in Nat
           /\ Len(DepsIn(w, st[k].node)) \in Nat
  <1>1. st[k] \in Places(w)
    OBVIOUS
  <1>2. st[k].node \in NodesIn(w) /\ st[k].walked \in Nat
    BY <1>1 DEF Places
  <1> QED
    BY <1>2, DepsAreWritten, LenProperties

\* A node met for the first time is walked over the one that met it.
LEMMA StackPush ==
    ASSUME NEW w, IsGraph(w), NEW st \in Seq(Places(w)), NEW n \in NodesIn(w), NEW O, NEW kn,
           StackVisited(w, st, {n}, O, kn),
           NEW up, up = Append(st, [node |-> n, walked |-> 0])
    PROVE  up \in Seq(Places(w)) /\ StackVisited(w, up, {}, O, kn \cup {n})
  <1> DEFINE m == Len(st)
             top == [node |-> n, walked |-> 0]
  <1>1. top \in Places(w) /\ top.node = n /\ top.walked = 0 /\ m \in Nat
    BY DEF Places
  <1> HIDE DEF top
  <1>2. /\ up \in Seq(Places(w)) /\ Len(up) = m + 1 /\ up[m + 1] = top
        /\ \A k \in 1..m : up[k] = st[k]
    BY <1>1 DEF top
  <1> HIDE DEF m
  <1>3. ASSUME NEW k \in 1..(m + 1)
        PROVE  /\ up[k].walked <= Len(DepsIn(w, up[k].node))
               /\ \A j \in 1..up[k].walked :
                      Visited(w, DepsIn(w, up[k].node)[j], Under(up, k, {}), O, kn \cup {n})
    <2>1. CASE k = m + 1
      <3>1. Len(DepsIn(w, n)) \in Nat
        BY DepsAreWritten, LenProperties
      <3> QED
        BY <1>1, <1>2, <2>1, <3>1
    <2>2. CASE k # m + 1
      <3>1. k \in 1..m /\ k < m + 1 /\ up[k] = st[k] /\ k + 1 \in 1..(m + 1)
        BY <1>1, <1>2, <2>2
      <3>2. Under(up, k, {}) = {up[k + 1].node}
        BY <1>2, <3>1 DEF Under
      <3>3. Under(st, k, {n}) = {up[k + 1].node}
        <4>1. CASE k < m
          <5>1. k + 1 \in 1..m
            BY <1>1, <3>1, <4>1
          <5> QED
            BY <1>2, <4>1, <5>1 DEF Under, m
        <4>2. CASE ~ (k < m)
          <5>1. k + 1 = m + 1
            BY <1>1, <3>1, <4>2
          <5> QED
            BY <1>1, <1>2, <4>2, <5>1 DEF Under, m
        <4> QED
          BY <4>1, <4>2
      <3>4. /\ st[k].walked <= Len(DepsIn(w, st[k].node))
            /\ \A j \in 1..st[k].walked :
                   Visited(w, DepsIn(w, st[k].node)[j], Under(st, k, {n}), O, kn)
        BY <3>1 DEF StackVisited, m
      <3>5. \A d : Visited(w, d, Under(st, k, {n}), O, kn) => Visited(w, d, Under(up, k, {}), O, kn \cup {n})
        BY <3>2, <3>3, VisitedWidens
      <3> QED
        BY <3>1, <3>4, <3>5
    <2> QED
      BY <2>1, <2>2
  <1> QED
    BY <1>2, <1>3 DEF StackVisited

\* The next dep of the node on top is visited.
LEMMA StackMarks ==
    ASSUME NEW w, IsGraph(w), NEW st \in Seq(Places(w)), st # <<>>, NEW O, NEW kn, NEW asked,
           StackVisited(w, st, {}, O, kn),
           NEW m, m = Len(st), NEW i, i = st[m].walked + 1,
           i <= Len(DepsIn(w, st[m].node)),
           Visited(w, DepsIn(w, st[m].node)[i], asked, O, kn),
           NEW on, on = [st EXCEPT ![m].walked = @ + 1]
    PROVE  on \in Seq(Places(w)) /\ StackVisited(w, on, asked, O, kn)
  <1>1. m \in 1..m /\ m \in Nat /\ i \in Nat /\ st[m] \in Places(w)
    BY PlacesAre
  <1> DEFINE top == [st[m] EXCEPT !.walked = @ + 1]
  <1>2. top \in Places(w) /\ top.node = st[m].node /\ top.walked = i
    BY <1>1 DEF Places
  <1> HIDE DEF top
  <1>3. on = [st EXCEPT ![m] = top]
    BY DEF top
  <1>4. /\ on \in Seq(Places(w)) /\ Len(on) = m /\ on[m] = top
        /\ \A k \in 1..m : k # m => on[k] = st[k]
    BY SMTT(30), <1>1, <1>2, <1>3
  <1>5. \A k \in 1..m : on[k].node = st[k].node
    BY <1>2, <1>4
  <1>6. ASSUME NEW k \in 1..m
        PROVE  /\ on[k].walked <= Len(DepsIn(w, on[k].node))
               /\ \A j \in 1..on[k].walked :
                      Visited(w, DepsIn(w, on[k].node)[j], Under(on, k, asked), O, kn)
    <2>0. /\ st[k].walked <= Len(DepsIn(w, st[k].node))
          /\ \A j \in 1..st[k].walked :
                 Visited(w, DepsIn(w, st[k].node)[j], Under(st, k, {}), O, kn)
      BY DEF StackVisited
    <2>1. CASE k = m
      <3>1. Under(on, k, asked) = asked /\ Under(st, k, {}) = {}
        BY <1>1, <1>4, <2>1 DEF Under
      <3>2. \A d : Visited(w, d, {}, O, kn) => Visited(w, d, asked, O, kn)
        BY VisitedWidens
      <3>3. \A j \in 1..i : j \in 1..(i - 1) \/ j = i
        BY <1>1
      <3>4. st[k].walked = i - 1
        BY <1>1, <2>1, PlacesAre
      <3>5. on[k].node = st[k].node /\ on[k].walked = i
        BY <1>2, <1>4, <2>1
      <3> DEFINE deps == DepsIn(w, st[k].node)
      <3>6. i <= Len(deps) /\ Visited(w, deps[i], asked, O, kn)
        BY <2>1
      <3>7. \A j \in 1..(i - 1) : Visited(w, deps[j], {}, O, kn)
        BY <2>0, <3>1, <3>4
      <3> HIDE DEF deps
      <3>8. \A j \in 1..i : Visited(w, deps[j], asked, O, kn)
        BY <3>2, <3>3, <3>6, <3>7
      <3> QED
        BY <3>1, <3>5, <3>6, <3>8 DEF deps
    <2>2. CASE k # m
      <3>1. k < m /\ k + 1 \in 1..m
        BY <1>1, <2>2
      <3>2. Under(on, k, asked) = Under(st, k, {})
        BY <1>4, <1>5, <3>1 DEF Under
      <3> QED
        BY <1>4, <2>0, <2>2, <3>2
    <2> QED
      BY <2>1, <2>2
  <1> QED
    BY <1>4, <1>6 DEF StackVisited

\* What was asked for is answered by a node already stepped.
LEMMA StackAnswered ==
    ASSUME NEW w, NEW st, NEW n, NEW O, NEW kn, StackVisited(w, st, {n}, O, kn), n \in O
    PROVE  StackVisited(w, st, {}, O, kn)
  <1>1. ASSUME NEW k, NEW d, Visited(w, d, Under(st, k, {n}), O, kn)
        PROVE  Visited(w, d, Under(st, k, {}), O, kn)
    <2>1. O \cup Under(st, k, {n}) \subseteq O \cup Under(st, k, {})
      BY DEF Under
    <2> QED
      BY <1>1, <2>1, VisitedWidens
  <1> QED
    BY <1>1 DEF StackVisited

\* A question does not disturb the stack.
LEMMA StackAsks ==
    ASSUME NEW w, NEW st, NEW asked, NEW O, NEW kn, StackVisited(w, st, {}, O, kn)
    PROVE  StackVisited(w, st, asked, O, kn)
  <1>1. ASSUME NEW k, NEW d, Visited(w, d, Under(st, k, {}), O, kn)
        PROVE  Visited(w, d, Under(st, k, asked), O, kn)
    <2>1. O \cup Under(st, k, {}) \subseteq O \cup Under(st, k, asked)
      BY DEF Under
    <2> QED
      BY <1>1, <2>1, VisitedWidens
  <1> QED
    BY <1>1 DEF StackVisited

-----------------------------------------------------------------------------
(* The walk's state, and what each of its moves does to it.                *)

Pending(w) == [cell : Spelled(w), as : {"plain"}]

\* What is known is stepped or being walked, and neither twice.
Frame(st, kn, ord) ==
    /\ kn = Range(ord) \cup {st[k].node : k \in 1..Len(st)}
    /\ IsInjective(ord)
    /\ \A k \in 1..Len(st) : st[k].node \notin Range(ord)
    /\ \A k, l \in 1..Len(st) : st[k].node = st[l].node => k = l

\* An output is reached, asked for, or still to be walked.
OutputsSeen(w, q, asked, kn) ==
    \A k \in 1..Len(w.outputs) :
        Cell(w.is[w.outputs[k]]) \in
            RootsIn(w) \cup kn \cup asked \cup {Cell(w.is[q[j].cell]) : j \in 1..Len(q)}

AliasesKnown(w, al, kn) == \A c \in al : Cell(w.is[c]) \in kn

WalkTyped(w, st, q, al, ord) ==
    /\ st \in Seq(Places(w)) /\ q \in Seq(Pending(w)) /\ ord \in Seq(NodesIn(w))
    /\ al \subseteq Spelled(w) \ w.roots

WalkSound(w, st, q, asked, kn, al, ord) ==
    /\ WalkTyped(w, st, q, al, ord)
    /\ StackVisited(w, st, asked, Range(ord), kn)
    /\ Frame(st, kn, ord)
    /\ OrderVisited(w, ord, kn)
    /\ OutputsSeen(w, q, asked, kn)
    /\ AliasesKnown(w, al, kn)

\* An order's deps stay known as more becomes known.
LEMMA OrderWidens ==
    ASSUME NEW w, NEW ord, NEW kn, NEW more, OrderVisited(w, ord, kn), kn \subseteq more
    PROVE  OrderVisited(w, ord, more)
  <1>1. \A d, O : Visited(w, d, {}, O, kn) => Visited(w, d, {}, O, more)
    BY VisitedWidens
  <1> QED
    BY <1>1 DEF OrderVisited

\* A question disturbs nothing.
LEMMA WalkAsks ==
    ASSUME NEW w, NEW st, NEW q, NEW asked, NEW kn, NEW al, NEW ord,
           WalkSound(w, st, q, {}, kn, al, ord)
    PROVE  WalkSound(w, st, q, asked, kn, al, ord)
  <1>1. StackVisited(w, st, asked, Range(ord), kn)
    BY StackAsks DEF WalkSound
  <1>2. OutputsSeen(w, q, asked, kn)
    BY DEF WalkSound, OutputsSeen
  <1> QED
    BY <1>1, <1>2 DEF WalkSound

\* The node on top, past the next of its deps.
NextDep(w, st) == DepsIn(w, st[Len(st)].node)[st[Len(st)].walked + 1]
HasNext(w, st) == st[Len(st)].walked + 1 <= Len(DepsIn(w, st[Len(st)].node))
Marked(st) == [st EXCEPT ![Len(st)].walked = @ + 1]

\* The next dep of the node on top is visited.
LEMMA WalkMarks ==
    ASSUME NEW w, IsGraph(w), NEW st, st # <<>>, NEW q, NEW asked, NEW kn, NEW al, NEW ord,
           WalkSound(w, st, q, {}, kn, al, ord), HasNext(w, st),
           Visited(w, NextDep(w, st), asked, Range(ord), kn)
    PROVE  /\ WalkSound(w, Marked(st), q, asked, kn, al, ord)
           /\ Len(Marked(st)) = Len(st)
           /\ \A k \in 1..Len(st) : Marked(st)[k].node = st[k].node
  <1> DEFINE m == Len(st)
             i == st[m].walked + 1
             on == Marked(st)
  <1>0. /\ m = Len(st) /\ i = st[m].walked + 1 /\ on = [st EXCEPT ![m].walked = @ + 1]
        /\ i <= Len(DepsIn(w, st[m].node))
        /\ Visited(w, DepsIn(w, st[m].node)[i], asked, Range(ord), kn)
    BY DEF Marked, HasNext, NextDep
  <1> HIDE DEF m, i, on
  <1>1. st \in Seq(Places(w)) /\ StackVisited(w, st, {}, Range(ord), kn)
    BY DEF WalkSound, WalkTyped
  <1>2. on \in Seq(Places(w)) /\ StackVisited(w, on, asked, Range(ord), kn)
    BY <1>0, <1>1, StackMarks
  <1>3. Len(on) = Len(st) /\ \A k \in 1..Len(st) : on[k].node = st[k].node
    <2>1. Len(on) = Len(st)
      BY <1>0, <1>1
    <2>2. ASSUME NEW k \in 1..Len(st)
          PROVE  on[k].node = st[k].node
      <3>1. st[k] \in Places(w)
        BY <1>1
      <3>2. CASE k = m
        <4>1. on[k] = [st[m] EXCEPT !.walked = @ + 1]
          BY <1>0, <1>1, <3>2
        <4> QED
          BY <3>1, <3>2, <4>1 DEF Places
      <3>3. CASE k # m
        BY <1>0, <1>1, <3>3
      <3> QED
        BY <3>2, <3>3
    <2> QED
      BY <2>1, <2>2
  <1>4. Frame(on, kn, ord)
    <2>1. {on[k].node : k \in 1..Len(on)} = {st[k].node : k \in 1..Len(st)}
      BY <1>3
    <2> QED
      BY <1>3, <2>1 DEF WalkSound, Frame
  <1>5. OutputsSeen(w, q, asked, kn)
    BY DEF WalkSound, OutputsSeen
  <1> QED
    BY <1>2, <1>3, <1>4, <1>5 DEF WalkSound, WalkTyped, on

\* A cell first asked for is pushed with none of its deps walked.
LEMMA WalkPushes ==
    ASSUME NEW w, IsGraph(w), NEW st, NEW q, NEW kn, NEW al, NEW ord, NEW n \in NodesIn(w),
           WalkSound(w, st, q, {n}, kn, al, ord), n \notin kn,
           NEW up, up = Append(st, [node |-> n, walked |-> 0])
    PROVE  WalkSound(w, up, q, {}, kn \cup {n}, al, ord)
  <1>1. st \in Seq(Places(w)) /\ StackVisited(w, st, {n}, Range(ord), kn)
    BY DEF WalkSound, WalkTyped
  <1>2. up \in Seq(Places(w)) /\ StackVisited(w, up, {}, Range(ord), kn \cup {n})
    BY <1>1, StackPush
  <1> DEFINE m == Len(st)
             top == [node |-> n, walked |-> 0]
  <1>3. top \in Places(w) /\ top.node = n /\ m \in Nat
    BY <1>1 DEF Places
  <1> HIDE DEF top
  <1>4. /\ Len(up) = m + 1 /\ up[m + 1] = top
        /\ \A k \in 1..m : up[k] = st[k]
    BY <1>1, <1>3 DEF top
  <1>5. /\ kn = Range(ord) \cup {st[k].node : k \in 1..m}
        /\ IsInjective(ord)
        /\ \A k \in 1..m : st[k].node \notin Range(ord)
        /\ \A k, l \in 1..m : st[k].node = st[l].node => k = l
    BY DEF WalkSound, Frame
  <1> HIDE DEF m
  <1>6. \A k \in 1..(m + 1) : k \in 1..m \/ k = m + 1
    BY <1>3
  <1>7. m + 1 \in 1..(m + 1) /\ 1..m \subseteq 1..(m + 1)
    BY <1>3
  <1>8. Frame(up, kn \cup {n}, ord)
    <2>1. {up[k].node : k \in 1..(m + 1)} = {st[k].node : k \in 1..m} \cup {n}
      BY <1>3, <1>4, <1>6, <1>7
    <2>2. \A k \in 1..(m + 1) : up[k].node \notin Range(ord)
      BY <1>3, <1>4, <1>5, <1>6
    <2>3. \A k \in 1..m : st[k].node # n
      BY <1>5
    <2>4. ASSUME NEW k \in 1..(m + 1), NEW l \in 1..(m + 1), up[k].node = up[l].node
          PROVE  k = l
      BY <1>3, <1>4, <1>5, <1>6, <2>3, <2>4
    <2> QED
      BY <1>4, <1>5, <2>1, <2>2, <2>4 DEF Frame
  <1>9. OrderVisited(w, ord, kn \cup {n})
    BY OrderWidens DEF WalkSound
  <1>10. OutputsSeen(w, q, {}, kn \cup {n}) /\ AliasesKnown(w, al, kn \cup {n})
    BY DEF WalkSound, OutputsSeen, AliasesKnown
  <1> QED
    BY <1>2, <1>8, <1>9, <1>10 DEF WalkSound, WalkTyped

\* A cell asked for again, and not on the stack, is answered.
LEMMA WalkIsAnswered ==
    ASSUME NEW w, NEW st, NEW q, NEW kn, NEW al, NEW ord, NEW n,
           WalkSound(w, st, q, {n}, kn, al, ord), n \in kn,
           ~\E k \in 1..Len(st) : st[k].node = n
    PROVE  WalkSound(w, st, q, {}, kn, al, ord)
  <1>1. n \in Range(ord)
    BY DEF WalkSound, Frame
  <1>2. StackVisited(w, st, {}, Range(ord), kn)
    BY <1>1, StackAnswered DEF WalkSound
  <1>3. OutputsSeen(w, q, {}, kn)
    BY DEF WalkSound, OutputsSeen
  <1> QED
    BY <1>2, <1>3 DEF WalkSound

\* A spelling that resolved to a known cell becomes its alias.
LEMMA WalkAliases ==
    ASSUME NEW w, NEW st, NEW q, NEW kn, NEW al, NEW ord, NEW c \in Spelled(w) \ w.roots,
           WalkSound(w, st, q, {}, kn, al, ord), Cell(w.is[c]) \in kn
    PROVE  WalkSound(w, st, q, {}, kn, al \cup {c}, ord)
  BY DEF WalkSound, WalkTyped, AliasesKnown

\* The next output is settled, or asked for.
LEMMA WalkDequeues ==
    ASSUME NEW w, NEW q, q # <<>>, NEW asked, NEW kn, NEW al, NEW ord,
           WalkSound(w, <<>>, q, {}, kn, al, ord),
           Cell(w.is[Head(q).cell]) \in RootsIn(w) \cup kn \cup asked
    PROVE  WalkSound(w, <<>>, Tail(q), asked, kn, al, ord)
  <1>1. q \in Seq(Pending(w))
    BY DEF WalkSound, WalkTyped
  <1>2. /\ Tail(q) \in Seq(Pending(w)) /\ Len(Tail(q)) = Len(q) - 1 /\ Len(q) \in Nat
        /\ \A i \in 1..Len(Tail(q)) : Tail(q)[i] = q[i + 1]
        /\ Head(q) = q[1]
    BY <1>1, HeadTailProperties, LenProperties
  <1>3. ASSUME NEW j \in 1..Len(q)
        PROVE  Cell(w.is[q[j].cell]) \in RootsIn(w) \cup kn \cup asked
                   \cup {Cell(w.is[Tail(q)[i].cell]) : i \in 1..Len(Tail(q))}
    <2>1. CASE j = 1
      BY <1>2, <2>1
    <2>2. CASE j # 1
      <3>1. j - 1 \in 1..Len(Tail(q)) /\ (j - 1) + 1 = j
        BY <1>2, <2>2
      <3>2. Tail(q)[j - 1] = q[j]
        BY <1>2, <3>1
      <3> QED
        BY <3>1, <3>2
    <2> QED
      BY <2>1, <2>2
  <1>4. OutputsSeen(w, Tail(q), asked, kn)
    BY <1>3 DEF WalkSound, OutputsSeen
  <1>5. WalkSound(w, <<>>, q, asked, kn, al, ord)
    BY WalkAsks
  <1> QED
    BY <1>2, <1>4, <1>5 DEF WalkSound, WalkTyped

\* All that the node on top reads is visited: it is stepped.
LEMMA WalkPops ==
    ASSUME NEW w, IsGraph(w), NEW st, st # <<>>, NEW q, NEW kn, NEW al, NEW ord,
           WalkSound(w, st, q, {}, kn, al, ord),
           NEW m, m = Len(st), NEW n, n = st[m].node, st[m].walked = Len(DepsIn(w, n)),
           NEW rest, rest = SubSeq(st, 1, m - 1), NEW ext, ext = Append(ord, n)
    PROVE  WalkSound(w, rest, q, {}, kn, al, ext)
  <1>1. /\ st \in Seq(Places(w)) /\ ord \in Seq(NodesIn(w))
        /\ StackVisited(w, st, {}, Range(ord), kn) /\ OrderVisited(w, ord, kn)
    BY DEF WalkSound, WalkTyped
  <1>2. m \in Nat /\ m \in 1..m /\ m - 1 \in Nat
    BY <1>1
  <1>3. n \in NodesIn(w)
    BY <1>1, <1>2, PlacesAre
  <1>4. /\ rest \in Seq(Places(w)) /\ Len(rest) = m - 1
        /\ \A k \in 1..(m - 1) : rest[k] = st[k] /\ k \in 1..m /\ k # m
    BY <1>1, <1>2
  <1>5. /\ ext \in Seq(NodesIn(w)) /\ Len(ext) = Len(ord) + 1 /\ Len(ord) \in Nat
        /\ ext[Len(ord) + 1] = n
        /\ \A i \in 1..Len(ord) : ext[i] = ord[i]
    BY <1>1, <1>3
  <1>6. DOMAIN ord = 1..Len(ord) /\ DOMAIN ext = 1..(Len(ord) + 1)
    BY <1>1, <1>5, LenProperties
  <1> DEFINE z == Len(ord)
  <1>7. z \in Nat /\ z + 1 \in 1..(z + 1) /\ \A i \in 1..(z + 1) : i \in 1..z \/ i = z + 1
    BY <1>5
  <1>8. Range(ext) = Range(ord) \cup {n}
    <2>1. 1..z \subseteq 1..(z + 1)
      BY <1>7
    <2> QED
      BY <1>5, <1>6, <1>7, <2>1 DEF Range
  <1>9. /\ kn = Range(ord) \cup {st[k].node : k \in 1..m}
        /\ IsInjective(ord)
        /\ \A k \in 1..m : st[k].node \notin Range(ord)
        /\ \A k, l \in 1..m : st[k].node = st[l].node => k = l
    BY DEF WalkSound, Frame
  <1>10. Frame(rest, kn, ext)
    <2>1. {st[k].node : k \in 1..m} = {rest[k].node : k \in 1..(m - 1)} \cup {n}
      <3>1. \A k \in 1..m : k \in 1..(m - 1) \/ k = m
        BY <1>2
      <3> QED
        BY <1>2, <1>4, <3>1
    <2>2. kn = Range(ext) \cup {rest[k].node : k \in 1..(m - 1)}
      BY <1>8, <1>9, <2>1
    <2>3. IsInjective(ext)
      <3>1. n \notin Range(ord)
        BY <1>2, <1>9
      <3>2. \A i \in 1..z : ord[i] # n
        BY <1>6, <3>1 DEF Range
      <3>3. \A i, j \in 1..z : ord[i] = ord[j] => i = j
        BY <1>6, <1>9 DEF IsInjective
      <3>4. ASSUME NEW i \in 1..(z + 1), NEW j \in 1..(z + 1), ext[i] = ext[j]
            PROVE  i = j
        BY <1>5, <1>7, <3>2, <3>3, <3>4
      <3> QED
        BY <1>6, <3>4 DEF IsInjective
    <2>4. \A k \in 1..(m - 1) : rest[k].node \notin Range(ext)
      BY <1>2, <1>4, <1>8, <1>9
    <2>5. \A k, l \in 1..(m - 1) : rest[k].node = rest[l].node => k = l
      BY <1>4, <1>9
    <2> QED
      BY <1>4, <2>2, <2>3, <2>4, <2>5 DEF Frame
  <1>11. StackVisited(w, rest, {}, Range(ext), kn)
    <2>1. ASSUME NEW k \in 1..(m - 1)
          PROVE  /\ rest[k].walked <= Len(DepsIn(w, rest[k].node))
                 /\ \A j \in 1..rest[k].walked :
                        Visited(w, DepsIn(w, rest[k].node)[j], Under(rest, k, {}), Range(ext), kn)
      <3>1. k \in 1..m /\ k < m /\ k + 1 \in 1..m /\ rest[k] = st[k]
        BY SMTT(30), <1>2, <1>4
      <3>2. /\ st[k].walked <= Len(DepsIn(w, st[k].node))
            /\ \A j \in 1..st[k].walked :
                   Visited(w, DepsIn(w, st[k].node)[j], Under(st, k, {}), Range(ord), kn)
        BY <1>1, <3>1 DEF StackVisited
      <3>3. Range(ord) \cup Under(st, k, {}) \subseteq Range(ext) \cup Under(rest, k, {})
        <4>1. CASE k + 1 = m
          <5>1. Under(st, k, {}) = {n}
            BY <3>1, <4>1 DEF Under
          <5> QED
            BY <1>8, <5>1
        <4>2. CASE k + 1 # m
          <5>1. k < m - 1 /\ k + 1 \in 1..(m - 1)
            BY <1>2, <3>1, <4>2
          <5>2. Under(rest, k, {}) = Under(st, k, {})
            BY <1>4, <3>1, <5>1 DEF Under
          <5> QED
            BY <1>8, <5>2
        <4> QED
          BY <4>1, <4>2
      <3>4. \A d : Visited(w, d, Under(st, k, {}), Range(ord), kn)
                       => Visited(w, d, Under(rest, k, {}), Range(ext), kn)
        BY <3>3, VisitedWidens
      <3> QED
        BY <3>1, <3>2, <3>4
    <2> QED
      BY <1>4, <2>1 DEF StackVisited
  <1>12. OrderVisited(w, ext, kn)
    <2>1. \A i \in 1..z : EarlierIn(ext, i) = EarlierIn(ord, i)
      <3>1. \A i \in 1..z : \A x \in 1..(i - 1) : x \in 1..z
        BY <1>7
      <3>2. \A i \in 1..z : \A x \in 1..(i - 1) : ext[x] = ord[x]
        BY <1>5, <3>1
      <3> QED
        BY <3>2 DEF EarlierIn
    <2>2. EarlierIn(ext, z + 1) = Range(ord)
      <3>1. (z + 1) - 1 = z
        BY <1>7
      <3> QED
        BY <1>5, <1>6, <3>1 DEF EarlierIn, Range
    <2>3. ASSUME NEW i \in 1..z, NEW j \in 1..Len(DepsIn(w, ext[i]))
          PROVE  Visited(w, DepsIn(w, ext[i])[j], {}, EarlierIn(ext, i), kn)
      BY <1>1, <1>5, <2>1 DEF OrderVisited
    <2>4. ASSUME NEW j \in 1..Len(DepsIn(w, n))
          PROVE  Visited(w, DepsIn(w, n)[j], {}, EarlierIn(ext, z + 1), kn)
      <3>1. Under(st, m, {}) = {}
        BY <1>2 DEF Under
      <3> QED
        BY <1>1, <1>2, <2>2, <3>1 DEF StackVisited
    <2> QED
      BY <1>5, <1>7, <2>3, <2>4 DEF OrderVisited
  <1> QED
    BY <1>4, <1>5, <1>10, <1>11, <1>12 DEF WalkSound, WalkTyped

-----------------------------------------------------------------------------
(* The walk keeps it.                                                      *)

Asked == IF awaiting = "" THEN {} ELSE {Cell(g.is[awaiting])}

\* While the walk goes on: what is asked for is no root's name, and what is known,
\* walked and stepped stands as above.  A cycle or an emitted graph owes nothing.
WalkInv ==
    /\ g \in Graphs
    /\ phase = "walk" =>
           /\ awaiting \in {""} \cup (Spelled(g) \ g.roots)
           /\ WalkSound(g, stack, queue, Asked, known, aliases, order)

\* What is known is of the graph.
LEMMA KnownAreNodes ==
    ASSUME NEW w, NEW st, NEW q, NEW asked, NEW kn, NEW al, NEW ord,
           WalkSound(w, st, q, asked, kn, al, ord)
    PROVE  kn \subseteq NodesIn(w)
  <1>1. st \in Seq(Places(w)) /\ ord \in Seq(NodesIn(w))
        /\ kn = Range(ord) \cup {st[k].node : k \in 1..Len(st)}
    BY DEF WalkSound, WalkTyped, Frame
  <1>2. Range(ord) \subseteq NodesIn(w)
    BY <1>1, LenProperties DEF Range
  <1>3. \A k \in 1..Len(st) : st[k].node \in NodesIn(w)
    <2>1. \A k \in 1..Len(st) : st[k] \in Places(w)
      BY <1>1
    <2> QED
      BY <2>1 DEF Places
  <1> QED
    BY <1>1, <1>2, <1>3

\* What is settled goes by its own name.
LEMMA SettledIsItself ==
    ASSUME IsGraph(g), known \subseteq NodesIn(g), NEW c, Settled(c)
    PROVE  g.is[c] = c
  <1>1. CASE c \in g.roots
    BY <1>1 DEF IsGraph
  <1>2. CASE Cell(c) \in known
    <2>1. Cell(c) \in NodesIn(g)
      BY <1>2
    <2>2. \A k : Cell(c) # Buffer(k)
      BY Lengths
    <2>3. PICK k \in Keys(g) : Cell(c) = Cell(k)
      BY <2>1, <2>2 DEF NodesIn
    <2>4. c = k
      BY <2>3, Lengths
    <2> QED
      BY <2>3, <2>4 DEF Keys
  <1> QED
    BY <1>1, <1>2 DEF Settled

\* A spelling settled or aliased is keyed by the cell it names.
LEMMA KeysAnswer ==
    ASSUME IsGraph(g), known \subseteq NodesIn(g), NEW c, Settled(c) \/ c \in aliases
    PROVE  Key(c) = g.is[c]
  BY SettledIsItself DEF Key

\* What is retained is a node.
LEMMA BuffersAreNodes ==
    ASSUME NEW w, IsGraph(w), NEW c \in Spelled(w)
    PROVE  Buffer(w.is[c]) \in NodesIn(w)
  <1>1. w.is[c] \in Keys(w)
    <2>1. CASE c \in w.roots
      BY <2>1 DEF IsGraph, Keys, Spelled
    <2>2. CASE c \notin w.roots
      BY <2>2, Answers
    <2> QED
      BY <2>1, <2>2
  <1> QED
    BY <1>1 DEF NodesIn

\* Walking a dep keeps the invariant.
LEMMA DepStep ==
    ASSUME WalkInv, WalkDep
    PROVE  WalkInv'
  <1> DEFINE m == Len(stack)
             n == stack[m].node
             i == stack[m].walked + 1
             dep == DepsIn(g, n)[i]
             on == Marked(stack)
             c == dep.cell
  <1>1. /\ phase = "walk" /\ awaiting = "" /\ stack # <<>> /\ g \in Graphs
        /\ WalkSound(g, stack, queue, {}, known, aliases, order)
        /\ g' = g /\ queue' = queue /\ aliases' = aliases /\ order' = order
    BY DEF WalkInv, WalkDep, Walking, Asked
  <1>2. IsGraph(g)
    BY <1>1, ResolveConstants
  <1>3. stack \in Seq(Places(g)) /\ m \in 1..m
    <2>1. stack \in Seq(Places(g))
      BY <1>1 DEF WalkSound, WalkTyped
    <2>2. Len(stack) \in Nat \ {0}
      BY <1>1, <2>1, EmptySeq
    <2> QED
      BY <2>1, <2>2
  <1>4. /\ n \in NodesIn(g) /\ stack[m].walked \in Nat /\ DepsIn(g, n) \in Seq(Written(g))
        /\ Len(DepsIn(g, n)) \in Nat
    BY <1>2, <1>3, PlacesAre, DepsAreWritten
  <1>5. i \in 1..Len(DepsIn(g, n)) /\ i <= Len(DepsIn(g, n)) /\ Visit(dep, on, stack)
    <2>1. stack[m].walked < Len(DepsIn(g, n)) /\ Visit(dep, on, stack)
      BY AsWritten DEF WalkDep, Last, Marked
    <2> QED
      BY <1>4, <2>1
  <1>6. dep \in Written(g)
    BY <1>4, <1>5
  <1>7. c \in Spelled(g) /\ dep.as \in Reading /\ c # ""
    BY <1>2, <1>6 DEF Written, IsGraph, Spelled
  <1>8. known \subseteq NodesIn(g)
    BY <1>1, KnownAreNodes
  <1>9. HasNext(g, stack) /\ dep = NextDep(g, stack) /\ on = Marked(stack)
    BY <1>5 DEF HasNext, NextDep
  <1>10. DOMAIN stack = 1..Len(stack)
    BY <1>3, LenProperties
  <1>11. known = Range(order) \cup {stack[k].node : k \in 1..Len(stack)}
    BY <1>1 DEF WalkSound, Frame
  <1> HIDE DEF dep, on, n, i, m
  <1>12. ASSUME NEW asked, Visited(g, dep, asked, Range(order), known)
         PROVE  /\ WalkSound(g, on, queue, asked, known, aliases, order)
                /\ Len(on) = Len(stack) /\ \A k \in 1..Len(stack) : on[k].node = stack[k].node
    BY <1>1, <1>2, <1>9, <1>12, WalkMarks
  <1>13. CASE dep.as \in {"buf", "sample"}
    <2>0. VisitRetained(dep, on, stack)
      BY <1>5, <1>13 DEF Visit
    <2>1. CASE ~Settled(c) /\ c \notin aliases
      <3>1. awaiting' = c /\ stack' = stack /\ known' = known
        BY <2>0, <2>1 DEF VisitRetained
      <3>2. c \notin g.roots
        BY <2>1 DEF Settled
      <3>3. WalkSound(g, stack, queue, Asked', known, aliases, order)
        BY <1>1, WalkAsks
      <3> QED
        BY <1>1, <1>7, <3>1, <3>2, <3>3 DEF WalkInv
    <2>2. CASE (Settled(c) \/ c \in aliases) /\ dep.as = "sample"
      <3>1. awaiting' = "" /\ stack' = on /\ known' = known
        BY <1>1, <2>0, <2>2 DEF VisitRetained
      <3>2. Cell(g.is[c]) \in RootsIn(g) \cup known
        <4>1. CASE c \in aliases
          BY <1>1, <4>1 DEF WalkSound, AliasesKnown
        <4>2. CASE Settled(c)
          <5>1. g.is[c] = c
            BY <1>2, <1>8, <4>2, SettledIsItself
          <5> QED
            BY <4>2, <5>1 DEF Settled, RootsIn
        <4> QED
          BY <2>2, <4>1, <4>2
      <3>3. Visited(g, dep, {}, Range(order), known)
        BY <2>2, <3>2 DEF Visited, TargetIn
      <3> QED
        BY <1>1, <1>12, <3>1, <3>3 DEF WalkInv, Asked
    <2>3. CASE (Settled(c) \/ c \in aliases) /\ dep.as # "sample"
      <3> DEFINE b == Buffer(g.is[c])
      <3>1. awaiting' = "" /\ Record(b, on) /\ dep.as = "buf"
        <4>1. Key(c) = g.is[c]
          BY <1>2, <1>8, <2>3, KeysAnswer
        <4> QED
          BY <1>1, <1>13, <2>0, <2>3, <4>1 DEF VisitRetained
      <3>2. b \in NodesIn(g)
        BY <1>2, <1>7, BuffersAreNodes
      <3>3. Visited(g, dep, {b}, Range(order), known)
        BY <3>1 DEF Visited, TargetIn
      <3> HIDE DEF b
      <3>4. /\ WalkSound(g, on, queue, {b}, known, aliases, order)
            /\ Len(on) = Len(stack) /\ \A k \in 1..Len(stack) : on[k].node = stack[k].node
        BY <1>12, <3>3
      <3>5. CASE b \notin known
        <4>1. known' = known \cup {b} /\ stack' = Append(on, [node |-> b, walked |-> 0])
          BY <3>1, <3>5 DEF Record
        <4>2. WalkSound(g, stack', queue, {}, known', aliases, order)
          BY <1>2, <3>2, <3>4, <3>5, <4>1, WalkPushes
        <4> QED
          BY <1>1, <3>1, <4>2 DEF WalkInv, Asked
      <3>6. CASE b \in known /\ ~OnStack(b)
        <4>1. known' = known /\ stack' = on
          BY <3>1, <3>6 DEF Record
        <4>2. ~\E k \in 1..Len(on) : on[k].node = b
          BY <1>10, <3>4, <3>6 DEF OnStack
        <4>3. WalkSound(g, on, queue, {}, known, aliases, order)
          BY <3>4, <3>6, <4>2, WalkIsAnswered
        <4> QED
          BY <1>1, <3>1, <4>1, <4>3 DEF WalkInv, Asked
      <3>7. CASE b \in known /\ OnStack(b)
        <4>1. phase' = "cycle"
          BY <3>1, <3>7 DEF Record
        <4> QED
          BY <1>1, <4>1 DEF WalkInv
      <3> QED
        BY <3>5, <3>6, <3>7
    <2> QED
      BY <2>1, <2>2, <2>3
  <1>14. CASE dep.as \notin {"buf", "sample"}
    <2>0. VisitPlain(dep, on) /\ stack' = on /\ known' = known
      BY <1>5, <1>14 DEF Visit, VisitPlain
    <2>1. CASE ~Settled(c)
      <3>1. awaiting' = c /\ c \notin g.roots
        BY <2>0, <2>1 DEF VisitPlain, Settled
      <3>2. Visited(g, dep, {Cell(g.is[c])}, Range(order), known)
        BY <1>14 DEF Visited, TargetIn
      <3>3. Asked' = {Cell(g.is[c])}
        BY <1>1, <1>7, <3>1 DEF Asked
      <3> QED
        BY <1>1, <1>7, <1>12, <2>0, <3>1, <3>2, <3>3 DEF WalkInv
    <2>2. CASE Settled(c) /\ ~OnStack(Cell(c))
      <3>1. awaiting' = ""
        BY <1>1, <2>0, <2>2 DEF VisitPlain
      <3>2. g.is[c] = c
        BY <1>2, <1>8, <2>2, SettledIsItself
      <3>3. Cell(c) \in RootsIn(g) \cup Range(order)
        BY <1>10, <1>11, <2>2 DEF Settled, OnStack, RootsIn
      <3>4. Visited(g, dep, {}, Range(order), known)
        BY <1>14, <3>2, <3>3 DEF Visited, TargetIn
      <3> QED
        BY <1>1, <1>12, <2>0, <3>1, <3>4 DEF WalkInv, Asked
    <2>3. CASE Settled(c) /\ OnStack(Cell(c))
      <3>1. phase' = "cycle"
        BY <2>0, <2>3 DEF VisitPlain
      <3> QED
        BY <1>1, <3>1 DEF WalkInv
    <2> QED
      BY <2>1, <2>2, <2>3
  <1> QED
    BY <1>13, <1>14

\* Stepping a node whose deps are walked keeps it.
LEMMA PopStep ==
    ASSUME WalkInv, WalkPop
    PROVE  WalkInv'
  <1> DEFINE m == Len(stack)
             n == stack[m].node
  <1>1. /\ phase = "walk" /\ awaiting = "" /\ stack # <<>> /\ g \in Graphs
        /\ WalkSound(g, stack, queue, {}, known, aliases, order)
        /\ g' = g /\ queue' = queue /\ aliases' = aliases /\ known' = known
        /\ awaiting' = "" /\ phase' = "walk"
    BY DEF WalkInv, WalkPop, Walking, Asked
  <1>2. /\ stack[m].walked = Len(DepsIn(g, n))
        /\ stack' = SubSeq(stack, 1, m - 1) /\ order' = Append(order, n)
    BY AsWritten DEF WalkPop, Last, Front
  <1>3. IsGraph(g)
    BY <1>1, ResolveConstants
  <1> HIDE DEF m, n
  <1>4. m = Len(stack) /\ n = stack[m].node
    BY DEF m, n
  <1>5. WalkSound(g, stack', queue, {}, known, aliases, order')
    BY <1>1, <1>2, <1>3, <1>4, WalkPops
  <1> QED
    BY <1>1, <1>5 DEF WalkInv, Asked

\* Asking for the next output keeps it.
LEMMA OutputStep ==
    ASSUME WalkInv, WalkOutput
    PROVE  WalkInv'
  <1> DEFINE c == Head(queue).cell
  <1>1. /\ phase = "walk" /\ awaiting = "" /\ stack = <<>> /\ queue # <<>> /\ g \in Graphs
        /\ WalkSound(g, <<>>, queue, {}, known, aliases, order)
        /\ g' = g /\ queue' = Tail(queue) /\ aliases' = aliases /\ order' = order
    BY DEF WalkInv, WalkOutput, Walking, Asked
  <1>2. IsGraph(g)
    BY <1>1, ResolveConstants
  <1>3. c \in Spelled(g) /\ Head(queue).as = "plain" /\ c # ""
    <2>1. queue \in Seq(Pending(g))
      BY <1>1 DEF WalkSound, WalkTyped
    <2>2. Head(queue) \in Pending(g)
      BY <1>1, <2>1, HeadTailProperties
    <2> QED
      BY <1>2, <2>2 DEF Pending, IsGraph, Spelled
  <1>4. VisitPlain(Head(queue), <<>>) /\ stack' = <<>> /\ known' = known
    BY <1>3 DEF WalkOutput, Visit, VisitPlain
  <1>5. known \subseteq NodesIn(g)
    BY <1>1, KnownAreNodes
  <1> HIDE DEF c
  <1>6. CASE ~Settled(c)
    <2>1. awaiting' = c /\ c \notin g.roots
      BY <1>4, <1>6 DEF VisitPlain, Settled, c
    <2>2. Asked' = {Cell(g.is[c])}
      BY <1>1, <1>3, <2>1 DEF Asked
    <2>3. WalkSound(g, <<>>, Tail(queue), {Cell(g.is[c])}, known, aliases, order)
      BY <1>1, WalkDequeues DEF c
    <2> QED
      BY <1>1, <1>3, <1>4, <2>1, <2>2, <2>3 DEF WalkInv
  <1>7. CASE Settled(c)
    <2>1. awaiting' = ""
      BY <1>1, <1>4, <1>7 DEF VisitPlain, c
    <2>2. g.is[c] = c
      BY <1>2, <1>5, <1>7, SettledIsItself
    <2>3. Cell(g.is[c]) \in RootsIn(g) \cup known \cup {}
      BY <1>7, <2>2 DEF Settled, RootsIn
    <2>4. WalkSound(g, <<>>, Tail(queue), {}, known, aliases, order)
      BY <1>1, <2>3, WalkDequeues DEF c
    <2> QED
      BY <1>1, <1>4, <2>1, <2>4 DEF WalkInv, Asked
  <1> QED
    BY <1>6, <1>7

\* The compiler's answer keeps it.
LEMMA AnswerStep ==
    ASSUME WalkInv, Answer
    PROVE  WalkInv'
  <1> DEFINE n == Cell(g.is[awaiting])
  <1>1. /\ phase = "walk" /\ awaiting # "" /\ g \in Graphs
        /\ awaiting \in Spelled(g) \ g.roots
        /\ WalkSound(g, stack, queue, {n}, known, aliases, order)
        /\ g' = g /\ queue' = queue /\ order' = order /\ awaiting' = ""
        /\ Record(n, stack)
        /\ aliases' \in {aliases, aliases \cup {awaiting}}
    BY DEF WalkInv, Answer, Asked
  <1>2. IsGraph(g)
    BY <1>1, ResolveConstants
  <1>3. n \in NodesIn(g)
    BY <1>1, <1>2, Answers
  <1>4. DOMAIN stack = 1..Len(stack)
    BY <1>1, LenProperties DEF WalkSound, WalkTyped
  <1> HIDE DEF n
  <1>5. ASSUME WalkSound(g, stack', queue, {}, known', aliases, order), n \in known'
        PROVE  WalkInv'
    <2>1. WalkSound(g, stack', queue, {}, known', aliases \cup {awaiting}, order)
      BY <1>1, <1>5, WalkAliases DEF n
    <2>2. WalkSound(g, stack', queue, {}, known', aliases', order)
      BY <1>1, <1>5, <2>1
    <2> QED
      BY <1>1, <2>2 DEF WalkInv, Asked
  <1>6. CASE n \notin known
    <2>1. known' = known \cup {n} /\ stack' = Append(stack, [node |-> n, walked |-> 0])
      BY <1>1, <1>6 DEF Record
    <2>2. WalkSound(g, stack', queue, {}, known', aliases, order)
      BY <1>1, <1>2, <1>3, <1>6, <2>1, WalkPushes
    <2> QED
      BY <1>5, <2>1, <2>2
  <1>7. CASE n \in known /\ ~OnStack(n)
    <2>1. known' = known /\ stack' = stack
      BY <1>1, <1>7 DEF Record
    <2>2. ~\E k \in 1..Len(stack) : stack[k].node = n
      BY <1>4, <1>7 DEF OnStack
    <2>3. WalkSound(g, stack', queue, {}, known', aliases, order)
      BY <1>1, <1>7, <2>1, <2>2, WalkIsAnswered
    <2> QED
      BY <1>5, <1>7, <2>1, <2>3
  <1>8. CASE n \in known /\ OnStack(n)
    <2>1. phase' = "cycle"
      BY <1>1, <1>8 DEF Record
    <2> QED
      BY <1>1, <2>1 DEF WalkInv
  <1> QED
    BY <1>6, <1>7, <1>8

\* A walk that asked for nothing keeps it.
LEMMA WalkStarts ==
    ASSUME WalkInit
    PROVE  WalkInv
  <1>1. /\ g \in Graphs /\ stack = <<>> /\ awaiting = "" /\ known = {} /\ aliases = {}
        /\ order = <<>>
        /\ queue = [k \in DOMAIN g.outputs |-> [cell |-> g.outputs[k], as |-> "plain"]]
    BY DEF WalkInit
  <1>2. IsGraph(g)
    BY <1>1, ResolveConstants
  <1>3. /\ g.outputs \in Seq(Spelled(g)) /\ Len(g.outputs) \in Nat
        /\ DOMAIN g.outputs = 1..Len(g.outputs)
        /\ \A k \in 1..Len(g.outputs) : g.outputs[k] \in Spelled(g)
    <2>1. g.outputs \in Seq(Spelled(g))
      BY <1>2 DEF IsGraph, Spelled
    <2> QED
      BY <2>1, LenProperties, ElementOfSeq
  <1>4. /\ queue \in Seq(Pending(g)) /\ Len(queue) = Len(g.outputs)
        /\ \A k \in 1..Len(g.outputs) : queue[k].cell = g.outputs[k]
    <2>1. \A k \in 1..Len(g.outputs) : [cell |-> g.outputs[k], as |-> "plain"] \in Pending(g)
      BY <1>3 DEF Pending
    <2>2. queue = [k \in 1..Len(g.outputs) |-> [cell |-> g.outputs[k], as |-> "plain"]]
      BY <1>1, <1>3
    <2>3. queue \in [1..Len(g.outputs) -> Pending(g)]
      BY <2>1, <2>2
    <2>4. queue \in Seq(Pending(g))
      BY <1>3, <2>3, SeqDef
    <2>5. Len(queue) = Len(g.outputs)
      BY <1>3, <2>3, <2>4, LenProperties
    <2>6. \A k \in 1..Len(g.outputs) : queue[k] = [cell |-> g.outputs[k], as |-> "plain"]
      BY <2>2
    <2>7. ASSUME NEW k \in 1..Len(g.outputs)
          PROVE  queue[k].cell = g.outputs[k]
      <3>1. queue[k] = [cell |-> g.outputs[k], as |-> "plain"]
        BY <2>6
      <3> QED
        BY <3>1
    <2> QED
      BY <2>4, <2>5, <2>7
  <1>5. Range(<<>>) = {}
    BY DEF Range
  <1>6. WalkTyped(g, <<>>, queue, {}, <<>>) /\ StackVisited(g, <<>>, {}, {}, {})
    BY <1>4 DEF WalkTyped, StackVisited
  <1>7. Frame(<<>>, {}, <<>>) /\ OrderVisited(g, <<>>, {}) /\ AliasesKnown(g, {}, {})
    BY <1>5 DEF Frame, OrderVisited, AliasesKnown, IsInjective
  <1>8. OutputsSeen(g, queue, {}, {})
    BY <1>4 DEF OutputsSeen
  <1>9. WalkSound(g, <<>>, queue, {}, {}, {}, <<>>)
    BY <1>5, <1>6, <1>7, <1>8 DEF WalkSound
  <1> QED
    BY <1>1, <1>9 DEF WalkInv, Asked

\* The walk's invariant holds of graph!, through the checks and every tick.
THEOREM WalkInvariance == SweepSpec => []WalkInv
  <1>1. SweepInit => WalkInv
    BY WalkStarts DEF SweepInit
  <1>2. WalkInv /\ [SweepNext]_vars => WalkInv'
    <2> SUFFICES ASSUME WalkInv, [SweepNext]_vars
                 PROVE  WalkInv'
      OBVIOUS
    <2>1. CASE Walk
      BY <2>1, DepStep, PopStep, OutputStep, AnswerStep DEF Walk
    <2>2. CASE Emit
      <3>1. g' = g /\ phase' # "walk"
        BY <2>2 DEF Emit
      <3> QED
        BY <3>1 DEF WalkInv
    <2>3. CASE Tick
      <3>1. g' = g /\ phase' = phase /\ phase # "walk"
        BY <2>3 DEF Tick, walkVars
      <3> QED
        BY <3>1 DEF WalkInv
    <2>4. CASE UNCHANGED vars
      BY <2>4 DEF vars, walkVars, WalkInv, Asked
    <2> QED
      BY <2>1, <2>2, <2>3, <2>4 DEF SweepNext, Expand
  <1> QED
    BY <1>1, <1>2, PTL DEF SweepSpec

\* Whatever the wiring, the walk that ends in a graph steps every node once, steps
\* all the outputs reach, and steps none before what it reads: what is sampled
\* alone may come after its reader.
THEOREM WalkStepsInOrder == SweepSpec => []StepsInOrder
  <1>1. WalkInv => StepsInOrder
    <2> SUFFICES ASSUME WalkInv, Walked
                 PROVE  /\ IsInjective(order) /\ Outputs \ {Cell(r) : r \in g.roots} \subseteq Nodes
                        /\ \A n \in Nodes : \A d \in Deps(n) :
                               \/ Target(d) \in {Cell(r) : r \in g.roots}
                               \/ Target(d) \in Nodes /\ (d.as = "sample" \/ At(Target(d)) < At(n))
      BY DEF StepsInOrder
    <2>1. /\ g \in Graphs /\ stack = <<>> /\ queue = <<>>
          /\ WalkSound(g, <<>>, <<>>, {}, known, aliases, order)
      BY DEF WalkInv, Walked, Walking, Asked
    <2>2. IsGraph(g)
      BY <2>1, ResolveConstants
    <2>3. known = Nodes /\ IsInjective(order)
      BY <2>1 DEF WalkSound, Frame, Nodes
    <2>4. order \in Seq(NodesIn(g)) /\ Len(order) \in Nat /\ DOMAIN order = 1..Len(order)
      BY <2>1, LenProperties DEF WalkSound, WalkTyped
    <2>5. \A x \in 1..Len(order) : At(order[x]) = x
      BY <2>3, <2>4 DEF At, IsInjective
    <2>6. Outputs \ {Cell(r) : r \in g.roots} \subseteq Nodes
      <3>1. DOMAIN g.outputs = 1..Len(g.outputs)
        BY <2>2, LenProperties DEF IsGraph
      <3>2. \A k \in 1..Len(g.outputs) : Cell(g.is[g.outputs[k]]) \in RootsIn(g) \cup known
        BY <2>1 DEF WalkSound, OutputsSeen
      <3> QED
        BY <2>3, <3>1, <3>2 DEF Outputs, RootsIn
    <2>7. ASSUME NEW n \in Nodes, NEW d \in Deps(n)
          PROVE  \/ Target(d) \in {Cell(r) : r \in g.roots}
                 \/ Target(d) \in Nodes /\ (d.as = "sample" \/ At(Target(d)) < At(n))
      <3>1. PICK i \in 1..Len(order) : n = order[i]
        BY <2>4, <2>7 DEF Nodes, Range
      <3>2. n \in NodesIn(g)
        BY <2>4, <3>1
      <3>3. DepsIn(g, n) \in Seq(Written(g))
        BY <2>2, <3>2, DepsAreWritten
      <3>4. PICK j \in 1..Len(DepsIn(g, n)) : d = DepsIn(g, n)[j]
        BY <2>7, <3>3, LenProperties, AsWritten DEF Deps, Range
      <3>5. Visited(g, d, {}, EarlierIn(order, i), known)
        BY <2>1, <3>1, <3>4 DEF WalkSound, OrderVisited
      <3>6. CASE d.as = "sample"
        BY <2>3, <3>5, <3>6, AsWritten DEF Visited, RootsIn
      <3>7. CASE d.as # "sample" /\ Target(d) \notin RootsIn(g)
        <4>1. PICK x \in 1..(i - 1) : Target(d) = order[x]
          BY <3>5, <3>7, AsWritten DEF Visited, EarlierIn
        <4>2. x \in 1..Len(order) /\ x < i
          BY <2>4, <3>1, <4>1
        <4>3. order[x] \in Nodes /\ At(order[x]) = x /\ At(n) = i
          BY <2>4, <2>5, <3>1, <4>2 DEF Nodes, Range
        <4> QED
          BY <4>1, <4>2, <4>3
      <3> QED
        BY <3>6, <3>7 DEF RootsIn
    <2> QED
      BY <2>3, <2>6, <2>7
  <1> QED
    BY <1>1, WalkInvariance, PTL

-----------------------------------------------------------------------------
(* Episodes are apart, tick by tick.                                       *)

Ticking == INSTANCE FoldTheorems WITH Op <- LAMBDA env, s, n : Step(s, n, env[1], env[2], env[3])

\* A latch as Armed seals it: its one dep folds, so nothing gates it and it is never
\* anchored.  A hand-written latch need not be.
Sealed(w) ==
    \A c \in DOMAIN w.node : w.node[c].latch =>
        ~w.node[c].anchored /\ \A j \in DOMAIN w.node[c].deps : w.node[c].deps[j].as # "gate"

\* What the graph holds is of its nodes.
Shaped(s) ==
    /\ s = [held |-> s.held, carry |-> s.carry, period |-> s.period, pending |-> s.pending,
            standing |-> s.standing, out |-> s.out, ran |-> s.ran]
    /\ s.held = [n \in Nodes |-> s.held[n]] /\ s.out = [n \in Nodes |-> s.out[n]]

\* What a latch that is down gates holds nothing, and a latch that reads true is up.
Apart(s) ==
    /\ \A l \in Latches : s.held[l] = {} => \A n \in Nodes : l \in Gates(n) => s.held[n] = {}
    /\ \A l \in Latches : s.out[l] # {} => s.held[l] # {}

Emitted == g \in Graphs /\ order \in Seq(NodesIn(g))

\* A sealed latch is ungated, not anchored, and keeps state.
LEMMA LatchesAreSealed ==
    ASSUME Emitted, \A w \in Graphs : Sealed(w), NEW l \in Latches
    PROVE  Gates(l) = {} /\ ~IsAnchored(l) /\ Keeps(l)
  <1>1. IsGraph(g) /\ Sealed(g)
    BY ResolveConstants DEF Emitted
  <1>2. l \in Nodes /\ ~IsBuffer(l) /\ g.node[l[1]].latch
    BY DEF Latches, IsLatch
  <1>3. l \in NodesIn(g)
    BY <1>2, LenProperties DEF Emitted, Nodes, Range
  <1>4. PICK c \in Keys(g) \ g.roots : l = Cell(c)
    BY <1>2, <1>3, Lengths DEF NodesIn, IsBuffer
  <1>5. c \in DOMAIN g.node /\ l[1] = c
    BY <1>1, <1>4, Answers, Lengths DEF Keys
  <1>6. DepsOf(l) = g.node[c].deps
    BY <1>2, <1>5 DEF DepsOf
  <1>7. \A d \in Deps(l) : d.as # "gate"
    BY <1>1, <1>2, <1>5, <1>6 DEF Sealed, Deps, Range
  <1>8. Gates(l) = {}
    BY <1>7 DEF Gates, Data
  <1>9. ~IsAnchored(l)
    BY <1>1, <1>2, <1>5 DEF Sealed, IsAnchored
  <1>10. Keeps(l)
    BY <1>2 DEF Keeps, IsLatch
  <1> QED
    BY <1>8, <1>9, <1>10

\* A step runs the node if it is demanded and its gates read true; a node that does
\* not run, or is not admitted, leaves its out empty.
Effect(s, n, batch, ts, awake, r) ==
    LET ran == (awake \/ Demanded(s, n)) /\ Open(s, n)
        a == Advance(s, n, batch)
    IN  /\ Shaped(r) /\ r.standing = s.standing
        /\ r.ran = IF ran THEN s.ran \cup {n} ELSE s.ran
        /\ IF ran /\ Admits(s, n, ts)
           THEN r.held = [s.held EXCEPT ![n] = a.held] /\ r.out = [s.out EXCEPT ![n] = a.out]
           ELSE r.held = s.held /\ r.out = [s.out EXCEPT ![n] = {}]
        /\ r.period = [s.period EXCEPT ![n] = IF Clocked(n) THEN Period(n, ts) ELSE @]
        /\ r.carry = IF ran /\ Admits(s, n, ts) /\ ~IsBuffer(n)
                     THEN Carried(s, n[1], a.out) ELSE s.carry

\* That is what a step does.
LEMMA StepEffect ==
    ASSUME NEW s, Shaped(s), NEW n \in Nodes, NEW batch, NEW ts, NEW awake,
           NEW r, r = Step(s, n, batch, ts, awake)
    PROVE  Effect(s, n, batch, ts, awake, r)
  <1> DEFINE ran == (awake \/ Demanded(s, n)) /\ Open(s, n)
             t == [s EXCEPT !.period[n] = IF Clocked(n) THEN Period(n, ts) ELSE @,
                            !.ran = IF ran THEN @ \cup {n} ELSE @]
             a == Advance(s, n, batch)
  <1>1. /\ t = [held |-> s.held, carry |-> s.carry, period |-> t.period, pending |-> s.pending,
                standing |-> s.standing, out |-> s.out, ran |-> t.ran]
        /\ t.held = s.held /\ t.out = s.out /\ t.carry = s.carry
        /\ t.pending = s.pending /\ t.standing = s.standing
        /\ t.ran = IF ran THEN s.ran \cup {n} ELSE s.ran
        /\ t.period = [s.period EXCEPT ![n] = IF Clocked(n) THEN Period(n, ts) ELSE @]
    <2> DEFINE clock == IF Clocked(n) THEN Period(n, ts) ELSE s.period[n]
               more == IF ran THEN s.ran \cup {n} ELSE s.ran
    <2>1. t = [s EXCEPT !.period[n] = clock, !.ran = more]
      OBVIOUS
    <2> HIDE DEF clock, more, t
    <2> DEFINE periods == [s.period EXCEPT ![n] = clock]
    <2>2. t = [held |-> s.held, carry |-> s.carry, period |-> periods, pending |-> s.pending,
               standing |-> s.standing, out |-> s.out, ran |-> more]
      BY <2>1 DEF Shaped
    <2> HIDE DEF periods
    <2>3. t.ran = more /\ t.period = periods
      BY <2>2
    <2>4. periods = [s.period EXCEPT ![n] = IF Clocked(n) THEN Period(n, ts) ELSE @]
      BY DEF periods, clock
    <2> QED
      BY <2>2, <2>3, <2>4 DEF more
  <1>2. r = IF ran /\ Admits(s, n, ts)
            THEN [t EXCEPT !.held[n] = a.held, !.out[n] = a.out,
                           !.carry = IF IsBuffer(n) THEN @ ELSE Carried(s, n[1], a.out)]
            ELSE [t EXCEPT !.out[n] = {}]
    BY DEF Step
  <1> HIDE DEF t, a
  <1>3. CASE ran /\ Admits(s, n, ts)
    <2> DEFINE carry == IF IsBuffer(n) THEN t.carry ELSE Carried(s, n[1], a.out)
    <2>1. r = [t EXCEPT !.held[n] = a.held, !.out[n] = a.out, !.carry = carry]
      BY <1>2, <1>3
    <2> HIDE DEF carry
    <2> DEFINE holds == [s.held EXCEPT ![n] = a.held]
               outs == [s.out EXCEPT ![n] = a.out]
    <2>2. r = [t EXCEPT !.held = holds, !.out = outs, !.carry = carry]
      BY <1>1, <2>1
    <2>3. r = [held |-> [s.held EXCEPT ![n] = a.held], carry |-> carry, period |-> t.period,
               pending |-> s.pending, standing |-> s.standing,
               out |-> [s.out EXCEPT ![n] = a.out], ran |-> t.ran]
      <3> HIDE DEF holds, outs
      <3> SUFFICES r = [held |-> holds, carry |-> carry, period |-> t.period,
                        pending |-> s.pending, standing |-> s.standing, out |-> outs,
                        ran |-> t.ran]
        BY DEF holds, outs
      <3> DEFINE one == [t EXCEPT !.held = holds]
                 two == [one EXCEPT !.out = outs]
      <3>1. r = [two EXCEPT !.carry = carry]
        BY <2>2
      <3>2. one = [held |-> holds, carry |-> s.carry, period |-> t.period,
                   pending |-> s.pending, standing |-> s.standing, out |-> s.out, ran |-> t.ran]
        BY <1>1
      <3> HIDE DEF one
      <3>3. two = [held |-> holds, carry |-> s.carry, period |-> t.period,
                   pending |-> s.pending, standing |-> s.standing, out |-> outs, ran |-> t.ran]
        BY <3>2
      <3> HIDE DEF two
      <3> QED
        BY <3>1, <3>3
    <2>4. r.held = [s.held EXCEPT ![n] = a.held] /\ r.out = [s.out EXCEPT ![n] = a.out]
      BY <2>3
    <2>5. Shaped(r)
      BY <2>3, <2>4 DEF Shaped
    <2>6. r.standing = s.standing /\ r.ran = t.ran /\ r.period = t.period /\ r.carry = carry
      BY <2>3
    <2>7. r.carry = IF ~IsBuffer(n) THEN Carried(s, n[1], a.out) ELSE s.carry
      BY <1>1, <2>6 DEF carry
    <2> QED
      BY <1>1, <1>3, <2>4, <2>5, <2>6, <2>7 DEF a, Effect
  <1>4. CASE ~ (ran /\ Admits(s, n, ts))
    <2>1. r = [t EXCEPT !.out[n] = {}]
      BY <1>2, <1>4
    <2>2. r = [held |-> s.held, carry |-> s.carry, period |-> t.period,
               pending |-> s.pending, standing |-> s.standing,
               out |-> [s.out EXCEPT ![n] = {}], ran |-> t.ran]
      BY <1>1, <2>1
    <2>3. r.held = s.held /\ r.out = [s.out EXCEPT ![n] = {}]
      BY <2>2
    <2>4. Shaped(r)
      BY <2>2, <2>3 DEF Shaped
    <2>5. r.standing = s.standing /\ r.ran = t.ran /\ r.period = t.period /\ r.carry = s.carry
      BY <2>2
    <2> QED
      BY <1>1, <1>4, <2>3, <2>4, <2>5 DEF Effect
  <1> QED
    BY <1>3, <1>4

\* A node's step leaves nothing behind a latch that is down.
LEMMA StepKeepsApart ==
    ASSUME Emitted, \A w \in Graphs : Sealed(w),
           NEW s, Shaped(s), Apart(s), NEW n \in Nodes, NEW batch, NEW ts, NEW awake,
           NEW r, r = Step(s, n, batch, ts, awake)
    PROVE  Shaped(r) /\ Apart(r)
  <1>1. /\ Shaped(r)
        /\ \/ r.held = s.held /\ r.out = [s.out EXCEPT ![n] = {}]
           \/ /\ Open(s, n)
              /\ r.held = [s.held EXCEPT ![n] = Advance(s, n, batch).held]
              /\ r.out = [s.out EXCEPT ![n] = Advance(s, n, batch).out]
    <2>1. Effect(s, n, batch, ts, awake, r)
      BY StepEffect
    <2> QED
      BY <2>1, Zenon DEF Effect
  <1>2. /\ \A l \in Latches : l \in Nodes
        /\ \A m \in Nodes : s.held = [k \in Nodes |-> s.held[k]] /\ s.out = [k \in Nodes |-> s.out[k]]
    BY DEF Latches, Shaped
  <1>3. CASE r.held = s.held /\ r.out = [s.out EXCEPT ![n] = {}]
    <2>1. \A l \in Latches : r.out[l] # {} => s.out[l] # {}
      BY <1>2, <1>3
    <2> QED
      BY <1>1, <1>3, <2>1 DEF Apart
  <1>4. CASE /\ Open(s, n)
             /\ r.held = [s.held EXCEPT ![n] = Advance(s, n, batch).held]
             /\ r.out = [s.out EXCEPT ![n] = Advance(s, n, batch).out]
    <2> DEFINE h == Advance(s, n, batch).held
               o == Advance(s, n, batch).out
    <2>1. /\ r.held[n] = h /\ r.out[n] = o
          /\ \A k \in Nodes : k # n => r.held[k] = s.held[k] /\ r.out[k] = s.out[k]
      BY <1>2, <1>4
    <2>2. n \in Latches => s.held[n] \subseteq h /\ (o # {} => h # {})
      <3> SUFFICES ASSUME n \in Latches
                   PROVE  s.held[n] \subseteq h /\ (o # {} => h # {})
        OBVIOUS
      <3>1. ~IsAnchored(n) /\ Keeps(n)
        BY LatchesAreSealed
      <3>2. h = s.held[n] \cup Reads(s, n, batch) /\ o \in {{}, s.held[n] \cup Reads(s, n, batch)}
        BY <3>1 DEF Advance, Before
      <3> QED
        BY <3>2
    <2>3. \A l \in Latches : l \in Gates(n) => l # n /\ s.held[l] # {}
      <3>1. \A l \in Gates(n) : s.out[l] # {}
        BY <1>4 DEF Open
      <3> QED
        BY <3>1, LatchesAreSealed DEF Apart
    <2> HIDE DEF h, o
    <2>4. ASSUME NEW l \in Latches, r.held[l] = {}, NEW k \in Nodes, l \in Gates(k)
          PROVE  r.held[k] = {}
      <3>1. s.held[l] = {}
        BY <1>2, <2>1, <2>2, <2>4
      <3>2. k # n
        BY <2>3, <2>4, <3>1
      <3> QED
        BY <2>1, <2>4, <3>1, <3>2 DEF Apart
    <2>5. ASSUME NEW l \in Latches, r.out[l] # {}
          PROVE  r.held[l] # {}
      BY <1>2, <2>1, <2>2, <2>5 DEF Apart
    <2> QED
      BY <1>1, <2>4, <2>5 DEF Apart
  <1> QED
    BY <1>1, <1>3, <1>4

\* What the commutation spends.
Spent(s, n) == n \in s.pending \/ Gates(n) \cap s.pending # {}

\* Commutation empties a latch together with all it gates.
LEMMA CommutateKeepsApart ==
    ASSUME Emitted, \A w \in Graphs : Sealed(w), NEW s, Shaped(s), Apart(s),
           NEW c, c = Commutate(s)
    PROVE  /\ Shaped(c)
           /\ \A l \in Latches : c.held[l] = {} => \A n \in Nodes : l \in Gates(n) => c.held[n] = {}
           /\ c.held = [n \in Nodes |-> IF Spent(s, n) THEN {} ELSE s.held[n]]
           /\ c.period = [n \in Nodes |-> IF Spent(s, n) THEN -1 ELSE s.period[n]]
           /\ c.carry = s.carry
  <1> DEFINE spent(n) == n \in s.pending \/ Gates(n) \cap s.pending # {}
             holds == [n \in Nodes |-> IF spent(n) THEN {} ELSE s.held[n]]
             periods == [n \in Nodes |-> IF spent(n) THEN -1 ELSE s.period[n]]
  <1>1. c = [s EXCEPT !.held = holds, !.period = periods, !.pending = {}]
    BY DEF Commutate
  <1>2. \A n \in Nodes : holds[n] = IF spent(n) THEN {} ELSE s.held[n]
    OBVIOUS
  <1>3. holds = [n \in Nodes |-> holds[n]]
    OBVIOUS
  <1>4. \A l \in Latches : l \in Nodes /\ (spent(l) => l \in s.pending)
    BY LatchesAreSealed DEF Latches
  <1> HIDE DEF holds, periods
  <1>5. c = [held |-> holds, carry |-> s.carry, period |-> periods, pending |-> {},
             standing |-> s.standing, out |-> s.out, ran |-> s.ran]
    BY <1>1 DEF Shaped
  <1>6. c.held = holds /\ c.out = s.out
    BY <1>5
  <1>7. Shaped(c)
    BY <1>3, <1>5, <1>6 DEF Shaped
  <1>8. ASSUME NEW l \in Latches, holds[l] = {}, NEW n \in Nodes, l \in Gates(n)
        PROVE  holds[n] = {}
    <2>1. CASE spent(l)
      <3>1. spent(n)
        BY <1>4, <1>8, <2>1
      <3> QED
        BY <1>2, <3>1
    <2>2. CASE ~spent(l)
      <3>1. s.held[l] = {}
        BY <1>2, <1>4, <1>8, <2>2
      <3>2. s.held[n] = {}
        BY <1>8, <3>1 DEF Apart
      <3> QED
        BY <1>2, <3>2
    <2> QED
      BY <2>1, <2>2
  <1>9. c.period = periods /\ c.carry = s.carry
    BY <1>5
  <1> QED
    BY <1>6, <1>7, <1>8, <1>9 DEF Spent, holds, periods

\* A tick folds the steps over what the commutation left, standing latches told.
Begun(start) ==
    /\ Shaped(start) /\ Apart(start) /\ start.ran = {}
    /\ start.standing = {l \in Latches : start.held[l] # {}}
    /\ start.out = [n \in Nodes |-> {}]

\* What else a tick starts on.
Starts(s, batch, start) ==
    /\ start.held = [n \in Nodes |-> IF Spent(s, n) THEN {} ELSE s.held[n]]
    /\ start.period = [n \in Nodes |-> IF Spent(s, n) THEN -1 ELSE s.period[n]]
    /\ start.carry = [r \in samples |->
                         IF r \in g.roots /\ batch[r] # {} THEN batch[r] ELSE s.carry[r]]

TickIs(s, batch, ts, awake, start, due) ==
    LET end == Ticking!Fold(<<batch, ts, awake>>, start, order)
    IN  /\ Begun(start) /\ Starts(s, batch, start)
        /\ Ticked(s, batch, ts, awake) = [end EXCEPT !.pending = due]
        /\ due = {l \in Latches : Terminal(end.out[Cut(l)])}

\* It is so of any graph that is apart.
LEMMA TickFolds ==
    ASSUME Emitted, \A w \in Graphs : Sealed(w), NEW s, Shaped(s), Apart(s),
           NEW batch, NEW ts, NEW awake
    PROVE  \E start, due : TickIs(s, batch, ts, awake, start, due)
  <1>0. PICK c : c = Commutate(s)
    OBVIOUS
  <1> DEFINE up == {l \in Latches : c.held[l] # {}}
             carried == [r \in samples |->
                            IF r \in g.roots /\ batch[r] # {} THEN batch[r] ELSE c.carry[r]]
             dark == [n \in Nodes |-> {}]
             start == [c EXCEPT !.standing = up, !.carry = carried, !.out = dark, !.ran = {}]
             end == FoldLeft(LAMBDA u, n : Step(u, n, batch, ts, awake), start, order)
             due == {l \in Latches : Terminal(end.out[Cut(l)])}
             env == <<batch, ts, awake>>
  <1>1. Ticked(s, batch, ts, awake) = [end EXCEPT !.pending = due]
    BY <1>0 DEF Ticked
  <1>2. /\ Shaped(c)
        /\ \A l \in Latches : c.held[l] = {} => \A n \in Nodes : l \in Gates(n) => c.held[n] = {}
        /\ c.held = [n \in Nodes |-> IF Spent(s, n) THEN {} ELSE s.held[n]]
        /\ c.period = [n \in Nodes |-> IF Spent(s, n) THEN -1 ELSE s.period[n]]
        /\ c.carry = s.carry
    BY <1>0, CommutateKeepsApart
  <1>3. dark = [n \in Nodes |-> dark[n]] /\ \A n \in Nodes : dark[n] = {}
    OBVIOUS
  <1>4. \A l \in Latches : l \in Nodes
    BY DEF Latches
  <1> HIDE DEF up, carried, dark, end, due
  <1>5. /\ Shaped(start) /\ Apart(start)
        /\ start.standing = up /\ start.held = c.held /\ start.out = dark /\ start.ran = {}
        /\ start.carry = carried /\ start.period = c.period
    <2>0. c = [held |-> c.held, carry |-> c.carry, period |-> c.period, pending |-> c.pending,
               standing |-> c.standing, out |-> c.out, ran |-> c.ran]
      BY <1>2 DEF Shaped
    <2> DEFINE one == [c EXCEPT !.standing = up]
               two == [one EXCEPT !.carry = carried]
               three == [two EXCEPT !.out = dark]
    <2>1. start = [three EXCEPT !.ran = {}]
      OBVIOUS
    <2>2. one = [held |-> c.held, carry |-> c.carry, period |-> c.period, pending |-> c.pending,
                 standing |-> up, out |-> c.out, ran |-> c.ran]
      BY <2>0
    <2> HIDE DEF one
    <2>3. two = [held |-> c.held, carry |-> carried, period |-> c.period, pending |-> c.pending,
                 standing |-> up, out |-> c.out, ran |-> c.ran]
      BY <2>2
    <2> HIDE DEF two
    <2>4. three = [held |-> c.held, carry |-> carried, period |-> c.period, pending |-> c.pending,
                   standing |-> up, out |-> dark, ran |-> c.ran]
      BY <2>3
    <2> HIDE DEF three
    <2>5. start = [held |-> c.held, carry |-> carried, period |-> c.period, pending |-> c.pending,
                   standing |-> up, out |-> dark, ran |-> {}]
      BY <2>1, <2>4
    <2> HIDE DEF start
    <2>6. /\ start.held = c.held /\ start.out = dark
          /\ start.standing = up /\ start.ran = {}
          /\ start.carry = carried /\ start.period = c.period
      BY <2>5
    <2>7. c.held = [n \in Nodes |-> c.held[n]]
      BY <1>2 DEF Shaped
    <2>8. Shaped(start)
      BY <1>3, <2>5, <2>6, <2>7 DEF Shaped
    <2> QED
      BY <1>2, <1>3, <1>4, <2>6, <2>8 DEF Apart
  <1>6. Begun(start)
    <2> HIDE DEF start
    <2> QED
      BY <1>5 DEF Begun, up, dark
  <1> HIDE DEF start
  <1>7. end = Ticking!Fold(env, start, order)
    BY Zenon DEF end, Ticking!Fold, FoldLeft, MapThenFoldSet, Ticking!FoldLeft, Ticking!MapThenFoldSet,
                 Max, Ticking!Max
  <1>8. Starts(s, batch, start)
    BY <1>2, <1>5 DEF Starts, carried
  <1>9. due = {l \in Latches : Terminal(end.out[Cut(l)])}
    BY DEF due
  <1>10. TickIs(s, batch, ts, awake, start, due)
    BY <1>1, <1>6, <1>7, <1>8, <1>9 DEF TickIs
  <1> QED
    BY <1>10

\* Nor does the whole tick, with the latches' commutation before it, leave anything.
LEMMA TickKeepsApart ==
    ASSUME Emitted, \A w \in Graphs : Sealed(w), NEW s, Shaped(s), Apart(s),
           NEW batch, NEW ts, NEW awake
    PROVE  Shaped(Ticked(s, batch, ts, awake)) /\ Apart(Ticked(s, batch, ts, awake))
  <1> DEFINE env == <<batch, ts, awake>>
  <1>0. PICK start, due : TickIs(s, batch, ts, awake, start, due)
    BY TickFolds
  <1>1. /\ Begun(start)
        /\ Ticked(s, batch, ts, awake)
             = [Ticking!Fold(env, start, order) EXCEPT !.pending = due]
    BY <1>0, Zenon DEF TickIs
  <1>5. Shaped(start) /\ Apart(start)
    BY <1>1 DEF Begun
  <1> DEFINE end == Ticking!Fold(env, start, order)
  <1> DEFINE Kept == {q \in Seq(Nodes) : Shaped(Ticking!Fold(env, start, q))
                                         /\ Apart(Ticking!Fold(env, start, q))}
  <1>7. <<>> \in Kept
    BY <1>5, Ticking!FoldEmpty
  <1>8. ASSUME NEW q \in Seq(Nodes), NEW n \in Nodes, q \in Kept
        PROVE  Append(q, n) \in Kept
    <2> DEFINE u == Ticking!Fold(env, start, q)
               v == Ticking!Fold(env, start, Append(q, n))
    <2>1. v = Step(u, n, batch, ts, awake)
      <3>1. v = Step(u, n, env[1], env[2], env[3])
        BY Ticking!FoldAppend
      <3>2. env[1] = batch /\ env[2] = ts /\ env[3] = awake
        OBVIOUS
      <3> QED
        BY <3>1, <3>2
    <2>2. Shaped(u) /\ Apart(u)
      BY <1>8
    <2> HIDE DEF u, v
    <2>3. Shaped(v) /\ Apart(v)
      BY <2>1, <2>2, StepKeepsApart
    <2>4. Append(q, n) \in Seq(Nodes)
      OBVIOUS
    <2> QED
      BY <2>3, <2>4 DEF v
  <1>9. order \in Seq(Nodes)
    <2>1. order \in Seq(NodesIn(g))
      BY DEF Emitted
    <2>2. order \in [1..Len(order) -> Nodes] /\ Len(order) \in Nat
      BY <2>1, LenProperties DEF Nodes, Range
    <2> QED
      BY <2>2, SeqDef
  <1>10. order \in Kept
    <2> HIDE DEF Kept
    <2> QED
      BY <1>7, <1>8, <1>9, Ticking!SeqInduction
  <1>11. Shaped(end) /\ Apart(end)
    BY <1>10
  <1> HIDE DEF end
  <1> DEFINE r == [end EXCEPT !.pending = due]
  <1>12. r = [held |-> end.held, carry |-> end.carry, period |-> end.period, pending |-> due,
              standing |-> end.standing, out |-> end.out, ran |-> end.ran]
    BY <1>11 DEF Shaped
  <1> HIDE DEF r
  <1>13. r.held = end.held /\ r.out = end.out
    BY <1>12
  <1>14. Shaped(r)
    BY <1>11, <1>12, <1>13 DEF Shaped
  <1>15. Apart(r)
    BY <1>11, <1>13 DEF Apart
  <1> QED
    BY <1>1, <1>14, <1>15, Zenon DEF r, end

\* A graph emitted is a graph walked, and stays apart.
EpisodeInv == phase = "emitted" => Emitted /\ Shaped(run) /\ Apart(run)

\* It holds through every tick, in any graph whose latches are sealed.
THEOREM EpisodeInvariance ==
    ASSUME \A w \in Graphs : Sealed(w)
    PROVE  SweepSpec => []EpisodeInv
  <1>1. SweepInit => EpisodeInv
    BY DEF SweepInit, WalkInit, EpisodeInv
  <1>2. WalkInv /\ EpisodeInv /\ [SweepNext]_vars => EpisodeInv'
    <2> SUFFICES ASSUME WalkInv, EpisodeInv, [SweepNext]_vars, phase' = "emitted"
                 PROVE  (Emitted /\ Shaped(run) /\ Apart(run))'
      BY DEF EpisodeInv
    <2>0. ASSUME g' = g, order' = order
          PROVE  Nodes' = Nodes /\ Latches' = Latches /\ \A n : Gates(n)' = Gates(n)
      <3>1. Nodes' = Nodes
        BY <2>0 DEF Nodes
      <3>2. Latches' = Latches
        BY <2>0, <3>1 DEF Latches, IsLatch, IsBuffer
      <3>3. \A n : Gates(n)' = Gates(n)
        BY <2>0 DEF Gates, Data, Deps, DepsOf, Target, IsBuffer
      <3> QED
        BY <3>1, <3>2, <3>3
    <2>1. CASE Walk
      <3>1. phase = "walk" /\ phase' \in {"walk", "cycle"}
        BY <2>1 DEF Walk, WalkDep, WalkPop, WalkOutput, Answer, Walking, Visit, VisitRetained,
                    VisitPlain, Record
      <3> QED
        BY <3>1
    <2>2. CASE Emit
      <3>1. Emitted /\ g' = g /\ order' = order
        BY <2>2 DEF Emit, Walked, Walking, WalkInv, WalkSound, WalkTyped, Emitted
      <3>2. run' = Fresh
        BY <2>2 DEF Emit
      <3>3. Shaped(Fresh) /\ Apart(Fresh)
        <4> DEFINE empty == [n \in Nodes |-> {}]
        <4>1. Fresh.held = empty /\ Fresh.out = empty
          BY DEF Fresh
        <4>2. empty = [n \in Nodes |-> empty[n]] /\ \A n \in Nodes : empty[n] = {}
          OBVIOUS
        <4> HIDE DEF empty
        <4>3. Fresh = [held |-> Fresh.held, carry |-> Fresh.carry, period |-> Fresh.period,
                       pending |-> Fresh.pending, standing |-> Fresh.standing,
                       out |-> Fresh.out, ran |-> Fresh.ran]
          BY DEF Fresh
        <4> QED
          BY <4>1, <4>2, <4>3 DEF Shaped, Apart, Latches
      <3> QED
        BY <2>0, <3>1, <3>2, <3>3 DEF Emitted, Shaped, Apart
    <2>3. CASE Tick
      <3>1. /\ Emitted /\ Shaped(run) /\ Apart(run) /\ g' = g /\ order' = order
        BY <2>3 DEF Tick, EpisodeInv, walkVars
      <3>2. PICK batch : run' = Ticked(run, batch, tick + 1, FALSE)
        BY <2>3 DEF Tick
      <3>3. Shaped(run') /\ Apart(run')
        BY <3>1, <3>2, TickKeepsApart
      <3> QED
        BY <2>0, <3>1, <3>3 DEF Emitted, Shaped, Apart
    <2>4. CASE UNCHANGED vars
      BY <2>0, <2>4 DEF vars, walkVars, EpisodeInv, Emitted, Shaped, Apart
    <2> QED
      BY <2>1, <2>2, <2>3, <2>4 DEF SweepNext, Expand
  <1> QED
    BY <1>1, <1>2, WalkInvariance, PTL DEF SweepSpec

\* An episode's nodes hold nothing while its latch is down, in any graph whose latches
\* are sealed as Armed seals them: no episode starts on what another left, whatever
\* is suppressed.
THEOREM EpisodesApart ==
    ASSUME \A w \in Graphs : Sealed(w)
    PROVE  SweepSpec => []EpisodesAreSeparate
  <1>1. EpisodeInv => EpisodesAreSeparate
    BY DEF EpisodeInv, EpisodesAreSeparate, Apart
  <1> QED
    BY <1>1, EpisodeInvariance, PTL

-----------------------------------------------------------------------------
(* The demands, from the readers to what they read.                        *)

Folded == INSTANCE FoldTheorems WITH Op <- LAMBDA env, d, n : DrawNode(d, n)

\* What graph! accepts is stepped once and behind all it reads, and gates are nodes.
Ordered ==
    /\ Emitted /\ IsInjective(order)
    /\ \A n \in Nodes : \A d \in Deps(n) :
           \/ Target(d) \in RootsIn(g)
           \/ Target(d) \in Nodes /\ At(Target(d)) < At(n)
    /\ \A n \in Nodes : Gates(n) \subseteq Nodes

\* Places in the order and nodes are one.
LEMMA Positions ==
    ASSUME Ordered
    PROVE  /\ Len(order) \in Nat /\ DOMAIN order = 1..Len(order)
           /\ \A n \in Nodes : At(n) \in 1..Len(order) /\ order[At(n)] = n
           /\ \A i \in 1..Len(order) : order[i] \in Nodes /\ At(order[i]) = i
  <1>1. Len(order) \in Nat /\ DOMAIN order = 1..Len(order) /\ IsInjective(order)
    BY LenProperties DEF Ordered, Emitted
  <1>2. \A i \in 1..Len(order) : order[i] \in Nodes /\ At(order[i]) = i
    BY <1>1 DEF Nodes, Range, At, IsInjective
  <1>3. \A n \in Nodes : \E i \in 1..Len(order) : n = order[i]
    BY <1>1 DEF Nodes, Range
  <1> QED
    BY <1>1, <1>2, <1>3

\* What a node's readers ask of it, being asked what live says.
Asks(n, live) ==
    IF Pinned(n) \/ n \in Outputs THEN Truth
    ELSE LET all == Absorbed(UNION {Term(c, live[c]) : c \in Consumers(n)})
         IN  IF Unresolved(n, all) THEN Truth ELSE all

\* Only what the readers are asked matters.
LEMMA AsksOfReaders ==
    ASSUME NEW n \in Nodes, NEW f, NEW h, \A c \in Consumers(n) : f[c] = h[c]
    PROVE  Asks(n, f) = Asks(n, h)
  <1>1. {Term(c, f[c]) : c \in Consumers(n)} = {Term(c, h[c]) : c \in Consumers(n)}
    OBVIOUS
  <1> QED
    BY <1>1 DEF Asks

\* A reader is stepped after what it reads.
LEMMA ReadersFollow ==
    ASSUME Ordered, NEW n \in Nodes, NEW c \in Consumers(n)
    PROVE  c \in Nodes /\ At(n) < At(c)
  <1>1. c \in Nodes
    BY DEF Consumers
  <1>2. PICK d \in Deps(c) : Target(d) = n
    BY DEF Consumers
  <1>3. n \notin RootsIn(g)
    <2>1. n \in NodesIn(g)
      BY Positions, LenProperties DEF Ordered, Emitted
    <2>2. CASE \E x \in Keys(g) \ g.roots : n = Cell(x)
      BY <2>2, Lengths DEF RootsIn
    <2>3. CASE \E x \in Keys(g) : n = Buffer(x)
      <3>1. Len(n) = 2
        BY <2>3, Lengths
      <3> QED
        BY <3>1, Lengths DEF RootsIn
    <2> QED
      BY <2>1, <2>2, <2>3 DEF NodesIn
  <1> QED
    BY <1>1, <1>2, <1>3 DEF Ordered

\* So the demands are well defined.
LEMMA LiveIs ==
    ASSUME Ordered
    PROVE  DemandWalk = [n \in Nodes |-> Asks(n, DemandWalk)]
  <1> DEFINE L == Len(order)
             Solves(f, k) == f = [n \in Nodes |-> IF At(n) > L - k THEN Asks(n, f) ELSE {}]
             T == {k \in Nat : k <= L => \E f : Solves(f, k)}
  <1>0. L \in Nat /\ \A n \in Nodes : At(n) \in 1..L
    BY Positions
  <1>1. 0 \in T
    <2> DEFINE f == [n \in Nodes |-> {}]
    <2>1. \A n \in Nodes : ~ (At(n) > L - 0)
      BY <1>0
    <2>2. Solves(f, 0)
      BY <2>1
    <2> QED
      BY <2>2
  <1>2. ASSUME NEW k \in Nat, k \in T
        PROVE  k + 1 \in T
    <2> SUFFICES ASSUME k + 1 <= L
                 PROVE  \E h : Solves(h, k + 1)
      OBVIOUS
    <2>1. PICK f : Solves(f, k)
      BY <1>0, <1>2
    <2> DEFINE h == [n \in Nodes |-> IF At(n) > L - (k + 1) THEN Asks(n, f) ELSE {}]
    <2>2. ASSUME NEW n \in Nodes, At(n) > L - (k + 1)
          PROVE  Asks(n, f) = Asks(n, h)
      <3>1. ASSUME NEW c \in Consumers(n)
            PROVE  f[c] = h[c]
        <4>1. c \in Nodes /\ At(n) < At(c)
          BY ReadersFollow
        <4>2. At(c) > L - k /\ At(c) > L - (k + 1)
          BY <1>0, <2>2, <4>1
        <4>3. f[c] = Asks(c, f)
          BY <2>1, <4>1, <4>2
        <4>4. h[c] = Asks(c, f)
          BY <4>1, <4>2
        <4> QED
          BY <4>3, <4>4
      <3> QED
        BY <3>1, AsksOfReaders
    <2>3. h = [n \in Nodes |-> IF At(n) > L - (k + 1) THEN Asks(n, h) ELSE {}]
      <3> HIDE DEF L
      <3>1. \A n \in Nodes : h[n] = IF At(n) > L - (k + 1) THEN Asks(n, h) ELSE {}
        BY <2>2
      <3> QED
        BY <3>1
    <2> QED
      BY <2>3
  <1>3. L \in T
    <2> HIDE DEF T
    <2>1. Nat \subseteq T
      BY <1>1, <1>2, Folded!Induction
    <2> QED
      BY <1>0, <2>1
  <1>4. PICK f : Solves(f, L)
    BY <1>0, <1>3
  <1>5. \A n \in Nodes : At(n) > L - L
    BY <1>0
  <1>6. f = [n \in Nodes |-> Asks(n, f)]
    BY <1>4, <1>5
  <1>7. DemandWalk = CHOOSE h : h = [n \in Nodes |-> Asks(n, h)]
    BY DEF DemandWalk, Asks
  <1> QED
    BY <1>6, <1>7

\* The gates a node is asked behind are nodes.
LEMMA LiveNames ==
    ASSUME Ordered, NEW n \in Nodes, NEW conj \in DemandWalk[n]
    PROVE  conj \subseteq Nodes /\ \A gate \in conj : IsGate(gate)
  <1> DEFINE L == Len(order)
             live == DemandWalk
             Named(m) == \A x \in live[m] : \A y \in x : y \in Nodes /\ IsGate(y)
             T == {k \in Nat : \A m \in Nodes : At(m) > L - k => Named(m)}
  <1>0. L \in Nat /\ \A m \in Nodes : At(m) \in 1..L
    BY Positions
  <1>1. \A m \in Nodes : live[m] = Asks(m, live)
    BY LiveIs
  <1> HIDE DEF live, L
  <1>2. 0 \in T
    BY <1>0
  <1>3. ASSUME NEW k \in Nat, k \in T
        PROVE  k + 1 \in T
    <2> SUFFICES ASSUME NEW m \in Nodes, At(m) > L - (k + 1), NEW x \in live[m], NEW y \in x
                 PROVE  y \in Nodes /\ IsGate(y)
      OBVIOUS
    <2>1. live[m] # Truth
      BY DEF Truth
    <2>2. x \in UNION {Term(c, live[c]) : c \in Consumers(m)}
      <3> DEFINE asked == UNION {Term(c, live[c]) : c \in Consumers(m)}
      <3>1. live[m] = Absorbed(asked)
        BY <1>1, <2>1, Zenon DEF Asks
      <3> HIDE DEF asked
      <3>2. x \in asked
        BY <3>1 DEF Absorbed
      <3> QED
        BY <3>2 DEF asked
    <2>3. PICK c \in Consumers(m) : x \in Term(c, live[c])
      BY <2>2
    <2>4. PICK z \in live[c] : x = z \cup Gates(c)
      BY <2>3 DEF Term, Truth
    <2>5. c \in Nodes /\ At(m) < At(c)
      BY ReadersFollow
    <2>6. Named(c)
      BY <1>0, <1>3, <2>5
    <2>7. CASE y \in Gates(c)
      BY <2>5, <2>7 DEF Ordered, IsGate
    <2> QED
      BY <2>4, <2>6, <2>7
  <1>4. Nat \subseteq T
    <2> HIDE DEF T
    <2> QED
      BY <1>2, <1>3, Folded!Induction
  <1>5. L \in T /\ At(n) > L - L
    BY <1>0, <1>4
  <1> QED
    BY <1>5 DEF live

\* A node is asked for behind gates that are nodes, and latches or stepped before it.
LEMMA DemandsFollow ==
    ASSUME Ordered, NEW n \in Nodes, NEW conj \in Demands[n], NEW gate \in conj
    PROVE  gate \in Nodes /\ IsGate(gate) /\ (IsLatch(gate) \/ At(gate) < At(n))
  <1> DEFINE live == DemandWalk
  <1>1. live[n] = Asks(n, live)
    BY LiveIs
  <1> HIDE DEF live
  <1>2. conj \in live[n] /\ live[n] # Truth
    BY DEF Demands, Truth, live
  <1>3. gate \in Nodes /\ IsGate(gate)
    BY <1>2, LiveNames DEF live
  <1>4. ~ Unresolved(n, live[n])
    BY <1>1, <1>2 DEF Asks
  <1>5. At(gate) \in Int /\ At(n) \in Int
    BY <1>3, Positions
  <1> QED
    BY <1>2, <1>3, <1>4, <1>5 DEF Unresolved

\* A pinned node is asked for always.
LEMMA PinnedAlways ==
    ASSUME Ordered, NEW n \in Nodes, Pinned(n)
    PROVE  Demands[n] = Truth
  <1>1. DemandWalk[n] = Truth
    BY LiveIs DEF Asks
  <1> QED
    BY <1>1 DEF Demands

-----------------------------------------------------------------------------
(* The picture under the gates, and the tick.                              *)

\* Whether a tick runs a node, by the latches that stood and what has been stepped.
RanAs(s, n) ==
    /\ \E conj \in Demands[n] : \A gate \in conj :
           IF IsLatch(gate) THEN gate \in s.standing ELSE s.out[gate] # {}
    /\ Open(s, n)

\* After k steps: those stepped ran as the frame says, the others hold what they held,
\* and a latch that stood reads true.
Told(u, start, k) ==
    /\ Shaped(u) /\ u.standing = start.standing /\ u.ran \subseteq Nodes
    /\ \A n \in Nodes : At(n) > k => u.held[n] = start.held[n] /\ n \notin u.ran
    /\ \A n \in Nodes : At(n) <= k => (n \in u.ran <=> RanAs(u, n))
    /\ \A l \in Latches : At(l) <= k /\ start.held[l] # {} => u.out[l] # {}

\* Two graphs that read the same as far as n.
AlikeBefore(u, v, n) ==
    /\ u.standing = v.standing
    /\ \A m \in Nodes : At(m) < At(n) => u.out[m] = v.out[m]

\* What ran does not depend on what is stepped later.
LEMMA RanAsEarlier ==
    ASSUME Ordered, NEW u, NEW v, NEW n \in Nodes, AlikeBefore(u, v, n)
    PROVE  RanAs(u, n) <=> RanAs(v, n)
  <1>0. u.standing = v.standing /\ \A m \in Nodes : At(m) < At(n) => u.out[m] = v.out[m]
    BY DEF AlikeBefore
  <1>1. ASSUME NEW conj \in Demands[n], NEW gate \in conj, ~ IsLatch(gate)
        PROVE  u.out[gate] = v.out[gate]
    BY <1>0, <1>1, DemandsFollow
  <1>2. ASSUME NEW gate \in Gates(n)
        PROVE  u.out[gate] = v.out[gate]
    <2>1. PICK d \in Deps(n) : Target(d) = gate
      BY DEF Gates
    <2>2. gate \in Nodes /\ n \in Consumers(gate)
      BY <2>1 DEF Ordered, Consumers
    <2> QED
      BY <1>0, <2>2, ReadersFollow
  <1> QED
    BY <1>0, <1>1, <1>2 DEF RanAs, Open

\* A sealed latch runs every tick, and what it holds it shows.
LEMMA LatchShows ==
    ASSUME Ordered, \A w \in Graphs : Sealed(w), NEW l \in Latches, NEW s, NEW batch, NEW ts,
           plan = Demands
    PROVE  /\ Demanded(s, l) /\ Open(s, l) /\ Admits(s, l, ts)
           /\ s.held[l] \subseteq Advance(s, l, batch).out
  <1>1. Gates(l) = {} /\ ~IsAnchored(l) /\ Keeps(l)
    BY LatchesAreSealed DEF Ordered
  <1>2. l \in Nodes /\ Pinned(l)
    BY DEF Latches, Pinned
  <1>3. ~ IsEmit(l)
    <2>1. IsGraph(g) /\ GatesAreNodes(g)
      BY ResolveConstants, DemandConstants DEF Ordered, Emitted
    <2>2. ~ IsBuffer(l) /\ g.node[l[1]].latch
      BY DEF Latches, IsLatch
    <2>3. l \in NodesIn(g)
      BY <1>2, Positions, LenProperties DEF Ordered, Emitted
    <2>4. PICK c \in Keys(g) \ g.roots : l = Cell(c)
      BY <2>2, <2>3, Lengths DEF NodesIn, IsBuffer
    <2>5. c \in DOMAIN g.node /\ l[1] = c
      BY <2>1, <2>4, Answers, Lengths DEF Keys
    <2> QED
      BY <2>1, <2>2, <2>5 DEF GatesAreNodes, IsEmit
  <1>4. plan[l] = {{}}
    BY <1>2, PinnedAlways DEF Truth
  <1>5. Demanded(s, l) /\ Open(s, l) /\ Admits(s, l, ts)
    BY <1>1, <1>3, <1>4 DEF Demanded, Open, Admits, Clocked
  <1>6. Advance(s, l, batch).out = s.held[l] \cup Reads(s, l, batch)
    BY <1>1, <1>3 DEF Advance, Before
  <1> QED
    BY <1>5, <1>6

\* The next step keeps it.
LEMMA StepTells ==
    ASSUME Ordered, \A w \in Graphs : Sealed(w), plan = Demands, g.rewinds,
           NEW start, NEW k \in Nat, k < Len(order), NEW u, Told(u, start, k),
           NEW batch, NEW ts, NEW v, v = Step(u, order[k + 1], batch, ts, FALSE)
    PROVE  Told(v, start, k + 1)
  <1> DEFINE n == order[k + 1]
             ran == (FALSE \/ Demanded(u, n)) /\ Open(u, n)
             a == Advance(u, n, batch)
  <1>1. n \in Nodes /\ At(n) = k + 1
    BY Positions
  <1>2. \A m \in Nodes : At(m) \in Nat /\ (At(m) = k + 1 => m = n)
    BY Positions
  <1>3. Shaped(u) /\ u.standing = start.standing /\ u.ran \subseteq Nodes
    BY DEF Told
  <1>4. Effect(u, n, batch, ts, FALSE, v)
    BY <1>1, <1>3, StepEffect
  <1>5. Shaped(v) /\ v.standing = u.standing /\ v.ran = IF ran THEN u.ran \cup {n} ELSE u.ran
    BY <1>4, Zenon DEF Effect
  <1>6. \A m \in Nodes : m # n => v.held[m] = u.held[m] /\ v.out[m] = u.out[m]
    <2>1. u.held = [m \in Nodes |-> u.held[m]] /\ u.out = [m \in Nodes |-> u.out[m]]
      BY <1>3 DEF Shaped
    <2> DEFINE h == a.held
               o == a.out
    <2>2. \/ v.held = [u.held EXCEPT ![n] = h] /\ v.out = [u.out EXCEPT ![n] = o]
          \/ v.held = u.held /\ v.out = [u.out EXCEPT ![n] = {}]
      BY <1>4, Zenon DEF Effect
    <2> HIDE DEF h, o, n
    <2> QED
      BY <2>1, <2>2
  <1>7. ran <=> RanAs(u, n)
    BY <1>1 DEF RanAs, Demanded
  <1>8. \A m \in Nodes : At(m) <= k + 1 => (RanAs(u, m) <=> RanAs(v, m))
    <2> SUFFICES ASSUME NEW m \in Nodes, At(m) <= k + 1
                 PROVE  RanAs(u, m) <=> RanAs(v, m)
      OBVIOUS
    <2>1. ASSUME NEW x \in Nodes, At(x) < At(m)
          PROVE  u.out[x] = v.out[x]
      <3> HIDE DEF n
      <3>1. x # n
        BY <1>1, <1>2, <2>1
      <3> QED
        BY <1>6, <3>1
    <2>2. u.standing = v.standing
      BY <1>5, Zenon
    <2>3. AlikeBefore(u, v, m)
      BY <2>1, <2>2 DEF AlikeBefore
    <2> HIDE DEF n, ran, a
    <2> QED
      BY <2>3, RanAsEarlier
  <1>9. ASSUME NEW m \in Nodes, At(m) > k + 1
        PROVE  v.held[m] = start.held[m] /\ m \notin v.ran
    <2>1. m # n /\ At(m) > k
      BY <1>1, <1>2, <1>9
    <2>2. u.held[m] = start.held[m] /\ m \notin u.ran
      BY <2>1 DEF Told
    <2> HIDE DEF n, ran
    <2> QED
      BY <1>5, <1>6, <2>1, <2>2
  <1>10. ASSUME NEW m \in Nodes, At(m) <= k + 1
         PROVE  m \in v.ran <=> RanAs(v, m)
    <2>1. CASE m = n
      <3>1. n \notin u.ran
        BY <1>1 DEF Told
      <3> QED
        BY <1>5, <1>7, <1>8, <1>10, <2>1, <3>1
    <2> HIDE DEF n, ran
    <2>2. CASE m # n
      <3>1. At(m) <= k
        BY <1>2, <1>10, <2>2
      <3>2. m \in u.ran <=> RanAs(u, m)
        BY <3>1 DEF Told
      <3> QED
        BY <1>5, <1>8, <1>10, <2>2, <3>2
    <2> QED
      BY <2>1, <2>2
  <1>11. ASSUME NEW l \in Latches, At(l) <= k + 1, start.held[l] # {}
         PROVE  v.out[l] # {}
    <2>0. l \in Nodes
      BY DEF Latches
    <2>1. CASE l = n
      <3>1. ran /\ Admits(u, n, ts) /\ u.held[n] \subseteq a.out
        BY <2>1, LatchShows
      <3>2. u.held[n] = start.held[n]
        BY <1>1 DEF Told
      <3>3. v.out = [u.out EXCEPT ![n] = a.out]
        BY <1>4, <3>1, Zenon DEF Effect
      <3>4. u.out = [m \in Nodes |-> u.out[m]]
        BY <1>3 DEF Shaped
      <3> HIDE DEF a, n
      <3> QED
        BY <1>1, <1>11, <2>1, <3>1, <3>2, <3>3, <3>4
    <2>2. CASE l # n
      <3>1. At(l) <= k
        BY <1>1, <1>2, <1>11, <2>0, <2>2
      <3> QED
        BY <1>6, <1>11, <2>0, <2>2, <3>1 DEF Told
    <2> QED
      BY <2>1, <2>2
  <1> QED
    <2>1. v.standing = start.standing /\ v.ran \subseteq Nodes
      <3> HIDE DEF n, ran
      <3> QED
        BY <1>1, <1>3, <1>5
    <2> QED
      BY <1>5, <1>9, <1>10, <1>11, <2>1 DEF Told

\* What a tick shows of itself.
Shows(r) ==
    /\ r.ran \subseteq Nodes
    /\ \A n \in Nodes : n \in r.ran <=> RanAs(r, n)
    /\ \A l \in Latches : l \in r.standing => r.out[l] # {}

\* The fold of the steps, taken one by one.
LEMMA FoldStages ==
    ASSUME Ordered, NEW start, NEW batch, NEW ts, NEW awake
    PROVE  \E U : /\ U[0] = start
                  /\ U[Len(order)] = Ticking!Fold(<<batch, ts, awake>>, start, order)
                  /\ \A k \in 0..(Len(order) - 1) :
                         U[k + 1] = Step(U[k], order[k + 1], batch, ts, awake)
  <1> DEFINE env == <<batch, ts, awake>>
             L == Len(order)
             upTo(k) == SubSeq(order, 1, k)
             U == [k \in 0..L |-> Ticking!Fold(env, start, upTo(k))]
  <1>1. /\ L \in Nat /\ order \in Seq(Nodes) /\ upTo(L) = order
    <2>1. /\ L \in Nat /\ order \in Seq(NodesIn(g)) /\ DOMAIN order = 1..L
          /\ \A i \in 1..L : order[i] \in Nodes
      BY Positions DEF Ordered, Emitted
    <2>2. order \in [1..L -> Nodes]
      BY <2>1, LenProperties
    <2>3. order \in Seq(Nodes)
      BY <2>1, <2>2, SeqDef
    <2> QED
      BY <2>1, <2>3
  <1>2. U[0] = start
    <2>1. upTo(0) = <<>> /\ 0 \in 0..L
      BY <1>1
    <2> HIDE DEF env, upTo
    <2> QED
      BY <2>1, Ticking!FoldEmpty
  <1>3. U[L] = Ticking!Fold(env, start, order)
    <2>1. L \in 0..L
      BY <1>1
    <2> HIDE DEF env
    <2> QED
      BY <1>1, <2>1
  <1>4. ASSUME NEW k \in 0..(L - 1)
        PROVE  U[k + 1] = Step(U[k], order[k + 1], batch, ts, awake)
    <2>1. k \in 0..L /\ k + 1 \in 0..L /\ 0 \in 0..k /\ 0 + 1 = 1
      BY <1>1
    <2>2. /\ SubSeq(order, 0 + 1, k) \in Seq(Nodes) /\ order[k + 1] \in Nodes
          /\ SubSeq(order, 0 + 1, k + 1) = Append(SubSeq(order, 0 + 1, k), order[k + 1])
      BY <1>1, <2>1, Ticking!SubSeqGrows
    <2>3. upTo(k) \in Seq(Nodes) /\ upTo(k + 1) = Append(upTo(k), order[k + 1])
      BY <2>1, <2>2
    <2>4. U[k] = Ticking!Fold(env, start, upTo(k)) /\ U[k + 1] = Ticking!Fold(env, start, upTo(k + 1))
      BY <2>1
    <2> HIDE DEF upTo, U
    <2>5. U[k + 1] = Step(U[k], order[k + 1], env[1], env[2], env[3])
      <3> DEFINE q == upTo(k)
                 n == order[k + 1]
      <3>1. q \in Seq(Nodes) /\ n \in Nodes
        BY <2>2, <2>3
      <3>2. U[k] = Ticking!Fold(env, start, q) /\ U[k + 1] = Ticking!Fold(env, start, Append(q, n))
        BY <2>3, <2>4
      <3> HIDE DEF q, n, env
      <3>3. Ticking!Fold(env, start, Append(q, n))
              = Step(Ticking!Fold(env, start, q), n, env[1], env[2], env[3])
        BY <3>1, Ticking!FoldAppend
      <3> QED
        BY <3>2, <3>3 DEF n
    <2> QED
      BY <2>5
  <1> HIDE DEF U, env
  <1> QED
    BY <1>2, <1>3, <1>4 DEF env

\* Step by step, so does the tick.
LEMMA TickShows ==
    ASSUME Ordered, \A w \in Graphs : Sealed(w), plan = Demands, g.rewinds,
           NEW s, Shaped(s), Apart(s), NEW batch, NEW ts,
           NEW r, r = Ticked(s, batch, ts, FALSE)
    PROVE  Shows(r)
  <1>0. PICK start, due : TickIs(s, batch, ts, FALSE, start, due)
    BY TickFolds DEF Ordered
  <1> DEFINE L == Len(order)
  <1>a. PICK awake : awake = FALSE
    OBVIOUS
  <1>b. PICK U : /\ U[0] = start
                 /\ U[L] = Ticking!Fold(<<batch, ts, awake>>, start, order)
                 /\ \A k \in 0..(L - 1) : U[k + 1] = Step(U[k], order[k + 1], batch, ts, awake)
    BY FoldStages
  <1> DEFINE end == U[L]
             T == {k \in Nat : k <= L => Told(U[k], start, k)}
  <1>1. Begun(start) /\ r = [end EXCEPT !.pending = due]
    BY <1>0, <1>a, <1>b, Zenon DEF TickIs
  <1>2. L \in Nat /\ \A n \in Nodes : At(n) \in 1..L
    BY Positions
  <1>3. 0 \in T
    <2>1. Told(start, start, 0)
      <3>1. \A n \in Nodes : ~ (At(n) <= 0)
        BY <1>2
      <3>2. \A l \in Latches : l \in Nodes
        BY DEF Latches
      <3> QED
        BY <1>1, <3>1, <3>2 DEF Told, Begun
    <2> QED
      BY <1>b, <2>1
  <1>4. ASSUME NEW k \in Nat, k \in T
        PROVE  k + 1 \in T
    <2> SUFFICES ASSUME k + 1 <= L
                 PROVE  Told(U[k + 1], start, k + 1)
      OBVIOUS
    <2>1. k \in 0..(L - 1) /\ k < L /\ Told(U[k], start, k)
      BY <1>2, <1>4
    <2>2. U[k + 1] = Step(U[k], order[k + 1], batch, ts, FALSE)
      BY <1>a, <1>b, <2>1
    <2> QED
      BY <2>1, <2>2, StepTells
  <1>5. L \in T
    <2> HIDE DEF T
    <2>1. Nat \subseteq T
      BY <1>3, <1>4, Ticking!Induction
    <2> QED
      BY <1>2, <2>1
  <1>6. Told(end, start, L)
    BY <1>2, <1>5
  <1>7. r = [end EXCEPT !.pending = due]
    BY <1>1
  <1> HIDE DEF end
  <1>8. r.ran = end.ran /\ r.out = end.out /\ r.standing = end.standing
    <2> DEFINE x == [held |-> end.held, carry |-> end.carry, period |-> end.period,
                     pending |-> due, standing |-> end.standing, out |-> end.out,
                     ran |-> end.ran]
    <2>1. r = x
      BY <1>6, <1>7 DEF Told, Shaped
    <2>2. x.ran = end.ran /\ x.out = end.out /\ x.standing = end.standing
      OBVIOUS
    <2> HIDE DEF x
    <2> QED
      BY <2>1, <2>2, Zenon
  <1>9. \A n \in Nodes : RanAs(r, n) <=> RanAs(end, n)
    BY <1>8, RanAsEarlier DEF AlikeBefore
  <1>10. end.standing = {l \in Latches : start.held[l] # {}}
    BY <1>1, <1>6 DEF Told, Begun
  <1>11. end.ran \subseteq Nodes /\ \A n \in Nodes : n \in end.ran <=> RanAs(end, n)
    BY <1>2, <1>6 DEF Told
  <1>12. \A l \in Latches : start.held[l] # {} => end.out[l] # {}
    <2>1. \A l \in Latches : At(l) <= L
      BY <1>2 DEF Latches
    <2> QED
      BY <1>6, <2>1 DEF Told
  <1> QED
    BY <1>8, <1>9, <1>10, <1>11, <1>12 DEF Shows

\* Unless a latch armed in it, the picture under the gates as it read them is what it ran.
LEMMA PictureShows ==
    ASSUME Ordered, plan = Demands, NEW r, Shows(r), ArmedNow(r) = {}
    PROVE  r.ran = LiveUnder({n \in Nodes : IsGate(n) /\ r.out[n] # {}})
  <1> DEFINE open == {n \in Nodes : IsGate(n) /\ r.out[n] # {}}
  <1>1. \A l \in Latches : l \in r.standing <=> r.out[l] # {}
    BY DEF Shows, ArmedNow
  <1>2. ASSUME NEW n \in Nodes
        PROVE  n \in r.ran <=> n \in LiveUnder(open)
    <2>1. ASSUME NEW conj \in Demands[n], NEW gate \in conj
          PROVE  (IF IsLatch(gate) THEN gate \in r.standing ELSE r.out[gate] # {})
                   <=> gate \in open
      <3>1. gate \in Nodes /\ IsGate(gate)
        BY <2>1, DemandsFollow
      <3>2. IsLatch(gate) => gate \in Latches
        BY <3>1 DEF Latches
      <3> QED
        BY <1>1, <3>1, <3>2
    <2>2. Open(r, n) <=> Gates(n) \subseteq open
      <3>1. \A gate \in Gates(n) : gate \in Nodes /\ IsGate(gate)
        BY DEF Ordered, IsGate
      <3> QED
        BY <3>1 DEF Open
    <2>3. ~ IsRoot(n)
      <3>1. n \in NodesIn(g)
        BY Positions, LenProperties DEF Ordered, Emitted
      <3>2. CASE \E x \in Keys(g) \ g.roots : n = Cell(x)
        BY <3>2, Lengths DEF IsRoot
      <3>3. CASE \E x \in Keys(g) : n = Buffer(x)
        BY <3>3, Lengths DEF IsRoot, IsBuffer
      <3> QED
        BY <3>1, <3>2, <3>3 DEF NodesIn
    <2>4. OpenUnder(n, open) <=> Open(r, n)
      BY <2>2, <2>3 DEF OpenUnder
    <2> HIDE DEF open
    <2>5. (\E conj \in plan[n] : conj \subseteq open)
            <=> \E conj \in Demands[n] : \A gate \in conj :
                   IF IsLatch(gate) THEN gate \in r.standing ELSE r.out[gate] # {}
      BY <2>1
    <2> QED
      BY <2>4, <2>5 DEF Shows, RanAs, LiveUnder
  <1>3. LiveUnder(open) \subseteq Nodes /\ r.ran \subseteq Nodes
    BY DEF LiveUnder, Shows
  <1> QED
    BY <1>2, <1>3

\* What graph! decides is of the graph and its order, and no tick moves it.
LEMMA Decided ==
    ASSUME g' = g, order' = order
    PROVE  /\ Nodes' = Nodes /\ Latches' = Latches /\ Demands' = Demands
           /\ \A n : At(n)' = At(n) /\ Gates(n)' = Gates(n) /\ Deps(n)' = Deps(n)
                     /\ IsLatch(n)' = IsLatch(n)
           /\ \A d : Target(d)' = Target(d)
  <1>1. Nodes' = Nodes
    BY DEF Nodes
  <1>2. \A d : Target(d)' = Target(d)
    BY DEF Target
  <1>3. \A n : IsLatch(n)' = IsLatch(n) /\ Deps(n)' = Deps(n) /\ At(n)' = At(n)
    BY DEF IsLatch, IsBuffer, Deps, DepsOf, At
  <1>4. \A n : Gates(n)' = Gates(n)
    BY DEF Gates, Data, Deps, DepsOf, Target, IsBuffer
  <1>5. Latches' = Latches
    BY <1>1 DEF Latches, IsLatch, IsBuffer
  <1>6. Demands' = Demands
    BY DEF Demands, DemandWalk, KeptFromLatches, Rebuilds, IsAnchored, IsLatch, IsEmit, IsBuffer, Data,
           Deps, DepsOf, Target, Nodes, Pinned, Folds, Held, IsGate, Gates, Consumers, Outputs,
           Absorbed, Term, Unresolved, At, Truth
  <1> QED
    BY <1>1, <1>2, <1>3, <1>4, <1>5, <1>6

\* What graph! accepts is in order: the assertion of the demand pass covers what is
\* sampled, and a gate is a node.
LEMMA AcceptedIsOrdered ==
    ASSUME WalkInv, StepsInOrder, Walked, Accepted
    PROVE  Ordered
  <1>1. /\ Emitted /\ IsInjective(order)
        /\ \A n \in Nodes : \A d \in Deps(n) : Target(d) \in RootsIn(g) \/ Target(d) \in Nodes
    BY DEF WalkInv, WalkSound, WalkTyped, Walked, Walking, Emitted, StepsInOrder, RootsIn
  <1>2. \A n \in Nodes : \A d \in Deps(n) : Target(d) \in Nodes => At(Target(d)) < At(n)
    BY DEF Accepted, PostOrder
  <1>3. ASSUME NEW n \in Nodes, NEW gate \in Gates(n)
        PROVE  gate \in Nodes
    <2>1. PICK d \in Deps(n) : d.as = "gate" /\ gate = Target(d)
      BY DEF Gates, Data
    <2>2. IsGraph(g) /\ GatesAreNodes(g)
      BY <1>1, ResolveConstants, DemandConstants DEF Emitted
    <2>3. n \in NodesIn(g)
      BY <1>1, LenProperties DEF Emitted, Nodes, Range
    <2>4. CASE \E c \in Keys(g) \ g.roots : n = Cell(c)
      <3>1. PICK c \in Keys(g) \ g.roots : n = Cell(c)
        BY <2>4
      <3>2. c \in DOMAIN g.node /\ n[1] = c /\ ~ IsBuffer(n)
        BY <2>2, <3>1, Answers, Lengths DEF Keys, IsBuffer
      <3>3. d \in Range(g.node[c].deps)
        BY <2>1, <3>2 DEF Deps, DepsOf
      <3>4. g.is[d.cell] \notin g.roots /\ gate = Cell(g.is[d.cell])
        BY <2>1, <2>2, <3>2, <3>3 DEF GatesAreNodes, Target
      <3>5. gate \notin RootsIn(g)
        BY <3>4, Lengths DEF RootsIn
      <3> QED
        BY <1>1, <2>1, <3>5
    <2>5. CASE \E c \in Keys(g) : n = Buffer(c)
      <3>1. IsBuffer(n)
        BY <2>5, Lengths DEF IsBuffer
      <3>2. Deps(n) = {[cell |-> n[1], as |-> "plain"]}
        BY <3>1 DEF Deps, DepsOf, Range
      <3> QED
        BY <2>1, <3>2
    <2> QED
      BY <2>3, <2>4, <2>5 DEF NodesIn
  <1> QED
    BY <1>1, <1>2, <1>3 DEF Ordered

\* Once a graph is emitted: its order, its demands, and what its last tick shows.
PictureInv ==
    /\ phase # "emitted" => tick = 0
    /\ phase = "emitted" =>
           Ordered /\ plan = Demands /\ (tick # 0 /\ g.rewinds => Shows(run))

\* It holds through every tick, in any graph whose latches are sealed.
THEOREM PictureInvariance ==
    ASSUME \A w \in Graphs : Sealed(w)
    PROVE  SweepSpec => []PictureInv
  <1>1. SweepInit => PictureInv
    BY DEF SweepInit, WalkInit, PictureInv
  <1>2. WalkInv /\ StepsInOrder /\ EpisodeInv /\ PictureInv /\ [SweepNext]_vars => PictureInv'
    <2> SUFFICES ASSUME WalkInv, StepsInOrder, EpisodeInv, PictureInv, [SweepNext]_vars
                 PROVE  PictureInv'
      OBVIOUS
    <2>1. CASE Walk /\ UNCHANGED <<plan, run, twin, past, tick>>
      <3>1. phase = "walk" /\ phase' \in {"walk", "cycle"}
        BY <2>1 DEF Walk, WalkDep, WalkPop, WalkOutput, Answer, Walking, Visit, VisitRetained,
                    VisitPlain, Record
      <3> QED
        BY <2>1, <3>1 DEF PictureInv
    <2>2. CASE Emit
      <3>1. g' = g /\ order' = order /\ tick' = tick /\ tick = 0
        BY <2>2 DEF Emit, Walked, Walking, PictureInv
      <3>2. CASE Accepted
        <4>1. Ordered /\ plan' = Demands
          BY <2>2, <3>2, AcceptedIsOrdered DEF Emit
        <4>2. Ordered' /\ plan' = Demands'
          BY <3>1, <4>1, Decided DEF Ordered, Emitted
        <4> QED
          BY <3>1, <4>2 DEF PictureInv
      <3>3. CASE ~ Accepted
        <4>1. phase' = "refused"
          BY <2>2, <3>3 DEF Emit
        <4> QED
          BY <3>1, <4>1 DEF PictureInv
      <3> QED
        BY <3>2, <3>3
    <2>3. CASE Tick
      <3>1. /\ phase = "emitted" /\ phase' = phase /\ g' = g /\ order' = order /\ plan' = plan
            /\ Ordered /\ plan = Demands /\ Shaped(run) /\ Apart(run)
        BY <2>3 DEF Tick, PictureInv, EpisodeInv, walkVars
      <3>2. PICK batch : run' = Ticked(run, batch, tick + 1, FALSE)
        BY <2>3 DEF Tick
      <3>3. g.rewinds => Shows(run')
        BY <3>1, <3>2, TickShows
      <3>4. Ordered' /\ plan' = Demands'
        BY <3>1, Decided DEF Ordered, Emitted
      <3>5. Shows(run') => Shows(run)'
        <4>1. /\ Nodes' = Nodes /\ Latches' = Latches /\ Demands' = Demands
              /\ \A n : Gates(n)' = Gates(n) /\ IsLatch(n)' = IsLatch(n)
          BY <3>1, Decided
        <4>2. \A n : RanAs(run, n)' <=> RanAs(run', n)
          BY <4>1, Zenon DEF RanAs, Open
        <4> QED
          BY <4>1, <4>2, Zenon DEF Shows
      <3> QED
        BY <3>1, <3>3, <3>4, <3>5 DEF PictureInv
    <2>4. CASE UNCHANGED vars
      <3>1. /\ phase' = phase /\ g' = g /\ order' = order /\ plan' = plan /\ tick' = tick
            /\ run' = run
        BY <2>4 DEF vars, walkVars
      <3>2. Ordered => Ordered'
        BY <3>1, Decided DEF Ordered, Emitted
      <3>3. Shows(run) => Shows(run)'
        BY <3>1, Decided DEF Shows, RanAs, Open
      <3> QED
        BY <3>1, <3>2, <3>3, Decided DEF PictureInv
    <2> QED
      BY <2>1, <2>2, <2>3, <2>4 DEF SweepNext, Expand
  <1> QED
    BY <1>1, <1>2, WalkInvariance, WalkStepsInOrder, EpisodeInvariance, PTL DEF SweepSpec

-----------------------------------------------------------------------------
(* The picture's lanes.                                                    *)

\* A finite set lists each of its elements once.
LEMMA SetListed ==
    ASSUME NEW S, IsFiniteSet(S)
    PROVE  /\ SetToSeq(S) \in Seq(S) /\ Range(SetToSeq(S)) = S
           /\ \A i, j \in 1..Len(SetToSeq(S)) : SetToSeq(S)[i] = SetToSeq(S)[j] => i = j
  <1> DEFINE m == Cardinality(S)
             f == SetToSeq(S)
  <1>1. m \in Nat /\ ExistsBijection(1..m, S)
    BY FS_CardinalityType
  <1>2. PICK h \in Bijection(1..m, S) : TRUE
    BY <1>1 DEF ExistsBijection
  <1>3. h \in [1..m -> S] /\ IsInjective(h)
    BY <1>2 DEF Bijection, Injection, IsInjective
  <1>4. f \in [1..m -> S] /\ IsInjective(f)
    BY <1>3, Zenon DEF SetToSeq
  <1> HIDE DEF f
  <1>5. f \in Injection(1..m, S)
    BY <1>4 DEF Injection, IsInjective
  <1>6. Cardinality(1..m) = m
    BY <1>1, FS_Interval
  <1>7. f \in Surjection(1..m, S)
    BY <1>5, <1>6, FS_Injection
  <1>8. f \in Seq(S) /\ Len(f) = m /\ DOMAIN f = 1..m
    BY <1>1, <1>4, SeqDef, LenProperties
  <1>9. Range(f) = S
    BY <1>4, <1>7, <1>8 DEF Range, Surjection
  <1>10. \A i, j \in 1..Len(f) : f[i] = f[j] => i = j
    BY <1>4, <1>8 DEF IsInjective
  <1> QED
    BY <1>8, <1>9, <1>10 DEF f

\* The picture lists the roots and the nodes once, a reader below what it reads.
Listed(pic) ==
    /\ pic \in Seq(Range(pic)) /\ Range(pic) = RootsIn(g) \cup Nodes
    /\ \A i, j \in 1..Len(pic) : pic[i] = pic[j] => i = j
    /\ \A i, j \in 1..Len(pic) : pic[i] \in Uniq(pic[j]) => i < j
    /\ \A j \in 1..Len(pic) : Uniq(pic[j]) \subseteq Range(pic)
    /\ \A j \in 1..Len(pic) : Uniq(pic[j]) # {} => pic[j] \in Nodes
    /\ Free \notin Range(pic) /\ IsFiniteSet(Nodes)

\* So it does for what graph! accepts.
LEMMA PictureListed ==
    ASSUME Ordered
    PROVE  Listed(Pictured)
  <1> DEFINE S == RootsIn(g)
             head == SetToSeq(S)
             m == Len(head)
             L == Len(order)
             pic == Pictured
  <1>1. IsGraph(g)
    BY ResolveConstants DEF Ordered, Emitted
  <1>2. IsFiniteSet(S)
    <2> DEFINE f == [r \in g.roots |-> Cell(r)]
    <2>1. f \in Surjection(g.roots, S)
      BY DEF Surjection, RootsIn
    <2>2. IsFiniteSet(g.roots)
      BY <1>1 DEF IsGraph
    <2> HIDE DEF f
    <2> QED
      BY <2>1, <2>2, FS_Surjection
  <1>3. /\ head \in Seq(S) /\ Range(head) = S /\ m \in Nat /\ DOMAIN head = 1..m
        /\ \A i, j \in 1..m : head[i] = head[j] => i = j
    BY <1>2, SetListed, LenProperties
  <1>4. /\ L \in Nat /\ order \in Seq(Nodes) /\ DOMAIN order = 1..L
        /\ \A n \in Nodes : At(n) \in 1..L /\ order[At(n)] = n
        /\ \A i \in 1..L : order[i] \in Nodes /\ At(order[i]) = i
    <2>1. /\ L \in Nat /\ order \in Seq(NodesIn(g)) /\ DOMAIN order = 1..L
          /\ \A i \in 1..L : order[i] \in Nodes
      BY Positions DEF Ordered, Emitted
    <2>2. order \in [1..L -> Nodes]
      BY <2>1, LenProperties
    <2> QED
      BY <2>1, <2>2, SeqDef, Positions
  <1>5. pic = head \o order
    BY DEF Pictured, RootsIn
  <1> HIDE DEF head, S, pic
  <1>6. /\ Len(pic) = m + L /\ Len(pic) \in Nat /\ DOMAIN pic = 1..(m + L)
        /\ \A i \in 1..(m + L) : pic[i] = IF i <= m THEN head[i] ELSE order[i - m]
    <2> DEFINE U == S \cup Nodes
    <2>1. head \in Seq(U) /\ order \in Seq(U)
      BY <1>3, <1>4
    <2>2. /\ pic \in Seq(U) /\ Len(pic) = m + L
          /\ \A i \in 1..(m + L) : pic[i] = IF i <= m THEN head[i] ELSE order[i - m]
      BY <1>5, <2>1, ConcatProperties
    <2> QED
      BY <1>3, <1>4, <2>2, LenProperties
  <1>7. \A n \in Nodes : n \in NodesIn(g) /\ n \notin S /\ ~ IsRoot(n) /\ n # Free
    <2> SUFFICES ASSUME NEW n \in Nodes
                 PROVE  n \in NodesIn(g) /\ n \notin S /\ ~ IsRoot(n) /\ n # Free
      OBVIOUS
    <2>1. n \in NodesIn(g)
      BY Positions, LenProperties DEF Ordered, Emitted
    <2>2. CASE \E x \in Keys(g) \ g.roots : n = Cell(x)
      <3>1. Len(n) = 1 /\ Len(Free) = 0
        BY <2>2, Lengths DEF Free
      <3>2. n \notin S /\ ~ IsRoot(n)
        BY <2>2, Lengths DEF S, RootsIn, IsRoot
      <3> QED
        BY <2>1, <3>1, <3>2
    <2>3. CASE \E x \in Keys(g) : n = Buffer(x)
      <3>1. Len(n) = 2 /\ Len(Free) = 0 /\ IsBuffer(n)
        BY <2>3, Lengths DEF Free, IsBuffer
      <3>2. n \notin S /\ ~ IsRoot(n)
        BY <3>1, Lengths DEF S, RootsIn, IsRoot
      <3> QED
        BY <2>1, <3>1, <3>2
    <2> QED
      BY <2>1, <2>2, <2>3 DEF NodesIn
  <1>8. \A r \in S : IsRoot(r) /\ r # Free
    <2> SUFFICES ASSUME NEW r \in S
                 PROVE  IsRoot(r) /\ r # Free
      OBVIOUS
    <2>1. PICK x \in g.roots : r = Cell(x)
      BY DEF S, RootsIn
    <2>2. Len(r) = 1 /\ r[1] = x /\ Len(Free) = 0
      BY <2>1, Lengths DEF Free
    <2>3. IsRoot(r)
      <3>1. ~ IsBuffer(r)
        BY <2>2 DEF IsBuffer
      <3> QED
        BY <2>1, <2>2, <3>1, Zenon DEF IsRoot
    <2>4. r # Free
      BY <2>2
    <2> QED
      BY <2>3, <2>4
  <1>9. \A i \in 1..(m + L) : IF i <= m THEN pic[i] \in S ELSE pic[i] \in Nodes /\ At(pic[i]) = i - m
    <2> SUFFICES ASSUME NEW i \in 1..(m + L)
                 PROVE  IF i <= m THEN pic[i] \in S ELSE pic[i] \in Nodes /\ At(pic[i]) = i - m
      OBVIOUS
    <2>1. CASE i <= m
      <3>1. i \in 1..m /\ pic[i] = head[i]
        BY <1>6, <1>3, <1>4, <2>1
      <3> QED
        BY <1>3, <2>1, <3>1
    <2>2. CASE ~ (i <= m)
      <3>1. i - m \in 1..L /\ pic[i] = order[i - m]
        BY <1>6, <1>3, <1>4, <2>2
      <3> QED
        BY <1>4, <2>2, <3>1
    <2> QED
      BY <2>1, <2>2
  <1>10. /\ \A r \in S : \E i \in 1..m : i \in 1..(m + L) /\ pic[i] = r
         /\ \A n \in Nodes : m + At(n) \in 1..(m + L) /\ pic[m + At(n)] = n
    <2>1. ASSUME NEW r \in S
          PROVE  \E i \in 1..m : i \in 1..(m + L) /\ pic[i] = r
      <3>1. PICK i \in 1..m : head[i] = r
        BY <1>3 DEF Range
      <3> QED
        BY <1>3, <1>4, <1>6, <3>1
    <2>2. ASSUME NEW n \in Nodes
          PROVE  m + At(n) \in 1..(m + L) /\ pic[m + At(n)] = n
      <3>1. At(n) \in 1..L /\ order[At(n)] = n
        BY <1>4
      <3>2. m + At(n) \in 1..(m + L) /\ ~ (m + At(n) <= m) /\ (m + At(n)) - m = At(n)
        BY <1>3, <1>4, <3>1
      <3> QED
        BY <1>6, <3>1, <3>2
    <2> QED
      BY <2>1, <2>2
  <1>11. Range(pic) = S \cup Nodes
    BY <1>6, <1>9, <1>10 DEF Range
  <1>12. pic \in Seq(Range(pic))
    <2>1. pic \in Seq(S \cup Nodes)
      BY <1>3, <1>4, <1>5, ConcatProperties
    <2> QED
      BY <1>11, <2>1
  <1>13. ASSUME NEW i \in 1..(m + L), NEW j \in 1..(m + L), pic[i] = pic[j]
         PROVE  i = j
    <2>1. CASE i <= m
      <3>1. j <= m
        BY <1>7, <1>9, <1>13, <2>1
      <3>2. i \in 1..m /\ j \in 1..m /\ head[i] = head[j]
        BY <1>3, <1>4, <1>6, <1>13, <2>1, <3>1
      <3> QED
        BY <1>3, <3>2
    <2>2. CASE ~ (i <= m)
      <3>1. ~ (j <= m)
        BY <1>7, <1>9, <1>13, <2>2
      <3>2. At(pic[i]) = i - m /\ At(pic[i]) = j - m
        BY <1>9, <1>13, <2>2, <3>1
      <3> QED
        BY <1>3, <1>4, <3>2
    <2> QED
      BY <2>1, <2>2
  <1>14. ASSUME NEW j \in 1..(m + L), NEW t \in Uniq(pic[j])
         PROVE  /\ pic[j] \in Nodes /\ t \in Range(pic)
                /\ t \in Nodes => At(t) < At(pic[j])
    <2>1. ~ (pic[j] \in S)
      BY <1>8 DEF Uniq
    <2>2. pic[j] \in Nodes
      BY <1>9, <2>1
    <2>3. PICK d \in Deps(pic[j]) : t = Target(d)
      BY DEF Uniq
    <2>4. t \in S \/ (t \in Nodes /\ At(t) < At(pic[j]))
      BY <2>2, <2>3 DEF Ordered, S
    <2> QED
      BY <1>7, <1>11, <2>2, <2>4
  <1>15. ASSUME NEW i \in 1..(m + L), NEW j \in 1..(m + L), pic[i] \in Uniq(pic[j])
         PROVE  i < j
    <2>1. pic[j] \in Nodes /\ (pic[i] \in Nodes => At(pic[i]) < At(pic[j]))
      BY <1>14, <1>15
    <2>2. ~ (j <= m) /\ At(pic[j]) = j - m
      BY <1>7, <1>9, <2>1
    <2>3. CASE i <= m
      BY <1>3, <1>4, <2>2, <2>3
    <2>4. CASE ~ (i <= m)
      <3>1. i - m < j - m
        BY <1>9, <2>1, <2>2, <2>4
      <3> QED
        BY <1>3, <1>4, <3>1
    <2> QED
      BY <2>3, <2>4
  <1>16. IsFiniteSet(Nodes)
    <2>1. order \in Surjection(1..L, Nodes)
      BY <1>4, LenProperties DEF Surjection
    <2>2. IsFiniteSet(1..L)
      BY <1>4, FS_Interval
    <2> QED
      BY <2>1, <2>2, FS_Surjection
  <1>17. Free \notin Range(pic)
    BY <1>7, <1>8, <1>11
  <1>18. /\ \A j \in 1..(m + L) : Uniq(pic[j]) \subseteq Range(pic)
         /\ \A j \in 1..(m + L) : Uniq(pic[j]) # {} => pic[j] \in Nodes
    BY <1>14
  <1> QED
    BY <1>6, <1>11, <1>12, <1>13, <1>15, <1>16, <1>17, <1>18 DEF Listed, pic, S

\* The greater of two.
LEMMA MaxOfTwo ==
    ASSUME NEW x \in Int, NEW y \in Int
    PROVE  Max({x, y}) = IF x >= y THEN x ELSE y
  <1> DEFINE top == IF x >= y THEN x ELSE y
  <1>1. top \in {x, y} /\ \A z \in {x, y} : top >= z
    OBVIOUS
  <1>2. Max({x, y}) \in {x, y} /\ \A z \in {x, y} : Max({x, y}) >= z
    BY <1>1, Zenon DEF Max
  <1> QED
    BY <1>2

\* A set of naturals below a bound has a greatest.
LEMMA MaxWithin ==
    ASSUME NEW n \in Nat, NEW X \in SUBSET (0..n), X # {}
    PROVE  Max(X) \in X /\ \A y \in X : y <= Max(X)
  <1> DEFINE B == {k \in Nat : \A x \in X : x <= k}
  <1>1. B \subseteq Nat /\ n \in B
    OBVIOUS
  <1>2. PICK k \in B : \A j \in B : k <= j
    BY <1>1, Ticking!Least, Zenon
  <1>3. k \in X
    <2> SUFFICES ASSUME k \notin X
                 PROVE  FALSE
      OBVIOUS
    <2>1. \A x \in X : x \in Nat /\ x < k
      BY <1>2
    <2>2. PICK x \in X : x \in Nat /\ x < k
      BY <2>1
    <2>3. k \in Nat /\ k - 1 \in Nat
      BY <1>2, <2>2
    <2>4. k - 1 \in B
      BY <2>1, <2>3
    <2> HIDE DEF B
    <2>5. k <= k - 1
      BY <1>2, <2>4
    <2> QED
      BY <2>3, <2>5
  <1>4. \E x \in X : \A y \in X : x >= y
    BY <1>2, <1>3
  <1>5. Max(X) \in X /\ \A y \in X : Max(X) >= y
    BY <1>4, Zenon DEF Max
  <1> QED
    BY <1>5

\* Trimming gives up free slots only.
LEMMA TrimKeeps ==
    ASSUME NEW S, NEW lanes \in Seq(S), NEW t, t = TrimLanes(lanes)
    PROVE  /\ t \in Seq(S) /\ Len(t) \in 0..Len(lanes)
           /\ \A j \in 1..Len(t) : t[j] = lanes[j]
           /\ \A j \in 1..Len(lanes) : lanes[j] # Free => j <= Len(t)
  <1> DEFINE X == {k \in DOMAIN lanes : lanes[k] # Free} \cup {0}
             x == Max(X)
  <1>1. Len(lanes) \in Nat /\ DOMAIN lanes = 1..Len(lanes)
    BY LenProperties
  <1>2. X \in SUBSET (0..Len(lanes)) /\ X # {}
    BY <1>1
  <1>3. \A j \in 1..Len(lanes) : lanes[j] # Free => j \in X
    BY <1>1
  <1> HIDE DEF X
  <1>4. x \in 0..Len(lanes) /\ \A y \in X : y <= x
    BY <1>1, <1>2, MaxWithin
  <1>5. t = SubSeq(lanes, 1, x)
    BY DEF TrimLanes, X
  <1> HIDE DEF x
  <1>6. t \in Seq(S) /\ Len(t) = x /\ \A j \in 1..x : t[j] = lanes[j]
    BY <1>1, <1>4, <1>5
  <1> QED
    BY <1>3, <1>4, <1>6

\* The first free lane is free, or new.
LEMMA FirstFreeIs ==
    ASSUME NEW S, NEW lanes \in Seq(S)
    PROVE  /\ FirstFree(lanes) \in 1..(Len(lanes) + 1)
           /\ FirstFree(lanes) <= Len(lanes) => lanes[FirstFree(lanes)] = Free
  <1> DEFINE X == {k \in DOMAIN lanes : lanes[k] = Free} \cup {Len(lanes) + 1}
  <1>1. Len(lanes) \in Nat /\ DOMAIN lanes = 1..Len(lanes)
    BY LenProperties
  <1>2. /\ X \subseteq Nat /\ X # {} /\ X \subseteq 1..(Len(lanes) + 1)
        /\ \A k \in X : k <= Len(lanes) => lanes[k] = Free
    BY <1>1
  <1> HIDE DEF X
  <1>3. \E k \in X : \A j \in X : k <= j
    BY <1>2, Ticking!Least, Zenon
  <1>4. Min(X) \in X
    BY <1>3, Zenon DEF Min
  <1>5. FirstFree(lanes) = Min(X)
    BY DEF FirstFree, X
  <1> QED
    BY <1>2, <1>4, <1>5

\* A line's lanes: each producer of `reading` on one of them, every other free.
Laned(lanes, reading) ==
    /\ \A j \in 1..Len(lanes) : lanes[j] # Free => lanes[j] \in reading
    /\ \A n \in reading : \E j \in 1..Len(lanes) : lanes[j] = n
    /\ \A i, j \in 1..Len(lanes) : lanes[i] = lanes[j] /\ lanes[i] # Free => i = j

\* Closing the lanes last read leaves the others', trimmed.
LEMMA LanesClose ==
    ASSUME NEW S, Free \in S, NEW reading, NEW lanes \in Seq(S), Laned(lanes, reading), NEW shut,
           NEW t, t = TrimLanes([k \in DOMAIN lanes |-> IF lanes[k] \in shut THEN Free ELSE lanes[k]]),
           Free \notin reading
    PROVE  t \in Seq(S) /\ Laned(t, reading \ shut)
  <1> DEFINE left == [k \in DOMAIN lanes |-> IF lanes[k] \in shut THEN Free ELSE lanes[k]]
  <1>1. Len(lanes) \in Nat /\ DOMAIN lanes = 1..Len(lanes) /\ \A j \in 1..Len(lanes) : lanes[j] \in S
    BY LenProperties
  <1>2. left \in Seq(S) /\ Len(left) = Len(lanes)
    <2>1. left \in [1..Len(lanes) -> S]
      BY <1>1
    <2> HIDE DEF left
    <2> QED
      BY <1>1, <2>1, SeqDef, LenProperties
  <1>3. \A j \in 1..Len(lanes) : left[j] = IF lanes[j] \in shut THEN Free ELSE lanes[j]
    BY <1>1
  <1> HIDE DEF left
  <1>4. /\ t \in Seq(S) /\ Len(t) \in 0..Len(lanes)
        /\ \A j \in 1..Len(t) : t[j] = left[j]
        /\ \A j \in 1..Len(lanes) : left[j] # Free => j <= Len(t)
    <2>1. t = TrimLanes(left)
      BY DEF left
    <2> DEFINE u == TrimLanes(left)
    <2>2. /\ u \in Seq(S) /\ Len(u) \in 0..Len(left)
          /\ \A j \in 1..Len(u) : u[j] = left[j]
          /\ \A j \in 1..Len(left) : left[j] # Free => j <= Len(u)
      BY <1>2, TrimKeeps
    <2> HIDE DEF u
    <2> QED
      BY <1>2, <2>1, <2>2 DEF u
  <1>5. \A j \in 1..Len(t) : j \in 1..Len(lanes)
    BY <1>1, <1>4
  <1>6. ASSUME NEW j \in 1..Len(t), t[j] # Free
        PROVE  t[j] = lanes[j] /\ t[j] \in reading \ shut
    BY <1>3, <1>4, <1>5, <1>6 DEF Laned
  <1>7. ASSUME NEW n \in reading \ shut
        PROVE  \E j \in 1..Len(t) : t[j] = n
    <2>1. PICK j \in 1..Len(lanes) : lanes[j] = n
      BY DEF Laned
    <2>2. left[j] = n /\ n # Free
      BY <1>3, <2>1
    <2>3. j \in 1..Len(t)
      BY <1>1, <1>4, <2>2
    <2> QED
      BY <1>4, <2>2, <2>3
  <1>8. ASSUME NEW i \in 1..Len(t), NEW j \in 1..Len(t), t[i] = t[j], t[i] # Free
        PROVE  i = j
    <2>1. lanes[i] = lanes[j] /\ lanes[i] # Free
      BY <1>6, <1>8
    <2> QED
      BY <1>5, <2>1 DEF Laned
  <1> QED
    BY <1>4, <1>6, <1>7, <1>8 DEF Laned

\* The node drawn takes the first free lane for itself.
LEMMA LanesTake ==
    ASSUME NEW S, NEW n \in S, n # Free, NEW reading, n \notin reading, Free \notin reading,
           NEW lanes \in Seq(S), Laned(lanes, reading),
           NEW t, t = [k \in 1..Max({Len(lanes), FirstFree(lanes)}) |->
                          IF k = FirstFree(lanes) THEN n ELSE lanes[k]]
    PROVE  t \in Seq(S) /\ Laned(t, reading \cup {n})
  <1> DEFINE f == FirstFree(lanes)
             L == Len(lanes)
             M == Max({L, f})
  <1>1. L \in Nat /\ \A j \in 1..L : lanes[j] \in S
    BY LenProperties
  <1>2. f \in 1..(L + 1) /\ (f <= L => lanes[f] = Free)
    BY FirstFreeIs
  <1>3. M = IF L >= f THEN L ELSE f
    BY <1>1, <1>2, MaxOfTwo
  <1> HIDE DEF f, L, M
  <1>4. /\ M \in Nat /\ f \in 1..M /\ \A j \in 1..L : j \in 1..M
        /\ \A j \in 1..M : j # f => j \in 1..L
    BY <1>1, <1>2, <1>3
  <1> DEFINE w == [k \in 1..M |-> IF k = f THEN n ELSE lanes[k]]
  <1>5. t = w
    BY DEF f, L, M
  <1>6. w \in [1..M -> S]
    BY <1>1, <1>4
  <1>7. w \in Seq(S) /\ Len(w) = M
    BY <1>4, <1>6, SeqDef, LenProperties
  <1>8. w[f] = n /\ \A j \in 1..M : j # f => j \in 1..L /\ w[j] = lanes[j]
    BY <1>4
  <1> HIDE DEF w
  <1>9. \A j \in 1..L : lanes[j] # Free => j \in 1..M /\ j # f /\ lanes[j] \in reading /\ lanes[j] # n
    BY <1>1, <1>2, <1>4 DEF Laned, L
  <1>10. ASSUME NEW j \in 1..M, w[j] # Free
         PROVE  w[j] \in reading \cup {n}
    BY <1>8, <1>9, <1>10
  <1>11. ASSUME NEW x \in reading \cup {n}
         PROVE  \E j \in 1..M : w[j] = x
    <2>1. CASE x = n
      BY <1>4, <1>8, <2>1
    <2>2. CASE x # n
      <3>1. PICK j \in 1..L : lanes[j] = x
        BY <2>2 DEF Laned, L
      <3>2. x # Free
        BY <2>2
      <3> QED
        BY <1>8, <1>9, <3>1, <3>2
    <2> QED
      BY <2>1, <2>2
  <1>12. ASSUME NEW i \in 1..M, NEW j \in 1..M, w[i] = w[j], w[i] # Free
         PROVE  i = j
    <2>1. CASE i = f
      BY <1>8, <1>9, <1>12, <2>1
    <2>2. CASE j = f
      BY <1>8, <1>9, <1>12, <2>2
    <2>3. CASE i # f /\ j # f
      <3>1. i \in 1..L /\ j \in 1..L /\ lanes[i] = lanes[j] /\ lanes[i] # Free
        BY <1>8, <1>12, <2>3
      <3> QED
        BY <3>1 DEF Laned, L
    <2> QED
      BY <2>1, <2>2, <2>3
  <1> QED
    <2>1. Laned(w, reading \cup {n})
      BY <1>7, <1>10, <1>11, <1>12 DEF Laned
    <2> QED
      BY <1>5, <1>7, <2>1

\* The readers of n that k lines have not drawn, and what those lines still owe a lane.
Undrawn(k, n) ==
    {c \in Nodes : n \in Uniq(c) /\ \E j \in (k + 1)..Len(Pictured) : c = Pictured[j]}
StillRead(k) ==
    {n \in Range(Pictured) : (\E i \in 1..k : n = Pictured[i]) /\ Undrawn(k, n) # {}}

\* A line draws one reader of each producer it reads.
LEMMA UndrawnShrinks ==
    ASSUME Listed(Pictured), NEW k \in Nat, k < Len(Pictured), NEW t,
           NEW n, n = Pictured[k + 1]
    PROVE  /\ IsFiniteSet(Undrawn(k, t))
           /\ t \in Uniq(n) => n \in Undrawn(k, t) /\ Undrawn(k + 1, t) = Undrawn(k, t) \ {n}
           /\ t \notin Uniq(n) => Undrawn(k + 1, t) = Undrawn(k, t)
  <1> DEFINE pic == Pictured
             N == Len(pic)
  <1>1. /\ N \in Nat /\ k < N /\ \A i, j \in 1..N : pic[i] = pic[j] => i = j
        /\ \A j \in 1..N : Uniq(pic[j]) # {} => pic[j] \in Nodes
        /\ IsFiniteSet(Nodes) /\ k + 1 \in 1..N
    <2>1. Pictured \in Seq(Range(Pictured)) /\ IsFiniteSet(Nodes)
      BY DEF Listed
    <2>2. Len(Pictured) \in Nat
      BY <2>1, LenProperties
    <2>3. /\ \A i, j \in 1..Len(Pictured) : Pictured[i] = Pictured[j] => i = j
          /\ \A j \in 1..Len(Pictured) : Uniq(Pictured[j]) # {} => Pictured[j] \in Nodes
      BY DEF Listed
    <2>4. k + 1 \in 1..Len(Pictured)
      BY <2>2
    <2> QED
      BY <2>1, <2>2, <2>3, <2>4
  <1>2. /\ n = pic[k + 1]
        /\ \A m : Undrawn(m, t) = {c \in Nodes : t \in Uniq(c) /\ \E j \in (m + 1)..N : c = pic[j]}
    BY DEF Undrawn
  <1> HIDE DEF pic, N
  <1>3. \A j \in (k + 1)..N : j = k + 1 \/ j \in ((k + 1) + 1)..N
    BY <1>1
  <1>4. \A j \in ((k + 1) + 1)..N : j \in (k + 1)..N /\ j \in 1..N /\ j # k + 1
    BY <1>1
  <1>5. \A j \in ((k + 1) + 1)..N : pic[j] # n
    BY <1>1, <1>2, <1>4
  <1>6. IsFiniteSet(Undrawn(k, t))
    <2>1. Undrawn(k, t) \in SUBSET Nodes
      BY <1>2
    <2> QED
      BY <1>1, <2>1, FS_Subset
  <1>7. \A c : c \in Undrawn(k + 1, t) <=> c \in Undrawn(k, t) /\ c # n
    BY <1>2, <1>3, <1>4, <1>5
  <1>8. t \in Uniq(n) => n \in Undrawn(k, t)
    <2>1. k + 1 \in (k + 1)..N
      BY <1>1
    <2> QED
      BY <1>1, <1>2, <2>1
  <1>9. t \notin Uniq(n) => n \notin Undrawn(k, t)
    BY <1>2
  <1> QED
    BY <1>6, <1>7, <1>8, <1>9

\* What it reads is on a lane, and what it is the last to read gives its lane up.
LEMMA StillReadTurns ==
    ASSUME Listed(Pictured), NEW k \in Nat, k < Len(Pictured), NEW n, n = Pictured[k + 1]
    PROVE  /\ n \in Range(Pictured) /\ n \notin StillRead(k) /\ Uniq(n) \subseteq StillRead(k)
           /\ StillRead(k) \subseteq Range(Pictured)
           /\ StillRead(k + 1) =
                (StillRead(k) \ {t \in Uniq(n) : Undrawn(k + 1, t) = {}})
                  \cup IF Undrawn(k + 1, n) = {} THEN {} ELSE {n}
  <1> DEFINE pic == Pictured
             N == Len(pic)
             shut == {t \in Uniq(n) : Undrawn(k + 1, t) = {}}
  <1>1. /\ N \in Nat /\ k < N /\ k + 1 \in 1..N /\ DOMAIN pic = 1..N
        /\ \A i, j \in 1..N : pic[i] = pic[j] => i = j
        /\ \A i, j \in 1..N : pic[i] \in Uniq(pic[j]) => i < j
        /\ \A j \in 1..N : Uniq(pic[j]) \subseteq Range(pic)
    BY LenProperties DEF Listed
  <1>2. /\ n = pic[k + 1]
        /\ \A m : StillRead(m) = {x \in Range(pic) : (\E i \in 1..m : x = pic[i]) /\ Undrawn(m, x) # {}}
    BY DEF StillRead
  <1>3. \A t : /\ t \in Uniq(n) => n \in Undrawn(k, t) /\ Undrawn(k + 1, t) = Undrawn(k, t) \ {n}
               /\ t \notin Uniq(n) => Undrawn(k + 1, t) = Undrawn(k, t)
    BY UndrawnShrinks
  <1> HIDE DEF pic, N
  <1>4. n \in Range(pic)
    BY <1>1, <1>2 DEF Range
  <1>5. \A i \in 1..k : i \in 1..N /\ i # k + 1 /\ pic[i] # n
    BY <1>1, <1>2
  <1>6. ASSUME NEW t \in Uniq(n)
        PROVE  t \in StillRead(k)
    <2>1. t \in Range(pic)
      BY <1>1, <1>2
    <2>2. PICK i \in 1..N : t = pic[i]
      BY <1>1, <2>1 DEF Range
    <2>3. i < k + 1
      BY <1>1, <1>2, <2>2
    <2>4. i \in 1..k
      BY <1>1, <2>2, <2>3
    <2> QED
      BY <1>2, <1>3, <2>1, <2>2, <2>4
  <1>7. n \notin StillRead(k)
    BY <1>2, <1>5
  <1>8. \A i : i \in 1..(k + 1) <=> i \in 1..k \/ i = k + 1
    OBVIOUS
  <1>9. ASSUME NEW x
        PROVE  x \in StillRead(k + 1) <=>
                 (x \in StillRead(k) /\ x \notin shut) \/ (x = n /\ Undrawn(k + 1, n) # {})
    <2>1. CASE x = n
      <3>1. \E i \in 1..(k + 1) : n = pic[i]
        BY <1>2, <1>8
      <3> QED
        BY <1>2, <1>4, <1>7, <2>1, <3>1
    <2>2. CASE x # n
      <3>1. (\E i \in 1..(k + 1) : x = pic[i]) <=> (\E i \in 1..k : x = pic[i])
        BY <1>2, <1>8, <2>2
      <3>2. CASE x \in Uniq(n)
        <4>1. x \in StillRead(k)
          BY <1>6, <3>2
        <4>2. x \in StillRead(k + 1) <=> Undrawn(k + 1, x) # {}
          BY <1>2, <3>1, <4>1
        <4> QED
          BY <2>2, <3>2, <4>1, <4>2
      <3>3. CASE x \notin Uniq(n)
        <4>1. Undrawn(k + 1, x) = Undrawn(k, x)
          BY <1>3, <3>3
        <4>2. x \in StillRead(k + 1) <=> x \in StillRead(k)
          BY <1>2, <3>1, <4>1
        <4> QED
          BY <2>2, <3>3, <4>2
      <3> QED
        BY <3>2, <3>3
    <2> QED
      BY <2>1, <2>2
  <1>10. StillRead(k) \subseteq Range(pic)
    BY <1>2
  <1> QED
    BY <1>4, <1>6, <1>7, <1>9, <1>10 DEF pic

\* What k lines leave: of each producer its readers still to come, and its lane.
Drawn(d, k) ==
    /\ d = [remaining |-> d.remaining, found |-> TRUE, lanes |-> d.lanes]
    /\ d.remaining = [n \in Range(Pictured) |-> Cardinality(Undrawn(k, n))]
    /\ d.lanes \in Seq(Range(Pictured) \cup {Free}) /\ Laned(d.lanes, StillRead(k))

\* A line keeps it.
LEMMA DrawKeeps ==
    ASSUME Listed(Pictured), NEW k \in Nat, k < Len(Pictured), NEW d, Drawn(d, k)
    PROVE  Drawn(DrawNode(d, Pictured[k + 1]), k + 1)
  <1> DEFINE n == Pictured[k + 1]
             S == Range(Pictured) \cup {Free}
             lastRead == {t \in Uniq(n) : d.remaining[t] = 1}
             shut == {t \in Uniq(n) : Undrawn(k + 1, t) = {}}
             left == [t \in DOMAIN d.remaining |->
                         IF t \in Uniq(n) THEN d.remaining[t] - 1 ELSE d.remaining[t]]
             lanes == TrimLanes([j \in DOMAIN d.lanes |->
                         IF d.lanes[j] \in lastRead THEN Free ELSE d.lanes[j]])
             target == FirstFree(lanes)
             taken == [j \in 1..Max({Len(lanes), target}) |-> IF j = target THEN n ELSE lanes[j]]
             found == d.found /\ Uniq(n) \subseteq Range(d.lanes)
             more == IF left[n] = 0 THEN lanes ELSE taken
  <1>1. DrawNode(d, n) = [remaining |-> left, found |-> found, lanes |-> more]
    BY DEF DrawNode
  <1>2. /\ d.found = TRUE
        /\ d.remaining = [t \in Range(Pictured) |-> Cardinality(Undrawn(k, t))]
        /\ d.lanes \in Seq(S) /\ Laned(d.lanes, StillRead(k))
    <2>1. d.found = TRUE
      BY DEF Drawn
    <2> QED
      BY <2>1 DEF Drawn
  <1>3. /\ n \in Range(Pictured) /\ n \notin StillRead(k) /\ Uniq(n) \subseteq StillRead(k)
        /\ StillRead(k) \subseteq Range(Pictured)
        /\ StillRead(k + 1) = (StillRead(k) \ shut) \cup IF Undrawn(k + 1, n) = {} THEN {} ELSE {n}
    BY StillReadTurns
  <1>4. \A t : /\ IsFiniteSet(Undrawn(k, t))
               /\ t \in Uniq(n) => n \in Undrawn(k, t) /\ Undrawn(k + 1, t) = Undrawn(k, t) \ {n}
               /\ t \notin Uniq(n) => Undrawn(k + 1, t) = Undrawn(k, t)
    BY UndrawnShrinks
  <1>5. Free \notin Range(Pictured)
    BY DEF Listed
  <1> HIDE DEF n, shut
  <1>6. \A t \in Range(Pictured) :
            /\ IsFiniteSet(Undrawn(k + 1, t)) /\ Cardinality(Undrawn(k + 1, t)) \in Nat
            /\ (Cardinality(Undrawn(k + 1, t)) = 0 <=> Undrawn(k + 1, t) = {})
            /\ Cardinality(Undrawn(k + 1, t)) =
                 IF t \in Uniq(n) THEN d.remaining[t] - 1 ELSE d.remaining[t]
    <2> SUFFICES ASSUME NEW t \in Range(Pictured)
                 PROVE  /\ IsFiniteSet(Undrawn(k + 1, t)) /\ Cardinality(Undrawn(k + 1, t)) \in Nat
                        /\ (Cardinality(Undrawn(k + 1, t)) = 0 <=> Undrawn(k + 1, t) = {})
                        /\ Cardinality(Undrawn(k + 1, t)) =
                             IF t \in Uniq(n) THEN d.remaining[t] - 1 ELSE d.remaining[t]
      OBVIOUS
    <2>1. d.remaining[t] = Cardinality(Undrawn(k, t))
      BY <1>2
    <2>2. /\ IsFiniteSet(Undrawn(k, t) \ {n})
          /\ n \in Undrawn(k, t) => Cardinality(Undrawn(k, t) \ {n}) = Cardinality(Undrawn(k, t)) - 1
      BY <1>4, FS_RemoveElement
    <2>3. /\ IsFiniteSet(Undrawn(k + 1, t))
          /\ Cardinality(Undrawn(k + 1, t)) =
               IF t \in Uniq(n) THEN d.remaining[t] - 1 ELSE d.remaining[t]
      BY <1>4, <2>1, <2>2
    <2> QED
      BY <2>3, FS_CardinalityType, FS_EmptySet
  <1>7. left = [t \in Range(Pictured) |-> Cardinality(Undrawn(k + 1, t))]
    BY <1>2, <1>6
  <1>8. lastRead = shut
    <2>1. \A t \in Uniq(n) : d.remaining[t] = 1 <=> Undrawn(k + 1, t) = {}
      <3> SUFFICES ASSUME NEW t \in Uniq(n)
                   PROVE  d.remaining[t] = 1 <=> Undrawn(k + 1, t) = {}
        OBVIOUS
      <3>1. t \in Range(Pictured)
        BY <1>3
      <3>2. d.remaining[t] \in Nat
        BY <1>2, <1>4, <3>1, FS_CardinalityType
      <3> QED
        BY <1>6, <3>1, <3>2
    <2> QED
      BY <2>1 DEF shut
  <1>9. found = TRUE
    <2>1. Uniq(n) \subseteq Range(d.lanes)
      BY <1>2, <1>3, LenProperties DEF Laned, Range
    <2> QED
      BY <1>2, <2>1
  <1>10. left[n] = 0 <=> Undrawn(k + 1, n) = {}
    BY <1>3, <1>6, <1>7
  <1> HIDE DEF left, lastRead, found, S
  <1>11. Free \in S /\ n \in S /\ n # Free
    BY <1>3, <1>5 DEF S
  <1>12. lanes \in Seq(S) /\ Laned(lanes, StillRead(k) \ shut)
    <2> DEFINE reading == StillRead(k)
               held == d.lanes
               trimmed == TrimLanes([j \in DOMAIN held |-> IF held[j] \in shut THEN Free ELSE held[j]])
    <2>1. lanes = trimmed
      BY <1>8
    <2>2. Free \notin reading /\ held \in Seq(S) /\ Laned(held, reading)
      BY <1>2, <1>3, <1>5
    <2> HIDE DEF reading, held, lanes
    <2>3. trimmed \in Seq(S) /\ Laned(trimmed, reading \ shut)
      BY <1>11, <2>2, LanesClose
    <2> QED
      BY <2>1, <2>3 DEF reading
  <1> HIDE DEF lanes
  <1>13. taken \in Seq(S) /\ Laned(taken, (StillRead(k) \ shut) \cup {n})
    BY <1>3, <1>5, <1>11, <1>12, LanesTake
  <1> HIDE DEF taken
  <1>14. more \in Seq(S) /\ Laned(more, StillRead(k + 1))
    <2>1. CASE left[n] = 0
      <3>1. more = lanes /\ StillRead(k + 1) = StillRead(k) \ shut
        BY <1>3, <1>10, <2>1
      <3> QED
        BY <1>12, <3>1
    <2>2. CASE left[n] # 0
      <3>1. more = taken /\ StillRead(k + 1) = (StillRead(k) \ shut) \cup {n}
        BY <1>3, <1>10, <2>2
      <3> QED
        BY <1>13, <3>1
    <2> QED
      BY <2>1, <2>2
  <1> HIDE DEF more
  <1>15. DrawNode(d, n) = [remaining |-> left, found |-> TRUE, lanes |-> more]
    BY <1>1, <1>9
  <1> QED
    BY <1>7, <1>14, <1>15 DEF Drawn, S, n

\* Before the first line every reader is to come; and so through the whole picture.
LEMMA DrawnThrough ==
    ASSUME Listed(Pictured), NEW k \in 0..Len(Pictured)
    PROVE  Drawn(Drawing(k), k)
  <1> DEFINE N == Len(Pictured)
             start == [remaining |-> Remaining, found |-> TRUE, lanes |-> <<>>]
             F(m) == Folded!Fold(<<>>, start, SubSeq(Pictured, 0 + 1, m))
             T == {m \in Nat : m <= N => Drawn(F(m), m)}
  <1>1. N \in Nat /\ DOMAIN Pictured = 1..N /\ Pictured \in Seq(Range(Pictured))
    <2>1. Pictured \in Seq(Range(Pictured))
      BY DEF Listed
    <2> QED
      BY <2>1, LenProperties
  <1>2. Drawing(k) = F(k)
    <2>1. 0 + 1 = 1
      OBVIOUS
    <2>2. Drawing(k) = Folded!Fold(<<>>, start, SubSeq(Pictured, 1, k))
      BY Zenon DEF Drawing, Folded!Fold, FoldLeft, MapThenFoldSet, Folded!FoldLeft,
                   Folded!MapThenFoldSet, Max, Folded!Max
    <2> QED
      BY <2>1, <2>2
  <1>3. Drawn(start, 0)
    <2>1. \A c \in Nodes : \E j \in (0 + 1)..N : c = Pictured[j]
      <3>1. Nodes \subseteq Range(Pictured)
        BY DEF Listed
      <3> QED
        BY <1>1, <3>1 DEF Range
    <2>2. \A n : Undrawn(0, n) = {c \in Nodes : n \in Uniq(c)}
      BY <2>1 DEF Undrawn
    <2>3. Remaining = [n \in Range(Pictured) |-> Cardinality(Undrawn(0, n))]
      BY <2>2 DEF Remaining
    <2>4. StillRead(0) = {}
      <3>1. \A i : i \notin 1..0
        OBVIOUS
      <3> QED
        BY <3>1 DEF StillRead
    <2>5. <<>> \in Seq(Range(Pictured) \cup {Free}) /\ Len(<<>>) = 0
      OBVIOUS
    <2>6. Laned(<<>>, StillRead(0))
      <3>1. \A i : i \notin 1..0
        OBVIOUS
      <3> QED
        BY <2>4, <2>5, <3>1 DEF Laned
    <2>7. start.remaining = Remaining /\ start.found = TRUE /\ start.lanes = <<>>
      OBVIOUS
    <2>8. start = [remaining |-> start.remaining, found |-> TRUE, lanes |-> start.lanes]
      OBVIOUS
    <2> HIDE DEF start
    <2> QED
      BY <2>3, <2>5, <2>6, <2>7, <2>8 DEF Drawn
  <1> HIDE DEF start
  <1>4. 0 \in T
    <2>1. SubSeq(Pictured, 0 + 1, 0) = <<>>
      BY <1>1, Folded!SubSeqGrows
    <2>2. F(0) = start
      BY <2>1, Folded!FoldEmpty
    <2> HIDE DEF F
    <2> QED
      BY <1>3, <2>2
  <1>5. ASSUME NEW m \in Nat, m \in T
        PROVE  m + 1 \in T
    <2> SUFFICES ASSUME m + 1 <= N
                 PROVE  Drawn(F(m + 1), m + 1)
      OBVIOUS
    <2>1. m < N /\ m \in 0..N /\ 0 \in 0..m
      BY <1>1
    <2>2. Drawn(F(m), m)
      BY <1>5, <2>1
    <2>3. /\ SubSeq(Pictured, 0 + 1, m) \in Seq(Range(Pictured))
          /\ Pictured[m + 1] \in Range(Pictured)
          /\ SubSeq(Pictured, 0 + 1, m + 1) = Append(SubSeq(Pictured, 0 + 1, m), Pictured[m + 1])
      BY <1>1, <2>1, Folded!SubSeqGrows
    <2>4. F(m + 1) = DrawNode(F(m), Pictured[m + 1])
      <3> DEFINE drawn == SubSeq(Pictured, 0 + 1, m)
                 all == SubSeq(Pictured, 0 + 1, m + 1)
                 n == Pictured[m + 1]
                 S == Range(Pictured)
      <3>1. drawn \in Seq(S) /\ n \in S /\ all = Append(drawn, n)
        BY <2>3
      <3> HIDE DEF drawn, all, n, S
      <3>2. Folded!Fold(<<>>, start, Append(drawn, n)) = DrawNode(Folded!Fold(<<>>, start, drawn), n)
        BY <3>1, Folded!FoldAppend
      <3>3. Folded!Fold(<<>>, start, all) = DrawNode(Folded!Fold(<<>>, start, drawn), n)
        BY <3>1, <3>2
      <3> QED
        BY <3>3 DEF drawn, all, n
    <2> DEFINE d == F(m)
    <2>5. Drawn(d, m)
      BY <2>2
    <2> HIDE DEF d
    <2>6. Drawn(DrawNode(d, Pictured[m + 1]), m + 1)
      BY <2>1, <2>5, DrawKeeps
    <2> QED
      BY <2>4, <2>6 DEF d
  <1>6. k \in T
    <2> HIDE DEF T
    <2>1. Nat \subseteq T
      BY <1>4, <1>5, Folded!Induction
    <2> QED
      BY <1>1, <2>1
  <1> QED
    BY <1>1, <1>2, <1>6

\* What the lanes hold is what LanesHold reads off the picture.
LEMMA StillReadIs ==
    ASSUME Listed(Pictured), NEW k \in DOMAIN Pictured
    PROVE  {n \in Range(SubSeq(Pictured, 1, k)) :
               \E c \in Range(SubSeq(Pictured, k + 1, Len(Pictured))) : n \in Uniq(c)}
             = StillRead(k)
  <1> DEFINE pic == Pictured
             N == Len(pic)
             upper == SubSeq(pic, 1, k)
             lower == SubSeq(pic, k + 1, N)
  <1>1. /\ N \in Nat /\ DOMAIN pic = 1..N /\ k \in 1..N /\ pic \in Seq(Range(pic))
        /\ \A j \in 1..N : Uniq(pic[j]) # {} => pic[j] \in Nodes
    <2>1. pic \in Seq(Range(pic))
      BY DEF Listed
    <2> QED
      BY <2>1, LenProperties DEF Listed
  <1>2. \A n : Undrawn(k, n) = {c \in Nodes : n \in Uniq(c) /\ \E j \in (k + 1)..N : c = pic[j]}
    BY DEF Undrawn
  <1>3. StillRead(k) = {n \in Range(pic) : (\E i \in 1..k : n = pic[i]) /\ Undrawn(k, n) # {}}
    BY DEF StillRead
  <1> HIDE DEF pic, N
  <1>4. Len(upper) = k /\ \A i \in 1..k : upper[i] = pic[i]
    BY <1>1 DEF N
  <1>5. Len(lower) = N - k /\ \A i \in 1..(N - k) : lower[i] = pic[k + i]
    BY <1>1 DEF N
  <1>6. DOMAIN upper = 1..k /\ DOMAIN lower = 1..(N - k)
    BY <1>1, <1>4, <1>5 DEF N
  <1> HIDE DEF upper, lower
  <1>7. ASSUME NEW n
        PROVE  n \in Range(upper) <=> n \in Range(pic) /\ \E i \in 1..k : n = pic[i]
    <2>1. \A i \in 1..k : i \in 1..N
      BY <1>1
    <2> QED
      BY <1>1, <1>4, <1>6, <2>1 DEF Range
  <1>8. ASSUME NEW c
        PROVE  c \in Range(lower) <=> \E j \in (k + 1)..N : c = pic[j]
    <2>1. ASSUME NEW j \in (k + 1)..N
          PROVE  j - k \in 1..(N - k) /\ lower[j - k] = pic[j]
      BY <1>1, <1>5
    <2>2. ASSUME NEW i \in 1..(N - k)
          PROVE  k + i \in (k + 1)..N
      BY <1>1
    <2> QED
      BY <1>5, <1>6, <2>1, <2>2 DEF Range
  <1>9. ASSUME NEW n
        PROVE  (\E c \in Range(lower) : n \in Uniq(c)) <=> Undrawn(k, n) # {}
    <2>1. \A j \in (k + 1)..N : n \in Uniq(pic[j]) => pic[j] \in Nodes
      BY <1>1
    <2> QED
      BY <1>2, <1>8, <2>1
  <1> QED
    BY <1>3, <1>7, <1>9 DEF pic, upper, lower, N

\* As many lanes are held as producers are still read.
LEMMA LanesCounted ==
    ASSUME NEW S, NEW lanes \in Seq(S), NEW reading, Laned(lanes, reading), Free \notin reading,
           NEW held, held = {j \in DOMAIN lanes : lanes[j] # Free}
    PROVE  {lanes[j] : j \in held} = reading /\ Cardinality(held) = Cardinality(reading)
  <1>1. Len(lanes) \in Nat /\ DOMAIN lanes = 1..Len(lanes)
    BY LenProperties
  <1>2. \A j : j \in held <=> j \in 1..Len(lanes) /\ lanes[j] # Free
    BY <1>1
  <1>3. /\ \A j \in held : lanes[j] \in reading
        /\ \A n \in reading : \E j \in held : lanes[j] = n
        /\ \A i, j \in held : lanes[i] = lanes[j] => i = j
    BY <1>2 DEF Laned
  <1>4. IsFiniteSet(held)
    <2>1. IsFiniteSet(1..Len(lanes)) /\ held \in SUBSET (1..Len(lanes))
      BY <1>1, <1>2, FS_Interval
    <2> QED
      BY <2>1, FS_Subset
  <1> DEFINE b == [j \in held |-> lanes[j]]
  <1>5. b \in Bijection(held, reading)
    BY <1>3 DEF Bijection, Injection, Surjection, IsInjective
  <1>6. Cardinality(held) = Cardinality(reading)
    <2> HIDE DEF b
    <2>1. ExistsBijection(held, reading)
      BY <1>5 DEF ExistsBijection
    <2> QED
      BY <1>4, <2>1, FS_Bijection
  <1> QED
    BY <1>3, <1>6

\* The picture of what graph! accepts crosses no wires.
LEMMA PictureLanes ==
    ASSUME Ordered
    PROVE  LanesHold
  <1>1. Listed(Pictured)
    BY PictureListed
  <1> SUFFICES ASSUME NEW k \in DOMAIN Pictured
               PROVE  LET d == Drawing(k)
                          reading == {n \in Range(SubSeq(Pictured, 1, k)) :
                                         \E c \in Range(SubSeq(Pictured, k + 1, Len(Pictured))) :
                                             n \in Uniq(c)}
                          held == {j \in DOMAIN d.lanes : d.lanes[j] # Free}
                      IN  /\ d.found
                          /\ {d.lanes[j] : j \in held} = reading
                          /\ Cardinality(held) = Cardinality(reading)
    BY DEF LanesHold
  <1> DEFINE d == Drawing(k)
             reading == {n \in Range(SubSeq(Pictured, 1, k)) :
                            \E c \in Range(SubSeq(Pictured, k + 1, Len(Pictured))) : n \in Uniq(c)}
             lanes == d.lanes
             held == {j \in DOMAIN lanes : lanes[j] # Free}
  <1>2. k \in 0..Len(Pictured)
    <2>1. Pictured \in Seq(Range(Pictured))
      BY <1>1 DEF Listed
    <2> QED
      BY <2>1, LenProperties
  <1>3. Drawn(d, k)
    BY <1>1, <1>2, DrawnThrough
  <1>4. reading = StillRead(k)
    BY <1>1, StillReadIs
  <1> HIDE DEF d, reading
  <1>5. /\ d.found = TRUE /\ lanes \in Seq(Range(Pictured) \cup {Free})
        /\ Laned(lanes, reading)
    <2>1. d.found = TRUE
      BY <1>3 DEF Drawn
    <2> QED
      BY <1>3, <1>4, <2>1 DEF Drawn
  <1>6. Free \notin reading
    BY <1>1, <1>4 DEF StillRead, Listed
  <1> HIDE DEF lanes
  <1>7. {lanes[j] : j \in held} = reading /\ Cardinality(held) = Cardinality(reading)
    BY <1>5, <1>6, LanesCounted
  <1> QED
    BY <1>5, <1>7 DEF lanes, d, reading

\* The picture is true of the sweep in any graph whose latches are sealed: under the
\* gates a tick read, what is drawn live is what that tick ran, and no wires cross.
THEOREM PicturesAreTrue ==
    ASSUME \A w \in Graphs : Sealed(w)
    PROVE  SweepSpec => []PictureIsTrue
  <1>1. PictureInv => PictureIsTrue
    <2> SUFFICES ASSUME PictureInv
                 PROVE  PictureIsTrue
      OBVIOUS
    <2>1. UnderForetells
      <3> SUFFICES ASSUME phase = "emitted", tick > 0, g.rewinds, ArmedNow(run) = {}
                   PROVE  run.ran = LiveUnder({n \in Nodes : IsGate(n) /\ run.out[n] # {}})
        BY DEF UnderForetells
      <3>1. tick # 0
        OBVIOUS
      <3>2. Ordered /\ plan = Demands /\ Shows(run)
        BY <3>1 DEF PictureInv
      <3> QED
        BY <3>2, PictureShows
    <2>2. LanesHold
      <3>1. CASE phase = "emitted"
        BY <3>1, PictureLanes DEF PictureInv
      <3>2. CASE phase # "emitted"
        BY <3>2 DEF LanesHold
      <3> QED
        BY <3>1, <3>2
    <2> QED
      BY <2>1, <2>2 DEF PictureIsTrue
  <1> QED
    BY <1>1, PictureInvariance, PTL

-----------------------------------------------------------------------------
(* What sleep costs.                                                       *)

\* A node asked for on every tick, behind a past that does not rewind.
Awaited(n) == ~g.rewinds /\ Rewinders(n) # {}

Sampled(n) == ~IsBuffer(n) /\ n[1] \in samples
IsCut(n) == \E l \in Latches : Cut(l) = n
Anchors(n) == IsAnchored(n) \/ Held(n)

\* What a node leaves behind for a later tick, other than a past that rewinds.
Lasts(n) == Pinned(n) \/ IsCut(n) \/ Sampled(n) \/ (~g.rewinds /\ Anchors(n))

\* Behind no gate but its own.
AskedWhenOpen(n) == Awaited(n) \/ \E conj \in DemandWalk[n] : conj \subseteq Gates(n)

\* Behind a latch, whose bit is read a tick ahead.
ByLatch(n) == ~Awaited(n) /\ \E gate \in UNION plan[n] : IsLatch(gate)

\* Some nodes, all that lasts among them, are closed under what they read; none is
\* behind a latch, and what lasts is asked for whenever its own gates are open.  It
\* is of the graph: no tick moves it.
Attended ==
    \E A \in SUBSET Nodes :
        /\ \A n \in Nodes : Lasts(n) => n \in A /\ AskedWhenOpen(n)
        /\ \A n \in A : ~ByLatch(n)
        /\ \A n \in A : \A d \in Data(n) : d.as # "sample" /\ Target(d) \in Nodes => Target(d) \in A

\* What one graph holds is what the other does; a past that rewinds holds the record's.
Holding(s, t, was) ==
    /\ s.period = t.period /\ s.carry = t.carry
    /\ \A n \in Nodes : Keeps(n) /\ ~ (g.rewinds /\ Anchors(n)) => s.held[n] = t.held[n]
    /\ \A n \in Nodes : Held(n) => s.held[n] \cup t.held[n] \subseteq was[n[1]]

Alike(s, t) == s.pending = t.pending /\ Holding(s, t, past)

\* What graph! accepts is anchored on roots alone, and a latch is cut by a node.
Wired ==
    /\ Ordered
    /\ \A n \in Nodes : IsAnchored(n) => Anchorable(n)
    /\ \A l \in Latches : Cut(l) \in Nodes

\* Absorption leaves a weaker conjunct of each.
LEMMA AbsorbedBelow ==
    ASSUME NEW dnf, \A x \in dnf : IsFiniteSet(x), NEW conj \in dnf
    PROVE  \E least \in Absorbed(dnf) : least \subseteq conj
  <1> DEFINE T == {k \in Nat : \A x \in dnf : Cardinality(x) <= k =>
                                  \E y \in Absorbed(dnf) : y \subseteq x}
  <1>1. \A x \in dnf : Cardinality(x) \in Nat
    BY FS_CardinalityType
  <1>2. ASSUME NEW k \in Nat, NEW x \in dnf, Cardinality(x) <= k,
               k = 0 \/ k - 1 \in T
        PROVE  \E y \in Absorbed(dnf) : y \subseteq x
    <2>1. CASE x \in Absorbed(dnf)
      BY <2>1
    <2>2. CASE x \notin Absorbed(dnf)
      <3>1. PICK o \in dnf : o # x /\ o \subseteq x
        BY <2>2 DEF Absorbed
      <3>2. Cardinality(o) < Cardinality(x)
        BY <1>1, <3>1, FS_Subset
      <3>3. k # 0 /\ Cardinality(o) <= k - 1
        BY <1>1, <1>2, <3>2
      <3>4. \E y \in Absorbed(dnf) : y \subseteq o
        BY <1>2, <3>3
      <3> QED
        BY <3>1, <3>4
    <2> QED
      BY <2>1, <2>2
  <1>3. 0 \in T
    BY <1>2
  <1>4. ASSUME NEW k \in Nat, k \in T
        PROVE  k + 1 \in T
    <2>1. (k + 1) - 1 \in T /\ k + 1 \in Nat
      BY <1>4
    <2> HIDE DEF T
    <2>2. \A x \in dnf : Cardinality(x) <= k + 1 => \E y \in Absorbed(dnf) : y \subseteq x
      BY <1>2, <2>1
    <2> QED
      BY <2>1, <2>2 DEF T
  <1>5. Nat \subseteq T
    <2> HIDE DEF T
    <2> QED
      BY <1>3, <1>4, Folded!Induction
  <1> QED
    BY <1>1, <1>5

\* Whether what has been shown grants a node's demand.
Granted(r, n) == \E conj \in DemandWalk[n] : \A gate \in conj : r.out[gate] # {}

\* A demand granted an open reader is granted what it reads.
LEMMA DemandPasses ==
    ASSUME Ordered, NEW r, NEW m \in Nodes, NEW n \in Consumers(m), Granted(r, n), Open(r, n)
    PROVE  Granted(r, m)
  <1> DEFINE asked == UNION {Term(c, DemandWalk[c]) : c \in Consumers(m)}
  <1>1. DemandWalk[m] = IF Pinned(m) \/ m \in Outputs THEN Truth
                        ELSE IF Unresolved(m, Absorbed(asked)) THEN Truth ELSE Absorbed(asked)
    <2>1. DemandWalk[m] = Asks(m, DemandWalk)
      BY LiveIs
    <2> QED
      BY <2>1, Zenon DEF Asks
  <1>2. \A c \in Consumers(m) : c \in Nodes
    BY DEF Consumers
  <1>3. PICK conj \in DemandWalk[n] : \A gate \in conj : r.out[gate] # {}
    BY DEF Granted
  <1>4. \E x \in Term(n, DemandWalk[n]) : \A gate \in x : r.out[gate] # {}
    <2>1. CASE Pinned(n)
      BY <2>1 DEF Term, Truth
    <2>2. CASE ~ Pinned(n)
      <3>1. conj \cup Gates(n) \in Term(n, DemandWalk[n])
        BY <2>2 DEF Term
      <3>2. \A gate \in conj \cup Gates(n) : r.out[gate] # {}
        BY <1>3 DEF Open
      <3> QED
        BY <3>1, <3>2
    <2> QED
      BY <2>1, <2>2
  <1>5. \E x \in asked : \A gate \in x : r.out[gate] # {}
    BY <1>4
  <1>6. \A x \in asked : IsFiniteSet(x)
    <2>1. IsFiniteSet(Nodes)
      BY PictureListed DEF Listed
    <2>2. ASSUME NEW c \in Consumers(m), NEW x \in Term(c, DemandWalk[c])
          PROVE  x \subseteq Nodes
      <3>1. CASE Pinned(c)
        BY <2>2, <3>1 DEF Term, Truth
      <3>2. CASE ~ Pinned(c)
        <4>1. PICK y \in DemandWalk[c] : x = y \cup Gates(c)
          BY <2>2, <3>2 DEF Term
        <4>2. y \subseteq Nodes /\ Gates(c) \subseteq Nodes
          BY <1>2, LiveNames DEF Ordered
        <4> QED
          BY <4>1, <4>2
      <3> QED
        BY <3>1, <3>2
    <2> QED
      BY <2>1, <2>2, FS_Subset
  <1> HIDE DEF asked
  <1>7. \E x \in Absorbed(asked) : \A gate \in x : r.out[gate] # {}
    BY <1>5, <1>6, AbsorbedBelow
  <1> QED
    BY <1>1, <1>7 DEF Granted, Truth

\* Through a tick, after each of its steps: one more node is as the step leaves it, the
\* nodes to come are as they began.
Stages(U, r, start, batch, ts, awake) ==
    /\ U[0] = start
    /\ \A n \in Nodes : Effect(U[At(n) - 1], n, batch, ts, awake, U[At(n)])
    /\ \A n \in Nodes, k \in 0..Len(order) :
           IF At(n) <= k THEN U[k].held[n] = r.held[n] /\ U[k].out[n] = r.out[n]
                         ELSE U[k].held[n] = start.held[n]
    /\ \A k \in 0..Len(order) : Shaped(U[k]) /\ U[k].standing = start.standing
    /\ r.carry = U[Len(order)].carry /\ r.period = U[Len(order)].period
    /\ r.standing = start.standing
    /\ r.pending = {l \in Latches : Terminal(r.out[Cut(l)])}

\* Every tick goes through its stages.
LEMMA TickStages ==
    ASSUME Ordered, \A w \in Graphs : Sealed(w), \A l \in Latches : Cut(l) \in Nodes,
           NEW s, Shaped(s), Apart(s), NEW batch, NEW ts, NEW awake,
           NEW r, r = Ticked(s, batch, ts, awake)
    PROVE  \E start, U : Begun(start) /\ Starts(s, batch, start)
                         /\ Stages(U, r, start, batch, ts, awake)
  <1> DEFINE L == Len(order)
  <1>1. PICK start, due : TickIs(s, batch, ts, awake, start, due)
    BY TickFolds DEF Ordered
  <1>2. PICK U : /\ U[0] = start
                 /\ U[L] = Ticking!Fold(<<batch, ts, awake>>, start, order)
                 /\ \A k \in 0..(L - 1) : U[k + 1] = Step(U[k], order[k + 1], batch, ts, awake)
    BY FoldStages
  <1> DEFINE end == U[L]
  <1>3. /\ Begun(start) /\ Starts(s, batch, start)
        /\ r = [end EXCEPT !.pending = due]
        /\ due = {l \in Latches : Terminal(end.out[Cut(l)])}
    BY <1>1, <1>2, Zenon DEF TickIs
  <1>4. /\ L \in Nat
        /\ \A n \in Nodes : At(n) \in 1..L /\ order[At(n)] = n
        /\ \A i \in 1..L : order[i] \in Nodes /\ At(order[i]) = i
    BY Positions
  <1> HIDE DEF L
  <1>5. \A k \in 0..L : Shaped(U[k]) /\ U[k].standing = start.standing
    <2> DEFINE T == {k \in Nat : k <= L => Shaped(U[k]) /\ U[k].standing = start.standing}
    <2>1. 0 \in T
      BY <1>2, <1>3 DEF Begun
    <2>2. ASSUME NEW k \in Nat, k \in T
          PROVE  k + 1 \in T
      <3> SUFFICES ASSUME k + 1 <= L
                   PROVE  Shaped(U[k + 1]) /\ U[k + 1].standing = start.standing
        OBVIOUS
      <3>1. k \in 0..(L - 1) /\ Shaped(U[k]) /\ U[k].standing = start.standing
        BY <1>4, <2>2
      <3>2. order[k + 1] \in Nodes
        BY <1>4, <3>1
      <3>3. Effect(U[k], order[k + 1], batch, ts, awake, U[k + 1])
        BY <1>2, <3>1, <3>2, StepEffect
      <3> QED
        BY <3>1, <3>3, Zenon DEF Effect
    <2> HIDE DEF T
    <2>3. Nat \subseteq T
      BY <2>1, <2>2, Ticking!Induction
    <2> QED
      BY <1>4, <2>3 DEF T
  <1>6. ASSUME NEW k \in 0..(L - 1)
        PROVE  Effect(U[k], order[k + 1], batch, ts, awake, U[k + 1])
    <2>1. order[k + 1] \in Nodes /\ Shaped(U[k])
      BY <1>4, <1>5
    <2> QED
      BY <1>2, <2>1, StepEffect
  <1>7. \A n \in Nodes : Effect(U[At(n) - 1], n, batch, ts, awake, U[At(n)])
    <2> SUFFICES ASSUME NEW n \in Nodes
                 PROVE  Effect(U[At(n) - 1], n, batch, ts, awake, U[At(n)])
      OBVIOUS
    <2>1. At(n) - 1 \in 0..(L - 1) /\ (At(n) - 1) + 1 = At(n) /\ order[At(n)] = n
      BY <1>4
    <2> HIDE DEF Effect
    <2> QED
      BY <1>6, <2>1
  <1>8. ASSUME NEW k \in 0..(L - 1), NEW n \in Nodes, At(n) # k + 1
        PROVE  U[k + 1].held[n] = U[k].held[n] /\ U[k + 1].out[n] = U[k].out[n]
    <2> DEFINE m == order[k + 1]
               a == Advance(U[k], m, batch)
    <2>1. m \in Nodes /\ n # m /\ Shaped(U[k]) /\ Effect(U[k], m, batch, ts, awake, U[k + 1])
      BY <1>4, <1>5, <1>6, <1>8
    <2>2. /\ \/ U[k + 1].held = U[k].held
             \/ U[k + 1].held = [U[k].held EXCEPT ![m] = a.held]
          /\ \/ U[k + 1].out = [U[k].out EXCEPT ![m] = {}]
             \/ U[k + 1].out = [U[k].out EXCEPT ![m] = a.out]
      BY <2>1, Zenon DEF Effect
    <2>3. U[k].held = [x \in Nodes |-> U[k].held[x]] /\ U[k].out = [x \in Nodes |-> U[k].out[x]]
      BY <2>1 DEF Shaped
    <2> HIDE DEF m, a
    <2> QED
      BY <2>1, <2>2, <2>3
  <1>9. \A j \in 0..L, n \in Nodes :
            /\ At(n) > j => U[j].held[n] = start.held[n]
            /\ \A k \in 0..j : At(n) <= k => U[j].held[n] = U[k].held[n] /\ U[j].out[n] = U[k].out[n]
    <2> DEFINE Framed(j) == \A n \in Nodes :
                   /\ At(n) > j => U[j].held[n] = start.held[n]
                   /\ \A k \in 0..j : At(n) <= k => U[j].held[n] = U[k].held[n] /\ U[j].out[n] = U[k].out[n]
               T == {j \in Nat : j <= L => Framed(j)}
    <2>1. 0 \in T
      BY <1>2
    <2>2. ASSUME NEW j \in Nat, j \in T
          PROVE  j + 1 \in T
      <3> SUFFICES ASSUME j + 1 <= L, NEW n \in Nodes
                   PROVE  /\ At(n) > j + 1 => U[j + 1].held[n] = start.held[n]
                          /\ \A k \in 0..(j + 1) : At(n) <= k =>
                                 U[j + 1].held[n] = U[k].held[n] /\ U[j + 1].out[n] = U[k].out[n]
        OBVIOUS
      <3>1. j \in 0..(L - 1) /\ At(n) \in Int
        BY <1>4
      <3>2. Framed(j)
        BY <1>4, <2>2, <3>1
      <3>3. At(n) > j + 1 => U[j + 1].held[n] = start.held[n]
        BY <1>8, <3>1, <3>2
      <3>4. ASSUME NEW k \in 0..(j + 1), At(n) <= k
            PROVE  U[j + 1].held[n] = U[k].held[n] /\ U[j + 1].out[n] = U[k].out[n]
        <4>1. CASE k = j + 1
          BY <4>1
        <4>2. CASE k # j + 1
          <5>1. k \in 0..j /\ At(n) # j + 1
            BY <3>1, <3>4, <4>2
          <5> HIDE DEF Framed
          <5>2. U[j].held[n] = U[k].held[n] /\ U[j].out[n] = U[k].out[n]
            BY <3>2, <3>4, <5>1 DEF Framed
          <5> QED
            BY <1>8, <3>1, <5>1, <5>2
        <4> QED
          BY <4>1, <4>2
      <3> QED
        BY <3>3, <3>4
    <2> HIDE DEF T
    <2>3. Nat \subseteq T
      BY <2>1, <2>2, Ticking!Induction
    <2> QED
      BY <1>4, <2>3 DEF T
  <1>10. /\ r.held = end.held /\ r.out = end.out /\ r.carry = end.carry
         /\ r.period = end.period /\ r.standing = end.standing /\ r.pending = due
    <2>1. Shaped(end)
      BY <1>4, <1>5
    <2> HIDE DEF end
    <2> DEFINE x == [held |-> end.held, carry |-> end.carry, period |-> end.period,
                     pending |-> due, standing |-> end.standing, out |-> end.out,
                     ran |-> end.ran]
    <2>2. r = x
      BY <1>3, <2>1 DEF Shaped
    <2>3. /\ x.held = end.held /\ x.out = end.out /\ x.carry = end.carry
          /\ x.period = end.period /\ x.standing = end.standing /\ x.pending = due
      OBVIOUS
    <2> HIDE DEF x
    <2> QED
      BY <2>2, <2>3, Zenon
  <1>11. ASSUME NEW n \in Nodes, NEW k \in 0..L
         PROVE  IF At(n) <= k THEN U[k].held[n] = r.held[n] /\ U[k].out[n] = r.out[n]
                              ELSE U[k].held[n] = start.held[n]
    <2>1. L \in 0..L /\ k \in 0..L /\ At(n) \in Int
      BY <1>4
    <2>2. CASE At(n) <= k
      <3>1. U[L].held[n] = U[k].held[n] /\ U[L].out[n] = U[k].out[n]
        BY <1>9, <2>1, <2>2
      <3> QED
        BY <1>10, <2>2, <3>1
    <2>3. CASE ~ (At(n) <= k)
      BY <1>9, <2>1, <2>3
    <2> QED
      BY <2>2, <2>3
  <1>12. r.pending = {l \in Latches : Terminal(r.out[Cut(l)])}
    BY <1>3, <1>10
  <1>13. r.standing = start.standing /\ L \in 0..L
    BY <1>4, <1>5, <1>10
  <1>14. Stages(U, r, start, batch, ts, awake)
    <2> HIDE DEF end, Effect
    <2>1. r.carry = U[L].carry /\ r.period = U[L].period
      BY <1>10 DEF end
    <2>2. \A k \in 0..L : Shaped(U[k]) /\ U[k].standing = start.standing
      BY <1>5
    <2> QED
      BY <1>2, <1>7, <1>11, <1>12, <1>13, <2>1, <2>2, Zenon DEF Stages, L
  <1> QED
    BY <1>3, <1>14

\* A step of it, by what the tick shows in the end: u before the step and u1 after.
Shown(u, u1, r, start, batch, ts, awake, n) ==
    LET does == (awake \/ Demanded(r, n)) /\ Open(r, n) /\ Admits(u, n, ts)
        a == Advance(u, n, batch)
    IN  /\ u.held[n] = start.held[n]
        /\ \A m \in Nodes : At(m) < At(n) => u.out[m] = r.out[m]
        /\ r.held[n] = IF does THEN a.held ELSE start.held[n]
        /\ r.out[n] = IF does THEN a.out ELSE {}
        /\ u1.carry = IF does /\ ~IsBuffer(n) THEN Carried(u, n[1], a.out) ELSE u.carry
        /\ u1.period = [u.period EXCEPT ![n] = IF Clocked(n) THEN Period(n, ts) ELSE @]

\* A gate is a node stepped before what it gates, is pinned, and is no retention.
LEMMA GatesLead ==
    ASSUME Ordered, NEW n \in Nodes, NEW gate \in Gates(n)
    PROVE  gate \in Nodes /\ At(gate) < At(n) /\ Pinned(gate) /\ ~IsBuffer(gate)
  <1>1. PICK d \in Deps(n) : d.as = "gate" /\ gate = Target(d)
    BY DEF Gates, Data
  <1>2. gate \in Nodes /\ n \in Consumers(gate)
    BY <1>1 DEF Ordered, Consumers
  <1>3. At(gate) < At(n)
    BY <1>2, ReadersFollow
  <1>4. ~IsBuffer(gate)
    BY <1>1, Lengths DEF Target, IsBuffer
  <1> QED
    BY <1>2, <1>3, <1>4 DEF Pinned, IsGate

\* Every step of a tick is shown so.
LEMMA StagesShow ==
    ASSUME Ordered, plan = Demands, NEW U, NEW r, NEW start, NEW batch, NEW ts, NEW awake,
           Stages(U, r, start, batch, ts, awake), NEW n \in Nodes
    PROVE  Shown(U[At(n) - 1], U[At(n)], r, start, batch, ts, awake, n)
  <1> DEFINE u == U[At(n) - 1]
             u1 == U[At(n)]
             ran == (awake \/ Demanded(u, n)) /\ Open(u, n)
             a == Advance(u, n, batch)
  <1>1. /\ At(n) - 1 \in 0..Len(order) /\ At(n) \in 0..Len(order) /\ At(n) \in Int
        /\ \A m \in Nodes : At(m) \in Int
    BY Positions
  <1>2. /\ Effect(u, n, batch, ts, awake, u1) /\ Shaped(u) /\ u.standing = r.standing
    BY <1>1, Zenon DEF Stages
  <1>3. u.held[n] = start.held[n] /\ u1.held[n] = r.held[n] /\ u1.out[n] = r.out[n]
    BY <1>1 DEF Stages
  <1>4. \A m \in Nodes : At(m) < At(n) => u.out[m] = r.out[m]
    BY <1>1 DEF Stages
  <1> HIDE DEF u, u1
  <1>5. Open(u, n) <=> Open(r, n)
    <2>1. \A gate \in Gates(n) : u.out[gate] = r.out[gate]
      BY <1>4, GatesLead
    <2> QED
      BY <2>1 DEF Open
  <1>6. Demanded(u, n) <=> Demanded(r, n)
    <2>1. ASSUME NEW conj \in plan[n], NEW gate \in conj, ~ IsLatch(gate)
          PROVE  u.out[gate] = r.out[gate]
      BY <1>4, <2>1, DemandsFollow
    <2> QED
      BY <1>2, <2>1 DEF Demanded
  <1>7. u1.period = [u.period EXCEPT ![n] = IF Clocked(n) THEN Period(n, ts) ELSE @]
    BY <1>2, Zenon DEF Effect
  <1>8. CASE ran /\ Admits(u, n, ts)
    <2>1. /\ u1.held = [u.held EXCEPT ![n] = a.held] /\ u1.out = [u.out EXCEPT ![n] = a.out]
          /\ u1.carry = IF ~IsBuffer(n) THEN Carried(u, n[1], a.out) ELSE u.carry
      BY <1>2, <1>8, Zenon DEF Effect
    <2>2. u.held = [m \in Nodes |-> u.held[m]] /\ u.out = [m \in Nodes |-> u.out[m]]
      BY <1>2 DEF Shaped
    <2> HIDE DEF a
    <2>3. u1.held[n] = a.held /\ u1.out[n] = a.out
      BY <2>1, <2>2
    <2> QED
      BY <1>3, <1>4, <1>5, <1>6, <1>7, <1>8, <2>1, <2>3 DEF Shown, a, u, u1
  <1>9. CASE ~ (ran /\ Admits(u, n, ts))
    <2>1. /\ u1.held = u.held /\ u1.out = [u.out EXCEPT ![n] = {}] /\ u1.carry = u.carry
      BY <1>2, <1>9, Zenon DEF Effect
    <2>2. u.out = [m \in Nodes |-> u.out[m]]
      BY <1>2 DEF Shaped
    <2>3. u1.held[n] = u.held[n] /\ u1.out[n] = {}
      BY <2>1, <2>2
    <2> QED
      BY <1>3, <1>4, <1>5, <1>6, <1>7, <1>9, <2>1, <2>3 DEF Shown, u, u1
  <1> QED
    BY <1>8, <1>9

AttendedBy(A) ==
    /\ \A n \in Nodes : Lasts(n) => n \in A /\ AskedWhenOpen(n)
    /\ \A n \in A : ~ByLatch(n)
    /\ \A n \in A : \A d \in Data(n) : d.as # "sample" /\ Target(d) \in Nodes => Target(d) \in A

Wanted(r, n) == Awaited(n) \/ Granted(r, n)

\* A retention that sleeps with its anchored readers may be short of the record, and of
\* nothing the tick carried.
Within(out, c, batch) == batch[c] \subseteq out /\ out \subseteq past[c] \cup batch[c]
Near(r, v, batch, n) ==
    IF g.rewinds /\ Held(n) THEN Within(r.out[n], n[1], batch) /\ Within(v.out[n], n[1], batch)
    ELSE r.out[n] = v.out[n]

\* What is read at all reads as if nothing slept: unless a latch armed, or where no
\* latch is asked.
Good(A, r, v, batch, n) ==
    (n \in A \/ ArmedNow(r) = {}) /\ Wanted(r, n) => Near(r, v, batch, n)

\* Gates read the same.
LEMMA GatesAlike ==
    ASSUME Ordered, NEW A, AttendedBy(A), NEW r, NEW v, NEW batch, NEW n \in Nodes,
           \A m \in Nodes : At(m) < At(n) => Good(A, r, v, batch, m)
    PROVE  Open(r, n) <=> Open(v, n)
  <1>1. ASSUME NEW gate \in Gates(n)
        PROVE  r.out[gate] = v.out[gate]
    <2>1. gate \in Nodes /\ At(gate) < At(n) /\ Pinned(gate) /\ ~IsBuffer(gate)
      BY GatesLead
    <2>2. DemandWalk[gate] = Truth
      BY <2>1, LiveIs DEF Asks
    <2>3. Wanted(r, gate)
      BY <2>2 DEF Wanted, Granted, Truth
    <2>4. gate \in A
      BY <2>1 DEF AttendedBy, Lasts
    <2>5. ~Held(gate)
      BY <2>1 DEF Held
    <2> QED
      BY <2>1, <2>3, <2>4, <2>5 DEF Good, Near
  <1> QED
    BY <1>1 DEF Open

\* The sweep asks for what is wanted.
LEMMA WantedRuns ==
    ASSUME Ordered, plan = Demands, NEW A, AttendedBy(A), NEW r, NEW n \in Nodes,
           n \in A \/ ArmedNow(r) = {}, Wanted(r, n)
    PROVE  Demanded(r, n)
  <1>1. CASE Awaited(n)
    BY <1>1 DEF Awaited, Demanded
  <1>2. CASE ~ Awaited(n)
    <2>1. PICK conj \in DemandWalk[n] : \A gate \in conj : r.out[gate] # {}
      BY <1>2 DEF Wanted, Granted
    <2>2. plan[n] = IF KeptFromLatches(n, DemandWalk[n]) THEN Truth ELSE DemandWalk[n]
      BY DEF Demands
    <2>3. CASE KeptFromLatches(n, DemandWalk[n])
      BY <2>2, <2>3 DEF Demanded, Truth
    <2>4. CASE ~ KeptFromLatches(n, DemandWalk[n])
      <3>1. conj \in plan[n]
        BY <2>2, <2>4
      <3>2. ASSUME NEW gate \in conj, IsLatch(gate)
            PROVE  gate \in r.standing
        <4>1. gate \in Latches
          BY <3>2, LiveNames DEF Latches
        <4>2. CASE n \in A
          BY <1>2, <3>1, <3>2, <4>2 DEF AttendedBy, ByLatch
        <4>3. CASE ArmedNow(r) = {}
          BY <2>1, <4>1, <4>3 DEF ArmedNow
        <4> QED
          BY <4>2, <4>3
      <3> QED
        BY <2>1, <3>1, <3>2 DEF Demanded
    <2> QED
      BY <2>3, <2>4
  <1> QED
    BY <1>1, <1>2

\* What a dep reads: what the engine keeps, a root's batch, or a node stepped before.
LEMMA ReadIs ==
    ASSUME Ordered, NEW n \in Nodes, NEW d \in Data(n), NEW batch
    PROVE  \/ \A u : Read(u, d, batch) = u.carry[g.is[d.cell]]
           \/ \A u : Read(u, d, batch) = batch[g.is[d.cell]]
           \/ /\ d.as # "sample" /\ (g.is[d.cell] \in g.roots => d.as = "buf")
              /\ Target(d) \in Nodes /\ At(Target(d)) < At(n) /\ n \in Consumers(Target(d))
              /\ \A u : Read(u, d, batch) = u.out[Target(d)]
  <1>1. CASE d.as = "sample"
    BY <1>1 DEF Read
  <1>2. CASE d.as # "sample" /\ g.is[d.cell] \in g.roots /\ d.as # "buf"
    BY <1>2 DEF Read
  <1>3. CASE d.as # "sample" /\ ~ (g.is[d.cell] \in g.roots /\ d.as # "buf")
    <2>1. d \in Deps(n) /\ \A u : Read(u, d, batch) = u.out[Target(d)]
      BY <1>3 DEF Read, Data
    <2>2. Target(d) \notin RootsIn(g)
      BY <1>3, Lengths DEF Target, RootsIn
    <2>3. Target(d) \in Nodes /\ n \in Consumers(Target(d))
      BY <2>1, <2>2 DEF Ordered, Consumers
    <2>4. At(Target(d)) < At(n)
      BY <2>3, ReadersFollow
    <2> QED
      BY <1>3, <2>1, <2>3, <2>4
  <1> QED
    BY <1>1, <1>2, <1>3

\* A retention is an ungated body with one plain dep, the series it retains.
LEMMA Retains ==
    ASSUME Ordered, NEW n \in Nodes, IsBuffer(n)
    PROVE  /\ n = Buffer(n[1]) /\ g.is[n[1]] = n[1]
           /\ Gates(n) = {} /\ Data(n) = {[cell |-> n[1], as |-> "plain"]}
           /\ ~IsAnchored(n) /\ ~IsEmit(n) /\ Keeps(n)
  <1>1. n \in NodesIn(g)
    BY Positions, LenProperties DEF Ordered, Emitted
  <1>2. PICK c \in Keys(g) : n = Buffer(c)
    BY <1>1, Lengths DEF NodesIn, IsBuffer
  <1>3. n[1] = c /\ g.is[c] = c
    BY <1>2, Lengths DEF Keys
  <1>4. Deps(n) = {[cell |-> n[1], as |-> "plain"]}
    BY DEF Deps, DepsOf, Range
  <1>5. Data(n) = {[cell |-> n[1], as |-> "plain"]} /\ Gates(n) = {}
    BY <1>4 DEF Data, Gates
  <1> QED
    BY <1>2, <1>3, <1>5 DEF IsAnchored, IsEmit, Keeps

\* One that sleeps with its readers retains a root.
LEMMA HeldRetainsRoots ==
    ASSUME Wired, NEW n \in Nodes, Held(n)
    PROVE  n[1] \in g.roots
  <1>1. PICK c \in Consumers(n) : IsAnchored(c)
    BY DEF Held
  <1>2. PICK d \in Deps(c) : Target(d) = n
    BY DEF Consumers
  <1>3. c \in Nodes /\ Anchorable(c)
    BY <1>1 DEF Consumers, Wired
  <1>4. IsBuffer(n)
    BY DEF Held
  <1>5. d.as = "buf" /\ n[1] = g.is[d.cell]
    BY <1>2, <1>4, Lengths DEF Target, IsBuffer
  <1>6. d \in Data(c)
    BY <1>5 DEF Data
  <1> QED
    BY <1>3, <1>5, <1>6 DEF Anchorable

\* What a wanted node reads is wanted, while the node is open.
LEMMA WantedReads ==
    ASSUME Wired, NEW r, NEW m \in Nodes, NEW n \in Consumers(m), Wanted(r, n), Open(r, n)
    PROVE  Wanted(r, m)
  <1>0. Ordered /\ n \in Nodes
    BY DEF Wired, Consumers
  <1>1. CASE Granted(r, n)
    BY <1>0, <1>1, DemandPasses DEF Wanted
  <1>2. CASE Awaited(n) /\ IsAnchored(n)
    <2>1. PICK d \in Deps(n) : Target(d) = m
      BY DEF Consumers
    <2>2. CASE d.as = "gate"
      <3>1. m \in Gates(n)
        BY <2>1, <2>2 DEF Gates, Data
      <3>2. Pinned(m)
        BY <1>0, <3>1, GatesLead
      <3>3. DemandWalk[m] = Truth
        BY <1>0, <3>2, LiveIs DEF Asks
      <3> QED
        BY <3>3 DEF Wanted, Granted, Truth
    <2>3. CASE d.as # "gate"
      <3>1. g.is[d.cell] \in g.roots
        BY <1>0, <1>2, <2>3 DEF Wired, Anchorable, Data
      <3>2. IsBuffer(m)
        <4>1. m \in NodesIn(g)
          BY <1>0, Positions, LenProperties DEF Ordered, Emitted
        <4>2. CASE \E x \in Keys(g) \ g.roots : m = Cell(x)
          <5>1. Len(m) = 1 /\ m[1] \notin g.roots
            BY <4>2, Lengths
          <5>2. m # Cell(g.is[d.cell])
            BY <3>1, <5>1, Lengths
          <5> QED
            BY <2>1, <5>1, <5>2, Lengths DEF Target
        <4>3. CASE \E x \in Keys(g) : m = Buffer(x)
          BY <4>3, Lengths DEF IsBuffer
        <4> QED
          BY <4>1, <4>2, <4>3 DEF NodesIn
      <3>3. CASE Held(m)
        <4>1. Rewinders(m) # {}
          BY <3>2, <3>3 DEF Rewinders, IsAnchored
        <4> QED
          BY <1>2, <4>1 DEF Awaited, Wanted
      <3>4. CASE ~ Held(m)
        <4>1. Pinned(m)
          BY <3>2, <3>4 DEF Pinned
        <4>2. DemandWalk[m] = Truth
          BY <1>0, <4>1, LiveIs DEF Asks
        <4> QED
          BY <4>2 DEF Wanted, Granted, Truth
      <3> QED
        BY <3>3, <3>4
    <2> QED
      BY <2>2, <2>3
  <1>3. CASE Awaited(n) /\ ~ IsAnchored(n)
    <2>1. Held(n)
      BY <1>3 DEF Awaited, Rewinders
    <2>2. n[1] \in g.roots /\ IsBuffer(n)
      BY <1>0, <2>1, HeldRetainsRoots DEF Held
    <2>3. PICK d \in Deps(n) : Target(d) = m
      BY DEF Consumers
    <2>4. Data(n) = {[cell |-> n[1], as |-> "plain"]} /\ Gates(n) = {} /\ g.is[n[1]] = n[1]
      BY <1>0, <2>2, Retains
    <2>5. d \in Data(n)
      BY <2>3, <2>4 DEF Gates
    <2>6. m = Cell(n[1])
      BY <2>3, <2>4, <2>5 DEF Target
    <2>7. m \in NodesIn(g)
      BY <1>0, Positions, LenProperties DEF Ordered, Emitted
    <2>8. m \notin NodesIn(g)
      BY <2>2, <2>6, Lengths DEF NodesIn
    <2> QED
      BY <2>7, <2>8
  <1> QED
    BY <1>1, <1>2, <1>3 DEF Wanted

\* Where what it reads and keeps is the same, a wanted node's body does the same.
LEMMA AdvanceAlike ==
    ASSUME Wired, NEW A, AttendedBy(A), NEW n \in Nodes,
           NEW r, NEW v, NEW u, NEW w, NEW batch, u.carry = w.carry,
           \A m \in Nodes : At(m) < At(n) =>
               u.out[m] = r.out[m] /\ w.out[m] = v.out[m] /\ Good(A, r, v, batch, m),
           n \in A \/ ArmedNow(r) = {}, Wanted(r, n), Open(r, n),
           ~ (g.rewinds /\ Held(n)),
           Keeps(n) /\ ~ (g.rewinds /\ Anchors(n)) => u.held[n] = w.held[n]
    PROVE  Advance(u, n, batch) = Advance(w, n, batch)
  <1>0. Ordered
    BY DEF Wired
  <1>1. ASSUME NEW d \in Data(n)
        PROVE  \/ Read(u, d, batch) = Read(w, d, batch)
               \/ /\ g.rewinds /\ IsAnchored(n)
                  /\ Within(Read(u, d, batch), g.is[d.cell], batch)
                  /\ Within(Read(w, d, batch), g.is[d.cell], batch)
    <2>1. CASE \A x : Read(x, d, batch) = x.carry[g.is[d.cell]]
      BY <2>1
    <2>2. CASE \A x : Read(x, d, batch) = batch[g.is[d.cell]]
      BY <2>2
    <2>3. CASE /\ d.as # "sample"
               /\ Target(d) \in Nodes /\ At(Target(d)) < At(n) /\ n \in Consumers(Target(d))
               /\ \A x : Read(x, d, batch) = x.out[Target(d)]
      <3> DEFINE m == Target(d)
      <3>1. m \in A \/ ArmedNow(r) = {}
        BY <2>3 DEF AttendedBy
      <3>2. Wanted(r, m)
        BY <2>3, WantedReads
      <3>3. Near(r, v, batch, m)
        BY <2>3, <3>1, <3>2 DEF Good
      <3>4. Read(u, d, batch) = r.out[m] /\ Read(w, d, batch) = v.out[m]
        BY <2>3
      <3>5. CASE ~ (g.rewinds /\ Held(m))
        BY <3>3, <3>4, <3>5 DEF Near
      <3>6. CASE g.rewinds /\ Held(m)
        <4>1. IsAnchored(n) /\ IsBuffer(m)
          BY <2>3, <3>6 DEF Held
        <4>2. m[1] = g.is[d.cell]
          BY <4>1, Lengths DEF Target, IsBuffer
        <4> QED
          BY <3>3, <3>4, <3>6, <4>1, <4>2 DEF Near
      <3> QED
        BY <3>5, <3>6
    <2> QED
      BY <1>0, <2>1, <2>2, <2>3, ReadIs
  <1>2. CASE g.rewinds /\ IsAnchored(n)
    <2>1. Keeps(n) /\ ~ IsEmit(n)
      BY <1>2 DEF Keeps, Wired, Anchorable
    <2>2. Before(u, n) = Rewound(n) /\ Before(w, n) = Rewound(n)
      BY <1>2 DEF Before
    <2>3. \A d \in Data(n) : past[g.is[d.cell]] \subseteq Rewound(n)
      BY DEF Rewound
    <2>4. Rewound(n) \cup Reads(u, n, batch) = Rewound(n) \cup Reads(w, n, batch)
      <3>1. \A d \in Data(n) : Read(u, d, batch) \subseteq Rewound(n) \cup Read(w, d, batch)
        BY <1>1, <2>3 DEF Within
      <3>2. \A d \in Data(n) : Read(w, d, batch) \subseteq Rewound(n) \cup Read(u, d, batch)
        BY <1>1, <2>3 DEF Within
      <3> QED
        BY <3>1, <3>2 DEF Reads
    <2> QED
      BY <2>1, <2>2, <2>4 DEF Advance
  <1>3. CASE ~ (g.rewinds /\ IsAnchored(n))
    <2>1. {Read(u, d, batch) : d \in Data(n)} = {Read(w, d, batch) : d \in Data(n)}
      BY <1>1, <1>3
    <2>2. Reads(u, n, batch) = Reads(w, n, batch)
      BY <2>1 DEF Reads
    <2>3. Keeps(n) => Before(u, n) = Before(w, n)
      BY <1>3 DEF Before, Anchors
    <2> QED
      BY <2>2, <2>3 DEF Advance
  <1> QED
    BY <1>2, <1>3

\* A node goes through a tick as it would had nothing slept: where it is read, and
\* where it leaves something behind.
Through(A, r, v, batch, n, u1, w1, was) ==
    /\ Good(A, r, v, batch, n)
    /\ Lasts(n) => r.out[n] = v.out[n] \/ (g.rewinds /\ Held(n))
    /\ Keeps(n) /\ ~ (g.rewinds /\ Anchors(n)) => r.held[n] = v.held[n]
    /\ Held(n) => r.held[n] \cup v.held[n] \subseteq was
    /\ u1.carry = w1.carry /\ u1.period = w1.period

\* Its two steps, what came before it having gone through.
Beside(A, u, u1, r, s0, w, w1, v, t0, batch, ts, n) ==
    /\ Shown(u, u1, r, s0, batch, ts, FALSE, n) /\ Shown(w, w1, v, t0, batch, ts, TRUE, n)
    /\ u.carry = w.carry /\ u.period = w.period
    /\ \A m \in Nodes : At(m) < At(n) => Good(A, r, v, batch, m)
    /\ Keeps(n) /\ ~ (g.rewinds /\ Anchors(n)) => s0.held[n] = t0.held[n]
    /\ Held(n) => s0.held[n] \cup t0.held[n] \subseteq past[n[1]]

\* So does the node.
LEMMA NodeThrough ==
    ASSUME Wired, plan = Demands, NEW A, AttendedBy(A), NEW n \in Nodes,
           NEW r, NEW v, NEW u, NEW w, NEW u1, NEW w1, NEW s0, NEW t0, NEW batch, NEW ts,
           Beside(A, u, u1, r, s0, w, w1, v, t0, batch, ts, n)
    PROVE  Through(A, r, v, batch, n, u1, w1, past[n[1]] \cup batch[n[1]])
  <1> /\ Shown(u, u1, r, s0, batch, ts, FALSE, n) /\ Shown(w, w1, v, t0, batch, ts, TRUE, n)
      /\ u.carry = w.carry /\ u.period = w.period
      /\ \A m \in Nodes : At(m) < At(n) => Good(A, r, v, batch, m)
      /\ Keeps(n) /\ ~ (g.rewinds /\ Anchors(n)) => s0.held[n] = t0.held[n]
      /\ Held(n) => s0.held[n] \cup t0.held[n] \subseteq past[n[1]]
    BY Zenon DEF Beside
  <1> DEFINE runs == Demanded(r, n) /\ Open(r, n) /\ Admits(u, n, ts)
             does == Open(v, n) /\ Admits(w, n, ts)
             a == Advance(u, n, batch)
             b == Advance(w, n, batch)
             attended == n \in A \/ ArmedNow(r) = {}
  <1>0. Ordered
    BY DEF Wired
  <1>1. /\ u.held[n] = s0.held[n] /\ w.held[n] = t0.held[n]
        /\ r.held[n] = IF runs THEN a.held ELSE s0.held[n]
        /\ v.held[n] = IF does THEN b.held ELSE t0.held[n]
        /\ r.out[n] = IF runs THEN a.out ELSE {}
        /\ v.out[n] = IF does THEN b.out ELSE {}
        /\ u1.carry = IF runs /\ ~IsBuffer(n) THEN Carried(u, n[1], a.out) ELSE u.carry
        /\ w1.carry = IF does /\ ~IsBuffer(n) THEN Carried(w, n[1], b.out) ELSE w.carry
    BY DEF Shown
  <1>2. /\ Admits(u, n, ts) <=> Admits(w, n, ts)
        /\ Open(r, n) <=> Open(v, n)
    BY <1>0, GatesAlike DEF Admits
  <1>3. \A m \in Nodes : At(m) < At(n) =>
            u.out[m] = r.out[m] /\ w.out[m] = v.out[m] /\ Good(A, r, v, batch, m)
    BY DEF Shown
  <1>4. u1.period = w1.period
    BY DEF Shown
  <1>5. attended /\ Wanted(r, n) => Demanded(r, n)
    BY <1>0, WantedRuns
  <1>6. Lasts(n) => n \in A /\ (Open(r, n) => Wanted(r, n))
    <2> SUFFICES ASSUME Lasts(n)
                 PROVE  n \in A /\ (Open(r, n) => Wanted(r, n))
      OBVIOUS
    <2>1. n \in A /\ AskedWhenOpen(n)
      BY DEF AttendedBy
    <2>2. ASSUME Open(r, n)
          PROVE  Wanted(r, n)
      BY <2>1, <2>2 DEF AskedWhenOpen, Wanted, Granted, Open
    <2> QED
      BY <2>1, <2>2
  <1>7. CASE g.rewinds /\ Held(n)
    <2>1. /\ IsBuffer(n) /\ n[1] \in g.roots /\ g.is[n[1]] = n[1]
          /\ Gates(n) = {} /\ Data(n) = {[cell |-> n[1], as |-> "plain"]}
          /\ ~IsAnchored(n) /\ ~IsEmit(n) /\ Keeps(n)
      BY <1>0, <1>7, HeldRetainsRoots, Retains DEF Held
    <2>2. Open(r, n) /\ Open(v, n) /\ Admits(u, n, ts) /\ Admits(w, n, ts)
      BY <2>1 DEF Open, Admits, Clocked
    <2>3. \A x : Reads(x, n, batch) = batch[n[1]]
      BY <2>1 DEF Reads, Read
    <2>4. /\ a.held = u.held[n] \cup batch[n[1]] /\ a.out = a.held
          /\ b.held = w.held[n] \cup batch[n[1]] /\ b.out = b.held
      BY <2>1, <2>3 DEF Advance, Before
    <2> HIDE DEF a, b
    <2>5. s0.held[n] \subseteq past[n[1]] /\ t0.held[n] \subseteq past[n[1]]
      BY <1>7
    <2>6. r.held[n] \cup v.held[n] \subseteq past[n[1]] \cup batch[n[1]]
      BY <1>1, <2>4, <2>5
    <2>7. Good(A, r, v, batch, n)
      <3> SUFFICES ASSUME attended, Wanted(r, n)
                   PROVE  Near(r, v, batch, n)
        BY DEF Good
      <3>1. runs /\ does
        BY <1>5, <2>2
      <3>2. r.out[n] = s0.held[n] \cup batch[n[1]] /\ v.out[n] = t0.held[n] \cup batch[n[1]]
        BY <1>1, <2>4, <3>1
      <3> QED
        BY <1>7, <2>5, <3>2 DEF Near, Within
    <2>8. u1.carry = w1.carry
      BY <1>1, <2>1
    <2> QED
      BY <1>4, <1>7, <2>6, <2>7, <2>8 DEF Through, Anchors
  <1>8. CASE ~ (g.rewinds /\ Held(n))
    <2>1. ASSUME attended, Wanted(r, n), Open(r, n)
          PROVE  a = b /\ (runs <=> does)
      <3>1. a = b
        BY <1>1, <1>3, <1>8, <2>1, AdvanceAlike
      <3> QED
        BY <1>2, <1>5, <2>1, <3>1
    <2> HIDE DEF a, b
    <2>2. Good(A, r, v, batch, n)
      <3> SUFFICES ASSUME attended, Wanted(r, n)
                   PROVE  r.out[n] = v.out[n]
        BY <1>8 DEF Good, Near
      <3>1. CASE Open(r, n)
        BY <1>1, <2>1, <3>1
      <3>2. CASE ~ Open(r, n)
        BY <1>1, <1>2, <3>2
      <3> QED
        BY <3>1, <3>2
    <2>3. ASSUME Lasts(n)
          PROVE  (runs <=> does) /\ (runs => a = b)
      <3>1. CASE Open(r, n)
        BY <1>6, <2>1, <2>3, <3>1
      <3>2. CASE ~ Open(r, n)
        BY <1>2, <3>2
      <3> QED
        BY <3>1, <3>2
    <2> HIDE DEF runs, does
    <2>4. Lasts(n) => r.out[n] = v.out[n]
      BY <1>1, <2>3
    <2>5. u1.carry = w1.carry
      <3>1. CASE Sampled(n)
        <4>1. (runs <=> does) /\ (runs => a = b)
          BY <2>3, <3>1 DEF Lasts
        <4> QED
          BY <1>1, <4>1 DEF Carried
      <3>2. CASE ~ Sampled(n)
        BY <1>1, <3>2 DEF Sampled, Carried
      <3> QED
        BY <3>1, <3>2
    <2>6. ASSUME Keeps(n), ~ (g.rewinds /\ Anchors(n))
          PROVE  r.held[n] = v.held[n]
      <3>1. Lasts(n)
        BY <2>6 DEF Keeps, Lasts, Pinned, Anchors, IsCut
      <3> QED
        BY <1>1, <2>3, <2>6, <3>1
    <2>7. ASSUME Held(n)
          PROVE  r.held[n] \cup v.held[n] \subseteq past[n[1]] \cup batch[n[1]]
      <3>1. /\ IsBuffer(n) /\ n[1] \in g.roots /\ g.is[n[1]] = n[1]
            /\ Data(n) = {[cell |-> n[1], as |-> "plain"]}
            /\ ~IsAnchored(n) /\ Keeps(n)
        BY <1>0, <2>7, HeldRetainsRoots, Retains DEF Held
      <3>2. \A x : Reads(x, n, batch) = batch[n[1]]
        BY <3>1 DEF Reads, Read
      <3>3. a.held = u.held[n] \cup batch[n[1]] /\ b.held = w.held[n] \cup batch[n[1]]
        BY <3>1, <3>2 DEF a, b, Advance, Before
      <3> QED
        BY <1>1, <2>7, <3>3
    <2> QED
      BY <1>4, <2>2, <2>4, <2>5, <2>6, <2>7 DEF Through
  <1> QED
    BY <1>7, <1>8

\* A tick later, the record a tick longer, what one graph holds is what the other does,
\* and an output reads the same unless a latch armed.
AlikeAfter(r, v, batch) ==
    /\ r.pending = v.pending
    /\ Holding(r, v, [c \in g.roots |-> past[c] \cup batch[c]])
    /\ \A o \in Outputs \cap Nodes : r.out[o] = v.out[o] \/ ArmedNow(r) # {}

LEMMA TickAlike ==
    ASSUME Wired, \A w \in Graphs : Sealed(w), plan = Demands, Attended,
           NEW s, Shaped(s), Apart(s), NEW t, Shaped(t), Apart(t), Alike(s, t),
           NEW batch, NEW ts,
           NEW r, r = Ticked(s, batch, ts, FALSE), NEW v, v = Ticked(t, batch, ts, TRUE)
    PROVE  AlikeAfter(r, v, batch)
  <1> DEFINE L == Len(order)
             long(n) == past[n[1]] \cup batch[n[1]]
  <1>0. Ordered /\ \A l \in Latches : Cut(l) \in Nodes
    BY DEF Wired
  <1>1. PICK A : AttendedBy(A)
    BY DEF Attended, AttendedBy
  <1>2. PICK s0, U : Starts(s, batch, s0) /\ Stages(U, r, s0, batch, ts, FALSE)
    BY <1>0, TickStages
  <1>3. PICK t0, V : Starts(t, batch, t0) /\ Stages(V, v, t0, batch, ts, TRUE)
    BY <1>0, TickStages
  <1>4. /\ L \in Nat
        /\ \A n \in Nodes : At(n) \in 1..L
        /\ \A i \in 1..L : order[i] \in Nodes /\ At(order[i]) = i
    BY <1>0, Positions
  <1>5. /\ s0.carry = t0.carry /\ s0.period = t0.period
        /\ \A n \in Nodes : Keeps(n) /\ ~ (g.rewinds /\ Anchors(n)) => s0.held[n] = t0.held[n]
        /\ \A n \in Nodes : Held(n) => s0.held[n] \cup t0.held[n] \subseteq past[n[1]]
    <2>1. \A n : Spent(s, n) <=> Spent(t, n)
      BY DEF Alike, Spent
    <2>2. s.period = t.period /\ s.carry = t.carry
      BY DEF Alike, Holding
    <2>3. s0.carry = t0.carry
      BY <1>2, <1>3, <2>2, Zenon DEF Starts
    <2>4. s0.period = t0.period
      BY <1>2, <1>3, <2>1, <2>2 DEF Starts
    <2>5. \A n \in Nodes : /\ s0.held[n] = IF Spent(s, n) THEN {} ELSE s.held[n]
                           /\ t0.held[n] = IF Spent(t, n) THEN {} ELSE t.held[n]
      BY <1>2, <1>3 DEF Starts
    <2> QED
      BY <2>1, <2>3, <2>4, <2>5 DEF Alike, Holding
  <1> HIDE DEF L
  <1> DEFINE Past(k) == \A n \in Nodes : At(n) <= k =>
                            Through(A, r, v, batch, n, U[At(n)], V[At(n)], long(n))
             T == {k \in Nat : k <= L => /\ U[k].carry = V[k].carry /\ U[k].period = V[k].period
                                         /\ Past(k)}
  <1>6. 0 \in T
    <2>1. \A n \in Nodes : ~ (At(n) <= 0)
      BY <1>4
    <2>2. U[0] = s0 /\ V[0] = t0
      BY <1>2, <1>3 DEF Stages
    <2> QED
      BY <1>5, <2>1, <2>2
  <1>7. ASSUME NEW k \in Nat, k \in T
        PROVE  k + 1 \in T
    <2> HIDE DEF Past
    <2> SUFFICES ASSUME k + 1 <= L
                 PROVE  /\ U[k + 1].carry = V[k + 1].carry /\ U[k + 1].period = V[k + 1].period
                        /\ Past(k + 1)
      OBVIOUS
    <2> USE DEF Past
    <2> DEFINE n == order[k + 1]
    <2>0. k <= L
      BY <1>4
    <2>1. U[k].carry = V[k].carry /\ U[k].period = V[k].period /\ Past(k)
      <3> HIDE DEF Past, n
      <3> QED
        BY <1>7, <2>0
    <2>2. n \in Nodes /\ At(n) = k + 1 /\ At(n) - 1 = k
      BY <1>4
    <2> HIDE DEF n
    <2>3. /\ Shown(U[k], U[k + 1], r, s0, batch, ts, FALSE, n)
          /\ Shown(V[k], V[k + 1], v, t0, batch, ts, TRUE, n)
      <3>1. Shown(U[At(n) - 1], U[At(n)], r, s0, batch, ts, FALSE, n)
        BY <1>0, <1>2, <2>2, StagesShow
      <3>2. Shown(V[At(n) - 1], V[At(n)], v, t0, batch, ts, TRUE, n)
        BY <1>0, <1>3, <2>2, StagesShow
      <3> QED
        BY <2>2, <3>1, <3>2
    <2>4. \A m \in Nodes : At(m) < At(n) => Good(A, r, v, batch, m)
      <3> SUFFICES ASSUME NEW m \in Nodes, At(m) < At(n)
                   PROVE  Good(A, r, v, batch, m)
        OBVIOUS
      <3>1. At(m) <= k
        BY <1>4, <2>2
      <3> HIDE DEF long
      <3> QED
        BY <2>1, <3>1, Zenon DEF Through
    <2>5. Through(A, r, v, batch, n, U[k + 1], V[k + 1], long(n))
      <3>1. /\ U[k].carry = V[k].carry /\ U[k].period = V[k].period
            /\ Keeps(n) /\ ~ (g.rewinds /\ Anchors(n)) => s0.held[n] = t0.held[n]
            /\ Held(n) => s0.held[n] \cup t0.held[n] \subseteq past[n[1]]
        BY <1>5, <2>1, <2>2
      <3>2. Beside(A, U[k], U[k + 1], r, s0, V[k], V[k + 1], v, t0, batch, ts, n)
        BY <2>3, <2>4, <3>1, Zenon DEF Beside
      <3> QED
        BY <1>1, <2>2, <3>2, NodeThrough
    <2> HIDE DEF long
    <2>6. Past(k + 1)
      <3> SUFFICES ASSUME NEW m \in Nodes, At(m) <= k + 1
                   PROVE  Through(A, r, v, batch, m, U[At(m)], V[At(m)], long(m))
        OBVIOUS
      <3>1. CASE m = n
        BY <2>2, <2>5, <3>1
      <3>2. CASE m # n
        <4>1. At(m) <= k
          <5>1. m = order[At(m)]
            BY <1>0, Positions
          <5>2. At(m) # k + 1
            BY <3>2, <5>1 DEF n
          <5> QED
            BY <1>4, <5>2
        <4> QED
          BY <2>1, <4>1
      <3> QED
        BY <3>1, <3>2
    <2>7. U[k + 1].carry = V[k + 1].carry /\ U[k + 1].period = V[k + 1].period
      BY <2>5 DEF Through
    <2> QED
      BY <2>6, <2>7
  <1>8. L \in T
    <2> HIDE DEF T
    <2>1. Nat \subseteq T
      BY <1>6, <1>7, Ticking!Induction
    <2> QED
      BY <1>4, <2>1
  <1>9. U[L].carry = V[L].carry /\ U[L].period = V[L].period /\ Past(L)
    <2>1. L <= L
      BY <1>4
    <2> HIDE DEF Past
    <2> QED
      BY <1>8, <2>1
  <1>10. ASSUME NEW n \in Nodes
         PROVE  Through(A, r, v, batch, n, U[At(n)], V[At(n)], long(n))
    <2>1. At(n) <= L
      BY <1>4
    <2> HIDE DEF long
    <2> QED
      BY <1>9, <2>1
  <1>11. r.carry = v.carry /\ r.period = v.period
    BY <1>2, <1>3, <1>9 DEF Stages, L
  <1>12. r.pending = v.pending
    <2>1. ASSUME NEW l \in Latches
          PROVE  r.out[Cut(l)] = v.out[Cut(l)]
      <3>1. Cut(l) \in Nodes /\ Lasts(Cut(l))
        BY <1>0 DEF Lasts, IsCut
      <3>2. ~ Held(Cut(l))
        BY Lengths DEF Cut, Held, IsBuffer
      <3> QED
        BY <1>10, <3>1, <3>2 DEF Through
    <2>2. /\ r.pending = {l \in Latches : Terminal(r.out[Cut(l)])}
          /\ v.pending = {l \in Latches : Terminal(v.out[Cut(l)])}
      BY <1>2, <1>3, Zenon DEF Stages
    <2> QED
      BY <2>1, <2>2
  <1>13. Holding(r, v, [c \in g.roots |-> past[c] \cup batch[c]])
    <2>1. \A n \in Nodes : Keeps(n) /\ ~ (g.rewinds /\ Anchors(n)) => r.held[n] = v.held[n]
      BY <1>10 DEF Through
    <2>2. ASSUME NEW n \in Nodes, Held(n)
          PROVE  r.held[n] \cup v.held[n] \subseteq [c \in g.roots |-> past[c] \cup batch[c]][n[1]]
      <3>1. n[1] \in g.roots
        BY <2>2, HeldRetainsRoots
      <3>2. r.held[n] \cup v.held[n] \subseteq long(n)
        BY <1>10, <2>2 DEF Through
      <3> QED
        BY <3>1, <3>2
    <2> QED
      BY <1>11, <2>1, <2>2 DEF Holding
  <1>14. ASSUME NEW o \in Outputs \cap Nodes, ArmedNow(r) = {}
         PROVE  r.out[o] = v.out[o]
    <2>1. DemandWalk[o] = Truth
      BY <1>0, LiveIs DEF Asks
    <2>2. Wanted(r, o)
      BY <2>1 DEF Wanted, Granted, Truth
    <2>3. ~ Held(o)
      BY Lengths DEF Outputs, Held, IsBuffer
    <2> QED
      BY <1>10, <1>14, <2>2, <2>3 DEF Through, Good, Near
  <1> QED
    BY <1>12, <1>13, <1>14 DEF AlikeAfter

\* Nor does a tick move what a node keeps, what it retains, or where a latch is cut.
LEMMA DecidedToo ==
    ASSUME g' = g, order' = order
    PROVE  /\ \A n : Keeps(n)' = Keeps(n) /\ Held(n)' = Held(n) /\ Anchors(n)' = Anchors(n)
                     /\ IsAnchored(n)' = IsAnchored(n) /\ Anchorable(n)' = Anchorable(n)
           /\ \A l : Cut(l)' = Cut(l)
           /\ Outputs' = Outputs
  <1>1. /\ Nodes' = Nodes /\ Latches' = Latches
        /\ \A n : Deps(n)' = Deps(n) /\ IsLatch(n)' = IsLatch(n)
        /\ \A d : Target(d)' = Target(d)
    BY Decided
  <1>2. \A n : IsAnchored(n)' = IsAnchored(n) /\ IsBuffer(n)' = IsBuffer(n) /\ IsEmit(n)' = IsEmit(n)
    BY DEF IsAnchored, IsBuffer, IsEmit
  <1>3. \A n : Consumers(n)' = Consumers(n) /\ Folds(n)' = Folds(n) /\ Data(n)' = Data(n)
    BY <1>1 DEF Consumers, Folds, Data
  <1>4. \A l : Cut(l)' = Cut(l)
    BY DEF Cut
  <1>5. \A n : Held(n)' = Held(n)
    BY <1>2, <1>3 DEF Held
  <1>6. \A n : Keeps(n)' = Keeps(n)
    BY <1>1, <1>2, <1>3, <1>4 DEF Keeps
  <1>7. \A n : Anchorable(n)' = Anchorable(n)
    BY <1>2, <1>3 DEF Anchorable
  <1>8. \A n : Anchors(n)' = Anchors(n)
    BY <1>2, <1>5 DEF Anchors
  <1>9. Outputs' = Outputs
    BY DEF Outputs
  <1> QED
    BY <1>2, <1>4, <1>5, <1>6, <1>7, <1>8, <1>9

\* A graph that starts as Default starts like its twin.
LEMMA FreshAlike ==
    /\ Shaped(Fresh) /\ Apart(Fresh) /\ Alike(Fresh, Fresh)
    /\ \A n \in Nodes : Fresh.out[n] = {}
  <1> DEFINE empty == [n \in Nodes |-> {}]
  <1>1. Fresh.held = empty /\ Fresh.out = empty
    BY DEF Fresh
  <1>2. empty = [n \in Nodes |-> empty[n]] /\ \A n \in Nodes : empty[n] = {}
    OBVIOUS
  <1> HIDE DEF empty
  <1>3. Fresh = [held |-> Fresh.held, carry |-> Fresh.carry, period |-> Fresh.period,
                 pending |-> Fresh.pending, standing |-> Fresh.standing,
                 out |-> Fresh.out, ran |-> Fresh.ran]
    BY DEF Fresh
  <1> QED
    BY <1>1, <1>2, <1>3 DEF Shaped, Apart, Latches, Alike, Holding

\* Once a graph is emitted: it and its twin, nothing of which sleeps, hold the same, and
\* an output of one reads as the other's unless a latch armed.
Sleeping ==
    /\ Wired /\ Shaped(twin) /\ Apart(twin) /\ Alike(run, twin)
    /\ \A o \in Outputs \cap Nodes : run.out[o] = twin.out[o] \/ ArmedNow(run) # {}

SleepInv == phase = "emitted" => Sleeping

\* It holds through every tick of a graph whose latches are sealed and whose lasting
\* nodes are attended.
THEOREM SleepInvariance ==
    ASSUME \A w \in Graphs : Sealed(w)
    PROVE  SweepSpec /\ [](phase = "emitted" => Attended) => []SleepInv
  <1>1. SweepInit => SleepInv
    BY DEF SweepInit, WalkInit, SleepInv
  <1> DEFINE Heeded == phase = "emitted" => Attended
  <1>2. WalkInv /\ StepsInOrder /\ EpisodeInv /\ PictureInv /\ SleepInv /\ Heeded
          /\ [SweepNext]_vars => SleepInv'
    <2> SUFFICES ASSUME WalkInv, StepsInOrder, EpisodeInv, PictureInv, SleepInv, Heeded,
                        [SweepNext]_vars, phase' = "emitted"
                 PROVE  Sleeping'
      BY DEF SleepInv
    <2>0. ASSUME g' = g, order' = order,
                 Wired, Shaped(twin'), Apart(twin'),
                 run'.pending = twin'.pending, Holding(run', twin', past'),
                 \A o \in Outputs \cap Nodes : run'.out[o] = twin'.out[o] \/ ArmedNow(run') # {}
          PROVE  Sleeping'
      <3>1. /\ Nodes' = Nodes /\ Latches' = Latches
            /\ \A n : At(n)' = At(n) /\ Gates(n)' = Gates(n) /\ Deps(n)' = Deps(n)
            /\ \A d : Target(d)' = Target(d)
        BY <2>0, Decided
      <3>2. /\ \A n : Keeps(n)' = Keeps(n) /\ Held(n)' = Held(n) /\ Anchors(n)' = Anchors(n)
                      /\ IsAnchored(n)' = IsAnchored(n) /\ Anchorable(n)' = Anchorable(n)
            /\ \A l : Cut(l)' = Cut(l)
            /\ Outputs' = Outputs
        BY <2>0, DecidedToo
      <3>3. Wired'
        BY <2>0, <3>1, <3>2 DEF Wired, Ordered, Emitted
      <3>4. (Shaped(twin) /\ Apart(twin))'
        BY <2>0, <3>1 DEF Shaped, Apart
      <3>5. Alike(run, twin)'
        BY <2>0, <3>1, <3>2 DEF Alike, Holding
      <3>6. (\A o \in Outputs \cap Nodes : run.out[o] = twin.out[o] \/ ArmedNow(run) # {})'
        BY <2>0, <3>1, <3>2 DEF ArmedNow
      <3> QED
        BY <3>3, <3>4, <3>5, <3>6 DEF Sleeping
    <2>1. CASE Walk
      <3>1. phase = "walk" /\ phase' \in {"walk", "cycle"}
        BY <2>1 DEF Walk, WalkDep, WalkPop, WalkOutput, Answer, Walking, Visit, VisitRetained,
                    VisitPlain, Record
      <3> QED
        BY <3>1
    <2>2. CASE Emit
      <3>1. /\ g' = g /\ order' = order /\ past' = past /\ Walked /\ Accepted
            /\ run' = Fresh /\ twin' = Fresh
        BY <2>2 DEF Emit
      <3>2. Ordered
        BY <3>1, AcceptedIsOrdered
      <3>3. Wired
        BY <3>1, <3>2 DEF Wired, Accepted, CutGated, Latches
      <3>4. /\ Shaped(Fresh) /\ Apart(Fresh) /\ Alike(Fresh, Fresh)
        BY FreshAlike
      <3>5. run'.pending = twin'.pending /\ Holding(run', twin', past')
        BY <3>1, <3>4 DEF Alike, Holding
      <3>6. \A o \in Outputs \cap Nodes : run'.out[o] = twin'.out[o] \/ ArmedNow(run') # {}
        BY <3>1
      <3> QED
        BY <2>0, <3>1, <3>3, <3>4, <3>5, <3>6
    <2>3. CASE Tick
      <3>1. /\ phase = "emitted" /\ g' = g /\ order' = order
            /\ plan = Demands /\ Shaped(run) /\ Apart(run)
        BY <2>3 DEF Tick, EpisodeInv, PictureInv, walkVars
      <3>2. /\ Wired /\ Shaped(twin) /\ Apart(twin) /\ Alike(run, twin) /\ Attended
        BY <3>1 DEF SleepInv, Sleeping
      <3>3. PICK batch : /\ run' = Ticked(run, batch, tick + 1, FALSE)
                         /\ twin' = Ticked(twin, batch, tick + 1, TRUE)
                         /\ past' = [c \in g.roots |-> past[c] \cup batch[c]]
        BY <2>3 DEF Tick
      <3>4. /\ run'.pending = twin'.pending
            /\ Holding(run', twin', past')
            /\ \A o \in Outputs \cap Nodes : run'.out[o] = twin'.out[o] \/ ArmedNow(run') # {}
        <4> DEFINE r == Ticked(run, batch, tick + 1, FALSE)
                   v == Ticked(twin, batch, tick + 1, TRUE)
        <4>1. AlikeAfter(r, v, batch)
          BY <3>1, <3>2, TickAlike
        <4> HIDE DEF r, v
        <4>2. run' = r /\ twin' = v
          BY <3>3 DEF r, v
        <4> QED
          BY <3>3, <4>1, <4>2 DEF AlikeAfter
      <3>5. Shaped(twin') /\ Apart(twin')
        <4>1. Emitted
          BY <3>2 DEF Wired, Ordered
        <4> QED
          BY <3>2, <3>3, <4>1, TickKeepsApart
      <3> QED
        BY <2>0, <3>1, <3>2, <3>4, <3>5
    <2>4. CASE UNCHANGED vars
      <3>1. /\ phase' = phase /\ g' = g /\ order' = order
            /\ run' = run /\ twin' = twin /\ past' = past
        BY <2>4 DEF vars, walkVars
      <3>2. /\ Wired /\ Shaped(twin) /\ Apart(twin) /\ Alike(run, twin)
            /\ \A o \in Outputs \cap Nodes : run.out[o] = twin.out[o] \/ ArmedNow(run) # {}
        BY <3>1 DEF SleepInv, Sleeping
      <3>3. run'.pending = twin'.pending /\ Holding(run', twin', past')
        BY <3>1, <3>2 DEF Alike
      <3> QED
        BY <2>0, <3>1, <3>2, <3>3
    <2> QED
      BY <2>1, <2>2, <2>3, <2>4 DEF SweepNext, Expand
  <1> QED
    BY <1>1, <1>2, WalkInvariance, WalkStepsInOrder, EpisodeInvariance, PictureInvariance, PTL
       DEF SweepSpec

\* Suppression is the engine's own business, on any graph whose lasting nodes are
\* attended: an output reads as it would had nothing slept, save on a tick a latch arms.
THEOREM SleepUnseen ==
    ASSUME \A w \in Graphs : Sealed(w)
    PROVE  SweepSpec /\ [](phase = "emitted" => Attended) => []SleepIsInvisible
  <1>1. SleepInv => SleepIsInvisible
    BY DEF SleepInv, Sleeping, SleepIsInvisible
  <1> QED
    BY <1>1, SleepInvariance, PTL

\* Nothing that folds, retains or holds an episode there misses a tick it would have
\* run, on the ticks a latch arms as on all others.
THEOREM NothingShort ==
    ASSUME \A w \in Graphs : Sealed(w)
    PROVE  SweepSpec /\ [](phase = "emitted" => Attended) => []NothingHeldIsShort
  <1>1. SleepInv => NothingHeldIsShort
    BY DEF SleepInv, Sleeping, NothingHeldIsShort, Alike, Holding, Anchors
  <1> QED
    BY <1>1, SleepInvariance, PTL

\* A graph of no latch, whose sampled series are roots, fold, or are outputs: none is
\* asked for less than its own gates allow.
Wakeful(w, c) ==
    \/ c \in w.roots
    \/ \E j \in DOMAIN w.node[c].deps : w.node[c].deps[j].as = "fold"
    \/ \E k \in DOMAIN w.outputs : w.is[w.outputs[k]] = c
Unlatched(w) ==
    \A c \in DOMAIN w.node :
        /\ ~w.node[c].latch
        /\ \A j \in DOMAIN w.node[c].deps :
               w.node[c].deps[j].as = "sample" => Wakeful(w, w.is[w.node[c].deps[j].cell])

SamplesInv == \A c \in samples : Wakeful(g, c)

\* What the walk finds sampled is what the graph samples.
THEOREM SamplesInvariance ==
    ASSUME \A w \in Graphs : Unlatched(w)
    PROVE  SweepSpec => []SamplesInv
  <1>1. SweepInit => SamplesInv
    BY DEF SweepInit, WalkInit, SamplesInv
  <1>2. WalkInv /\ SamplesInv /\ [SweepNext]_vars => SamplesInv'
    <2> SUFFICES ASSUME WalkInv, SamplesInv, [SweepNext]_vars
                 PROVE  SamplesInv'
      OBVIOUS
    <2>0. ASSUME g' = g, samples' = samples
          PROVE  SamplesInv'
      BY <2>0 DEF SamplesInv, Wakeful
    <2>1. CASE WalkDep
      <3> DEFINE top == Last(stack)
                 dep == DepsOf(top.node)[top.walked + 1]
      <3>1. /\ phase = "walk" /\ stack # <<>> /\ g' = g /\ top.walked < Len(DepsOf(top.node))
            /\ samples' = samples \/ (/\ dep.as = "sample" /\ samples' = samples \cup {Key(dep.cell)}
                                      /\ Settled(dep.cell) \/ dep.cell \in aliases)
        BY <2>1 DEF WalkDep, Walking, Visit, VisitRetained, VisitPlain
      <3>2. CASE samples' = samples
        BY <2>0, <3>1, <3>2
      <3>3. CASE /\ dep.as = "sample" /\ samples' = samples \cup {Key(dep.cell)}
                 /\ Settled(dep.cell) \/ dep.cell \in aliases
        <4>1. /\ IsGraph(g) /\ Unlatched(g) /\ stack \in Seq(Places(g)) /\ known \subseteq NodesIn(g)
          BY <3>1, ResolveConstants, KnownAreNodes DEF WalkInv, WalkSound, WalkTyped
        <4>2. Len(stack) \in Nat /\ Len(stack) # 0 /\ top = stack[Len(stack)]
          BY <3>1, <4>1, EmptySeq, LenProperties DEF Last
        <4>3. top \in Places(g)
          BY <4>1, <4>2
        <4>4. top.node \in NodesIn(g) /\ top.walked \in Nat
          BY <4>3 DEF Places
        <4> HIDE DEF top
        <4>5. ~ IsBuffer(top.node)
          <5>1. ASSUME IsBuffer(top.node)
                PROVE  FALSE
            <6>1. DepsOf(top.node) = <<[cell |-> top.node[1], as |-> "plain"]>>
              BY <5>1 DEF DepsOf
            <6>2. top.walked + 1 = 1
              BY <3>1, <4>4, <6>1
            <6> QED
              BY <3>3, <6>1, <6>2
          <5> QED
            BY <5>1
        <4>6. PICK c \in Keys(g) \ g.roots : top.node = Cell(c)
          BY <4>4, <4>5, Lengths DEF NodesIn, IsBuffer
        <4>7. c \in DOMAIN g.node /\ DepsOf(top.node) = g.node[c].deps
          BY <4>1, <4>5, <4>6, Answers, Lengths DEF Keys, DepsOf
        <4>8. top.walked + 1 \in DOMAIN g.node[c].deps
          <5>1. g.node[c].deps \in Seq([cell : DOMAIN g.is, as : Reading])
            BY <4>1, <4>7 DEF IsGraph
          <5>2. DOMAIN g.node[c].deps = 1..Len(g.node[c].deps) /\ Len(g.node[c].deps) \in Nat
            BY <5>1, LenProperties
          <5> QED
            BY <3>1, <4>4, <4>7, <5>2
        <4>9. Wakeful(g, g.is[dep.cell])
          BY <3>3, <4>1, <4>7, <4>8 DEF Unlatched
        <4>10. Key(dep.cell) = g.is[dep.cell]
          BY <3>3, <4>1, KeysAnswer
        <4>11. \A x \in samples' : Wakeful(g, x)
          BY <3>3, <4>9, <4>10 DEF SamplesInv
        <4> QED
          BY <3>1, <4>11 DEF SamplesInv, Wakeful
      <3> QED
        BY <3>1, <3>2, <3>3
    <2>2. CASE WalkOutput
      <3>1. /\ phase = "walk" /\ queue # <<>> /\ g' = g
            /\ Head(queue).as = "sample" \/ samples' = samples
        BY <2>2 DEF WalkOutput, Walking, Visit, VisitRetained, VisitPlain
      <3>2. Head(queue) \in Pending(g)
        <4>1. queue \in Seq(Pending(g))
          BY <3>1 DEF WalkInv, WalkSound, WalkTyped
        <4> QED
          BY <3>1, <4>1, HeadTailProperties
      <3>3. samples' = samples
        BY <3>1, <3>2 DEF Pending
      <3> QED
        BY <2>0, <3>1, <3>3
    <2>3. CASE WalkPop \/ Answer
      BY <2>0, <2>3 DEF WalkPop, Answer
    <2>4. CASE Emit
      BY <2>0, <2>4 DEF Emit
    <2>5. CASE Tick \/ UNCHANGED vars
      BY <2>0, <2>5 DEF Tick, vars, walkVars
    <2> QED
      BY <2>1, <2>2, <2>3, <2>4, <2>5 DEF SweepNext, Expand, Walk
  <1> QED
    BY <1>1, <1>2, WalkInvariance, PTL DEF SweepSpec

\* There, every node of the graph is attended.
LEMMA UnlatchedAttended ==
    ASSUME \A w \in Graphs : Unlatched(w), Ordered, SamplesInv, plan = Demands
    PROVE  Attended /\ Latches = {}
  <1>1. IsGraph(g) /\ Unlatched(g)
    BY ResolveConstants DEF Ordered, Emitted
  <1>2. ASSUME NEW n \in Nodes
        PROVE  \/ IsBuffer(n)
               \/ /\ n[1] \in DOMAIN g.node \ g.roots /\ n = Cell(n[1])
                  /\ ~IsBuffer(n) /\ DepsOf(n) = g.node[n[1]].deps
    <2>1. n \in NodesIn(g)
      BY Positions, LenProperties DEF Ordered, Emitted
    <2>2. CASE \E x \in Keys(g) \ g.roots : n = Cell(x)
      <3>1. PICK x \in Keys(g) \ g.roots : n = Cell(x)
        BY <2>2
      <3>2. x \in DOMAIN g.node /\ n[1] = x /\ ~ IsBuffer(n)
        BY <1>1, <3>1, Answers, Lengths DEF Keys, IsBuffer
      <3> QED
        BY <3>1, <3>2 DEF DepsOf
    <2>3. CASE \E x \in Keys(g) : n = Buffer(x)
      BY <2>3, Lengths DEF IsBuffer
    <2> QED
      BY <2>1, <2>2, <2>3 DEF NodesIn
  <1>3. \A n \in Nodes : ~ IsLatch(n)
    BY <1>1, <1>2 DEF IsLatch, Unlatched
  <1>4. Latches = {}
    BY <1>3 DEF Latches
  <1>5. ASSUME NEW n \in Nodes, Pinned(n) \/ n \in Outputs
        PROVE  AskedWhenOpen(n)
    <2>1. DemandWalk[n] = Truth
      BY <1>5, LiveIs DEF Asks
    <2> QED
      BY <2>1 DEF AskedWhenOpen, Truth
  <1>6. ASSUME NEW n \in Nodes, Sampled(n)
        PROVE  Pinned(n) \/ n \in Outputs
    <2>1. /\ n[1] \in DOMAIN g.node \ g.roots /\ n = Cell(n[1])
          /\ DepsOf(n) = g.node[n[1]].deps
      BY <1>2, <1>6 DEF Sampled
    <2>2. Wakeful(g, n[1])
      BY <1>6 DEF Sampled, SamplesInv
    <2>3. CASE \E j \in DOMAIN g.node[n[1]].deps : g.node[n[1]].deps[j].as = "fold"
      BY <2>1, <2>3 DEF Pinned, Folds, Deps, Range
    <2>4. CASE \E k \in DOMAIN g.outputs : g.is[g.outputs[k]] = n[1]
      BY <2>1, <2>4 DEF Outputs
    <2> QED
      BY <2>1, <2>2, <2>3, <2>4 DEF Wakeful
  <1>7. ASSUME NEW n \in Nodes, ~ g.rewinds, Anchors(n)
        PROVE  Awaited(n)
    BY <1>7 DEF Anchors, Awaited, Rewinders, Held
  <1>8. \A n \in Nodes : ~ IsCut(n)
    BY <1>4 DEF IsCut
  <1>9. \A n \in Nodes : Lasts(n) => AskedWhenOpen(n)
    BY <1>5, <1>6, <1>7, <1>8 DEF Lasts, AskedWhenOpen
  <1>10. ASSUME NEW n \in Nodes
         PROVE  ~ ByLatch(n)
    <2>1. \A conj \in plan[n] : \A gate \in conj : ~ IsLatch(gate)
      BY <1>3, DemandsFollow
    <2> QED
      BY <2>1 DEF ByLatch
  <1> QED
    BY <1>4, <1>9, <1>10 DEF Attended

\* In graphs of no latch, whose sampled series are roots, fold or are outputs, sleep
\* costs nothing at all: every output reads, and everything with state of its own
\* holds, what it would had nothing slept, on every tick.
THEOREM UnlatchedSleepUnseen ==
    ASSUME \A w \in Graphs : Unlatched(w)
    PROVE  SweepSpec => [](/\ NothingHeldIsShort
                           /\ phase = "emitted" =>
                                  \A o \in Outputs \cap Nodes : run.out[o] = twin.out[o])
  <1>0. \A w \in Graphs : Sealed(w)
    BY DEF Unlatched, Sealed
  <1>1. PictureInv /\ SamplesInv => (phase = "emitted" => Attended)
    BY UnlatchedAttended DEF PictureInv
  <1>2. SleepInv /\ PictureInv /\ SamplesInv =>
            /\ NothingHeldIsShort
            /\ phase = "emitted" => \A o \in Outputs \cap Nodes : run.out[o] = twin.out[o]
    <2> SUFFICES ASSUME SleepInv, PictureInv, SamplesInv, phase = "emitted"
                 PROVE  /\ NothingHeldIsShort
                        /\ \A o \in Outputs \cap Nodes : run.out[o] = twin.out[o]
      BY DEF NothingHeldIsShort
    <2>1. Latches = {}
      BY UnlatchedAttended DEF PictureInv
    <2>2. ArmedNow(run) = {}
      BY <2>1 DEF ArmedNow
    <2> QED
      BY <2>2 DEF SleepInv, Sleeping, NothingHeldIsShort, Alike, Holding, Anchors
  <1> QED
    BY <1>0, <1>1, <1>2, SleepInvariance, SamplesInvariance, PictureInvariance, PTL
=============================================================================
