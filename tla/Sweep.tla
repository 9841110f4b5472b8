------------------------------- MODULE Sweep --------------------------------
(***************************************************************************)
(* The tick graph! writes (trading_data_macros/src/resolve.rs emit, over   *)
(* step_obs, step_when_obs, step_emit_obs, carry, Emitter and Latch of     *)
(* trading_data_dag/src/lib.rs): one resolved graph, driven twice with the *)
(* same batches, once as compiled and once with every demand TRUE, so that *)
(* what a suppressed node costs its readers shows.                         *)
(*                                                                         *)
(* Values are provenance: a root's batch at tick t is {t} or empty, and an *)
(* out is the set of ticks it was computed from.  Empty is latent: None,   *)
(* the empty run, false.  A body is abstract: it reads its deps whole, and *)
(* keeps what it read where the node holds state.                          *)
(***************************************************************************)
EXTENDS Demand

CONSTANTS MaxTick,      \* ticks driven
          EpisodeLen    \* what an episode's out holds when it is terminal

ASSUME SweepConstants == MaxTick \in Nat /\ EpisodeLen \in Nat \ {0}

VARIABLES plan,    \* per node, its demand
          run,     \* the graph as driven
          twin,    \* the same graph, nothing suppressed
          past,    \* per root, every tick that carried it: the feed's record
          tick     \* ticks taken

vars == <<walkVars, plan, run, twin, past, tick>>

Latches == {n \in Nodes : IsLatch(n)}

\* A body that remembers: it folds, retains, latches, is anchored or runs an
\* episode.
Keeps(n) == \/ Folds(n) \/ IsBuffer(n) \/ IsLatch(n) \/ IsAnchored(n)
            \/ \E l \in Latches : Cut(l) = n

\* The graph's state between ticks, and what the last tick showed.
Fresh == [held |-> [n \in Nodes |-> {}],        \* what a node's body keeps
          carry |-> [c \in samples |-> {}],     \* per sampled series
          period |-> [n \in Nodes |-> -1],      \* Emitter.last_period
          pending |-> {},                       \* latches to commutate
          standing |-> {},                      \* latches up at tick start
          out |-> [n \in Nodes |-> {}],
          ran |-> {}]

-----------------------------------------------------------------------------
(* One tick.                                                               *)

\* Bug: the episode's nodes keep what they held.
CommutateOnly(s) == [s EXCEPT !.held = [n \in Nodes |-> IF n \in s.pending THEN {} ELSE @[n]],
                              !.pending = {}]

\* Last tick's terminals: the latch drops, what it gates is as Default.
Commutate(s) ==
    LET spent(n) == n \in s.pending \/ Gates(n) \cap s.pending # {}
    IN  [s EXCEPT !.held = [n \in Nodes |-> IF spent(n) THEN {} ELSE @[n]],
                  !.period = [n \in Nodes |-> IF spent(n) THEN -1 ELSE @[n]],
                  !.pending = {}]

\* The level a sampled series stands at, after its own line.
Carried(s, c, out) == IF c \in samples /\ out # {}
                      THEN [s.carry EXCEPT ![c] = out] ELSE s.carry

Read(s, d, batch) ==
    IF d.as = "sample" THEN s.carry[g.is[d.cell]]
    ELSE IF g.is[d.cell] \in g.roots /\ d.as # "buf" THEN batch[g.is[d.cell]]
    ELSE s.out[Target(d)]

Reads(s, n, batch) == UNION {Read(s, d, batch) : d \in Data(n)}

\* Pull::open: every gate it names reads true.
Open(s, n) == \A gate \in Gates(n) : s.out[gate] # {}

\* Its consumers' gates; or, behind a past that does not rewind, always.
Demanded(s, n) ==
    \/ \E conj \in plan[n] : \A gate \in conj :
           IF IsLatch(gate) THEN gate \in s.standing ELSE s.out[gate] # {}
    \/ ~g.rewinds /\ Rewinders(n) # {}

\* The clock withholds ticks only from a node reading what the engine keeps.
Clocked(n) ==
    /\ IsEmit(n) /\ ClockOf(n[1]) # 0
    /\ \A d \in Deps(n) : d.as \in {"buf", "sample"}

Period(n, ts) == ts \div ClockOf(n[1])

\* Emitter::opens: the first tick of each period, asked of every step.
Admits(s, n, ts) == Clocked(n) => s.period[n] # Period(n, ts)

\* What an anchored node held at the start of this tick, out of the record.
Rewound(n) == UNION {past[g.is[d.cell]] : d \in Data(n)}

Before(s, n) == IF IsAnchored(n) /\ g.rewinds THEN Rewound(n) ELSE s.held[n]

\* The body: an emitter with nothing to read emits nothing.
Advance(s, n, batch) ==
    LET read == Reads(s, n, batch)
        after == IF Keeps(n) THEN Before(s, n) \cup read ELSE read
    IN  [held |-> IF Keeps(n) THEN after ELSE {},
         out |-> IF IsEmit(n) /\ read = {} THEN {} ELSE after]

\* step_obs, step_when_obs and step_emit_obs, with the carry after it.
Step(s, n, batch, ts, awake) ==
    LET ran == (awake \/ Demanded(s, n)) /\ Open(s, n)
        t == [s EXCEPT !.period[n] = IF Clocked(n) THEN Period(n, ts) ELSE @,
                       !.ran = IF ran THEN @ \cup {n} ELSE @]
    IN  IF ran /\ Admits(s, n, ts)
        THEN LET a == Advance(s, n, batch)
             IN  [t EXCEPT !.held[n] = a.held, !.out[n] = a.out,
                           !.carry = IF IsBuffer(n) THEN @ ELSE Carried(s, n[1], a.out)]
        ELSE [t EXCEPT !.out[n] = {}]

\* Any element of the run ends the episode.
Terminal(out) == Cardinality(out) >= EpisodeLen

Ticked(s, batch, ts, awake) ==
    LET c == Commutate(s)
        start == [c EXCEPT !.standing = {l \in Latches : c.held[l] # {}},
                           !.carry = [r \in samples |->
                               IF r \in g.roots /\ batch[r] # {} THEN batch[r] ELSE @[r]],
                           !.out = [n \in Nodes |-> {}], !.ran = {}]
        end == FoldLeft(LAMBDA u, n : Step(u, n, batch, ts, awake), start, order)
    IN  [end EXCEPT !.pending = {l \in Latches : Terminal(end.out[Cut(l)])}]

-----------------------------------------------------------------------------

SweepInit ==
    /\ WalkInit
    /\ plan = <<>> /\ run = <<>> /\ twin = <<>> /\ tick = 0
    /\ past = [r \in g.roots |-> {}]

\* emit: the checks, the demands, and a graph as Default.
Emit ==
    /\ Walked
    /\ phase' = IF Accepted THEN "emitted" ELSE "refused"
    /\ IF Accepted THEN plan' = Demands /\ run' = Fresh /\ twin' = Fresh
                   ELSE UNCHANGED <<plan, run, twin>>
    /\ UNCHANGED <<g, stack, queue, awaiting, known, aliases, samples, order, past, tick>>

\* One tick of the feed: some roots carry a batch.
Tick ==
    /\ phase = "emitted" /\ tick < MaxTick
    /\ tick' = tick + 1
    /\ \E carrying \in SUBSET g.roots :
        LET batch == [r \in g.roots |-> IF r \in carrying THEN {tick + 1} ELSE {}]
        IN  /\ run' = Ticked(run, batch, tick + 1, FALSE)
            /\ twin' = Ticked(twin, batch, tick + 1, TRUE)
            /\ past' = [r \in g.roots |-> past[r] \cup batch[r]]
    /\ UNCHANGED <<walkVars, plan>>

\* graph! itself: the walk, then the checks.
Expand == (Walk /\ UNCHANGED <<plan, run, twin, past, tick>>) \/ Emit

SweepNext == Expand \/ Tick

\* The compiler drives the walk to its end; nobody owes the graph a tick.
SweepSpec == SweepInit /\ [][SweepNext]_vars /\ WF_vars(Expand)

-----------------------------------------------------------------------------
(* Properties.                                                             *)

\* What the walk leaves behind: every node is stepped once, everything the outputs
\* reach is stepped, and each after all it reads.  The post-order assertion of
\* demand.rs is owed to a series sampled by what it reads, and to nothing else.
StepsInOrder ==
    Walked =>
        /\ IsInjective(order) /\ Outputs \ {Cell(r) : r \in g.roots} \subseteq Nodes
        /\ \A n \in Nodes : \A d \in Deps(n) :
               \/ Target(d) \in {Cell(r) : r \in g.roots}
               \/ Target(d) \in Nodes /\ (d.as = "sample" \/ At(Target(d)) < At(n))

ArmedNow(s) == {l \in Latches : l \notin s.standing /\ s.out[l] # {}}

\* Suppression is the engine's own business: an output reads as it would had
\* nothing slept, save on the tick a latch arms, when what the latch darkened
\* wakes a tick behind its reader.
SleepIsInvisible ==
    phase = "emitted" =>
        \A o \in Outputs \cap Nodes : run.out[o] = twin.out[o] \/ ArmedNow(run) # {}

\* What a node folds, what the frame retains and what an episode holds is never
\* short of an element: nothing with state of its own misses a tick it would
\* have run.
NothingHeldIsShort ==
    phase = "emitted" =>
        \A n \in Nodes : Keeps(n) /\ ~IsAnchored(n) /\ ~Held(n) =>
            run.held[n] = twin.held[n] \/ ArmedNow(run) # {}

\* What a latch gates holds nothing while it is down: no episode starts on what
\* another left.
EpisodesAreSeparate ==
    phase = "emitted" =>
        \A l \in Latches : run.held[l] = {} =>
            \A n \in Nodes : l \in Gates(n) => run.held[n] = {}

\* Every walk ends: in a graph, in a cycle or in a refusal.
WalkEnds == <>(phase # "walk")
=============================================================================
