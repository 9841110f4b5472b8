------------------------------ MODULE Strategy ------------------------------
(***************************************************************************)
(* The episode of examples/spl, from a screened minute to its last intent: *)
(* StdScreener, BookTop, Classify, Decision, Armed<Deprecator> and         *)
(* Deprecator, stepped on every tick, and the check block main.rs keeps    *)
(* over what they publish (day.flags records what it found, for traces).   *)
(*                                                                         *)
(* A tick carries one lane's run, as the weaver hands it over.  The folded *)
(* book is its truth: asleep, it is rewound before anybody reads it.       *)
(* Prices are integers; a certainty is a numerator over the trail's own    *)
(* distance.                                                               *)
(***************************************************************************)
EXTENDS Integers, Sequences, FiniteSets, SequencesExt

CONSTANTS
    Mids,           \* what the top of the book may average to
    AtrLevels,      \* what the envelope may be
    Situations,     \* the readings that may hold together on a hit
    TrailDen,       \* trail_pct is one over this
    Severe,         \* does a full retrace deprecate everything
    SlX, TpX,       \* the envelope's reach either side, in ATRs
    Grace,          \* drain_grace
    MaxTs           \* bound: the venue's last instant

\* Momentum falls in one band.
Bands == {"band low", "band mid", "band high"}

ASSUME StrategyConstants ==
    /\ Mids \subseteq Nat \ {0} /\ AtrLevels \subseteq Nat \ {0}
    /\ TrailDen \in Nat \ {0} /\ Grace \in Nat /\ MaxTs \in Nat
    /\ SlX \in Nat /\ TpX \in Nat
    /\ \A situation \in Situations : \A a, b \in situation \cap Bands : a = b

VARIABLES
    book,       \* [ts, mid], mid 0 while one side is empty; None unseeded
    atr,        \* the carry over Atr; None until its first
    armed,      \* the latch's bit
    spent,      \* a terminal intent was read off the last tick
    walk,       \* what Deprecator keeps
    tick,       \* what the nodes read and published this tick
    day         \* the driver's running checks

vars == <<book, atr, armed, spent, walk, tick, day>>

None == <<>>

-----------------------------------------------------------------------------
(* Classify: points, then certainty.                                       *)

Categories == <<"Indeterminate", "Liquidations", "MmClosing", "Manipulation", "Momentum">>

Trait(category, relevance, reads) ==
    [category |-> category, relevance |-> relevance, reads |-> reads, invalidates |-> FALSE]

\* Each hits on the reading it is named for, which absence never is.
Traits == <<
    Trait("Manipulation", 1, "band high"), Trait("Liquidations", 1, "band mid"),
    Trait("MmClosing", 1, "band low"),
    [Trait("Momentum", 2, "large cap") EXCEPT !.invalidates = TRUE],
    Trait("Manipulation", 2, "interest over cap"), Trait("Liquidations", 2, "cascade"),
    Trait("Liquidations", 1, "extended day"), Trait("Manipulation", 2, "worked book"),
    Trait("Momentum", 2, "volume surge") >>

Total(f, n) == FoldLeft(LAMBDA sum, k : sum + f[k], 0, [k \in 1..n |-> k])

\* POINTS: all the evidence the table could ever score.
Points == Total([k \in DOMAIN Traits |-> Traits[k].relevance], Len(Traits))

\* What one trait says of a category when it hits.
Vote(trait, category) == IF trait.category = category THEN trait.relevance
                         ELSE IF trait.invalidates THEN -trait.relevance ELSE 0

\* Floored: a category talked down past nothing is out.
VoteFor(situation) ==
    [c \in DOMAIN Categories |->
        Max({0, Total([k \in DOMAIN Traits |->
                          IF Traits[k].reads \in situation THEN Vote(Traits[k], Categories[c]) ELSE 0],
                      Len(Traits))})]

Scored(w) == Total(w, Len(Categories))

\* Bug: certainty is measured against the evidence itself.
OutweighsItself(w, top) == top > 0

\* The likeliest outcome's points against what nothing argued for: shares are
\* over Max(sqrt(Points), scored), and the rest is ignorance.
Outweighs(w, top) == (top + Scored(w)) * (top + Scored(w)) > Points

\* modal: of equals, the last in the wire order.
Modal(w) ==
    LET top == Max(Range(w))
    IN  IF Outweighs(w, top) THEN Categories[Max({c \in DOMAIN w : w[c] = top})]
        ELSE "Indeterminate"

\* Decided: the situation's side, and how sure.
Direction(category) ==
    CASE category \in {"Liquidations", "Manipulation"} -> "Sell"
      [] category = "Momentum" -> "Buy"
      [] OTHER -> "Flat"
Decide(situation) ==
    LET w == VoteFor(situation)
    IN  [direction |-> Direction(Modal(w)), sure |-> <<Max(Range(w)), Scored(w)>>]
Decision == [situation \in Situations |-> Decide(situation)]

-----------------------------------------------------------------------------
(* Deprecator.                                                             *)

Cold == [state |-> None, decision |-> None, published |-> None]

\* The trail's distance is a share of the entry: fully retraced at entry, in
\* units of 1 / TrailDen of a price.
Enter(decision, d) ==
    [side |-> decision.direction, sure |-> decision.sure, entry |-> d.mid,
     extreme |-> None, certainty |-> 0, deadline |-> None]

Better(side, a, b) == IF side = "Buy" THEN Max({a, b}) ELSE Min({a, b})
Retrace(side, extreme, mid) == IF side = "Buy" THEN extreme - mid ELSE mid - extreme

\* Bug: certainty follows the retrace back.
TrailRecovers(a, mid) ==
    LET extreme == IF a.extreme = None THEN mid ELSE Better(a.side, a.extreme[1], mid)
    IN  [a EXCEPT !.extreme = <<extreme>>,
                  !.certainty = Min({Retrace(a.side, extreme, mid) * TrailDen, a.entry})]

\* TrailingStop::step: the extreme seeds from the first update, and ratchets; so
\* does the certainty.
TrailStep(a, mid) ==
    LET extreme == IF a.extreme = None THEN mid ELSE Better(a.side, a.extreme[1], mid)
    IN  [a EXCEPT !.extreme = <<extreme>>,
                  !.certainty = Max({@, Min({Retrace(a.side, extreme, mid) * TrailDen, a.entry})})]

Retraced(a) == a.certainty = a.entry

\* Where the trail fires, scaled by TrailDen; it stops drawing once it has.
TrailStop(a) ==
    IF Retraced(a) THEN None
    ELSE <<IF a.side = "Buy" THEN a.extreme[1] * TrailDen - a.entry
           ELSE a.extreme[1] * TrailDen + a.entry>>

StopLoss(a, level) == IF a.side = "Buy" THEN a.entry - level * SlX ELSE a.entry + level * SlX
TakeProfit(a, level) == IF a.side = "Buy" THEN a.entry + level * TpX ELSE a.entry - level * TpX

Inside(a, level, mid) ==
    IF a.side = "Buy" THEN StopLoss(a, level) < mid /\ mid < TakeProfit(a, level)
    ELSE TakeProfit(a, level) < mid /\ mid < StopLoss(a, level)

\* eval is lambda times the trail's multiplier.
NothingLeft(a, inside) == ~inside \/ (Severe /\ Retraced(a))

IntentOf(a, level, d, inside) ==
    LET draining == a.deadline # None
    IN  [ts |-> d.ts, side |-> a.side, base |-> <<a.sure, a.entry>>, inside |-> inside,
         zero |-> NothingLeft(a, inside), certainty |-> a.certainty,
         targets |-> ~draining /\ ~NothingLeft(a, inside),
         sl |-> StopLoss(a, level), tp |-> TakeProfit(a, level), stop |-> TrailStop(a),
         draining |-> draining, terminal |-> draining /\ d.ts >= a.deadline[1]]

\* same_value: everything but when.
SameValue(i, j) == [i EXCEPT !.ts = 0] = [j EXCEPT !.ts = 0]

\* Full deprecation starts the drain clock; recovery does not stop it.
DrainFrom(a, inside, d) ==
    IF NothingLeft(a, inside) /\ a.deadline = None
    THEN [a EXCEPT !.deadline = <<d.ts + Grace>>] ELSE a

\* One element of the book's run.
Manage(acc, d, level) ==
    LET state == IF acc.walk.state = None /\ acc.walk.decision # None
                 THEN <<Enter(acc.walk.decision[1], d)>> ELSE acc.walk.state
        at == [acc EXCEPT !.walk.state = state]
    IN  IF state = None \/ level = None THEN at
        ELSE LET trailed == TrailStep(state[1], d.mid)
                 inside == Inside(trailed, level[1], d.mid)
                 a == DrainFrom(trailed, inside, d)
                 intent == IntentOf(a, level[1], d, inside)
                 moved == acc.walk.published = None \/ ~SameValue(acc.walk.published[1], intent)
             IN  [walk |-> [acc.walk EXCEPT !.state = IF intent.terminal THEN None ELSE <<a>>,
                                            !.published = IF moved THEN <<intent>> ELSE @],
                  out |-> IF moved THEN Append(acc.out, intent) ELSE acc.out,
                  stated |-> <<intent>>]

\* Deprecator::emit, behind its latch; a top with a side missing is not read.
Deprecate(w, decided, level, top) ==
    LET heard == IF decided # None /\ decided[1].direction # "Flat"
                 THEN [w EXCEPT !.decision = decided] ELSE w
    IN  FoldLeft(LAMBDA acc, d : IF d.mid = 0 THEN acc ELSE Manage(acc, d, level),
                 [walk |-> heard, out |-> <<>>, stated |-> None], top)

-----------------------------------------------------------------------------
(* Day: the driver's checks over the stream.                               *)

NewDay == [last |-> -1, open |-> None, flags |-> {}]

Flag(holds, name) == IF holds THEN {} ELSE {name}

\* close_episode.
Closing(open) ==
    IF open.firstZero = None THEN {"never reached zero"}
    ELSE Flag(open.last >= open.firstZero[1] + Grace, "ended early")
         \cup Flag(open.prev < open.firstZero[1] + Grace, "outlived its deadline")

\* check_intent.
CheckIntent(dy, i) ==
    LET open == IF dy.open # None THEN dy.open[1]
                ELSE [certainty |-> 0, firstZero |-> None, prev |-> i.ts, last |-> i.ts]
        firstZero == IF open.firstZero = None /\ i.zero THEN <<i.ts>> ELSE open.firstZero
        next == [certainty |-> i.certainty, firstZero |-> firstZero,
                 prev |-> open.last, last |-> i.ts]
    IN  [last |-> i.ts,
         open |-> IF i.terminal THEN None ELSE <<next>>,
         flags |-> dy.flags
            \cup Flag(i.ts > dy.last, "not increasing")
            \cup Flag(i.certainty >= open.certainty, "certainty fell")
            \cup Flag(i.draining = (firstZero # None), "draining did not latch")
            \cup Flag(i.draining => ~i.targets, "drains with size")
            \cup IF i.terminal THEN Closing(next) ELSE {}]

-----------------------------------------------------------------------------
(* A tick.                                                                 *)

Quiet == [hit |-> FALSE, situation |-> {}, stated |-> None]

Init == /\ book = None /\ atr = None /\ armed = FALSE /\ spent = FALSE
        /\ walk = Cold /\ tick = Quiet /\ day = NewDay

\* Bug: the episode's own node is left as it was.
CommutateTheLatchOnly == walk

\* Last tick's terminal: the latch is open, and what it gates is as Default.
Commutate == IF spent THEN Cold ELSE walk

\* BookTop is asked for behind the screener, or behind a latch that stood before
\* the tick; what it reads off a seeded book is the book as of its newest row,
\* whatever lane the tick carries.
TopOf(hit, standing) ==
    IF book' # None /\ (hit \/ standing) THEN book' ELSE <<>>

\* The graph, over what the tick's lane left: the screener's verdict, and the
\* situation it classifies.
Sweep(hit, situation) ==
    LET standing == armed /\ ~spent
        decided == IF hit THEN <<Decision[situation]>> ELSE None
        arms == decided # None /\ decided[1].direction # "Flat"
        ran == IF standing \/ arms
               THEN Deprecate(Commutate, decided, atr', TopOf(hit, standing))
               ELSE [walk |-> Commutate, out |-> <<>>, stated |-> None]
    IN  /\ armed' = (standing \/ arms)
        /\ walk' = ran.walk
        /\ spent' = \E k \in DOMAIN ran.out : ran.out[k].terminal
        /\ tick' = [hit |-> hit, situation |-> situation, stated |-> ran.stated]
        /\ day' = FoldLeft(CheckIntent, day, ran.out)

\* Trades close a minute: the envelope may move, and a verdict is reached.
TradesCloseBar ==
    /\ UNCHANGED book
    /\ atr' \in {atr} \cup {<<level>> : level \in AtrLevels}
    /\ \/ Sweep(FALSE, {})
       \/ \E situation \in Situations : Sweep(TRUE, situation)

\* A run of deltas, its newest row no earlier than the last.
Deltas ==
    /\ book # None
    /\ \E ts \in book[1].ts..MaxTs, mid \in Mids \cup {0} :
           book' = <<[ts |-> ts, mid |-> mid]>>
    /\ UNCHANGED atr
    /\ Sweep(FALSE, {})

\* The checkpoint that seeds it.
Seed ==
    /\ book = None
    /\ \E mid \in Mids \cup {0} : book' = <<[ts |-> 0, mid |-> mid]>>
    /\ UNCHANGED atr
    /\ Sweep(FALSE, {})

\* A lane nothing here is clocked by, or trades inside a minute.
Other == UNCHANGED <<book, atr>> /\ Sweep(FALSE, {})

Next == TradesCloseBar \/ Deltas \/ Seed \/ Other

Spec == Init /\ [][Next]_vars

-----------------------------------------------------------------------------
(* Properties.                                                             *)

\* A position is taken on evidence that agrees: two points for its category, or
\* more, and no other category with more of them (Trait's relevance, certainty
\* against the root of the points).
TradesOnEvidence ==
    tick.hit /\ Decision[tick.situation].direction # "Flat" =>
        LET w == VoteFor(tick.situation)
            backs == {c \in DOMAIN w : Direction(Categories[c]) = Decision[tick.situation].direction}
        IN  \E c \in backs : w[c] >= 2 /\ \A o \in DOMAIN w : w[o] <= w[c]

\* An episode is the latch's: nothing of one outlives the latch that held it, and
\* the driver has none open the graph has ended.
EpisodeIsTheLatchs ==
    /\ walk.state # None => armed
    /\ ~armed => walk = Cold /\ day.open = None
    /\ spent => walk.state = None /\ day.open = None

\* Within an episode the trail only tightens, and once it has fired it is gone.
TrailTightens ==
    [][ walk.state # None /\ walk'.state # None =>
          LET a == walk.state[1]
              b == walk'.state[1]
          IN  /\ b.entry = a.entry /\ b.side = a.side
              /\ a.extreme # None =>
                    /\ b.extreme # None /\ Better(a.side, b.extreme[1], a.extreme[1]) = b.extreme[1]
                    /\ Retraced(a) => TrailStop(b) = None
              /\ a.deadline # None => b.deadline = a.deadline ]_vars
=============================================================================
