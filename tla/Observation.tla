----------------------------- MODULE Observation -----------------------------
(***************************************************************************)
(* The observed sweep of trading_data_dag/src/lib.rs (step_seen, Flats,    *)
(* Fire, fd_cols and the kernels' pre, jac and exact): what an observer is *)
(* told of a tick, and what asking for it may not change.                  *)
(*                                                                         *)
(* The graph is four nodes in sweep order over a level x and a series src. *)
(* pure (Symbolic) reads x and Sampling<src>; peak (Blind, gated) and      *)
(* total (Runs) are those of trading_data/tests/fuzz/fixture.rs; scan      *)
(* (Scans) reads an element of Buffering<src, Elems<1>> and the one before *)
(* it.  pure and scan share the body.  Names, plots and formatting are     *)
(* left out; a difference quotient bumps by one.                           *)
(***************************************************************************)
EXTENDS Expr

CONSTANTS Observed,   \* bodies the graph is built with
          Levels,     \* what x may stand at
          Batches,    \* what src may carry in one tick
          Watches,    \* what two observers may want: a pair of wants per node
          MaxTicks    \* bound

ASSUME ObservationConstants ==
    /\ Levels \subseteq Int /\ Batches \subseteq Seq(Int) \ {<<>>}
    /\ MaxTicks \in Nat

VARIABLES seen,    \* the last tick's inputs
          host,    \* what the nodes keep
          sweep,   \* the flattening buffers: prev, per seat, and the block
          out,     \* per node, what the tick published
          fires,   \* per node, what its observers were told, or Untold
          told,    \* history: per node, the last value they were told
          bare,    \* the same graph, never observed
          ticks

observeVars == <<seen, host, sweep, out, fires, told, bare, ticks>>

Nodes == <<"pure", "peak", "total", "scan">>
Kinds == {"pure", "peak", "total", "scan"}
IsLevel(n) == n \in {"pure", "peak"}
Algebraic(n) == n \in {"pure", "scan"}

Nothing == 0
Values == 1
Jac == 2
Block == 3

\* Observer for (A, B).
Wanted(watch, n) == Max({watch[1][n], watch[2][n]})

Untold == [ran |-> FALSE, fires |-> 0, vals |-> Nan, jac |-> <<>>, block |-> <<>>]

-----------------------------------------------------------------------------
(* The nodes.                                                              *)

Newest(run) == IF run = <<>> THEN Nan ELSE Last(run)

\* DepFlat::flat: each dep at its last element.
Flattened(n, in) == IF n = "pure" THEN <<in.x, Newest(in.past \o in.batch)>>
                    ELSE <<Newest(in.batch)>>

\* Scans::read of element i: it and the one before, or nothing.
Reading(in, i) ==
    LET all == in.past \o in.batch
        at == Len(in.past) + i
    IN  IF at > 1 THEN <<all[at], all[at - 1]>> ELSE <<>>

\* env_of, and the reading pre takes of the element the out flattens to.
EnvOf(n, in) ==
    IF n = "pure" THEN IF \A k \in 1..2 : IsNumber(Flattened(n, in)[k])
                       THEN Flattened(n, in) ELSE <<>>
    ELSE IF in.batch = <<>> THEN <<>> ELSE Reading(in, Len(in.batch))

BodyAt(env) == IF env = <<>> THEN Nan ELSE Eval(body, env)

Higher(p, q) == IF IsNumber(p) /\ ~Less(p, q) THEN p ELSE q

\* Kernel::advance.
Advance(n, h, in) ==
    LET b == in.batch
        sums == [i \in DOMAIN b |-> FoldLeft(Plus, h.total, SubSeq(b, 1, i))]
        peak == IF b = <<>> THEN h.peak ELSE Higher(h.peak, Last(b))
    IN  CASE n = "pure" -> [host |-> h, out |-> <<BodyAt(EnvOf(n, in))>>]
          [] n = "peak" -> [host |-> [h EXCEPT !.peak = peak], out |-> <<peak>>]
          [] n = "total" -> [host |-> [h EXCEPT !.total = FoldLeft(Plus, @, b)], out |-> sums]
          [] n = "scan" -> [host |-> h,
                            out |-> [i \in DOMAIN b |-> BodyAt(Reading(in, i))]]

-----------------------------------------------------------------------------
(* The readings.                                                           *)

\* Nudge::stage: a dep's last element bumped, or the lag-th behind it.
Bumped(n, in, slot, lag) ==
    IF n = "pure" /\ slot = 1 THEN [in EXCEPT !.x = Plus(@, One)]
    ELSE LET k == Len(in.batch) - lag
         IN  IF k > 0 THEN [in EXCEPT !.batch[k] = Plus(@, One)]
             ELSE [in EXCEPT !.past[Len(in.past) + k] = Plus(@, One)]

\* fd_cols: a column where the dep and the bumped out stand, by the step taken.
Column(n, h, in, slot, value) ==
    IF ~IsNumber(Flattened(n, in)[slot]) THEN Nan
    ELSE Plus(Newest(Advance(n, h, Bumped(n, in, slot, 0)).out), Minus(value))

Gradient(env) == [i \in 1..2 |-> Grad(body, env, One, i)]

\* Kernel::pre: taken before the advance - the gradient, or the clone.
Pre(n, h, in) == IF ~Algebraic(n) THEN h
                 ELSE IF EnvOf(n, in) = <<>> THEN <<>> ELSE Gradient(EnvOf(n, in))

\* Kernel::jac: a row as wide as the deps.
JacOf(n, pre, in, value) ==
    LET width == Len(Flattened(n, in))
    IN  IF ~Algebraic(n) THEN [slot \in 1..width |-> Column(n, pre, in, slot, value)]
        ELSE IF pre = <<>> THEN [slot \in 1..width |-> Nan]
        ELSE SubSeq(pre, 1, width)

\* Kernel::exact: per dep, its lags, oldest first; <<>> where it cannot answer.
BlockOf(n, pre) ==
    IF ~Algebraic(n) \/ pre = <<>> THEN <<>> ELSE IF n = "pure" THEN <<<<pre[1]>>, <<pre[2]>>>>
    ELSE <<Reverse(pre)>>

\* Bug: a seat is claimed where somebody reads it.
SeatsOfTheWatched(s, n, want) ==
    IF IsLevel(n) /\ want > Nothing THEN [s EXCEPT !.at = @ + 1] ELSE s

\* Sweep::seat: claimed by every level, whatever its observers want.
Seated(s, n, want) == IF IsLevel(n) THEN [s EXCEPT !.at = @ + 1] ELSE s

Fires(n, run) == IF IsLevel(n) THEN IF IsNumber(Newest(run)) THEN 1 ELSE 0 ELSE Len(run)

\* Flats::of and Fire::of: a level that stands where it stood publishes nothing.
Told(s, n, in, want, pre, run) ==
    LET value == Newest(run)
        unchanged == IsLevel(n) /\ IsNumber(value) /\ s.prev[s.at] = value
        fired == IsNumber(value) /\ ~unchanged
        jac == IF fired /\ want >= Jac THEN JacOf(n, pre, in, value) ELSE <<>>
        block == IF fired /\ want = Block THEN BlockOf(n, pre) ELSE <<>>
    IN  [s EXCEPT !.prev[s.at] = IF IsLevel(n) /\ fired THEN value ELSE @,
                  !.block = IF block = <<>> THEN @ ELSE block,
                  !.fires[n] = [ran |-> TRUE,
                                fires |-> IF unchanged THEN 0 ELSE Fires(n, run),
                                vals |-> IF fired THEN value ELSE Nan,
                                jac |-> jac,
                                block |-> block]]

\* Bug: the derivative is of the state the value left behind.
ReadAfter(n, h, in) == Pre(n, Advance(n, h, in).host, in)

\* What the derivative is read against: the state the value is computed from.
ReadBefore(n, h, in) == Pre(n, h, in)

\* Bug: the witness re-advances the node itself.
AdvanceOnTheHost(n, h, in, want) ==
    IF want >= Jac /\ ~Algebraic(n) THEN Advance(n, Advance(n, h, in).host, in)
    ELSE Advance(n, h, in)

\* The run's own step, whatever is read of it.
Run(n, h, in, want) == Advance(n, h, in)

\* The out lands; then whoever watches is told of it.
Published(s, n, in, want, pre, a) ==
    LET stepped == [s EXCEPT !.host = a.host, !.out[n] = a.out]
    IN  IF want = Nothing THEN stepped ELSE Told(stepped, n, in, want, pre, a.out)

\* A node past its gate: what it reads against, then the advance.
Ran(s, n, in, want) ==
    Published(s, n, in, want, ReadBefore(n, s.host, in), Run(n, s.host, in, want))

\* step_seen.
StepSeen(s, n, in, want) ==
    IF n = "peak" /\ ~in.open THEN [Seated(s, n, want) EXCEPT !.out[n] = <<>>]
    ELSE Ran(Seated(s, n, want), n, in, want)

Start(h, prev, block) ==
    [host |-> h, at |-> 0, prev |-> prev, block |-> block,
     out |-> [n \in Kinds |-> <<>>], fires |-> [n \in Kinds |-> Untold]]

Swept(s, in, watch) ==
    FoldLeft(LAMBDA t, n : StepSeen(t, n, in, Wanted(watch, n)), s, Nodes)

-----------------------------------------------------------------------------

Cold == [peak |-> Nan, total |-> Zero]
Unwatched == [n \in Kinds |-> Nothing]

ObserveInit ==
    /\ Init
    /\ seen = [x |-> Nan, past |-> <<>>, batch |-> <<>>, open |-> TRUE]
    /\ host = Cold /\ bare = [host |-> Cold, out |-> [n \in Kinds |-> <<>>]]
    /\ sweep = [prev |-> <<Nan, Nan>>, block |-> <<>>]
    /\ out = [n \in Kinds |-> <<>>]
    /\ fires = [n \in Kinds |-> Untold]
    /\ told = [n \in Kinds |-> Nan]
    /\ ticks = 0

\* What the graph holds and published, observed and not.
Ticked(s, b) ==
    /\ host' = s.host /\ out' = s.out
    /\ sweep' = [prev |-> s.prev, block |-> s.block]
    /\ fires' = s.fires
    /\ told' = [n \in Kinds |-> IF IsNumber(s.fires[n].vals) THEN s.fires[n].vals ELSE told[n]]
    /\ bare' = [host |-> b.host, out |-> b.out]

\* One tick, watched by two observers.
TickOf(in, watch) ==
    /\ seen' = in
    /\ Ticked(Swept(Start(host, sweep.prev, sweep.block), in, watch),
              Swept(Start(bare.host, <<Nan, Nan>>, <<>>), in, <<Unwatched, Unwatched>>))

Retained == LET all == seen.past \o seen.batch
            IN  IF all = <<>> THEN all ELSE <<Last(all)>>

\* A tick carries one lane: x moves, or src has a batch.
Inputs ==
    {[x |-> Int64(v), past |-> Retained, batch |-> <<>>, open |-> open] :
        v \in Levels, open \in BOOLEAN}
    \cup {[x |-> seen.x, past |-> Retained, batch |-> [i \in DOMAIN b |-> Int64(b[i])],
           open |-> open] : b \in Batches, open \in BOOLEAN}

Tick ==
    /\ body \in Observed /\ ticks < MaxTicks
    /\ \E in \in Inputs, watch \in Watches : TickOf(in, watch)
    /\ ticks' = ticks + 1
    /\ UNCHANGED vars

ObserveNext ==
    \/ Write /\ ticks = 0 /\ UNCHANGED observeVars
    \/ Tick

ObserveSpec == ObserveInit /\ [][ObserveNext]_<<vars, observeVars>>

-----------------------------------------------------------------------------
(* Properties.                                                             *)

\* r[observe.noninvasive]: whoever watched whatever so far, every node holds and
\* publishes what it would with nobody watching.
ObservedAsBare == host = bare.host /\ out = bare.out

Watched(n) == fires[n].ran

\* A watched level that stands is told exactly where it is not what its
\* observers were last told, though the buffer it is measured against is found by
\* counting the levels swept before it, watched or not.
ToldWhereItMoved ==
    [][ \A n \in {"pure", "peak"} : Watched(n)' /\ ticks' # ticks =>
          (fires[n].fires = 1)' <=>
              (IsNumber(Newest(out'[n])) /\ Newest(out'[n]) # told[n]) ]_<<vars, observeVars>>

\* How far a node's value moves where one element of what it read had been one
\* more, the state it started the tick in held fixed.
OneStep(n, h, in, slot, lag) ==
    Plus(Newest(Advance(n, h, Bumped(n, in, slot, lag)).out),
         Minus(Newest(Advance(n, h, in).out)))

\* A derivative is one number however it was come by: differentiated or
\* differenced, an entry of a Jacobian is one step of the dep's newest element from
\* the state before the tick, and none of a dep that carried nothing; and an exact
\* block is that step at every lag this node read on this tick, the newest last.
JacobianIsOneStep(n) ==
    \A slot \in DOMAIN fires'[n].jac :
        fires'[n].jac[slot] = IF IsNumber(Flattened(n, seen')[slot])
                              THEN OneStep(n, host, seen', slot, 0) ELSE Nan

BlockCoversTheReach(n) ==
    \A slot \in DOMAIN fires'[n].block :
        LET lags == fires'[n].block[slot]
        IN  /\ Len(lags) = (IF n = "scan" THEN 2 ELSE 1)
            /\ \A k \in DOMAIN lags :
                 lags[k] = OneStep(n, host, seen', slot, Len(lags) - k)

DerivativesAreOneStep ==
    [][ \A n \in Kinds : JacobianIsOneStep(n) /\ BlockCoversTheReach(n) ]_<<vars, observeVars>>
=============================================================================
