--------------------------- MODULE StrategyProofs ---------------------------
(***************************************************************************)
(* The episode, for any prices, envelopes and situations: it is its        *)
(* latch's, its trail only tightens, and it is taken on evidence that      *)
(* agrees.                                                                 *)
(***************************************************************************)
EXTENDS Strategy, TLAPS

\* What one element of the book's run does, its top not read while a side is
\* missing.
Read(level, acc, d) == IF d.mid = 0 THEN acc ELSE Manage(acc, d, level)

Reading == INSTANCE FoldTheorems WITH Op <- Read
Checking == INSTANCE FoldTheorems WITH Op <- LAMBDA env, acc, i : CheckIntent(acc, i)
Summing == INSTANCE FoldTheorems WITH Op <- LAMBDA f, sum, k : sum + f[k]

-----------------------------------------------------------------------------
(* What is kept.                                                           *)

IsAction(a) ==
    /\ a = [side |-> a.side, sure |-> a.sure, entry |-> a.entry, extreme |-> a.extreme,
            certainty |-> a.certainty, deadline |-> a.deadline]
    /\ a.entry \in Nat
    /\ a.extreme = None \/ \E m \in Int : a.extreme = <<m>>
    /\ a.certainty \in Int

IsWalk(w) ==
    /\ w = [state |-> w.state, decision |-> w.decision, published |-> w.published]
    /\ w.state = None \/ \E a : w.state = <<a>> /\ IsAction(a)

IsBook(b) == b = None \/ \E ts, mid \in Nat : b = <<[ts |-> ts, mid |-> mid]>>

Kept == IsWalk(walk) /\ IsBook(book)

\* Nothing of an episode outlives its latch; with Kept, inductive.
EpisodeInv == Kept /\ EpisodeIsTheLatchs

\* What the trail may do to an episode that goes on: TrailTightens, of a step.
Tightens(s, t) ==
    s # None /\ t # None =>
        LET a == s[1]
            b == t[1]
        IN  /\ b.entry = a.entry /\ b.side = a.side
            /\ a.extreme # None =>
                  /\ b.extreme # None /\ Better(a.side, b.extreme[1], a.extreme[1]) = b.extreme[1]
                  /\ Retraced(a) => TrailStop(b) = None
            /\ a.deadline # None => b.deadline = a.deadline

-----------------------------------------------------------------------------
\* Max, which is a CHOOSE, is whatever member bounds the set.
LEMMA MaxIs ==
    ASSUME NEW S, S \subseteq Int, NEW m \in S, \A y \in S : y <= m
    PROVE  Max(S) = m
  <1>1. Max(S) = Summing!Max(S)
    BY Zenon DEF Max, Summing!Max
  <1>2. Summing!Max(S) = m
    BY Summing!MaxIs
  <1>3. QED
    BY <1>1, <1>2

\* The greater of two.
LEMMA MaxOfTwo ==
    ASSUME NEW a \in Int, NEW b \in Int
    PROVE  Max({a, b}) = IF a >= b THEN a ELSE b
  <1>1. CASE a >= b
    BY <1>1, MaxIs
  <1>2. CASE ~ (a >= b)
    BY <1>2, MaxIs
  <1>3. QED
    BY <1>1, <1>2

\* The lesser of two.
LEMMA MinOfTwo ==
    ASSUME NEW a \in Int, NEW b \in Int
    PROVE  Min({a, b}) = IF a <= b THEN a ELSE b
  <1> DEFINE S == {a, b}
  <1>1. Min(S) = Summing!Min(S)
    BY Zenon DEF Min, Summing!Min
  <1>2. CASE a <= b
    <2>1. S \subseteq Int /\ a \in S /\ \A y \in S : a <= y
      BY <1>2
    <2>2. Summing!Min(S) = a
      BY <2>1, Summing!MinIs
    <2>3. QED
      BY <1>1, <1>2, <2>2
  <1>3. CASE ~ (a <= b)
    <2>1. S \subseteq Int /\ b \in S /\ \A y \in S : b <= y
      BY <1>3
    <2>2. Summing!Min(S) = b
      BY <2>1, Summing!MinIs
    <2>3. QED
      BY <1>1, <1>3, <2>2
  <1>4. QED
    BY <1>2, <1>3

-----------------------------------------------------------------------------
(* The trail.                                                              *)

\* A step of the trail keeps the entry, draws the stop no further away and gives
\* back no certainty.
LEMMA TrailStepKeeps ==
    ASSUME NEW a, IsAction(a), NEW mid \in Nat
    PROVE  LET b == TrailStep(a, mid)
           IN  /\ IsAction(b)
               /\ b.deadline = a.deadline
               /\ b.entry = a.entry /\ b.side = a.side
               /\ b.extreme # None
               /\ a.extreme # None => Better(a.side, b.extreme[1], a.extreme[1]) = b.extreme[1]
               /\ Retraced(a) => Retraced(b)
  <1> DEFINE extreme == IF a.extreme = None THEN mid ELSE Better(a.side, a.extreme[1], mid)
             drawn == Retrace(a.side, extreme, mid) * TrailDen
             certainty == Max({a.certainty, Min({drawn, a.entry})})
             b == TrailStep(a, mid)
  <1>0. TrailDen \in Nat
    BY StrategyConstants
  <1>1. a.entry \in Nat /\ a.certainty \in Int /\ mid \in Int
    BY DEF IsAction
  <1>2. extreme \in Int /\ (a.extreme # None =>
            a.extreme[1] \in Int /\ Better(a.side, extreme, a.extreme[1]) = extreme)
    <2>1. CASE a.extreme = None
      BY <1>1, <2>1
    <2>2. CASE a.extreme # None
      <3>1. PICK m \in Int : a.extreme = <<m>>
        BY <2>2 DEF IsAction
      <3>2. a.extreme[1] = m
        BY <3>1
      <3>3. Max({m, mid}) = IF m >= mid THEN m ELSE mid
        BY <1>1, MaxOfTwo
      <3>4. Min({m, mid}) = IF m <= mid THEN m ELSE mid
        BY <1>1, MinOfTwo
      <3>5. extreme = IF a.side = "Buy" THEN Max({m, mid}) ELSE Min({m, mid})
        BY <2>2, <3>2 DEF Better
      <3>6. extreme \in Int
        BY <1>1, <3>3, <3>4, <3>5
      <3> HIDE DEF extreme
      <3>7. /\ Max({extreme, m}) = IF extreme >= m THEN extreme ELSE m
            /\ Min({extreme, m}) = IF extreme <= m THEN extreme ELSE m
        BY <3>6, MaxOfTwo, MinOfTwo
      <3>8. Better(a.side, extreme, m) = extreme
        BY <1>1, <3>3, <3>4, <3>5, <3>6, <3>7 DEF Better
      <3>9. QED
        BY <3>2, <3>6, <3>8
    <2>3. QED
      BY <2>1, <2>2
  <1> HIDE DEF extreme
  <1>3. drawn \in Int
    BY <1>0, <1>1, <1>2 DEF Retrace
  <1> HIDE DEF drawn
  <1>4. certainty \in Int /\ (a.certainty = a.entry => certainty = a.entry)
    <2>1. Min({drawn, a.entry}) = IF drawn <= a.entry THEN drawn ELSE a.entry
      BY <1>1, <1>3, MinOfTwo
    <2>2. Min({drawn, a.entry}) \in Int /\ Min({drawn, a.entry}) <= a.entry
      BY <1>1, <1>3, <2>1
    <2> DEFINE floor == Min({drawn, a.entry})
    <2> HIDE DEF floor
    <2>3. floor \in Int /\ floor <= a.entry
      BY <2>2 DEF floor
    <2>4. Max({a.certainty, floor}) = IF a.certainty >= floor THEN a.certainty ELSE floor
      BY <1>1, <2>3, MaxOfTwo
    <2>5. certainty = Max({a.certainty, floor})
      BY DEF floor
    <2>6. QED
      BY <1>1, <2>3, <2>4, <2>5
  <1>5. b = [a EXCEPT !.extreme = <<extreme>>, !.certainty = certainty]
    BY Zenon DEF TrailStep, extreme, drawn
  <1> HIDE DEF certainty
  <1>6. b = [side |-> a.side, sure |-> a.sure, entry |-> a.entry, extreme |-> <<extreme>>,
             certainty |-> certainty, deadline |-> a.deadline]
    BY <1>5 DEF IsAction
  <1> HIDE DEF b
  <1>7. IsAction(b)
    BY <1>1, <1>2, <1>4, <1>6 DEF IsAction
  <1>8. /\ b.deadline = a.deadline /\ b.entry = a.entry /\ b.side = a.side
        /\ b.extreme = <<extreme>> /\ b.certainty = certainty
    BY <1>6
  <1>9. b.extreme # None /\ b.extreme[1] = extreme
    BY <1>8 DEF None
  <1>10. Retraced(a) => Retraced(b)
    BY <1>4, <1>8 DEF Retraced
  <1>11. QED
    BY <1>2, <1>7, <1>8, <1>9, <1>10 DEF b

\* Draining sets a deadline where there is none, and nothing else.
LEMMA DrainFromKeeps ==
    ASSUME NEW a, IsAction(a), NEW inside, NEW d
    PROVE  LET b == DrainFrom(a, inside, d)
           IN  /\ IsAction(b)
               /\ a.deadline # None => b.deadline = a.deadline
               /\ b.entry = a.entry /\ b.side = a.side
               /\ b.extreme = a.extreme /\ b.certainty = a.certainty
  <1> DEFINE b == DrainFrom(a, inside, d)
  <1>1. CASE NothingLeft(a, inside) /\ a.deadline = None
    <2>1. b = [side |-> a.side, sure |-> a.sure, entry |-> a.entry, extreme |-> a.extreme,
               certainty |-> a.certainty, deadline |-> <<d.ts + Grace>>]
      BY <1>1 DEF DrainFrom, IsAction
    <2> HIDE DEF b
    <2>2. QED
      BY <1>1, <2>1 DEF IsAction, b
  <1>2. CASE ~ (NothingLeft(a, inside) /\ a.deadline = None)
    <2>1. b = a
      BY <1>2 DEF DrainFrom
    <2>2. QED
      BY <2>1
  <1>3. QED
    BY <1>1, <1>2

-----------------------------------------------------------------------------
(* One element of the book's run.                                          *)

\* Where an element leaves what is kept and what is said.
IsReading(acc) ==
    /\ acc = [walk |-> acc.walk, out |-> acc.out, stated |-> acc.stated]
    /\ IsWalk(acc.walk)

\* An episode left alone has not loosened.
LEMMA TightensItself ==
    ASSUME NEW w, IsWalk(w)
    PROVE  Tightens(w.state, w.state)
  <1> SUFFICES ASSUME w.state # None
               PROVE  Tightens(w.state, w.state)
    BY DEF Tightens
  <1>1. PICK a : w.state = <<a>> /\ IsAction(a)
    BY DEF IsWalk
  <1>2. w.state[1] = a
    BY <1>1
  <1>3. a.extreme # None => Better(a.side, a.extreme[1], a.extreme[1]) = a.extreme[1]
    <2> SUFFICES ASSUME a.extreme # None
                 PROVE  Better(a.side, a.extreme[1], a.extreme[1]) = a.extreme[1]
      OBVIOUS
    <2>1. PICK m \in Int : a.extreme = <<m>>
      BY <1>1 DEF IsAction
    <2>2. a.extreme[1] = m
      BY <2>1
    <2>3. Max({m, m}) = m /\ Min({m, m}) = m
      BY MaxOfTwo, MinOfTwo
    <2>4. QED
      BY <2>2, <2>3 DEF Better
  <1>4. Retraced(a) => TrailStop(a) = None
    BY DEF TrailStop
  <1>5. QED
    BY <1>2, <1>3, <1>4 DEF Tightens

\* Whom the element finds: whoever is in, or whoever the decision sends in.
LEMMA WhoIsIn ==
    ASSUME NEW w, IsWalk(w), NEW d, d.mid \in Nat
    PROVE  LET state == IF w.state = None /\ w.decision # None
                        THEN <<Enter(w.decision[1], d)>> ELSE w.state
           IN  /\ state = None \/ \E a : state = <<a>> /\ IsAction(a)
               /\ w.state # None => state = w.state
  <1> DEFINE e == Enter(w.decision[1], d)
  <1>1. IsAction(e)
    BY DEF Enter, IsAction, None
  <1>2. QED
    BY <1>1 DEF IsWalk

\* A walk that is given a state and an intent.
LEMMA WalkWith ==
    ASSUME NEW w, w = [state |-> w.state, decision |-> w.decision, published |-> w.published],
           NEW s, NEW i
    PROVE  [w EXCEPT !.state = s, !.published = i]
             = [state |-> s, decision |-> w.decision, published |-> i]
  <1> DEFINE v == [state |-> s, decision |-> w.decision, published |-> w.published]
  <1>1. [w EXCEPT !.state = s, !.published = i] = [[w EXCEPT !.state = s] EXCEPT !.published = i]
    OBVIOUS
  <1>2. [w EXCEPT !.state = s] = v
    OBVIOUS
  <1>3. [v EXCEPT !.published = i] = [state |-> s, decision |-> w.decision, published |-> i]
    OBVIOUS
  <1>4. QED
    BY <1>1, <1>3, Zenon

\* The deprecator's management of an open episode: well formed, tightening, and
\* without a state behind a terminal intent.
LEMMA ManageKeeps ==
    ASSUME NEW acc, IsReading(acc), acc.out = <<>>, NEW d, d.mid \in Nat, NEW level
    PROVE  LET r == Manage(acc, d, level)
           IN  /\ IsReading(r)
               /\ \/ r.out = <<>>
                  \/ \E i : r.out = <<i>> /\ (i.terminal => r.walk.state = None)
               /\ Tightens(acc.walk.state, r.walk.state)
  <1> DEFINE w == acc.walk
             state == IF w.state = None /\ w.decision # None
                      THEN <<Enter(w.decision[1], d)>> ELSE w.state
             at == [acc EXCEPT !.walk.state = state]
             r == Manage(acc, d, level)
  <1>1. IsWalk(w)
    BY DEF IsReading
  <1>2. /\ state = None \/ \E a : state = <<a>> /\ IsAction(a)
        /\ w.state # None => state = w.state
    BY <1>1, WhoIsIn, Zenon
  <1>3. r = IF state = None \/ level = None THEN at
        ELSE LET trailed == TrailStep(state[1], d.mid)
                 inside == Inside(trailed, level[1], d.mid)
                 a == DrainFrom(trailed, inside, d)
                 intent == IntentOf(a, level[1], d, inside)
                 moved == acc.walk.published = None \/ ~SameValue(acc.walk.published[1], intent)
             IN  [walk |-> [acc.walk EXCEPT !.state = IF intent.terminal THEN None ELSE <<a>>,
                                            !.published = IF moved THEN <<intent>> ELSE @],
                  out |-> IF moved THEN Append(acc.out, intent) ELSE acc.out,
                  stated |-> <<intent>>]
    BY Zenon DEF Manage
  <1> HIDE DEF state, r
  <1>4. CASE state = None \/ level = None
    <2>1. r = at
      BY <1>3, <1>4
    <2>2. at = [walk |-> [state |-> state, decision |-> w.decision, published |-> w.published],
                out |-> <<>>, stated |-> acc.stated]
      BY DEF IsReading, IsWalk
    <2> HIDE DEF at, w
    <2>3. /\ r.walk.state = state /\ r.out = <<>>
          /\ r.walk = [state |-> state, decision |-> w.decision, published |-> w.published]
          /\ r = [walk |-> r.walk, out |-> r.out, stated |-> r.stated]
      BY <2>1, <2>2
    <2>4. IsReading(r)
      BY <1>2, <2>3 DEF IsReading, IsWalk
    <2>5. Tightens(w.state, state)
      <3>1. CASE w.state = None
        BY <3>1 DEF Tightens
      <3>2. CASE w.state # None
        BY <1>1, <1>2, <3>2, TightensItself
      <3>3. QED
        BY <3>1, <3>2
    <2>6. QED
      BY <2>3, <2>4, <2>5 DEF r, w
  <1>5. CASE ~ (state = None \/ level = None)
    <2>1. PICK s : state = <<s>> /\ IsAction(s)
      BY <1>2, <1>5
    <2>2. state[1] = s
      BY <2>1
    <2> DEFINE trailed == TrailStep(s, d.mid)
               inside == Inside(trailed, level[1], d.mid)
               a == DrainFrom(trailed, inside, d)
               intent == IntentOf(a, level[1], d, inside)
               moved == w.published = None \/ ~SameValue(w.published[1], intent)
               next == IF intent.terminal THEN None ELSE <<a>>
               published == IF moved THEN <<intent>> ELSE w.published
    <2>3. r = [walk |-> [w EXCEPT !.state = next, !.published = published],
               out |-> IF moved THEN Append(acc.out, intent) ELSE acc.out,
               stated |-> <<intent>>]
      BY <1>3, <1>5, <2>2 DEF IsReading, IsWalk
    <2>4. /\ IsAction(trailed)
          /\ trailed.deadline = s.deadline
          /\ trailed.entry = s.entry /\ trailed.side = s.side
          /\ trailed.extreme # None
          /\ s.extreme # None =>
                Better(s.side, trailed.extreme[1], s.extreme[1]) = trailed.extreme[1]
          /\ Retraced(s) => Retraced(trailed)
      BY <2>1, TrailStepKeeps
    <2> HIDE DEF trailed
    <2>5. /\ IsAction(a)
          /\ trailed.deadline # None => a.deadline = trailed.deadline
          /\ a.entry = trailed.entry /\ a.side = trailed.side
          /\ a.extreme = trailed.extreme /\ a.certainty = trailed.certainty
      BY <2>4, DrainFromKeeps
    <2> HIDE DEF inside, a, intent
    <2>6. Retraced(s) => TrailStop(a) = None
      <3>1. Retraced(trailed) => Retraced(a)
        BY <2>5 DEF Retraced
      <3>2. QED
        BY <2>4, <3>1 DEF TrailStop
    <2>7. Tightens(w.state, next)
      <3> SUFFICES ASSUME w.state # None, next # None
                   PROVE  Tightens(w.state, next)
        BY DEF Tightens
      <3>1. w.state = <<s>> /\ next = <<a>>
        BY <1>2, <2>1
      <3>2. w.state[1] = s /\ next[1] = a
        BY <3>1
      <3> HIDE DEF next
      <3>3. QED
        BY <2>4, <2>5, <2>6, <3>2 DEF Tightens
    <2>8. next = None \/ \E b : next = <<b>> /\ IsAction(b)
      BY <2>5
    <2>9. intent.terminal => next = None
      OBVIOUS
    <2>10. Append(acc.out, intent) = <<intent>>
      OBVIOUS
    <2> HIDE DEF next, published, moved, w
    <2>11. [w EXCEPT !.state = next, !.published = published]
             = [state |-> next, decision |-> w.decision, published |-> published]
      BY <1>1, WalkWith DEF IsWalk
    <2>12. /\ r.walk = [state |-> next, decision |-> w.decision, published |-> published]
           /\ r.out = <<>> \/ r.out = <<intent>>
           /\ r = [walk |-> r.walk, out |-> r.out, stated |-> r.stated]
      BY <2>3, <2>10, <2>11
    <2>13. r.walk.state = next
      BY <2>12
    <2>14. IsReading(r)
      BY <2>8, <2>12 DEF IsReading, IsWalk
    <2>15. QED
      BY <2>7, <2>9, <2>12, <2>13, <2>14 DEF r, w
  <1>6. QED
    BY <1>4, <1>5

-----------------------------------------------------------------------------
(* A tick.                                                                 *)

\* The deprecator over what it is shown: nothing, or the book as of one row.
LEMMA DeprecateKeeps ==
    ASSUME NEW w, IsWalk(w), NEW decided, NEW level,
           NEW top, top = <<>> \/ \E d : top = <<d>> /\ d.mid \in Nat
    PROVE  LET r == Deprecate(w, decided, level, top)
           IN  /\ IsReading(r)
               /\ r.out = <<>> \/ \E i : r.out = <<i>> /\ (i.terminal => r.walk.state = None)
               /\ Tightens(w.state, r.walk.state)
  <1> DEFINE heard == IF decided # None /\ decided[1].direction # "Flat"
                      THEN [w EXCEPT !.decision = decided] ELSE w
             acc == [walk |-> heard, out |-> <<>>, stated |-> None]
             r == Deprecate(w, decided, level, top)
  <1>1. IsWalk(heard) /\ heard.state = w.state
    <2>1. [w EXCEPT !.decision = decided]
            = [state |-> w.state, decision |-> decided, published |-> w.published]
      BY DEF IsWalk
    <2> HIDE DEF heard
    <2>2. \/ heard = w
          \/ heard = [state |-> w.state, decision |-> decided, published |-> w.published]
      BY <2>1 DEF heard
    <2>3. QED
      BY <2>2 DEF IsWalk
  <1> HIDE DEF heard
  <1>2. IsReading(acc) /\ acc.out = <<>> /\ acc.walk = heard
    BY <1>1 DEF IsReading
  <1>3. r = Reading!Fold(level, acc, top)
    BY Zenon DEF Deprecate, Reading!Fold, FoldLeft, MapThenFoldSet, Reading!FoldLeft,
                 Reading!MapThenFoldSet, Max, Reading!Max, Read, heard
  <1>4. Tightens(w.state, heard.state)
    BY <1>1, TightensItself
  <1> HIDE DEF acc, r
  <1>5. CASE top = <<>>
    <2>1. r = acc
      BY <1>3, <1>5, Reading!FoldEmpty
    <2>2. QED
      BY <1>2, <1>4, <2>1 DEF r
  <1>6. CASE top # <<>>
    <2>1. PICK d : top = <<d>> /\ d.mid \in Nat
      BY <1>6
    <2>2. r = Read(level, acc, d)
      BY <1>3, <2>1, Reading!FoldSingle
    <2>3. CASE d.mid = 0
      <3>1. r = acc
        BY <2>2, <2>3 DEF Read
      <3>2. QED
        BY <1>2, <1>4, <3>1 DEF r
    <2>4. CASE d.mid # 0
      <3>1. r = Manage(acc, d, level)
        BY <2>2, <2>4 DEF Read
      <3>2. /\ IsReading(r)
            /\ r.out = <<>> \/ \E i : r.out = <<i>> /\ (i.terminal => r.walk.state = None)
            /\ Tightens(acc.walk.state, r.walk.state)
        BY <1>2, <2>1, <3>1, ManageKeeps
      <3>3. acc.walk.state = w.state
        BY <1>1, <1>2
      <3>4. QED
        BY <3>2, <3>3 DEF r
    <2>5. QED
      BY <2>3, <2>4
  <1>7. QED
    BY <1>5, <1>6

\* The driver's day after what a tick said.
LEMMA DayAfter ==
    ASSUME NEW dy
    PROVE  /\ FoldLeft(CheckIntent, dy, <<>>) = dy
           /\ \A i : FoldLeft(CheckIntent, dy, <<i>>) = CheckIntent(dy, i)
  <1>1. \A s : FoldLeft(CheckIntent, dy, s) = Checking!Fold(None, dy, s)
    BY Zenon DEF Checking!Fold, FoldLeft, MapThenFoldSet, Checking!FoldLeft,
                 Checking!MapThenFoldSet, Max, Checking!Max
  <1>2. FoldLeft(CheckIntent, dy, <<>>) = dy
    BY <1>1, Checking!FoldEmpty
  <1>3. ASSUME NEW i
        PROVE  FoldLeft(CheckIntent, dy, <<i>>) = CheckIntent(dy, i)
    BY <1>1, Checking!FoldSingle
  <1>4. QED
    BY <1>2, <1>3

\* A sweep of the six nodes with the driver's checks keeps the invariant.
LEMMA SweepKeeps ==
    ASSUME EpisodeInv, IsBook(book'), NEW hit, NEW situation, Sweep(hit, situation)
    PROVE  EpisodeInv' /\ Tightens(walk.state, walk.state')
  <1> DEFINE standing == armed /\ ~spent
             decided == IF hit THEN <<Decision[situation]>> ELSE None
             arms == decided # None /\ decided[1].direction # "Flat"
             top == TopOf(hit, standing)
             ran == IF standing \/ arms
                    THEN Deprecate(Commutate, decided, atr', top)
                    ELSE [walk |-> Commutate, out |-> <<>>, stated |-> None]
  <1>1. /\ armed' = (standing \/ arms)
        /\ walk' = ran.walk
        /\ spent' = \E k \in DOMAIN ran.out : ran.out[k].terminal
        /\ day' = FoldLeft(CheckIntent, day, ran.out)
    BY Zenon DEF Sweep
  <1>2. IsWalk(Commutate) /\ Tightens(walk.state, Commutate.state)
        /\ (~standing => Commutate = Cold /\ day.open = None)
        /\ (Commutate.state # None => standing)
    <2>1. CASE spent
      <3>1. Commutate = Cold /\ walk.state = None /\ day.open = None
        BY <2>1 DEF Commutate, EpisodeInv, EpisodeIsTheLatchs
      <3>2. IsWalk(Cold) /\ Cold.state = None
        BY DEF Cold, IsWalk
      <3>3. QED
        BY <3>1, <3>2 DEF Tightens
    <2>2. CASE ~ spent
      <3>1. Commutate = walk /\ IsWalk(walk)
        BY <2>2 DEF Commutate, EpisodeInv, Kept
      <3>2. (~ armed => walk = Cold /\ day.open = None) /\ (walk.state # None => armed)
        BY DEF EpisodeInv, EpisodeIsTheLatchs
      <3>3. QED
        BY <2>2, <3>1, <3>2, TightensItself
    <2>3. QED
      BY <2>1, <2>2
  <1>3. top = <<>> \/ \E d : top = <<d>> /\ d.mid \in Nat
    <2>1. book' = None \/ \E d : book' = <<d>> /\ d.mid \in Nat
      BY DEF IsBook
    <2>2. top = <<>> \/ (book' # None /\ top = book')
      BY DEF TopOf
    <2>3. QED
      BY <2>1, <2>2
  <1> HIDE DEF standing, decided, arms, top
  <1>4. /\ IsReading(ran)
        /\ ran.out = <<>> \/ \E i : ran.out = <<i>> /\ (i.terminal => ran.walk.state = None)
        /\ Tightens(Commutate.state, ran.walk.state)
        /\ ~ (standing \/ arms) => ran.walk = Commutate /\ ran.out = <<>>
    <2>1. CASE standing \/ arms
      <3>1. ran = Deprecate(Commutate, decided, atr', top)
        BY <2>1
      <3> HIDE DEF ran
      <3>2. QED
        BY <1>2, <1>3, <2>1, <3>1, DeprecateKeeps
    <2>2. CASE ~ (standing \/ arms)
      <3>1. ran = [walk |-> Commutate, out |-> <<>>, stated |-> None]
        BY <2>2
      <3> HIDE DEF ran
      <3>2. ran.walk = Commutate /\ ran.out = <<>>
            /\ ran = [walk |-> ran.walk, out |-> ran.out, stated |-> ran.stated]
        BY <3>1
      <3>3. QED
        BY <1>2, <2>2, <3>2, TightensItself DEF IsReading
    <2>3. QED
      BY <2>1, <2>2
  <1> HIDE DEF ran
  <1>5. Kept'
    BY <1>1, <1>4 DEF Kept, IsReading
  <1>6. Tightens(walk.state, walk.state')
    <2>1. CASE spent
      BY <2>1 DEF EpisodeInv, EpisodeIsTheLatchs, Tightens
    <2>2. CASE ~ spent
      BY <1>1, <1>4, <2>2 DEF Commutate
    <2>3. QED
      BY <2>1, <2>2
  <1>7. walk'.state # None => armed'
    <2>1. CASE standing \/ arms
      BY <1>1, <2>1
    <2>2. CASE ~ (standing \/ arms)
      BY <1>1, <1>2, <1>4, <2>2
    <2>3. QED
      BY <2>1, <2>2
  <1>8. ~armed' => walk' = Cold /\ day'.open = None
    <2> SUFFICES ASSUME ~ armed'
                 PROVE  walk' = Cold /\ day'.open = None
      OBVIOUS
    <2>1. ~ standing /\ ~ arms
      BY <1>1
    <2>2. ran.walk = Cold /\ ran.out = <<>> /\ day.open = None
      BY <1>2, <1>4, <2>1
    <2>3. day' = day
      BY <1>1, <2>2, DayAfter
    <2>4. QED
      BY <1>1, <2>2, <2>3
  <1>9. spent' => walk'.state = None /\ day'.open = None
    <2> SUFFICES ASSUME spent'
                 PROVE  walk'.state = None /\ day'.open = None
      OBVIOUS
    <2>1. PICK k \in DOMAIN ran.out : ran.out[k].terminal
      BY <1>1
    <2>2. ran.out # <<>>
      BY <2>1
    <2>3. PICK i : ran.out = <<i>> /\ (i.terminal => ran.walk.state = None)
      BY <1>4, <2>2
    <2>4. ran.out[k] = i
      BY <2>1, <2>3
    <2>5. day' = CheckIntent(day, i)
      BY <1>1, <2>3, DayAfter
    <2>6. CheckIntent(day, i).open = None
      BY <2>1, <2>4 DEF CheckIntent
    <2>7. QED
      BY <1>1, <2>1, <2>3, <2>4, <2>5, <2>6
  <1>10. QED
    BY <1>5, <1>6, <1>7, <1>8, <1>9 DEF EpisodeInv, EpisodeIsTheLatchs

\* Every tick keeps it, and loosens no trail.
LEMMA EpisodeStep ==
    ASSUME EpisodeInv, [Next]_vars
    PROVE  EpisodeInv' /\ (Tightens(walk.state, walk.state') \/ UNCHANGED vars)
  <1>1. IsBook(book)
    BY DEF EpisodeInv, Kept
  <1>2. CASE UNCHANGED vars
    BY <1>2 DEF vars, EpisodeInv, Kept, EpisodeIsTheLatchs
  <1>3. CASE TradesCloseBar
    BY <1>1, <1>3, SweepKeeps DEF TradesCloseBar
  <1>4. CASE Deltas
    <2>1. PICK ts \in book[1].ts..MaxTs, mid \in Mids \cup {0} :
            book' = <<[ts |-> ts, mid |-> mid]>>
      BY <1>4 DEF Deltas
    <2>2. book[1].ts \in Nat /\ MaxTs \in Nat /\ mid \in Nat
      BY <1>1, <1>4, StrategyConstants DEF Deltas, IsBook
    <2>3. ts \in Nat
      BY <2>2
    <2>4. IsBook(book')
      BY <2>1, <2>2, <2>3 DEF IsBook
    <2>5. QED
      BY <1>4, <2>4, SweepKeeps DEF Deltas
  <1>5. CASE Seed
    <2>1. PICK mid \in Mids \cup {0} : book' = <<[ts |-> 0, mid |-> mid]>>
      BY <1>5 DEF Seed
    <2>2. mid \in Nat
      BY StrategyConstants
    <2>3. IsBook(book')
      BY <2>1, <2>2 DEF IsBook
    <2>4. QED
      BY <1>5, <2>3, SweepKeeps DEF Seed
  <1>6. CASE Other
    BY <1>1, <1>6, SweepKeeps DEF Other
  <1>7. QED
    BY <1>2, <1>3, <1>4, <1>5, <1>6 DEF Next

\* Before the first tick there is no episode.
LEMMA EpisodeInit == Init => EpisodeInv
  BY DEF Init, EpisodeInv, Kept, IsWalk, IsBook, EpisodeIsTheLatchs, Cold, NewDay

\* What the deprecator keeps stays well formed, and nothing of an episode outlives
\* its latch.
THEOREM EpisodeInvariance == Spec => []EpisodeInv
  <1>1. QED
    BY EpisodeInit, EpisodeStep, PTL DEF Spec

\* An episode is its latch's: whatever the prices do and whenever the screener
\* hits, no state of one outlives the latch, and no check of the driver's stays
\* open over an episode that ended.
THEOREM EpisodesAreTheLatchs == Spec => []EpisodeIsTheLatchs
  <1>1. EpisodeInv => EpisodeIsTheLatchs
    BY DEF EpisodeInv
  <1>2. QED
    BY <1>1, EpisodeInvariance, PTL

\* Within an episode the trailing stop never loosens, keeps its entry and its
\* side, and once it has fired stays gone, for any prices and any envelope.
THEOREM TheTrailTightens == Spec => TrailTightens
  <1>1. EpisodeInv /\ [Next]_vars =>
          [ walk.state # None /\ walk'.state # None =>
              LET a == walk.state[1]
                  b == walk'.state[1]
              IN  /\ b.entry = a.entry /\ b.side = a.side
                  /\ a.extreme # None =>
                        /\ b.extreme # None
                        /\ Better(a.side, b.extreme[1], a.extreme[1]) = b.extreme[1]
                        /\ Retraced(a) => TrailStop(b) = None
                  /\ a.deadline # None => b.deadline = a.deadline ]_vars
    BY EpisodeStep DEF Tightens
  <1>2. QED
    BY <1>1, EpisodeInvariance, PTL DEF Spec, TrailTightens

-----------------------------------------------------------------------------
(* The evidence.                                                           *)

\* A sum, term by term.
LEMMA TotalIs ==
    ASSUME NEW f
    PROVE  Total(f, 0) = 0 /\ \A n \in Nat : Total(f, n + 1) = Total(f, n) + f[n + 1]
  <1>1. \A n : Total(f, n) = Summing!Fold(f, 0, [k \in 1..n |-> k])
    BY Zenon DEF Total, Summing!Fold, FoldLeft, MapThenFoldSet, Summing!FoldLeft,
                 Summing!MapThenFoldSet, Max, Summing!Max
  <1>2. Total(f, 0) = 0
    <2>1. [k \in 1..0 |-> k] = <<>>
      OBVIOUS
    <2>2. QED
      BY <1>1, <2>1, Summing!FoldEmpty
  <1>3. ASSUME NEW n \in Nat
        PROVE  Total(f, n + 1) = Total(f, n) + f[n + 1]
    <2> DEFINE s == [k \in 1..n |-> k]
               t == [k \in 1..(n + 1) |-> k]
    <2>1. s \in Seq(Nat) /\ n + 1 \in Nat /\ t = Append(s, n + 1)
      OBVIOUS
    <2>2. Total(f, n) = Summing!Fold(f, 0, s) /\ Total(f, n + 1) = Summing!Fold(f, 0, t)
      BY <1>1
    <2> HIDE DEF s, t
    <2>3. Summing!Fold(f, 0, Append(s, n + 1)) = Summing!Fold(f, 0, s) + f[n + 1]
      BY <2>1, Summing!FoldAppend
    <2>4. QED
      BY <2>1, <2>2, <2>3
  <1>4. QED
    BY <1>2, <1>3

\* A sum of five.
LEMMA TotalFive ==
    ASSUME NEW f, \A k \in 1..5 : f[k] \in Int
    PROVE  Total(f, 5) = f[1] + f[2] + f[3] + f[4] + f[5]
  <1>1. /\ Total(f, 0) = 0
        /\ Total(f, 0 + 1) = Total(f, 0) + f[0 + 1] /\ Total(f, 1 + 1) = Total(f, 1) + f[1 + 1]
        /\ Total(f, 2 + 1) = Total(f, 2) + f[2 + 1] /\ Total(f, 3 + 1) = Total(f, 3) + f[3 + 1]
        /\ Total(f, 4 + 1) = Total(f, 4) + f[4 + 1]
    BY TotalIs
  <1>2. QED
    BY <1>1

\* A sum of nine.
LEMMA TotalNine ==
    ASSUME NEW f, \A k \in 1..9 : f[k] \in Int
    PROVE  Total(f, 9) = f[1] + f[2] + f[3] + f[4] + f[5] + f[6] + f[7] + f[8] + f[9]
  <1>1. Total(f, 5) = f[1] + f[2] + f[3] + f[4] + f[5]
    BY TotalFive
  <1>2. /\ Total(f, 5 + 1) = Total(f, 5) + f[5 + 1] /\ Total(f, 6 + 1) = Total(f, 6) + f[6 + 1]
        /\ Total(f, 7 + 1) = Total(f, 7) + f[7 + 1] /\ Total(f, 8 + 1) = Total(f, 8) + f[8 + 1]
    BY TotalIs
  <1>3. QED
    BY <1>1, <1>2

\* classify.rs's traits and their relevance, as a table.
LEMMA TraitTable ==
        /\ DOMAIN Traits = 1..9 /\ Len(Traits) = 9
        /\ Traits[1].reads = "band high" /\ Traits[1].relevance = 1
        /\ Traits[2].reads = "band mid" /\ Traits[2].relevance = 1
        /\ Traits[3].reads = "band low" /\ Traits[3].relevance = 1
        /\ Traits[4].reads = "large cap" /\ Traits[4].relevance = 2
        /\ Traits[5].reads = "interest over cap" /\ Traits[5].relevance = 2
        /\ Traits[6].reads = "cascade" /\ Traits[6].relevance = 2
        /\ Traits[7].reads = "extended day" /\ Traits[7].relevance = 1
        /\ Traits[8].reads = "worked book" /\ Traits[8].relevance = 2
        /\ Traits[9].reads = "volume surge" /\ Traits[9].relevance = 2
  <1> DEFINE m == Trait("Momentum", 2, "large cap")
  <1>1. [m EXCEPT !.invalidates = TRUE].reads = "large cap"
        /\ [m EXCEPT !.invalidates = TRUE].relevance = 2
    BY DEF Trait
  <1>2. DOMAIN Traits = 1..9 /\ Len(Traits) = 9
    BY DEF Traits
  <1>3. /\ Traits[1] = Trait("Manipulation", 1, "band high")
        /\ Traits[2] = Trait("Liquidations", 1, "band mid")
        /\ Traits[3] = Trait("MmClosing", 1, "band low")
        /\ Traits[4] = [m EXCEPT !.invalidates = TRUE]
        /\ Traits[5] = Trait("Manipulation", 2, "interest over cap")
        /\ Traits[6] = Trait("Liquidations", 2, "cascade")
        /\ Traits[7] = Trait("Liquidations", 1, "extended day")
        /\ Traits[8] = Trait("Manipulation", 2, "worked book")
        /\ Traits[9] = Trait("Momentum", 2, "volume surge")
    BY DEF Traits
  <1> HIDE DEF m
  <1>4. QED
    <2>1. Traits[1].reads = "band high" /\ Traits[1].relevance = 1
      <3>1. Trait("Manipulation", 1, "band high").reads = "band high" /\ Trait("Manipulation", 1, "band high").relevance = 1
        BY DEF Trait
      <3>2. QED
        BY <1>3, <3>1, Zenon
    <2>2. Traits[2].reads = "band mid" /\ Traits[2].relevance = 1
      <3>1. Trait("Liquidations", 1, "band mid").reads = "band mid" /\ Trait("Liquidations", 1, "band mid").relevance = 1
        BY DEF Trait
      <3>2. QED
        BY <1>3, <3>1, Zenon
    <2>3. Traits[3].reads = "band low" /\ Traits[3].relevance = 1
      <3>1. Trait("MmClosing", 1, "band low").reads = "band low" /\ Trait("MmClosing", 1, "band low").relevance = 1
        BY DEF Trait
      <3>2. QED
        BY <1>3, <3>1, Zenon
    <2>4. Traits[4].reads = "large cap" /\ Traits[4].relevance = 2
      BY <1>1, <1>3, Zenon
    <2>5. Traits[5].reads = "interest over cap" /\ Traits[5].relevance = 2
      <3>1. Trait("Manipulation", 2, "interest over cap").reads = "interest over cap" /\ Trait("Manipulation", 2, "interest over cap").relevance = 2
        BY DEF Trait
      <3>2. QED
        BY <1>3, <3>1, Zenon
    <2>6. Traits[6].reads = "cascade" /\ Traits[6].relevance = 2
      <3>1. Trait("Liquidations", 2, "cascade").reads = "cascade" /\ Trait("Liquidations", 2, "cascade").relevance = 2
        BY DEF Trait
      <3>2. QED
        BY <1>3, <3>1, Zenon
    <2>7. Traits[7].reads = "extended day" /\ Traits[7].relevance = 1
      <3>1. Trait("Liquidations", 1, "extended day").reads = "extended day" /\ Trait("Liquidations", 1, "extended day").relevance = 1
        BY DEF Trait
      <3>2. QED
        BY <1>3, <3>1, Zenon
    <2>8. Traits[8].reads = "worked book" /\ Traits[8].relevance = 2
      <3>1. Trait("Manipulation", 2, "worked book").reads = "worked book" /\ Trait("Manipulation", 2, "worked book").relevance = 2
        BY DEF Trait
      <3>2. QED
        BY <1>3, <3>1, Zenon
    <2>9. Traits[9].reads = "volume surge" /\ Traits[9].relevance = 2
      <3>1. Trait("Momentum", 2, "volume surge").reads = "volume surge" /\ Trait("Momentum", 2, "volume surge").relevance = 2
        BY DEF Trait
      <3>2. QED
        BY <1>3, <3>1, Zenon
    <2>10. QED
      BY <1>2, <2>1, <2>2, <2>3, <2>4, <2>5, <2>6, <2>7, <2>8, <2>9, Zenon

\* What each trait says of a category.
LEMMA VoteTable ==
    ASSUME NEW cat
    PROVE  /\ Vote(Traits[1], cat) = IF cat = "Manipulation" THEN 1 ELSE 0
           /\ Vote(Traits[2], cat) = IF cat = "Liquidations" THEN 1 ELSE 0
           /\ Vote(Traits[3], cat) = IF cat = "MmClosing" THEN 1 ELSE 0
           /\ Vote(Traits[4], cat) = IF cat = "Momentum" THEN 2 ELSE -2
           /\ Vote(Traits[5], cat) = IF cat = "Manipulation" THEN 2 ELSE 0
           /\ Vote(Traits[6], cat) = IF cat = "Liquidations" THEN 2 ELSE 0
           /\ Vote(Traits[7], cat) = IF cat = "Liquidations" THEN 1 ELSE 0
           /\ Vote(Traits[8], cat) = IF cat = "Manipulation" THEN 2 ELSE 0
           /\ Vote(Traits[9], cat) = IF cat = "Momentum" THEN 2 ELSE 0
  <1> DEFINE m == Trait("Momentum", 2, "large cap")
  <1>1. Vote([m EXCEPT !.invalidates = TRUE], cat) = IF cat = "Momentum" THEN 2 ELSE -2
    BY DEF Trait, Vote
  <1>3. /\ Traits[1] = Trait("Manipulation", 1, "band high")
        /\ Traits[2] = Trait("Liquidations", 1, "band mid")
        /\ Traits[3] = Trait("MmClosing", 1, "band low")
        /\ Traits[4] = [m EXCEPT !.invalidates = TRUE]
        /\ Traits[5] = Trait("Manipulation", 2, "interest over cap")
        /\ Traits[6] = Trait("Liquidations", 2, "cascade")
        /\ Traits[7] = Trait("Liquidations", 1, "extended day")
        /\ Traits[8] = Trait("Manipulation", 2, "worked book")
        /\ Traits[9] = Trait("Momentum", 2, "volume surge")
    BY DEF Traits
  <1> HIDE DEF m
  <1>4. QED
    <2>1. Vote(Traits[1], cat) = IF cat = "Manipulation" THEN 1 ELSE 0
      <3>1. Vote(Trait("Manipulation", 1, "band high"), cat) = IF cat = "Manipulation" THEN 1 ELSE 0
        BY DEF Trait, Vote
      <3>2. QED
        BY <1>3, <3>1, Zenon
    <2>2. Vote(Traits[2], cat) = IF cat = "Liquidations" THEN 1 ELSE 0
      <3>1. Vote(Trait("Liquidations", 1, "band mid"), cat) = IF cat = "Liquidations" THEN 1 ELSE 0
        BY DEF Trait, Vote
      <3>2. QED
        BY <1>3, <3>1, Zenon
    <2>3. Vote(Traits[3], cat) = IF cat = "MmClosing" THEN 1 ELSE 0
      <3>1. Vote(Trait("MmClosing", 1, "band low"), cat) = IF cat = "MmClosing" THEN 1 ELSE 0
        BY DEF Trait, Vote
      <3>2. QED
        BY <1>3, <3>1, Zenon
    <2>4. Vote(Traits[4], cat) = IF cat = "Momentum" THEN 2 ELSE -2
      BY <1>1, <1>3, Zenon
    <2>5. Vote(Traits[5], cat) = IF cat = "Manipulation" THEN 2 ELSE 0
      <3>1. Vote(Trait("Manipulation", 2, "interest over cap"), cat) = IF cat = "Manipulation" THEN 2 ELSE 0
        BY DEF Trait, Vote
      <3>2. QED
        BY <1>3, <3>1, Zenon
    <2>6. Vote(Traits[6], cat) = IF cat = "Liquidations" THEN 2 ELSE 0
      <3>1. Vote(Trait("Liquidations", 2, "cascade"), cat) = IF cat = "Liquidations" THEN 2 ELSE 0
        BY DEF Trait, Vote
      <3>2. QED
        BY <1>3, <3>1, Zenon
    <2>7. Vote(Traits[7], cat) = IF cat = "Liquidations" THEN 1 ELSE 0
      <3>1. Vote(Trait("Liquidations", 1, "extended day"), cat) = IF cat = "Liquidations" THEN 1 ELSE 0
        BY DEF Trait, Vote
      <3>2. QED
        BY <1>3, <3>1, Zenon
    <2>8. Vote(Traits[8], cat) = IF cat = "Manipulation" THEN 2 ELSE 0
      <3>1. Vote(Trait("Manipulation", 2, "worked book"), cat) = IF cat = "Manipulation" THEN 2 ELSE 0
        BY DEF Trait, Vote
      <3>2. QED
        BY <1>3, <3>1, Zenon
    <2>9. Vote(Traits[9], cat) = IF cat = "Momentum" THEN 2 ELSE 0
      <3>1. Vote(Trait("Momentum", 2, "volume surge"), cat) = IF cat = "Momentum" THEN 2 ELSE 0
        BY DEF Trait, Vote
      <3>2. QED
        BY <1>3, <3>1, Zenon
    <2>10. QED
      BY <2>1, <2>2, <2>3, <2>4, <2>5, <2>6, <2>7, <2>8, <2>9, Zenon

\* The five categories, by their place.
LEMMA CategoryTable ==
        /\ DOMAIN Categories = 1..5 /\ Len(Categories) = 5
        /\ \A c \in 1..5 :
             /\ (Categories[c] = "Liquidations") = (c = 2)
             /\ (Categories[c] = "MmClosing") = (c = 3)
             /\ (Categories[c] = "Manipulation") = (c = 4)
             /\ (Categories[c] = "Momentum") = (c = 5)
  <1>1. /\ Categories[1] = "Indeterminate" /\ Categories[2] = "Liquidations"
        /\ Categories[3] = "MmClosing" /\ Categories[4] = "Manipulation"
        /\ Categories[5] = "Momentum" /\ DOMAIN Categories = 1..5 /\ Len(Categories) = 5
    BY DEF Categories
  <1>2. ASSUME NEW c \in 1..5
        PROVE  c = 1 \/ c = 2 \/ c = 3 \/ c = 4 \/ c = 5
    OBVIOUS
  <1>3. QED
    BY <1>1, <1>2

\* All the points there are to give.
LEMMA PointsAre == Points = 14
  <1> DEFINE f == [k \in DOMAIN Traits |-> Traits[k].relevance]
  <1>1. \A k \in 1..9 : f[k] = Traits[k].relevance
    BY TraitTable
  <1>2. Points = Total(f, 9)
    BY TraitTable DEF Points
  <1> HIDE DEF f
  <1>3. /\ f[1] = 1 /\ f[2] = 1 /\ f[3] = 1 /\ f[4] = 2 /\ f[5] = 2 /\ f[6] = 2
        /\ f[7] = 1 /\ f[8] = 2 /\ f[9] = 2
    <2>1. 1 \in 1..9 /\ 2 \in 1..9 /\ 3 \in 1..9 /\ 4 \in 1..9 /\ 5 \in 1..9
          /\ 6 \in 1..9 /\ 7 \in 1..9 /\ 8 \in 1..9 /\ 9 \in 1..9
      OBVIOUS
    <2>2. QED
      BY <1>1, <2>1, TraitTable, Zenon
  <1>4. \A k \in 1..9 : k = 1 \/ k = 2 \/ k = 3 \/ k = 4 \/ k = 5 \/ k = 6 \/ k = 7 \/ k = 8 \/ k = 9
    OBVIOUS
  <1>5. \A k \in 1..9 : f[k] \in Int
    BY <1>3, <1>4
  <1>6. QED
    BY <1>2, <1>3, <1>5, TotalNine

\* One reading's points, when it holds.
Hit(reading, situation) == IF reading \in situation THEN 1 ELSE 0

\* The points of each category, before the floor.
Argued(situation) ==
    << 0 - 2 * Hit("large cap", situation),
       Hit("band mid", situation) + 2 * Hit("cascade", situation)
         + Hit("extended day", situation) - 2 * Hit("large cap", situation),
       Hit("band low", situation) - 2 * Hit("large cap", situation),
       Hit("band high", situation) + 2 * Hit("interest over cap", situation)
         + 2 * Hit("worked book", situation) - 2 * Hit("large cap", situation),
       2 * Hit("large cap", situation) + 2 * Hit("volume surge", situation) >>

\* What each trait says of the category in a place.
LEMMA VoteOf ==
    ASSUME NEW c \in 1..5
    PROVE  /\ Vote(Traits[1], Categories[c]) = IF c = 4 THEN 1 ELSE 0
           /\ Vote(Traits[2], Categories[c]) = IF c = 2 THEN 1 ELSE 0
           /\ Vote(Traits[3], Categories[c]) = IF c = 3 THEN 1 ELSE 0
           /\ Vote(Traits[4], Categories[c]) = IF c = 5 THEN 2 ELSE -2
           /\ Vote(Traits[5], Categories[c]) = IF c = 4 THEN 2 ELSE 0
           /\ Vote(Traits[6], Categories[c]) = IF c = 2 THEN 2 ELSE 0
           /\ Vote(Traits[7], Categories[c]) = IF c = 2 THEN 1 ELSE 0
           /\ Vote(Traits[8], Categories[c]) = IF c = 4 THEN 2 ELSE 0
           /\ Vote(Traits[9], Categories[c]) = IF c = 5 THEN 2 ELSE 0
  <1> DEFINE cat == Categories[c]
  <1>1. /\ (cat = "Liquidations") = (c = 2) /\ (cat = "MmClosing") = (c = 3)
        /\ (cat = "Manipulation") = (c = 4) /\ (cat = "Momentum") = (c = 5)
    BY CategoryTable
  <1> HIDE DEF cat
  <1>2. QED
    BY <1>1, VoteTable, Zenon DEF cat

\* A category's vote is what is argued for it, and none below zero.
LEMMA VotesAre ==
    ASSUME NEW situation, NEW c \in 1..5
    PROVE  VoteFor(situation)[c] = IF Argued(situation)[c] > 0 THEN Argued(situation)[c] ELSE 0
  <1> DEFINE f == [k \in DOMAIN Traits |->
                     IF Traits[k].reads \in situation THEN Vote(Traits[k], Categories[c]) ELSE 0]
             high == Hit("band high", situation)
             mid == Hit("band mid", situation)
             low == Hit("band low", situation)
             cap == Hit("large cap", situation)
             interest == Hit("interest over cap", situation)
             cascade == Hit("cascade", situation)
             extended == Hit("extended day", situation)
             worked == Hit("worked book", situation)
             surge == Hit("volume surge", situation)
  <1>1. VoteFor(situation)[c] = Max({0, Total(f, 9)})
    BY TraitTable, CategoryTable DEF VoteFor
  <1>2. \A k \in 1..9 :
          f[k] = IF Traits[k].reads \in situation THEN Vote(Traits[k], Categories[c]) ELSE 0
    BY TraitTable
  <1> HIDE DEF f
  <1>3. /\ high \in {0, 1} /\ mid \in {0, 1} /\ low \in {0, 1} /\ cap \in {0, 1}
        /\ interest \in {0, 1} /\ cascade \in {0, 1} /\ extended \in {0, 1}
        /\ worked \in {0, 1} /\ surge \in {0, 1}
    BY DEF Hit
  <1>4. /\ f[1] = IF c = 4 THEN high ELSE 0
        /\ f[2] = IF c = 2 THEN mid ELSE 0
        /\ f[3] = IF c = 3 THEN low ELSE 0
        /\ f[4] = IF c = 5 THEN 2 * cap ELSE 0 - 2 * cap
        /\ f[5] = IF c = 4 THEN 2 * interest ELSE 0
        /\ f[6] = IF c = 2 THEN 2 * cascade ELSE 0
        /\ f[7] = IF c = 2 THEN extended ELSE 0
        /\ f[8] = IF c = 4 THEN 2 * worked ELSE 0
        /\ f[9] = IF c = 5 THEN 2 * surge ELSE 0
    <2>1. 1 \in 1..9 /\ 2 \in 1..9 /\ 3 \in 1..9 /\ 4 \in 1..9 /\ 5 \in 1..9
          /\ 6 \in 1..9 /\ 7 \in 1..9 /\ 8 \in 1..9 /\ 9 \in 1..9
      OBVIOUS
    <2>2. f[1] = IF c = 4 THEN high ELSE 0
      <3>1. f[1] = IF "band high" \in situation THEN Vote(Traits[1], Categories[c]) ELSE 0
        BY <1>2, <2>1, TraitTable, Zenon
      <3>2. QED
        BY <3>1, VoteOf DEF Hit
    <2>3. f[2] = IF c = 2 THEN mid ELSE 0
      <3>1. f[2] = IF "band mid" \in situation THEN Vote(Traits[2], Categories[c]) ELSE 0
        BY <1>2, <2>1, TraitTable, Zenon
      <3>2. QED
        BY <3>1, VoteOf DEF Hit
    <2>4. f[3] = IF c = 3 THEN low ELSE 0
      <3>1. f[3] = IF "band low" \in situation THEN Vote(Traits[3], Categories[c]) ELSE 0
        BY <1>2, <2>1, TraitTable, Zenon
      <3>2. QED
        BY <3>1, VoteOf DEF Hit
    <2>5. f[4] = IF c = 5 THEN 2 * cap ELSE 0 - 2 * cap
      <3>1. f[4] = IF "large cap" \in situation THEN Vote(Traits[4], Categories[c]) ELSE 0
        BY <1>2, <2>1, TraitTable, Zenon
      <3>2. Vote(Traits[4], Categories[c]) = IF c = 5 THEN 2 ELSE -2
        BY VoteOf
      <3>3. CASE "large cap" \in situation
        <4>1. cap = 1
          BY <3>3 DEF Hit
        <4>2. f[4] = IF c = 5 THEN 2 ELSE -2
          BY <3>1, <3>2, <3>3, Zenon
        <4> HIDE DEF cap
        <4>3. QED
          BY <4>1, <4>2
      <3>4. CASE "large cap" \notin situation
        <4>1. cap = 0
          BY <3>4 DEF Hit
        <4>2. f[4] = 0
          BY <3>1, <3>4, Zenon
        <4> HIDE DEF cap
        <4>3. QED
          BY <4>1, <4>2
      <3>5. QED
        BY <3>3, <3>4
    <2>6. f[5] = IF c = 4 THEN 2 * interest ELSE 0
      <3>1. f[5] = IF "interest over cap" \in situation THEN Vote(Traits[5], Categories[c]) ELSE 0
        BY <1>2, <2>1, TraitTable, Zenon
      <3>2. Vote(Traits[5], Categories[c]) = IF c = 4 THEN 2 ELSE 0
        BY VoteOf
      <3>3. CASE "interest over cap" \in situation
        <4>1. interest = 1
          BY <3>3 DEF Hit
        <4>2. f[5] = IF c = 4 THEN 2 ELSE 0
          BY <3>1, <3>2, <3>3, Zenon
        <4> HIDE DEF interest
        <4>3. QED
          BY <4>1, <4>2
      <3>4. CASE "interest over cap" \notin situation
        <4>1. interest = 0
          BY <3>4 DEF Hit
        <4>2. f[5] = 0
          BY <3>1, <3>4, Zenon
        <4> HIDE DEF interest
        <4>3. QED
          BY <4>1, <4>2
      <3>5. QED
        BY <3>3, <3>4
    <2>7. f[6] = IF c = 2 THEN 2 * cascade ELSE 0
      <3>1. f[6] = IF "cascade" \in situation THEN Vote(Traits[6], Categories[c]) ELSE 0
        BY <1>2, <2>1, TraitTable, Zenon
      <3>2. Vote(Traits[6], Categories[c]) = IF c = 2 THEN 2 ELSE 0
        BY VoteOf
      <3>3. QED
        BY <3>1, <3>2 DEF Hit
    <2>8. f[7] = IF c = 2 THEN extended ELSE 0
      <3>1. f[7] = IF "extended day" \in situation THEN Vote(Traits[7], Categories[c]) ELSE 0
        BY <1>2, <2>1, TraitTable, Zenon
      <3>2. QED
        BY <3>1, VoteOf DEF Hit
    <2>9. f[8] = IF c = 4 THEN 2 * worked ELSE 0
      <3>1. f[8] = IF "worked book" \in situation THEN Vote(Traits[8], Categories[c]) ELSE 0
        BY <1>2, <2>1, TraitTable, Zenon
      <3>2. Vote(Traits[8], Categories[c]) = IF c = 4 THEN 2 ELSE 0
        BY VoteOf
      <3>3. CASE "worked book" \in situation
        <4>1. worked = 1
          BY <3>3 DEF Hit
        <4>2. f[8] = IF c = 4 THEN 2 ELSE 0
          BY <3>1, <3>2, <3>3, Zenon
        <4> HIDE DEF worked
        <4>3. QED
          BY <4>1, <4>2
      <3>4. CASE "worked book" \notin situation
        <4>1. worked = 0
          BY <3>4 DEF Hit
        <4>2. f[8] = 0
          BY <3>1, <3>4, Zenon
        <4> HIDE DEF worked
        <4>3. QED
          BY <4>1, <4>2
      <3>5. QED
        BY <3>3, <3>4
    <2>10. f[9] = IF c = 5 THEN 2 * surge ELSE 0
      <3>1. f[9] = IF "volume surge" \in situation THEN Vote(Traits[9], Categories[c]) ELSE 0
        BY <1>2, <2>1, TraitTable, Zenon
      <3>2. Vote(Traits[9], Categories[c]) = IF c = 5 THEN 2 ELSE 0
        BY VoteOf
      <3>3. CASE "volume surge" \in situation
        <4>1. surge = 1
          BY <3>3 DEF Hit
        <4>2. f[9] = IF c = 5 THEN 2 ELSE 0
          BY <3>1, <3>2, <3>3, Zenon
        <4> HIDE DEF surge
        <4>3. QED
          BY <4>1, <4>2
      <3>4. CASE "volume surge" \notin situation
        <4>1. surge = 0
          BY <3>4 DEF Hit
        <4>2. f[9] = 0
          BY <3>1, <3>4, Zenon
        <4> HIDE DEF surge
        <4>3. QED
          BY <4>1, <4>2
      <3>5. QED
        BY <3>3, <3>4
    <2>11. QED
      BY <2>2, <2>3, <2>4, <2>5, <2>6, <2>7, <2>8, <2>9, <2>10, Zenon
  <1> HIDE DEF high, mid, low, cap, interest, cascade, extended, worked, surge
  <1>6. /\ f[1] \in Int /\ f[2] \in Int /\ f[3] \in Int /\ f[4] \in Int /\ f[5] \in Int
        /\ f[6] \in Int /\ f[7] \in Int /\ f[8] \in Int /\ f[9] \in Int
    BY <1>3, <1>4
  <1>7. \A k \in 1..9 : k = 1 \/ k = 2 \/ k = 3 \/ k = 4 \/ k = 5 \/ k = 6 \/ k = 7 \/ k = 8 \/ k = 9
    OBVIOUS
  <1>8. \A k \in 1..9 : f[k] \in Int
    BY <1>6, <1>7
  <1>9. Total(f, 9) = f[1] + f[2] + f[3] + f[4] + f[5] + f[6] + f[7] + f[8] + f[9]
    BY <1>8, TotalNine
  <1>10. Total(f, 9) = Argued(situation)[c]
    <2>1. CASE c = 1
      <3>1. Argued(situation)[c] = 0 - 2 * cap
        BY <2>1 DEF Argued, cap
      <3>2. QED
        BY <1>3, <1>4, <1>9, <2>1, <3>1
    <2>2. CASE c = 2
      <3>1. Argued(situation)[c] = mid + 2 * cascade + extended - 2 * cap
        BY <2>2 DEF Argued, mid, cascade, extended, cap
      <3>2. QED
        BY <1>3, <1>4, <1>9, <2>2, <3>1
    <2>3. CASE c = 3
      <3>1. Argued(situation)[c] = low - 2 * cap
        BY <2>3 DEF Argued, low, cap
      <3>2. QED
        BY <1>3, <1>4, <1>9, <2>3, <3>1
    <2>4. CASE c = 4
      <3>1. Argued(situation)[c] = high + 2 * interest + 2 * worked - 2 * cap
        BY <2>4 DEF Argued, high, interest, worked, cap
      <3>2. QED
        BY <1>3, <1>4, <1>9, <2>4, <3>1
    <2>5. CASE c = 5
      <3>1. Argued(situation)[c] = 2 * cap + 2 * surge
        BY <2>5 DEF Argued, cap, surge
      <3>2. QED
        BY <1>3, <1>4, <1>9, <2>5, <3>1
    <2>6. QED
      BY <2>1, <2>2, <2>3, <2>4, <2>5
  <1>11. Total(f, 9) \in Int
    BY <1>6, <1>9
  <1>12. Max({0, Total(f, 9)}) = IF 0 >= Total(f, 9) THEN 0 ELSE Total(f, 9)
    BY <1>11, MaxOfTwo
  <1>13. QED
    BY <1>1, <1>10, <1>11, <1>12

\* One band at most is hit, so when no category has two points, at most two
\* points were scored.
LEMMA WeighsLittle ==
    ASSUME NEW situation, \A a, b \in situation \cap Bands : a = b
    PROVE  /\ DOMAIN VoteFor(situation) = 1..5
           /\ \A c \in 1..5 : VoteFor(situation)[c] \in Nat
           /\ (\A c \in 1..5 : VoteFor(situation)[c] <= 1) =>
                 Scored(VoteFor(situation)) \in 0..2
  <1> DEFINE w == VoteFor(situation)
             high == Hit("band high", situation)
             mid == Hit("band mid", situation)
             low == Hit("band low", situation)
             cap == Hit("large cap", situation)
             interest == Hit("interest over cap", situation)
             cascade == Hit("cascade", situation)
             extended == Hit("extended day", situation)
             worked == Hit("worked book", situation)
             surge == Hit("volume surge", situation)
             floor(x) == IF x > 0 THEN x ELSE 0
  <1>1. DOMAIN w = 1..5
    BY CategoryTable DEF VoteFor
  <1>2. /\ high \in {0, 1} /\ mid \in {0, 1} /\ low \in {0, 1} /\ cap \in {0, 1}
        /\ interest \in {0, 1} /\ cascade \in {0, 1} /\ extended \in {0, 1}
        /\ worked \in {0, 1} /\ surge \in {0, 1}
    BY DEF Hit
  <1>3. high = 0 \/ low = 0
    <2>1. CASE "band high" \in situation
      <3>1. "band low" \in Bands /\ "band high" \in Bands /\ "band low" # "band high"
        BY DEF Bands
      <3>2. ~("band low" \in situation \cap Bands /\ "band high" \in situation \cap Bands)
        BY <3>1
      <3>3. "band low" \notin situation
        BY <2>1, <3>1, <3>2
      <3>4. QED
        BY <3>3 DEF Hit
    <2>2. CASE "band high" \notin situation
      BY <2>2 DEF Hit
    <2>3. QED
      BY <2>1, <2>2
  <1>4. 1 \in 1..5 /\ 2 \in 1..5 /\ 3 \in 1..5 /\ 4 \in 1..5 /\ 5 \in 1..5
    OBVIOUS
  <1>5. \A c \in 1..5 : w[c] = floor(Argued(situation)[c])
    BY VotesAre
  <1>6. Argued(situation) = << 0 - 2 * cap, mid + 2 * cascade + extended - 2 * cap, low - 2 * cap,
                               high + 2 * interest + 2 * worked - 2 * cap, 2 * cap + 2 * surge >>
    BY Zenon DEF Argued
  <1>7. Scored(w) = Total(w, 5)
    BY CategoryTable, Zenon DEF Scored
  <1> HIDE DEF w, high, mid, low, cap, interest, cascade, extended, worked, surge
  <1>8. /\ w[1] = floor(0 - 2 * cap)
        /\ w[2] = floor(mid + 2 * cascade + extended - 2 * cap)
        /\ w[3] = floor(low - 2 * cap)
        /\ w[4] = floor(high + 2 * interest + 2 * worked - 2 * cap)
        /\ w[5] = floor(2 * cap + 2 * surge)
    BY <1>2, <1>4, <1>5, <1>6
  <1>9. w[1] \in Nat /\ w[2] \in Nat /\ w[3] \in Nat /\ w[4] \in Nat /\ w[5] \in Nat
    BY <1>2, <1>8
  <1>10. \A c \in 1..5 : c = 1 \/ c = 2 \/ c = 3 \/ c = 4 \/ c = 5
    OBVIOUS
  <1>11. \A c \in 1..5 : w[c] \in Nat
    BY <1>9, <1>10
  <1>12. Scored(w) = w[1] + w[2] + w[3] + w[4] + w[5]
    <2>1. \A c \in 1..5 : w[c] \in Int
      BY <1>11
    <2>2. QED
      BY <1>7, <2>1, TotalFive
  <1>13. ASSUME \A c \in 1..5 : w[c] <= 1
         PROVE  Scored(w) \in 0..2
    <2>1. w[1] <= 1 /\ w[2] <= 1 /\ w[3] <= 1 /\ w[4] <= 1 /\ w[5] <= 1
      BY <1>4, <1>13
    <2>2. cap = 0 /\ surge = 0
      BY <1>2, <1>8, <2>1
    <2>3. w[1] = 0 /\ w[5] = 0 /\ w[3] = low /\ w[2] \in {0, 1}
      BY <1>2, <1>8, <1>9, <2>1, <2>2
    <2>4. w[4] = high
      BY <1>2, <1>8, <1>9, <2>1, <2>2
    <2>5. QED
      BY <1>2, <1>3, <1>12, <2>3, <2>4
  <1>14. QED
    BY <1>1, <1>11, <1>13 DEF w

\* A set of places has a last.
LEMMA AmongFive ==
    ASSUME NEW S, S \subseteq 1..5, S # {}
    PROVE  \E m \in S : Max(S) = m
  <1>1. \E m \in S : \A y \in S : y <= m
    <2>1. CASE 5 \in S
      BY <2>1
    <2>2. CASE 5 \notin S /\ 4 \in S
      BY <2>2
    <2>3. CASE 5 \notin S /\ 4 \notin S /\ 3 \in S
      BY <2>3
    <2>4. CASE 5 \notin S /\ 4 \notin S /\ 3 \notin S /\ 2 \in S
      BY <2>4
    <2>5. CASE 5 \notin S /\ 4 \notin S /\ 3 \notin S /\ 2 \notin S
      <3>1. PICK m \in S : TRUE
        OBVIOUS
      <3>2. \A y \in S : y = 1
        BY <2>5
      <3>3. m = 1 /\ 1 <= 1
        BY <3>1, <3>2
      <3>4. QED
        BY <3>1, <3>2, <3>3
    <2>6. QED
      BY <2>1, <2>2, <2>3, <2>4, <2>5
  <1>2. PICK m \in S : \A y \in S : y <= m
    BY <1>1
  <1>3. S \subseteq Int
    OBVIOUS
  <1>4. QED
    BY <1>2, <1>3, MaxIs

\* One of five weights is the greatest.
LEMMA TopOfFive ==
    ASSUME NEW w, DOMAIN w = 1..5, \A c \in 1..5 : w[c] \in Nat
    PROVE  /\ Max(Range(w)) \in Nat
           /\ \E c \in 1..5 : w[c] = Max(Range(w))
           /\ \A c \in 1..5 : w[c] <= Max(Range(w))
  <1>1. \E c \in 1..5 : \A o \in 1..5 : w[o] <= w[c]
    <2>1. /\ w[1] \in Nat /\ w[2] \in Nat /\ w[3] \in Nat /\ w[4] \in Nat /\ w[5] \in Nat
      OBVIOUS
    <2>2. \E c \in 1..5 : w[1] <= w[c] /\ w[2] <= w[c] /\ w[3] <= w[c] /\ w[4] <= w[c] /\ w[5] <= w[c]
      <3>1. 1 \in 1..5 /\ 2 \in 1..5 /\ 3 \in 1..5 /\ 4 \in 1..5 /\ 5 \in 1..5
        OBVIOUS
      <3>2. QED
        BY <2>1, <3>1
    <2>3. \A o \in 1..5 : o = 1 \/ o = 2 \/ o = 3 \/ o = 4 \/ o = 5
      OBVIOUS
    <2>4. QED
      BY <2>2, <2>3
  <1>2. PICK c \in 1..5 : \A o \in 1..5 : w[o] <= w[c]
    BY <1>1
  <1>3. Range(w) = {w[o] : o \in 1..5}
    BY DEF Range
  <1>4. Range(w) \subseteq Int /\ w[c] \in Range(w) /\ \A y \in Range(w) : y <= w[c]
    BY <1>2, <1>3
  <1>5. Max(Range(w)) = w[c]
    BY <1>4, MaxIs
  <1>6. QED
    BY <1>2, <1>5

\* A decision that takes a side has a category of that side on top, with two points.
LEMMA EvidenceAgrees ==
    ASSUME StrategyConstants, NEW situation \in Situations,
           Decision[situation].direction # "Flat"
    PROVE  LET w == VoteFor(situation)
               backs == {c \in DOMAIN w : Direction(Categories[c]) = Decision[situation].direction}
           IN  \E c \in backs : w[c] >= 2 /\ \A o \in DOMAIN w : w[o] <= w[c]
  <1> DEFINE w == VoteFor(situation)
             top == Max(Range(w))
             S == {c \in DOMAIN w : w[c] = top}
             said == Decision[situation].direction
             c == Max(S)
  <1>1. \A a, b \in situation \cap Bands : a = b
    BY DEF StrategyConstants
  <1>2. /\ DOMAIN w = 1..5 /\ \A k \in 1..5 : w[k] \in Nat
        /\ (\A k \in 1..5 : w[k] <= 1) => Scored(w) \in 0..2
    BY <1>1, WeighsLittle
  <1>3. said = Direction(Modal(w))
    BY DEF Decision, Decide
  <1>4. Modal(w) = IF Outweighs(w, top) THEN Categories[c] ELSE "Indeterminate"
    BY Zenon DEF Modal
  <1> HIDE DEF w, top, c
  <1>5. /\ top \in Nat /\ \E k \in 1..5 : w[k] = top
        /\ \A k \in 1..5 : w[k] <= top
    BY <1>2, TopOfFive DEF top
  <1>6. c \in S
    <2>1. S \subseteq 1..5 /\ S # {}
      BY <1>2, <1>5
    <2>2. c = Max(S)
      BY Zenon DEF c
    <2> HIDE DEF S
    <2>3. \E m \in S : Max(S) = m
      BY <2>1, AmongFive
    <2>4. QED
      BY <2>2, <2>3
  <1>7. Outweighs(w, top) /\ Modal(w) = Categories[c]
    <2>1. Direction("Indeterminate") = "Flat"
      BY DEF Direction
    <2>2. said # "Flat"
      OBVIOUS
    <2>3. QED
      BY <1>3, <1>4, <2>1, <2>2, Zenon
  <1>8. top >= 2
    <2>1. SUFFICES ASSUME top <= 1
                   PROVE  FALSE
      BY <1>5
    <2>2. \A k \in 1..5 : w[k] <= 1
      BY <1>2, <1>5, <2>1
    <2>3. Scored(w) \in 0..2
      BY <1>2, <2>2
    <2>4. (top + Scored(w)) * (top + Scored(w)) > 14
      BY <1>7, PointsAre DEF Outweighs
    <2>5. top + Scored(w) \in 0..3
      BY <1>5, <2>1, <2>3
    <2> DEFINE n == top + Scored(w)
    <2>6. n \in 0..3 /\ n * n > 14
      BY <2>4, <2>5
    <2> HIDE DEF n
    <2>7. n = 0 \/ n = 1 \/ n = 2 \/ n = 3
      BY <2>6
    <2>8. QED
      BY <2>6, <2>7
  <1>9. c \in DOMAIN w /\ Direction(Categories[c]) = said
    BY <1>3, <1>6, <1>7
  <1>10. w[c] >= 2 /\ \A o \in DOMAIN w : w[o] <= w[c]
    BY <1>2, <1>5, <1>6, <1>8
  <1> HIDE DEF said
  <1>11. \E k \in {k \in DOMAIN w : Direction(Categories[k]) = said} :
            w[k] >= 2 /\ \A o \in DOMAIN w : w[o] <= w[k]
    BY <1>9, <1>10
  <1>12. QED
    BY <1>11, Zenon DEF w, said

\* A hit is read off one of the situations.
Screened == tick.hit => tick.situation \in Situations

\* What is decided stays a decision of a situation that may arise.
LEMMA ScreenedStep == Screened /\ [Next]_vars => Screened'
  <1>1. SUFFICES ASSUME Screened, [Next]_vars
                 PROVE  Screened'
    OBVIOUS
  <1>2. ASSUME NEW hit, NEW situation, Sweep(hit, situation), hit => situation \in Situations
        PROVE  Screened'
    <2>1. \E stated : tick' = [hit |-> hit, situation |-> situation, stated |-> stated]
      BY <1>2 DEF Sweep
    <2>2. tick'.hit = hit /\ tick'.situation = situation
      BY <2>1
    <2>3. QED
      BY <1>2, <2>2 DEF Screened
  <1>3. CASE TradesCloseBar
    BY <1>2, <1>3 DEF TradesCloseBar
  <1>4. CASE Deltas
    BY <1>2, <1>4 DEF Deltas
  <1>5. CASE Seed
    BY <1>2, <1>5 DEF Seed
  <1>6. CASE Other
    BY <1>2, <1>6 DEF Other
  <1>7. CASE UNCHANGED vars
    BY <1>1, <1>7 DEF Screened, vars
  <1>8. QED
    BY <1>1, <1>3, <1>4, <1>5, <1>6, <1>7 DEF Next

\* classify.rs and decision.rs, for every set of readings that may hold together:
\* no side is taken unless a category of that side has two points or more, and
\* none has more.
THEOREM EvidenceIsNeeded == Spec => []TradesOnEvidence
  <1>1. Init => Screened
    BY DEF Init, Quiet, Screened
  <1>2. Spec => []Screened
    BY <1>1, ScreenedStep, PTL DEF Spec
  <1>3. Screened => TradesOnEvidence
    <2>1. SUFFICES ASSUME Screened, tick.hit, Decision[tick.situation].direction # "Flat"
                   PROVE  TradesOnEvidence
      BY DEF TradesOnEvidence
    <2>2. tick.situation \in Situations
      BY <2>1 DEF Screened
    <2> DEFINE situation == tick.situation
    <2> HIDE DEF situation
    <2>3. situation \in Situations /\ Decision[situation].direction # "Flat"
      BY <2>1, <2>2 DEF situation
    <2>4. LET w == VoteFor(situation)
              backs == {c \in DOMAIN w : Direction(Categories[c]) = Decision[situation].direction}
          IN  \E c \in backs : w[c] >= 2 /\ \A o \in DOMAIN w : w[o] <= w[c]
      BY <2>3, StrategyConstants, EvidenceAgrees
    <2>5. QED
      BY <2>4, Zenon DEF TradesOnEvidence, situation
  <1>4. QED
    BY <1>2, <1>3, PTL
=============================================================================
