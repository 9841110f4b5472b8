---------------------------- MODULE FoldTheorems ----------------------------
(***************************************************************************)
(* What a left fold computes, for whatever it folds with: over nothing it  *)
(* is where it began, and one element more is one more application.  With  *)
(* induction over the naturals, stated for sets, the two determine it.     *)
(* env is what the folded operator reads besides its arguments.            *)
(***************************************************************************)
EXTENDS Integers, Sequences, SequencesExt, FiniteSetsExt, SequenceTheorems,
        WellFoundedInduction, TLAPS

CONSTANT Op(_, _, _)     \* what one element does to what was folded so far

Fold(env, base, s) == FoldLeft(LAMBDA acc, e : Op(env, acc, e), base, s)

-----------------------------------------------------------------------------
(* Induction.                                                              *)

\* The order on the naturals, as the pairs it relates.
LEMMA LessThan == OpToRel(<, Nat) = {p \in Nat \X Nat : p[1] < p[2]}
  BY DEF OpToRel

\* Every set of naturals that is not empty has a least element.
LEMMA Least ==
    ASSUME NEW T, T \subseteq Nat, T # {}
    PROVE  \E x \in T : \A y \in T : x <= y
  <1> DEFINE R == {p \in Nat \X Nat : p[1] < p[2]}
  <1>1. IsWellFoundedOn(R, Nat)
    BY LessThan, NatLessThanWellFounded, Zenon
  <1>2. PICK x \in T : \A y \in T : ~ (<<y, x>> \in R)
    BY <1>1, WFMin
  <1>3. ASSUME NEW y \in T
        PROVE  x <= y
    <2>1. ~ (<<y, x>> \in R)
      BY <1>2
    <2>2. x \in Nat /\ y \in Nat
      OBVIOUS
    <2>3. <<y, x>> \in Nat \X Nat /\ <<y, x>>[1] = y /\ <<y, x>>[2] = x
      BY <2>2
    <2>4. ~ (y < x)
      BY <2>1, <2>3
    <2>5. QED
      BY <2>2, <2>4
  <1>4. QED
    BY <1>3

\* A set that holds 0 and the successor of whatever it holds holds every natural.
LEMMA Induction ==
    ASSUME NEW T, 0 \in T, \A n \in Nat : n \in T => n + 1 \in T
    PROVE  Nat \subseteq T
  <1> SUFFICES ASSUME Nat \ T # {}
               PROVE  FALSE
    OBVIOUS
  <1>1. PICK x \in Nat \ T : \A y \in Nat \ T : x <= y
    BY Least
  <1>2. x # 0 /\ x - 1 \in Nat
    BY <1>1
  <1>3. x - 1 \in T
    BY <1>1, <1>2
  <1>4. QED
    BY <1>1, <1>2, <1>3

-----------------------------------------------------------------------------
(* The largest and the smallest of a set of integers.                      *)

\* Max, which is a CHOOSE, is whatever member bounds the set.
LEMMA MaxIs ==
    ASSUME NEW S, S \subseteq Int, NEW m \in S, \A y \in S : y <= m
    PROVE  Max(S) = m
  <1>1. \E x \in S : \A y \in S : x >= y
    OBVIOUS
  <1>2. Max(S) \in S /\ \A y \in S : Max(S) >= y
    BY <1>1, Zenon DEF Max
  <1>3. Max(S) \in Int /\ m \in Int /\ Max(S) >= m /\ Max(S) <= m
    BY <1>2
  <1>4. QED
    BY <1>3

\* Min likewise.
LEMMA MinIs ==
    ASSUME NEW S, S \subseteq Int, NEW m \in S, \A y \in S : m <= y
    PROVE  Min(S) = m
  <1>1. \E x \in S : \A y \in S : x <= y
    OBVIOUS
  <1>2. Min(S) \in S /\ \A y \in S : Min(S) <= y
    BY <1>1, Zenon DEF Min
  <1>3. Min(S) \in Int /\ m \in Int /\ Min(S) >= m /\ Min(S) <= m
    BY <1>2
  <1>4. QED
    BY <1>3

-----------------------------------------------------------------------------
(* The function FoldLeft recurs through, on the sets of positions up to n.  *)

Iterates(iter, env, base, s, n) ==
    iter = [X \in SUBSET (1..n) |->
              IF X = {} THEN base ELSE Op(env, iter[X \ {Max(X)}], s[Max(X)])]

\* The last position of a set of them, and what is left without it.
LEMMA LastPosition ==
    ASSUME NEW n \in Nat, NEW X \in SUBSET (1..(n + 1)), X # {}
    PROVE  /\ Max(X) \in X
           /\ \A y \in X : y <= Max(X)
           /\ X \ {Max(X)} \in SUBSET (1..n)
  <1> DEFINE Bounds == {k \in Nat : \A x \in X : x <= k}
  <1>1. n + 1 \in Bounds
    OBVIOUS
  <1>2. PICK k \in Bounds : \A j \in Bounds : k <= j
    BY <1>1, Least
  <1>3. k \in X
    <2> SUFFICES ASSUME k \notin X
                 PROVE  FALSE
      OBVIOUS
    <2>1. k \in Nat /\ \A x \in X : x \in Nat /\ 1 <= x /\ x <= k /\ x # k
      BY <1>2
    <2>2. k # 0 /\ k - 1 \in Nat /\ \A x \in X : x <= k - 1
      <3>1. PICK x \in X : TRUE
        OBVIOUS
      <3>2. k # 0
        BY <2>1, <3>1
      <3>3. k - 1 \in Nat
        BY <2>1, <3>2
      <3>4. QED
        BY <2>1, <3>2, <3>3
    <2>3. k - 1 \in Bounds
      BY <2>2
    <2>4. k <= k - 1
      BY <1>2, <2>3
    <2>5. QED
      BY <2>1, <2>4
  <1>4. \E x \in X : \A y \in X : x >= y
    BY <1>3
  <1>5. Max(X) \in X /\ \A y \in X : Max(X) >= y
    BY <1>4, Zenon DEF Max
  <1> DEFINE m == Max(X)
  <1> HIDE DEF m
  <1>6. m \in X /\ \A y \in X : m >= y
    BY <1>5 DEF m
  <1>7. m \in X /\ (\A y \in X : y <= m) /\ X \ {m} \in SUBSET (1..n)
    <2>1. m \in Int /\ \A y \in X : y \in 1..(n + 1)
      BY <1>6
    <2>2. ASSUME NEW y \in X, y # m
          PROVE  y \in 1..n
      BY <1>6, <2>1, <2>2
    <2>3. QED
      BY <1>6, <2>1, <2>2
  <1>8. QED
    BY <1>7 DEF m

\* A fold's intermediate results exist, as a function of how far it got.
LEMMA IterExists ==
    ASSUME NEW env, NEW base, NEW s
    PROVE  \A n \in Nat : \E iter : Iterates(iter, env, base, s, n)
  <1> DEFINE T == {n \in Nat : \E iter : Iterates(iter, env, base, s, n)}
  <1>1. 0 \in T
    <2> DEFINE g == [X \in SUBSET (1..0) |-> base]
    <2>1. SUBSET (1..0) = {{}}
      OBVIOUS
    <2>2. g = [X \in SUBSET (1..0) |->
                 IF X = {} THEN base ELSE Op(env, g[X \ {Max(X)}], s[Max(X)])]
      BY <2>1
    <2>3. Iterates(g, env, base, s, 0)
      BY <2>2, Zenon DEF Iterates
    <2>4. QED
      BY <2>3
  <1>2. ASSUME NEW n \in Nat, n \in T
        PROVE  n + 1 \in T
    <2>1. PICK g : Iterates(g, env, base, s, n)
      BY <1>2
    <2> DEFINE h == [X \in SUBSET (1..(n + 1)) |->
                       IF X = {} THEN base ELSE Op(env, g[X \ {Max(X)}], s[Max(X)])]
    <2>2. ASSUME NEW X \in SUBSET (1..n)
          PROVE  h[X] = g[X]
      <3>1. X \in SUBSET (1..(n + 1))
        OBVIOUS
      <3>2. g[X] = IF X = {} THEN base ELSE Op(env, g[X \ {Max(X)}], s[Max(X)])
        BY <2>1 DEF Iterates
      <3>3. QED
        BY <3>1, <3>2
    <2>3. ASSUME NEW X \in SUBSET (1..(n + 1)), X # {}
          PROVE  h[X \ {Max(X)}] = g[X \ {Max(X)}]
      BY <2>2, <2>3, LastPosition
    <2>4. h = [X \in SUBSET (1..(n + 1)) |->
                 IF X = {} THEN base ELSE Op(env, h[X \ {Max(X)}], s[Max(X)])]
      BY <2>3
    <2>5. Iterates(h, env, base, s, n + 1)
      BY <2>4, Zenon DEF Iterates
    <2>6. QED
      BY <2>5
  <1> HIDE DEF T
  <1>3. Nat \subseteq T
    BY <1>1, <1>2, Induction
  <1>4. QED
    BY <1>3 DEF T

\* The fold is the whole sequence's value of such a function.
LEMMA FoldIs ==
    ASSUME NEW env, NEW base, NEW S, NEW s \in Seq(S)
    PROVE  \E iter : Iterates(iter, env, base, s, Len(s)) /\ Fold(env, base, s) = iter[1..Len(s)]
  <1> DEFINE g == CHOOSE iter : iter = [X \in SUBSET DOMAIN s |->
                    IF X = {} THEN base ELSE Op(env, iter[X \ {Max(X)}], s[Max(X)])]
  <1>1. Fold(env, base, s) = g[DOMAIN s]
    BY Zenon DEF Fold, FoldLeft, MapThenFoldSet
  <1>2. DOMAIN s = 1..Len(s) /\ Len(s) \in Nat
    OBVIOUS
  <1>3. PICK f : Iterates(f, env, base, s, Len(s))
    BY <1>2, IterExists
  <1>4. f = [X \in SUBSET DOMAIN s |->
               IF X = {} THEN base ELSE Op(env, f[X \ {Max(X)}], s[Max(X)])]
    BY <1>2, <1>3, Zenon DEF Iterates
  <1>5. g = [X \in SUBSET DOMAIN s |->
               IF X = {} THEN base ELSE Op(env, g[X \ {Max(X)}], s[Max(X)])]
    BY <1>4, Zenon
  <1> HIDE DEF g
  <1>6. Iterates(g, env, base, s, Len(s))
    BY <1>2, <1>5, Zenon DEF Iterates
  <1>7. QED
    BY <1>1, <1>2, <1>6

-----------------------------------------------------------------------------
\* A stretch of a sequence, one element longer.
LEMMA SubSeqGrows ==
    ASSUME NEW S, NEW rows \in Seq(S), NEW b \in 0..Len(rows), NEW a \in 0..b
    PROVE  /\ SubSeq(rows, a + 1, b) \in Seq(S)
           /\ SubSeq(rows, a + 1, a) = <<>>
           /\ b < Len(rows) => /\ rows[b + 1] \in S
                               /\ SubSeq(rows, a + 1, b + 1) = Append(SubSeq(rows, a + 1, b), rows[b + 1])
  <1>1. SubSeq(rows, a + 1, b) \in Seq(S)
    OBVIOUS
  <1>2. SubSeq(rows, a + 1, a) = <<>>
    OBVIOUS
  <1>3. ASSUME b < Len(rows)
        PROVE  /\ rows[b + 1] \in S
               /\ SubSeq(rows, a + 1, b + 1) = Append(SubSeq(rows, a + 1, b), rows[b + 1])
    <2>1. b + 1 \in 1..Len(rows) /\ Len(rows) \in Nat
      BY <1>3
    <2>2. rows[b + 1] \in S
      BY <2>1
    <2> DEFINE s == SubSeq(rows, a + 1, b + 1)
               t == SubSeq(rows, a + 1, b)
               u == Append(t, rows[b + 1])
    <2>3. s \in Seq(S) /\ Len(s) = b + 1 - a /\ \A i \in 1..(b + 1 - a) : s[i] = rows[a + i]
      BY <2>1
    <2>4. t \in Seq(S) /\ Len(t) = b - a /\ \A i \in 1..(b - a) : t[i] = rows[a + i]
      BY <2>1
    <2> HIDE DEF s, t
    <2>5. u \in Seq(S) /\ Len(u) = b + 1 - a /\ u[b + 1 - a] = rows[b + 1]
          /\ \A i \in 1..(b - a) : u[i] = t[i]
      BY <2>2, <2>4
    <2>6. ASSUME NEW i \in 1..(b + 1 - a)
          PROVE  s[i] = u[i]
      <3>1. CASE i = b + 1 - a
        BY <2>3, <2>5, <3>1
      <3>2. CASE i # b + 1 - a
        <4>1. i \in 1..(b - a)
          BY <3>2
        <4>2. QED
          BY <2>3, <2>4, <2>5, <4>1
      <3>3. QED
        BY <3>1, <3>2
    <2> HIDE DEF u
    <2>7. s = u
      BY <2>3, <2>5, <2>6
    <2>8. QED
      BY <2>2, <2>7 DEF s, t, u
  <1>4. QED
    BY <1>1, <1>2, <1>3

\* A set that holds the empty sequence, and with a sequence every one an element
\* longer, holds every sequence.
LEMMA SeqInduction ==
    ASSUME NEW S, NEW T, <<>> \in T, \A s \in Seq(S) : \A e \in S : s \in T => Append(s, e) \in T
    PROVE  Seq(S) \subseteq T
  <1> DEFINE U == {n \in Nat : \A s \in Seq(S) : Len(s) = n => s \in T}
  <1>1. 0 \in U
    <2>1. \A s \in Seq(S) : Len(s) = 0 => s = <<>>
      OBVIOUS
    <2>2. QED
      BY <2>1
  <1>2. ASSUME NEW n \in Nat, n \in U
        PROVE  n + 1 \in U
    <2>1. ASSUME NEW s \in Seq(S), Len(s) = n + 1
          PROVE  s \in T
      <3>1. n \in 0..Len(s) /\ 0 \in 0..n /\ n < Len(s)
        BY <2>1
      <3> DEFINE front == SubSeq(s, 0 + 1, n)
      <3>2. front \in Seq(S) /\ s[n + 1] \in S /\ SubSeq(s, 0 + 1, n + 1) = Append(front, s[n + 1])
        BY <3>1, SubSeqGrows
      <3>3. Len(front) = n
        BY <2>1
      <3>4. SubSeq(s, 0 + 1, n + 1) = s
        BY <2>1
      <3> HIDE DEF front
      <3>5. front \in T
        BY <1>2, <3>2, <3>3
      <3>6. QED
        BY <3>2, <3>4, <3>5
    <2>2. QED
      BY <2>1
  <1> HIDE DEF U
  <1>3. Nat \subseteq U
    BY <1>1, <1>2, Induction
  <1>4. ASSUME NEW s \in Seq(S)
        PROVE  s \in T
    BY <1>3 DEF U
  <1>5. QED
    BY <1>4

\* A stretch up to the end, and on over what is appended.
LEMMA SubSeqOn ==
    ASSUME NEW S, NEW rows \in Seq(S), NEW more \in Seq(S), NEW a \in 0..Len(rows)
    PROVE  SubSeq(rows \o more, a + 1, Len(rows \o more)) = SubSeq(rows, a + 1, Len(rows)) \o more
  <1> DEFINE all == rows \o more
             n == Len(rows)
             k == Len(more)
  <1>1. /\ all \in Seq(S) /\ Len(all) = n + k /\ n \in Nat /\ k \in Nat
        /\ \A i \in 1..n : all[i] = rows[i]
        /\ \A i \in 1..k : all[n + i] = more[i]
    BY ConcatProperties
  <1> HIDE DEF all
  <1>2. SubSeq(all, a + 1, n) \o SubSeq(all, n + 1, n + k) = SubSeq(all, a + 1, n + k)
    <2> DEFINE from == a + 1
               to == n + k
    <2>1. from \in 1..(Len(all) + 1) /\ n \in (from - 1)..Len(all) /\ to \in n..Len(all)
      BY <1>1
    <2> HIDE DEF from, to, n
    <2>2. SubSeq(all, from, n) \o SubSeq(all, n + 1, to) = SubSeq(all, from, to)
      BY <1>1, <2>1, ConcatAdjacentSubSeq
    <2>3. QED
      BY <2>2 DEF from, to
  <1>3. SubSeq(all, a + 1, n) = SubSeq(rows, a + 1, n)
    <2> DEFINE x == SubSeq(all, a + 1, n)
               y == SubSeq(rows, a + 1, n)
    <2>1. x \in Seq(S) /\ Len(x) = n - a /\ \A i \in 1..(n - a) : x[i] = all[a + i]
      BY <1>1
    <2>2. y \in Seq(S) /\ Len(y) = n - a /\ \A i \in 1..(n - a) : y[i] = rows[a + i]
      BY <1>1
    <2> HIDE DEF x, y
    <2>3. \A i \in 1..(n - a) : a + i \in 1..n
      BY <1>1
    <2>4. x = y
      BY <1>1, <2>1, <2>2, <2>3, SeqEqual
    <2>5. QED
      BY <2>4 DEF x, y
  <1>4. SubSeq(all, n + 1, n + k) = more
    <2> DEFINE x == SubSeq(all, n + 1, n + k)
    <2>1. x \in Seq(S) /\ Len(x) = k /\ \A i \in 1..k : x[i] = all[n + i]
      BY <1>1
    <2> HIDE DEF x
    <2>2. x = more
      BY <1>1, <2>1, SeqEqual
    <2>3. QED
      BY <2>2 DEF x
  <1>5. QED
    BY <1>1, <1>2, <1>3, <1>4 DEF all

-----------------------------------------------------------------------------
\* A fold over nothing is where it began.
LEMMA FoldEmpty ==
    ASSUME NEW env, NEW base
    PROVE  Fold(env, base, <<>>) = base
  <1>1. <<>> \in Seq({}) /\ Len(<<>>) = 0
    OBVIOUS
  <1>2. PICK g : Iterates(g, env, base, <<>>, 0) /\ Fold(env, base, <<>>) = g[1..0]
    BY <1>1, FoldIs
  <1>3. 1..0 = {} /\ {} \in SUBSET (1..0)
    OBVIOUS
  <1>4. QED
    BY <1>2, <1>3 DEF Iterates

\* One element more is one more application.
LEMMA FoldAppend ==
    ASSUME NEW env, NEW base, NEW S, NEW s \in Seq(S), NEW e \in S
    PROVE  Fold(env, base, Append(s, e)) = Op(env, Fold(env, base, s), e)
  <1> DEFINE n == Len(s)
             t == Append(s, e)
  <1>1. t \in Seq(S) /\ Len(t) = n + 1 /\ n \in Nat /\ t[n + 1] = e
        /\ \A i \in 1..n : s[i] = t[i]
    OBVIOUS
  <1> HIDE DEF n, t
  <1>2. PICK g : Iterates(g, env, base, s, n) /\ Fold(env, base, s) = g[1..n]
    BY FoldIs DEF n
  <1>3. PICK h : Iterates(h, env, base, t, n + 1) /\ Fold(env, base, t) = h[1..(n + 1)]
    BY <1>1, FoldIs
  <1>4. ASSUME NEW X \in SUBSET (1..n)
        PROVE  /\ g[X] = IF X = {} THEN base ELSE Op(env, g[X \ {Max(X)}], s[Max(X)])
               /\ h[X] = IF X = {} THEN base ELSE Op(env, h[X \ {Max(X)}], t[Max(X)])
    <2>1. X \in SUBSET (1..(n + 1))
      BY <1>1
    <2>2. QED
      BY <1>2, <1>3, <2>1 DEF Iterates
  \* Up to n the two iterations agree: by induction on the last position.
  <1>5. g[1..n] = h[1..n]
    <2> DEFINE T == {k \in Nat : k <= n => \A X \in SUBSET (1..k) : g[X] = h[X]}
    <2>1. 0 \in T
      <3>1. {} \in SUBSET (1..n)
        OBVIOUS
      <3>2. g[{}] = base /\ h[{}] = base
        BY <1>4, <3>1
      <3>3. \A X \in SUBSET (1..0) : X = {}
        OBVIOUS
      <3>4. QED
        BY <3>2, <3>3
    <2>2. ASSUME NEW k \in Nat, k \in T
          PROVE  k + 1 \in T
      <3> SUFFICES ASSUME k + 1 <= n, NEW X \in SUBSET (1..(k + 1))
                   PROVE  g[X] = h[X]
        <4>1. k + 1 \in Nat
          OBVIOUS
        <4>2. QED
          BY <4>1, Zenon
      <3>1. X \in SUBSET (1..n)
        BY <1>1
      <3>2. CASE X = {}
        BY <1>4, <3>1, <3>2
      <3>3. CASE X # {}
        <4>1. Max(X) \in X /\ X \ {Max(X)} \in SUBSET (1..k)
          BY <3>3, LastPosition
        <4>2. g[X \ {Max(X)}] = h[X \ {Max(X)}]
          BY <1>1, <2>2, <4>1
        <4>3. s[Max(X)] = t[Max(X)]
          BY <1>1, <3>1, <4>1
        <4>4. QED
          BY <1>4, <3>1, <3>3, <4>2, <4>3
      <3>4. QED
        BY <3>2, <3>3
    <2> HIDE DEF T
    <2>3. Nat \subseteq T
      BY <2>1, <2>2, Induction
    <2>4. n \in T
      BY <1>1, <2>3
    <2>5. n <= n /\ 1..n \in SUBSET (1..n)
      BY <1>1
    <2>6. QED
      BY <2>4, <2>5 DEF T
  <1> DEFINE X == 1..(n + 1)
  <1>6. X \in SUBSET (1..(n + 1)) /\ X # {} /\ n + 1 \in X
    <2>1. n + 1 \in X
      BY <1>1
    <2>2. X \in SUBSET X
      OBVIOUS
    <2> HIDE DEF X
    <2>3. X # {}
      BY <2>1
    <2> QED
      BY <2>1, <2>2, <2>3 DEF X
  <1>7. Max(X) = n + 1
    <2>1. Max(X) \in X /\ n + 1 <= Max(X)
      BY <1>1, <1>6, LastPosition
    <2>2. QED
      BY <1>1, <2>1
  <1>8. X \ {n + 1} = 1..n
    BY <1>1
  <1>9. h[X] = Op(env, h[X \ {Max(X)}], t[Max(X)])
    BY <1>3, <1>6 DEF Iterates
  <1>10. h[X] = Op(env, h[1..n], e)
    BY <1>1, <1>7, <1>8, <1>9
  <1>11. QED
    BY <1>2, <1>3, <1>5, <1>10 DEF t

\* So one element is one application.
LEMMA FoldSingle ==
    ASSUME NEW env, NEW base, NEW e
    PROVE  Fold(env, base, <<e>>) = Op(env, base, e)
  <1> DEFINE s == <<e>>
             X == 1..1
  <1>1. s \in Seq({e}) /\ Len(s) = 1 /\ s[1] = e
    OBVIOUS
  <1>2. PICK g : Iterates(g, env, base, s, 1) /\ Fold(env, base, s) = g[X]
    <2> HIDE DEF s
    <2>1. QED
      BY <1>1, FoldIs
  <1>3. X \in SUBSET (1..1) /\ {} \in SUBSET (1..1) /\ X # {} /\ X = {1}
    OBVIOUS
  <1>4. Max(X) = 1
    BY <1>3, MaxIs
  <1>5. X \ {Max(X)} = {}
    BY <1>3, <1>4
  <1>6. g[X] = Op(env, g[X \ {Max(X)}], s[Max(X)]) /\ g[{}] = base
    BY <1>2, <1>3 DEF Iterates
  <1>7. QED
    BY <1>1, <1>2, <1>4, <1>5, <1>6

\* One sequence after another is one fold after another.
LEMMA FoldConcat ==
    ASSUME NEW env, NEW base, NEW S, NEW s \in Seq(S), NEW t \in Seq(S)
    PROVE  Fold(env, base, s \o t) = Fold(env, Fold(env, base, s), t)
  <1> DEFINE mid == Fold(env, base, s)
             T == {k \in Nat : k <= Len(t) =>
                     Fold(env, base, s \o SubSeq(t, 1, k)) = Fold(env, mid, SubSeq(t, 1, k))}
  <1>1. 0 \in T
    <2>1. SubSeq(t, 1, 0) = <<>> /\ s \o <<>> = s
      OBVIOUS
    <2>2. Fold(env, mid, <<>>) = mid
      BY FoldEmpty
    <2>3. Fold(env, base, s \o SubSeq(t, 1, 0)) = Fold(env, mid, SubSeq(t, 1, 0))
      BY <2>1, <2>2, Zenon
    <2>4. QED
      BY <2>3
  <1>2. ASSUME NEW k \in Nat, k \in T
        PROVE  k + 1 \in T
    <2>1. SUFFICES ASSUME k + 1 <= Len(t)
                   PROVE  Fold(env, base, s \o SubSeq(t, 1, k + 1)) = Fold(env, mid, SubSeq(t, 1, k + 1))
      OBVIOUS
    <2> DEFINE e == t[k + 1]
               u == SubSeq(t, 1, k)
    <2>2. e \in S /\ u \in Seq(S) /\ s \o u \in Seq(S)
      BY <2>1
    <2>3. SubSeq(t, 1, k + 1) = Append(u, e)
      BY <2>1, AppendProperties, SubSeqRecursiveSecond, SubSeqProperties
    <2>4. s \o Append(u, e) = Append(s \o u, e)
      BY <2>2
    <2>5. Fold(env, base, s \o u) = Fold(env, mid, u)
      BY <1>2, <2>1
    <2> DEFINE w == s \o u
    <2> HIDE DEF e, u, mid
    <2>6. Fold(env, base, Append(w, e)) = Op(env, Fold(env, base, w), e)
      <3>1. w \in Seq(S)
        BY <2>2
      <3> HIDE DEF w
      <3>2. QED
        BY <2>2, <3>1, FoldAppend
    <2>7. Fold(env, mid, Append(u, e)) = Op(env, Fold(env, mid, u), e)
      BY <2>2, FoldAppend
    <2>8. QED
      BY <2>3, <2>4, <2>5, <2>6, <2>7, Zenon
  <1> HIDE DEF T
  <1>3. Nat \subseteq T
    BY <1>1, <1>2, Induction
  <1>4. Len(t) \in T /\ SubSeq(t, 1, Len(t)) = t /\ Len(t) <= Len(t)
    BY <1>3
  <1>5. QED
    BY <1>4 DEF T
=============================================================================
