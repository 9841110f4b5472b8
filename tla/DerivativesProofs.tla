------------------------- MODULE DerivativesProofs --------------------------
(***************************************************************************)
(* A chain of indicators, for any prices, gaps, period, reaches and        *)
(* warm-ups, however the feed cuts its batches: what a buffer hands out is *)
(* the series' own past, whoever else reads the series; and what the chain *)
(* publishes is the tape taken whole.                                      *)
(***************************************************************************)
EXTENDS Derivatives, SequenceTheorems, FiniteSetTheorems, TLAPS

Adding == INSTANCE FoldTheorems WITH Op <- LAMBDA env, a, e : a + e
Closing == INSTANCE FoldTheorems WITH Op <- LAMBDA body, acc, t : Close(body, acc, t)
Joining == INSTANCE FoldTheorems WITH Op <- LAMBDA env, a, b : Join(a, b)
Folding == INSTANCE FoldTheorems WITH Op <- LAMBDA body, acc, x : Fold(body, acc, x)
Recurring == INSTANCE FoldTheorems WITH Op <- LAMBDA env, m, x : Recurred(m, x)

-----------------------------------------------------------------------------
(* Runs in the order of their time.                                        *)

\* The larger and the smaller of two.
LEMMA OfPair ==
    ASSUME NEW x \in Int, NEW y \in Int
    PROVE  /\ Max({x, y}) = IF x <= y THEN y ELSE x
           /\ Min({x, y}) = IF x <= y THEN x ELSE y
  <1> DEFINE S == {x, y}
             m == IF x <= y THEN y ELSE x
             l == IF x <= y THEN x ELSE y
  <1>1. S \subseteq Int /\ m \in S /\ l \in S /\ \A z \in S : z <= m /\ l <= z
    OBVIOUS
  <1> HIDE DEF S, m, l
  <1>2. Max(S) = Adding!Max(S) /\ Min(S) = Adding!Min(S)
    BY Zenon DEF Max, Adding!Max, Min, Adding!Min
  <1>3. Adding!Max(S) = m /\ Adding!Min(S) = l
    BY <1>1, Adding!MaxIs, Adding!MinIs
  <1> QED
    BY <1>2, <1>3 DEF S, m, l

\* Max is whatever member bounds a set, and Min likewise.
LEMMA Bounds ==
    ASSUME NEW S, S \subseteq Int, NEW m \in S
    PROVE  /\ (\A y \in S : y <= m) => Max(S) = m
           /\ (\A y \in S : m <= y) => Min(S) = m
  <1>1. Max(S) = Adding!Max(S) /\ Min(S) = Adding!Min(S)
    BY Zenon DEF Max, Adding!Max, Min, Adding!Min
  <1> QED
    BY <1>1, Adding!MaxIs, Adding!MinIs

\* A run: its elements timed, none before the one ahead of it.
Ascends(run) ==
    /\ \E S : run \in Seq(S)
    /\ \A k \in 1..Len(run) : run[k].ts \in Int
    /\ \A k, m \in 1..Len(run) : k <= m => run[k].ts <= run[m].ts

\* What of a set of positions every earlier one is in, is the first so many.
LEMMA Prefix ==
    ASSUME NEW n \in Nat, NEW K, K \subseteq 1..n,
           \A k \in K : \A j \in 1..n : j <= k => j \in K
    PROVE  /\ Cardinality(K) \in 0..n
           /\ K = 1..Cardinality(K)
  <1>1. CASE K = {}
    BY <1>1, FS_EmptySet
  <1>2. CASE K # {}
    <2> DEFINE T == {n - k : k \in K}
    <2>0. \A k \in K : k \in 1..n /\ n - k \in Nat /\ n - k \in T
      OBVIOUS
    <2>1. T \subseteq Nat /\ T # {}
      BY <1>2, <2>0
    <2>2. PICK t \in T : \A s \in T : t <= s
      BY <2>1, Adding!Least
    <2>3. PICK m \in K : t = n - m
      BY <2>2
    <2>4. ASSUME NEW k \in K
          PROVE  k <= m
      <3>1. n - m <= n - k
        BY <2>0, <2>2, <2>3
      <3> QED
        BY <2>0, <3>1
    <2>5. K = 1..m /\ m \in 1..n
      <3> HIDE DEF T
      <3>0. m \in 1..n /\ \A k \in K : k \in 1..n /\ k <= m
        BY <2>0, <2>4
      <3>1. m \in 1..n /\ K \subseteq 1..m
        BY <3>0
      <3>2. 1..m \subseteq K
        BY <3>1
      <3> QED
        BY <3>1, <3>2
    <2>6. Cardinality(1..m) = m
      BY <2>5, FS_Interval
    <2> QED
      BY <2>5, <2>6
  <1> QED
    BY <1>1, <1>2

\* UpTo is where a run is cut by an instant.
LEMMA UpToIs ==
    ASSUME NEW run, Ascends(run), NEW cut \in Int
    PROVE  /\ UpTo(run, cut) \in 0..Len(run)
           /\ \A k \in 1..Len(run) : k <= UpTo(run, cut) <=> run[k].ts <= cut
  <1> DEFINE n == Len(run)
             K == {k \in DOMAIN run : run[k].ts <= cut}
  <1>1. n \in Nat /\ DOMAIN run = 1..n
    BY DEF Ascends
  <1>2. K \subseteq 1..n /\ \A k \in K : \A j \in 1..n : j <= k => j \in K
    BY <1>1 DEF Ascends
  <1>3. Cardinality(K) \in 0..n /\ K = 1..Cardinality(K)
    <2> HIDE DEF K, n
    <2> QED
      BY <1>1, <1>2, Prefix
  <1>4. UpTo(run, cut) = Cardinality(K)
    BY DEF UpTo
  <1>5. \A k \in 1..n : k \in K <=> run[k].ts <= cut
    BY <1>1
  <1> HIDE DEF K
  <1> QED
    BY <1>1, <1>3, <1>4, <1>5

\* And whatever cuts it there is UpTo.
LEMMA CutIs ==
    ASSUME NEW run, Ascends(run), NEW cut \in Int, NEW m \in 0..Len(run),
           \A k \in 1..Len(run) : k <= m <=> run[k].ts <= cut
    PROVE  m = UpTo(run, cut)
  <1>1. /\ UpTo(run, cut) \in 0..Len(run) /\ Len(run) \in Nat
        /\ \A k \in 1..Len(run) : k <= UpTo(run, cut) <=> run[k].ts <= cut
    BY UpToIs DEF Ascends
  <1> DEFINE u == UpTo(run, cut)
  <1> HIDE DEF u
  <1>2. u \in 0..Len(run) /\ Len(run) \in Nat
        /\ \A k \in 1..Len(run) : k <= u <=> run[k].ts <= cut
    BY <1>1 DEF u
  <1>3. m <= u
    <2>1. m \in 1..Len(run) => m <= u
      BY <1>2
    <2> QED
      BY <1>2, <2>1
  <1>4. u <= m
    <2>1. u \in 1..Len(run) => u <= m
      BY <1>2
    <2> QED
      BY <1>2, <2>1
  <1> QED
    BY <1>2, <1>3, <1>4 DEF u

-----------------------------------------------------------------------------
(* What a reach keeps of a run.                                            *)

Reaches == [kind : {"elems", "over"}, n : Nat \ {0}]

\* The k-th of a run is further back than h reaches from its end.
Beyond(run, h, k) ==
    IF h.kind = "elems" THEN Len(run) - k >= h.n ELSE run[k].ts <= Last(run).ts - h.n

\* Trim counts those, and keeps the last.
LEMMA TrimIs ==
    ASSUME NEW run, Ascends(run), NEW h \in Reaches
    PROVE  /\ Trim(run, h) \in 0..Len(run) /\ Len(run) \in Nat
           /\ \A k \in 1..Len(run) : k <= Trim(run, h) <=> Beyond(run, h, k)
           /\ run # <<>> => Trim(run, h) < Len(run)
  <1> DEFINE n == Len(run)
             m == Trim(run, h)
  <1>0. n \in Nat /\ DOMAIN run = 1..n /\ h.n \in Nat \ {0} /\ h.kind \in {"elems", "over"}
    BY DEF Ascends, Reaches
  <1>1. CASE h.kind = "elems"
    <2>1. m = Max({n - h.n, 0})
      BY <1>1 DEF Trim
    <2>2. m = IF n - h.n <= 0 THEN 0 ELSE n - h.n
      <3> HIDE DEF m, n
      <3> QED
        BY <1>0, <2>1, OfPair
    <2>3. \A k \in 1..n : Beyond(run, h, k) <=> n - k >= h.n
      BY <1>1 DEF Beyond
    <2>4. run # <<>> => n > 0
      BY <1>0 DEF Ascends
    <2> HIDE DEF m, n
    <2>5. m \in 0..n /\ (\A k \in 1..n : k <= m <=> n - k >= h.n) /\ (run # <<>> => m < n)
      BY <1>0, <2>2, <2>4
    <2> QED
      BY <1>0, <2>3, <2>5 DEF m, n
  <1>2. CASE h.kind = "over"
    <2>1. CASE run = <<>>
      <3>1. m = 0 /\ n = 0
        BY <1>2, <2>1 DEF Trim
      <3> QED
        BY <2>1, <3>1
    <2>2. CASE run # <<>>
      <3>1. m = UpTo(run, Last(run).ts - h.n) /\ n > 0 /\ Last(run) = run[n]
        BY <1>0, <1>2, <2>2 DEF Trim, Last, Ascends
      <3>2. Last(run).ts \in Int /\ Last(run).ts - h.n \in Int
        BY <1>0, <3>1 DEF Ascends
      <3>3. m \in 0..n /\ \A k \in 1..n : k <= m <=> run[k].ts <= Last(run).ts - h.n
        BY <3>1, <3>2, UpToIs
      <3>4. \A k \in 1..n : Beyond(run, h, k) <=> run[k].ts <= Last(run).ts - h.n
        BY <1>2 DEF Beyond
      <3>5. m < n
        <4> HIDE DEF m, n
        <4>1. ~ (run[n].ts <= Last(run).ts - h.n)
          BY <1>0, <3>1, <3>2
        <4> QED
          BY <1>0, <3>1, <3>3, <4>1
      <3> QED
        BY <1>0, <3>3, <3>4, <3>5
    <2> QED
      BY <2>1, <2>2
  <1> QED
    BY <1>0, <1>1, <1>2

\* And whatever does is Trim.
LEMMA TrimOnly ==
    ASSUME NEW run, Ascends(run), NEW h \in Reaches, NEW m \in 0..Len(run),
           \A k \in 1..Len(run) : k <= m <=> Beyond(run, h, k)
    PROVE  m = Trim(run, h)
  <1> DEFINE t == Trim(run, h)
             n == Len(run)
  <1>1. t \in 0..n /\ n \in Nat /\ \A k \in 1..n : k <= t <=> k <= m
    BY TrimIs
  <1> HIDE DEF t, n
  <1>2. m \in 0..n
    BY DEF n
  <1>3. (t \in 1..n => t <= m) /\ (m \in 1..n => m <= t)
    BY <1>1, <1>2
  <1>4. m = t
    BY <1>1, <1>2, <1>3
  <1> QED
    BY <1>4 DEF t

\* The run from its m-th element on.
After(run, m) == SubSeq(run, m + 1, Len(run))

LEMMA AfterIs ==
    ASSUME NEW S, NEW run \in Seq(S), NEW m \in 0..Len(run)
    PROVE  /\ After(run, m) \in Seq(S) /\ Len(After(run, m)) = Len(run) - m
           /\ \A k \in 1..(Len(run) - m) : After(run, m)[k] = run[m + k]
           /\ \A d \in 0..(Len(run) - m) : After(After(run, m), d) = After(run, m + d)
           /\ \A more \in Seq(S) : After(run \o more, m) = After(run, m) \o more
           /\ After(run, 0) = run
  <1> DEFINE n == Len(run)
             s == After(run, m)
  <1>1. n \in Nat /\ m \in 0..n
    OBVIOUS
  <1>2. s \in Seq(S) /\ Len(s) = n - m /\ \A k \in 1..(n - m) : s[k] = run[m + k]
    <2>1. s \in Seq(S) /\ Len(s) = n - m
      BY <1>1 DEF After
    <2>2. ASSUME NEW k \in 1..(n - m)
          PROVE  s[k] = run[m + k]
      <3>1. s[k] = run[m + 1 + k - 1]
        BY <1>1 DEF After
      <3> QED
        BY <1>1, <3>1
    <2> QED
      BY <2>1, <2>2
  <1>3. ASSUME NEW d \in 0..(n - m)
        PROVE  After(s, d) = After(run, m + d)
    <2> DEFINE a == After(s, d)
               b == After(run, m + d)
    <2>1. a \in Seq(S) /\ Len(a) = n - m - d /\ \A k \in 1..(n - m - d) : a[k] = s[d + k]
      <3> HIDE DEF s, n
      <3>1. d \in 0..Len(s) /\ Len(s) \in Nat
        BY <1>1, <1>2
      <3>2. a \in Seq(S) /\ Len(a) = Len(s) - d
        BY <1>2, <3>1 DEF After
      <3>3. ASSUME NEW k \in 1..(n - m - d)
            PROVE  a[k] = s[d + k]
        <4>1. a[k] = s[d + 1 + k - 1] /\ k \in Int
          BY <1>1, <1>2, <3>1 DEF After
        <4> QED
          BY <3>1, <4>1
      <3> QED
        BY <1>2, <3>2, <3>3
    <2>2. b \in Seq(S) /\ Len(b) = n - m - d /\ \A k \in 1..(n - m - d) : b[k] = run[m + d + k]
      <3>1. m + d \in 0..n
        BY <1>1
      <3>2. b \in Seq(S) /\ Len(b) = n - (m + d)
        BY <1>1, <3>1 DEF After
      <3>3. ASSUME NEW k \in 1..(n - m - d)
            PROVE  b[k] = run[m + d + k]
        <4>1. b[k] = run[m + d + 1 + k - 1]
          BY <1>1, <3>1 DEF After
        <4> QED
          BY <1>1, <4>1
      <3> QED
        BY <1>1, <3>2, <3>3
    <2> HIDE DEF a, b, s, n
    <2>3. \A k \in 1..(n - m - d) : s[d + k] = run[m + d + k]
      BY <1>1, <1>2
    <2>4. \A k \in 1..Len(a) : a[k] = b[k]
      BY <2>1, <2>2, <2>3
    <2>5. a = b
      BY <2>1, <2>2, <2>4
    <2> QED
      BY <2>5 DEF a, b
  <1>4. ASSUME NEW more \in Seq(S)
        PROVE  After(run \o more, m) = s \o more
    BY Adding!SubSeqOn DEF After
  <1>5. After(run, 0) = run
    BY DEF After
  <1> QED
    BY <1>2, <1>3, <1>4, <1>5

\* A run read from its m-th element on reaches as far back as it still can.
LEMMA TrimAfter ==
    ASSUME NEW run, Ascends(run), NEW h \in Reaches, NEW m \in 0..Len(run)
    PROVE  /\ Ascends(After(run, m))
           /\ Trim(After(run, m), h) = IF Trim(run, h) >= m THEN Trim(run, h) - m ELSE 0
  <1> DEFINE s == After(run, m)
             n == Len(run)
             t == Trim(run, h)
             u == IF t >= m THEN t - m ELSE 0
  <1>1. PICK S : run \in Seq(S)
    BY DEF Ascends
  <1>2. /\ s \in Seq(S) /\ Len(s) = n - m /\ n \in Nat
        /\ \A k \in 1..(n - m) : s[k] = run[m + k]
    BY <1>1, AfterIs
  <1>3. /\ t \in 0..n /\ \A k \in 1..n : k <= t <=> Beyond(run, h, k)
    BY TrimIs
  <1>4. Ascends(s)
    <2> HIDE DEF s, n
    <2>1. \A k \in 1..Len(s) : m + k \in 1..n /\ s[k] = run[m + k]
      BY <1>2
    <2>2. \A k \in 1..n : run[k].ts \in Int
      BY DEF Ascends, n
    <2>3. \A k, j \in 1..n : k <= j => run[k].ts <= run[j].ts
      BY DEF Ascends, n
    <2>4. ASSUME NEW k \in 1..Len(s), NEW j \in 1..Len(s), k <= j
          PROVE  s[k].ts <= s[j].ts
      <3>1. m + k <= m + j
        BY <2>4, <1>2
      <3> QED
        BY <2>1, <2>3, <3>1
    <2>5. \A k \in 1..Len(s) : s[k].ts \in Int
      BY <2>1, <2>2
    <2> QED
      BY <1>2, <2>4, <2>5 DEF Ascends
  <1>5. ASSUME NEW k \in 1..Len(s)
        PROVE  Beyond(s, h, k) <=> Beyond(run, h, m + k)
    <2> HIDE DEF s, n
    <2>1. /\ Len(s) > 0 /\ s # <<>> /\ run # <<>> /\ k \in 1..(n - m) /\ s[k] = run[m + k]
          /\ Len(s) \in 1..(n - m) /\ m + Len(s) = n
      BY <1>1, <1>2 DEF n
    <2>2. Last(s) = Last(run)
      BY <1>2, <2>1 DEF Last, n
    <2>3. Len(s) - k = n - (m + k)
      BY <1>2, <2>1
    <2> QED
      BY <2>1, <2>2, <2>3 DEF Beyond, n
  <1>6. u \in 0..Len(s) /\ \A k \in 1..Len(s) : k <= u <=> Beyond(s, h, k)
    <2> HIDE DEF s, n, t
    <2>1. u \in 0..Len(s)
      BY <1>2, <1>3
    <2>2. ASSUME NEW k \in 1..Len(s)
          PROVE  k <= u <=> Beyond(s, h, k)
      <3>1. m + k \in 1..n
        BY <1>2
      <3>2. m + k <= t <=> Beyond(s, h, k)
        BY <1>3, <1>5, <3>1
      <3>3. k <= u <=> m + k <= t
        BY <1>2, <1>3
      <3> QED
        BY <3>2, <3>3
    <2> QED
      BY <2>1, <2>2
  <1>7. u = Trim(s, h)
    <2> HIDE DEF s, u
    <2> QED
      BY <1>4, <1>6, TrimOnly
  <1> QED
    BY <1>4, <1>7

\* What a reach has left behind stays behind as the run grows.
LEMMA TrimGrows ==
    ASSUME NEW run, NEW k \in 0..Len(run), Ascends(run), NEW h \in Reaches
    PROVE  /\ Ascends(SubSeq(run, 1, k))
           /\ Trim(SubSeq(run, 1, k), h) <= Trim(run, h)
  <1> DEFINE s == SubSeq(run, 1, k)
             n == Len(run)
             t == Trim(s, h)
  <1>1. PICK S : run \in Seq(S)
    BY DEF Ascends
  <1>2. n \in Nat /\ s \in Seq(S) /\ Len(s) = k /\ \A j \in 1..k : j \in 1..n /\ s[j] = run[j]
    BY <1>1
  <1> HIDE DEF s
  <1>3. Ascends(s)
    BY <1>2 DEF Ascends
  <1>4. /\ t \in 0..k /\ \A j \in 1..k : j <= t <=> Beyond(s, h, j)
    BY <1>2, <1>3, TrimIs
  <1>5. /\ Trim(run, h) \in 0..n /\ \A j \in 1..n : j <= Trim(run, h) <=> Beyond(run, h, j)
    BY TrimIs
  <1> DEFINE u == Trim(run, h)
  <1> HIDE DEF t, u, n
  <1>8. u \in 0..n /\ \A j \in 1..n : j <= u <=> Beyond(run, h, j)
    BY <1>5 DEF u
  <1>6. t = 0 => t <= u
    BY <1>8
  <1>7. ASSUME t # 0
        PROVE  t <= u
    <2>0. k \in 0..n
      BY DEF n
    <2>1. t \in 1..k /\ t \in 1..n /\ k \in 1..n /\ n \in 1..n /\ s # <<>> /\ run # <<>>
      BY <1>1, <1>2, <1>4, <1>7, <2>0 DEF n
    <2>2. Beyond(s, h, t)
      BY <1>4, <2>1
    <2>3. Last(s) = run[k] /\ Last(run) = run[n] /\ s[t] = run[t]
      BY <1>2, <2>1 DEF Last, n
    <2>4. run[t].ts \in Int /\ run[k].ts \in Int /\ run[n].ts \in Int /\ run[k].ts <= run[n].ts
      BY <2>1 DEF Ascends, n
    <2>5. h.n \in Nat /\ h.kind \in {"elems", "over"}
      BY DEF Reaches
    <2>6. Beyond(run, h, t)
      <3>1. CASE h.kind = "elems"
        BY <1>2, <2>1, <2>2, <2>5, <3>1 DEF Beyond, n
      <3>2. CASE h.kind = "over"
        BY <2>2, <2>3, <2>4, <2>5, <3>2 DEF Beyond
      <3> QED
        BY <2>5, <3>1, <3>2
    <2> QED
      BY <1>8, <2>1, <2>6
  <1> QED
    BY <1>3, <1>6, <1>7 DEF s, t, u

\* A reach behind another of its kind leaves more of the run.
LEMMA TrimDeeper ==
    ASSUME NEW run, Ascends(run), NEW h \in Reaches, NEW r \in Reaches,
           h.kind = r.kind, h.n >= r.n
    PROVE  Trim(run, h) <= Trim(run, r)
  <1> DEFINE n == Len(run)
             t == Trim(run, h)
  <1>1. /\ n \in Nat /\ t \in 0..n /\ \A j \in 1..n : j <= t <=> Beyond(run, h, j)
    BY TrimIs
  <1>2. /\ Trim(run, r) \in 0..n /\ \A j \in 1..n : j <= Trim(run, r) <=> Beyond(run, r, j)
    BY TrimIs
  <1>3. CASE t = 0
    BY <1>1, <1>2, <1>3
  <1>4. CASE t # 0
    <2> HIDE DEF t, n
    <2>1. t \in 1..n /\ n \in 1..n
      BY <1>1, <1>4
    <2>2. Beyond(run, h, t)
      BY <1>1, <2>1
    <2>3. run[t].ts \in Int /\ Last(run).ts \in Int /\ Len(run) = n
      BY <2>1 DEF Ascends, Last, n
    <2>4. h.n \in Nat /\ r.n \in Nat
      BY DEF Reaches
    <2>5. Beyond(run, r, t)
      BY <1>1, <2>1, <2>2, <2>3, <2>4 DEF Beyond
    <2> QED
      BY <1>2, <2>1, <2>5 DEF t
  <1> QED
    BY <1>3, <1>4

-----------------------------------------------------------------------------
(* The buffer of a series.                                                 *)

\* A run, as it was before its last f elements.
Before(run, f) == SubSeq(run, 1, Len(run) - f)

\* A buffer at h over a run whose last f elements came with this batch: it holds
\* what h reached to before them, and them.
Buffers(rows, run, f, h) ==
    /\ f \in 0..Len(run) /\ rows.fresh = f
    /\ \E S : rows.buf \in Seq(S)
    /\ rows.cur \in 0..Len(rows.buf)
    /\ RowsWindow(rows) = After(run, Trim(Before(run, f), h))

\* Its mark is at the first element of all, or at the last it has dropped.
Marked(rows, run, f, h) ==
    LET d == Trim(Before(run, f), h)
    IN  IF run = <<>> THEN rows.watermark = NoTs
        ELSE rows.watermark = run[1].ts \/ (d > 0 /\ rows.watermark = run[d].ts)

\* How far it has trimmed.
LEMMA Trimmed ==
    ASSUME NEW run, Ascends(run), NEW f \in 0..Len(run), NEW h \in Reaches
    PROVE  LET d == Trim(Before(run, f), h)
           IN  /\ Ascends(Before(run, f)) /\ Len(Before(run, f)) = Len(run) - f /\ Len(run) \in Nat
               /\ \A k \in 1..(Len(run) - f) : Before(run, f)[k] = run[k]
               /\ d \in 0..(Len(run) - f) /\ d <= Trim(run, h)
               /\ Len(run) > f => d < Len(run) - f
               /\ \A k \in 1..(Len(run) - f) : k <= d <=> Beyond(Before(run, f), h, k)
  <1> DEFINE n == Len(run)
             b == Before(run, f)
  <1>1. PICK S : run \in Seq(S)
    BY DEF Ascends
  <1>2. n \in Nat /\ n - f \in 0..n
    BY <1>1
  <1>3. Ascends(b) /\ Trim(b, h) <= Trim(run, h)
    BY <1>2, TrimGrows DEF Before
  <1>4. Len(b) = n - f /\ \A k \in 1..(n - f) : b[k] = run[k]
    <2> DEFINE m == n - f
    <2>1. b = SubSeq(run, 1, m) /\ m \in 0..n
      BY <1>2 DEF Before
    <2> HIDE DEF m, b
    <2>2. Len(b) = m /\ \A k \in 1..m : b[k] = run[k]
      BY <1>1, <2>1
    <2> QED
      BY <2>2 DEF m
  <1> HIDE DEF b
  <1>5. /\ Trim(b, h) \in 0..Len(b) /\ (b # <<>> => Trim(b, h) < Len(b))
        /\ \A k \in 1..Len(b) : k <= Trim(b, h) <=> Beyond(b, h, k)
    BY <1>3, TrimIs
  <1>6. n > f => b # <<>>
    BY <1>2, <1>4
  <1> QED
    BY <1>2, <1>3, <1>4, <1>5, <1>6 DEF b

\* Rows::advance: what a batch leaves of a buffer.
LEMMA Advances ==
    ASSUME NEW S, NEW run \in Seq(S), NEW fresh \in Seq(S), Ascends(run), NEW h \in Reaches,
           NEW rows, NEW f, Buffers(rows, run, f, h)
    PROVE  Buffers(AdvanceRows(rows, fresh, h), run \o fresh, Len(fresh), h)
  <1> DEFINE win == RowsWindow(rows)
             drop == Trim(win, h)
             cur == rows.cur + drop
             d == Trim(Before(run, f), h)
             next == AdvanceRows(rows, fresh, h)
             n == Len(run)
             buf == rows.buf
  <1>1. PICK R : buf \in Seq(R)
    BY DEF Buffers
  <1>2. /\ rows.cur \in 0..Len(buf) /\ Len(buf) \in Nat /\ f \in 0..n /\ n \in Nat
        /\ win = After(run, d) /\ Len(fresh) \in Nat
    BY <1>1 DEF Buffers
  <1>3. d \in 0..(n - f) /\ d <= Trim(run, h) /\ d \in 0..n
    BY <1>2, Trimmed
  <1>4. drop = Trim(run, h) - d /\ Ascends(win)
    BY <1>2, <1>3, TrimAfter
  <1>5. Trim(run, h) \in 0..n
    BY TrimIs
  <1>6. Len(win) = n - d /\ drop \in 0..Len(win)
    <2>1. Len(After(run, d)) = n - d
      BY <1>3, AfterIs
    <2> HIDE DEF d, drop, n, win
    <2> QED
      BY <1>2, <1>3, <1>4, <1>5, <2>1
  <1>7. win = After(buf, rows.cur) /\ Len(win) = Len(buf) - rows.cur
    <2>1. win = After(buf, rows.cur)
      BY DEF RowsWindow, After
    <2> QED
      BY <1>1, <1>2, <2>1, AfterIs
  <1>8. cur \in 0..Len(buf) /\ After(buf, cur) = After(run, Trim(run, h))
    <2>1. After(win, drop) = After(buf, rows.cur + drop)
      <3> HIDE DEF win, drop
      <3>1. drop \in 0..(Len(buf) - rows.cur)
        BY <1>6, <1>7
      <3> QED
        BY <1>1, <1>2, <1>7, <3>1, AfterIs
    <2>2. After(win, drop) = After(run, d + drop)
      <3> HIDE DEF win, drop, d
      <3> QED
        BY <1>2, <1>3, <1>6, AfterIs
    <2>3. d + drop = Trim(run, h)
      <3> HIDE DEF drop, d
      <3> QED
        BY <1>3, <1>4, <1>5
    <2>4. cur \in 0..Len(buf)
      <3> HIDE DEF win, drop, buf
      <3> QED
        BY <1>2, <1>6, <1>7
    <2> QED
      BY <2>1, <2>2, <2>3, <2>4
  <1>9. /\ next.fresh = Len(fresh)
        /\ \/ next.buf = buf \o fresh /\ next.cur = cur
           \/ next.buf = After(buf, cur) \o fresh /\ next.cur = 0
    BY DEF AdvanceRows, After
  <1>10. /\ \E T : next.buf \in Seq(T)
         /\ next.cur \in 0..Len(next.buf)
         /\ RowsWindow(next) = After(buf, cur) \o fresh
    <2> DEFINE T == R \cup S
    <2>1. buf \in Seq(T) /\ fresh \in Seq(T)
      BY <1>1
    <2> HIDE DEF T, buf, cur, next
    <2>2. CASE next.buf = buf \o fresh /\ next.cur = cur
      <3>1. /\ next.buf \in Seq(T) /\ Len(next.buf) = Len(buf) + Len(fresh)
        BY <2>1, <2>2
      <3>2. After(buf \o fresh, cur) = After(buf, cur) \o fresh
        BY <1>8, <2>1, AfterIs
      <3>3. RowsWindow(next) = After(buf, cur) \o fresh
        BY <2>2, <3>2 DEF RowsWindow, After
      <3>4. next.cur \in 0..Len(next.buf)
        BY <1>2, <1>8, <2>2, <3>1
      <3> QED
        BY <3>1, <3>3, <3>4
    <2>3. CASE next.buf = After(buf, cur) \o fresh /\ next.cur = 0
      <3>1. After(buf, cur) \in Seq(T)
        BY <1>8, <2>1, AfterIs
      <3>2. next.buf \in Seq(T) /\ Len(next.buf) \in Nat
        BY <2>1, <2>3, <3>1
      <3>3. RowsWindow(next) = next.buf
        BY <2>3, <3>2 DEF RowsWindow
      <3> QED
        BY <2>3, <3>2, <3>3
    <2> QED
      BY <1>9, <2>2, <2>3
  <1>11. RowsWindow(next) = After(run \o fresh, Trim(run, h))
    <2> DEFINE t == Trim(run, h)
    <2> HIDE DEF t
    <2>1. t \in 0..Len(run)
      BY <1>5 DEF t
    <2>2. After(run \o fresh, t) = After(run, t) \o fresh
      BY <2>1, AfterIs
    <2> QED
      BY <1>8, <1>10, <2>2 DEF t
  <1>12. Before(run \o fresh, Len(fresh)) = run /\ Len(fresh) \in 0..Len(run \o fresh)
    <2>1. Len(run \o fresh) = n + Len(fresh)
      BY <1>2
    <2>2. SubSeq(run \o fresh, 1, n) = run
      BY <1>2
    <2>3. Len(run \o fresh) - Len(fresh) = n
      BY <1>2, <2>1
    <2> QED
      BY <1>2, <2>1, <2>2, <2>3 DEF Before
  <1> HIDE DEF next
  <1> QED
    BY <1>9, <1>10, <1>11, <1>12 DEF Buffers, next

\* What is dropped leaves its mark.
LEMMA Marks ==
    ASSUME NEW S, NEW run \in Seq(S), NEW fresh \in Seq(S), Ascends(run), NEW h \in Reaches,
           NEW rows, NEW f, Buffers(rows, run, f, h), Marked(rows, run, f, h),
           \A k \in 1..Len(run) : run[k].ts \in Nat,
           \A k \in 1..Len(fresh) : fresh[k].ts \in Nat
    PROVE  Marked(AdvanceRows(rows, fresh, h), run \o fresh, Len(fresh), h)
  <1> DEFINE win == RowsWindow(rows)
             drop == Trim(win, h)
             d == Trim(Before(run, f), h)
             e == Trim(run, h)
             was == rows.watermark
             mark == IF drop > 0 THEN Max({was, win[drop].ts}) ELSE was
             next == AdvanceRows(rows, fresh, h)
             all == run \o fresh
             n == Len(run)
  <1>1. f \in 0..n /\ n \in Nat /\ win = After(run, d) /\ Len(fresh) \in Nat
    BY DEF Buffers
  <1>2. d \in 0..(n - f) /\ d <= e /\ d \in 0..n
    BY <1>1, Trimmed
  <1>3. drop = e - d
    BY <1>1, <1>2, TrimAfter
  <1>4. e \in 0..n
    BY TrimIs
  <1>5. \A k \in 1..(n - d) : win[k] = run[d + k]
    <2> HIDE DEF d, win
    <2> QED
      BY <1>1, <1>2, AfterIs
  <1>6. next.watermark = IF mark = NoTs /\ fresh # <<>> THEN fresh[1].ts ELSE mark
    BY DEF AdvanceRows
  <1>7. Trim(Before(all, Len(fresh)), h) = e
    <2>1. Before(all, Len(fresh)) = run
      <3>1. Len(run \o fresh) = n + Len(fresh)
        BY <1>1
      <3>2. SubSeq(run \o fresh, 1, n) = run
        BY <1>1
      <3>3. Len(run \o fresh) - Len(fresh) = n
        BY <1>1, <3>1
      <3> QED
        BY <1>1, <3>1, <3>2, <3>3 DEF Before
    <2> QED
      BY <2>1
  <1>8. /\ \A k \in 1..n : all[k] = run[k]
        /\ all = <<>> <=> run = <<>> /\ fresh = <<>>
        /\ run = <<>> /\ fresh # <<>> => all[1] = fresh[1]
    <2>1. Len(all) = n + Len(fresh) /\ all \in Seq(S) /\ \A k \in 1..n : all[k] = run[k]
      BY <1>1
    <2>2. run = <<>> => all = fresh
      OBVIOUS
    <2> HIDE DEF all
    <2> QED
      BY <1>1, <2>1, <2>2
  <1>9. run = <<>> => was = NoTs /\ n = 0
    BY DEF Marked
  <1>10. run # <<>> => /\ n > 0 /\ run[1].ts \in Nat
                       /\ was = run[1].ts \/ (d > 0 /\ was = run[d].ts)
    BY <1>1 DEF Marked
  <1> HIDE DEF win, drop, d, e, was, next, all, n
  <1>11. CASE run = <<>>
    <2>1. drop = 0 /\ mark = NoTs
      BY <1>1, <1>2, <1>3, <1>4, <1>9, <1>11
    <2>2. CASE fresh = <<>>
      BY <1>6, <1>7, <1>8, <1>11, <2>1, <2>2 DEF Marked, all, next, e
    <2>3. CASE fresh # <<>>
      <3>1. next.watermark = all[1].ts /\ all # <<>>
        BY <1>6, <1>8, <1>11, <2>1, <2>3
      <3> QED
        BY <3>1 DEF Marked, all, next
    <2> QED
      BY <2>2, <2>3
  <1>12. CASE run # <<>>
    <2>0. d \in 0..n /\ d <= e /\ e \in 0..n /\ n > 0 /\ n \in Nat /\ \A k \in 1..n : run[k].ts \in Nat
      BY <1>1, <1>2, <1>4, <1>10, <1>12 DEF n
    <2>1. was \in Nat
      BY <1>10, <1>12, <2>0
    <2>2. mark \in Nat /\ (mark = run[1].ts \/ (e > 0 /\ mark = run[e].ts))
      <3>1. CASE drop > 0
        <4>1. drop \in 1..(n - d) /\ d + drop = e /\ e \in 1..n
          BY <1>3, <2>0, <3>1
        <4>2. win[drop] = run[e] /\ run[e].ts \in Nat
          BY <1>5, <2>0, <4>1
        <4>3. was <= run[e].ts
          <5>1. \A k, m \in 1..n : k <= m => run[k].ts <= run[m].ts
            BY DEF Ascends, n
          <5>2. 1 \in 1..n /\ (d > 0 => d \in 1..n)
            BY <2>0
          <5> QED
            BY <1>10, <1>12, <2>0, <4>1, <5>1, <5>2
        <4>4. mark = run[e].ts
          <5> DEFINE x == run[e].ts
          <5>1. mark = Max({was, x})
            BY <3>1, <4>2
          <5>2. was \in Int /\ x \in Int /\ was <= x
            BY <2>1, <4>2, <4>3
          <5> HIDE DEF x, mark
          <5>3. mark = x
            BY <5>1, <5>2, OfPair
          <5> QED
            BY <5>3 DEF x
        <4> QED
          BY <4>1, <4>2, <4>4
      <3>2. CASE ~ (drop > 0)
        <4>1. d = e
          BY <1>3, <2>0, <3>2
        <4> QED
          BY <1>10, <1>12, <2>1, <3>2, <4>1
      <3> QED
        BY <3>1, <3>2
    <2> HIDE DEF mark
    <2>3. next.watermark = mark
      BY <1>6, <2>2 DEF NoTs
    <2>4. all # <<>> /\ all[1] = run[1] /\ (e > 0 => all[e] = run[e])
      BY <1>8, <1>12, <2>0
    <2>5. next.watermark = all[1].ts \/ (e > 0 /\ next.watermark = all[e].ts)
      BY <2>2, <2>3, <2>4
    <2> QED
      BY <1>7, <2>4, <2>5 DEF Marked, all, next
  <1> QED
    BY <1>11, <1>12

\* Hist::all: what a read declared at r sees of a buffer at h.
LEMMA Sees ==
    ASSUME NEW S, NEW run \in Seq(S), Ascends(run), NEW h \in Reaches, NEW r \in Reaches,
           NEW rows, NEW f, Buffers(rows, run, f, h)
    PROVE  LET d == Trim(Before(run, f), h)
               e == Trim(Before(run, f), r)
           IN  All(ViewRows(rows, r)) = After(run, IF e >= d THEN e ELSE d)
  <1> DEFINE b == Before(run, f)
             d == Trim(b, h)
             e == Trim(b, r)
             n == Len(run)
             win == After(run, d)
             behind == SubSeq(win, 1, Len(win) - f)
             m == IF e >= d THEN e ELSE d
  <1>1. f \in 0..n /\ n \in Nat /\ RowsWindow(rows) = win /\ rows.fresh = f
    BY DEF Buffers
  <1>2. d \in 0..(n - f) /\ e \in 0..(n - f) /\ Ascends(b) /\ Len(b) = n - f
    BY <1>1, Trimmed
  <1>3. All(ViewRows(rows, r)) = After(win, Trim(behind, r))
    BY <1>1 DEF All, ViewRows, After
  <1>4. behind = After(b, d)
    <2>1. /\ win \in Seq(S) /\ Len(win) = n - d /\ \A k \in 1..(n - d) : win[k] = run[d + k]
      <3> HIDE DEF d
      <3>1. d \in 0..Len(run)
        BY <1>1, <1>2
      <3> QED
        BY <3>1, AfterIs
    <2>2. b \in Seq(S) /\ \A k \in 1..(n - f) : b[k] = run[k]
      <3>1. n - f \in 0..n
        BY <1>1
      <3> DEFINE q == n - f
      <3>2. b = SubSeq(run, 1, q) /\ q \in 0..n
        BY <3>1 DEF Before
      <3> HIDE DEF q, b
      <3>3. b \in Seq(S) /\ \A k \in 1..q : b[k] = run[k]
        BY <3>2
      <3> QED
        BY <3>3 DEF q
    <2> HIDE DEF b, d, win, n
    <2>3. /\ After(b, d) \in Seq(S) /\ Len(After(b, d)) = n - f - d
          /\ \A k \in 1..(n - f - d) : After(b, d)[k] = b[d + k]
      <3>1. d \in 0..Len(b)
        BY <1>1, <1>2
      <3>2. /\ After(b, d) \in Seq(S) /\ Len(After(b, d)) = Len(b) - d
            /\ \A k \in 1..(Len(b) - d) : After(b, d)[k] = b[d + k]
        BY <2>2, <3>1, AfterIs
      <3> QED
        BY <1>2, <3>2
    <2>4. Len(win) - f = n - d - f /\ n - d - f \in 0..Len(win)
      BY <1>1, <1>2, <2>1
    <2>5. behind \in Seq(S) /\ Len(behind) = n - d - f /\ \A k \in 1..(n - d - f) : behind[k] = win[k]
      <3> DEFINE q == n - d - f
      <3>1. behind = SubSeq(win, 1, q) /\ q \in 0..Len(win)
        BY <2>4
      <3> HIDE DEF q, behind
      <3>2. behind \in Seq(S) /\ Len(behind) = q /\ \A k \in 1..q : behind[k] = win[k]
        BY <2>1, <3>1
      <3> QED
        BY <3>2 DEF q
    <2> HIDE DEF behind
    <2>6. n - f - d = n - d - f /\ n - d - f \in Nat
      BY <1>1, <1>2
    <2>7. ASSUME NEW k \in 1..(n - d - f)
          PROVE  behind[k] = After(b, d)[k]
      <3>1. k \in 1..(n - d) /\ d + k \in 1..(n - f)
        BY <1>1, <1>2
      <3> QED
        BY <2>1, <2>2, <2>3, <2>5, <2>6, <3>1
    <2> DEFINE a == After(b, d)
    <2>8. a \in Seq(S) /\ Len(a) = Len(behind) /\ \A k \in 1..Len(behind) : behind[k] = a[k]
      BY <2>3, <2>5, <2>6, <2>7
    <2> HIDE DEF a
    <2>9. behind = a
      BY <2>5, <2>8
    <2> QED
      BY <2>9 DEF a
  <1>5. Trim(behind, r) = IF e >= d THEN e - d ELSE 0
    <2> HIDE DEF d, b, behind
    <2>1. d \in 0..Len(b)
      BY <1>2
    <2> QED
      BY <1>2, <1>4, <2>1, TrimAfter
  <1>6. After(win, Trim(behind, r)) = After(run, m)
    <2> HIDE DEF d, e, b, behind, n
    <2> DEFINE t == Trim(behind, r)
    <2>1. t \in 0..(n - d) /\ d + t = m /\ d \in 0..n
      BY <1>1, <1>2, <1>5
    <2> HIDE DEF t, m
    <2>2. After(After(run, d), t) = After(run, d + t)
      BY <2>1, AfterIs DEF n
    <2> QED
      BY <2>1, <2>2 DEF t
  <1> QED
    BY <1>3, <1>6

\* Hist::lagged_at: the element before a fresh one is there, or there was none.
LEMMA LagsOne ==
    ASSUME NEW S, NEW run \in Seq(S), Ascends(run), NEW h \in Reaches,
           NEW rows, NEW f, Buffers(rows, run, f, h), NEW i \in 1..f
    PROVE  LET j == Len(run) - f + i
           IN  /\ j \in 1..Len(run)
               /\ LaggedAt(ViewRows(rows, Elems(2)), i, 1)
                    = IF j = 1 THEN None ELSE Some(run[j - 1])
  <1> DEFINE n == Len(run)
             r == Elems(2)
             d == Trim(Before(run, f), h)
             e == Trim(Before(run, f), r)
             m == IF e >= d THEN e ELSE d
             all == All(ViewRows(rows, r))
             j == n - f + i
             at == Len(all) - f + i - 1
  <1>0. r \in Reaches
    BY DEF Elems, Reaches
  <1>1. f \in 0..n /\ n \in Nat /\ i \in Nat
    BY DEF Buffers
  <1>2. /\ d \in 0..(n - f) /\ e \in 0..(n - f)
        /\ n > f => d < n - f /\ e < n - f
    <2> HIDE DEF r
    <2> QED
      BY <1>0, <1>1, Trimmed
  <1>3. all = After(run, m)
    <2> HIDE DEF r
    <2> QED
      BY <1>0, Sees
  <1>4. LaggedAt(ViewRows(rows, r), i, 1) = IF at >= 1 THEN Some(all[at]) ELSE None
    <2>1. ViewRows(rows, r).fresh = f
      BY DEF ViewRows, Buffers
    <2> QED
      BY <2>1 DEF LaggedAt
  <1> HIDE DEF all, r, d, e
  <1>5. m \in 0..n /\ m <= n - f /\ (n > f => m < n - f)
    BY <1>1, <1>2
  <1> HIDE DEF m
  <1>6. Len(all) = n - m /\ \A k \in 1..(n - m) : all[k] = run[m + k]
    BY <1>3, <1>5, AfterIs
  <1>7. at = j - 1 - m /\ j \in 1..n
    BY <1>1, <1>5, <1>6
  <1>8. CASE j = 1
    <2>1. ~ (at >= 1)
      BY <1>5, <1>7, <1>8
    <2> QED
      BY <1>4, <1>7, <1>8, <2>1 DEF r
  <1>9. CASE j # 1
    <2>1. at \in 1..(n - m) /\ m + at = j - 1
      <3>1. j - 1 > m
        BY <1>1, <1>5, <1>7, <1>9
      <3> QED
        BY <1>1, <1>5, <1>7, <3>1
    <2>2. all[at] = run[j - 1]
      BY <1>6, <2>1
    <2> QED
      BY <1>4, <1>7, <1>9, <2>1, <2>2 DEF r
  <1> QED
    BY <1>8, <1>9

\* A stretch of a run's rest is a stretch of the run.
LEMMA Stretches ==
    ASSUME NEW S, NEW rest \in Seq(S), NEW run \in Seq(S), NEW d \in Nat,
           NEW e \in 1..Len(rest), NEW p \in 1..e, d + e <= Len(run),
           \A k \in 1..e : rest[k] = run[d + k]
    PROVE  SubSeq(rest, p, e) = SubSeq(run, d + p, d + e)
  <1> DEFINE q == d + p
             j == d + e
             l == e - p + 1
             a == SubSeq(rest, p, e)
             b == SubSeq(run, q, j)
  <1>1. /\ p \in 1..Len(rest) /\ e \in 1..Len(rest) /\ q \in 1..Len(run) /\ j \in 1..Len(run)
        /\ j - q + 1 = l /\ l \in Nat /\ q \in Int /\ p \in Int
    OBVIOUS
  <1>2. a \in Seq(S) /\ Len(a) = l /\ \A k \in 1..l : a[k] = rest[p + k - 1]
    BY <1>1
  <1>3. b \in Seq(S) /\ Len(b) = l /\ \A k \in 1..l : b[k] = run[q + k - 1]
    <2> HIDE DEF q, j
    <2>1. b \in Seq(S) /\ Len(b) = j - q + 1 /\ \A k \in 1..(j - q + 1) : b[k] = run[q + k - 1]
      BY <1>1
    <2> HIDE DEF l, b
    <2> QED
      BY <1>1, <2>1
  <1>4. ASSUME NEW k \in 1..l
        PROVE  a[k] = b[k]
    <2>1. p + k - 1 \in 1..e /\ d + (p + k - 1) = q + k - 1
      OBVIOUS
    <2> HIDE DEF a, b, q, l
    <2> QED
      BY <1>2, <1>3, <2>1
  <1> HIDE DEF a, b
  <1>5. a = b
    BY <1>1, <1>2, <1>3, <1>4
  <1> QED
    BY <1>5 DEF a, b

\* The window of a reach within what a buffer retains is the true one, and a buffer
\* that counts declines a span.
LEMMA TrailsTruly ==
    ASSUME NEW S, NEW run \in Seq(S), Ascends(run), NEW h \in Reaches, NEW r \in Reaches,
           \A k, m \in 1..Len(run) : k < m => run[k].ts < run[m].ts,
           h.kind = "over" \/ r.kind = "elems", h.kind = r.kind => h.n >= r.n,
           NEW rows, NEW f, Buffers(rows, run, f, h), Marked(rows, run, f, h), NEW i \in 1..f
    PROVE  LET w == TrailingAt(ViewRows(rows, r), i)
               true == WindowAt(run, r, Len(run) - f + i)
           IN  w = true \/ (w = None /\ r.kind # h.kind)
  <1> DEFINE n == Len(run)
             d == Trim(Before(run, f), h)
             v == ViewRows(rows, r)
             win == After(run, d)
             j == n - f + i
             end == Len(win) - f + i
  <1>1. f \in 0..n /\ n \in Nat /\ i \in Nat /\ v.run = win /\ v.fresh = f /\ v.horizon = r
        /\ v.watermark = rows.watermark
    BY DEF Buffers, ViewRows
  <1>2. /\ d \in 0..(n - f) /\ d \in 0..n /\ (n > f => d < n - f)
        /\ \A k \in 1..(n - f) : k <= d <=> Beyond(Before(run, f), h, k)
        /\ Len(Before(run, f)) = n - f /\ \A k \in 1..(n - f) : Before(run, f)[k] = run[k]
    <2>1. f \in 0..Len(run)
      BY <1>1
    <2>2. /\ d \in 0..(n - f) /\ (n > f => d < n - f)
          /\ \A k \in 1..(n - f) : k <= d <=> Beyond(Before(run, f), h, k)
          /\ Len(Before(run, f)) = n - f /\ \A k \in 1..(n - f) : Before(run, f)[k] = run[k]
      BY <2>1, Trimmed
    <2> HIDE DEF d, n
    <2>3. d \in 0..n
      BY <1>1, <2>2
    <2> QED
      BY <2>2, <2>3
  <1>3. win \in Seq(S) /\ Len(win) = n - d /\ \A k \in 1..(n - d) : win[k] = run[d + k]
    <2> HIDE DEF d
    <2> QED
      BY <1>1, <1>2, AfterIs
  <1>4. /\ r.n \in Nat \ {0} /\ h.n \in Nat \ {0}
        /\ r.kind \in {"elems", "over"} /\ h.kind \in {"elems", "over"}
    BY DEF Reaches
  <1> HIDE DEF v, win, d
  <1>5. /\ end = j - d /\ j \in 1..n /\ end \in 1..(n - d) /\ d + end = j /\ n - f < j
    BY <1>1, <1>2, <1>3
  <1>9. /\ n \in Int /\ f \in Int /\ d \in Int /\ j \in Int /\ end \in Int
        /\ 0 <= d /\ d <= n - f /\ 0 <= f /\ n - f < j /\ j <= n /\ 1 <= end /\ end = j - d
    BY <1>1, <1>2, <1>5
  <1> HIDE DEF end, n
  <1>6. /\ Len(v.run) - v.fresh + i = end /\ Len(run) - f + i = j
    BY <1>1 DEF end, n
  <1>7. CASE r.kind = "elems"
    <2>1. TrailingAt(v, i) = IF end >= r.n THEN Some(SubSeq(win, end - r.n + 1, end)) ELSE None
      BY <1>1, <1>6, <1>7 DEF TrailingAt
    <2>2. WindowAt(run, r, j) = IF j >= r.n THEN Some(SubSeq(run, j - r.n + 1, j)) ELSE None
      BY <1>7 DEF WindowAt
    <2>3. CASE end >= r.n
      <3>1. SubSeq(win, end - r.n + 1, end) = SubSeq(run, j - r.n + 1, j)
        <4> DEFINE p == end - r.n + 1
        <4> HIDE DEF j
        <4>1. p \in 1..end /\ end \in 1..Len(win) /\ d \in Nat /\ d + end <= Len(run)
          BY <1>3, <1>4, <1>9, <2>3 DEF n
        <4>2. \A k \in 1..end : win[k] = run[d + k]
          BY <1>3, <1>9
        <4>3. d + p = j - r.n + 1 /\ d + end = j
          BY <1>4, <1>9
        <4> HIDE DEF p
        <4>4. SubSeq(win, p, end) = SubSeq(run, d + p, d + end)
          BY <1>3, <4>1, <4>2, Stretches
        <4> QED
          BY <4>3, <4>4 DEF p
      <3>2. j >= r.n
        BY <1>2, <1>4, <1>5, <2>3
      <3> QED
        BY <1>6, <2>1, <2>2, <2>3, <3>1, <3>2 DEF v
    <2>4. CASE ~ (end >= r.n)
      <3>1. TrailingAt(v, i) = None
        BY <2>1, <2>4
      <3>2. CASE h.kind = "elems"
        <4>1. d = 0
          <5> SUFFICES ASSUME d # 0
                       PROVE  FALSE
            OBVIOUS
          <5>1. d \in 1..(n - f)
            BY <1>2
          <5>2. (n - f) - d >= h.n
            BY <1>2, <3>2, <5>1 DEF Beyond
          <5>3. h.n >= r.n
            BY <1>7, <3>2
          <5> QED
            BY <1>1, <1>2, <1>4, <1>5, <2>4, <5>2, <5>3
        <4>2. ~ (j >= r.n)
          BY <1>4, <1>5, <2>4, <4>1
        <4> QED
          BY <1>6, <2>2, <3>1, <4>2 DEF v
      <3>3. CASE h.kind = "over"
        BY <1>7, <3>1, <3>3 DEF v
      <3> QED
        BY <1>4, <3>2, <3>3
    <2> QED
      BY <2>3, <2>4
  <1>8. CASE r.kind = "over"
    <2> DEFINE cut == run[j].ts - r.n
               upto == SubSeq(win, 1, end)
               within == {k \in 1..j : run[k].ts > cut}
    <2>0. /\ \A k \in 1..n : run[k].ts \in Int
          /\ \A k, m \in 1..n : k <= m => run[k].ts <= run[m].ts
      BY DEF Ascends, n
    <2>1. h.kind = "over" /\ h.n >= r.n
      BY <1>4, <1>8
    <2>2. win[end] = run[j] /\ run[j].ts \in Int /\ cut \in Int
      BY <1>3, <1>4, <1>5, <2>0
    <2>3. TrailingAt(v, i) = IF cut >= rows.watermark
                             THEN Some(SubSeq(upto, UpTo(upto, cut) + 1, end)) ELSE None
      BY <1>1, <1>6, <1>8, <2>2 DEF TrailingAt
    <2>4. WindowAt(run, r, j) = IF cut >= run[1].ts THEN Some(SubSeq(run, Min(within), j)) ELSE None
      BY <1>8 DEF WindowAt
    <2> HIDE DEF cut
    <2>5. \A k \in 1..d : run[k].ts <= cut
      <3> SUFFICES ASSUME NEW k \in 1..d
                   PROVE  run[k].ts <= cut
        OBVIOUS
      <3> HIDE DEF j
      <3>1. k \in 1..(n - f) /\ k <= d /\ n - f \in 1..n /\ n - f <= j
        BY <1>9
      <3>2. Last(Before(run, f)) = run[n - f]
        BY <1>2, <3>1 DEF Last
      <3>3. Beyond(Before(run, f), h, k) /\ Before(run, f)[k] = run[k]
        BY <1>2, <3>1
      <3>4. run[k].ts <= run[n - f].ts - h.n
        BY <2>1, <3>2, <3>3 DEF Beyond
      <3>5. run[n - f].ts <= run[j].ts /\ run[n - f].ts \in Int /\ run[k].ts \in Int
        BY <1>9, <2>0, <3>1
      <3> QED
        <4> DEFINE x == run[k].ts
                   y == run[n - f].ts
                   z == run[j].ts
                   l == r.n
                   m == h.n
        <4>1. cut = z - l
          BY DEF cut, j
        <4>2. /\ x \in Int /\ y \in Int /\ z \in Int /\ l \in Int /\ m \in Int
              /\ x <= y - m /\ y <= z /\ m >= l
          BY <1>4, <2>1, <2>2, <3>4, <3>5
        <4> HIDE DEF x, y, z, l, m
        <4>3. x <= z - l
          BY <4>2
        <4> QED
          BY <4>1, <4>3 DEF x
    <2>6. cut >= rows.watermark <=> cut >= run[1].ts
      <3>1. run # <<>> /\ 1 \in 1..n /\ run[1].ts \in Int
        BY <1>5, <2>0 DEF n
      <3>2. rows.watermark = run[1].ts \/ (d > 0 /\ rows.watermark = run[d].ts)
        BY <3>1 DEF Marked, d
      <3>3. ASSUME d > 0, rows.watermark = run[d].ts
            PROVE  cut >= rows.watermark /\ cut >= run[1].ts
        <4>1. d \in 1..d /\ 1 \in 1..d /\ d \in 1..n
          BY <1>2, <3>3
        <4> QED
          BY <2>0, <2>2, <2>5, <3>1, <3>3, <4>1
      <3> QED
        BY <3>2, <3>3
    <2>7. SubSeq(upto, UpTo(upto, cut) + 1, end) = SubSeq(run, Min(within), j)
      <3>1. upto \in Seq(S) /\ Len(upto) = end /\ \A k \in 1..end : upto[k] = win[k]
        BY <1>3, <1>5
      <3>2. \A k \in 1..end : upto[k] = run[d + k] /\ d + k \in 1..j /\ d + k \in 1..n
        <4> HIDE DEF upto, j
        <4>1. \A k \in 1..end : k \in 1..(n - d) /\ d + k \in 1..j /\ d + k \in 1..n
          BY <1>9
        <4> QED
          BY <1>3, <3>1, <4>1
      <3> HIDE DEF upto, j
      <3>3. Ascends(upto)
        <4>1. \A k \in 1..Len(upto) : upto[k].ts \in Int
          BY <2>0, <3>1, <3>2
        <4>2. \A k, m \in 1..Len(upto) : k <= m => upto[k].ts <= upto[m].ts
          <5>1. ASSUME NEW k \in 1..end, NEW m \in 1..end, k <= m
                PROVE  upto[k].ts <= upto[m].ts
            <6>1. d + k <= d + m
              BY <1>9, <5>1
            <6> QED
              BY <2>0, <3>2, <6>1
          <5> QED
            BY <3>1, <5>1
        <4> QED
          BY <3>1, <4>1, <4>2 DEF Ascends
      <3> DEFINE u == UpTo(upto, cut)
      <3>4. u \in 0..end /\ \A k \in 1..end : k <= u <=> run[d + k].ts <= cut
        BY <2>2, <3>1, <3>2, <3>3, UpToIs
      <3> HIDE DEF u
      <3>5. ~ (run[j].ts <= cut)
        BY <1>4, <2>2 DEF cut, j
      <3>6. u < end
        <4>1. end \in 1..end /\ d + end = j
          BY <1>9
        <4>2. ~ (end <= u)
          BY <3>4, <3>5, <4>1
        <4> QED
          BY <1>9, <3>4, <4>2
      <3>7. Min(within) = d + u + 1
        <4>1. d + u + 1 \in within
          <5>1. u + 1 \in 1..end /\ ~ (u + 1 <= u)
            BY <1>5, <3>4, <3>6
          <5>2. ~ (run[d + (u + 1)].ts <= cut) /\ d + (u + 1) \in 1..j /\ d + (u + 1) \in 1..n
            BY <3>2, <3>4, <5>1
          <5>3. d + (u + 1) = d + u + 1
            BY <1>2, <3>4
          <5> QED
            BY <2>0, <2>2, <5>2, <5>3
        <4>2. ASSUME NEW k \in within
              PROVE  d + u + 1 <= k
          <5> SUFFICES ASSUME k < d + u + 1
                       PROVE  FALSE
            BY <1>2, <1>5, <3>4
          <5>1. k \in 1..j /\ run[k].ts > cut /\ k \in 1..n
            BY <1>9 DEF j
          <5>2. ~ (run[k].ts <= cut)
            BY <2>0, <2>2, <5>1
          <5>3. ~ (k \in 1..d)
            BY <2>5, <5>2
          <5>4. k - d \in 1..end /\ k - d <= u /\ d + (k - d) = k
            BY <1>2, <1>5, <3>4, <3>6, <5>1, <5>3
          <5> QED
            BY <3>4, <5>2, <5>4
        <4>3. within \subseteq Int
          BY <1>5
        <4> HIDE DEF within
        <4> QED
          BY <4>1, <4>2, <4>3, Bounds
      <3>8. SubSeq(upto, u + 1, end) = SubSeq(run, d + u + 1, j)
        <4> DEFINE p == u + 1
        <4>1. p \in 1..end /\ end \in 1..Len(upto) /\ d \in Nat /\ d + end <= Len(run)
          BY <1>9, <3>1, <3>4, <3>6 DEF n
        <4>2. \A k \in 1..end : upto[k] = run[d + k]
          BY <3>2
        <4>3. d + p = d + u + 1 /\ d + end = j
          BY <1>9, <3>4
        <4> HIDE DEF p
        <4>4. SubSeq(upto, p, end) = SubSeq(run, d + p, d + end)
          BY <3>1, <4>1, <4>2, Stretches
        <4> QED
          BY <4>3, <4>4 DEF p
      <3> QED
        BY <3>7, <3>8 DEF u
    <2> QED
      BY <1>6, <2>3, <2>4, <2>6, <2>7 DEF v
  <1> QED
    BY <1>4, <1>7, <1>8

-----------------------------------------------------------------------------
(* The frame's one buffer.                                                  *)

\* A finite set lists each of its elements.
LEMMA ReadsListed ==
    ASSUME NEW S, IsFiniteSet(S)
    PROVE  /\ SetToSeq(S) \in Seq(S)
           /\ \A x \in S : \E k \in 1..Len(SetToSeq(S)) : SetToSeq(S)[k] = x
  <1> DEFINE m == Cardinality(S)
             f == SetToSeq(S)
  <1>1. m \in Nat /\ ExistsBijection(1..m, S)
    BY FS_CardinalityType
  <1>2. PICK g \in Bijection(1..m, S) : TRUE
    BY <1>1 DEF ExistsBijection
  <1>3. g \in [1..m -> S] /\ IsInjective(g)
    BY <1>2 DEF Bijection, Injection, IsInjective
  <1>4. f \in [1..m -> S] /\ IsInjective(f)
    BY <1>3, Zenon DEF SetToSeq
  <1> HIDE DEF f
  <1>5. f \in Injection(1..m, S)
    BY <1>4 DEF Injection, IsInjective
  <1>6. Cardinality(1..m) = m
    BY <1>1, FS_Interval
  <1>7. f \in Surjection(1..m, S)
    BY <1>5, <1>6, FS_Injection
  <1>8. f \in Seq(S) /\ Len(f) = m
    BY <1>1, <1>4, SeqDef, LenProperties
  <1>9. \A x \in S : \E k \in 1..Len(f) : f[k] = x
    BY <1>7, <1>8 DEF Surjection
  <1> QED
    BY <1>8, <1>9 DEF f

\* Horizon's join of what was joined so far and one read more.
LEMMA JoinIs ==
    ASSUME NEW a \in Reaches \cup {Unit}, NEW b \in Reaches
    PROVE  /\ Join(a, b) \in {a, b} \cap Reaches
           /\ Join(a, b).kind = "over" <=> a.kind = "over" \/ b.kind = "over"
           /\ \A x \in {a, b} : x.kind = Join(a, b).kind => Join(a, b).n >= x.n
  <1> DEFINE of(kind) == {x \in {a, b} : x.kind = kind}
             j == Join(a, b)
  <1>1. /\ a.kind \in {"elems", "over", "unit"} /\ b.kind \in {"elems", "over"}
        /\ a.n \in Nat /\ b.n \in Nat /\ (a.kind # "unit" => a \in Reaches)
    BY DEF Reaches, Unit
  <1>2. of("unbounded") = {}
    BY <1>1
  <1>3. ASSUME NEW kind, of(kind) # {}
        PROVE  Longer(of(kind)) \in of(kind) /\ \A o \in of(kind) : Longer(of(kind)).n >= o.n
    <2> DEFINE S == of(kind)
    <2>1. \E h \in S : \A o \in S : h.n >= o.n
      BY <1>1, <1>3
    <2> HIDE DEF S
    <2>2. Longer(S) \in S /\ \A o \in S : Longer(S).n >= o.n
      BY <2>1, Zenon DEF Longer
    <2> QED
      BY <2>2 DEF S
  <1>4. CASE of("over") # {}
    <2>1. j = Longer(of("over"))
      BY <1>2, <1>4 DEF Join
    <2> HIDE DEF j
    <2> QED
      BY <1>1, <1>3, <1>4, <2>1 DEF j
  <1>5. CASE of("over") = {}
    <2>1. of("elems") # {}
      BY <1>1, <1>5
    <2>2. j = Longer(of("elems"))
      BY <1>2, <1>5, <2>1 DEF Join
    <2> HIDE DEF j
    <2> QED
      BY <1>1, <1>3, <1>5, <2>1, <2>2 DEF j
  <1> QED
    BY <1>4, <1>5

\* What the buffer keeps is one of the reads: a span where there is one, and of
\* the reads of its kind the deepest.
LEMMA RetainedIs ==
    ASSUME reads \in ReadSets
    PROVE  /\ Retained \in reads /\ Retained \in Reaches /\ reads \subseteq Reaches
           /\ IsFiniteSet(reads) /\ Elems(2) \in reads
           /\ \A r \in reads : /\ Retained.kind = "over" \/ r.kind = "elems"
                               /\ Retained.kind = r.kind => Retained.n >= r.n
  <1> DEFINE all == SetToSeq(reads)
             F(s) == Joining!Fold(0, Unit, s)
             Good(s) == IF s = <<>> THEN F(s) = Unit
                        ELSE /\ F(s) \in Reaches
                             /\ \E k \in 1..Len(s) : F(s) = s[k]
                             /\ \A k \in 1..Len(s) :
                                  /\ F(s).kind = "over" \/ s[k].kind = "elems"
                                  /\ F(s).kind = s[k].kind => F(s).n >= s[k].n
             T == {s \in Seq(Reaches) : Good(s)}
  <1>1. IsFiniteSet(reads) /\ Elems(2) \in reads /\ reads \subseteq Reaches
    BY DerivativesConstants DEF Reaches
  <1>2. all \in Seq(reads) /\ all \in Seq(Reaches) /\ \A r \in reads : \E k \in 1..Len(all) : all[k] = r
    <2>1. all \in Seq(reads) /\ \A r \in reads : \E k \in 1..Len(all) : all[k] = r
      BY <1>1, ReadsListed
    <2> QED
      BY <1>1, <2>1
  <1> HIDE DEF all
  <1>3. <<>> \in T
    BY Joining!FoldEmpty
  <1>4. ASSUME NEW s \in Seq(Reaches), NEW e \in Reaches, s \in T
        PROVE  Append(s, e) \in T
    <2> DEFINE t == Append(s, e)
               a == F(s)
    <2>1. F(t) = Join(a, e)
      BY Joining!FoldAppend
    <2>2. /\ t \in Seq(Reaches) /\ t # <<>> /\ Len(t) = Len(s) + 1 /\ Len(s) \in Nat
          /\ t[Len(s) + 1] = e /\ \A k \in 1..Len(s) : t[k] = s[k]
      OBVIOUS
    <2>3. a \in Reaches \cup {Unit}
      BY <1>4
    <2> DEFINE b == F(t)
    <2> HIDE DEF a, t, F
    <2>4. /\ b \in {a, e} \cap Reaches
          /\ b.kind = "over" <=> a.kind = "over" \/ e.kind = "over"
          /\ \A x \in {a, e} : x.kind = b.kind => b.n >= x.n
      BY <2>1, <2>3, JoinIs
    <2>5. Good(s) /\ a = F(s)
      BY <1>4 DEF a
    <2> HIDE DEF b
    <2>6. \E k \in 1..Len(t) : b = t[k]
      <3>1. CASE b = e
        BY <2>2, <3>1
      <3>2. CASE b = a /\ s # <<>>
        BY <2>2, <2>5, <3>2
      <3>3. CASE b = a /\ s = <<>>
        BY <2>4, <2>5, <3>3 DEF Unit, Reaches
      <3> QED
        BY <2>4, <3>1, <3>2, <3>3
    <2>7. ASSUME NEW k \in 1..Len(t)
          PROVE  /\ b.kind = "over" \/ t[k].kind = "elems"
                 /\ b.kind = t[k].kind => b.n >= t[k].n
      <3>0. e.kind \in {"elems", "over"} /\ b.kind \in {"elems", "over"} /\ e.n \in Nat /\ b.n \in Nat
        BY <2>4 DEF Reaches
      <3>1. CASE k = Len(s) + 1
        BY <2>2, <2>4, <3>0, <3>1
      <3>2. CASE k # Len(s) + 1
        <4>1. k \in 1..Len(s) /\ t[k] = s[k] /\ s # <<>>
          BY <2>2, <3>2
        <4>2. s[k].kind \in {"elems", "over"} /\ s[k].n \in Nat
          <5>1. s[k] \in Reaches
            BY <4>1
          <5> QED
            BY <5>1 DEF Reaches
        <4>3. /\ a \in Reaches /\ a.kind \in {"elems", "over"} /\ a.n \in Nat
              /\ a.kind = "over" \/ s[k].kind = "elems"
              /\ a.kind = s[k].kind => a.n >= s[k].n
          BY <2>5, <4>1 DEF Reaches
        <4>4. b.kind = "over" \/ s[k].kind = "elems"
          BY <2>4, <4>3
        <4>5. b.kind = s[k].kind => b.n >= s[k].n
          BY <2>4, <3>0, <4>2, <4>3
        <4> QED
          BY <4>1, <4>4, <4>5
      <3> QED
        BY <3>1, <3>2
    <2>8. Good(t)
      BY <2>2, <2>4, <2>6, <2>7 DEF b
    <2> QED
      BY <2>2, <2>8 DEF t
  <1>5. Good(all)
    <2> HIDE DEF T
    <2>1. Seq(Reaches) \subseteq T
      BY <1>3, <1>4, Joining!SeqInduction
    <2>2. all \in T
      BY <1>2, <2>1
    <2> QED
      BY <2>2, Zenon DEF T
  <1>6. Retained = F(all)
    BY Zenon DEF Retained, all, Joining!Fold, FoldLeft, MapThenFoldSet, Joining!FoldLeft,
       Joining!MapThenFoldSet, Max, Joining!Max
  <1>7. all # <<>>
    BY <1>1, <1>2
  <1> DEFINE h == Retained
  <1>8. /\ h \in Reaches /\ \E k \in 1..Len(all) : h = all[k]
        /\ \A k \in 1..Len(all) : /\ h.kind = "over" \/ all[k].kind = "elems"
                                  /\ h.kind = all[k].kind => h.n >= all[k].n
    BY <1>5, <1>6, <1>7
  <1> HIDE DEF h
  <1>9. h \in reads
    BY <1>2, <1>8
  <1>10. \A r \in reads : /\ h.kind = "over" \/ r.kind = "elems"
                          /\ h.kind = r.kind => h.n >= r.n
    BY <1>2, <1>8
  <1> QED
    BY <1>1, <1>8, <1>9, <1>10 DEF h

-----------------------------------------------------------------------------
(* The grid the bars close on.                                              *)

\* Each instant lies in one period, of those that follow one another.
LEMMA InPeriod ==
    ASSUME NEW x \in Nat
    PROVE  \E q \in Nat : /\ CloseOf(x) = Period * q + Period
                          /\ Period * q <= x /\ x < Period * q + Period
  <1>1. Period \in Nat \ {0}
    BY DerivativesConstants
  <1>2. /\ x = Period * (x \div Period) + (x % Period)
        /\ x % Period \in 0..(Period - 1) /\ x \div Period \in Nat
    BY <1>1
  <1> DEFINE q == x \div Period
             r == x % Period
             P == Period * q
  <1>3. CloseOf(x) = x - r + Period
    BY DEF CloseOf
  <1>4. P \in Nat
    BY <1>1, <1>2
  <1> HIDE DEF r, P
  <1>5. x = P + r /\ r \in 0..(Period - 1)
    BY <1>2 DEF P, r
  <1>6. CloseOf(x) = P + Period /\ P <= x /\ x < P + Period
    BY <1>1, <1>3, <1>4, <1>5
  <1> QED
    BY <1>2, <1>6 DEF P

\* Of two instants, the period of the earlier is over by the later or is the
\* later's too.
LEMMA Closes ==
    ASSUME NEW x \in Nat, NEW y \in Nat, x <= y
    PROVE  /\ CloseOf(x) \in Nat /\ x < CloseOf(x) /\ CloseOf(x) <= x + Period
           /\ CloseOf(x) <= CloseOf(y)
           /\ CloseOf(x) # CloseOf(y) <=> CloseOf(x) <= y
           /\ CloseOf(y) - CloseOf(x) <= y - x + Period - 1
  <1>1. Period \in Nat \ {0}
    BY DerivativesConstants
  <1>2. PICK p \in Nat : /\ CloseOf(x) = Period * p + Period
                         /\ Period * p <= x /\ x < Period * p + Period
    BY InPeriod
  <1>3. PICK q \in Nat : /\ CloseOf(y) = Period * q + Period
                         /\ Period * q <= y /\ y < Period * q + Period
    BY InPeriod
  <1> DEFINE P == Period * p
             Q == Period * q
  <1>4. P \in Nat /\ Q \in Nat
    BY <1>1
  <1>5. p < q => P + Period <= Q
    <2> SUFFICES ASSUME p < q
                 PROVE  P + Period <= Q
      OBVIOUS
    <2>1. PICK k \in Nat : q = p + 1 + k
      <3>1. q - p - 1 \in Nat /\ q = p + 1 + (q - p - 1)
        OBVIOUS
      <3> QED
        BY <3>1
    <2>2. Period * (p + 1 + k) = Period * p + Period + Period * k /\ Period * k \in Nat
      BY <1>1
    <2> QED
      BY <1>1, <1>4, <2>1, <2>2
  <1>6. q < p => Q + Period <= P
    <2> SUFFICES ASSUME q < p
                 PROVE  Q + Period <= P
      OBVIOUS
    <2>1. PICK k \in Nat : p = q + 1 + k
      <3>1. p - q - 1 \in Nat /\ p = q + 1 + (p - q - 1)
        OBVIOUS
      <3> QED
        BY <3>1
    <2>2. Period * (q + 1 + k) = Period * q + Period + Period * k /\ Period * k \in Nat
      BY <1>1
    <2> QED
      BY <1>1, <1>4, <2>1, <2>2
  <1>7. p = q => P = Q
    OBVIOUS
  <1> DEFINE c == CloseOf(x)
             d == CloseOf(y)
  <1>8. c = P + Period /\ P <= x /\ x < P + Period /\ d = Q + Period /\ Q <= y /\ y < Q + Period
    BY <1>2, <1>3
  <1> HIDE DEF P, Q, c, d
  <1>9. p < q \/ p = q \/ q < p
    OBVIOUS
  <1>10. CASE p < q
    BY <1>1, <1>4, <1>5, <1>8, <1>10 DEF c, d
  <1>11. CASE p = q
    BY <1>1, <1>4, <1>7, <1>8, <1>11 DEF c, d
  <1>12. CASE q < p
    BY <1>1, <1>4, <1>6, <1>8, <1>12 DEF c, d
  <1> QED
    BY <1>9, <1>10, <1>11, <1>12

-----------------------------------------------------------------------------
(* The bars of a tape.                                                      *)

\* Of finitely many integers one is largest and one is smallest.
LEMMA Extremes ==
    ASSUME NEW S, IsFiniteSet(S), S \subseteq Int, S # {}
    PROVE  \E l \in S, m \in S : \A x \in S : l <= x /\ x <= m
  <1> DEFINE Spans(f, n) == \E i \in 1..n, j \in 1..n : \A k \in 1..n : f[i] <= f[k] /\ f[k] <= f[j]
             T == {n \in Nat : \A f \in [1..(n + 1) -> Int] : Spans(f, n + 1)}
  <1>1. 0 \in T
    OBVIOUS
  <1>2. ASSUME NEW n \in Nat, n \in T
        PROVE  n + 1 \in T
    <2>0. n + 1 \in Nat
      OBVIOUS
    <2> SUFFICES ASSUME NEW f \in [1..(n + 1 + 1) -> Int]
                 PROVE  Spans(f, n + 1 + 1)
      BY <2>0, Zenon
    <2> DEFINE g == [k \in 1..(n + 1) |-> f[k]]
               x == f[n + 1 + 1]
    <2>1. g \in [1..(n + 1) -> Int] /\ x \in Int
      OBVIOUS
    <2>2. PICK i \in 1..(n + 1), j \in 1..(n + 1) : \A k \in 1..(n + 1) : g[i] <= g[k] /\ g[k] <= g[j]
      BY <1>2, <2>1
    <2>3. \A k \in 1..(n + 1) : g[k] = f[k] /\ f[k] \in Int
      OBVIOUS
    <2> DEFINE a == IF x <= g[i] THEN n + 1 + 1 ELSE i
               b == IF g[j] <= x THEN n + 1 + 1 ELSE j
    <2>4. a \in 1..(n + 1 + 1) /\ b \in 1..(n + 1 + 1)
      OBVIOUS
    <2>5. /\ f[a] = IF x <= g[i] THEN x ELSE g[i]
          /\ f[b] = IF g[j] <= x THEN x ELSE g[j]
      BY <2>3
    <2> HIDE DEF a, b, g
    <2>6. ASSUME NEW k \in 1..(n + 1 + 1)
          PROVE  f[a] <= f[k] /\ f[k] <= f[b]
      <3>1. CASE k = n + 1 + 1
        <4>1. f[k] = x /\ g[i] \in Int /\ g[j] \in Int
          BY <2>2, <2>3, <3>1
        <4> HIDE DEF x
        <4> QED
          BY <2>1, <2>5, <4>1
      <3>2. CASE k # n + 1 + 1
        <4>1. k \in 1..(n + 1) /\ g[k] = f[k] /\ g[k] \in Int /\ g[i] \in Int /\ g[j] \in Int
          BY <2>2, <2>3, <3>2
        <4>2. g[i] <= g[k] /\ g[k] <= g[j]
          BY <2>2, <4>1
        <4> HIDE DEF x
        <4> QED
          BY <2>1, <2>5, <4>1, <4>2
      <3> QED
        BY <3>1, <3>2
    <2> QED
      BY <2>4, <2>6
  <1>3. Nat \subseteq T
    <2> HIDE DEF T
    <2> QED
      BY <1>1, <1>2, Adding!Induction
  <1>4. Cardinality(S) \in Nat /\ ExistsBijection(1..Cardinality(S), S) /\ Cardinality(S) # 0
    BY FS_CardinalityType, FS_EmptySet
  <1>5. PICK f \in Bijection(1..Cardinality(S), S) : TRUE
    BY <1>4 DEF ExistsBijection
  <1> DEFINE n == Cardinality(S) - 1
  <1>6. n \in Nat /\ n + 1 = Cardinality(S) /\ n \in T
    <2> HIDE DEF T
    <2>1. n \in Nat /\ n + 1 = Cardinality(S)
      BY <1>4
    <2> QED
      BY <1>3, <2>1
  <1> HIDE DEF n
  <1>7. /\ f \in [1..(n + 1) -> S] /\ f \in [1..(n + 1) -> Int]
        /\ \A x \in S : \E k \in 1..(n + 1) : f[k] = x
    BY <1>5, <1>6 DEF Bijection, Surjection, Injection
  <1>8. PICK i \in 1..(n + 1), j \in 1..(n + 1) : \A k \in 1..(n + 1) : f[i] <= f[k] /\ f[k] <= f[j]
    BY <1>6, <1>7
  <1>9. f[i] \in S /\ f[j] \in S /\ \A x \in S : f[i] <= x /\ x <= f[j]
    BY <1>7, <1>8
  <1> QED
    BY <1>9

Trade == [ts : Nat, price : Int]
Bar == [ts : Nat, volume : Nat, ohlc : [open : Int, high : Int, low : Int, close : Int]]

\* A tape, in the order of its time.
Taped(trades) ==
    /\ trades \in Seq(Trade)
    /\ \A k, m \in 1..Len(trades) : k <= m => trades[k].ts <= trades[m].ts

\* The trades of the period that ends at end.
Within(trades, end) == {k \in 1..Len(trades) : CloseOf(trades[k].ts) = end}

\* One trade more.
LEMMA TapedOn ==
    ASSUME NEW trades, Taped(trades), NEW t \in Trade,
           trades # <<>> => Last(trades).ts <= t.ts
    PROVE  LET u == Append(trades, t)
           IN  /\ Taped(u) /\ u # <<>> /\ Last(u) = t /\ Len(u) = Len(trades) + 1
               /\ Len(trades) \in Nat /\ u[Len(trades) + 1] = t
               /\ \A k \in 1..Len(trades) : u[k] = trades[k]
               /\ \A end : Within(u, end) = IF CloseOf(t.ts) = end
                                            THEN Within(trades, end) \cup {Len(trades) + 1}
                                            ELSE Within(trades, end)
  <1> DEFINE n == Len(trades)
             u == Append(trades, t)
  <1>1. /\ trades \in Seq(Trade) /\ n \in Nat /\ u \in Seq(Trade) /\ Len(u) = n + 1 /\ u # <<>>
        /\ u[n + 1] = t /\ \A k \in 1..n : u[k] = trades[k]
    <2>1. trades \in Seq(Trade)
      BY DEF Taped
    <2>2. u \in Seq(Trade) /\ Len(u) = n + 1 /\ u[n + 1] = t /\ \A k \in 1..n : u[k] = trades[k]
      BY <2>1, AppendProperties
    <2>3. n \in Nat
      BY <2>1
    <2> HIDE DEF u, n
    <2> QED
      BY <2>1, <2>2, <2>3
  <1> HIDE DEF u, n
  <1>2. Last(u) = t
    BY <1>1 DEF Last
  <1>3. \A k \in 1..n : trades[k].ts \in Nat /\ t.ts \in Nat /\ trades[k].ts <= t.ts
    <2> SUFFICES ASSUME NEW k \in 1..n
                 PROVE  trades[k].ts \in Nat /\ t.ts \in Nat /\ trades[k].ts <= t.ts
      OBVIOUS
    <2>1. n \in 1..n /\ k <= n /\ trades # <<>>
      BY <1>1 DEF n
    <2>2. trades[k] \in Trade /\ trades[n] \in Trade /\ Last(trades) = trades[n]
      BY <1>1, <2>1 DEF n, Last
    <2>3. trades[k].ts <= trades[n].ts /\ trades[n].ts <= t.ts
      BY <2>1, <2>2 DEF Taped, n
    <2>4. trades[k].ts \in Nat /\ trades[n].ts \in Nat /\ t.ts \in Nat
      BY <2>2 DEF Trade
    <2> QED
      BY <2>3, <2>4
  <1>4. Taped(u)
    <2>1. ASSUME NEW k \in 1..(n + 1), NEW m \in 1..(n + 1), k <= m
          PROVE  u[k].ts <= u[m].ts
      <3>1. CASE m # n + 1
        <4>1. k \in 1..n /\ m \in 1..n
          BY <1>1, <2>1, <3>1
        <4> QED
          BY <1>1, <2>1, <4>1 DEF Taped, n
      <3>2. CASE m = n + 1 /\ k # n + 1
        <4>1. k \in 1..n
          BY <1>1, <3>2
        <4> QED
          BY <1>1, <1>3, <3>2, <4>1
      <3>3. CASE m = n + 1 /\ k = n + 1
        <4>1. t.ts \in Nat
          BY DEF Trade
        <4> QED
          BY <1>1, <3>3, <4>1
      <3> QED
        BY <3>1, <3>2, <3>3
    <2> QED
      BY <1>1, <2>1 DEF Taped
  <1>5. ASSUME NEW end
        PROVE  Within(u, end) = IF CloseOf(t.ts) = end THEN Within(trades, end) \cup {n + 1}
                                ELSE Within(trades, end)
    <2>1. Within(u, end) = {k \in 1..(n + 1) : CloseOf(u[k].ts) = end}
      BY <1>1 DEF Within
    <2>2. Within(trades, end) = {k \in 1..n : CloseOf(u[k].ts) = end}
      BY <1>1 DEF Within, n
    <2>3. CloseOf(u[n + 1].ts) = CloseOf(t.ts)
      BY <1>1
    <2> QED
      BY <1>1, <2>1, <2>2, <2>3
  <1> QED
    BY <1>1, <1>2, <1>4, <1>5 DEF u, n

\* The bar of a period with a trade in it.
LEMMA BarIs ==
    ASSUME NEW trades, Taped(trades), NEW end, Within(trades, end) # {}
    PROVE  LET W == Within(trades, end)
               paid == {trades[k].price : k \in W}
               b == BarAt(trades, end)
           IN  /\ b = [ts |-> end, volume |-> Cardinality(W),
                       ohlc |-> [open |-> trades[Min(W)].price, high |-> Max(paid),
                                 low |-> Min(paid), close |-> trades[Max(W)].price]]
               /\ IsFiniteSet(W) /\ W \subseteq 1..Len(trades) /\ Len(trades) \in Nat
               /\ Min(W) \in W /\ Max(W) \in W /\ \A k \in W : Min(W) <= k /\ k <= Max(W)
               /\ paid \subseteq Int /\ Max(paid) \in paid /\ Min(paid) \in paid
               /\ \A x \in paid : Min(paid) <= x /\ x <= Max(paid)
               /\ b \in Bar
  <1> DEFINE W == Within(trades, end)
             paid == {trades[k].price : k \in W}
             b == BarAt(trades, end)
  <1>1. trades \in Seq(Trade) /\ Len(trades) \in Nat /\ DOMAIN trades = 1..Len(trades)
    BY DEF Taped
  <1>2. W \subseteq 1..Len(trades) /\ \A k \in 1..Len(trades) : trades[k].price \in Int /\ trades[k].ts \in Nat
    <2>1. \A k \in 1..Len(trades) : trades[k] \in Trade
      BY <1>1
    <2> QED
      BY <2>1 DEF Within, Trade
  <1>3. IsFiniteSet(1..Len(trades))
    BY <1>1, FS_Interval
  <1>4. IsFiniteSet(W)
    BY <1>2, <1>3, FS_Subset
  <1>5. IsFiniteSet(paid)
    <2> DEFINE f == [k \in W |-> trades[k].price]
    <2> HIDE DEF W
    <2>1. f \in Surjection(W, paid)
      BY DEF Surjection
    <2> QED
      BY <1>4, <2>1, FS_Surjection
  <1>6. paid \subseteq Int /\ paid # {}
    BY <1>2
  <1>7. W \subseteq Int /\ W # {}
    BY <1>1, <1>2
  <1> HIDE DEF W, paid
  <1>8. Min(W) \in W /\ Max(W) \in W /\ \A k \in W : Min(W) <= k /\ k <= Max(W)
    <2>1. PICK l \in W, m \in W : \A x \in W : l <= x /\ x <= m
      BY <1>4, <1>7, Extremes
    <2>2. Min(W) = l /\ Max(W) = m
      BY <1>7, <2>1, Bounds
    <2> QED
      BY <2>1, <2>2
  <1>9. Min(paid) \in paid /\ Max(paid) \in paid /\ \A x \in paid : Min(paid) <= x /\ x <= Max(paid)
    <2>1. PICK l \in paid, m \in paid : \A x \in paid : l <= x /\ x <= m
      BY <1>5, <1>6, Extremes
    <2>2. Min(paid) = l /\ Max(paid) = m
      BY <1>6, <2>1, Bounds
    <2> QED
      BY <2>1, <2>2
  <1>10. W = {k \in DOMAIN trades : CloseOf(trades[k].ts) = end}
    BY <1>1 DEF Within, W
  <1>11. b = [ts |-> end, volume |-> Cardinality(W),
              ohlc |-> [open |-> trades[Min(W)].price, high |-> Max(paid),
                        low |-> Min(paid), close |-> trades[Max(W)].price]]
    BY <1>10 DEF BarAt, paid
  <1>12. b \in Bar
    <2>1. Cardinality(W) \in Nat
      BY <1>4, FS_CardinalityType
    <2>2. end \in Nat
      <3>1. PICK k \in W : CloseOf(trades[k].ts) = end /\ k \in 1..Len(trades)
        BY <1>2, <1>7 DEF W, Within
      <3>2. trades[k].ts \in Nat /\ trades[k].ts <= trades[k].ts
        BY <1>2, <3>1
      <3>3. CloseOf(trades[k].ts) \in Nat
        BY <3>2, Closes
      <3> QED
        BY <3>1, <3>3
    <2>3. trades[Min(W)].price \in Int /\ trades[Max(W)].price \in Int
      BY <1>2, <1>8
    <2>4. Max(paid) \in Int /\ Min(paid) \in Int
      BY <1>6, <1>9
    <2> QED
      BY <1>11, <2>1, <2>2, <2>3, <2>4 DEF Bar
  <1> QED
    BY <1>1, <1>2, <1>4, <1>6, <1>8, <1>9, <1>11, <1>12 DEF W, paid

\* A trade of another period leaves it as it was.
LEMMA BarKept ==
    ASSUME NEW trades, Taped(trades), NEW t \in Trade, trades # <<>> => Last(trades).ts <= t.ts,
           NEW end, Within(trades, end) # {}, CloseOf(t.ts) # end
    PROVE  BarAt(Append(trades, t), end) = BarAt(trades, end)
  <1> DEFINE u == Append(trades, t)
             W == Within(trades, end)
             n == Len(trades)
  <1>1. /\ Taped(u) /\ n \in Nat /\ Within(u, end) = W
        /\ \A k \in 1..n : u[k] = trades[k]
    BY TapedOn
  <1>2. W \subseteq 1..n /\ W # {}
    BY DEF Within
  <1> HIDE DEF u
  <1>3. /\ Min(W) \in W /\ Max(W) \in W
        /\ BarAt(trades, end)
             = [ts |-> end, volume |-> Cardinality(W),
                ohlc |-> [open |-> trades[Min(W)].price, high |-> Max({trades[k].price : k \in W}),
                          low |-> Min({trades[k].price : k \in W}), close |-> trades[Max(W)].price]]
    BY BarIs
  <1>4. BarAt(u, end)
          = [ts |-> end, volume |-> Cardinality(W),
             ohlc |-> [open |-> u[Min(W)].price, high |-> Max({u[k].price : k \in W}),
                       low |-> Min({u[k].price : k \in W}), close |-> u[Max(W)].price]]
    BY <1>1, <1>2, BarIs
  <1> HIDE DEF W
  <1>5. {u[k].price : k \in W} = {trades[k].price : k \in W}
    BY <1>1, <1>2
  <1>6. u[Min(W)] = trades[Min(W)] /\ u[Max(W)] = trades[Max(W)]
    BY <1>1, <1>2, <1>3
  <1> QED
    BY <1>3, <1>4, <1>5, <1>6 DEF u

\* A trade of the period opens it, or folds into it.
LEMMA BarGrows ==
    ASSUME NEW trades, Taped(trades), NEW t \in Trade, trades # <<>> => Last(trades).ts <= t.ts
    PROVE  LET end == CloseOf(t.ts)
               was == BarAt(trades, end)
           IN  BarAt(Append(trades, t), end)
                 = IF Within(trades, end) = {}
                   THEN [ts |-> end, volume |-> VolumeOpen(t), ohlc |-> OhlcOpen(t)]
                   ELSE [ts |-> end, volume |-> VolumeFold(was.volume, t), ohlc |-> OhlcFold(was.ohlc, t)]
  <1> DEFINE end == CloseOf(t.ts)
             was == BarAt(trades, end)
             u == Append(trades, t)
             W == Within(trades, end)
             n == Len(trades)
             X == W \cup {n + 1}
             paid == {trades[k].price : k \in W}
             all == {u[k].price : k \in X}
  <1> HIDE DEF end
  <1>1. /\ Taped(u) /\ n \in Nat /\ Within(u, end) = X
        /\ u[n + 1] = t /\ \A k \in 1..n : u[k] = trades[k]
    BY TapedOn DEF end
  <1>2. W \subseteq 1..n
    BY DEF Within
  <1>0. t.price \in Int
    BY DEF Trade
  <1> HIDE DEF u
  <1>3. /\ BarAt(u, end) = [ts |-> end, volume |-> Cardinality(X),
                            ohlc |-> [open |-> u[Min(X)].price, high |-> Max(all),
                                      low |-> Min(all), close |-> u[Max(X)].price]]
        /\ \A k \in X : Min(X) <= k /\ k <= Max(X)
        /\ Min(X) \in X /\ Max(X) \in X /\ all \subseteq Int
    BY <1>1, BarIs
  <1>4. all = paid \cup {t.price}
    <2> HIDE DEF W
    <2> QED
      BY <1>1, <1>2
  <1>5. Max(X) = n + 1 /\ u[Max(X)] = t
    <2> HIDE DEF W
    <2>1. n + 1 \in X /\ X \subseteq Int /\ \A y \in X : y <= n + 1
      <3>1. n \in Nat
        BY <1>1
      <3> HIDE DEF n
      <3> QED
        BY <1>2, <3>1
    <2> HIDE DEF X
    <2>2. Max(X) = n + 1
      BY <2>1, Bounds
    <2> QED
      BY <1>1, <2>2
  <1>6. CASE W = {}
    <2>1. X = {n + 1} /\ all = {t.price} /\ Cardinality(X) = 1
      <3>1. X = {n + 1} /\ all = {t.price}
        BY <1>4, <1>6
      <3> QED
        BY <3>1, FS_Singleton
    <2> HIDE DEF X, all, W
    <2>2. Min(X) = n + 1
      BY <1>3, <2>1
    <2>3. Max(all) = t.price /\ Min(all) = t.price
      <3>1. all \subseteq Int /\ t.price \in all /\ \A y \in all : y <= t.price /\ t.price <= y
        BY <1>0, <2>1
      <3> QED
        BY <3>1, Bounds
    <2> QED
      BY <1>1, <1>3, <1>5, <1>6, <2>1, <2>2, <2>3 DEF VolumeOpen, OhlcOpen, u, end, W
  <1>7. CASE W # {}
    <2>1. /\ was = [ts |-> end, volume |-> Cardinality(W),
                    ohlc |-> [open |-> trades[Min(W)].price, high |-> Max(paid),
                              low |-> Min(paid), close |-> trades[Max(W)].price]]
          /\ IsFiniteSet(W)
          /\ Min(W) \in W /\ \A k \in W : Min(W) <= k
          /\ paid \subseteq Int /\ Max(paid) \in paid /\ Min(paid) \in paid
          /\ \A x \in paid : Min(paid) <= x /\ x <= Max(paid)
      BY <1>7, BarIs
    <2> HIDE DEF W, paid, was, all
    <2>2. Cardinality(X) = Cardinality(W) + 1
      <3>1. n + 1 \notin W
        BY <1>1, <1>2
      <3> QED
        BY <2>1, <3>1, FS_AddElement
    <2>3. Min(X) = Min(W) /\ u[Min(X)] = trades[Min(W)]
      <3>1. Min(W) \in X /\ X \subseteq Int /\ \A y \in X : Min(W) <= y
        <4>1. n \in Nat /\ Min(W) \in W /\ \A k \in W : Min(W) <= k
          BY <1>1, <2>1
        <4> DEFINE m == Min(W)
        <4> HIDE DEF n, m
        <4>2. m \in W /\ \A k \in W : m <= k
          BY <4>1 DEF m
        <4>3. m \in 1..n /\ \A k \in W : k \in 1..n
          BY <1>2, <4>2
        <4>4. ASSUME NEW y \in X
              PROVE  y \in Int /\ m <= y
          BY <4>1, <4>2, <4>3
        <4> QED
          BY <4>2, <4>4 DEF m
      <3> HIDE DEF X
      <3>2. Min(X) = Min(W)
        BY <3>1, Bounds
      <3> QED
        BY <1>1, <1>2, <2>1, <3>2
    <2> HIDE DEF X
    <2> DEFINE hi == Max(paid)
               lo == Min(paid)
               x == t.price
               h == IF hi <= x THEN x ELSE hi
               l == IF lo <= x THEN lo ELSE x
    <2>4. hi \in paid /\ lo \in paid /\ hi \in Int /\ lo \in Int /\ x \in Int
          /\ \A y \in paid : lo <= y /\ y <= hi /\ y \in Int
      BY <1>0, <2>1
    <2> HIDE DEF hi, lo, x
    <2>5. h \in all /\ l \in all /\ \A y \in all : l <= y /\ y <= h
      BY <1>4, <2>4 DEF x
    <2>6. Max(all) = h /\ Min(all) = l
      <3> HIDE DEF h, l
      <3> QED
        BY <1>3, <2>5, Bounds
    <2>7. Max({hi, x}) = h /\ Min({lo, x}) = l
      BY <2>4, OfPair
    <2> HIDE DEF h, l
    <2>8. /\ was.volume = Cardinality(W) /\ was.ohlc.open = trades[Min(W)].price
          /\ was.ohlc.high = hi /\ was.ohlc.low = lo
      BY <2>1 DEF hi, lo
    <2>9. OhlcFold(was.ohlc, t) = [open |-> was.ohlc.open, high |-> h, low |-> l, close |-> t.price]
      BY <2>7, <2>8 DEF OhlcFold, x
    <2> QED
      BY <1>3, <1>5, <1>7, <2>2, <2>3, <2>6, <2>8, <2>9 DEF VolumeFold, u, end, W, was
  <1> QED
    BY <1>6, <1>7

\* What bars tell of a tape: one for each period it has left, in their order.
Tells(trades, bars) ==
    /\ bars \in Seq(Bar)
    /\ \A k, m \in 1..Len(bars) : k < m => bars[k].ts < bars[m].ts
    /\ {bars[k].ts : k \in 1..Len(bars)} = Closed(trades)
    /\ \A k \in 1..Len(bars) : bars[k] = BarAt(trades, bars[k].ts)

\* The periods a tape has left: those of its trades but the last's.
LEMMA ClosedIs ==
    ASSUME NEW trades, Taped(trades), trades # <<>>
    PROVE  LET open == CloseOf(Last(trades).ts)
           IN  /\ Last(trades) \in Trade /\ Last(trades).ts \in Nat /\ open \in Nat
               /\ Closed(trades) = {CloseOf(trades[k].ts) : k \in 1..Len(trades)} \ {open}
               /\ Within(trades, open) # {}
               /\ \A end \in Closed(trades) : /\ Within(trades, end) # {} /\ end \in Nat
                                              /\ end < open /\ end <= Last(trades).ts
               /\ \A end : Within(trades, end) # {} /\ end # open => end \in Closed(trades)
  <1> DEFINE n == Len(trades)
             open == CloseOf(Last(trades).ts)
  <1>1. trades \in Seq(Trade) /\ n \in Nat /\ n \in 1..n /\ DOMAIN trades = 1..n
        /\ Last(trades) = trades[n]
    BY DEF Taped, Last
  <1>2. \A k \in 1..n : trades[k] \in Trade /\ trades[k].ts \in Nat /\ trades[k].ts <= trades[n].ts
    <2>1. \A k \in 1..n : trades[k] \in Trade
      BY <1>1
    <2>2. \A k \in 1..n : k <= n
      BY <1>1
    <2> QED
      BY <1>1, <2>1, <2>2 DEF Taped, Trade
  <1>3. \A k \in 1..n : /\ CloseOf(trades[k].ts) \in Nat
                        /\ CloseOf(trades[k].ts) <= open
                        /\ CloseOf(trades[k].ts) # open => CloseOf(trades[k].ts) <= Last(trades).ts
    BY <1>1, <1>2, Closes
  <1>4. Closed(trades) = {CloseOf(trades[k].ts) : k \in 1..n} \ {open}
    BY <1>1 DEF Closed
  <1>5. Within(trades, open) # {}
    BY <1>1 DEF Within
  <1>6. open \in Nat
    BY <1>1, <1>3
  <1> HIDE DEF open
  <1>7. ASSUME NEW end \in Closed(trades)
        PROVE  Within(trades, end) # {} /\ end \in Nat /\ end < open /\ end <= Last(trades).ts
    <2>1. PICK k \in 1..n : end = CloseOf(trades[k].ts) /\ end # open
      BY <1>4
    <2>2. end \in Nat /\ end <= open /\ end <= Last(trades).ts
      BY <1>3, <2>1
    <2>3. k \in Within(trades, end)
      BY <2>1 DEF Within
    <2> QED
      BY <1>6, <2>1, <2>2, <2>3
  <1>8. ASSUME NEW end, Within(trades, end) # {}, end # open
        PROVE  end \in Closed(trades)
    BY <1>4, <1>8 DEF Within
  <1> QED
    BY <1>1, <1>2, <1>4, <1>5, <1>6, <1>7, <1>8 DEF open

\* One trade more closes the open period's bar, or none.
LEMMA TellsOn ==
    ASSUME NEW trades, Taped(trades), NEW t \in Trade, trades # <<>> => Last(trades).ts <= t.ts,
           NEW bars, Tells(trades, bars)
    PROVE  LET open == CloseOf(Last(trades).ts)
           IN  Tells(Append(trades, t),
                     IF trades # <<>> /\ CloseOf(t.ts) # open THEN Append(bars, BarAt(trades, open))
                     ELSE bars)
  <1> DEFINE u == Append(trades, t)
             open == CloseOf(Last(trades).ts)
             new == CloseOf(t.ts)
             n == Len(bars)
  <1>1. /\ Taped(u) /\ u # <<>> /\ Last(u) = t
        /\ \A end : Within(u, end) # {} <=> new = end \/ Within(trades, end) # {}
    <2>1. /\ Taped(u) /\ u # <<>> /\ Last(u) = t
          /\ \A end : Within(u, end) = IF new = end THEN Within(trades, end) \cup {Len(trades) + 1}
                                       ELSE Within(trades, end)
      BY TapedOn
    <2> QED
      BY <2>1
  <1> HIDE DEF u
  <1>2. \A end : end \in Closed(u) <=> Within(u, end) # {} /\ end # new
    BY <1>1, ClosedIs
  <1>3. /\ bars \in Seq(Bar) /\ n \in Nat /\ \A k \in 1..n : bars[k].ts \in Closed(trades) /\ bars[k].ts \in Nat
    <2>1. bars \in Seq(Bar)
      BY DEF Tells
    <2>2. \A k \in 1..n : bars[k] \in Bar
      BY <2>1
    <2>3. \A k \in 1..n : bars[k].ts \in Nat
      BY <2>2 DEF Bar
    <2>4. \A k \in 1..n : bars[k].ts \in Closed(trades)
      BY DEF Tells
    <2> QED
      BY <2>1, <2>3, <2>4
  <1>4. CASE trades = <<>>
    <2>1. Closed(trades) = {} /\ \A end : Within(trades, end) = {}
      BY <1>4 DEF Closed, Within
    <2>2. n = 0 /\ Closed(u) = {}
      <3>1. n = 0
        <4> SUFFICES ASSUME n # 0
                     PROVE  FALSE
          OBVIOUS
        <4>1. 1 \in 1..n
          BY <1>3
        <4>2. bars[1].ts \in Closed(trades)
          BY <1>3, <4>1
        <4> QED
          BY <2>1, <4>2
      <3> QED
        BY <1>1, <1>2, <2>1, <3>1
    <2> QED
      BY <1>3, <1>4, <2>2 DEF Tells, u
  <1>5. CASE trades # <<>>
    <2>1. /\ open \in Nat /\ Last(trades).ts \in Nat /\ t.ts \in Nat /\ Last(trades).ts <= t.ts
          /\ Within(trades, open) # {}
          /\ \A end \in Closed(trades) : Within(trades, end) # {} /\ end < open
          /\ \A end : Within(trades, end) # {} /\ end # open => end \in Closed(trades)
      BY <1>5, ClosedIs DEF Trade
    <2>2. new \in Nat /\ open <= new
      <3>1. t.ts <= t.ts
        BY <2>1
      <3>2. CloseOf(t.ts) \in Nat
        BY <2>1, <3>1, Closes
      <3>3. CloseOf(Last(trades).ts) <= CloseOf(t.ts)
        BY <2>1, Closes
      <3> QED
        BY <3>2, <3>3
    <2>3. \A k \in 1..n : bars[k].ts # new /\ bars[k].ts < open /\ BarAt(u, bars[k].ts) = bars[k]
      <3> SUFFICES ASSUME NEW k \in 1..n
                   PROVE  bars[k].ts # new /\ bars[k].ts < open /\ BarAt(u, bars[k].ts) = bars[k]
        OBVIOUS
      <3> DEFINE x == bars[k].ts
      <3> HIDE DEF open, new
      <3>1. x \in Closed(trades) /\ x \in Nat /\ x < open /\ x # new /\ Within(trades, x) # {}
        BY <1>3, <2>1, <2>2
      <3>2. bars[k] = BarAt(trades, x)
        BY DEF Tells
      <3> HIDE DEF x
      <3>3. BarAt(u, x) = BarAt(trades, x)
        BY <1>5, <2>1, <3>1, BarKept DEF u, new
      <3> QED
        BY <3>1, <3>2, <3>3 DEF x
    <2>4. CASE new = open
      <3>1. Closed(u) = Closed(trades)
        <4> HIDE DEF open, new
        <4>1. \A end \in Closed(trades) : end # open
          BY <1>5, ClosedIs DEF open
        <4> QED
          BY <1>1, <1>2, <2>1, <2>4, <4>1
      <3>2. Tells(u, bars)
        BY <2>3, <3>1 DEF Tells
      <3> QED
        BY <2>4, <3>2 DEF u
    <2>5. CASE new # open
      <3> DEFINE b == BarAt(trades, open)
                 more == Append(bars, b)
      <3>1. b \in Bar /\ b.ts = open
        <4> HIDE DEF open
        <4>1. b \in Bar
          BY <2>1, BarIs
        <4>2. b.ts = open
          BY DEF BarAt
        <4> QED
          BY <4>1, <4>2
      <3>2. BarAt(u, open) = b
        <4> HIDE DEF open
        <4> QED
          BY <1>5, <2>1, <2>5, BarKept DEF u
      <3> HIDE DEF b, open, new
      <3>3. more \in Seq(Bar) /\ Len(more) = n + 1 /\ more[n + 1] = b /\ \A k \in 1..n : more[k] = bars[k]
        BY <1>3, <3>1
      <3> HIDE DEF more, n
      <3>4. \A k, m \in 1..Len(more) : k < m => more[k].ts < more[m].ts
        <4> SUFFICES ASSUME NEW k \in 1..(n + 1), NEW m \in 1..(n + 1), k < m
                     PROVE  more[k].ts < more[m].ts
          BY <3>3
        <4>1. k \in 1..n
          BY <1>3
        <4>2. CASE m = n + 1
          BY <2>3, <3>1, <3>3, <4>1, <4>2
        <4>3. CASE m # n + 1
          <5>1. m \in 1..n
            BY <1>3, <4>3
          <5> QED
            BY <3>3, <4>1, <5>1 DEF Tells, n
        <4> QED
          BY <4>2, <4>3
      <3>5. {more[k].ts : k \in 1..Len(more)} = Closed(u)
        <4>1. Closed(u) = Closed(trades) \cup {open}
          BY <1>1, <1>2, <1>3, <2>1, <2>2, <2>5
        <4>2. {more[k].ts : k \in 1..(n + 1)} = {bars[k].ts : k \in 1..n} \cup {open}
          <5>1. \A k \in 1..(n + 1) : k \in 1..n \/ k = n + 1
            BY <1>3
          <5>2. \A k \in 1..n : k \in 1..(n + 1)
            BY <1>3
          <5>3. n + 1 \in 1..(n + 1)
            BY <1>3
          <5> QED
            BY <3>1, <3>3, <5>1, <5>2, <5>3
        <4> QED
          BY <3>3, <4>1, <4>2 DEF Tells, n
      <3>6. \A k \in 1..Len(more) : more[k] = BarAt(u, more[k].ts)
        <4> SUFFICES ASSUME NEW k \in 1..(n + 1)
                     PROVE  more[k] = BarAt(u, more[k].ts)
          BY <3>3
        <4>1. CASE k = n + 1
          BY <3>1, <3>2, <3>3, <4>1
        <4>2. CASE k # n + 1
          <5>1. k \in 1..n
            BY <1>3, <4>2
          <5> QED
            BY <2>3, <3>3, <5>1
        <4> QED
          BY <4>1, <4>2
      <3> QED
        BY <1>5, <2>5, <3>3, <3>4, <3>5, <3>6 DEF Tells, more, b, u, open, new
    <2> QED
      BY <2>4, <2>5
  <1> QED
    BY <1>4, <1>5

\* The k-th of a set has k of it up to itself.
LEMMA NthIs ==
    ASSUME NEW S, IsFiniteSet(S), S \subseteq Int, NEW x \in S
    PROVE  Nth(S, Cardinality({y \in S : y <= x})) = x
  <1> DEFINE upto(z) == {y \in S : y <= z}
             k == Cardinality(upto(x))
             z == Nth(S, k)
  <1>1. z \in S /\ Cardinality(upto(z)) = k
    <2> HIDE DEF k
    <2>1. \E v \in S : Cardinality(upto(v)) = k
      BY DEF k
    <2> QED
      BY <2>1, Zenon DEF Nth
  <1> HIDE DEF z, k
  <1>2. ASSUME NEW v \in S, NEW w \in S, v < w, Cardinality(upto(v)) = Cardinality(upto(w))
        PROVE  FALSE
    <2> DEFINE A == upto(v)
               B == upto(w)
    <2>0. v \in Int /\ w \in Int /\ \A y \in S : y \in Int
      OBVIOUS
    <2>1. w \in B /\ w \notin A /\ B \in SUBSET S /\ \A y \in A : y \in B
      BY <1>2, <2>0
    <2>2. Cardinality(A) = Cardinality(B)
      BY <1>2
    <2> HIDE DEF A, B
    <2>3. IsFiniteSet(B) /\ A \in SUBSET B
      BY <2>1, FS_Subset
    <2>4. A = B
      BY <2>2, <2>3, FS_Subset
    <2> QED
      BY <2>1, <2>4
  <1>3. Cardinality(upto(x)) = k
    BY DEF k
  <1> HIDE DEF upto
  <1>4. ~ (z < x) /\ ~ (x < z)
    BY <1>1, <1>2, <1>3
  <1>5. z = x
    <2>1. z \in Int /\ x \in Int
      BY <1>1
    <2> QED
      BY <1>4, <2>1
  <1> QED
    BY <1>5 DEF z, k, upto

\* Bars that tell of a tape are its bars.
LEMMA Told ==
    ASSUME NEW trades, Taped(trades), NEW bars, Tells(trades, bars)
    PROVE  bars = BarsOf(trades)
  <1> DEFINE S == Closed(trades)
             n == Len(bars)
  <1>1. bars \in Seq(Bar) /\ n \in Nat
    BY DEF Tells
  <1>2. \A k \in 1..n : bars[k].ts \in Nat
    <2>1. \A k \in 1..n : bars[k] \in Bar
      BY <1>1
    <2> QED
      BY <2>1 DEF Bar
  <1>3. /\ \A k, m \in 1..n : k < m => bars[k].ts < bars[m].ts
        /\ {bars[k].ts : k \in 1..n} = S
        /\ \A k \in 1..n : bars[k] = BarAt(trades, bars[k].ts)
    BY DEF Tells
  <1> HIDE DEF n, S
  <1>4. \A k, m \in 1..n : bars[k].ts <= bars[m].ts <=> k <= m
    <2> SUFFICES ASSUME NEW k \in 1..n, NEW m \in 1..n
                 PROVE  bars[k].ts <= bars[m].ts <=> k <= m
      OBVIOUS
    <2> DEFINE x == bars[k].ts
               y == bars[m].ts
    <2>1. x \in Nat /\ y \in Nat /\ (k < m => x < y) /\ (m < k => y < x) /\ (k = m => x = y)
      BY <1>2, <1>3
    <2> HIDE DEF x, y
    <2>2. x <= y <=> k <= m
      BY <1>1, <2>1
    <2> QED
      BY <2>2 DEF x, y
  <1>5. ASSUME NEW j \in 0..n, NEW T, T = {bars[m].ts : m \in 1..j}
        PROVE  IsFiniteSet(T) /\ Cardinality(T) = j
    <2> DEFINE g == [m \in 1..j |-> bars[m].ts]
    <2>1. 1..j \subseteq 1..n /\ j \in Nat
      BY <1>1
    <2>2. \A k, m \in 1..j : g[k] = g[m] => k = m
      <3> SUFFICES ASSUME NEW k \in 1..j, NEW m \in 1..j, g[k] = g[m]
                   PROVE  k = m
        OBVIOUS
      <3>1. k \in 1..n /\ m \in 1..n /\ bars[k].ts = bars[m].ts /\ bars[k].ts \in Nat /\ bars[m].ts \in Nat
        BY <1>2, <2>1
      <3>2. k <= m /\ m <= k
        BY <1>4, <3>1
      <3> QED
        BY <1>1, <3>2
    <2>3. g \in Bijection(1..j, T)
      <3>1. g \in [1..j -> T]
        BY <1>5
      <3>2. \A x \in T : \E m \in 1..j : g[m] = x
        BY <1>5
      <3> HIDE DEF g
      <3>3. g \in Injection(1..j, T) /\ g \in Surjection(1..j, T)
        BY <2>2, <3>1, <3>2, Zenon DEF Injection, Surjection, IsInjective
      <3> QED
        BY <3>3, Zenon DEF Bijection
    <2> HIDE DEF g
    <2>4. ExistsBijection(1..j, T)
      BY <2>3 DEF ExistsBijection
    <2>5. IsFiniteSet(1..j) /\ Cardinality(1..j) = j
      BY <2>1, FS_Interval
    <2> QED
      BY <2>4, <2>5, FS_Bijection
  <1>6. IsFiniteSet(S) /\ Cardinality(S) = n
    BY <1>1, <1>3, <1>5
  <1>7. S \subseteq Int
    BY <1>2, <1>3
  <1>8. ASSUME NEW k \in 1..n
        PROVE  bars[k] = BarAt(trades, Nth(S, k))
    <2> DEFINE x == bars[k].ts
               U == {y \in S : y <= x}
    <2>1. x \in S
      BY <1>3
    <2>2. U = {bars[m].ts : m \in 1..k}
      <3>1. ASSUME NEW m \in 1..k
            PROVE  bars[m].ts \in U
        <4>1. m \in 1..n /\ m <= k
          BY <1>1
        <4> QED
          BY <1>3, <1>4, <4>1
      <3>2. ASSUME NEW y \in U
            PROVE  y \in {bars[m].ts : m \in 1..k}
        <4>1. PICK m \in 1..n : y = bars[m].ts
          BY <1>3
        <4>2. m <= k
          BY <1>4, <4>1
        <4>3. m \in 1..k
          BY <1>1, <4>2
        <4> QED
          BY <4>1, <4>3
      <3> HIDE DEF U
      <3> QED
        BY <3>1, <3>2
    <2>3. Cardinality(U) = k
      <3>1. k \in 0..n
        BY <1>1
      <3> HIDE DEF U
      <3> QED
        BY <1>5, <2>2, <3>1
    <2>4. Nth(S, Cardinality(U)) = x
      <3> HIDE DEF x
      <3> QED
        BY <1>6, <1>7, <2>1, NthIs
    <2> QED
      BY <1>3, <2>3, <2>4
  <1>9. BarsOf(trades) = [k \in 1..n |-> BarAt(trades, Nth(S, k))]
    BY <1>6 DEF BarsOf, S
  <1>10. bars = [k \in 1..n |-> bars[k]]
    BY <1>1 DEF n
  <1> QED
    BY <1>8, <1>9, <1>10

\* The pending bar, in its two accumulators.
Stands(trades, p, v) ==
    IF trades = <<>> THEN p = NoPending /\ v = NoPending
    ELSE LET open == CloseOf(Last(trades).ts)
             b == BarAt(trades, open)
         IN  /\ p = [live |-> TRUE, ts |-> open, slots |-> b.ohlc]
             /\ v = [live |-> TRUE, ts |-> open, slots |-> b.volume]

Slot == [ts : Nat, slots : [open : Int, high : Int, low : Int, close : Int] \cup Nat]

\* How far a batch has come: what the two runs have closed of it follows the bars
\* that stood before it.
Zips(trades, before, x, y) ==
    /\ Stands(trades, x.p, y.p)
    /\ x = [p |-> x.p, out |-> x.out] /\ y = [p |-> y.p, out |-> y.out]
    /\ x.out \in Seq(Slot) /\ y.out \in Seq(Slot) /\ Len(x.out) = Len(y.out)
    /\ Zipped(x.out, y.out) \in Seq(Bar)
    /\ Tells(trades, before \o Zipped(x.out, y.out))

\* One trade goes through both accumulators alike.
LEMMA ZipsOn ==
    ASSUME NEW trades, Taped(trades), NEW t \in Trade, trades # <<>> => Last(trades).ts <= t.ts,
           NEW before \in Seq(Bar), NEW x, NEW y, Zips(trades, before, x, y)
    PROVE  Zips(Append(trades, t), before, Close("ohlc", x, t), Close("volume", y, t))
  <1> DEFINE u == Append(trades, t)
             open == CloseOf(Last(trades).ts)
             new == CloseOf(t.ts)
             b == BarAt(trades, open)
             c == BarAt(u, new)
             z == Zipped(x.out, y.out)
             o == Close("ohlc", x, t)
             w == Close("volume", y, t)
  <1>1. /\ x.out \in Seq(Slot) /\ y.out \in Seq(Slot) /\ Len(x.out) = Len(y.out)
        /\ Len(x.out) \in Nat /\ z \in Seq(Bar) /\ Tells(trades, before \o z)
        /\ x = [p |-> x.p, out |-> x.out] /\ y = [p |-> y.p, out |-> y.out]
    BY DEF Zips
  <1>2. Taped(u) /\ u # <<>> /\ Last(u) = t /\ t.ts \in Nat
    BY TapedOn DEF Trade
  <1>3. Tells(u, IF trades # <<>> /\ new # open THEN Append(before \o z, b) ELSE before \o z)
    <2> HIDE DEF z
    <2> QED
      BY <1>1, TellsOn
  <1>4. c = IF Within(trades, new) = {}
            THEN [ts |-> new, volume |-> VolumeOpen(t), ohlc |-> OhlcOpen(t)]
            ELSE [ts |-> new, volume |-> VolumeFold(BarAt(trades, new).volume, t),
                  ohlc |-> OhlcFold(BarAt(trades, new).ohlc, t)]
    BY BarGrows
  <1>5. Stands(u, o.p, w.p) <=> /\ o.p = [live |-> TRUE, ts |-> new, slots |-> c.ohlc]
                                /\ w.p = [live |-> TRUE, ts |-> new, slots |-> c.volume]
    <2> HIDE DEF u, o, w
    <2> QED
      BY <1>2 DEF Stands
  <1>6. CASE trades = <<>>
    <2>1. x.p = NoPending /\ y.p = NoPending
      BY <1>6 DEF Zips, Stands
    <2>2. Within(trades, new) = {}
      BY <1>6 DEF Within
    <2>3. /\ o = [p |-> [live |-> TRUE, ts |-> new, slots |-> OhlcOpen(t)], out |-> x.out]
          /\ w = [p |-> [live |-> TRUE, ts |-> new, slots |-> VolumeOpen(t)], out |-> y.out]
      BY <2>1 DEF Close, NoPending, Opened
    <2> HIDE DEF o, w, c, u, new
    <2>4. Stands(u, o.p, w.p)
      BY <1>4, <1>5, <2>2, <2>3
    <2> QED
      BY <1>1, <1>3, <1>6, <2>3, <2>4 DEF Zips, u, o, w
  <1>7. CASE trades # <<>>
    <2>1. /\ x.p = [live |-> TRUE, ts |-> open, slots |-> b.ohlc]
          /\ y.p = [live |-> TRUE, ts |-> open, slots |-> b.volume]
      BY <1>7 DEF Zips, Stands
    <2>2. /\ open \in Nat /\ Last(trades).ts \in Nat /\ Last(trades).ts <= t.ts
          /\ Within(trades, open) # {}
          /\ \A end : Within(trades, end) # {} /\ end # open => end < open
      <3>1. /\ open \in Nat /\ Last(trades).ts \in Nat /\ Within(trades, open) # {}
            /\ \A end \in Closed(trades) : end < open
            /\ \A end : Within(trades, end) # {} /\ end # open => end \in Closed(trades)
        BY <1>7, ClosedIs
      <3> QED
        BY <1>7, <3>1
    <2>3. CASE new = open
      <3>1. /\ o = [p |-> [live |-> TRUE, ts |-> open, slots |-> OhlcFold(b.ohlc, t)], out |-> x.out]
            /\ w = [p |-> [live |-> TRUE, ts |-> open, slots |-> VolumeFold(b.volume, t)], out |-> y.out]
        <4> HIDE DEF b, open, new
        <4>1. /\ o = [x EXCEPT !.p.slots = OhlcFold(@, t)]
              /\ w = [y EXCEPT !.p.slots = VolumeFold(@, t)]
          BY <2>1, <2>3 DEF Close, Folded, new
        <4> HIDE DEF o, w
        <4> DEFINE xo == x.out
                   yo == y.out
        <4>2. /\ x = [p |-> [live |-> TRUE, ts |-> open, slots |-> b.ohlc], out |-> xo]
              /\ y = [p |-> [live |-> TRUE, ts |-> open, slots |-> b.volume], out |-> yo]
          BY <1>1, <2>1
        <4> HIDE DEF xo, yo
        <4>3. /\ o = [p |-> [live |-> TRUE, ts |-> open, slots |-> OhlcFold(b.ohlc, t)], out |-> xo]
              /\ w = [p |-> [live |-> TRUE, ts |-> open, slots |-> VolumeFold(b.volume, t)], out |-> yo]
          BY <4>1, <4>2
        <4> QED
          BY <4>3 DEF xo, yo
      <3> HIDE DEF o, w, c, u, b
      <3>2. c.ohlc = OhlcFold(b.ohlc, t) /\ c.volume = VolumeFold(b.volume, t)
        BY <1>4, <2>2, <2>3 DEF b
      <3>3. Stands(u, o.p, w.p)
        BY <1>5, <2>3, <3>1, <3>2
      <3> QED
        BY <1>1, <1>3, <2>3, <3>1, <3>3 DEF Zips, u, o, w
    <2>4. CASE new # open
      <3> DEFINE e == [ts |-> open, slots |-> b.ohlc]
                 f == [ts |-> open, slots |-> b.volume]
                 xs == Append(x.out, e)
                 ys == Append(y.out, f)
      <3>1. /\ o = [p |-> [live |-> TRUE, ts |-> new, slots |-> OhlcOpen(t)], out |-> xs]
            /\ w = [p |-> [live |-> TRUE, ts |-> new, slots |-> VolumeOpen(t)], out |-> ys]
        BY <2>1, <2>4 DEF Close, Opened
      <3>2. Within(trades, new) = {}
        <4>1. open <= new /\ new \in Nat
          <5>1. t.ts <= t.ts
            BY <1>2
          <5>2. new \in Nat
            BY <1>2, <5>1, Closes
          <5>3. open <= new
            BY <1>2, <2>2, Closes
          <5> QED
            BY <5>2, <5>3
        <4> HIDE DEF open, new
        <4> QED
          BY <2>2, <2>4, <4>1
      <3>3. b \in Bar /\ b = [ts |-> open, ohlc |-> b.ohlc, volume |-> b.volume]
        <4>1. b \in Bar
          <5> HIDE DEF open
          <5> QED
            BY <2>2, BarIs
        <4>2. b = [ts |-> open, ohlc |-> b.ohlc, volume |-> b.volume]
          BY DEF BarAt
        <4> QED
          BY <4>1, <4>2
      <3>4. /\ e \in Slot /\ f \in Slot /\ e.ts = open /\ e.slots = b.ohlc /\ f.slots = b.volume
            /\ e.ts = f.ts
        <4> HIDE DEF b, open
        <4> QED
          BY <2>2, <3>3 DEF Slot, Bar
      <3> HIDE DEF e, f
      <3>5. /\ xs \in Seq(Slot) /\ ys \in Seq(Slot) /\ Len(xs) = Len(ys)
            /\ Zipped(xs, ys) = Append(z, b) /\ Zipped(xs, ys) \in Seq(Bar)
            /\ before \o Append(z, b) = Append(before \o z, b)
        <4> DEFINE n == Len(x.out)
                   xo == x.out
                   yo == y.out
        <4> HIDE DEF b, open, xo, yo
        <4>1. /\ xs \in Seq(Slot) /\ ys \in Seq(Slot) /\ Len(xs) = n + 1 /\ Len(ys) = n + 1 /\ n \in Nat
              /\ xs[n + 1] = e /\ ys[n + 1] = f
              /\ \A k \in 1..n : xs[k] = xo[k] /\ ys[k] = yo[k]
          BY <1>1, <3>4 DEF xo, yo
        <4> HIDE DEF xs, ys
        <4>2. z \in Seq(Bar) /\ Len(z) = n
              /\ z = [k \in 1..n |-> [ts |-> xo[k].ts, ohlc |-> xo[k].slots, volume |-> yo[k].slots]]
          <5>1. z = [k \in 1..n |-> [ts |-> xo[k].ts, ohlc |-> xo[k].slots, volume |-> yo[k].slots]]
            BY <1>1 DEF Zipped, xo, yo
          <5>2. Len(z) = n
            <6>1. n \in Nat
              BY <4>1
            <6> HIDE DEF n, z
            <6> QED
              BY <1>1, <5>1, <6>1
          <5> QED
            BY <1>1, <5>1, <5>2
        <4> HIDE DEF z, n
        <4>3. Zipped(xs, ys) = [k \in 1..(n + 1) |-> [ts |-> xs[k].ts, ohlc |-> xs[k].slots, volume |-> ys[k].slots]]
          BY <4>1 DEF Zipped
        <4>4. Append(z, b) \in Seq(Bar) /\ Len(Append(z, b)) = n + 1
              /\ Append(z, b)[n + 1] = b /\ \A k \in 1..n : Append(z, b)[k] = z[k]
          BY <3>3, <4>1, <4>2
        <4>5. ASSUME NEW k \in 1..(n + 1)
              PROVE  Zipped(xs, ys)[k] = Append(z, b)[k]
          <5>1. CASE k = n + 1
            <6>1. Zipped(xs, ys)[k] = [ts |-> e.ts, ohlc |-> e.slots, volume |-> f.slots]
              BY <4>1, <4>3, <5>1
            <6>2. Zipped(xs, ys)[k] = b
              BY <3>3, <3>4, <6>1
            <6> QED
              BY <4>4, <5>1, <6>2
          <5>2. CASE k # n + 1
            <6>1. k \in 1..n
              BY <4>1, <5>2
            <6> QED
              BY <4>1, <4>2, <4>3, <4>4, <6>1
          <5> QED
            BY <5>1, <5>2
        <4>6. Zipped(xs, ys) = Append(z, b)
          <5> DEFINE l == Zipped(xs, ys)
                     r == Append(z, b)
          <5>0. l = [k \in 1..(n + 1) |-> l[k]] /\ r \in Seq(Bar) /\ Len(r) = n + 1
            BY <4>3, <4>4
          <5> HIDE DEF l, r
          <5>1. l = [k \in 1..(n + 1) |-> l[k]] /\ r = [k \in 1..(n + 1) |-> r[k]]
            BY <5>0
          <5>2. \A k \in 1..(n + 1) : l[k] = r[k]
            BY <4>5 DEF l, r
          <5>3. l = r
            BY <5>1, <5>2
          <5> QED
            BY <5>3 DEF l, r
        <4>7. before \o Append(z, b) = Append(before \o z, b)
          <5>1. b \in Bar /\ z \in Seq(Bar)
            BY <3>3, <4>2
          <5> QED
            BY <5>1
        <4> QED
          BY <4>1, <4>4, <4>6, <4>7
      <3>6. Stands(u, o.p, w.p)
        <4> HIDE DEF o, w, c, u
        <4> QED
          BY <1>4, <1>5, <3>1, <3>2
      <3>7. Tells(u, before \o Zipped(xs, ys))
        BY <1>3, <1>7, <2>4, <3>5
      <3> HIDE DEF o, w, u, xs, ys, z
      <3>8. /\ o.out = xs /\ w.out = ys /\ o = [p |-> o.p, out |-> o.out] /\ w = [p |-> w.p, out |-> w.out]
        BY <3>1
      <3>9. Zips(u, before, o, w)
        BY <3>5, <3>6, <3>7, <3>8 DEF Zips
      <3> QED
        BY <3>9 DEF u, o, w
    <2> QED
      BY <2>3, <2>4
  <1> QED
    BY <1>6, <1>7

\* A tape without its last trade.
LEMMA TapedBack ==
    ASSUME NEW trades \in Seq(Trade), NEW t \in Trade, Taped(Append(trades, t))
    PROVE  Taped(trades) /\ (trades # <<>> => Last(trades).ts <= t.ts)
  <1> DEFINE u == Append(trades, t)
             n == Len(trades)
  <1>1. n \in Nat /\ Len(u) = n + 1 /\ u[n + 1] = t /\ \A k \in 1..n : u[k] = trades[k]
    OBVIOUS
  <1>2. \A k, m \in 1..Len(u) : k <= m => u[k].ts <= u[m].ts
    BY DEF Taped
  <1> HIDE DEF u, n
  <1>3. \A k \in 1..n : k \in 1..(n + 1) /\ k <= n + 1 /\ n + 1 \in 1..(n + 1)
    BY <1>1
  <1>4. Taped(trades)
    BY <1>1, <1>2, <1>3 DEF Taped, n
  <1>5. ASSUME trades # <<>>
        PROVE  Last(trades).ts <= t.ts
    <2>1. n \in 1..n
      BY <1>1, <1>5 DEF n
    <2> QED
      BY <1>1, <1>2, <1>3, <2>1 DEF Last, n
  <1> QED
    BY <1>4, <1>5

\* A batch goes through both accumulators, trade by trade.
LEMMA ZipsBatch ==
    ASSUME NEW trades \in Seq(Trade), NEW batch \in Seq(Trade), Taped(trades \o batch),
           NEW before \in Seq(Bar), Tells(trades, before), NEW p, NEW v, Stands(trades, p, v)
    PROVE  Zips(trades \o batch, before, CloseRun("ohlc", p, batch), CloseRun("volume", v, batch))
  <1> DEFINE x(s) == Closing!Fold("ohlc", [p |-> p, out |-> <<>>], s)
             y(s) == Closing!Fold("volume", [p |-> v, out |-> <<>>], s)
             T == {s \in Seq(Trade) : Taped(trades \o s) => Zips(trades \o s, before, x(s), y(s))}
  <1>1. <<>> \in T
    <2>1. x(<<>>) = [p |-> p, out |-> <<>>] /\ y(<<>>) = [p |-> v, out |-> <<>>]
      BY Closing!FoldEmpty
    <2>2. trades \o <<>> = trades /\ before \o <<>> = before /\ Zipped(<<>>, <<>>) = <<>>
      BY DEF Zipped
    <2>3. <<>> \in Seq(Slot) /\ <<>> \in Seq(Bar)
      OBVIOUS
    <2> HIDE DEF x, y
    <2>4. Zips(trades \o <<>>, before, x(<<>>), y(<<>>))
      <3> DEFINE a == x(<<>>)
                 b == y(<<>>)
      <3>1. /\ a = [p |-> p, out |-> <<>>] /\ b = [p |-> v, out |-> <<>>]
            /\ a.p = p /\ b.p = v /\ a.out = <<>> /\ b.out = <<>>
        BY <2>1
      <3> HIDE DEF a, b
      <3>2. Zips(trades, before, a, b)
        BY <2>2, <2>3, <3>1 DEF Zips
      <3> QED
        BY <2>2, <3>2 DEF a, b
    <2> QED
      BY <2>4
  <1>2. ASSUME NEW s \in Seq(Trade), NEW t \in Trade, s \in T
        PROVE  Append(s, t) \in T
    <2> SUFFICES ASSUME Taped(trades \o Append(s, t))
                 PROVE  Zips(trades \o Append(s, t), before, x(Append(s, t)), y(Append(s, t)))
      OBVIOUS
    <2> DEFINE w == trades \o s
    <2>1. trades \o Append(s, t) = Append(w, t) /\ w \in Seq(Trade)
      OBVIOUS
    <2>2. x(Append(s, t)) = Close("ohlc", x(s), t)
      BY Closing!FoldAppend
    <2>3. y(Append(s, t)) = Close("volume", y(s), t)
      BY Closing!FoldAppend
    <2> HIDE DEF w, x, y
    <2>4. Taped(w) /\ (w # <<>> => Last(w).ts <= t.ts)
      BY <2>1, TapedBack
    <2>5. Zips(w, before, x(s), y(s))
      BY <1>2, <2>4 DEF w
    <2>6. Zips(Append(w, t), before, Close("ohlc", x(s), t), Close("volume", y(s), t))
      <3> DEFINE a == x(s)
                 b == y(s)
      <3> HIDE DEF a, b
      <3>1. Zips(w, before, a, b)
        BY <2>5 DEF a, b
      <3>2. Zips(Append(w, t), before, Close("ohlc", a, t), Close("volume", b, t))
        BY <2>4, <3>1, ZipsOn
      <3> QED
        BY <3>2 DEF a, b
    <2> QED
      BY <2>1, <2>2, <2>3, <2>6
  <1>3. Seq(Trade) \subseteq T
    <2> HIDE DEF T
    <2> QED
      BY <1>1, <1>2, Closing!SeqInduction
  <1>4. Zips(trades \o batch, before, x(batch), y(batch))
    BY <1>3
  <1>5. CloseRun("ohlc", p, batch) = x(batch) /\ CloseRun("volume", v, batch) = y(batch)
    BY Zenon DEF CloseRun, Closing!Fold, FoldLeft, MapThenFoldSet, Closing!FoldLeft,
       Closing!MapThenFoldSet, Max, Closing!Max
  <1> QED
    BY <1>4, <1>5

\* From each trade to the next, the tape advances by a gap.
Stepped(trades) == \A k \in 1..(Len(trades) - 1) : trades[k + 1].ts - trades[k].ts \in Gaps

\* A batch carries the tape on.
LEMMA BatchIs ==
    ASSUME Taped(tape), Stepped(tape), NEW batch \in Batches
    PROVE  batch \in Seq(Trade) /\ Taped(tape \o batch) /\ Stepped(tape \o batch)
  <1> DEFINE last == IF tape = <<>> THEN 0 ELSE Last(tape).ts
             at(gaps, k) == last + Elapsed(gaps, k)
             sum(gaps, k) == Adding!Fold(0, 0, SubSeq(gaps, 1, k))
             l == Len(tape)
  <1>1. tape \in Seq(Trade) /\ l \in Nat
    BY DEF Taped
  <1>2. last \in Nat /\ \A k \in 1..l : tape[k].ts \in Nat /\ tape[k].ts <= last /\ tape[l].ts = last
    <2>1. \A k \in 1..l : tape[k] \in Trade /\ l \in 1..l /\ k <= l
      BY <1>1
    <2>2. \A k \in 1..l : tape[k].ts \in Nat /\ tape[k].ts <= tape[l].ts
      BY <2>1 DEF Taped, Trade
    <2>3. tape # <<>> => l \in 1..l
      BY <1>1
    <2> QED
      BY <1>1, <2>2, <2>3 DEF Last
  <1>3. PICK n \in 0..Min({MaxBatch, MaxTrades - l}) :
          \E gaps \in [1..n -> Gaps], prices \in [1..n -> Prices] :
             batch = [k \in 1..n |-> [ts |-> at(gaps, k), price |-> prices[k]]]
    <2>1. PICK n \in 0..Min({MaxBatch, MaxTrades - l}) : batch \in BatchesOf(n)
      BY DEF Batches
    <2>2. \E gaps \in [1..n -> Gaps], prices \in [1..n -> Prices] :
            batch = [k \in 1..n |-> [ts |-> at(gaps, k), price |-> prices[k]]]
      BY <2>1 DEF BatchesOf
    <2> QED
      BY <2>2
  <1>4. n \in Nat
    <2>1. MaxBatch \in Int /\ MaxTrades - l \in Int
      BY <1>1, DerivativesConstants
    <2>2. Min({MaxBatch, MaxTrades - l}) \in Int
      BY <2>1, OfPair
    <2> DEFINE m == Min({MaxBatch, MaxTrades - l})
    <2>3. n \in 0..m /\ m \in Int
      BY <2>2
    <2> HIDE DEF m
    <2> QED
      BY <2>3
  <1>9. PICK gaps \in [1..n -> Gaps], prices \in [1..n -> Prices] :
          batch = [k \in 1..n |-> [ts |-> at(gaps, k), price |-> prices[k]]]
    BY <1>3
  <1> HIDE DEF last, l
  <1>5. gaps \in Seq(Nat) /\ Len(gaps) = n /\ \A k \in 1..n : gaps[k] \in Gaps /\ gaps[k] \in Nat
    <2>1. Gaps \subseteq Nat
      BY DerivativesConstants
    <2>2. gaps \in [1..n -> Nat]
      BY <1>9, <2>1
    <2>3. gaps \in Seq(Nat) /\ Len(gaps) = n
      BY <1>4, <2>2, SeqDef, LenProperties
    <2>4. \A k \in 1..n : gaps[k] \in Gaps /\ gaps[k] \in Nat
      BY <1>9, <2>1
    <2> QED
      BY <2>3, <2>4
  <1>6. \A k : at(gaps, k) = last + sum(gaps, k)
    BY Zenon DEF Elapsed, Adding!Fold, FoldLeft, MapThenFoldSet, Adding!FoldLeft,
       Adding!MapThenFoldSet, Max, Adding!Max
  <1>7. sum(gaps, 0) = 0 /\ \A k \in 0..(n - 1) : sum(gaps, k + 1) = sum(gaps, k) + gaps[k + 1]
    <2>1. sum(gaps, 0) = 0
      <3>1. SubSeq(gaps, 1, 0) = <<>>
        BY <1>5
      <3>2. Adding!Fold(0, 0, <<>>) = 0
        BY Adding!FoldEmpty
      <3> QED
        BY <3>1, <3>2
    <2>2. ASSUME NEW k \in 0..(n - 1)
          PROVE  sum(gaps, k + 1) = sum(gaps, k) + gaps[k + 1]
      <3> DEFINE s == SubSeq(gaps, 1, k)
      <3>1. k \in 0..Len(gaps) /\ 0 \in 0..k /\ k < Len(gaps)
        BY <1>4, <1>5
      <3>2. SubSeq(gaps, 0 + 1, k) \in Seq(Nat) /\ gaps[k + 1] \in Nat
            /\ SubSeq(gaps, 0 + 1, k + 1) = Append(SubSeq(gaps, 0 + 1, k), gaps[k + 1])
        BY <1>5, <3>1, Adding!SubSeqGrows
      <3>3. s \in Seq(Nat) /\ SubSeq(gaps, 1, k + 1) = Append(s, gaps[k + 1])
        BY <3>2
      <3> HIDE DEF s
      <3>4. Adding!Fold(0, 0, Append(s, gaps[k + 1])) = Adding!Fold(0, 0, s) + gaps[k + 1]
        BY <3>2, <3>3, Adding!FoldAppend
      <3> QED
        BY <3>3, <3>4 DEF s
    <2> QED
      BY <2>1, <2>2
  <1> HIDE DEF at, sum
  <1>8. \A k \in 0..n : sum(gaps, k) \in Nat /\ \A j \in 0..k : sum(gaps, j) <= sum(gaps, k)
    <2> DEFINE f == [k \in 0..n |-> sum(gaps, k)]
               T == {k \in Nat : k <= n => \A j \in 0..k : f[j] \in Nat /\ f[j] <= f[k]}
    <2>0. f[0] = 0 /\ \A k \in 0..(n - 1) : f[k + 1] = f[k] + gaps[k + 1]
      BY <1>4, <1>7
    <2> HIDE DEF f
    <2>1. 0 \in T
      BY <2>0
    <2>2. ASSUME NEW k \in Nat, k \in T
          PROVE  k + 1 \in T
      <3>0. k + 1 \in Nat
        OBVIOUS
      <3> SUFFICES ASSUME k + 1 <= n
                   PROVE  \A j \in 0..(k + 1) : f[j] \in Nat /\ f[j] <= f[k + 1]
        BY <3>0, Zenon
      <3>1. k \in 0..(n - 1) /\ k + 1 \in 1..n /\ k <= n
        BY <1>4
      <3>2. f[k] \in Nat /\ \A j \in 0..k : f[j] \in Nat /\ f[j] <= f[k]
        <4>1. k \in 0..k
          OBVIOUS
        <4> QED
          BY <2>2, <3>1, <4>1
      <3>3. f[k + 1] = f[k] + gaps[k + 1] /\ gaps[k + 1] \in Nat
        BY <1>5, <2>0, <3>1
      <3>4. ASSUME NEW j \in 0..(k + 1)
            PROVE  f[j] \in Nat /\ f[j] <= f[k + 1]
        <4>1. CASE j = k + 1
          BY <3>2, <3>3, <4>1
        <4>2. CASE j # k + 1
          <5>1. j \in 0..k
            BY <4>2
          <5>2. f[j] \in Nat /\ f[j] <= f[k]
            BY <3>2, <5>1
          <5> QED
            BY <3>2, <3>3, <5>2
        <4> QED
          BY <4>1, <4>2
      <3> QED
        BY <3>4
    <2>3. \A k \in 0..n : k \in T
      <3> HIDE DEF T
      <3> QED
        BY <1>4, <2>1, <2>2, Adding!Induction
    <2>4. \A k \in 0..n : k \in 0..k /\ f[k] \in Nat /\ \A j \in 0..k : f[j] <= f[k]
      BY <1>4, <2>3
    <2>5. \A k \in 0..n : f[k] = sum(gaps, k)
      BY DEF f
    <2>6. \A k \in 0..n : \A j \in 0..k : j \in 0..n
      BY <1>4
    <2> QED
      BY <2>4, <2>5, <2>6
  <1> DEFINE u == tape \o batch
  <1>10. /\ batch \in Seq(Trade) /\ Len(batch) = n
         /\ \A k \in 1..n : batch[k].ts = last + sum(gaps, k)
    <2>1. \A k \in 1..n : batch[k] = [ts |-> last + sum(gaps, k), price |-> prices[k]]
      BY <1>6, <1>9
    <2>2. \A k \in 1..n : prices[k] \in Int /\ k \in 0..n
      <3>1. Prices \subseteq Int
        BY DerivativesConstants
      <3>2. \A k \in 1..n : prices[k] \in Prices /\ k \in 0..n
        BY <1>4, <1>9
      <3> QED
        BY <3>1, <3>2
    <2>3. \A k \in 1..n : last + sum(gaps, k) \in Nat
      BY <1>2, <1>8, <2>2
    <2>4. \A k \in 1..n : batch[k] \in Trade /\ batch[k].ts = last + sum(gaps, k)
      <3> SUFFICES ASSUME NEW k \in 1..n
                   PROVE  batch[k] \in Trade /\ batch[k].ts = last + sum(gaps, k)
        OBVIOUS
      <3> DEFINE x == last + sum(gaps, k)
                 y == prices[k]
      <3>1. x \in Nat /\ y \in Int /\ batch[k] = [ts |-> x, price |-> y]
        BY <2>1, <2>2, <2>3
      <3> HIDE DEF x, y
      <3>2. batch[k] \in Trade /\ batch[k].ts = x
        BY <3>1 DEF Trade
      <3> QED
        BY <3>2 DEF x
    <2>5. batch = [k \in 1..n |-> batch[k]]
      BY <1>9
    <2>6. batch \in [1..n -> Trade]
      BY <2>4, <2>5
    <2>7. batch \in Seq(Trade) /\ Len(batch) = n
      BY <1>4, <2>6, SeqDef, LenProperties
    <2> QED
      BY <2>4, <2>7
  <1>11. /\ u \in Seq(Trade) /\ Len(u) = l + n
         /\ \A k \in 1..l : u[k] = tape[k]
         /\ \A k \in 1..n : u[l + k] = batch[k]
    <2>1. tape \in Seq(Trade) /\ batch \in Seq(Trade) /\ Len(batch) = n
      BY <1>1, <1>10
    <2>2. /\ u \in Seq(Trade) /\ Len(u) = Len(tape) + Len(batch)
          /\ \A k \in 1..Len(tape) : u[k] = tape[k]
          /\ \A k \in 1..Len(batch) : u[Len(tape) + k] = batch[k]
      BY <2>1, ConcatProperties
    <2> HIDE DEF u
    <2> QED
      BY <2>1, <2>2 DEF l
  <1> HIDE DEF u
  <1>12. \A k \in 1..(l + n) : k \in 1..l \/ (k - l \in 1..n /\ k = l + (k - l))
    BY <1>1, <1>4
  <1>13. Taped(u)
    <2> SUFFICES ASSUME NEW k \in 1..(l + n), NEW m \in 1..(l + n), k <= m
                 PROVE  u[k].ts <= u[m].ts
      BY <1>11 DEF Taped
    <2>1. CASE m \in 1..l
      <3>1. k \in 1..l
        BY <1>1, <2>1
      <3> QED
        BY <1>11, <2>1, <3>1 DEF Taped, l
    <2>2. CASE k \in 1..l /\ m \notin 1..l
      <3> DEFINE j == m - l
                 x == tape[k].ts
                 s == sum(gaps, j)
      <3>1. j \in 1..n /\ j \in 0..n /\ m = l + j
        BY <1>4, <1>12, <2>2
      <3> HIDE DEF j
      <3>2. u[m].ts = last + s /\ s \in Nat
        BY <1>8, <1>10, <1>11, <3>1
      <3>3. u[k].ts = x /\ x \in Nat /\ x <= last
        BY <1>2, <1>11, <2>2
      <3> HIDE DEF x, s
      <3>4. u[k].ts <= last + s
        BY <1>2, <3>2, <3>3
      <3> QED
        BY <3>2, <3>4
    <2>3. CASE k \notin 1..l /\ m \notin 1..l
      <3> DEFINE i == k - l
                 j == m - l
      <3>1. i \in 1..n /\ j \in 1..n /\ i \in 0..j /\ j \in 0..n /\ i \in 0..n /\ k = l + i /\ m = l + j
        BY <1>1, <1>4, <1>12, <2>3
      <3> HIDE DEF i, j
      <3>2. u[k].ts = last + sum(gaps, i) /\ u[m].ts = last + sum(gaps, j)
        BY <1>10, <1>11, <3>1
      <3>3. sum(gaps, i) \in Nat /\ sum(gaps, j) \in Nat /\ sum(gaps, i) <= sum(gaps, j)
        BY <1>8, <3>1
      <3> QED
        BY <1>2, <3>2, <3>3
    <2> QED
      BY <1>1, <1>4, <2>1, <2>2, <2>3
  <1>14. Stepped(u)
    <2> SUFFICES ASSUME NEW k \in 1..(l + n - 1)
                 PROVE  u[k + 1].ts - u[k].ts \in Gaps
      <3>1. Len(u) = l + n
        BY <1>11
      <3> QED
        BY <1>1, <1>4, <3>1 DEF Stepped
    <2>1. CASE k + 1 \in 1..l
      <3>1. k \in 1..(l - 1) /\ k \in 1..l
        BY <1>1, <2>1
      <3>2. u[k] = tape[k] /\ u[k + 1] = tape[k + 1]
        BY <1>11, <2>1, <3>1
      <3> QED
        BY <3>1, <3>2 DEF Stepped, l
    <2>2. CASE k + 1 \notin 1..l
      <3> DEFINE j == k - l
                 s == sum(gaps, j)
                 g == gaps[j + 1]
      <3>1. j \in 0..(n - 1) /\ j + 1 \in 1..n /\ j \in 0..n /\ k = l + j /\ k + 1 = l + (j + 1)
        BY <1>1, <1>4, <2>2
      <3> HIDE DEF j
      <3>2. u[k + 1].ts = last + (s + g) /\ s \in Nat /\ g \in Gaps /\ g \in Nat
        BY <1>5, <1>7, <1>8, <1>10, <1>11, <3>1
      <3>3. u[k].ts = last + s
        <4>1. CASE j = 0
          <5>1. k \in 1..l /\ k = l
            BY <1>1, <3>1, <4>1
          <5>2. u[k].ts = last
            BY <1>2, <1>11, <5>1
          <5> QED
            BY <1>2, <1>7, <4>1, <5>2
        <4>2. CASE j # 0
          <5>1. j \in 1..n
            BY <1>4, <3>1, <4>2
          <5> QED
            BY <1>10, <1>11, <3>1, <5>1
        <4> QED
          BY <4>1, <4>2
      <3> HIDE DEF s, g
      <3>4. u[k + 1].ts - u[k].ts = g
        BY <1>2, <3>2, <3>3
      <3> QED
        BY <3>2, <3>4
    <2> QED
      BY <2>1, <2>2
  <1> QED
    BY <1>10, <1>13, <1>14 DEF u

-----------------------------------------------------------------------------
(* Between ticks.                                                           *)

\* Bars are a run, each later than the last.
LEMMA BarsAscend ==
    ASSUME NEW trades, NEW bars, Tells(trades, bars)
    PROVE  /\ bars \in Seq(Bar) /\ Len(bars) \in Nat /\ Ascends(bars)
           /\ \A k \in 1..Len(bars) : bars[k].ts \in Nat /\ bars[k] \in Bar
           /\ \A k, m \in 1..Len(bars) : k < m => bars[k].ts < bars[m].ts
  <1> DEFINE n == Len(bars)
  <1>1. bars \in Seq(Bar) /\ n \in Nat
    BY DEF Tells
  <1>2. \A k \in 1..n : bars[k] \in Bar
    BY <1>1
  <1>3. \A k \in 1..n : bars[k].ts \in Nat
    BY <1>2 DEF Bar
  <1>4. \A k, m \in 1..n : k < m => bars[k].ts < bars[m].ts
    BY DEF Tells
  <1> HIDE DEF n
  <1>5. ASSUME NEW k \in 1..n, NEW m \in 1..n, k <= m
        PROVE  bars[k].ts <= bars[m].ts
    <2>1. CASE k = m
      BY <1>3, <2>1
    <2>2. CASE k < m
      <3>1. bars[k].ts < bars[m].ts /\ bars[k].ts \in Nat /\ bars[m].ts \in Nat
        BY <1>3, <1>4, <2>2
      <3> QED
        BY <3>1
    <2> QED
      BY <1>1, <1>5, <2>1, <2>2
  <1>6. Ascends(bars)
    <2>1. \A k \in 1..n : bars[k].ts \in Int
      BY <1>3
    <2> QED
      BY <1>1, <1>5, <2>1 DEF Ascends, n
  <1> QED
    BY <1>1, <1>2, <1>3, <1>4, <1>6 DEF n

\* What stands between two ticks: the bars of the tape, the one still open, and
\* what the buffers hold of them.
Standing ==
    /\ reads \in ReadSets
    /\ Taped(tape) /\ Stepped(tape)
    /\ Tells(tape, published.bars)
    /\ Stands(tape, node.ohlc, node.volume)
    /\ Buffers(node.rows, published.bars, Len(out.bars), Retained)
    /\ Marked(node.rows, published.bars, Len(out.bars), Retained)
    /\ \A r \in reads : Buffers(node.alone[r], published.bars, Len(out.bars), r)

\* What a tick began from.
Follows ==
    \E was, old : /\ Taped(was) /\ Tells(was, old)
                  /\ out.trades \in Seq(Trade) /\ tape = was \o out.trades
                  /\ Len(out.bars) \in Nat /\ Len(published.bars) = Len(old) + Len(out.bars)

\* A graph begins with nothing behind it.
LEMMA StandingInit == Init => Standing /\ Follows
  <1> SUFFICES ASSUME Init
               PROVE  Standing /\ Follows
    OBVIOUS
  <1>1. /\ reads \in ReadSets /\ tape = <<>> /\ published.bars = <<>> /\ out.bars = <<>>
        /\ out.trades = <<>> /\ node = Cold
    BY DEF Init, NoRuns
  <1>2. Taped(<<>>) /\ Stepped(<<>>)
    BY DEF Taped, Stepped
  <1>3. Tells(<<>>, <<>>)
    BY DEF Tells, Closed
  <1>4. ASSUME NEW h \in Reaches
        PROVE  Buffers(NoRows, <<>>, 0, h) /\ Marked(NoRows, <<>>, 0, h)
    <2>1. Ascends(<<>>)
      BY <1>3, BarsAscend
    <2>2. Len(<<>>) = 0 /\ 0 \in 0..0
      OBVIOUS
    <2>3. Trim(Before(<<>>, 0), h) \in 0..0
      BY <2>1, <2>2, Trimmed
    <2>4. Trim(Before(<<>>, 0), h) = 0
      BY <2>3
    <2>5. RowsWindow(NoRows) = <<>> /\ After(<<>>, 0) = <<>>
      BY DEF RowsWindow, NoRows, After
    <2>6. NoRows.fresh = 0 /\ NoRows.cur = 0 /\ NoRows.buf = <<>> /\ NoRows.watermark = NoTs
      BY DEF NoRows
    <2>7. <<>> \in Seq(Bar)
      OBVIOUS
    <2> QED
      BY <2>2, <2>4, <2>5, <2>6, <2>7 DEF Buffers, Marked
  <1>5. Retained \in Reaches /\ reads \subseteq Reaches
    BY <1>1, RetainedIs
  <1>6. node.ohlc = NoPending /\ node.volume = NoPending /\ node.rows = NoRows
        /\ \A r \in reads : node.alone[r] = NoRows
    BY <1>1 DEF Cold
  <1>7. Len(<<>>) = 0 /\ <<>> \in Seq(Trade) /\ <<>> = <<>> \o <<>>
    OBVIOUS
  <1>8. Standing
    BY <1>1, <1>2, <1>3, <1>4, <1>5, <1>6, <1>7 DEF Standing, Stands
  <1>9. Follows
    BY <1>1, <1>2, <1>3, <1>7 DEF Follows
  <1> QED
    BY <1>8, <1>9

\* A tick carries it on.
LEMMA StandingNext == Standing /\ Next => Standing' /\ Follows'
  <1> SUFFICES ASSUME Standing, NEW batch \in Batches, Tick(batch)
               PROVE  Standing' /\ Follows'
    BY DEF Next
  <1> DEFINE x == CloseRun("ohlc", node.ohlc, batch)
             y == CloseRun("volume", node.volume, batch)
             fresh == Zipped(x.out, y.out)
             bars == published.bars
             f == Len(out.bars)
  <1>1. /\ reads' = reads /\ tape' = tape \o batch
        /\ out'.trades = batch /\ out'.bars = fresh
        /\ published'.bars = bars \o fresh
        /\ node'.ohlc = x.p /\ node'.volume = y.p
        /\ node'.rows = AdvanceRows(node.rows, fresh, Retained)
        /\ \A r \in reads : node'.alone[r] = AdvanceRows(node.alone[r], fresh, r)
    BY DEF Tick
  <1>2. batch \in Seq(Trade) /\ Taped(tape \o batch) /\ Stepped(tape \o batch) /\ tape \in Seq(Trade)
    BY BatchIs DEF Standing, Taped
  <1>3. bars \in Seq(Bar) /\ Len(bars) \in Nat /\ Ascends(bars) /\ \A k \in 1..Len(bars) : bars[k].ts \in Nat
    BY BarsAscend DEF Standing
  <1>4. Zips(tape \o batch, bars, x, y)
    <2> HIDE DEF bars
    <2>1. Tells(tape, bars) /\ Stands(tape, node.ohlc, node.volume)
      BY DEF Standing, bars
    <2> QED
      BY <1>2, <1>3, <2>1, ZipsBatch
  <1> HIDE DEF x, y, bars
  <1>5. /\ Stands(tape \o batch, x.p, y.p) /\ fresh \in Seq(Bar) /\ Tells(tape \o batch, bars \o fresh)
    BY <1>4 DEF Zips
  <1> HIDE DEF fresh
  <1>6. \A k \in 1..Len(fresh) : fresh[k].ts \in Nat
    <2>1. \A k \in 1..Len(fresh) : fresh[k] \in Bar
      BY <1>5
    <2> QED
      BY <2>1 DEF Bar
  <1>7. Retained \in Reaches /\ reads \subseteq Reaches
    BY RetainedIs DEF Standing
  <1>8. Buffers(AdvanceRows(node.rows, fresh, Retained), bars \o fresh, Len(fresh), Retained)
    BY <1>3, <1>5, <1>7, Advances DEF Standing, bars
  <1>9. Marked(AdvanceRows(node.rows, fresh, Retained), bars \o fresh, Len(fresh), Retained)
    <2>1. Buffers(node.rows, bars, f, Retained) /\ Marked(node.rows, bars, f, Retained)
      BY DEF Standing, bars
    <2> HIDE DEF f
    <2> QED
      BY <1>3, <1>5, <1>6, <1>7, <2>1, Marks
  <1>10. ASSUME NEW r \in reads
         PROVE  Buffers(AdvanceRows(node.alone[r], fresh, r), bars \o fresh, Len(fresh), r)
    <2>1. Buffers(node.alone[r], bars, f, r)
      BY DEF Standing, bars
    <2> HIDE DEF f
    <2> QED
      BY <1>3, <1>5, <1>7, <2>1, Advances
  <1>11. Retained' = Retained
    BY <1>1 DEF Retained
  <1>12. Standing'
    BY <1>1, <1>2, <1>5, <1>8, <1>9, <1>10, <1>11 DEF Standing
  <1>13. Follows'
    <2>1. Taped(tape) /\ Tells(tape, bars)
      BY DEF Standing, bars
    <2>2. Len(bars \o fresh) = Len(bars) + Len(fresh) /\ Len(fresh) \in Nat
      BY <1>3, <1>5
    <2> QED
      BY <1>1, <1>2, <2>1, <2>2 DEF Follows
  <1> QED
    BY <1>12, <1>13

\* So it is always, and of every tick.
LEMMA StandingInv == Spec => [](Standing /\ Follows)
  <1>1. Standing /\ Follows /\ [Next]_vars => (Standing /\ Follows)'
    <2> SUFFICES ASSUME Standing, Follows, [Next]_vars
                 PROVE  (Standing /\ Follows)'
      OBVIOUS
    <2>1. CASE Next
      BY <2>1, StandingNext
    <2>2. CASE UNCHANGED vars
      <3>1. reads' = reads /\ tape' = tape /\ node' = node /\ out' = out /\ published' = published
        BY <2>2 DEF vars
      <3>2. Retained' = Retained
        BY <3>1 DEF Retained
      <3> QED
        BY <3>1, <3>2 DEF Standing, Follows
    <2> QED
      BY <2>1, <2>2
  <1> QED
    BY <1>1, StandingInit, PTL DEF Spec

\* Hist::trailing_at hands a consumer the true window or none, and none wrongly
\* only where a count is read off a buffer that keeps a span.
THEOREM WindowsExact == Spec => []WindowsAreExact
  <1>1. Standing /\ Follows => WindowsAreExact
    <2> SUFFICES ASSUME Standing, Follows, NEW r \in reads, NEW i \in DOMAIN out.bars
                 PROVE  LET w == TrailingAt(ViewRows(node.rows, r), i)
                            true == WindowAt(published.bars, r, Len(published.bars) - Len(out.bars) + i)
                        IN  w = true \/ (w = None /\ r.kind # Retained.kind)
      BY DEF WindowsAreExact
    <2> DEFINE bars == published.bars
               f == Len(out.bars)
    <2>1. /\ bars \in Seq(Bar) /\ Ascends(bars)
          /\ \A k, m \in 1..Len(bars) : k < m => bars[k].ts < bars[m].ts
      BY BarsAscend DEF Standing
    <2>2. /\ Retained \in Reaches /\ r \in Reaches
          /\ Retained.kind = "over" \/ r.kind = "elems"
          /\ Retained.kind = r.kind => Retained.n >= r.n
      BY RetainedIs DEF Standing
    <2>3. Buffers(node.rows, bars, f, Retained) /\ Marked(node.rows, bars, f, Retained)
      BY DEF Standing
    <2>4. i \in 1..f
      BY DEF Follows
    <2> HIDE DEF bars, f
    <2>5. LET w == TrailingAt(ViewRows(node.rows, r), i)
              true == WindowAt(bars, r, Len(bars) - f + i)
          IN  w = true \/ (w = None /\ r.kind # Retained.kind)
      BY <2>1, <2>2, <2>3, <2>4, TrailsTruly
    <2> QED
      BY <2>5 DEF bars, f
  <1> QED
    BY <1>1, StandingInv, PTL

-----------------------------------------------------------------------------
(* By an instant.                                                           *)

\* The bars a tape had told of by one of its trades are those no later than it.
LEMMA ToldBy ==
    ASSUME NEW trades, Taped(trades), NEW bars, Tells(trades, bars), NEW i \in 1..Len(trades)
    PROVE  LET p == SubSeq(trades, 1, i)
           IN  Taped(p) /\ Tells(p, SubSeq(bars, 1, UpTo(bars, trades[i].ts)))
  <1> DEFINE p == SubSeq(trades, 1, i)
             d == trades[i].ts
             u == UpTo(bars, d)
             told == SubSeq(bars, 1, u)
             n == Len(trades)
  <1>1. trades \in Seq(Trade) /\ n \in Nat /\ trades # <<>> /\ Last(trades) = trades[n]
    <2>1. trades \in Seq(Trade)
      BY DEF Taped
    <2>2. n \in Nat /\ trades # <<>>
      BY <2>1
    <2> QED
      BY <2>1, <2>2 DEF Last
  <1>2. /\ \A k \in 1..n : trades[k] \in Trade /\ trades[k].ts \in Nat
        /\ \A k, m \in 1..n : k <= m => trades[k].ts <= trades[m].ts
    <2>1. \A k \in 1..n : trades[k] \in Trade
      BY <1>1
    <2> QED
      BY <2>1 DEF Taped, Trade
  <1>3. p \in Seq(Trade) /\ Len(p) = i /\ (\A k \in 1..i : p[k] = trades[k]) /\ p # <<>> /\ Last(p) = trades[i]
        /\ i \in Nat /\ \A k \in 1..i : k \in 1..n
    <2>1. p \in Seq(Trade) /\ Len(p) = i /\ (\A k \in 1..i : p[k] = trades[k]) /\ i \in Nat
          /\ i \in 1..i /\ \A k \in 1..i : k \in 1..n
      BY <1>1
    <2> HIDE DEF p
    <2>2. p # <<>> /\ Last(p) = trades[i]
      BY <2>1 DEF Last
    <2> QED
      BY <2>1, <2>2
  <1> HIDE DEF p, n
  <1>4. Taped(p)
    BY <1>2, <1>3 DEF Taped
  <1>5. /\ bars \in Seq(Bar) /\ Len(bars) \in Nat /\ Ascends(bars)
        /\ \A k \in 1..Len(bars) : bars[k].ts \in Nat
        /\ \A k, m \in 1..Len(bars) : k < m => bars[k].ts < bars[m].ts
    BY BarsAscend
  <1>6. d \in Nat /\ i \in 1..n
    BY <1>2 DEF n
  <1> HIDE DEF d
  <1>7. u \in 0..Len(bars) /\ \A k \in 1..Len(bars) : k <= u <=> bars[k].ts <= d
    <2>1. Ascends(bars) /\ d \in Int
      BY <1>5, <1>6
    <2> QED
      BY <2>1, UpToIs
  <1> HIDE DEF u
  <1>8. told \in Seq(Bar) /\ Len(told) = u /\ (\A k \in 1..u : told[k] = bars[k]) /\ \A k \in 1..u : k \in 1..Len(bars)
    BY <1>5, <1>7
  <1> HIDE DEF told
  <1>9. \A k \in 1..n : i < k => d <= trades[k].ts
    <2> SUFFICES ASSUME NEW k \in 1..n, i < k
                 PROVE  d <= trades[k].ts
      OBVIOUS
    <2>1. i <= k
      BY <1>1, <1>6
    <2> QED
      BY <1>2, <1>6, <2>1 DEF d
  <1>10. \A k \in 1..n : /\ CloseOf(trades[k].ts) \in Nat /\ trades[k].ts < CloseOf(trades[k].ts)
                         /\ i < k => d < CloseOf(trades[k].ts)
                         /\ k <= i => CloseOf(trades[k].ts) <= d \/ CloseOf(trades[k].ts) = CloseOf(d)
    <2> SUFFICES ASSUME NEW k \in 1..n
                 PROVE  /\ CloseOf(trades[k].ts) \in Nat /\ trades[k].ts < CloseOf(trades[k].ts)
                        /\ i < k => d < CloseOf(trades[k].ts)
                        /\ k <= i => CloseOf(trades[k].ts) <= d \/ CloseOf(trades[k].ts) = CloseOf(d)
      OBVIOUS
    <2> DEFINE x == trades[k].ts
               c == CloseOf(x)
    <2>1. x \in Nat /\ x <= x /\ (i < k => d <= x) /\ (k <= i => x <= d)
      BY <1>2, <1>6, <1>9 DEF d
    <2> HIDE DEF x
    <2>2. c \in Nat /\ x < c
      BY <2>1, Closes
    <2>3. k <= i => c <= d \/ c = CloseOf(d)
      BY <1>6, <2>1, Closes
    <2> HIDE DEF c
    <2>4. i < k => d < c
      BY <1>6, <2>1, <2>2
    <2> QED
      BY <2>2, <2>3, <2>4 DEF c, x
  <1>11. CloseOf(d) \in Nat /\ d < CloseOf(d)
    <2>1. d <= d
      BY <1>6
    <2> QED
      BY <1>6, <2>1, Closes
  <1>12. \A end : end \in Closed(p) <=> end # CloseOf(d) /\ \E k \in 1..i : end = CloseOf(trades[k].ts)
    <2>1. Closed(p) = {CloseOf(p[k].ts) : k \in 1..i} \ {CloseOf(d)}
      BY <1>3, <1>4, ClosedIs DEF d
    <2> QED
      BY <1>3, <2>1
  <1>13. \A end : end \in Closed(trades) <=> end # CloseOf(trades[n].ts) /\ \E k \in 1..n : end = CloseOf(trades[k].ts)
    <2>1. Closed(trades) = {CloseOf(trades[k].ts) : k \in 1..n} \ {CloseOf(trades[n].ts)}
      BY <1>1, ClosedIs DEF n
    <2> QED
      BY <2>1
  <1>14. {told[k].ts : k \in 1..Len(told)} = Closed(p)
    <2>1. ASSUME NEW k \in 1..u
          PROVE  told[k].ts \in Closed(p)
      <3>1. k \in 1..Len(bars) /\ told[k] = bars[k] /\ bars[k].ts <= d /\ bars[k].ts \in Closed(trades)
        BY <1>5, <1>7, <1>8 DEF Tells
      <3>2. PICK m \in 1..n : bars[k].ts = CloseOf(trades[m].ts)
        BY <1>13, <3>1
      <3>3. ~ (i < m)
        BY <1>6, <1>10, <3>1, <3>2
      <3>4. m \in 1..i
        BY <1>6, <3>3
      <3>5. bars[k].ts # CloseOf(d)
        BY <1>5, <1>6, <1>11, <3>1
      <3> QED
        BY <1>12, <3>1, <3>2, <3>4, <3>5
    <2>2. ASSUME NEW end \in Closed(p)
          PROVE  \E k \in 1..u : end = told[k].ts
      <3>1. PICK k \in 1..i : end = CloseOf(trades[k].ts) /\ end # CloseOf(d)
        BY <1>12
      <3>2. k \in 1..n /\ k <= i
        BY <1>3
      <3>3. end <= d /\ end \in Nat
        BY <1>10, <3>1, <3>2
      <3>4. d < CloseOf(trades[n].ts) /\ CloseOf(trades[n].ts) \in Nat
        <4>1. n \in 1..n
          BY <1>1, <1>6
        <4>2. n = i \/ i < n
          BY <1>1, <1>6
        <4> QED
          BY <1>10, <1>11, <4>1, <4>2 DEF d
      <3>5. end \in Closed(trades)
        BY <1>6, <1>13, <3>1, <3>2, <3>3, <3>4
      <3>6. PICK m \in 1..Len(bars) : end = bars[m].ts
        BY <3>5 DEF Tells
      <3>7. m \in 1..u
        BY <1>7, <3>3, <3>6
      <3> QED
        BY <1>8, <3>6, <3>7
    <2> QED
      BY <1>8, <2>1, <2>2
  <1>15. ASSUME NEW k \in 1..u
         PROVE  told[k] = BarAt(p, told[k].ts)
    <2> DEFINE end == bars[k].ts
               W == Within(trades, end)
               V == Within(p, end)
    <2>1. k \in 1..Len(bars) /\ told[k] = bars[k] /\ end <= d /\ end \in Nat /\ bars[k] = BarAt(trades, end)
          /\ end \in Closed(trades)
      BY <1>5, <1>7, <1>8 DEF Tells
    <2>2. V = W /\ W # {} /\ W \subseteq 1..i
      <3> HIDE DEF end
      <3>1. W = {m \in 1..n : CloseOf(trades[m].ts) = end} /\ V = {m \in 1..i : CloseOf(p[m].ts) = end}
        BY <1>3 DEF Within, n
      <3>2. \A m \in W : m \in 1..i
        <4> SUFFICES ASSUME NEW m \in W
                     PROVE  m \in 1..i
          OBVIOUS
        <4>1. m \in 1..n /\ CloseOf(trades[m].ts) = end
          BY <3>1
        <4>2. ~ (i < m)
          BY <1>6, <1>10, <2>1, <4>1
        <4> QED
          BY <1>6, <4>1, <4>2
      <3>3. W # {}
        <4> HIDE DEF W
        <4> QED
          BY <1>13, <2>1, <3>1
      <3> QED
        BY <1>3, <3>1, <3>2, <3>3
    <2> HIDE DEF end, W, V
    <2>3. /\ BarAt(trades, end)
               = [ts |-> end, volume |-> Cardinality(W),
                  ohlc |-> [open |-> trades[Min(W)].price, high |-> Max({trades[m].price : m \in W}),
                            low |-> Min({trades[m].price : m \in W}), close |-> trades[Max(W)].price]]
          /\ Min(W) \in W /\ Max(W) \in W
      BY <2>2, BarIs DEF W
    <2>4. BarAt(p, end)
            = [ts |-> end, volume |-> Cardinality(V),
               ohlc |-> [open |-> p[Min(V)].price, high |-> Max({p[m].price : m \in V}),
                         low |-> Min({p[m].price : m \in V}), close |-> p[Max(V)].price]]
      BY <1>4, <2>2, BarIs DEF V
    <2>5. {p[m].price : m \in V} = {trades[m].price : m \in W} /\ p[Min(V)] = trades[Min(W)]
          /\ p[Max(V)] = trades[Max(W)]
      BY <1>3, <2>2, <2>3
    <2>6. BarAt(p, end) = BarAt(trades, end)
      BY <2>2, <2>3, <2>4, <2>5
    <2> QED
      BY <2>1, <2>6 DEF end
  <1>16. \A k, m \in 1..Len(told) : k < m => told[k].ts < told[m].ts
    BY <1>5, <1>8
  <1>17. Tells(p, told)
    BY <1>8, <1>14, <1>15, <1>16 DEF Tells
  <1> QED
    BY <1>4, <1>17 DEF p, told, u, d

\* What a run's rest holds up to an instant, where that reaches past what was cut.
LEMMA RestBy ==
    ASSUME NEW S, NEW run \in Seq(S), Ascends(run), NEW d \in Int, NEW m \in 0..Len(run),
           m <= UpTo(run, d)
    PROVE  LET u == UpTo(run, d)
               by == ClosedBy(After(run, m), d)
           IN  /\ u = m => by = <<>>
               /\ u > m => by # <<>> /\ Last(by) = run[u]
  <1> DEFINE u == UpTo(run, d)
             n == Len(run)
             rest == After(run, m)
             v == UpTo(rest, d)
             by == SubSeq(rest, 1, v)
  <1>1. u \in 0..n /\ n \in Nat /\ \A k \in 1..n : k <= u <=> run[k].ts <= d
    <2>1. u \in 0..n /\ \A k \in 1..n : k <= u <=> run[k].ts <= d
      BY UpToIs
    <2> QED
      BY <2>1
  <1>2. rest \in Seq(S) /\ Len(rest) = n - m /\ \A k \in 1..(n - m) : rest[k] = run[m + k]
    BY AfterIs
  <1> HIDE DEF u, rest, n
  <1>3. m \in 0..n /\ m <= u
    BY DEF n, u
  <1>4. \A k \in 1..(n - m) : m + k \in 1..n
    BY <1>1, <1>3
  <1>5. Ascends(rest)
    <2>1. /\ \A k \in 1..n : run[k].ts \in Int
          /\ \A k, j \in 1..n : k <= j => run[k].ts <= run[j].ts
      BY DEF Ascends, n
    <2>2. ASSUME NEW k \in 1..(n - m), NEW j \in 1..(n - m), k <= j
          PROVE  rest[k].ts <= rest[j].ts
      <3>1. m + k <= m + j /\ m + k \in 1..n /\ m + j \in 1..n
        BY <1>3, <1>4, <2>2
      <3> QED
        BY <1>2, <2>1, <3>1
    <2>3. \A k \in 1..(n - m) : rest[k].ts \in Int
      BY <1>2, <1>4, <2>1
    <2> QED
      BY <1>2, <2>2, <2>3 DEF Ascends
  <1>6. v = u - m
    <2> DEFINE q == u - m
    <2>1. q \in 0..(n - m)
      BY <1>1, <1>3
    <2>2. \A k \in 1..(n - m) : k <= q <=> rest[k].ts <= d
      <3> SUFFICES ASSUME NEW k \in 1..(n - m)
                   PROVE  k <= q <=> rest[k].ts <= d
        OBVIOUS
      <3>1. m + k \in 1..n /\ rest[k] = run[m + k]
        BY <1>2, <1>4
      <3>2. m + k <= u <=> run[m + k].ts <= d
        BY <1>1, <3>1
      <3>3. m + k <= u <=> k <= q
        BY <1>1, <1>3
      <3> QED
        BY <3>1, <3>2, <3>3
    <2> HIDE DEF q
    <2>3. q = UpTo(rest, d)
      BY <1>2, <1>5, <2>1, <2>2, CutIs
    <2> QED
      BY <2>3 DEF q
  <1>7. u - m \in 0..Len(rest)
    BY <1>1, <1>2, <1>3
  <1> HIDE DEF v
  <1>8. v \in 0..Len(rest)
    BY <1>6, <1>7
  <1>9. Len(by) = v /\ (\A k \in 1..v : by[k] = rest[k]) /\ (v = 0 => by = <<>>)
    BY <1>2, <1>8
  <1> HIDE DEF by
  <1>10. v > 0 => by # <<>> /\ Last(by) = run[u]
    <2> SUFFICES ASSUME v > 0
                 PROVE  by # <<>> /\ Last(by) = run[u]
      OBVIOUS
    <2>1. v \in 1..v /\ v \in 1..(n - m) /\ m + v = u
      BY <1>1, <1>2, <1>3, <1>6, <1>8
    <2>2. by[v] = run[u]
      BY <1>2, <1>9, <2>1
    <2> QED
      BY <1>9, <2>1, <2>2 DEF Last
  <1>11. (u = m => v = 0) /\ (u > m => v > 0)
    BY <1>1, <1>3, <1>6
  <1>12. /\ u = m => by = <<>>
         /\ u > m => by # <<>> /\ Last(by) = run[u]
    BY <1>9, <1>10, <1>11
  <1> QED
    BY <1>12 DEF u, by, v, rest, ClosedBy

\* Hist::by gives a node clocked by trades, at each, the bar that had closed by then.
THEOREM ReadsBehind == Spec => []NoReadAhead
  <1>1. Standing /\ Follows => NoReadAhead
    <2> SUFFICES ASSUME Standing, Follows, NEW r \in reads, NEW i \in DOMAIN out.trades
                 PROVE  LET by == ClosedBy(All(ViewRows(node.rows, r)), out.trades[i].ts)
                            stood == BarsOf(SubSeq(tape, 1, Len(tape) - Len(out.trades) + i))
                        IN  IF stood = <<>> THEN by = <<>> ELSE by # <<>> /\ Last(by) = Last(stood)
      BY DEF NoReadAhead
    <2> DEFINE bars == published.bars
               f == Len(out.bars)
               batch == out.trades
               n == Len(bars)
    <2>1. PICK was, old : /\ Taped(was) /\ Tells(was, old)
                          /\ batch \in Seq(Trade) /\ tape = was \o batch
                          /\ f \in Nat /\ n = Len(old) + f
      BY DEF Follows
    <2>2. bars \in Seq(Bar) /\ n \in Nat /\ Ascends(bars) /\ Tells(tape, bars) /\ Taped(tape)
      BY BarsAscend DEF Standing
    <2>3. old \in Seq(Bar) /\ Len(old) \in Nat
      BY <2>1, BarsAscend
    <2>4. Buffers(node.rows, bars, f, Retained) /\ Retained \in Reaches /\ r \in Reaches
      BY RetainedIs DEF Standing
    <2>5. i \in 1..Len(batch) /\ i \in Nat
      BY <2>1
    <2> DEFINE a == Len(was)
               j == a + i
               d == batch[i].ts
               l == Len(old)
    <2>6. was \in Seq(Trade) /\ a \in Nat
      <3>1. was \in Seq(Trade)
        BY <2>1 DEF Taped
      <3> QED
        BY <3>1
    <2> HIDE DEF bars, f, batch
    <2>7. /\ Len(tape) = a + Len(batch) /\ j \in 1..Len(tape) /\ tape[j] = batch[i]
          /\ Len(tape) - Len(batch) + i = j
          /\ \A k \in 1..a : tape[k] = was[k]
      <3>1. /\ Len(tape) = a + Len(batch)
            /\ \A k \in 1..a : tape[k] = was[k]
            /\ \A k \in 1..Len(batch) : tape[a + k] = batch[k]
        BY <2>1, <2>6, ConcatProperties
      <3> HIDE DEF a
      <3> QED
        BY <2>1, <2>5, <2>6, <3>1
    <2>8. SubSeq(tape, 1, a) = was
      BY <2>1, <2>6
    <2>9. tape \in Seq(Trade) /\ d \in Nat
      <3>1. batch[i] \in Trade
        BY <2>1, <2>5
      <3> QED
        BY <2>2, <3>1 DEF Taped, Trade
    <2> DEFINE u == UpTo(bars, d)
               stood == BarsOf(SubSeq(tape, 1, j))
               by == ClosedBy(All(ViewRows(node.rows, r)), d)
    <2> HIDE DEF a, j, n, d, l
    <2>10. u \in 0..n /\ \A k \in 1..n : k <= u <=> bars[k].ts <= d
      <3>1. d \in Int /\ Ascends(bars)
        BY <2>2, <2>9
      <3> QED
        BY <3>1, UpToIs DEF n
    <2>11. stood = SubSeq(bars, 1, u)
      <3>1. Taped(SubSeq(tape, 1, j)) /\ Tells(SubSeq(tape, 1, j), SubSeq(bars, 1, UpTo(bars, tape[j].ts)))
        BY <2>2, <2>7, ToldBy
      <3>2. UpTo(bars, tape[j].ts) = u
        BY <2>7 DEF d
      <3> QED
        BY <3>1, <3>2, Told
    <2>12. l <= u
      <3>1. CASE a = 0
        <4>1. was = <<>>
          BY <2>6, <3>1 DEF a
        <4>2. Closed(was) = {}
          BY <4>1 DEF Closed
        <4>3. {old[k].ts : k \in 1..l} = {}
          BY <2>1, <4>2 DEF Tells, l
        <4>4. l = 0
          <5> SUFFICES ASSUME l # 0
                       PROVE  FALSE
            OBVIOUS
          <5>1. 1 \in 1..l
            BY <2>3 DEF l
          <5> QED
            BY <4>3, <5>1
        <4> QED
          BY <2>2, <2>10, <4>4 DEF n
      <3>2. CASE a # 0
        <4>1. a \in 1..Len(tape) /\ a <= j
          BY <2>5, <2>6, <2>7, <3>2 DEF j
        <4> DEFINE e == tape[a].ts
                   v == UpTo(bars, e)
        <4>2. Taped(SubSeq(tape, 1, a)) /\ Tells(SubSeq(tape, 1, a), SubSeq(bars, 1, v))
          BY <2>2, <4>1, ToldBy
        <4>3. SubSeq(bars, 1, v) = BarsOf(was) /\ old = BarsOf(was)
          BY <2>1, <2>8, <4>2, Told
        <4>4. tape[j].ts = d /\ e <= d /\ e \in Nat
          <5>1. tape[a] \in Trade
            BY <2>9, <4>1
          <5>2. tape[a].ts <= tape[j].ts
            BY <2>2, <2>7, <4>1 DEF Taped
          <5> QED
            BY <2>7, <5>1, <5>2 DEF Trade, d
        <4> HIDE DEF e
        <4>5. v \in 0..n /\ \A k \in 1..n : k <= v <=> bars[k].ts <= e
          <5>1. e \in Int /\ Ascends(bars)
            BY <2>2, <4>4
          <5> QED
            BY <5>1, UpToIs DEF n
        <4> HIDE DEF v
        <4>6. Len(SubSeq(bars, 1, v)) = v
          BY <2>2, <4>5 DEF n
        <4>7. l = v
          BY <4>3, <4>6 DEF l
        <4>8. v <= u
          <5> HIDE DEF u
          <5>1. v = 0 \/ v \in 1..n
            BY <2>2, <4>5 DEF n
          <5>2. v \in 1..n => bars[v].ts <= e /\ bars[v].ts \in Int
            BY <2>2, <4>5 DEF Ascends, n
          <5>3. v \in 1..n => bars[v].ts <= d
            BY <2>9, <4>4, <5>2
          <5> QED
            BY <2>2, <2>10, <5>1, <5>3
        <4> QED
          BY <4>7, <4>8
      <3> QED
        BY <3>1, <3>2
    <2> DEFINE x == Trim(Before(bars, f), Retained)
               y == Trim(Before(bars, f), r)
               m == IF y >= x THEN y ELSE x
    <2>13. /\ All(ViewRows(node.rows, r)) = After(bars, m)
           /\ x \in 0..(n - f) /\ y \in 0..(n - f) /\ (n > f => x < n - f /\ y < n - f)
      <3>1. f \in 0..n
        BY <2>4 DEF Buffers, n
      <3>2. All(ViewRows(node.rows, r)) = After(bars, m)
        BY <2>2, <2>4, Sees
      <3>3. x \in 0..(n - f) /\ (n > f => x < n - f)
        BY <2>2, <2>4, <3>1, Trimmed DEF n
      <3>4. y \in 0..(n - f) /\ (n > f => y < n - f)
        BY <2>2, <2>4, <3>1, Trimmed DEF n
      <3> QED
        BY <3>2, <3>3, <3>4
    <2>14. n - f = l /\ l \in Nat /\ n \in Nat /\ f \in Nat
      BY <2>1, <2>2, <2>3 DEF l
    <2> HIDE DEF x, y
    <2>15. m \in 0..n /\ m <= u /\ (u > 0 => m < u)
      <3> HIDE DEF u
      <3>1. x \in Nat /\ y \in Nat /\ x <= l /\ y <= l /\ (l > 0 => x < l /\ y < l)
        BY <2>13, <2>14
      <3>2. m \in Nat /\ m <= l /\ (l > 0 => m < l)
        BY <2>14, <3>1
      <3> HIDE DEF m
      <3> QED
        BY <2>10, <2>12, <2>14, <3>2
    <2> HIDE DEF m
    <2>16. /\ u = m => by = <<>>
           /\ u > m => by # <<>> /\ Last(by) = bars[u]
      <3>1. d \in Int /\ m \in 0..Len(bars) /\ m <= UpTo(bars, d)
        BY <2>9, <2>15 DEF n
      <3> QED
        BY <2>2, <2>13, <3>1, RestBy
    <2> HIDE DEF u, by
    <2>17. IF stood = <<>> THEN by = <<>> ELSE by # <<>> /\ Last(by) = Last(stood)
      <3>1. Len(stood) = u /\ (u > 0 => stood[u] = bars[u]) /\ (u = 0 <=> stood = <<>>)
        <4>1. stood = SubSeq(bars, 1, u) /\ u \in 0..Len(bars) /\ bars \in Seq(Bar) /\ Len(bars) \in Nat
          BY <2>2, <2>10, <2>11 DEF n
        <4> HIDE DEF stood
        <4>2. stood \in Seq(Bar) /\ Len(stood) = u /\ \A k \in 1..u : stood[k] = bars[k]
          BY <4>1
        <4> QED
          BY <4>1, <4>2
      <3> HIDE DEF stood
      <3>2. CASE u = 0
        <4>1. m = 0
          BY <2>15, <3>2
        <4> QED
          BY <2>16, <3>1, <3>2, <4>1
      <3>3. CASE u # 0
        <4>1. u > 0 /\ u > m
          BY <2>10, <2>14, <2>15, <3>3
        <4>2. Last(stood) = bars[u]
          BY <3>1, <4>1 DEF Last
        <4> QED
          BY <2>16, <3>1, <4>1, <4>2
      <3> QED
        BY <3>2, <3>3
    <2> QED
      BY <2>7, <2>17 DEF by, stood, batch, d
  <1> QED
    BY <1>1, StandingInv, PTL

-----------------------------------------------------------------------------
(* How far apart bars are.                                                  *)

\* From one bar to the next, no further than a gap between trades takes it.
LEMMA BarsNear ==
    ASSUME NEW trades, Taped(trades), Stepped(trades), NEW bars, Tells(trades, bars),
           NEW k \in 1..(Len(bars) - 1)
    PROVE  \E g \in Gaps : bars[k + 1].ts - bars[k].ts <= g + Period - 1
  <1> DEFINE n == Len(trades)
             end == bars[k].ts
             W == Within(trades, end)
  <1>1. /\ bars \in Seq(Bar) /\ Len(bars) \in Nat /\ k \in 1..Len(bars) /\ k + 1 \in 1..Len(bars)
        /\ \A j \in 1..Len(bars) : bars[j].ts \in Nat
        /\ \A j, m \in 1..Len(bars) : j < m => bars[j].ts < bars[m].ts
    <2>1. Len(bars) \in Nat
      BY BarsAscend
    <2> QED
      BY <2>1, BarsAscend
  <1>2. /\ \A j \in 1..Len(bars) : bars[j].ts \in Closed(trades)
        /\ \A c \in Closed(trades) : \E j \in 1..Len(bars) : c = bars[j].ts
    BY DEF Tells
  <1>3. trades \in Seq(Trade) /\ n \in Nat /\ trades # <<>> /\ Last(trades) = trades[n]
    <2>1. trades \in Seq(Trade) /\ n \in Nat
      BY DEF Taped
    <2>2. trades # <<>>
      <3> SUFFICES ASSUME trades = <<>>
                   PROVE  FALSE
        OBVIOUS
      <3>1. Closed(trades) = {}
        BY DEF Closed
      <3> QED
        BY <1>1, <1>2, <3>1
    <2> QED
      BY <2>1, <2>2 DEF Last
  <1>4. \A j \in 1..n : trades[j].ts \in Nat
    <2>1. \A j \in 1..n : trades[j] \in Trade
      BY <1>3
    <2> QED
      BY <2>1 DEF Trade
  <1>5. /\ W # {} /\ end \in Nat /\ end < CloseOf(trades[n].ts) /\ CloseOf(trades[n].ts) \in Nat
        /\ \A c \in Closed(trades) : c < CloseOf(trades[n].ts)
        /\ \A c : Within(trades, c) # {} /\ c # CloseOf(trades[n].ts) => c \in Closed(trades)
    BY <1>1, <1>2, <1>3, ClosedIs DEF n
  <1>6. W \subseteq 1..n /\ Max(W) \in W /\ \A j \in W : j <= Max(W)
    BY <1>5, BarIs DEF n
  <1> DEFINE i == Max(W)
  <1> HIDE DEF n, end, i
  <1>7. i \in 1..n /\ CloseOf(trades[i].ts) = end /\ \A j \in W : j <= i
    BY <1>6 DEF Within, i, n
  <1>8. i # n
    BY <1>1, <1>5, <1>7
  <1>9. i \in 1..(n - 1) /\ i + 1 \in 1..n
    BY <1>3, <1>7, <1>8
  <1> DEFINE x == trades[i].ts
             y == trades[i + 1].ts
             g == y - x
             c == CloseOf(y)
  <1>10. x \in Nat /\ y \in Nat /\ x <= y /\ g \in Gaps
    <2>1. trades[i].ts <= trades[i + 1].ts
      BY <1>3, <1>7, <1>9 DEF Taped, n
    <2>2. g \in Gaps
      BY <1>9 DEF Stepped, n
    <2> QED
      BY <1>4, <1>7, <1>9, <2>1, <2>2
  <1>11. c # end
    <2>1. i + 1 \notin W
      BY <1>3, <1>7, <1>9
    <2> QED
      BY <1>9, <2>1 DEF Within, n
  <1> HIDE DEF x, y
  <1>12. CloseOf(x) = end /\ end <= c /\ c - end <= y - x + Period - 1 /\ c \in Nat
    <2>1. CloseOf(x) = end
      BY <1>7 DEF x
    <2>2. CloseOf(x) <= CloseOf(y) /\ CloseOf(y) - CloseOf(x) <= y - x + Period - 1
      BY <1>10, Closes
    <2>3. c \in Nat
      <3>1. y <= y
        BY <1>10
      <3> QED
        BY <1>10, <3>1, Closes
    <2> QED
      BY <2>1, <2>2, <2>3
  <1> HIDE DEF c
  <1>13. bars[k + 1].ts <= c
    <2> DEFINE b == bars[k + 1].ts
    <2>1. b \in Nat /\ b \in Closed(trades)
      BY <1>1, <1>2
    <2> HIDE DEF b
    <2>2. CASE c = CloseOf(trades[n].ts)
      BY <1>5, <1>12, <2>1, <2>2 DEF b
    <2>3. CASE c # CloseOf(trades[n].ts)
      <3>1. Within(trades, c) # {}
        <4>1. i + 1 \in Within(trades, c)
          BY <1>9 DEF Within, c, y, n
        <4> QED
          BY <4>1
      <3>2. PICK j \in 1..Len(bars) : c = bars[j].ts
        BY <1>2, <1>5, <2>3, <3>1
      <3>3. ~ (j < k) /\ j # k
        <4>1. j # k
          BY <1>11, <3>2 DEF end
        <4>2. j < k => c < end
          BY <1>1, <3>2 DEF end
        <4> QED
          BY <1>5, <1>12, <4>1, <4>2
      <3>4. j = k + 1 \/ k + 1 < j
        BY <1>1, <3>2, <3>3
      <3>5. bars[k + 1].ts < bars[j].ts \/ j = k + 1
        BY <1>1, <3>4
      <3> QED
        BY <1>12, <2>1, <3>2, <3>5 DEF b
    <2> QED
      BY <2>2, <2>3
  <1>14. bars[k + 1].ts - bars[k].ts <= g + Period - 1
    <2> DEFINE b == bars[k + 1].ts
    <2>1. b \in Nat /\ b <= c /\ Period \in Nat
      BY <1>1, <1>13, DerivativesConstants
    <2> HIDE DEF b
    <2>2. b - end <= g + Period - 1
      BY <1>5, <1>10, <1>12, <2>1
    <2> QED
      BY <2>2 DEF b, end
  <1> HIDE DEF g
  <1> QED
    BY <1>10, <1>14

\* What reaches further back of a run leaves more of it.
LEMMA TrimCovers ==
    ASSUME NEW run, Ascends(run), NEW h \in Reaches, NEW r \in Reaches,
           \A k \in 1..Len(run) : Beyond(run, h, k) => Beyond(run, r, k)
    PROVE  Trim(run, h) <= Trim(run, r)
  <1> DEFINE n == Len(run)
             t == Trim(run, h)
             s == Trim(run, r)
  <1>1. n \in Nat /\ t \in 0..n /\ \A j \in 1..n : j <= t <=> Beyond(run, h, j)
    BY TrimIs
  <1>2. s \in 0..n /\ \A j \in 1..n : j <= s <=> Beyond(run, r, j)
    BY TrimIs
  <1> HIDE DEF n, t, s
  <1>3. \A j \in 1..n : Beyond(run, h, j) => Beyond(run, r, j)
    BY DEF n
  <1>4. t \in 1..n => t <= s
    BY <1>1, <1>2, <1>3
  <1>5. t <= s
    BY <1>1, <1>2, <1>4
  <1> QED
    BY <1>5 DEF t, s

\* Steps each bounded add up.
LEMMA StepsAdd ==
    ASSUME NEW run, NEW n \in Nat, \A k \in 1..n : run[k].ts \in Nat, NEW N \in Nat, NEW B \in Nat,
           \A k \in 1..(n - 1) : N * (run[k + 1].ts - run[k].ts) <= B
    PROVE  \A d \in Nat : \A k \in 1..n : k + d <= n => N * (run[k + d].ts - run[k].ts) <= d * B
  <1> DEFINE T == {d \in Nat : \A k \in 1..n : k + d <= n => N * (run[k + d].ts - run[k].ts) <= d * B}
  <1>1. 0 \in T
    <2> SUFFICES ASSUME NEW k \in 1..n
                 PROVE  N * (run[k + 0].ts - run[k].ts) <= 0 * B
      OBVIOUS
    <2>1. k + 0 = k /\ run[k].ts - run[k].ts = 0 /\ N * 0 = 0 /\ 0 * B = 0
      OBVIOUS
    <2> QED
      BY <2>1
  <1>2. ASSUME NEW d \in Nat, d \in T
        PROVE  d + 1 \in T
    <2>1. d + 1 \in Nat
      OBVIOUS
    <2> SUFFICES ASSUME NEW k \in 1..n, k + (d + 1) <= n
                 PROVE  N * (run[k + (d + 1)].ts - run[k].ts) <= (d + 1) * B
      BY <2>1, Zenon
    <2> DEFINE x == run[k].ts
               y == run[k + d].ts
               z == run[k + d + 1].ts
    <2>2. k + d \in 1..(n - 1) /\ k + d \in 1..n /\ k + d + 1 \in 1..n /\ k + (d + 1) = k + d + 1 /\ k + d <= n
      OBVIOUS
    <2>3. x \in Nat /\ y \in Nat /\ z \in Nat /\ N * (z - y) <= B /\ N * (y - x) <= d * B
      BY <1>2, <2>2
    <2> HIDE DEF x, y, z
    <2>4. N * (z - x) = N * (z - y) + N * (y - x) /\ (d + 1) * B = d * B + B
      BY <2>3
    <2>5. N * (z - x) <= (d + 1) * B
      <3> DEFINE a == N * (z - y)
                 b == N * (y - x)
                 c == d * B
      <3>1. a \in Int /\ b \in Int /\ c \in Int /\ a <= B /\ b <= c
        BY <2>3
      <3>2. N * (z - x) = a + b /\ (d + 1) * B = c + B
        BY <2>4
      <3> HIDE DEF a, b, c
      <3> QED
        BY <3>1, <3>2
    <2> QED
      BY <2>2, <2>5 DEF x, z
  <1> HIDE DEF T
  <1>3. Nat \subseteq T
    BY <1>1, <1>2, Adding!Induction
  <1> QED
    BY <1>3 DEF T

\* A span that holds a count's bars however the gaps fall leaves what the count does.
LEMMA SpanCovers ==
    ASSUME NEW trades, Taped(trades), Stepped(trades), NEW bars, Tells(trades, bars),
           NEW f \in 0..Len(bars), NEW h \in Reaches, NEW r \in Reaches,
           h.kind = "over", r.kind = "elems",
           \A g \in Gaps : (r.n - 1) * (g + Period - 1) < h.n
    PROVE  Trim(Before(bars, f), h) <= Trim(Before(bars, f), r)
  <1> DEFINE b == Before(bars, f)
             l == Len(bars) - f
             N == r.n - 1
             B == h.n - 1
  <1>1. /\ Ascends(bars) /\ Len(bars) \in Nat /\ bars \in Seq(Bar)
        /\ \A k \in 1..Len(bars) : bars[k].ts \in Nat
        /\ \A k, m \in 1..Len(bars) : k < m => bars[k].ts < bars[m].ts
    BY BarsAscend
  <1>2. Ascends(b) /\ Len(b) = l /\ l \in Nat /\ (\A k \in 1..l : b[k] = bars[k]) /\ \A k \in 1..l : k \in 1..Len(bars)
    <2>1. Ascends(b) /\ Len(b) = l /\ \A k \in 1..l : b[k] = bars[k]
      BY <1>1, Trimmed
    <2> HIDE DEF b
    <2> QED
      BY <1>1, <2>1
  <1>3. r.n \in Nat \ {0} /\ h.n \in Nat \ {0} /\ N \in Nat /\ B \in Nat
    <2>1. r.n \in Nat \ {0} /\ h.n \in Nat \ {0}
      BY DEF Reaches
    <2> QED
      BY <2>1
  <1> HIDE DEF b
  <1>4. \A k \in 1..(Len(bars) - 1) : N * (bars[k + 1].ts - bars[k].ts) <= B
    <2> SUFFICES ASSUME NEW k \in 1..(Len(bars) - 1)
                 PROVE  N * (bars[k + 1].ts - bars[k].ts) <= B
      OBVIOUS
    <2> DEFINE x == bars[k].ts
               y == bars[k + 1].ts
    <2>1. PICK g \in Gaps : y - x <= g + Period - 1
      BY BarsNear
    <2>2. x \in Nat /\ y \in Nat
      BY <1>1
    <2>3. g \in Nat /\ Period \in Nat /\ N * (g + Period - 1) < h.n
      BY DerivativesConstants
    <2> HIDE DEF x, y, N
    <2> DEFINE c == g + Period - 1
               e == y - x
    <2>4. c \in Int /\ e \in Int /\ e <= c /\ N \in Nat /\ N * c < h.n
      BY <1>3, <2>1, <2>2, <2>3
    <2> HIDE DEF c, e
    <2>5. N * e <= N * c
      BY <2>4
    <2>6. N * e <= B
      <3> DEFINE p == N * e
                 q == N * c
                 H == h.n
      <3>1. p \in Int /\ q \in Int /\ H \in Nat
        BY <1>3, <2>4
      <3>2. p <= q /\ q < H /\ B = H - 1
        BY <2>4, <2>5
      <3> HIDE DEF p, q, H, B
      <3>3. p <= B
        BY <3>1, <3>2
      <3> QED
        BY <3>3 DEF p
    <2> QED
      BY <2>6 DEF x, y, e
  <1>5. \A d \in Nat : \A k \in 1..Len(bars) : k + d <= Len(bars) => N * (bars[k + d].ts - bars[k].ts) <= d * B
    <2> HIDE DEF N, B
    <2> QED
      BY <1>1, <1>3, <1>4, StepsAdd
  <1>6. ASSUME NEW k \in 1..Len(b), Beyond(b, h, k)
        PROVE  Beyond(b, r, k)
    <2> DEFINE d == l - k
               x == bars[k].ts
               y == bars[l].ts
    <2>1. d \in Nat /\ k + d = l /\ l \in 1..l /\ k \in 1..l /\ l <= Len(bars)
      BY <1>1, <1>2
    <2>2. b[k] = bars[k] /\ Last(b) = bars[l] /\ x \in Nat /\ y \in Nat
      <3>1. Last(b) = b[l]
        BY <1>2 DEF Last
      <3> QED
        BY <1>1, <1>2, <2>1, <3>1
    <2>3. x <= y - h.n
      BY <1>6, <2>2 DEF Beyond
    <2>4. N * (y - x) <= d * B
      <3> HIDE DEF d
      <3>1. k \in 1..Len(bars) /\ k + d <= Len(bars)
        BY <1>1, <1>2, <2>1
      <3>2. N * (bars[k + d].ts - bars[k].ts) <= d * B
        BY <1>5, <2>1, <3>1
      <3> QED
        BY <2>1, <3>2
    <2> HIDE DEF d, x, y, l
    <2>5. d >= r.n
      <3> SUFFICES ASSUME d < r.n
                   PROVE  FALSE
        BY <1>3, <2>1
      <3> DEFINE e == y - x
      <3>1. d <= N /\ e \in Int /\ e >= B + 1
        <4> DEFINE R == r.n
                   H == h.n
        <4>1. /\ R \in Nat /\ H \in Nat /\ d < R /\ d \in Nat /\ x \in Nat /\ y \in Nat /\ x <= y - H
              /\ N = R - 1 /\ B = H - 1
          BY <1>3, <2>1, <2>2, <2>3
        <4> HIDE DEF R, H, N, B
        <4> QED
          BY <4>1
      <3> HIDE DEF N, B, e
      <3>2. d * B <= N * B
        BY <1>3, <2>1, <3>1
      <3>3. N * (B + 1) <= N * e
        BY <1>3, <3>1
      <3>4. N * (B + 1) = N * B + N
        BY <1>3
      <3>5. N = 0
        <4> DEFINE p == N * B
                   q == d * B
                   s == N * e
        <4>1. p \in Int /\ q \in Int /\ s \in Int /\ N \in Nat
          BY <1>3, <2>1, <3>1
        <4>2. q <= p /\ p + N <= s /\ s <= q
          BY <2>4, <3>2, <3>3, <3>4 DEF e
        <4> HIDE DEF p, q, s
        <4> QED
          BY <4>1, <4>2
      <3>6. d = 0
        BY <1>3, <2>1, <3>1, <3>5
      <3>7. k = l
        BY <1>2, <2>1, <3>6
      <3>8. e = 0
        BY <2>2, <3>7 DEF x, y, e
      <3> QED
        BY <1>3, <3>1, <3>8
    <2> QED
      BY <1>2, <2>5 DEF Beyond, d
  <1>7. Trim(b, h) <= Trim(b, r)
    BY <1>2, <1>6, TrimCovers
  <1> QED
    BY <1>7 DEF b

\* Where each count is of bars the longest span holds, a read of the shared buffer
\* is the read's own.
THEOREM AsIfAlone ==
    ASSUME Reaching
    PROVE  Spec => []ReadsAsIfAlone
  <1>1. Standing => ReadsAsIfAlone
    <2> SUFFICES ASSUME Standing, NEW r \in reads
                 PROVE  All(ViewRows(node.rows, r)) = All(ViewRows(node.alone[r], r))
      BY DEF ReadsAsIfAlone
    <2> DEFINE bars == published.bars
               f == Len(out.bars)
               h == Retained
               b == Before(bars, f)
    <2>1. bars \in Seq(Bar) /\ Ascends(bars) /\ Taped(tape) /\ Stepped(tape) /\ Tells(tape, bars)
      BY BarsAscend DEF Standing
    <2>2. /\ h \in reads /\ h \in Reaches /\ reads \subseteq Reaches /\ r \in Reaches /\ reads \in ReadSets
          /\ \A q \in reads : /\ h.kind = "over" \/ q.kind = "elems"
                              /\ h.kind = q.kind => h.n >= q.n
      BY RetainedIs DEF Standing
    <2>3. Buffers(node.rows, bars, f, h) /\ Buffers(node.alone[r], bars, f, r)
      BY DEF Standing
    <2>4. f \in 0..Len(bars)
      BY <2>3 DEF Buffers
    <2> HIDE DEF bars, f, h
    <2>5. Trim(b, h) <= Trim(b, r) /\ Trim(b, h) \in Nat /\ Trim(b, r) \in Nat
      <3>1. Ascends(b) /\ Trim(b, h) \in Nat /\ Trim(b, r) \in Nat
        <4>1. Ascends(b) /\ Trim(b, h) \in 0..(Len(bars) - f) /\ Trim(b, r) \in 0..(Len(bars) - f)
          BY <2>1, <2>2, <2>4, Trimmed
        <4> HIDE DEF b
        <4> QED
          BY <4>1
      <3>2. CASE h.kind = r.kind
        <4>1. h.n >= r.n
          BY <2>2, <3>2
        <4> HIDE DEF b
        <4> QED
          BY <2>2, <3>1, <3>2, <4>1, TrimDeeper
      <3>3. CASE h.kind # r.kind
        <4>1. h.kind = "over" /\ r.kind = "elems"
          BY <2>2, <3>3 DEF Reaches
        <4>2. PICK s \in reads : s.kind = "over" /\ \A g \in Gaps : (r.n - 1) * (g + Period - 1) < s.n
          BY <2>2, <4>1 DEF Reaching
        <4>3. h.n >= s.n /\ h.n \in Nat /\ s.n \in Nat
          BY <2>2, <4>1, <4>2 DEF Reaches
        <4>4. \A g \in Gaps : (r.n - 1) * (g + Period - 1) < h.n
          <5> SUFFICES ASSUME NEW g \in Gaps
                       PROVE  (r.n - 1) * (g + Period - 1) < h.n
            OBVIOUS
          <5> DEFINE a == (r.n - 1) * (g + Period - 1)
          <5>1. r.n \in Nat /\ g \in Nat /\ Period \in Nat
            BY <2>2, DerivativesConstants DEF Reaches
          <5>2. a \in Int /\ a < s.n
            BY <4>2, <5>1
          <5> HIDE DEF a
          <5>3. a < h.n
            BY <4>3, <5>2
          <5> QED
            BY <5>3 DEF a
        <4>5. Trim(b, h) <= Trim(b, r)
          BY <2>1, <2>2, <2>4, <4>1, <4>4, SpanCovers
        <4> QED
          BY <3>1, <4>5
      <3> QED
        BY <3>2, <3>3
    <2>6. All(ViewRows(node.rows, r)) = After(bars, IF Trim(b, r) >= Trim(b, h) THEN Trim(b, r) ELSE Trim(b, h))
      BY <2>1, <2>2, <2>3, Sees
    <2>7. All(ViewRows(node.alone[r], r)) = After(bars, IF Trim(b, r) >= Trim(b, r) THEN Trim(b, r) ELSE Trim(b, r))
      BY <2>1, <2>2, <2>3, Sees
    <2> QED
      BY <2>5, <2>6, <2>7
  <1>2. Standing /\ Follows => ReadsAsIfAlone
    BY <1>1
  <1>3. Spec => [](Standing /\ Follows)
    BY StandingInv
  <1> QED
    BY <1>2, <1>3, PTL

-----------------------------------------------------------------------------
(* The means of the moves.                                                  *)

\* An absent element is not a present one, and a present one is what it holds.
LEMMA Presence ==
    ASSUME NEW x
    PROVE  Some(x) # None /\ Some(x)[1] = x
  BY DEF Some, None

\* The two ways a folded element goes.
LEMMA FoldAbsent ==
    ASSUME NEW body, NEW c, NEW past
    PROVE  Fold(body, [c |-> c, out |-> past], None) = [c |-> c, out |-> Append(past, None)]
  <1> DEFINE acc == [c |-> c, out |-> past]
  <1>1. [acc EXCEPT !.out = Append(@, None)] = [c |-> c, out |-> Append(past, None)]
    OBVIOUS
  <1> HIDE DEF acc
  <1>2. Fold(body, acc, None) = [acc EXCEPT !.out = Append(@, None)]
    BY DEF Fold
  <1> QED
    BY <1>1, <1>2, Zenon DEF acc

LEMMA FoldPresent ==
    ASSUME NEW body, NEW acc, NEW x
    PROVE  Fold(body, acc, Some(x)) = [c |-> Step(body, acc.c, x),
                                       out |-> Append(acc.out, Value(body, Step(body, acc.c, x), x))]
  <1> DEFINE y == Some(x)
  <1>1. y # None /\ y[1] = x
    BY Presence
  <1> HIDE DEF y
  <1>2. Fold(body, acc, y) = [c |-> Step(body, acc.c, x),
                              out |-> Append(acc.out, Value(body, Step(body, acc.c, x), x))]
    BY <1>1 DEF Fold
  <1> QED
    BY <1>2 DEF y

\* A run listed from a function, one longer.
LEMMA Lengthens ==
    ASSUME NEW v, NEW n \in Nat
    PROVE  Append([k \in 1..n |-> v[k]], v[n + 1]) = [k \in 1..(n + 1) |-> v[k]]
  <1> DEFINE S == {v[k] : k \in 1..(n + 1)}
             a == [k \in 1..n |-> v[k]]
             b == [k \in 1..(n + 1) |-> v[k]]
             c == Append(a, v[n + 1])
  <1>1. a \in [1..n -> S] /\ b \in [1..(n + 1) -> S] /\ v[n + 1] \in S
    OBVIOUS
  <1>2. a \in Seq(S) /\ Len(a) = n /\ b \in Seq(S) /\ Len(b) = n + 1
    <2> HIDE DEF S, a, b
    <2>1. \A m \in Nat : \A s \in [1..m -> S] : s \in Seq(S) /\ Len(s) = m
      BY SeqDef, LenProperties
    <2> QED
      BY <1>1, <2>1
  <1>3. /\ \A k \in 1..n : a[k] = v[k]
        /\ \A k \in 1..(n + 1) : b[k] = v[k]
    OBVIOUS
  <1> HIDE DEF S, a, b
  <1>4. c \in Seq(S) /\ Len(c) = n + 1 /\ c[n + 1] = v[n + 1] /\ \A k \in 1..n : c[k] = a[k]
    BY <1>1, <1>2
  <1>5. ASSUME NEW k \in 1..(n + 1)
        PROVE  c[k] = b[k]
    <2>1. CASE k = n + 1
      BY <1>3, <1>4, <2>1
    <2>2. CASE k # n + 1
      <3>1. k \in 1..n
        BY <2>2
      <3> QED
        BY <1>3, <1>4, <3>1
    <2> QED
      BY <2>1, <2>2
  <1> HIDE DEF c
  <1>6. c = b
    BY <1>2, <1>4, <1>5, SeqEqual
  <1> QED
    BY <1>6 DEF a, b, c

\* The sum of a run.
Total(s) == FoldLeft(+, 0, s)

LEMMA TotalOn ==
    /\ Total(<<>>) = 0
    /\ \A s \in Seq(Int) : \A x \in Int : Total(Append(s, x)) = Total(s) + x
  <1>1. \A s : Total(s) = Adding!Fold(0, 0, s)
    BY Zenon DEF Total, Adding!Fold, FoldLeft, MapThenFoldSet, Adding!FoldLeft,
       Adding!MapThenFoldSet, Max, Adding!Max
  <1>2. Adding!Fold(0, 0, <<>>) = 0
    BY Adding!FoldEmpty
  <1>3. ASSUME NEW s \in Seq(Int), NEW x \in Int
        PROVE  Adding!Fold(0, 0, Append(s, x)) = Adding!Fold(0, 0, s) + x
    BY Adding!FoldAppend
  <1> QED
    BY <1>1, <1>2, <1>3

\* A move between two bars.
Move(bars, sign, k) == Max({sign * (bars[k + 1].ohlc.close - bars[k].ohlc.close), 0})

\* What two bars close at is an amount, and so is the move between them.
LEMMA MoveIs ==
    ASSUME NEW bars \in Seq(Bar), NEW sign \in {1, -1}, NEW k \in 1..(Len(bars) - 1)
    PROVE  /\ bars[k + 1].ohlc.close - bars[k].ohlc.close \in Int
           /\ Move(bars, sign, k) \in Int
  <1> DEFINE x == bars[k].ohlc.close
             y == bars[k + 1].ohlc.close
             d == sign * (y - x)
  <1>1. bars[k] \in Bar /\ bars[k + 1] \in Bar
    <2>1. k \in 1..Len(bars) /\ k + 1 \in 1..Len(bars)
      OBVIOUS
    <2> QED
      BY <2>1
  <1>2. x \in Int /\ y \in Int
    BY <1>1 DEF Bar
  <1> HIDE DEF x, y
  <1>3. d \in Int /\ y - x \in Int
    BY <1>2
  <1> HIDE DEF d
  <1>4. Max({d, 0}) \in Int
    BY <1>3, OfPair
  <1> QED
    BY <1>3, <1>4 DEF Move, d, x, y

\* The moves of the first bars: one more with each bar after the first.
LEMMA MovesAre ==
    ASSUME NEW bars \in Seq(Bar), NEW sign \in {1, -1}, NEW j \in 0..Len(bars)
    PROVE  /\ Moves(bars, sign, j) \in Seq(Int)
           /\ Len(Moves(bars, sign, j)) = IF j = 0 THEN 0 ELSE j - 1
           /\ 0 < j /\ j < Len(bars)
                => Moves(bars, sign, j + 1) = Append(Moves(bars, sign, j), Move(bars, sign, j))
           /\ j <= 1 => Moves(bars, sign, j) = <<>>
  <1> DEFINE s == Moves(bars, sign, j)
  <1>1. Len(bars) \in Nat /\ j \in Nat
    OBVIOUS
  <1>2. s = [k \in 1..(j - 1) |-> Move(bars, sign, k)]
    BY DEF Moves, Move
  <1>3. \A k \in 1..(j - 1) : Move(bars, sign, k) \in Int
    <2>1. \A k \in 1..(j - 1) : k \in 1..(Len(bars) - 1)
      BY <1>1
    <2> QED
      BY <2>1, MoveIs
  <1>4. CASE j <= 1
    <2>1. 1..(j - 1) = {}
      BY <1>1, <1>4
    <2>2. s = <<>>
      BY <1>2, <2>1
    <2>3. <<>> \in Seq(Int) /\ Len(<<>>) = 0
      OBVIOUS
    <2>4. j = 1 => Moves(bars, sign, 2) = Append(<<>>, Move(bars, sign, 1))
      <3>1. Moves(bars, sign, 2) = [k \in 1..1 |-> Move(bars, sign, k)]
        BY DEF Moves, Move
      <3> DEFINE m == Move(bars, sign, 1)
                 u == [k \in 1..1 |-> Move(bars, sign, k)]
      <3>2. u = [k \in 1..1 |-> m]
        OBVIOUS
      <3> HIDE DEF m, u
      <3>3. u = Append(<<>>, m)
        BY <3>2
      <3> QED
        BY <3>1, <3>3 DEF m, u
    <2> HIDE DEF s
    <2>5. j = 0 \/ j = 1
      BY <1>1, <1>4
    <2> QED
      BY <1>1, <2>2, <2>3, <2>4, <2>5 DEF s
  <1>5. CASE ~ (j <= 1)
    <2> DEFINE n == j - 1
               v == [k \in 1..(Len(bars) - 1) |-> Move(bars, sign, k)]
    <2>1. n \in Nat /\ j = n + 1 /\ \A k \in 1..n : k \in 1..(Len(bars) - 1)
      BY <1>1, <1>5
    <2>2. s = [k \in 1..n |-> v[k]]
      BY <1>2, <2>1
    <2>3. s \in [1..n -> Int]
      BY <1>2, <1>3
    <2>4. s \in Seq(Int) /\ Len(s) = n
      <3> HIDE DEF s, n
      <3> QED
        BY <2>1, <2>3, SeqDef, LenProperties
    <2>5. ASSUME j < Len(bars)
          PROVE  Moves(bars, sign, j + 1) = Append(s, Move(bars, sign, j))
      <3>1. Moves(bars, sign, j + 1) = [k \in 1..(n + 1) |-> Move(bars, sign, k)]
        <4>1. (j + 1) - 1 = n + 1
          BY <1>1
        <4>2. Moves(bars, sign, j + 1) = [k \in 1..((j + 1) - 1) |-> Move(bars, sign, k)]
          BY DEF Moves, Move
        <4> QED
          BY <4>1, <4>2
      <3>2. n + 1 \in 1..(Len(bars) - 1) /\ \A k \in 1..(n + 1) : k \in 1..(Len(bars) - 1)
        BY <1>1, <1>5, <2>5
      <3>3. [k \in 1..(n + 1) |-> Move(bars, sign, k)] = [k \in 1..(n + 1) |-> v[k]]
        BY <3>2
      <3>4. v[n + 1] = Move(bars, sign, j)
        BY <2>1, <3>2
      <3> HIDE DEF v, n, s
      <3>5. Append([k \in 1..n |-> v[k]], v[n + 1]) = [k \in 1..(n + 1) |-> v[k]]
        BY <2>1, Lengthens
      <3> QED
        BY <2>2, <3>1, <3>3, <3>4, <3>5
    <2> HIDE DEF s, v
    <2> QED
      BY <1>1, <1>5, <2>4, <2>5 DEF s
  <1> QED
    BY <1>4, <1>5

\* The moves between the first bars do not change with the bars to come.
LEMMA MovesKeep ==
    ASSUME NEW bars \in Seq(Bar), NEW more \in Seq(Bar), NEW sign, NEW j \in 0..Len(bars)
    PROVE  Moves(bars \o more, sign, j) = Moves(bars, sign, j)
  <1> DEFINE all == bars \o more
  <1>1. \A k \in 1..Len(bars) : all[k] = bars[k]
    BY ConcatProperties
  <1>2. \A k \in 1..(j - 1) : k \in 1..Len(bars) /\ k + 1 \in 1..Len(bars)
    OBVIOUS
  <1> HIDE DEF all
  <1>3. \A k \in 1..(j - 1) : all[k] = bars[k] /\ all[k + 1] = bars[k + 1]
    BY <1>1, <1>2
  <1>4. Moves(all, sign, j) = Moves(bars, sign, j)
    BY <1>3 DEF Moves
  <1> QED
    BY <1>4 DEF all

\* The mean of a run taken whole: the plain one as soon as there are enough, and one
\* recurrence more with each after.
LEMMA MeanOfOn ==
    ASSUME NEW s \in Seq(Int), NEW x \in Int
    PROVE  /\ Len(s) + 1 = BaseLen
                => MeanOf(Append(s, x)) = [sum |-> Total(s) + x, over |-> BaseLen]
           /\ Len(s) >= BaseLen => MeanOf(Append(s, x)) = Recurred(MeanOf(s), x)
  <1> DEFINE base(u) == [sum |-> Total(SubSeq(u, 1, BaseLen)), over |-> BaseLen]
             mean(u) == Recurring!Fold(0, base(u), SubSeq(u, BaseLen + 1, Len(u)))
             t == Append(s, x)
             n == Len(s)
             B == BaseLen
  <1>1. \A u : MeanOf(u) = mean(u)
    BY Zenon DEF MeanOf, Total, Recurring!Fold, FoldLeft, MapThenFoldSet, Recurring!FoldLeft,
       Recurring!MapThenFoldSet, Max, Recurring!Max
  <1>2. n \in Nat /\ t \in Seq(Int) /\ Len(t) = n + 1 /\ t[n + 1] = x /\ \A k \in 1..n : t[k] = s[k]
    OBVIOUS
  <1>3. B \in Nat \ {0}
    BY DerivativesConstants
  <1>4. ASSUME n + 1 = B
        PROVE  mean(t) = [sum |-> Total(s) + x, over |-> B]
    <2>1. SubSeq(t, 1, B) = t /\ SubSeq(t, B + 1, Len(t)) = <<>>
      <3> HIDE DEF t, B, n
      <3> QED
        BY <1>2, <1>3, <1>4
    <2>2. Total(t) = Total(s) + x
      BY TotalOn
    <2> HIDE DEF t
    <2>3. base(t) = [sum |-> Total(s) + x, over |-> B]
      BY <2>1, <2>2
    <2> HIDE DEF base
    <2>4. Recurring!Fold(0, base(t), <<>>) = base(t)
      BY Recurring!FoldEmpty
    <2> QED
      BY <2>1, <2>3, <2>4
  <1>5. ASSUME n >= B
        PROVE  mean(t) = Recurred(mean(s), x)
    <2> DEFINE r == SubSeq(s, B + 1, n)
    <2> HIDE DEF t, B, n
    <2>1. SubSeq(t, 1, B) = SubSeq(s, 1, B)
      <3> DEFINE a == SubSeq(t, 1, B)
                 b == SubSeq(s, 1, B)
      <3>1. n = Len(s)
        BY DEF n
      <3>2. a \in Seq(Int) /\ Len(a) = B /\ \A k \in 1..B : a[k] = t[k]
        BY <1>2, <1>3, <1>5
      <3>3. b \in Seq(Int) /\ Len(b) = B /\ \A k \in 1..B : b[k] = s[k]
        BY <1>3, <1>5, <3>1
      <3>4. \A k \in 1..B : k \in 1..n
        BY <1>2, <1>3, <1>5
      <3> HIDE DEF a, b
      <3>5. a = b
        BY <1>2, <3>2, <3>3, <3>4, SeqEqual
      <3> QED
        BY <3>5 DEF a, b
    <2>2. SubSeq(t, B + 1, Len(t)) = Append(r, x) /\ r \in Seq(Int)
      <3>1. n \in 0..Len(t) /\ B \in 0..n /\ n < Len(t)
        BY <1>2, <1>3, <1>5
      <3>2. SubSeq(t, B + 1, n + 1) = Append(SubSeq(t, B + 1, n), t[n + 1])
            /\ SubSeq(t, B + 1, n) \in Seq(Int)
        BY <1>2, <3>1, Recurring!SubSeqGrows
      <3>3. SubSeq(t, B + 1, n) = r
        <4> DEFINE a == SubSeq(t, B + 1, n)
        <4>1. n = Len(s)
          BY DEF n
        <4>2. a \in Seq(Int) /\ Len(a) = n - B /\ \A k \in 1..(n - B) : a[k] = t[B + k]
          BY <1>2, <1>3, <1>5
        <4>3. r \in Seq(Int) /\ Len(r) = n - B /\ \A k \in 1..(n - B) : r[k] = s[B + k]
          BY <1>3, <1>5, <4>1
        <4>4. \A k \in 1..(n - B) : B + k \in 1..n
          BY <1>2, <1>3, <1>5
        <4> HIDE DEF a, r
        <4>5. \A k \in 1..(n - B) : a[k] = r[k]
          BY <1>2, <4>2, <4>3, <4>4
        <4>6. a = r
          BY <4>2, <4>3, <4>5, SeqEqual
        <4> QED
          BY <4>6 DEF a
      <3> QED
        BY <1>2, <3>2, <3>3
    <2>3. base(t) = base(s)
      <3> HIDE DEF r
      <3> QED
        BY <2>1 DEF B
    <2> HIDE DEF base, r
    <2>4. Recurring!Fold(0, base(s), Append(r, x)) = Recurred(Recurring!Fold(0, base(s), r), x)
      BY <2>2, Recurring!FoldAppend
    <2>5. mean(t) = Recurring!Fold(0, base(s), Append(r, x))
      BY <2>2, <2>3 DEF B
    <2>6. mean(s) = Recurring!Fold(0, base(s), r)
      BY DEF r, B, n
    <2> QED
      BY <2>4, <2>5, <2>6
  <1> QED
    BY <1>1, <1>4, <1>5 DEF t, n, B

\* A mean as it stands after a run.
Averaged(s) == [mean |-> IF Len(s) < BaseLen THEN [sum |-> Total(s), over |-> 1] ELSE MeanOf(s),
                warmed |-> IF Len(s) < BaseLen THEN Len(s) ELSE BaseLen]

\* wilder takes it one further.
LEMMA WilderOn ==
    ASSUME NEW s \in Seq(Int), NEW x \in Int
    PROVE  Wilder(Averaged(s), x) = Averaged(Append(s, x))
  <1> DEFINE n == Len(s)
             B == BaseLen
             t == Append(s, x)
             c == Averaged(s)
             m == MeanOf(s)
             a == Total(s)
  <1>1. n \in Nat /\ Len(t) = n + 1 /\ B \in Nat \ {0}
    BY DerivativesConstants
  <1>2. /\ n + 1 = B => MeanOf(t) = [sum |-> a + x, over |-> B]
        /\ n >= B => MeanOf(t) = Recurred(m, x)
        /\ Total(t) = a + x
    BY MeanOfOn, TotalOn
  <1>3. /\ Wilder(c, x) = [mean |-> IF c.warmed < B - 1 THEN [c.mean EXCEPT !.sum = @ + x]
                                    ELSE IF c.warmed < B THEN [sum |-> c.mean.sum + x, over |-> B]
                                    ELSE Recurred(c.mean, x),
                           warmed |-> Min({c.warmed + 1, B})]
    BY Zenon DEF Wilder, Recurred
  <1>4. c = [mean |-> IF n < B THEN [sum |-> a, over |-> 1] ELSE m, warmed |-> IF n < B THEN n ELSE B]
    BY DEF Averaged
  <1>5. Averaged(t) = [mean |-> IF n + 1 < B THEN [sum |-> a + x, over |-> 1] ELSE MeanOf(t),
                       warmed |-> IF n + 1 < B THEN n + 1 ELSE B]
    BY <1>1, <1>2 DEF Averaged
  <1> HIDE DEF n, B, t, c, m, a
  <1>6. c.warmed \in Nat /\ c.warmed = (IF n < B THEN n ELSE B)
        /\ c.mean = IF n < B THEN [sum |-> a, over |-> 1] ELSE m
    BY <1>1, <1>4
  <1>7. Min({c.warmed + 1, B}) = IF n + 1 < B THEN n + 1 ELSE B
    <2> DEFINE w == c.warmed
    <2>1. w \in Nat /\ w = (IF n < B THEN n ELSE B)
      BY <1>6
    <2> HIDE DEF w
    <2>2. w + 1 \in Int /\ B \in Int
      BY <1>1, <2>1
    <2>3. Min({w + 1, B}) = IF w + 1 <= B THEN w + 1 ELSE B
      BY <2>2, OfPair
    <2>4. Min({w + 1, B}) = IF n + 1 < B THEN n + 1 ELSE B
      BY <1>1, <2>1, <2>3
    <2> QED
      BY <2>4 DEF w
  <1>8. CASE n + 1 < B
    <2>1. c.warmed < B - 1 /\ c.mean = [sum |-> a, over |-> 1] /\ n < B
      BY <1>1, <1>6, <1>8
    <2>2. [c.mean EXCEPT !.sum = @ + x] = [sum |-> a + x, over |-> 1]
      BY <2>1
    <2> QED
      BY <1>3, <1>5, <1>7, <1>8, <2>1, <2>2 DEF c, t
  <1>9. CASE n + 1 = B
    <2>1. ~ (c.warmed < B - 1) /\ c.warmed < B /\ c.mean = [sum |-> a, over |-> 1] /\ ~ (n + 1 < B)
      BY <1>1, <1>6, <1>9
    <2>2. c.mean.sum = a
      BY <2>1
    <2> QED
      BY <1>2, <1>3, <1>5, <1>7, <1>9, <2>1, <2>2 DEF c, t
  <1>10. CASE n >= B
    <2>1. ~ (c.warmed < B - 1) /\ ~ (c.warmed < B) /\ c.mean = m /\ ~ (n + 1 < B)
      BY <1>1, <1>6, <1>10
    <2> QED
      BY <1>2, <1>3, <1>5, <1>7, <1>10, <2>1 DEF c, t
  <1> QED
    BY <1>1, <1>8, <1>9, <1>10

\* The leg of a body, and the sign of the moves it is of.
Sign(body) == IF body = "gain" THEN 1 ELSE -1

\* What a leg says at bar j.
LegAt(bars, sign, j) == IF j <= BaseLen THEN None ELSE Some(MeanOf(Moves(bars, sign, j)))

\* The close to close at bar j.
DeltaAt(bars, j) == IF j = 1 THEN None ELSE Some(bars[j].ohlc.close - bars[j - 1].ohlc.close)

\* GainStep and LossStep, at the bar after the first j.
LEMMA LegOn ==
    ASSUME NEW bars \in Seq(Bar), NEW body \in {"gain", "loss"}, NEW j \in 1..Len(bars), NEW past
    PROVE  Fold(body, [c |-> Averaged(Moves(bars, Sign(body), j - 1)), out |-> past], DeltaAt(bars, j))
             = [c |-> Averaged(Moves(bars, Sign(body), j)),
                out |-> Append(past, LegAt(bars, Sign(body), j))]
  <1> DEFINE sg == Sign(body)
             s == Moves(bars, sg, j - 1)
             t == Moves(bars, sg, j)
             B == BaseLen
  <1>1. sg \in {1, -1} /\ (body = "gain" => sg = 1) /\ (body = "loss" => sg = -1)
    BY DEF Sign
  <1>2. B \in Nat \ {0} /\ Len(bars) \in Nat /\ j - 1 \in 0..Len(bars) /\ j \in 0..Len(bars)
    BY DerivativesConstants
  <1>3. CASE j = 1
    <2>1. s = <<>> /\ t = <<>>
      <3> HIDE DEF sg
      <3> QED
        BY <1>1, <1>2, <1>3, MovesAre
    <2>2. DeltaAt(bars, j) = None /\ LegAt(bars, sg, j) = None
      BY <1>2, <1>3 DEF DeltaAt, LegAt
    <2>3. Fold(body, [c |-> Averaged(s), out |-> past], None) = [c |-> Averaged(s), out |-> Append(past, None)]
      <3> DEFINE e == Averaged(s)
      <3> HIDE DEF e
      <3>1. Fold(body, [c |-> e, out |-> past], None) = [c |-> e, out |-> Append(past, None)]
        BY FoldAbsent
      <3> QED
        BY <3>1 DEF e
    <2> HIDE DEF sg, s, t
    <2>4. Fold(body, [c |-> Averaged(s), out |-> past], DeltaAt(bars, j))
            = [c |-> Averaged(t), out |-> Append(past, LegAt(bars, sg, j))]
      BY <2>1, <2>2, <2>3
    <2> QED
      BY <2>4 DEF s, t, sg
  <1>4. CASE j # 1
    <2> DEFINE k == j - 1
               d == bars[j].ohlc.close - bars[j - 1].ohlc.close
               x == Move(bars, sg, k)
               c == Averaged(t)
    <2>1. k \in 1..(Len(bars) - 1) /\ k + 1 = j /\ k \in 0..Len(bars) /\ 0 < k /\ k < Len(bars)
      BY <1>2, <1>4
    <2>2. d \in Int /\ x \in Int /\ x = Max({sg * d, 0})
      <3> HIDE DEF k, sg
      <3>1. bars[k + 1].ohlc.close - bars[k].ohlc.close \in Int /\ x \in Int
        BY <1>1, <2>1, MoveIs
      <3>2. d = bars[k + 1].ohlc.close - bars[k].ohlc.close
        BY <2>1 DEF k
      <3> QED
        BY <3>1, <3>2 DEF Move
    <2>3. s \in Seq(Int) /\ t = Append(s, x) /\ Len(t) = k
      <3>1. Len(t) = j - 1
        <4> HIDE DEF sg
        <4> QED
          BY <1>1, <1>2, <1>4, MovesAre
      <3> HIDE DEF k, sg
      <3>2. s = Moves(bars, sg, k)
        BY DEF k
      <3>3. Moves(bars, sg, k) \in Seq(Int) /\ Moves(bars, sg, k + 1) = Append(Moves(bars, sg, k), x)
        BY <1>1, <2>1, MovesAre
      <3> QED
        BY <2>1, <3>1, <3>2, <3>3 DEF k
    <2>4. Wilder(Averaged(s), x) = c
      <3> HIDE DEF s, t, x
      <3> QED
        BY <2>2, <2>3, WilderOn
    <2>5. Step(body, Averaged(s), d) = Wilder(Averaged(s), x)
      <3> DEFINE w == Averaged(s)
      <3> HIDE DEF w, d, x, sg
      <3>1. body = "gain" => Step(body, w, d) = Wilder(w, Max({d, 0}))
        BY DEF Step, GainStep
      <3>2. body = "loss" => Step(body, w, d) = Wilder(w, Max({-d, 0}))
        BY DEF Step, LossStep
      <3>3. (sg = 1 => sg * d = d) /\ (sg = -1 => sg * d = -d)
        BY <2>2
      <3>4. Step(body, w, d) = Wilder(w, x)
        BY <1>1, <2>2, <3>1, <3>2, <3>3
      <3> QED
        BY <3>4 DEF w
    <2>6. Value(body, c, d) = LegAt(bars, sg, j)
      <3>1. Value(body, c, d) = IF c.warmed < B THEN None ELSE Some(c.mean)
        BY DEF Value, MeanValue
      <3>2. c.warmed = (IF k < B THEN k ELSE B) /\ (~ (k < B) => c.mean = MeanOf(t))
        <4> HIDE DEF t, k
        <4> QED
          BY <2>3 DEF Averaged
      <3>3. k < B <=> j <= B
        BY <1>2
      <3> HIDE DEF c, k
      <3>4. c.warmed < B <=> j <= B
        BY <1>2, <2>1, <3>2, <3>3
      <3> QED
        BY <3>1, <3>2, <3>3, <3>4 DEF LegAt
    <2>7. DeltaAt(bars, j) = Some(d)
      BY <1>4 DEF DeltaAt
    <2> HIDE DEF d, s, t, c, x, sg
    <2>8. Fold(body, [c |-> Averaged(s), out |-> past], Some(d))
            = [c |-> c, out |-> Append(past, Value(body, c, d))]
      <3> DEFINE e == Averaged(s)
                 acc == [c |-> e, out |-> past]
      <3>1. acc.c = e /\ acc.out = past
        OBVIOUS
      <3>2. c = Step(body, e, d)
        BY <2>4, <2>5
      <3> HIDE DEF e, acc
      <3>3. Fold(body, acc, Some(d)) = [c |-> Step(body, acc.c, d),
                                        out |-> Append(acc.out, Value(body, Step(body, acc.c, d), d))]
        BY FoldPresent
      <3> QED
        BY <3>1, <3>2, <3>3, Zenon DEF acc, e
    <2>9. Fold(body, [c |-> Averaged(s), out |-> past], DeltaAt(bars, j))
            = [c |-> c, out |-> Append(past, LegAt(bars, sg, j))]
      BY <2>6, <2>7, <2>8
    <2> QED
      BY <2>9 DEF c, s, t, sg
  <1> QED
    BY <1>3, <1>4

\* Each element of a run takes a fold's state one further along st, and says v.
Folds(body, m, run, st, v) ==
    /\ m \in Nat /\ run = [k \in 1..m |-> run[k]]
    /\ \A n \in 0..(m - 1) : \A past :
          Fold(body, [c |-> st[n], out |-> past], run[n + 1])
            = [c |-> st[n + 1], out |-> Append(past, v[n + 1])]

\* So the run takes it to the end.
LEMMA FoldsOn ==
    ASSUME NEW body, NEW m, NEW run, NEW st, NEW v, Folds(body, m, run, st, v)
    PROVE  FoldRun(body, st[0], run) = [c |-> st[m], out |-> [k \in 1..m |-> v[k]]]
  <1> DEFINE S == {run[k] : k \in 1..m}
             base == [c |-> st[0], out |-> <<>>]
             at(n) == Folding!Fold(body, base, SubSeq(run, 1, n))
             outs(n) == [k \in 1..n |-> v[k]]
             T == {n \in Nat : n <= m => at(n) = [c |-> st[n], out |-> outs(n)]}
  <1>0. m \in Nat
    BY DEF Folds
  <1>1. run \in Seq(S) /\ Len(run) = m
    <2>1. run \in [1..m -> S]
      BY DEF Folds
    <2> HIDE DEF S
    <2> QED
      BY <1>0, <2>1, SeqDef, LenProperties
  <1> HIDE DEF S
  <1>2. 0 \in T
    <2>1. SubSeq(run, 1, 0) = <<>>
      BY <1>1
    <2>2. outs(0) = <<>>
      OBVIOUS
    <2> HIDE DEF outs
    <2>3. base = [c |-> st[0], out |-> outs(0)]
      BY <2>2
    <2> HIDE DEF base
    <2>4. Folding!Fold(body, base, <<>>) = base
      BY Folding!FoldEmpty
    <2>5. at(0) = [c |-> st[0], out |-> outs(0)]
      BY <2>1, <2>3, <2>4
    <2> HIDE DEF at
    <2> QED
      BY <2>5
  <1> HIDE DEF base
  <1>3. ASSUME NEW n \in Nat, n \in T
        PROVE  n + 1 \in T
    <2>1. CASE n + 1 <= m
      <3> DEFINE s == SubSeq(run, 1, n)
                 past == outs(n)
      <3>1. n \in 0..(m - 1) /\ n <= m /\ n \in 0..Len(run) /\ 0 \in 0..n /\ n < Len(run)
        BY <1>0, <1>1, <2>1
      <3>2. s \in Seq(S) /\ run[n + 1] \in S /\ SubSeq(run, 1, n + 1) = Append(s, run[n + 1])
        <4>1. SubSeq(run, 0 + 1, n) \in Seq(S) /\ run[n + 1] \in S
              /\ SubSeq(run, 0 + 1, n + 1) = Append(SubSeq(run, 0 + 1, n), run[n + 1])
          BY <1>1, <3>1, Folding!SubSeqGrows
        <4> QED
          BY <4>1
      <3>3. Folding!Fold(body, base, s) = [c |-> st[n], out |-> outs(n)]
        BY <1>3, <3>1
      <3>4. Append(outs(n), v[n + 1]) = outs(n + 1)
        BY Lengthens
      <3> HIDE DEF s, outs
      <3>5. Folding!Fold(body, base, Append(s, run[n + 1])) = Fold(body, Folding!Fold(body, base, s), run[n + 1])
        BY <3>2, Folding!FoldAppend
      <3>6. Fold(body, [c |-> st[n], out |-> outs(n)], run[n + 1])
              = [c |-> st[n + 1], out |-> Append(outs(n), v[n + 1])]
        BY <3>1 DEF Folds
      <3>7. at(n + 1) = [c |-> st[n + 1], out |-> outs(n + 1)]
        BY <3>2, <3>3, <3>4, <3>5, <3>6, Zenon
      <3> HIDE DEF at
      <3>8. n + 1 \in Nat
        OBVIOUS
      <3> QED
        BY <3>7, <3>8
    <2>2. CASE ~ (n + 1 <= m)
      <3>1. n + 1 \in Nat
        OBVIOUS
      <3> HIDE DEF at, outs
      <3> QED
        BY <2>2, <3>1
    <2> QED
      BY <2>1, <2>2
  <1>4. m \in T
    <2> HIDE DEF T
    <2> QED
      BY <1>0, <1>2, <1>3, Folding!Induction
  <1>5. at(m) = [c |-> st[m], out |-> outs(m)]
    <2> HIDE DEF at, outs
    <2> QED
      BY <1>4
  <1>6. SubSeq(run, 1, m) = run
    BY <1>1
  <1>7. FoldRun(body, st[0], run) = Folding!Fold(body, base, run)
    BY Zenon DEF FoldRun, base, Folding!Fold, FoldLeft, MapThenFoldSet, Folding!FoldLeft,
       Folding!MapThenFoldSet, Max, Folding!Max
  <1> HIDE DEF outs
  <1>8. FoldRun(body, st[0], run) = [c |-> st[m], out |-> outs(m)]
    BY <1>5, <1>6, <1>7, Zenon
  <1> QED
    BY <1>8 DEF outs

\* A leg over the bars a batch brings.
LEMMA LegsOn ==
    ASSUME NEW bars \in Seq(Bar), NEW body \in {"gain", "loss"}, NEW l \in 0..Len(bars)
    PROVE  FoldRun(body, Averaged(Moves(bars, Sign(body), l)),
                   [k \in 1..(Len(bars) - l) |-> DeltaAt(bars, l + k)])
             = [c |-> Averaged(Moves(bars, Sign(body), Len(bars))),
                out |-> [k \in 1..(Len(bars) - l) |-> LegAt(bars, Sign(body), l + k)]]
  <1> DEFINE sg == Sign(body)
             m == Len(bars) - l
             run == [k \in 1..m |-> DeltaAt(bars, l + k)]
             st == [n \in 0..m |-> Averaged(Moves(bars, sg, l + n))]
             v == [k \in 1..m |-> LegAt(bars, sg, l + k)]
  <1>1. m \in Nat /\ Len(bars) \in Nat /\ l \in Nat /\ l + m = Len(bars) /\ l + 0 = l
    OBVIOUS
  <1>2. ASSUME NEW n \in 0..(m - 1), NEW past
        PROVE  Fold(body, [c |-> st[n], out |-> past], run[n + 1])
                 = [c |-> st[n + 1], out |-> Append(past, v[n + 1])]
    <2> DEFINE j == l + (n + 1)
    <2>1. n \in 0..m /\ n + 1 \in 0..m /\ n + 1 \in 1..m /\ j \in 1..Len(bars) /\ j - 1 = l + n
      BY <1>1
    <2>2. st[n] = Averaged(Moves(bars, sg, j - 1)) /\ st[n + 1] = Averaged(Moves(bars, sg, j))
          /\ run[n + 1] = DeltaAt(bars, j) /\ v[n + 1] = LegAt(bars, sg, j)
      BY <2>1
    <2> HIDE DEF j, st, run, v
    <2>3. Fold(body, [c |-> Averaged(Moves(bars, sg, j - 1)), out |-> past], DeltaAt(bars, j))
            = [c |-> Averaged(Moves(bars, sg, j)), out |-> Append(past, LegAt(bars, sg, j))]
      BY <2>1, LegOn
    <2> QED
      BY <2>2, <2>3, Zenon
  <1>3. run = [k \in 1..m |-> run[k]]
    OBVIOUS
  <1>4. st[0] = Averaged(Moves(bars, sg, l)) /\ st[m] = Averaged(Moves(bars, sg, Len(bars)))
    <2>1. 0 \in 0..m /\ m \in 0..m
      BY <1>1
    <2> HIDE DEF m, sg
    <2> QED
      BY <1>1, <2>1
  <1>5. [k \in 1..m |-> v[k]] = v
    OBVIOUS
  <1> HIDE DEF run, st, v, m
  <1>6. FoldRun(body, st[0], run) = [c |-> st[m], out |-> [k \in 1..m |-> v[k]]]
    <2>1. m \in Nat
      BY <1>1
    <2>2. Folds(body, m, run, st, v)
      BY <1>2, <1>3, <2>1, Zenon DEF Folds
    <2> QED
      BY <2>2, FoldsOn
  <1>7. FoldRun(body, Averaged(Moves(bars, sg, l)), run)
          = [c |-> Averaged(Moves(bars, sg, Len(bars))), out |-> v]
    BY <1>4, <1>5, <1>6, Zenon
  <1> QED
    BY <1>7 DEF run, v, m

\* The smoothing, as it stands after the first l bars.
Smoothed(bars, l) ==
    [smooth |-> [k \in 1..(l - BaseLen) |-> ReadingAt(bars, BaseLen + k)],
     seen |-> IF l <= BaseLen THEN 0 ELSE IF l - BaseLen < SmoothLen THEN l - BaseLen ELSE SmoothLen]

\* Both legs at bar j.
LegsAt(bars, j) == IF j <= BaseLen THEN None ELSE Some(ReadingAt(bars, j))

\* RsiStep and RsiValue, at the bar after the first j.
LEMMA SmoothOn ==
    ASSUME NEW bars, NEW j \in Nat \ {0}, NEW past
    PROVE  Fold("rsi", [c |-> Smoothed(bars, j - 1), out |-> past], LegsAt(bars, j))
             = [c |-> Smoothed(bars, j), out |-> Append(past, RsiAt(bars, j))]
  <1> DEFINE B == BaseLen
             H == SmoothLen
             c == Smoothed(bars, j - 1)
             to == Smoothed(bars, j)
             rsi == RsiAt(bars, j)
  <1>1. B \in Nat \ {0} /\ H \in Nat \ {0} /\ j \in Nat /\ j - 1 \in Nat
    BY DerivativesConstants
  <1>2. CASE j <= B
    <2>1. LegsAt(bars, j) = None /\ rsi = None
      BY <1>1, <1>2 DEF LegsAt, RsiAt
    <2>2. c = to
      <3>1. 1..(j - B) = {} /\ 1..(j - 1 - B) = {} /\ j - 1 <= B
        BY <1>1, <1>2
      <3>2. [k \in 1..(j - B) |-> ReadingAt(bars, B + k)] = [k \in 1..(j - 1 - B) |-> ReadingAt(bars, B + k)]
        BY <3>1
      <3> QED
        BY <1>2, <3>1, <3>2 DEF Smoothed
    <2> HIDE DEF c, to, rsi
    <2>3. Fold("rsi", [c |-> c, out |-> past], None) = [c |-> c, out |-> Append(past, None)]
      BY FoldAbsent
    <2>4. Fold("rsi", [c |-> c, out |-> past], LegsAt(bars, j)) = [c |-> to, out |-> Append(past, rsi)]
      BY <2>1, <2>2, <2>3
    <2> QED
      BY <2>4 DEF c, to, rsi
  <1>3. CASE ~ (j <= B)
    <2> DEFINE n == j - 1 - B
               v == [k \in 1..(j - B) |-> ReadingAt(bars, B + k)]
               r == ReadingAt(bars, j)
    <2>1. n \in Nat /\ n + 1 = j - B /\ B + (n + 1) = j /\ n + 1 \in 1..(j - B)
      BY <1>1, <1>3
    <2>2. c.smooth = [k \in 1..n |-> v[k]]
      <3>1. \A k \in 1..n : k \in 1..(j - B)
        BY <2>1
      <3> QED
        BY <3>1 DEF Smoothed
    <2>3. c.seen = IF n < H THEN n ELSE H
      <3>1. c.seen = IF j - 1 <= B THEN 0 ELSE IF n < H THEN n ELSE H
        BY DEF Smoothed
      <3>2. j - 1 <= B => n = 0
        BY <1>1, <1>3
      <3> HIDE DEF n
      <3> QED
        BY <1>1, <3>1, <3>2
    <2>4. to.smooth = v /\ to = [smooth |-> v, seen |-> IF n + 1 < H THEN n + 1 ELSE H]
      BY <1>3, <2>1 DEF Smoothed
    <2>5. v = [k \in 1..(n + 1) |-> v[k]] /\ v[n + 1] = r
      BY <2>1
    <2>6. LegsAt(bars, j) = Some(r)
      BY <1>3 DEF LegsAt
    <2>7. rsi = IF n + 1 < H THEN None ELSE Some([actual |-> r, smooth |-> v])
      <3>1. j < B + H <=> n + 1 < H
        BY <1>1, <2>1
      <3> HIDE DEF n
      <3> QED
        BY <3>1 DEF RsiAt
    <2> HIDE DEF c, to, rsi, n, v, r, B, H
    <2>8. Append(c.smooth, r) = v
      BY <2>1, <2>2, <2>5, Lengthens
    <2>9. RsiStep(c, r) = to
      <3>1. RsiStep(c, r) = [smooth |-> IF c.seen < 1 THEN <<r>> ELSE Append(c.smooth, r),
                             seen |-> Min({c.seen + 1, H})]
        BY DEF RsiStep, H
      <3>2. c.seen < 1 => Append(c.smooth, r) = <<r>>
        <4> SUFFICES ASSUME c.seen < 1
                     PROVE  Append(c.smooth, r) = <<r>>
          OBVIOUS
        <4>1. n = 0
          BY <1>1, <2>1, <2>3
        <4>2. c.smooth = <<>>
          BY <2>2, <4>1
        <4> QED
          BY <4>2
      <3>3. Min({c.seen + 1, H}) = IF n + 1 < H THEN n + 1 ELSE H
        <4> DEFINE w == c.seen
        <4>1. w \in Nat /\ w = (IF n < H THEN n ELSE H)
          BY <1>1, <2>1, <2>3
        <4> HIDE DEF w
        <4>2. w + 1 \in Int /\ H \in Int
          BY <1>1, <4>1
        <4>3. Min({w + 1, H}) = IF w + 1 <= H THEN w + 1 ELSE H
          BY <4>2, OfPair
        <4>4. Min({w + 1, H}) = IF n + 1 < H THEN n + 1 ELSE H
          BY <1>1, <2>1, <4>1, <4>3
        <4> QED
          BY <4>4 DEF w
      <3> QED
        BY <2>4, <2>8, <3>1, <3>2, <3>3
    <2>10. RsiValue(to, r) = rsi
      <3>1. to.seen = IF n + 1 < H THEN n + 1 ELSE H
        BY <2>4
      <3>2. to.seen < H <=> n + 1 < H
        BY <1>1, <2>1, <3>1
      <3>3. RsiValue(to, r) = IF to.seen < H THEN None ELSE Some([actual |-> r, smooth |-> to.smooth])
        BY DEF RsiValue, H
      <3> QED
        BY <2>4, <2>7, <3>2, <3>3
    <2>11. \A y : Step("rsi", y, r) = RsiStep(y, r) /\ Value("rsi", y, r) = RsiValue(y, r)
      BY DEF Step, Value
    <2>12. Fold("rsi", [c |-> c, out |-> past], Some(r)) = [c |-> to, out |-> Append(past, rsi)]
      <3> DEFINE acc == [c |-> c, out |-> past]
      <3>1. acc.c = c /\ acc.out = past
        OBVIOUS
      <3> HIDE DEF acc
      <3>2. Fold("rsi", acc, Some(r)) = [c |-> Step("rsi", acc.c, r),
                                         out |-> Append(acc.out, Value("rsi", Step("rsi", acc.c, r), r))]
        BY FoldPresent
      <3>3. Step("rsi", c, r) = to /\ Value("rsi", to, r) = rsi
        BY <2>9, <2>10, <2>11
      <3> QED
        BY <3>1, <3>2, <3>3, Zenon DEF acc
    <2>13. Fold("rsi", [c |-> c, out |-> past], LegsAt(bars, j)) = [c |-> to, out |-> Append(past, rsi)]
      BY <2>6, <2>12
    <2> QED
      BY <2>13 DEF c, to, rsi
  <1> QED
    BY <1>2, <1>3

\* The smoothing over the bars a batch brings.
LEMMA SmoothsOn ==
    ASSUME NEW bars \in Seq(Bar), NEW l \in 0..Len(bars)
    PROVE  FoldRun("rsi", Smoothed(bars, l), [k \in 1..(Len(bars) - l) |-> LegsAt(bars, l + k)])
             = [c |-> Smoothed(bars, Len(bars)),
                out |-> [k \in 1..(Len(bars) - l) |-> RsiAt(bars, l + k)]]
  <1> DEFINE m == Len(bars) - l
             run == [k \in 1..m |-> LegsAt(bars, l + k)]
             st == [n \in 0..m |-> Smoothed(bars, l + n)]
             v == [k \in 1..m |-> RsiAt(bars, l + k)]
  <1>1. m \in Nat /\ Len(bars) \in Nat /\ l \in Nat /\ l + m = Len(bars) /\ l + 0 = l
    OBVIOUS
  <1>2. ASSUME NEW n \in 0..(m - 1), NEW past
        PROVE  Fold("rsi", [c |-> st[n], out |-> past], run[n + 1])
                 = [c |-> st[n + 1], out |-> Append(past, v[n + 1])]
    <2> DEFINE j == l + (n + 1)
    <2>1. n \in 0..m /\ n + 1 \in 0..m /\ n + 1 \in 1..m /\ j \in Nat \ {0} /\ j - 1 = l + n
      BY <1>1
    <2>2. st[n] = Smoothed(bars, j - 1) /\ st[n + 1] = Smoothed(bars, j)
          /\ run[n + 1] = LegsAt(bars, j) /\ v[n + 1] = RsiAt(bars, j)
      BY <2>1
    <2> HIDE DEF j, st, run, v
    <2>3. Fold("rsi", [c |-> Smoothed(bars, j - 1), out |-> past], LegsAt(bars, j))
            = [c |-> Smoothed(bars, j), out |-> Append(past, RsiAt(bars, j))]
      BY <2>1, SmoothOn
    <2> QED
      BY <2>2, <2>3, Zenon
  <1>3. run = [k \in 1..m |-> run[k]]
    OBVIOUS
  <1>4. st[0] = Smoothed(bars, l) /\ st[m] = Smoothed(bars, Len(bars))
    <2>1. 0 \in 0..m /\ m \in 0..m
      BY <1>1
    <2> HIDE DEF m
    <2> QED
      BY <1>1, <2>1
  <1>5. [k \in 1..m |-> v[k]] = v
    OBVIOUS
  <1> HIDE DEF run, st, v, m
  <1>6. FoldRun("rsi", st[0], run) = [c |-> st[m], out |-> [k \in 1..m |-> v[k]]]
    <2>1. m \in Nat
      BY <1>1
    <2>2. Folds("rsi", m, run, st, v)
      BY <1>2, <1>3, <2>1, Zenon DEF Folds
    <2> QED
      BY <2>2, FoldsOn
  <1>7. FoldRun("rsi", Smoothed(bars, l), run) = [c |-> Smoothed(bars, Len(bars)), out |-> v]
    BY <1>4, <1>5, <1>6, Zenon
  <1> QED
    BY <1>7 DEF run, v, m

\* The two legs over m bars after the first l are both or neither.
LegRun(bars, sign, l, m) == [k \in 1..m |-> LegAt(bars, sign, l + k)]

LEMMA LegsAre ==
    ASSUME NEW bars, NEW l \in Nat, NEW m \in Nat
    PROVE  Legs(LegRun(bars, 1, l, m), LegRun(bars, -1, l, m)) = [k \in 1..m |-> LegsAt(bars, l + k)]
  <1> DEFINE a == LegRun(bars, 1, l, m)
             b == LegRun(bars, -1, l, m)
             both(k) == IF a[k] = None \/ b[k] = None THEN None
                        ELSE Some([gain |-> a[k][1], loss |-> b[k][1]])
  <1>1. DOMAIN a = 1..m /\ DOMAIN b = 1..m
    BY DEF LegRun
  <1>2. ASSUME NEW k \in 1..m
        PROVE  both(k) = LegsAt(bars, l + k)
    <2> DEFINE j == l + k
               x == MeanOf(Moves(bars, 1, j))
               y == MeanOf(Moves(bars, -1, j))
    <2>1. a[k] = LegAt(bars, 1, j) /\ b[k] = LegAt(bars, -1, j)
      BY DEF LegRun
    <2> HIDE DEF a, b, j
    <2>2. CASE j <= BaseLen
      <3>1. a[k] = None /\ LegsAt(bars, j) = None
        BY <2>1, <2>2 DEF LegAt, LegsAt
      <3> QED
        BY <3>1 DEF j
    <2>3. CASE ~ (j <= BaseLen)
      <3>1. a[k] = Some(x) /\ b[k] = Some(y) /\ LegsAt(bars, j) = Some([gain |-> x, loss |-> y])
        BY <2>1, <2>3 DEF LegAt, LegsAt, ReadingAt
      <3> HIDE DEF x, y
      <3>2. Some(x) # None /\ Some(y) # None /\ Some(x)[1] = x /\ Some(y)[1] = y
        BY Presence
      <3>3. both(k) = Some([gain |-> x, loss |-> y])
        BY <3>1, <3>2, Zenon
      <3> QED
        BY <3>1, <3>3 DEF j
    <2> QED
      BY <2>2, <2>3
  <1> HIDE DEF a, b
  <1>3. Legs(a, b) = [k \in 1..m |-> both(k)]
    BY <1>1 DEF Legs
  <1> HIDE DEF both
  <1>4. Legs(a, b) = [k \in 1..m |-> LegsAt(bars, l + k)]
    BY <1>2, <1>3
  <1> QED
    BY <1>4 DEF a, b

\* RsiDelta, off the shared buffer: the close to close of each bar of the batch.
LEMMA DeltasAre ==
    ASSUME NEW bars \in Seq(Bar), Ascends(bars), NEW h \in Reaches,
           NEW rows, NEW f, Buffers(rows, bars, f, h)
    PROVE  Deltas(ViewRows(rows, Elems(2))) = [k \in 1..f |-> DeltaAt(bars, (Len(bars) - f) + k)]
  <1> DEFINE n == Len(bars)
             d == Trim(Before(bars, f), h)
             v == ViewRows(rows, Elems(2))
  <1>1. f \in 0..n /\ n \in Nat
    BY DEF Buffers
  <1>2. d \in 0..(n - f) /\ d \in 0..n
    <2>1. d \in 0..(n - f)
      BY <1>1, Trimmed
    <2> HIDE DEF d
    <2> QED
      BY <1>1, <2>1
  <1>3. v.fresh = f /\ v.run = After(bars, d)
    BY DEF ViewRows, Buffers
  <1> HIDE DEF v, d
  <1>4. Len(v.run) = n - d /\ \A k \in 1..(n - d) : v.run[k] = bars[d + k]
    BY <1>2, <1>3, AfterIs
  <1>5. ASSUME NEW i \in 1..f
        PROVE  LET p == LaggedAt(v, i, 1)
               IN  (IF p = None THEN None
                    ELSE Some(v.run[Len(v.run) - v.fresh + i].ohlc.close - p[1].ohlc.close))
                     = DeltaAt(bars, (n - f) + i)
    <2> DEFINE p == LaggedAt(v, i, 1)
               j == (n - f) + i
               at == Len(v.run) - v.fresh + i
    <2>1. j \in 1..n /\ p = IF j = 1 THEN None ELSE Some(bars[j - 1])
      <3>1. LET q == n - f + i
            IN  /\ q \in 1..n
                /\ LaggedAt(ViewRows(rows, Elems(2)), i, 1) = IF q = 1 THEN None ELSE Some(bars[q - 1])
        BY LagsOne
      <3> QED
        BY <3>1 DEF v
    <2>2. v.run[at] = bars[j]
      <3>1. at \in 1..(n - d) /\ d + at = j
        BY <1>1, <1>2, <1>3, <1>4
      <3> HIDE DEF at, j
      <3> QED
        BY <1>4, <3>1
    <2>3. CASE j = 1
      <3>1. p = None /\ DeltaAt(bars, j) = None
        BY <2>1, <2>3 DEF DeltaAt
      <3> HIDE DEF p, j, at
      <3>2. (IF p = None THEN None ELSE Some(v.run[at].ohlc.close - p[1].ohlc.close)) = DeltaAt(bars, j)
        BY <3>1
      <3> QED
        BY <3>2 DEF p, j, at
    <2>4. CASE j # 1
      <3> DEFINE x == bars[j - 1]
      <3>1. p = Some(x) /\ DeltaAt(bars, j) = Some(bars[j].ohlc.close - x.ohlc.close)
        BY <2>1, <2>4 DEF DeltaAt
      <3> HIDE DEF p, j, at, x
      <3>2. p # None /\ p[1] = x
        BY <3>1, Presence
      <3>3. (IF p = None THEN None ELSE Some(v.run[at].ohlc.close - p[1].ohlc.close)) = DeltaAt(bars, j)
        BY <2>2, <3>1, <3>2, Zenon
      <3> QED
        BY <3>3 DEF p, j, at
    <2> QED
      BY <2>3, <2>4
  <1>6. Deltas(v) = [i \in 1..f |-> DeltaAt(bars, (n - f) + i)]
    BY <1>3, <1>5, Zenon DEF Deltas
  <1> QED
    BY <1>6 DEF v, n

\* What stood at a bar does not change with the bars to come.
LEMMA RsiKeeps ==
    ASSUME NEW bars \in Seq(Bar), NEW more \in Seq(Bar)
    PROVE  /\ \A j \in 0..Len(bars) : RsiAt(bars \o more, j) = RsiAt(bars, j)
           /\ Smoothed(bars \o more, Len(bars)) = Smoothed(bars, Len(bars))
  <1> DEFINE all == bars \o more
             l == Len(bars)
  <1>1. l \in Nat /\ BaseLen \in Nat \ {0} /\ SmoothLen \in Nat \ {0}
    BY DerivativesConstants
  <1>2. \A j \in 0..l : \A sign : Moves(all, sign, j) = Moves(bars, sign, j)
    BY MovesKeep
  <1> HIDE DEF all, l
  <1>3. \A j \in 0..l : ReadingAt(all, j) = ReadingAt(bars, j)
    BY <1>2 DEF ReadingAt
  <1>4. \A j \in 0..l : [k \in 1..(j - BaseLen) |-> ReadingAt(all, BaseLen + k)]
                          = [k \in 1..(j - BaseLen) |-> ReadingAt(bars, BaseLen + k)]
    <2> SUFFICES ASSUME NEW j \in 0..l
                 PROVE  [k \in 1..(j - BaseLen) |-> ReadingAt(all, BaseLen + k)]
                          = [k \in 1..(j - BaseLen) |-> ReadingAt(bars, BaseLen + k)]
      OBVIOUS
    <2>1. \A k \in 1..(j - BaseLen) : BaseLen + k \in 0..l
      BY <1>1
    <2>2. \A k \in 1..(j - BaseLen) : ReadingAt(all, BaseLen + k) = ReadingAt(bars, BaseLen + k)
      BY <1>3, <2>1
    <2> QED
      BY <2>2
  <1>5. \A j \in 0..l : RsiAt(all, j) = RsiAt(bars, j)
    BY <1>3, <1>4 DEF RsiAt
  <1>6. Smoothed(all, l) = Smoothed(bars, l)
    <2>1. l \in 0..l
      BY <1>1
    <2> QED
      BY <1>4, <2>1 DEF Smoothed
  <1> QED
    BY <1>5, <1>6 DEF all, l

\* Carry: whatever of the run is present last, is the run's last if anything is.
LEMMA CarryIs ==
    ASSUME NEW bars, NEW l \in Nat, NEW m \in Nat
    PROVE  Carry(IF l = 0 THEN None ELSE RsiAt(bars, l), [k \in 1..m |-> RsiAt(bars, l + k)])
             = IF l + m = 0 THEN None ELSE RsiAt(bars, l + m)
  <1> DEFINE run == [k \in 1..m |-> RsiAt(bars, l + k)]
             held == IF l = 0 THEN None ELSE RsiAt(bars, l)
             present == {k \in 1..m : run[k] # None}
             W == BaseLen + SmoothLen
  <1>1. W \in Nat \ {0} /\ BaseLen \in Nat /\ SmoothLen \in Nat
    BY DerivativesConstants
  <1>2. \A j \in Nat : RsiAt(bars, j) = None <=> j < W
    <2> SUFFICES ASSUME NEW j \in Nat
                 PROVE  RsiAt(bars, j) = None <=> j < W
      OBVIOUS
    <2> DEFINE x == [actual |-> ReadingAt(bars, j),
                     smooth |-> [k \in 1..(j - BaseLen) |-> ReadingAt(bars, BaseLen + k)]]
    <2>1. RsiAt(bars, j) = IF j < W THEN None ELSE Some(x)
      BY DEF RsiAt
    <2> HIDE DEF x, W
    <2>2. Some(x) # None
      BY Presence
    <2> QED
      BY <2>1, <2>2
  <1>3. \A k \in 1..m : run[k] = RsiAt(bars, l + k) /\ l + k \in Nat
    OBVIOUS
  <1>4. DOMAIN run = 1..m
    OBVIOUS
  <1> HIDE DEF run, W, held
  <1>5. \A k \in 1..m : run[k] # None <=> ~ (l + k < W)
    BY <1>2, <1>3
  <1>6. Carry(held, run) = IF present = {} THEN held ELSE run[Max(present)]
    BY <1>4 DEF Carry
  <1>7. CASE present = {}
    <2>1. CASE m = 0
      BY <1>6, <1>7, <2>1 DEF held, run
    <2>2. CASE m # 0
      <3>1. m \in 1..m
        BY <2>2
      <3>2. run[m] = None
        BY <1>7, <3>1
      <3>3. l + m < W
        BY <1>1, <1>5, <3>1, <3>2
      <3>4. l < W /\ l + m \in Nat
        BY <1>1, <3>3
      <3>5. held = None /\ RsiAt(bars, l + m) = None
        BY <1>2, <3>3, <3>4 DEF held
      <3> QED
        BY <1>6, <1>7, <3>5 DEF held, run
    <2> QED
      BY <2>1, <2>2
  <1>8. CASE present # {}
    <2>1. PICK k \in 1..m : run[k] # None
      BY <1>8
    <2>2. ~ (l + k < W) /\ m \in 1..m /\ k <= m
      BY <1>5, <2>1
    <2>3. run[m] # None
      BY <1>1, <1>5, <2>2
    <2>4. m \in present /\ present \subseteq Int /\ \A y \in present : y <= m
      BY <2>2, <2>3
    <2> HIDE DEF present
    <2>5. Max(present) = m
      BY <2>4, Bounds
    <2>6. run[m] = RsiAt(bars, l + m) /\ l + m # 0
      BY <1>3, <2>2
    <2>7. Carry(held, run) = RsiAt(bars, l + m)
      BY <1>6, <1>8, <2>5, <2>6
    <2> QED
      BY <2>6, <2>7 DEF held, run
  <1> QED
    BY <1>7, <1>8

\* What stands of the RSI between two ticks: every mean and the smoothing are those
\* of the bars so far, whatever the batches were.
Reckons ==
    LET bars == published.bars
        l == Len(bars)
    IN  /\ node.gain = Averaged(Moves(bars, 1, l))
        /\ node.loss = Averaged(Moves(bars, -1, l))
        /\ node.rsi = Smoothed(bars, l)
        /\ published.rsi = [j \in 1..l |-> RsiAt(bars, j)]
        /\ node.carry = IF l = 0 THEN None ELSE RsiAt(bars, l)

LEMMA ReckonsInit == Init => Reckons
  <1> SUFFICES ASSUME Init
               PROVE  Reckons
    OBVIOUS
  <1> DEFINE none == <<>>
  <1>1. /\ published.bars = none /\ published.rsi = none /\ node.gain = ColdMean /\ node.loss = ColdMean
        /\ node.rsi = ColdRsi /\ node.carry = None
    BY DEF Init, NoRuns, Cold
  <1>2. BaseLen \in Nat \ {0}
    BY DerivativesConstants
  <1>3. none \in Seq(Bar) /\ Len(none) = 0 /\ none \in Seq(Int)
    OBVIOUS
  <1>4. none = [k \in 1..(0 - BaseLen) |-> ReadingAt(none, BaseLen + k)]
        /\ none = [j \in 1..0 |-> RsiAt(none, j)]
    <2>1. 1..(0 - BaseLen) = {} /\ 1..0 = {}
      BY <1>2
    <2> QED
      BY <2>1
  <1> HIDE DEF none
  <1>5. Moves(none, 1, 0) = none /\ Moves(none, -1, 0) = none
    <2>1. 1..(0 - 1) = {}
      OBVIOUS
    <2> QED
      BY <2>1 DEF Moves, none
  <1>6. Averaged(none) = ColdMean
    <2>1. Total(none) = 0
      BY TotalOn DEF none
    <2> QED
      BY <1>2, <1>3, <2>1 DEF Averaged, ColdMean
  <1>7. Smoothed(none, 0) = ColdRsi
    <2>1. 0 <= BaseLen
      BY <1>2
    <2> QED
      BY <1>4, <2>1 DEF Smoothed, ColdRsi, none
  <1> QED
    BY <1>1, <1>3, <1>4, <1>5, <1>6, <1>7 DEF Reckons

\* A tick carries it on.
LEMMA ReckonsNext == Standing /\ Reckons /\ Next => Reckons'
  <1> SUFFICES ASSUME Standing, Reckons, Next, NEW batch \in Batches, Tick(batch)
               PROVE  Reckons'
    BY DEF Next
  <1> DEFINE bars == published.bars
             fresh == out'.bars
             all == published'.bars
             rows == node'.rows
             deltas == Deltas(ViewRows(rows, Elems(2)))
             gain == FoldRun("gain", node.gain, deltas)
             loss == FoldRun("loss", node.loss, deltas)
             legs == Legs(gain.out, loss.out)
             rsi == FoldRun("rsi", node.rsi, legs)
             l == Len(bars)
             m == Len(fresh)
  <1>1. /\ all = bars \o fresh /\ published'.rsi = published.rsi \o rsi.out
        /\ node'.gain = gain.c /\ node'.loss = loss.c /\ node'.rsi = rsi.c
        /\ node'.carry = Carry(node.carry, rsi.out)
    <2> DEFINE y == CloseRun("ohlc", node.ohlc, batch)
               w == CloseRun("volume", node.volume, batch)
               z == Zipped(y.out, w.out)
    <2> HIDE DEF y, w
    <2>1. out'.bars = z /\ all = bars \o z /\ rows = AdvanceRows(node.rows, z, Retained)
      BY DEF Tick, y, w
    <2> QED
      BY <2>1 DEF Tick, y, w
  <1>2. Standing' /\ Follows'
    BY StandingNext
  <1>3. Buffers(rows, all, m, Retained') /\ Retained' \in Reaches
    <2>1. reads' = reads /\ reads \in ReadSets
      BY DEF Tick, Standing
    <2>2. Retained' = Retained
      BY <2>1 DEF Retained
    <2> QED
      BY <1>2, <2>1, <2>2, RetainedIs DEF Standing
  <1>4. all \in Seq(Bar) /\ Ascends(all) /\ Len(all) \in Nat
    <2>1. Tells(tape', all)
      BY <1>2 DEF Standing
    <2> HIDE DEF all
    <2> QED
      BY <2>1, BarsAscend
  <1>5. bars \in Seq(Bar) /\ l \in Nat
    <2>1. Tells(tape, bars)
      BY DEF Standing
    <2> HIDE DEF bars
    <2> QED
      BY <2>1, BarsAscend DEF l
  <1>6. fresh \in Seq(Bar) /\ m \in Nat /\ Len(all) = l + m /\ Len(all) - m = l
        /\ Len(all) - l = m /\ l \in 0..Len(all)
    <2> DEFINE y == CloseRun("ohlc", node.ohlc, batch)
               w == CloseRun("volume", node.volume, batch)
    <2>1. fresh = Zipped(y.out, w.out)
      BY DEF Tick
    <2>2. batch \in Seq(Trade) /\ Taped(tape \o batch) /\ tape \in Seq(Trade)
      BY BatchIs DEF Standing, Taped
    <2>3. Zips(tape \o batch, bars, y, w)
      <3>1. Tells(tape, bars) /\ Stands(tape, node.ohlc, node.volume)
        BY DEF Standing
      <3> HIDE DEF bars
      <3> QED
        BY <1>5, <2>2, <3>1, ZipsBatch
    <2> HIDE DEF y, w
    <2>4. Zipped(y.out, w.out) \in Seq(Bar)
      BY <2>3 DEF Zips
    <2> HIDE DEF fresh, all, bars
    <2>5. fresh \in Seq(Bar)
      BY <2>1, <2>4
    <2>6. Len(all) = Len(bars) + Len(fresh)
      <3>1. all = bars \o fresh
        BY <1>1
      <3> QED
        BY <1>5, <2>5, <3>1
    <2> QED
      BY <1>5, <2>5, <2>6
  <1>7. Reckons
    OBVIOUS
  <1>8. /\ node.gain = Averaged(Moves(bars, 1, l)) /\ node.loss = Averaged(Moves(bars, -1, l))
        /\ node.rsi = Smoothed(bars, l)
        /\ published.rsi = [j \in 1..l |-> RsiAt(bars, j)]
        /\ node.carry = IF l = 0 THEN None ELSE RsiAt(bars, l)
    BY <1>7 DEF Reckons
  <1> HIDE DEF bars, fresh, all, rows, l, m
  <1>9. deltas = [k \in 1..m |-> DeltaAt(all, l + k)]
    <2>1. Deltas(ViewRows(rows, Elems(2))) = [k \in 1..m |-> DeltaAt(all, (Len(all) - m) + k)]
      BY <1>3, <1>4, DeltasAre
    <2> QED
      BY <1>6, <2>1
  <1>10. /\ Moves(all, 1, l) = Moves(bars, 1, l) /\ Moves(all, -1, l) = Moves(bars, -1, l)
         /\ Smoothed(all, l) = Smoothed(bars, l)
         /\ \A j \in 0..l : RsiAt(all, j) = RsiAt(bars, j)
    <2>1. l \in 0..Len(bars)
      BY <1>5 DEF l
    <2> QED
      BY <1>1, <1>5, <1>6, <2>1, MovesKeep, RsiKeeps DEF l
  <1> HIDE DEF deltas
  <1>11. gain = [c |-> Averaged(Moves(all, 1, Len(all))), out |-> [k \in 1..m |-> LegAt(all, 1, l + k)]]
    <2>1. FoldRun("gain", Averaged(Moves(all, Sign("gain"), l)), [k \in 1..(Len(all) - l) |-> DeltaAt(all, l + k)])
            = [c |-> Averaged(Moves(all, Sign("gain"), Len(all))),
               out |-> [k \in 1..(Len(all) - l) |-> LegAt(all, Sign("gain"), l + k)]]
      BY <1>4, <1>6, LegsOn
    <2>2. Sign("gain") = 1
      BY DEF Sign
    <2> QED
      BY <1>6, <1>8, <1>9, <1>10, <2>1, <2>2
  <1>12. loss = [c |-> Averaged(Moves(all, -1, Len(all))), out |-> [k \in 1..m |-> LegAt(all, -1, l + k)]]
    <2>1. FoldRun("loss", Averaged(Moves(all, Sign("loss"), l)), [k \in 1..(Len(all) - l) |-> DeltaAt(all, l + k)])
            = [c |-> Averaged(Moves(all, Sign("loss"), Len(all))),
               out |-> [k \in 1..(Len(all) - l) |-> LegAt(all, Sign("loss"), l + k)]]
      BY <1>4, <1>6, LegsOn
    <2>2. Sign("loss") = -1
      BY DEF Sign
    <2> QED
      BY <1>6, <1>8, <1>9, <1>10, <2>1, <2>2
  <1> HIDE DEF gain, loss
  <1>13. /\ gain.c = Averaged(Moves(all, 1, Len(all))) /\ gain.out = [k \in 1..m |-> LegAt(all, 1, l + k)]
         /\ loss.c = Averaged(Moves(all, -1, Len(all))) /\ loss.out = [k \in 1..m |-> LegAt(all, -1, l + k)]
    BY <1>11, <1>12
  <1>14. legs = [k \in 1..m |-> LegsAt(all, l + k)]
    <2>1. gain.out = LegRun(all, 1, l, m) /\ loss.out = LegRun(all, -1, l, m)
      BY <1>13 DEF LegRun
    <2>2. l \in Nat /\ m \in Nat
      BY <1>5, <1>6
    <2>3. Legs(LegRun(all, 1, l, m), LegRun(all, -1, l, m)) = [k \in 1..m |-> LegsAt(all, l + k)]
      BY <2>2, LegsAre
    <2> QED
      BY <2>1, <2>3
  <1> HIDE DEF legs
  <1>15. rsi = [c |-> Smoothed(all, Len(all)), out |-> [k \in 1..m |-> RsiAt(all, l + k)]]
    <2>1. FoldRun("rsi", Smoothed(all, l), [k \in 1..(Len(all) - l) |-> LegsAt(all, l + k)])
            = [c |-> Smoothed(all, Len(all)), out |-> [k \in 1..(Len(all) - l) |-> RsiAt(all, l + k)]]
      BY <1>4, <1>6, SmoothsOn
    <2> QED
      BY <1>6, <1>8, <1>10, <1>14, <2>1
  <1> HIDE DEF rsi
  <1>16. rsi.c = Smoothed(all, Len(all)) /\ rsi.out = [k \in 1..m |-> RsiAt(all, l + k)]
    BY <1>15
  <1>17. published'.rsi = [j \in 1..Len(all) |-> RsiAt(all, j)]
    <2> DEFINE S == {RsiAt(all, j) : j \in 1..(l + m)}
               a == [j \in 1..l |-> RsiAt(all, j)]
               b == [k \in 1..m |-> RsiAt(all, l + k)]
               c == [j \in 1..(l + m) |-> RsiAt(all, j)]
    <2>1. a \in [1..l -> S] /\ b \in [1..m -> S] /\ c \in [1..(l + m) -> S]
      <3>1. (\A j \in 1..l : j \in 1..(l + m)) /\ \A k \in 1..m : l + k \in 1..(l + m)
        BY <1>5, <1>6
      <3> QED
        BY <3>1
    <2>2. a = published.rsi
      <3>1. \A j \in 1..l : j \in 0..l
        BY <1>5
      <3>2. \A j \in 1..l : RsiAt(all, j) = RsiAt(bars, j)
        BY <1>10, <3>1
      <3> QED
        BY <1>8, <3>2
    <2>3. /\ \A j \in 1..l : a[j] = RsiAt(all, j)
          /\ \A k \in 1..m : b[k] = RsiAt(all, l + k)
          /\ \A j \in 1..(l + m) : c[j] = RsiAt(all, j)
      OBVIOUS
    <2>4. b = rsi.out
      BY <1>16
    <2> HIDE DEF S, a, b, c
    <2>5. /\ a \in Seq(S) /\ Len(a) = l /\ b \in Seq(S) /\ Len(b) = m
          /\ c \in Seq(S) /\ Len(c) = l + m
      <3>1. \A n \in Nat : \A s \in [1..n -> S] : s \in Seq(S) /\ Len(s) = n
        BY SeqDef, LenProperties
      <3>2. l \in Nat /\ m \in Nat /\ l + m \in Nat
        BY <1>5, <1>6
      <3> QED
        BY <2>1, <3>1, <3>2
    <2> DEFINE u == a \o b
    <2>6. /\ u \in Seq(S) /\ Len(u) = l + m
          /\ \A j \in 1..l : u[j] = a[j]
          /\ \A k \in 1..m : u[l + k] = b[k]
      <3>1. a \in Seq(S) /\ b \in Seq(S) /\ Len(a) = l /\ Len(b) = m
        BY <2>5
      <3>2. /\ u \in Seq(S) /\ Len(u) = Len(a) + Len(b)
            /\ \A j \in 1..(Len(a) + Len(b)) : u[j] = IF j <= Len(a) THEN a[j] ELSE b[j - Len(a)]
        BY <3>1, ConcatProperties
      <3> HIDE DEF u
      <3>3. l \in Nat /\ m \in Nat
        BY <1>5, <1>6
      <3>4. \A j \in 1..l : j \in 1..(l + m) /\ j <= l
        BY <3>3
      <3>5. \A k \in 1..m : l + k \in 1..(l + m) /\ ~ (l + k <= l) /\ (l + k) - l = k
        BY <3>3
      <3>6. u \in Seq(S) /\ Len(u) = l + m
        BY <3>1, <3>2
      <3>7. \A j \in 1..(l + m) : u[j] = IF j <= l THEN a[j] ELSE b[j - l]
        BY <3>1, <3>2
      <3>8. \A j \in 1..l : u[j] = a[j]
        BY <3>4, <3>7
      <3>9. \A k \in 1..m : u[l + k] = b[k]
        BY <3>5, <3>7
      <3> QED
        BY <3>6, <3>8, <3>9
    <2> HIDE DEF u
    <2>7. ASSUME NEW j \in 1..(l + m)
          PROVE  u[j] = c[j]
      <3>1. CASE j \in 1..l
        BY <2>3, <2>6, <3>1
      <3>2. CASE j \notin 1..l
        <4>1. j - l \in 1..m /\ l + (j - l) = j
          BY <1>5, <1>6, <3>2
        <4>2. u[l + (j - l)] = b[j - l] /\ b[j - l] = RsiAt(all, l + (j - l))
          BY <2>3, <2>6, <4>1
        <4> QED
          BY <2>3, <4>1, <4>2
      <3> QED
        BY <3>1, <3>2
    <2>8. u = c
      BY <2>5, <2>6, <2>7, SeqEqual
    <2> QED
      BY <1>1, <1>6, <2>2, <2>4, <2>8 DEF u, c
  <1>18. node'.carry = IF Len(all) = 0 THEN None ELSE RsiAt(all, Len(all))
    <2>1. (IF l = 0 THEN None ELSE RsiAt(all, l)) = node.carry
      <3>1. l \in 0..l
        BY <1>5
      <3> QED
        BY <1>8, <1>10, <3>1
    <2>2. Carry(IF l = 0 THEN None ELSE RsiAt(all, l), [k \in 1..m |-> RsiAt(all, l + k)])
            = IF l + m = 0 THEN None ELSE RsiAt(all, l + m)
      BY <1>5, <1>6, CarryIs
    <2> QED
      BY <1>1, <1>6, <1>16, <2>1, <2>2
  <1> QED
    BY <1>1, <1>13, <1>16, <1>17, <1>18 DEF Reckons, all

\* So it is always.
LEMMA ReckonsInv == Spec => [](Standing /\ Follows /\ Reckons)
  <1>1. Init => Reckons
    BY ReckonsInit
  <1>2. Standing /\ Reckons /\ [Next]_vars => Reckons'
    <2> SUFFICES ASSUME Standing, Reckons, [Next]_vars
                 PROVE  Reckons'
      OBVIOUS
    <2>1. CASE Next
      BY <2>1, ReckonsNext
    <2>2. CASE UNCHANGED vars
      BY <2>2 DEF vars, Reckons
    <2> QED
      BY <2>1, <2>2
  <1> QED
    BY <1>1, <1>2, StandingInv, PTL DEF Spec

\* The runs published, the averages' warm-ups and the carry are those of the tape
\* taken whole, however the feed cut it into batches: bar.rs's accumulators, the
\* kernels of the engine and rsi_node.rs's recurrences.
THEOREM RunsAreTheTapes == Spec => []RunsMatchTheTape
  <1>1. Standing /\ Follows /\ Reckons => RunsMatchTheTape
    <2> SUFFICES ASSUME Standing, Reckons
                 PROVE  RunsMatchTheTape
      OBVIOUS
    <2> DEFINE bars == published.bars
    <2>1. Tells(tape, bars) /\ Taped(tape)
      BY DEF Standing
    <2>2. bars \in Seq(Bar) /\ bars = BarsOf(tape)
      <3> HIDE DEF bars
      <3> QED
        BY <2>1, BarsAscend, Told
    <2>3. DOMAIN bars = 1..Len(bars)
      BY <2>2
    <2> QED
      BY <2>2, <2>3 DEF Reckons, RunsMatchTheTape
  <1> QED
    BY <1>1, ReckonsInv, PTL
=============================================================================
