----------------------------- MODULE BookProofs -----------------------------
(***************************************************************************)
(* A gated book and an anchored one, for any levels, quantities, runs and  *)
(* periods: what publishes itself is the recorder's book.  A level holds   *)
(* what the last row to write it wrote, so a net that speaks for a stretch *)
(* of rows carries a book from anywhere within the stretch to its end.     *)
(*                                                                         *)
(* The recorder's book comes last: a checkpoint for every period heard,    *)
(* and from every checkpoint the rows behind it make the book.             *)
(***************************************************************************)
EXTENDS BookFold, BookReplay, ShadowBook, SequenceTheorems, FiniteSetTheorems, TLAPS

\* What one row does to the retained chunk.
FoldInto(env, d, r) ==
    LET t == Tumble(d, r.period)
    IN  [t EXCEPT !.cur = FoldRow(t.cur, r)]

Writing == INSTANCE FoldTheorems WITH Op <- LAMBDA env, b, r : SetLevel(b, r.level, r.qty)
Chunking == INSTANCE FoldTheorems WITH Op <- FoldInto

\* The lesser of two.
LEMMA MinOfPair ==
    ASSUME NEW x \in Int, NEW y \in Int
    PROVE  Min({x, y}) = IF x <= y THEN x ELSE y
  <1> DEFINE S == {x, y}
             m == IF x <= y THEN x ELSE y
  <1>1. S \subseteq Int /\ m \in S /\ \A z \in S : m <= z
    OBVIOUS
  <1> HIDE DEF S, m
  <1>2. Min(S) = Writing!Min(S)
    BY Zenon DEF Min, Writing!Min
  <1>3. Writing!Min(S) = m
    BY <1>1, Writing!MinIs
  <1>4. QED
    BY <1>2, <1>3 DEF S, m

-----------------------------------------------------------------------------
(* The recording: a tape, and the book after each of its rows.             *)

IsLog(rows, books) ==
    /\ rows \in Seq(Rows) /\ books \in Seq(Levels) /\ Len(books) = Len(rows) + 1
    /\ \A i \in 1..Len(rows) :
         /\ rows[i].seq = i
         /\ books[i + 1] = SetLevel(books[i], rows[i].level, rows[i].qty)

\* SetRows, row by row.
LEMMA SetRowsGrows ==
    ASSUME NEW held
    PROVE  /\ SetRows(held, <<>>) = held
           /\ \A rows \in Seq(Rows), r \in Rows :
                SetRows(held, Append(rows, r)) = SetLevel(SetRows(held, rows), r.level, r.qty)
  <1>1. \A rows : SetRows(held, rows) = Writing!Fold(0, held, rows)
    BY Zenon DEF SetRows, Writing!Fold, FoldLeft, MapThenFoldSet, Writing!FoldLeft,
                 Writing!MapThenFoldSet, Max, Writing!Max
  <1>2. SetRows(held, <<>>) = held
    BY <1>1, Writing!FoldEmpty
  <1>3. ASSUME NEW rows \in Seq(Rows), NEW r \in Rows
        PROVE  SetRows(held, Append(rows, r)) = SetLevel(SetRows(held, rows), r.level, r.qty)
    <2>1. Writing!Fold(0, held, Append(rows, r))
            = SetLevel(Writing!Fold(0, held, rows), r.level, r.qty)
      BY Writing!FoldAppend
    <2>2. QED
      BY <1>1, <2>1, Zenon
  <1>4. QED
    BY <1>2, <1>3

\* A row sets its level, a zero removes it, and no other level moves.
LEMMA SetLevelIs ==
    ASSUME NEW held \in Levels, NEW r \in Rows
    PROVE  /\ SetLevel(held, r.level, r.qty) \in Levels
           /\ \A l \in Level : l # r.level => SetLevel(held, r.level, r.qty)[l] = held[l]
           /\ SetLevel(held, r.level, r.qty)[r.level] = IF r.qty = 0 THEN Absent ELSE r.qty
  BY DEF SetLevel, Levels, Rows

\* A level nobody writes stays.
LEMMA Unwritten ==
    ASSUME NEW rows, NEW books, IsLog(rows, books), NEW l \in Level,
           NEW b \in 0..Len(rows), NEW a \in 0..b, ~ Wrote(rows, l, a, b)
    PROVE  books[b + 1][l] = books[a + 1][l]
  <1> DEFINE T == {k \in Nat : a + k <= b => books[a + k + 1][l] = books[a + 1][l]}
  <1>0. Len(rows) \in Nat
    BY DEF IsLog
  <1>1. 0 \in T
    OBVIOUS
  <1>2. ASSUME NEW k \in Nat, k \in T
        PROVE  k + 1 \in T
    <2>1. SUFFICES ASSUME a + k + 1 <= b
                   PROVE  books[a + k + 2][l] = books[a + 1][l]
      BY <1>0
    <2> DEFINE i == a + k + 1
    <2>2. i \in 1..Len(rows) /\ i \in (a + 1)..b /\ i + 1 = a + k + 2 /\ i \in 1..Len(books)
      BY <1>0, <2>1 DEF IsLog
    <2>3. books[i][l] = books[a + 1][l]
      BY <1>2, <2>1, <1>0
    <2> HIDE DEF i
    <2>4. rows[i].level # l
      BY <2>2 DEF Wrote
    <2>5. books[i] \in Levels /\ rows[i] \in Rows
          /\ books[i + 1] = SetLevel(books[i], rows[i].level, rows[i].qty)
      BY <2>2 DEF IsLog
    <2>6. books[i + 1][l] = books[i][l]
      BY <2>4, <2>5, SetLevelIs
    <2>7. QED
      BY <2>2, <2>3, <2>6
  <1> HIDE DEF T
  <1>3. Nat \subseteq T
    BY <1>1, <1>2, Writing!Induction
  <1>4. b - a \in T
    BY <1>0, <1>3
  <1>5. QED
    BY <1>0, <1>4 DEF T

\* A stretch of rows, folded over any book, leaves the last write of each level.
LEMMA LastWriter ==
    ASSUME NEW rows, NEW books, IsLog(rows, books), NEW held \in Levels,
           NEW b \in 0..Len(rows), NEW a \in 0..b
    PROVE  /\ SetRows(held, SubSeq(rows, a + 1, b)) \in Levels
           /\ \A l \in Level :
                SetRows(held, SubSeq(rows, a + 1, b))[l]
                  = IF Wrote(rows, l, a, b) THEN books[b + 1][l] ELSE held[l]
  <1> DEFINE Now(k) == SetRows(held, SubSeq(rows, a + 1, a + k))
             Good(k) == /\ Now(k) \in Levels
                        /\ \A l \in Level :
                             Now(k)[l] = IF Wrote(rows, l, a, a + k) THEN books[a + k + 1][l]
                                         ELSE held[l]
             T == {k \in Nat : a + k <= b => Good(k)}
  <1>0. Len(rows) \in Nat /\ rows \in Seq(Rows)
    BY DEF IsLog
  <1>1. 0 \in T
    <2>1. SubSeq(rows, a + 1, a + 0) = <<>>
      BY <1>0
    <2>2. Now(0) = held
      BY <2>1, SetRowsGrows
    <2>3. \A l \in Level : ~ Wrote(rows, l, a, a + 0)
      BY DEF Wrote
    <2>4. QED
      BY <2>2, <2>3
  <1>2. ASSUME NEW k \in Nat, k \in T
        PROVE  k + 1 \in T
    <2>1. SUFFICES ASSUME a + (k + 1) <= b
                   PROVE  Good(k + 1)
      BY <1>0
    <2> DEFINE i == a + k
               r == rows[i + 1]
    <2>2. i \in 0..Len(rows) /\ a \in 0..i /\ i < Len(rows) /\ i + 1 \in 1..Len(rows)
          /\ i + 1 = a + (k + 1) /\ i + 1 \in 1..Len(books)
      BY <1>0, <2>1 DEF IsLog
    <2>3. Good(k)
      BY <1>2, <2>1, <1>0
    <2>4. r \in Rows /\ SubSeq(rows, a + 1, i + 1) = Append(SubSeq(rows, a + 1, i), r)
          /\ SubSeq(rows, a + 1, i) \in Seq(Rows)
      BY <1>0, <2>2, Writing!SubSeqGrows
    <2>5. Now(k + 1) = SetLevel(Now(k), r.level, r.qty)
      <3>1. SetRows(held, Append(SubSeq(rows, a + 1, i), r))
              = SetLevel(SetRows(held, SubSeq(rows, a + 1, i)), r.level, r.qty)
        BY <2>4, SetRowsGrows
      <3>2. SubSeq(rows, a + 1, a + (k + 1)) = Append(SubSeq(rows, a + 1, a + k), r)
        BY <2>2, <2>4, Zenon
      <3>3. QED
        BY <3>1, <3>2, Zenon
    <2>6. books[i + 1] \in Levels /\ books[i + 2] = SetLevel(books[i + 1], r.level, r.qty)
      BY <2>2 DEF IsLog
    <2> DEFINE stood == Now(k)
               next == Now(k + 1)
               was == books[i + 1]
               is == books[i + 2]
    <2>7. stood \in Levels /\ next = SetLevel(stood, r.level, r.qty)
          /\ \A l \in Level : stood[l] = IF Wrote(rows, l, a, i) THEN books[i + 1][l] ELSE held[l]
      <3>1. next = SetLevel(stood, r.level, r.qty)
        BY <2>5
      <3>2. stood \in Levels
            /\ \A l \in Level :
                 stood[l] = IF Wrote(rows, l, a, i) THEN books[i + 1][l] ELSE held[l]
        BY <2>3
      <3>3. QED
        BY <3>1, <3>2
    <2>8. SUFFICES /\ next \in Levels
                   /\ \A l \in Level :
                        next[l] = IF Wrote(rows, l, a, i + 1) THEN books[i + 2][l] ELSE held[l]
      BY <2>2
    <2>12. was \in Levels /\ is = SetLevel(was, r.level, r.qty)
           /\ was = books[i + 1] /\ is = books[i + 2]
      BY <2>6
    <2> HIDE DEF stood, next, was, is, i, r
    <2>9. next \in Levels
      BY <2>4, <2>7, SetLevelIs
    <2>10. ASSUME NEW l \in Level
           PROVE  next[l] = IF Wrote(rows, l, a, i + 1) THEN books[i + 2][l] ELSE held[l]
      <3>1. CASE l = r.level
        <4>1. Wrote(rows, l, a, i + 1)
          <5>1. i + 1 \in (a + 1)..(i + 1) /\ rows[i + 1].level = l
            BY <2>2, <3>1 DEF r
          <5>2. QED
            BY <5>1 DEF Wrote
        <4>2. next[l] = IF r.qty = 0 THEN Absent ELSE r.qty
          BY <2>4, <2>7, <3>1, SetLevelIs
        <4>3. is[l] = IF r.qty = 0 THEN Absent ELSE r.qty
          BY <2>4, <2>12, <3>1, SetLevelIs
        <4>4. QED
          BY <2>12, <4>1, <4>2, <4>3
      <3>2. CASE l # r.level
        <4>1. Wrote(rows, l, a, i + 1) <=> Wrote(rows, l, a, i)
          BY <2>2, <3>2 DEF Wrote, r
        <4>2. next[l] = stood[l]
          BY <2>4, <2>7, <3>2, SetLevelIs
        <4>3. is[l] = was[l]
          BY <2>4, <2>12, <3>2, SetLevelIs
        <4>4. QED
          BY <2>7, <2>12, <4>1, <4>2, <4>3
      <3>3. QED
        BY <3>1, <3>2
    <2>11. QED
      BY <2>9, <2>10
  <1> HIDE DEF T
  <1>3. Nat \subseteq T
    BY <1>1, <1>2, Writing!Induction
  <1>4. b - a \in T /\ a + (b - a) = b
    BY <1>0, <1>3
  <1>5. Good(b - a)
    BY <1>4 DEF T
  <1>6. QED
    BY <1>4, <1>5

-----------------------------------------------------------------------------
(* The retained nets.                                                      *)

\* The net of rows a + 1 to b: what it holds of a level is what row b left there,
\* and a level it does not hold stood still.
Carries(books, net, a, b) ==
    \A l \in Level :
      IF net[l] = Absent THEN \A s \in a..b : books[s + 1][l] = books[b + 1][l]
      ELSE books[b + 1][l] = IF net[l] = 0 THEN Absent ELSE net[l]

Nets == [Level -> Qty \cup {Absent}]

IsNet(net) ==
    /\ net = [levels |-> net.levels, first |-> net.first, last |-> net.last,
              contiguous |-> net.contiguous]
    /\ net.levels \in Nets /\ net.first \in Nat /\ net.last \in Nat /\ net.contiguous \in BOOLEAN

IsChunk(c) ==
    /\ c = [base |-> c.base, cur |-> c.cur, prev |-> c.prev, fresh |-> c.fresh]
    /\ IsNet(c.cur) /\ IsNet(c.prev)

\* The net that ends with row n.
EndsAt(books, net, n) ==
    /\ net.first \in 1..n /\ net.last = n /\ net.contiguous
    /\ Carries(books, net.levels, net.first - 1, n)

\* A chunk that missed nothing of the first n rows.
Whole(c, books, n) ==
    /\ IsChunk(c)
    /\ IF n = 0 THEN c.cur = EmptyNet /\ c.prev = EmptyNet
       ELSE /\ EndsAt(books, c.cur, n)
            /\ c.prev.first # None => EndsAt(books, c.prev, c.cur.first - 1)

\* From anywhere within its rows a net carries a book to their end.
LEMMA NetCarries ==
    ASSUME NEW books, NEW net \in Nets, NEW b \in Nat, NEW a \in 0..b, NEW s \in a..b,
           books[s + 1] \in Levels, books[b + 1] \in Levels, Carries(books, net, a, b)
    PROVE  SetNet(books[s + 1], net) = books[b + 1]
  <1> DEFINE from == books[s + 1]
             to == books[b + 1]
  <1>1. from \in Levels /\ to \in Levels
    OBVIOUS
  <1>2. \A l \in Level : IF net[l] = Absent THEN from[l] = to[l]
                         ELSE to[l] = IF net[l] = 0 THEN Absent ELSE net[l]
    BY DEF Carries
  <1> HIDE DEF from, to
  <1>3. ASSUME NEW l \in Level
        PROVE  SetNet(from, net)[l] = to[l]
    BY <1>1, <1>2 DEF SetNet, SetLevel, Levels
  <1>4. DOMAIN SetNet(from, net) = Level /\ DOMAIN to = Level
        /\ SetNet(from, net) = [l \in Level |-> SetNet(from, net)[l]]
        /\ to = [l \in Level |-> to[l]]
    BY <1>1 DEF SetNet, Levels
  <1>5. SetNet(from, net) = to
    BY <1>3, <1>4
  <1>6. QED
    BY <1>5 DEF from, to

\* A net of nothing.
LEMMA EmptyNetIs ==
    /\ IsNet(EmptyNet) /\ EmptyNet.first = None /\ EmptyNet.levels = NoLevels
    /\ EmptyNet.contiguous = TRUE
  BY DEF IsNet, EmptyNet, NoLevels, Nets, None, Absent

\* Net::fold: the row's level is set, its seq is the last, a hole is noticed.
LEMMA FoldRowIs ==
    ASSUME NEW net, IsNet(net), NEW r \in Rows
    PROVE  /\ IsNet(FoldRow(net, r))
           /\ FoldRow(net, r).levels = [net.levels EXCEPT ![r.level] = r.qty]
           /\ FoldRow(net, r).first = IF net.first = None THEN r.seq ELSE net.first
           /\ FoldRow(net, r).last = r.seq
           /\ FoldRow(net, r).contiguous
                = (net.contiguous /\ (net.first # None => r.seq = net.last + 1))
  <1>1. r.seq \in Nat /\ r.level \in Level /\ r.qty \in Qty
    BY DEF Rows
  <1>2. [net.levels EXCEPT ![r.level] = r.qty] \in Nets
    BY <1>1 DEF IsNet, Nets
  <1>3. (IF net.first = None THEN r.seq ELSE net.first) \in Nat
    BY <1>1 DEF IsNet
  <1>4. QED
    BY <1>1, <1>2, <1>3 DEF FoldRow, IsNet

\* One row more.
LEMMA NetGrows ==
    ASSUME NEW rows, NEW books, IsLog(rows, books), NEW n \in Nat, n < Len(rows),
           NEW net, IsNet(net), net = EmptyNet \/ (n # 0 /\ EndsAt(books, net, n))
    PROVE  /\ EndsAt(books, FoldRow(net, rows[n + 1]), n + 1)
           /\ FoldRow(net, rows[n + 1]).first = IF net = EmptyNet THEN n + 1 ELSE net.first
  <1> DEFINE r == rows[n + 1]
             m == FoldRow(net, r)
             was == books[n + 1]
             is == books[n + 2]
  <1>0. Len(rows) \in Nat /\ n + 1 \in 1..Len(rows) /\ n + 1 \in 1..Len(books)
        /\ n + 2 \in 1..Len(books)
    BY DEF IsLog
  <1>1. r \in Rows /\ r.seq = n + 1 /\ was \in Levels /\ is = SetLevel(was, r.level, r.qty)
    BY <1>0 DEF IsLog
  <1>2. /\ IsNet(m) /\ m.levels = [net.levels EXCEPT ![r.level] = r.qty]
        /\ m.first = IF net.first = None THEN r.seq ELSE net.first
        /\ m.last = r.seq
        /\ m.contiguous = (net.contiguous /\ (net.first # None => r.seq = net.last + 1))
    <2> HIDE DEF r
    <2>1. QED
      BY <1>1, FoldRowIs
  <1>3. /\ \A l \in Level : l # r.level => is[l] = was[l]
        /\ is[r.level] = IF r.qty = 0 THEN Absent ELSE r.qty
        /\ r.level \in Level /\ r.qty \in Qty
    <2> HIDE DEF r, is, was
    <2>1. QED
      BY <1>1, SetLevelIs DEF Rows
  <1>4. r.qty # Absent
    BY <1>3, BookConstants DEF Absent
  <1> HIDE DEF m, r
  <1>5. m.last = n + 1 /\ m.contiguous = TRUE
    BY <1>1, <1>2, EmptyNetIs DEF EndsAt
  <1>6. m.first = IF net = EmptyNet THEN n + 1 ELSE net.first
    BY <1>1, <1>2, EmptyNetIs DEF EndsAt, None
  <1>7. m.first \in 1..(n + 1)
    BY <1>6 DEF EndsAt
  <1>8. Carries(books, m.levels, m.first - 1, n + 1)
    <2>1. SUFFICES ASSUME NEW l \in Level
                   PROVE  IF m.levels[l] = Absent
                          THEN \A s \in (m.first - 1)..(n + 1) : books[s + 1][l] = books[n + 1 + 1][l]
                          ELSE books[n + 1 + 1][l] = IF m.levels[l] = 0 THEN Absent ELSE m.levels[l]
      BY DEF Carries
    <2>2. n + 1 + 1 = n + 2
      OBVIOUS
    <2>3. net.levels \in Nets
      BY DEF IsNet
    <2>4. CASE l = r.level
      <3>1. m.levels[l] = r.qty
        BY <1>2, <1>3, <2>3, <2>4 DEF Nets
      <3>2. is[l] = IF r.qty = 0 THEN Absent ELSE r.qty
        BY <1>3, <2>4
      <3>3. QED
        BY <1>4, <2>2, <3>1, <3>2
    <2>5. CASE l # r.level
      <3>1. m.levels[l] = net.levels[l] /\ is[l] = was[l]
        BY <1>2, <1>3, <2>3, <2>5 DEF Nets
      <3>2. CASE net = EmptyNet
        <4>1. m.levels[l] = Absent /\ m.first = n + 1
          BY <1>6, <3>1, <3>2, EmptyNetIs DEF NoLevels
        <4>2. \A s \in n..(n + 1) : s = n \/ s = n + 1
          OBVIOUS
        <4>3. \A s \in n..(n + 1) : books[s + 1][l] = books[n + 2][l]
          BY <3>1, <4>2
        <4>4. QED
          BY <2>2, <4>1, <4>3
      <3>3. CASE net # EmptyNet
        <4>1. m.first = net.first /\ net.first \in 1..n /\ Carries(books, net.levels, net.first - 1, n)
          BY <1>6, <3>3 DEF EndsAt
        <4>2. IF net.levels[l] = Absent
              THEN \A s \in (net.first - 1)..n : books[s + 1][l] = books[n + 1][l]
              ELSE books[n + 1][l] = IF net.levels[l] = 0 THEN Absent ELSE net.levels[l]
          BY <4>1 DEF Carries
        <4>3. \A s \in (net.first - 1)..(n + 1) : s \in (net.first - 1)..n \/ s = n + 1
          BY <4>1
        <4>4. QED
          BY <2>2, <3>1, <4>1, <4>2, <4>3
      <3>4. QED
        BY <3>2, <3>3
    <2>6. QED
      BY <2>4, <2>5
  <1>9. QED
    BY <1>5, <1>6, <1>7, <1>8 DEF EndsAt, m, r

\* BookChunk folds a row into the current net, after tumbling if its period turned.
LEMMA FoldIntoIs ==
    ASSUME NEW c, IsChunk(c), NEW r \in Rows
    PROVE  LET turns == c.base # r.period
               d == FoldInto(0, c, r)
           IN  /\ IsChunk(d) /\ d.fresh = c.fresh
               /\ d.cur = FoldRow(IF turns THEN EmptyNet ELSE c.cur, r)
               /\ d.prev = IF turns THEN c.cur ELSE c.prev
  <1> DEFINE turns == c.base # r.period
             net == IF turns THEN EmptyNet ELSE c.cur
             t == Tumble(c, r.period)
  <1>1. t = [base |-> t.base, cur |-> net, prev |-> IF turns THEN c.cur ELSE c.prev, fresh |-> c.fresh]
    BY DEF Tumble, IsChunk
  <1>2. IsNet(net) /\ IsNet(IF turns THEN c.cur ELSE c.prev)
    BY EmptyNetIs DEF IsChunk
  <1>3. IsNet(FoldRow(net, r))
    <2> HIDE DEF net
    <2>1. QED
      BY <1>2, FoldRowIs
  <1>4. FoldInto(0, c, r) = [t EXCEPT !.cur = FoldRow(net, r)]
    <2>1. t.cur = net
      BY <1>1
    <2>2. QED
      BY <2>1 DEF FoldInto
  <1>5. FoldInto(0, c, r) = [base |-> t.base, cur |-> FoldRow(net, r),
                             prev |-> IF turns THEN c.cur ELSE c.prev, fresh |-> c.fresh]
    <2> HIDE DEF t, net
    <2>1. QED
      BY <1>1, <1>4
  <1> HIDE DEF t
  <1>6. QED
    BY <1>2, <1>3, <1>5 DEF IsChunk

\* The chunk part of the way through a run.
Amid(c, fresh, rows) == Chunking!Fold(0, [c EXCEPT !.fresh = fresh], rows)

\* BookChunk::advance, row by row.
LEMMA AdvanceGrows ==
    ASSUME NEW c, NEW fresh
    PROVE  /\ Advance(c, fresh) = Amid(c, fresh, fresh)
           /\ Amid(c, fresh, <<>>) = [c EXCEPT !.fresh = fresh]
           /\ \A rows \in Seq(Rows), r \in Rows :
                Amid(c, fresh, Append(rows, r)) = FoldInto(0, Amid(c, fresh, rows), r)
  <1> DEFINE base == [c EXCEPT !.fresh = fresh]
             At(rows) == Chunking!Fold(0, base, rows)
  <1>1. Advance(c, fresh) = At(fresh)
    BY Zenon DEF Advance, FoldInto, Chunking!Fold, FoldLeft, MapThenFoldSet, Chunking!FoldLeft,
                 Chunking!MapThenFoldSet, Max, Chunking!Max
  <1>2. At(<<>>) = base
    BY Chunking!FoldEmpty
  <1>3. ASSUME NEW rows \in Seq(Rows), NEW r \in Rows
        PROVE  At(Append(rows, r)) = FoldInto(0, At(rows), r)
    <2> HIDE DEF base
    <2>1. QED
      BY Chunking!FoldAppend
  <1>4. QED
    BY <1>1, <1>2, <1>3, Zenon DEF Amid

\* Whatever it holds, a chunk is a chunk after a run, and holds the run.
LEMMA AdvanceIs ==
    ASSUME NEW c, IsChunk(c), NEW run \in Seq(Rows)
    PROVE  IsChunk(Advance(c, run)) /\ Advance(c, run).fresh = run
  <1> DEFINE At(rows) == Amid(c, run, rows)
             Good(d) == IsChunk(d) /\ d.fresh = run
             T == {k \in Nat : k <= Len(run) => Good(At(SubSeq(run, 1, k)))}
  <1>1. /\ Advance(c, run) = At(run) /\ At(<<>>) = [c EXCEPT !.fresh = run]
        /\ \A rows \in Seq(Rows), r \in Rows : At(Append(rows, r)) = FoldInto(0, At(rows), r)
    BY AdvanceGrows
  <1> HIDE DEF At
  <1>2. 0 \in T
    <2>1. SubSeq(run, 1, 0) = <<>>
      OBVIOUS
    <2>2. Good(At(<<>>))
      BY <1>1 DEF IsChunk
    <2>3. QED
      BY <2>1, <2>2
  <1>3. ASSUME NEW k \in Nat, k \in T
        PROVE  k + 1 \in T
    <2>1. SUFFICES ASSUME k + 1 <= Len(run)
                   PROVE  Good(At(SubSeq(run, 1, k + 1)))
      OBVIOUS
    <2>2. k \in 0..Len(run) /\ 0 \in 0..k /\ k < Len(run)
      BY <2>1
    <2>3. /\ SubSeq(run, 1, k) \in Seq(Rows) /\ run[k + 1] \in Rows
          /\ SubSeq(run, 1, k + 1) = Append(SubSeq(run, 1, k), run[k + 1])
      <3>1. 0 + 1 = 1
        OBVIOUS
      <3>2. /\ SubSeq(run, 0 + 1, k) \in Seq(Rows) /\ run[k + 1] \in Rows
            /\ SubSeq(run, 0 + 1, k + 1) = Append(SubSeq(run, 0 + 1, k), run[k + 1])
        BY <2>2, Writing!SubSeqGrows
      <3>3. QED
        BY <3>1, <3>2, Zenon
    <2> DEFINE d == At(SubSeq(run, 1, k))
               e == At(SubSeq(run, 1, k + 1))
    <2>4. Good(d)
      BY <1>3, <2>1
    <2>5. e = FoldInto(0, d, run[k + 1])
      <3>1. At(Append(SubSeq(run, 1, k), run[k + 1])) = FoldInto(0, At(SubSeq(run, 1, k)), run[k + 1])
        BY <1>1, <2>3
      <3>2. QED
        BY <2>3, <3>1, Zenon
    <2> HIDE DEF d, e
    <2>6. Good(e)
      BY <2>3, <2>4, <2>5, FoldIntoIs
    <2>7. QED
      BY <2>6 DEF e
  <1> HIDE DEF T
  <1>4. Nat \subseteq T
    BY <1>2, <1>3, Writing!Induction
  <1>5. Len(run) \in T /\ SubSeq(run, 1, Len(run)) = run
    BY <1>4
  <1>6. Good(At(SubSeq(run, 1, Len(run))))
    <2>1. Len(run) <= Len(run)
      OBVIOUS
    <2>2. QED
      BY <1>5, <2>1 DEF T
  <1>7. QED
    BY <1>1, <1>5, <1>6, Zenon

\* A chunk that missed nothing folds the next row and has missed nothing.
LEMMA WholeGrows ==
    ASSUME NEW rows, NEW books, IsLog(rows, books), NEW n \in Nat, n < Len(rows),
           NEW c, Whole(c, books, n)
    PROVE  Whole(FoldInto(0, c, rows[n + 1]), books, n + 1)
  <1> DEFINE r == rows[n + 1]
             turns == c.base # r.period
             net == IF turns THEN EmptyNet ELSE c.cur
             d == FoldInto(0, c, r)
  <1>1. r \in Rows
    BY DEF IsLog
  <1>2. IsChunk(c)
    BY DEF Whole
  <1> HIDE DEF r
  <1>3. /\ IsChunk(d) /\ d.cur = FoldRow(net, r)
        /\ d.prev = IF turns THEN c.cur ELSE c.prev
    BY <1>1, <1>2, FoldIntoIs
  <1> HIDE DEF d
  <1>4. IsNet(net) /\ (net = EmptyNet \/ (n # 0 /\ EndsAt(books, net, n)))
    BY <1>2, EmptyNetIs DEF Whole, IsChunk
  <1>5. /\ EndsAt(books, d.cur, n + 1)
        /\ d.cur.first = IF net = EmptyNet THEN n + 1 ELSE net.first
    <2> HIDE DEF net
    <2>1. QED
      BY <1>3, <1>4, NetGrows DEF r
  <1>6. d.prev.first # None => EndsAt(books, d.prev, d.cur.first - 1)
    <2>1. CASE n = 0
      BY <1>3, <2>1, EmptyNetIs DEF Whole
    <2>2. CASE n # 0 /\ turns
      <3>1. d.prev = c.cur /\ net = EmptyNet /\ EndsAt(books, c.cur, n)
        BY <1>3, <2>2 DEF Whole
      <3>2. d.cur.first - 1 = n
        BY <1>5, <3>1
      <3>3. QED
        BY <3>1, <3>2
    <2>3. CASE n # 0 /\ ~ turns
      <3>1. d.prev = c.prev /\ net = c.cur /\ EndsAt(books, c.cur, n)
            /\ (c.prev.first # None => EndsAt(books, c.prev, c.cur.first - 1))
        BY <1>3, <2>3 DEF Whole
      <3>2. c.cur # EmptyNet
        BY <3>1, EmptyNetIs DEF EndsAt, None
      <3>3. d.cur.first = c.cur.first
        BY <1>5, <3>1, <3>2
      <3>4. QED
        BY <3>1, <3>3
    <2>4. QED
      BY <2>1, <2>2, <2>3
  <1>7. QED
    BY <1>3, <1>5, <1>6 DEF Whole, d, r

\* A chunk that missed nothing misses nothing of a run it is given.
LEMMA WholeAdvances ==
    ASSUME NEW rows, NEW books, IsLog(rows, books), NEW n \in 0..Len(rows),
           NEW c, Whole(c, books, n)
    PROVE  Whole(Advance(c, SubSeq(rows, n + 1, Len(rows))), books, Len(rows))
  <1> DEFINE run == SubSeq(rows, n + 1, Len(rows))
             At(some) == Amid(c, run, some)
             T == {k \in Nat : n + k <= Len(rows) => Whole(At(SubSeq(rows, n + 1, n + k)), books, n + k)}
  <1>0. Len(rows) \in Nat /\ rows \in Seq(Rows)
    BY DEF IsLog
  <1>1. /\ Advance(c, run) = At(run) /\ At(<<>>) = [c EXCEPT !.fresh = run]
        /\ \A some \in Seq(Rows), r \in Rows : At(Append(some, r)) = FoldInto(0, At(some), r)
    <2> HIDE DEF run
    <2>1. Advance(c, run) = At(run) /\ At(<<>>) = [c EXCEPT !.fresh = run]
      BY AdvanceGrows
    <2>2. \A some \in Seq(Rows), r \in Rows : At(Append(some, r)) = FoldInto(0, At(some), r)
      BY AdvanceGrows
    <2>3. QED
      BY <2>1, <2>2
  <1>2. Whole([c EXCEPT !.fresh = run], books, n)
    <2> DEFINE d == [c EXCEPT !.fresh = run]
    <2> HIDE DEF run
    <2>1. IsChunk(d) /\ d.cur = c.cur /\ d.prev = c.prev
      BY DEF Whole, IsChunk
    <2> HIDE DEF d
    <2>2. Whole(d, books, n)
      BY <2>1 DEF Whole
    <2>3. QED
      BY <2>2 DEF d
  <1> HIDE DEF At
  <1>3. 0 \in T
    <2>1. SubSeq(rows, n + 1, n + 0) = <<>> /\ n + 0 = n
      BY <1>0
    <2>2. QED
      BY <1>1, <1>2, <2>1
  <1>4. ASSUME NEW k \in Nat, k \in T
        PROVE  k + 1 \in T
    <2> DEFINE i == n + k
               d == At(SubSeq(rows, n + 1, i))
               e == At(SubSeq(rows, n + 1, i + 1))
    <2>1. SUFFICES ASSUME n + (k + 1) <= Len(rows)
                   PROVE  Whole(At(SubSeq(rows, n + 1, n + (k + 1))), books, n + (k + 1))
      OBVIOUS
    <2>2. i \in 0..Len(rows) /\ n \in 0..i /\ i < Len(rows) /\ i \in Nat
      BY <1>0, <2>1
    <2>3. /\ SubSeq(rows, n + 1, i) \in Seq(Rows) /\ rows[i + 1] \in Rows
          /\ SubSeq(rows, n + 1, i + 1) = Append(SubSeq(rows, n + 1, i), rows[i + 1])
      BY <1>0, <2>2, Writing!SubSeqGrows
    <2>4. Whole(d, books, i)
      BY <1>0, <1>4, <2>1
    <2>5. e = FoldInto(0, d, rows[i + 1])
      BY <1>1, <2>3
    <2>6. n + (k + 1) = i + 1
      BY <1>0
    <2> HIDE DEF d, e, i
    <2>7. Whole(e, books, i + 1)
      BY <2>2, <2>4, <2>5, WholeGrows
    <2>8. QED
      BY <2>6, <2>7, Zenon DEF e
  <1> HIDE DEF T
  <1>5. Nat \subseteq T
    BY <1>3, <1>4, Writing!Induction
  <1>6. Len(rows) - n \in T /\ n + (Len(rows) - n) = Len(rows)
    BY <1>0, <1>5
  <1>7. Whole(At(run), books, Len(rows))
    <2>1. n + (Len(rows) - n) <= Len(rows)
      BY <1>0
    <2>2. Whole(At(SubSeq(rows, n + 1, n + (Len(rows) - n))), books, n + (Len(rows) - n))
      BY <1>6, <2>1 DEF T
    <2>3. QED
      BY <1>6, <2>2, Zenon
  <1>8. QED
    BY <1>1, <1>7, Zenon

-----------------------------------------------------------------------------
(* A run is recorded.                                                      *)

\* more records what books does of the first n rows.
Agrees(books, more, n) == \A s \in 0..n : more[s + 1] = books[s + 1]

\* What a net carries of a history it carries of a longer one.
LEMMA CarriesStays ==
    ASSUME NEW books, NEW more, NEW n \in Nat, Agrees(books, more, n), NEW b \in 0..n, NEW a \in Nat,
           NEW net, Carries(books, net, a, b)
    PROVE  Carries(more, net, a, b)
  <1>1. more[b + 1] = books[b + 1]
    BY DEF Agrees
  <1>2. \A s \in a..b : more[s + 1] = books[s + 1]
    BY DEF Agrees
  <1>3. QED
    BY <1>1, <1>2 DEF Carries

\* A chunk whole for a history is whole for a longer one.
LEMMA WholeStays ==
    ASSUME NEW books, NEW more, NEW n \in Nat, Agrees(books, more, n), NEW c, Whole(c, books, n)
    PROVE  Whole(c, more, n)
  <1>1. CASE n = 0
    BY <1>1 DEF Whole
  <1>2. CASE n # 0
    <2>1. /\ EndsAt(books, c.cur, n)
          /\ c.prev.first # None => EndsAt(books, c.prev, c.cur.first - 1)
      BY <1>2 DEF Whole
    <2>2. EndsAt(more, c.cur, n)
      <3>1. n \in 0..n /\ c.cur.first - 1 \in Nat
        BY <2>1 DEF EndsAt
      <3>2. QED
        BY <2>1, <3>1, CarriesStays DEF EndsAt
    <2>3. ASSUME c.prev.first # None
          PROVE  EndsAt(more, c.prev, c.cur.first - 1)
      <3>1. c.cur.first - 1 \in 0..n /\ c.prev.first - 1 \in Nat
        BY <2>1, <2>3 DEF EndsAt
      <3>2. QED
        BY <2>1, <2>3, <3>1, CarriesStays DEF EndsAt
    <2>4. QED
      BY <1>2, <2>2, <2>3 DEF Whole
  <1>3. QED
    BY <1>1, <1>2

\* The book after each row of a run.
LEMMA RunIs ==
    ASSUME NEW held \in Levels, NEW run \in Seq(Rows)
    PROVE  \A k \in 0..Len(run) :
             /\ SetRows(held, SubSeq(run, 1, k)) \in Levels
             /\ k < Len(run) => SetRows(held, SubSeq(run, 1, k + 1))
                                  = SetLevel(SetRows(held, SubSeq(run, 1, k)), run[k + 1].level, run[k + 1].qty)
  <1> DEFINE Now(k) == SetRows(held, SubSeq(run, 1, k))
             T == {k \in Nat : k <= Len(run) => Now(k) \in Levels}
  <1>1. ASSUME NEW k \in Nat, k < Len(run)
        PROVE  run[k + 1] \in Rows /\ Now(k + 1) = SetLevel(Now(k), run[k + 1].level, run[k + 1].qty)
    <2>1. k \in 0..Len(run) /\ 0 \in 0..k /\ 0 + 1 = 1
      BY <1>1
    <2>2. /\ SubSeq(run, 0 + 1, k) \in Seq(Rows) /\ run[k + 1] \in Rows
          /\ SubSeq(run, 0 + 1, k + 1) = Append(SubSeq(run, 0 + 1, k), run[k + 1])
      BY <1>1, <2>1, Writing!SubSeqGrows
    <2>3. SetRows(held, Append(SubSeq(run, 0 + 1, k), run[k + 1]))
            = SetLevel(SetRows(held, SubSeq(run, 0 + 1, k)), run[k + 1].level, run[k + 1].qty)
      BY <2>2, SetRowsGrows
    <2>4. QED
      BY <2>1, <2>2, <2>3, Zenon
  <1>2. 0 \in T
    <2>1. SubSeq(run, 1, 0) = <<>>
      OBVIOUS
    <2>2. QED
      BY <2>1, SetRowsGrows
  <1>3. ASSUME NEW k \in Nat, k \in T
        PROVE  k + 1 \in T
    <2>1. SUFFICES ASSUME k + 1 <= Len(run)
                   PROVE  Now(k + 1) \in Levels
      OBVIOUS
    <2> DEFINE stood == Now(k)
               next == Now(k + 1)
               r == run[k + 1]
    <2>2. stood \in Levels /\ r \in Rows /\ next = SetLevel(stood, r.level, r.qty)
      BY <1>1, <1>3, <2>1
    <2> HIDE DEF stood, next, r
    <2>3. next \in Levels
      BY <2>2, SetLevelIs
    <2>4. QED
      BY <2>3 DEF next
  <1> HIDE DEF T
  <1>4. Nat \subseteq T
    BY <1>2, <1>3, Writing!Induction
  <1>5. \A k \in 0..Len(run) : k \in Nat /\ Now(k) \in Levels
    BY <1>4 DEF T
  <1>6. QED
    BY <1>1, <1>5

Recorded(books, run) ==
    books \o [i \in 1..Len(run) |-> SetRows(Last(books), SubSeq(run, 1, i))]

\* Rows recorded behind a log make a log, and leave its beginning.
LEMMA LogGrows ==
    ASSUME NEW rows, NEW books, IsLog(rows, books), NEW run \in Seq(Rows),
           \A i \in 1..Len(run) : run[i].seq = Len(rows) + i,
           NEW all, all = rows \o run,
           NEW more, more = Recorded(books, run)
    PROVE  /\ IsLog(all, more) /\ Agrees(books, more, Len(rows))
           /\ Len(all) = Len(rows) + Len(run)
           /\ SubSeq(all, Len(rows) + 1, Len(all)) = run
           /\ \A i \in 1..Len(rows) : all[i] = rows[i]
  <1> DEFINE n == Len(rows)
             m == Len(run)
             Now(k) == SetRows(Last(books), SubSeq(run, 1, k))
             new == [i \in 1..m |-> Now(i)]
  <1>1. /\ rows \in Seq(Rows) /\ books \in Seq(Levels) /\ Len(books) = n + 1 /\ n \in Nat /\ m \in Nat
        /\ \A i \in 1..n : rows[i].seq = i
                           /\ books[i + 1] = SetLevel(books[i], rows[i].level, rows[i].qty)
    BY DEF IsLog
  <1>2. Last(books) = books[n + 1] /\ Last(books) \in Levels
    BY <1>1 DEF Last
  <1>3. \A k \in 0..m : /\ Now(k) \in Levels
                        /\ k < m => Now(k + 1) = SetLevel(Now(k), run[k + 1].level, run[k + 1].qty)
    <2> DEFINE base == Last(books)
    <2> HIDE DEF base
    <2>1. base \in Levels
      BY <1>2 DEF base
    <2>2. QED
      BY <2>1, RunIs DEF base
  <1>4. Now(0) = books[n + 1]
    <2>1. SubSeq(run, 1, 0) = <<>>
      OBVIOUS
    <2>2. QED
      BY <1>2, <2>1, SetRowsGrows
  <1> HIDE DEF Now
  <1>5. new \in Seq(Levels) /\ Len(new) = m /\ \A i \in 1..m : new[i] = Now(i)
    <2>1. m \in Nat /\ \A i \in 1..m : Now(i) \in Levels
      BY <1>1, <1>3
    <2> HIDE DEF m
    <2> QED
      BY <2>1
  <1>6. more = books \o new
    BY Zenon DEF Now, Recorded
  <1> HIDE DEF new
  <1>7. /\ more \in Seq(Levels) /\ Len(more) = n + 1 + m
        /\ \A i \in 1..(n + 1) : more[i] = books[i]
        /\ \A i \in 1..m : more[n + 1 + i] = Now(i)
    <2> HIDE DEF n, m
    <2>1. more \in Seq(Levels) /\ Len(more) = n + 1 + m
          /\ \A i \in 1..(n + 1 + m) : more[i] = IF i <= n + 1 THEN books[i] ELSE new[i - (n + 1)]
      <3>1. books \in Seq(Levels) /\ new \in Seq(Levels) /\ Len(books) = n + 1 /\ Len(new) = m
        BY <1>1, <1>5
      <3> HIDE <1>6
      <3>2. /\ books \o new \in Seq(Levels) /\ Len(books \o new) = Len(books) + Len(new)
            /\ \A i \in 1..(Len(books) + Len(new)) :
                 (books \o new)[i] = IF i <= Len(books) THEN books[i] ELSE new[i - Len(books)]
        BY <3>1, ConcatProperties
      <3>3. QED
        BY <1>6, <3>1, <3>2, Zenon
    <2>2. \A i \in 1..(n + 1) : more[i] = books[i]
      BY <1>1, <2>1
    <2>3. ASSUME NEW i \in 1..m
          PROVE  more[n + 1 + i] = Now(i)
      <3> DEFINE j == n + 1 + i
      <3>1. j \in 1..(n + 1 + m) /\ ~ (j <= n + 1) /\ j - (n + 1) = i
        BY <1>1
      <3> HIDE DEF j
      <3>2. more[j] = new[j - (n + 1)]
        BY <2>1, <3>1
      <3>3. more[j] = Now(i)
        BY <1>5, <3>1, <3>2, Zenon
      <3>4. QED
        BY <3>3 DEF j
    <2>4. QED
      BY <2>1, <2>2, <2>3
  <1>8. /\ all \in Seq(Rows) /\ Len(all) = n + m
        /\ \A i \in 1..n : all[i] = rows[i]
        /\ \A i \in 1..m : all[n + i] = run[i]
    BY <1>1
  <1>9. ASSUME NEW i \in 1..(n + m)
        PROVE  all[i].seq = i /\ more[i + 1] = SetLevel(more[i], all[i].level, all[i].qty)
    <2>1. CASE i <= n
      <3>1. i \in 1..n /\ i \in 1..(n + 1) /\ i + 1 \in 1..(n + 1)
        BY <2>1
      <3>2. QED
        BY <1>1, <1>7, <1>8, <3>1
    <2>2. CASE i > n
      <3> DEFINE k == i - n - 1
      <3>1. k \in 0..m /\ k < m /\ k + 1 \in 1..m /\ n + (k + 1) = i /\ n + 1 + (k + 1) = i + 1
        BY <1>1, <2>2
      <3>2. Now(k + 1) = SetLevel(Now(k), run[k + 1].level, run[k + 1].qty)
        BY <1>3, <3>1
      <3> HIDE DEF k
      <3>3. more[i] = Now(k)
        <4>1. CASE k = 0
          <5>1. i = n + 1
            BY <1>1, <3>1, <4>1
          <5>2. QED
            BY <1>1, <1>4, <1>7, <4>1, <5>1
        <4>2. CASE k # 0
          <5>1. k \in 1..m /\ n + 1 + k = i
            BY <1>1, <3>1, <4>2
          <5>2. QED
            BY <1>7, <5>1
        <4>3. QED
          BY <4>1, <4>2
      <3>4. more[i + 1] = Now(k + 1)
        BY <1>7, <3>1
      <3>5. all[i] = run[k + 1] /\ run[k + 1].seq = n + (k + 1)
        BY <1>8, <3>1
      <3>6. QED
        BY <3>1, <3>2, <3>3, <3>4, <3>5, Zenon
    <2>3. QED
      BY <1>1, <2>1, <2>2
  <1>10. IsLog(all, more)
    BY <1>1, <1>7, <1>8, <1>9 DEF IsLog
  <1>11. Agrees(books, more, n)
    BY <1>1, <1>7 DEF Agrees
  <1>12. SubSeq(all, n + 1, n + m) = run
    <2> DEFINE s == SubSeq(all, n + 1, n + m)
    <2>1. s \in Seq(Rows) /\ Len(s) = m /\ \A i \in 1..m : s[i] = all[n + i]
      BY <1>1, <1>8
    <2> HIDE DEF s
    <2>2. run \in Seq(Rows) /\ Len(run) = m /\ \A i \in 1..m : s[i] = run[i]
      BY <1>1, <1>8, <2>1
    <2>4. s = run
      BY <2>1, <2>2
    <2>5. QED
      BY <2>4 DEF s
  <1>13. QED
    BY <1>8, <1>10, <1>11, <1>12

\* A stretch of rows carries a book from one end of it to the other.
LEMMA RowsCarry ==
    ASSUME NEW rows, NEW books, IsLog(rows, books), NEW b \in 0..Len(rows), NEW a \in 0..b
    PROVE  /\ books[a + 1] \in Levels /\ books[b + 1] \in Levels
           /\ SetRows(books[a + 1], SubSeq(rows, a + 1, b)) = books[b + 1]
  <1> DEFINE from == books[a + 1]
             to == books[b + 1]
             got == SetRows(from, SubSeq(rows, a + 1, b))
  <1>1. from \in Levels /\ to \in Levels
    BY DEF IsLog
  <1>2. \A l \in Level : ~ Wrote(rows, l, a, b) => to[l] = from[l]
    BY Unwritten
  <1> HIDE DEF from, to
  <1>3. got \in Levels /\ \A l \in Level : got[l] = IF Wrote(rows, l, a, b) THEN books[b + 1][l] ELSE from[l]
    BY <1>1, LastWriter
  <1> HIDE DEF got
  <1>4. \A l \in Level : got[l] = to[l]
    BY <1>2, <1>3 DEF to
  <1>5. got = to
    BY <1>1, <1>3, <1>4 DEF Levels
  <1>6. QED
    BY <1>1, <1>5 DEF from, to, got

\* A run from m to the end of a log begins behind m and ends at its end.
LEMMA LastOfRun ==
    ASSUME NEW rows, NEW books, IsLog(rows, books), NEW m \in 0..Len(rows), m # Len(rows)
    PROVE  LET run == SubSeq(rows, m + 1, Len(rows))
           IN  run # <<>> /\ run[1].seq = m + 1 /\ Last(run).seq = Len(rows)
  <1> DEFINE run == SubSeq(rows, m + 1, Len(rows))
             n == Len(rows)
  <1>1. rows \in Seq(Rows) /\ n \in Nat /\ \A i \in 1..n : rows[i].seq = i
    BY DEF IsLog
  <1>2. Len(run) = n - m /\ run[1] = rows[m + 1] /\ run[n - m] = rows[n]
    <2>1. run \in Seq(Rows) /\ Len(run) = n - m /\ \A i \in 1..(n - m) : run[i] = rows[m + i]
      BY <1>1
    <2>2. 1 \in 1..(n - m) /\ n - m \in 1..(n - m) /\ m + (n - m) = n
      BY <1>1
    <2> HIDE DEF run
    <2>3. QED
      BY <2>1, <2>2
  <1>3. run # <<>>
    <2> HIDE DEF run
    <2>1. QED
      BY <1>1, <1>2
  <1> HIDE DEF run
  <1>4. Last(run) = rows[n]
    BY <1>2 DEF Last
  <1>5. m + 1 \in 1..n /\ n \in 1..n
    BY <1>1
  <1>6. run[1].seq = m + 1 /\ Last(run).seq = n
    BY <1>1, <1>2, <1>4, <1>5
  <1>7. QED
    BY <1>3, <1>6 DEF run

-----------------------------------------------------------------------------
(* A gated book.                                                           *)

IsBook(b) ==
    /\ b = [levels |-> b.levels, epoch |-> b.epoch, synced |-> b.synced, seq |-> b.seq]
    /\ b.synced \in BOOLEAN

\* Which row a book stands on; none yet, and it is the book recording opened on.
StandsOn(books, b) == b.synced => b.levels = books[b.seq + 1]

\* Book::reach, as far as the proofs read it.
LEMMA ReachIs ==
    ASSUME NEW b, NEW c
    PROVE  /\ Reach(b, c) \in {"fresh", "net", "both", "gone"}
           /\ Reach(b, c) = "fresh" =>
                \/ c.cur.first = None
                \/ b.seq = None
                \/ c.fresh = <<>> \/ c.fresh[1].seq = b.seq + 1
           /\ Reach(b, c) = "net" =>
                c.cur.first # None /\ b.seq # None /\ ~ (b.seq > c.cur.last) /\ b.seq + 1 >= c.cur.first
           /\ Reach(b, c) = "both" =>
                /\ c.cur.first # None /\ b.seq # None /\ Joins(c)
                /\ b.seq + 1 >= c.prev.first /\ ~ (c.cur.contiguous /\ b.seq + 1 >= c.cur.first)
  BY DEF Reach

\* A book out of sync keeps its levels.
LEMMA OffIs ==
    ASSUME NEW b, IsBook(b), NEW v
    PROVE  [b EXCEPT !.synced = v]
             = [levels |-> b.levels, epoch |-> b.epoch, synced |-> v, seq |-> b.seq]
  <1>1. b = [levels |-> b.levels, epoch |-> b.epoch, synced |-> b.synced, seq |-> b.seq]
    BY DEF IsBook
  <1>2. QED
    BY <1>1

\* A checkpoint is not the absence of one.
LEMMA IsAnchor ==
    ASSUME NEW held \in Levels
    PROVE  held # NoAnchor
  BY BookConstants DEF Levels, NoAnchor

SeededOn(d, b, held, n) ==
    IsBook(d) /\ d.synced = TRUE /\ d.epoch = b.epoch + 1 /\ d.seq = n /\ d.levels = held

\* The seed a checkpoint gives a book out of sync: the recorder's book, on the last
\* row, in an epoch of its own.
LEMMA SeedIs ==
    ASSUME NEW rows, NEW books, IsLog(rows, books), NEW n, n = Len(rows),
           NEW c, Whole(c, books, n), NEW b, IsBook(b), NEW given, given = books[n + 1]
    PROVE  SeededOn(Seeded(b, given, c), b, given, n)
  <1> DEFINE to == Resync(b, given)
             d == Seeded(b, given, c)
  <1>0. n \in Nat /\ IsNet(c.cur) /\ books[n + 1] \in Levels
    BY DEF IsLog, Whole, IsChunk
  <1>1. c.cur.contiguous
    BY EmptyNetIs DEF Whole, EndsAt
  <1>2. d = Absorb(to, c, FALSE)
    BY <1>0, <1>1, IsAnchor DEF Seeded
  <1>3. /\ to = [levels |-> given, epoch |-> b.epoch + 1, synced |-> TRUE, seq |-> None]
        /\ IsBook(to) /\ to.synced = TRUE /\ to.epoch = b.epoch + 1 /\ to.levels = given /\ to.seq = None
    BY DEF Resync, IsBook
  <1> HIDE DEF to
  <1>4. CASE c.cur.first = None
    <2>1. n = 0
      BY <1>0, <1>4 DEF Whole, EndsAt, None
    <2>2. d = to
      BY <1>2, <1>4 DEF Absorb
    <2> HIDE DEF d
    <2> QED
      BY <1>0, <1>3, <2>1, <2>2 DEF None, d, SeededOn
  <1>5. CASE c.cur.first # None
    <2>1. EndsAt(books, c.cur, n)
      BY <1>5, EmptyNetIs DEF Whole
    <2>2. d = [to EXCEPT !.levels = SetNet(@, c.cur.levels), !.seq = c.cur.last]
      BY <1>2, <1>5 DEF Absorb
    <2> HIDE DEF d
    <2>3. /\ IsBook(d) /\ d.levels = SetNet(given, c.cur.levels) /\ d.seq = c.cur.last
          /\ d.synced = TRUE /\ d.epoch = b.epoch + 1
      BY <1>3, <2>2 DEF IsBook
    <2> DEFINE a == c.cur.first - 1
    <2>4. a \in 0..n /\ n \in a..n /\ c.cur.levels \in Nets /\ Carries(books, c.cur.levels, a, n)
      BY <1>0, <2>1 DEF EndsAt, IsNet
    <2>5. SetNet(books[n + 1], c.cur.levels) = books[n + 1]
      <3> HIDE DEF a
      <3> QED
        BY <1>0, <2>4, NetCarries
    <2>6. d.levels = books[n + 1]
      BY <2>3, <2>5, Zenon
    <2> QED
      BY <1>0, <2>1, <2>3, <2>6 DEF EndsAt, d, SeededOn
  <1> QED
    BY <1>4, <1>5

\* Each reach is truthful: over a chunk that missed nothing, a placed book is
\* carried to the last row or declines, and a checkpoint seeds it there.
LEMMA StepIsTruthful ==
    ASSUME NEW rows, NEW books, IsLog(rows, books), NEW m \in 0..Len(rows),
           NEW c, Whole(c, books, Len(rows)), c.fresh = SubSeq(rows, m + 1, Len(rows)),
           NEW b, IsBook(b), b.seq \in 0..m, StandsOn(books, b),
           b.synced /\ b.seq = 0 => m = 0,
           b.synced /\ m = Len(rows) => b.seq = m,
           NEW given, given = NoAnchor \/ (m = Len(rows) /\ given = books[m + 1])
    PROVE  LET d == StepBook(b, given, c)
           IN  /\ IsBook(d) /\ d.seq \in 0..Len(rows)
               /\ d.synced => d.seq = Len(rows) /\ d.levels = books[Len(rows) + 1]
  <1> DEFINE n == Len(rows)
             reach == IF b.synced THEN Reach(b, c) ELSE "gone"
             d == StepBook(b, given, c)
             Good == IsBook(d) /\ d.seq \in 0..n /\ (d.synced => d.seq = n /\ d.levels = books[n + 1])
  <1>0. n \in Nat
    BY DEF IsLog
  <1>9. SUFFICES Good
    OBVIOUS
  <1>1. d = StepBy(reach, b, given, c)
    BY DEF StepBook
  <1>2. reach \in {"fresh", "net", "both", "gone"}
    BY ReachIs
  <1>3. IsNet(c.cur) /\ IsNet(c.prev)
    BY DEF Whole, IsChunk
  <1>4. CASE reach = "fresh"
    <2>1. b.synced /\ Reach(b, c) = "fresh" /\ b.levels = books[b.seq + 1]
      BY <1>4 DEF StandsOn
    <2>2. d = Apply(b, c.fresh)
      BY <1>1, <1>4 DEF StepBy
    <2>3. CASE m = n
      <3>1. c.fresh = <<>>
        BY <1>0, <2>3
      <3>2. d = b
        BY <2>2, <3>1 DEF Apply
      <3>3. QED
        BY <2>1, <2>3, <3>2
    <2>4. CASE m # n
      <3>1. c.fresh # <<>> /\ c.fresh[1].seq = m + 1 /\ Last(c.fresh).seq = n
        BY <2>4, LastOfRun
      <3>2. c.cur.first # None
        BY <1>0, <2>4 DEF Whole, EndsAt, None
      <3>3. b.seq = m
        BY SMTT(30), <2>1, <3>1, <3>2, ReachIs DEF None
      <3>4. d = [b EXCEPT !.levels = SetRows(@, c.fresh), !.seq = Last(c.fresh).seq]
        BY <2>2, <3>1 DEF Apply
      <3>5. IsBook(d) /\ d.levels = SetRows(b.levels, c.fresh) /\ d.seq = Last(c.fresh).seq
            /\ d.synced = b.synced
        <4> HIDE DEF d
        <4>1. QED
          BY <3>4 DEF IsBook
      <3>6. n \in 0..Len(rows) /\ m \in 0..n
        BY <1>0
      <3>7. SetRows(books[m + 1], SubSeq(rows, m + 1, n)) = books[n + 1]
        BY <3>6, RowsCarry
      <3>8. d.levels = books[n + 1]
        BY <2>1, <3>3, <3>5, <3>7, Zenon
      <3> HIDE DEF d
      <3>9. QED
        BY <1>0, <3>1, <3>5, <3>8
    <2>5. QED
      BY <2>3, <2>4
  <1>5. CASE reach = "net"
    <2>1. b.synced /\ Reach(b, c) = "net" /\ b.levels = books[b.seq + 1]
      BY <1>5 DEF StandsOn
    <2>2. d = Absorb(b, c, FALSE)
      BY <1>1, <1>5 DEF StepBy
    <2>3. c.cur.first # None /\ b.seq # None /\ ~ (b.seq > c.cur.last) /\ b.seq + 1 >= c.cur.first
      BY <2>1, ReachIs
    <2>4. n # 0 /\ EndsAt(books, c.cur, n)
      BY <2>3, EmptyNetIs DEF Whole
    <2>5. d = [b EXCEPT !.levels = SetNet(@, c.cur.levels), !.seq = c.cur.last]
      BY <2>2, <2>3 DEF Absorb
    <2> HIDE DEF d
    <2>6. IsBook(d) /\ d.levels = SetNet(b.levels, c.cur.levels) /\ d.seq = c.cur.last
      BY <2>5 DEF IsBook
    <2> DEFINE a == c.cur.first - 1
               s == b.seq
    <2>7. a \in 0..n /\ s \in a..n /\ c.cur.levels \in Nets /\ Carries(books, c.cur.levels, a, n)
          /\ books[s + 1] \in Levels /\ books[n + 1] \in Levels
      <3>1. c.cur.first \in 1..n /\ c.cur.last = n /\ Carries(books, c.cur.levels, a, n)
        BY <2>4 DEF EndsAt
      <3>2. c.cur.levels \in Nets
        BY <1>3 DEF IsNet
      <3>3. a \in 0..n /\ s \in a..n /\ s \in 0..n
        BY SMTT(30), <1>0, <2>3, <3>1
      <3>4. books[s + 1] \in Levels /\ books[n + 1] \in Levels
        BY <1>0, <3>3 DEF IsLog
      <3>5. QED
        BY <3>1, <3>2, <3>3, <3>4
    <2>8. SetNet(books[s + 1], c.cur.levels) = books[n + 1]
      <3> HIDE DEF a, s
      <3>1. QED
        BY <1>0, <2>7, NetCarries
    <2>9. QED
      BY <1>0, <2>1, <2>4, <2>6, <2>8 DEF EndsAt
  <1>6. CASE reach = "both"
    <2>1. b.synced /\ Reach(b, c) = "both" /\ b.levels = books[b.seq + 1]
      BY <1>6 DEF StandsOn
    <2>2. d = Absorb(b, c, TRUE)
      BY <1>1, <1>6 DEF StepBy
    <2>3. /\ c.cur.first # None /\ b.seq # None /\ Joins(c)
          /\ b.seq + 1 >= c.prev.first /\ ~ (c.cur.contiguous /\ b.seq + 1 >= c.cur.first)
      BY <2>1, ReachIs
    <2>4. n # 0 /\ EndsAt(books, c.cur, n) /\ EndsAt(books, c.prev, c.cur.first - 1)
      BY <2>3, EmptyNetIs DEF Whole, Joins
    <2>5. d = [b EXCEPT !.levels = SetNet(SetNet(@, c.prev.levels), c.cur.levels), !.seq = c.cur.last]
      BY <2>2, <2>3 DEF Absorb
    <2> HIDE DEF d
    <2>6. IsBook(d) /\ d.levels = SetNet(SetNet(b.levels, c.prev.levels), c.cur.levels)
          /\ d.seq = c.cur.last
      BY <2>5 DEF IsBook
    <2> DEFINE a == c.prev.first - 1
               s == b.seq
               p == c.cur.first - 1
    <2>11. /\ c.cur.first \in 1..n /\ c.cur.last = n /\ Carries(books, c.cur.levels, p, n)
           /\ c.prev.first \in 1..p /\ Carries(books, c.prev.levels, a, p)
           /\ c.cur.contiguous
      BY <2>4 DEF EndsAt
    <2>12. c.cur.levels \in Nets /\ c.prev.levels \in Nets
      BY <1>3 DEF IsNet
    <2>15. ~ (b.seq + 1 >= c.cur.first) /\ b.seq + 1 >= c.prev.first /\ b.seq \in Nat
      BY <2>3, <2>11
    <2>13. /\ p \in 0..n /\ p \in p..n /\ a \in 0..p /\ s \in a..p /\ s \in 0..n
      <3> DEFINE cf == c.cur.first
                 pf == c.prev.first
                 x == b.seq
      <3>1. cf \in 1..n /\ pf \in 1..(cf - 1) /\ ~ (x + 1 >= cf) /\ x + 1 >= pf /\ x \in Nat
        BY <2>11, <2>15
      <3> HIDE DEF cf, pf, x, n
      <3>2. /\ cf - 1 \in 0..n /\ cf - 1 \in (cf - 1)..n /\ pf - 1 \in 0..(cf - 1)
            /\ x \in (pf - 1)..(cf - 1) /\ x \in 0..n
        BY <1>0, <3>1
      <3>3. QED
        BY <3>2 DEF cf, pf, x
    <2>14. books[s + 1] \in Levels /\ books[p + 1] \in Levels /\ books[n + 1] \in Levels
      <3>1. \A i \in 0..n : books[i + 1] \in Levels
        BY <1>0 DEF IsLog
      <3>2. s \in 0..n /\ p \in 0..n /\ n \in 0..n
        BY <1>0, <2>13
      <3> HIDE DEF s, p
      <3>3. QED
        BY <3>1, <3>2
    <2>7. /\ a \in 0..p /\ s \in a..p /\ c.prev.levels \in Nets /\ Carries(books, c.prev.levels, a, p)
          /\ p \in 0..n /\ p \in p..n /\ c.cur.levels \in Nets /\ Carries(books, c.cur.levels, p, n)
          /\ books[s + 1] \in Levels /\ books[p + 1] \in Levels /\ books[n + 1] \in Levels
      BY <2>11, <2>12, <2>13, <2>14
    <2>8. SetNet(books[s + 1], c.prev.levels) = books[p + 1]
          /\ SetNet(books[p + 1], c.cur.levels) = books[n + 1]
      <3> HIDE DEF a, s, p
      <3>1. SetNet(books[s + 1], c.prev.levels) = books[p + 1]
        <4> DEFINE net == c.prev.levels
        <4> HIDE DEF net
        <4>1. /\ net \in Nets /\ p \in Nat /\ a \in 0..p /\ s \in a..p
              /\ books[s + 1] \in Levels /\ books[p + 1] \in Levels /\ Carries(books, net, a, p)
          BY <1>0, <2>7 DEF net
        <4>2. SetNet(books[s + 1], net) = books[p + 1]
          BY <4>1, NetCarries
        <4> QED
          BY <4>2 DEF net
      <3>2. SetNet(books[p + 1], c.cur.levels) = books[n + 1]
        BY <1>0, <2>7, NetCarries
      <3>3. QED
        BY <3>1, <3>2
    <2>9. d.levels = books[n + 1]
      BY <2>1, <2>6, <2>8, Zenon
    <2>10. QED
      BY <1>0, <2>4, <2>6, <2>9 DEF EndsAt
  <1>7. CASE reach = "gone"
    <2> DEFINE off == [b EXCEPT !.synced = FALSE]
    <2>1. IsBook(off) /\ off.synced = FALSE /\ off.seq = b.seq
      <3>1. off = [levels |-> b.levels, epoch |-> b.epoch, synced |-> FALSE, seq |-> b.seq]
        BY OffIs
      <3> HIDE DEF off
      <3>2. QED
        BY <3>1 DEF IsBook
    <2>2. d = Seeded(off, given, c)
      BY <1>1, <1>7 DEF StepBy
    <2> HIDE DEF off
    <2>3. CASE given = NoAnchor
      <3>1. d = off
        BY <2>2, <2>3 DEF Seeded
      <3>2. QED
        BY <1>0, <2>1, <3>1
    <2>4. CASE given # NoAnchor
      <3>1. m = n /\ given = books[n + 1]
        BY <2>4
      <3>2. SeededOn(Seeded(off, given, c), off, given, n)
        BY <2>1, <3>1, SeedIs
      <3> HIDE DEF d
      <3>3. QED
        BY <1>0, <2>2, <3>1, <3>2 DEF SeededOn
    <2>5. QED
      BY <2>3, <2>4
  <1> HIDE DEF d, reach
  <1>8. QED
    BY <1>2, <1>4, <1>5, <1>6, <1>7

\* The rows a step delivers are numbered on from the tape.
LEMMA RunRows ==
    ASSUME GatedBookConstants, NEW k \in Nat, NEW run \in RunsOf(k), IsLog(tape, history)
    PROVE  /\ NextRows(run) \in Seq(Rows) /\ Len(NextRows(run)) = k
           /\ \A i \in 1..k : NextRows(run)[i].seq = Len(tape) + i
  <1>1. Len(tape) \in Nat
    BY DEF IsLog
  <1>2. Len(run) = k
    BY DEF RunsOf
  <1>3. ASSUME NEW i \in 1..k
        PROVE  [seq |-> Len(tape) + i, level |-> run[i].write[1], qty |-> run[i].write[2],
                period |-> run[i].period] \in Rows
    <2>1. run[i].write \in Writes /\ run[i].period \in 0..MaxPeriod /\ MaxPeriod \in Nat
      BY DEF RunsOf, GatedBookConstants
    <2>2. run[i].write \in Level \X Qty
      BY <2>1 DEF GatedBookConstants
    <2>3. run[i].write[1] \in Level /\ run[i].write[2] \in Qty /\ run[i].period \in Nat
      BY <2>1, <2>2
    <2>4. QED
      BY <1>1, <2>3 DEF Rows
  <1>4. NextRows(run) \in Seq(Rows) /\ Len(NextRows(run)) = k
    BY <1>2, <1>3 DEF NextRows
  <1>5. QED
    BY <1>2, <1>4 DEF NextRows

\* What a run leaves of the recording.
LEMMA Records ==
    ASSUME GatedBookConstants, NEW k \in Nat, NEW run \in RunsOf(k), IsLog(tape, history),
           Record(NextRows(run))
    PROVE  /\ IsLog(tape', history') /\ Agrees(history, history', Len(tape))
           /\ Len(tape') = Len(tape) + k /\ Len(tape) \in 0..Len(tape')
           /\ NextRows(run) = SubSeq(tape', Len(tape) + 1, Len(tape'))
           /\ \A i \in 1..Len(tape) : tape'[i] = tape[i]
  <1> DEFINE rows == NextRows(run)
  <1>1. rows \in Seq(Rows) /\ Len(rows) = k /\ \A i \in 1..k : rows[i].seq = Len(tape) + i
    BY RunRows
  <1> HIDE DEF rows
  <1>2. history' = Recorded(history, rows)
    BY Zenon DEF Record, Truth, Recorded, rows
  <1>3. tape' = tape \o rows
    BY DEF Record, rows
  <1>4. /\ IsLog(tape', history') /\ Agrees(history, history', Len(tape))
        /\ Len(tape') = Len(tape) + Len(rows)
        /\ SubSeq(tape', Len(tape) + 1, Len(tape')) = rows
        /\ \A i \in 1..Len(tape) : tape'[i] = tape[i]
    <2>1. \A i \in 1..Len(rows) : rows[i].seq = Len(tape) + i
      BY <1>1
    <2> DEFINE all == tape'
               more == history'
    <2>2. all = tape \o rows /\ more = Recorded(history, rows)
      BY <1>2, <1>3
    <2> HIDE DEF all, more
    <2> HIDE <1>2, <1>3
    <2>3. IsLog(all, more)
      BY <1>1, <2>1, <2>2, LogGrows, ZenonT(30)
    <2>4. Agrees(history, more, Len(tape)) /\ Len(all) = Len(tape) + Len(rows)
      BY <1>1, <2>1, <2>2, LogGrows, ZenonT(30)
    <2>5. SubSeq(all, Len(tape) + 1, Len(all)) = rows
      BY <1>1, <2>1, <2>2, LogGrows, ZenonT(30)
    <2>6. \A i \in 1..Len(tape) : all[i] = tape[i]
      BY SMTT(30), <1>1, <2>1, <2>2, LogGrows
    <2>7. QED
      BY <2>3, <2>4, <2>5, <2>6 DEF all, more
  <1>5. Len(tape) \in Nat /\ Len(tape') = Len(tape) + k
    BY <1>1, <1>4 DEF IsLog
  <1>7. Len(tape) \in 0..Len(tape')
    BY <1>5
  <1>6. QED
    BY <1>4, <1>5, <1>7 DEF rows

\* Before the first step the tape is empty, and the book in no sync and no place.
LEMMA Opens ==
    ASSUME GatedBookConstants, Init
    PROVE  /\ IsLog(tape, history) /\ tape = <<>> /\ Len(tape) = 0 /\ Whole(chunk, history, 0)
           /\ IsBook(book) /\ book.seq = 0 /\ book.epoch = 0 /\ ~ book.synced /\ ~ shown
  <1>1. PICK s \in Seeds : history = <<s>>
    BY DEF Init
  <1>2. s \in Levels
    BY DEF GatedBookConstants
  <1>3. IsLog(tape, history) /\ tape = <<>> /\ Len(tape) = 0
    <2>1. tape = <<>> /\ <<>> \in Seq(Rows) /\ Len(<<>>) = 0
      BY DEF Init
    <2>2. history \in Seq(Levels) /\ Len(history) = 1
      BY <1>1, <1>2
    <2>3. \A i \in 1..0 : FALSE
      OBVIOUS
    <2>4. QED
      BY <2>1, <2>2, <2>3 DEF IsLog
  <1>4. Whole(chunk, history, 0)
    BY EmptyNetIs DEF Init, EmptyChunk, Whole, IsChunk
  <1>5. IsBook(book) /\ book.seq = 0 /\ book.epoch = 0 /\ ~ book.synced
    BY DEF Init, EmptyBook, IsBook, None
  <1>6. ~ shown
    BY DEF Init
  <1>7. QED
    BY <1>3, <1>4, <1>5, <1>6

-----------------------------------------------------------------------------
(* An anchored book in a replay.                                           *)

\* Where levels differ from the recorder's after row s, the range was opened on a
\* checkpoint that differed there, and no row up to s wrote the level.
Right(books, rows, opened, held, s) ==
    \A l \in Level : held[l] # books[s + 1][l] =>
      opened # NoAnchor /\ opened[l] # books[1][l] /\ ~ Wrote(rows, l, 0, s)

\* The recorder's book is right.
LEMMA RightItself ==
    ASSUME NEW books, NEW rows, NEW opened, NEW s
    PROVE  Right(books, rows, opened, books[s + 1], s)
  BY DEF Right

\* What was right stays right as the recording goes on.
LEMMA RightStays ==
    ASSUME NEW books, NEW rows, NEW opened, NEW held, NEW n \in Nat, NEW s \in 0..n,
           NEW more, Agrees(books, more, n), NEW all, \A i \in 1..n : all[i] = rows[i],
           Right(books, rows, opened, held, s)
    PROVE  Right(more, all, opened, held, s)
  <1>1. more[s + 1] = books[s + 1] /\ more[1] = books[1]
    BY DEF Agrees
  <1>2. \A l : Wrote(all, l, 0, s) <=> Wrote(rows, l, 0, s)
    BY DEF Wrote
  <1>3. QED
    BY <1>1, <1>2 DEF Right

\* Rows folded over a book right as of some row of theirs, or the one before them,
\* leave it right as of their last.
LEMMA RowsRight ==
    ASSUME NEW rows, NEW books, IsLog(rows, books), NEW opened, NEW held \in Levels,
           NEW b \in 0..Len(rows), NEW s \in 0..b, NEW k \in 0..s,
           Right(books, rows, opened, held, s)
    PROVE  /\ SetRows(held, SubSeq(rows, k + 1, b)) \in Levels
           /\ Right(books, rows, opened, SetRows(held, SubSeq(rows, k + 1, b)), b)
  <1> DEFINE got == SetRows(held, SubSeq(rows, k + 1, b))
  <1>1. k \in 0..b
    OBVIOUS
  <1>2. got \in Levels /\ \A l \in Level :
          got[l] = IF Wrote(rows, l, k, b) THEN books[b + 1][l] ELSE held[l]
    BY <1>1, LastWriter
  <1> HIDE DEF got
  <1>3. ASSUME NEW l \in Level, got[l] # books[b + 1][l]
        PROVE  opened # NoAnchor /\ opened[l] # books[1][l] /\ ~ Wrote(rows, l, 0, b)
    <2>1. ~ Wrote(rows, l, k, b) /\ got[l] = held[l]
      BY <1>2, <1>3
    <2>2. ~ Wrote(rows, l, s, b)
      BY <2>1 DEF Wrote
    <2>3. books[b + 1][l] = books[s + 1][l]
      BY <2>2, Unwritten
    <2>4. opened # NoAnchor /\ opened[l] # books[1][l] /\ ~ Wrote(rows, l, 0, s)
      BY <1>3, <2>1, <2>3 DEF Right
    <2>5. ~ Wrote(rows, l, 0, b)
      <3>1. \A i \in (0 + 1)..b : i \in (0 + 1)..s \/ i \in (s + 1)..b
        OBVIOUS
      <3>2. QED
        BY <2>2, <2>4, <3>1 DEF Wrote
    <2>6. QED
      BY <2>4, <2>5
  <1>4. QED
    BY <1>2, <1>3 DEF Right, got

\* Book::apply over a run: the rows are set and the last one stood on.
LEMMA ApplyIs ==
    ASSUME NEW b, IsBook(b), NEW run
    PROVE  /\ IsBook(Apply(b, run)) /\ Apply(b, run).synced = b.synced
           /\ Apply(b, run).epoch = b.epoch
           /\ Apply(b, run).levels = SetRows(b.levels, run)
           /\ Apply(b, run).seq = IF run = <<>> THEN b.seq ELSE Last(run).seq
  <1>1. CASE run = <<>>
    BY <1>1, SetRowsGrows DEF Apply
  <1>2. CASE run # <<>>
    <2> DEFINE d == Apply(b, run)
    <2>1. d = [b EXCEPT !.levels = SetRows(@, run), !.seq = Last(run).seq]
      BY <1>2 DEF Apply
    <2> HIDE DEF d
    <2>2. IsBook(d) /\ d.levels = SetRows(b.levels, run) /\ d.seq = Last(run).seq
          /\ d.synced = b.synced /\ d.epoch = b.epoch
      BY <2>1 DEF IsBook
    <2>3. QED
      BY <1>2, <2>2 DEF d
  <1>3. QED
    BY <1>1, <1>2

\* A resume: the checkpoint, if there is one, and the rows behind it.
LEMMA ResumeIs ==
    ASSUME NEW b, IsBook(b), NEW held \in Levels, NEW run
    PROVE  /\ Resume(b, NoAnchor, run) = Apply(b, run)
           /\ IsBook(Resume(b, held, run)) /\ Resume(b, held, run).synced = TRUE
           /\ Resume(b, held, run).levels = SetRows(held, run)
           /\ Resume(b, held, run).seq = IF run = <<>> THEN 0 ELSE Last(run).seq
  <1>1. Resume(b, NoAnchor, run) = Apply(b, run)
    BY DEF Resume
  <1> DEFINE e == IF b.synced THEN b.epoch ELSE b.epoch + 1
             yes == TRUE
             at == [levels |-> held, epoch |-> e, synced |-> yes, seq |-> None]
  <1>2. [Resync(b, held) EXCEPT !.epoch = IF b.synced THEN b.epoch ELSE @] = at
    <2> DEFINE sync == Resync(b, held)
    <2>1. sync = [levels |-> held, epoch |-> b.epoch + 1, synced |-> yes, seq |-> None]
      BY Zenon DEF Resync
    <2> HIDE DEF yes
    <2>2. sync.epoch = b.epoch + 1
      BY <2>1
    <2>3. ASSUME NEW v
          PROVE  [sync EXCEPT !.epoch = v] = [levels |-> held, epoch |-> v, synced |-> yes, seq |-> None]
      <3> HIDE DEF sync
      <3>1. QED
        BY <2>1
    <2> HIDE DEF sync
    <2>4. [sync EXCEPT !.epoch = IF b.synced THEN b.epoch ELSE sync.epoch] = at
      BY <2>2, <2>3, Zenon
    <2>5. QED
      BY <2>4, Zenon DEF sync
  <1>3. Resume(b, held, run) = Apply(at, run)
    BY <1>2, IsAnchor DEF Resume
  <1>4. IsBook(at) /\ at.synced = TRUE /\ at.levels = held /\ at.seq = 0
    BY DEF IsBook, None
  <1> HIDE DEF at
  <1>5. QED
    BY <1>1, <1>3, <1>4, ApplyIs

\* Book::resync: a checkpoint's levels, no row stood on, in sync.
LEMMA ResyncIs ==
    ASSUME NEW b, NEW held
    PROVE  /\ IsBook(Resync(b, held)) /\ Resync(b, held).synced = TRUE
           /\ Resync(b, held).levels = held /\ Resync(b, held).seq = 0
  BY DEF Resync, IsBook, None

\* A step of a book out of sync that no checkpoint comes to.
LEMMA Unseeded ==
    ASSUME NEW b, IsBook(b), ~ b.synced, NEW c
    PROVE  /\ IsBook(StepBook(b, NoAnchor, c)) /\ ~ StepBook(b, NoAnchor, c).synced
           /\ StepBook(b, NoAnchor, c).seq = b.seq
  <1> DEFINE off == [b EXCEPT !.synced = FALSE]
  <1>1. StepBook(b, NoAnchor, c) = Seeded(off, NoAnchor, c)
    BY DEF StepBook, StepBy
  <1>2. IsBook(off) /\ off.synced = FALSE /\ off.seq = b.seq
    <2>1. off = [levels |-> b.levels, epoch |-> b.epoch, synced |-> FALSE, seq |-> b.seq]
      BY OffIs
    <2> HIDE DEF off
    <2>2. QED
      BY <2>1 DEF IsBook
  <1> HIDE DEF off
  <1>3. StepBook(b, NoAnchor, c) = off
    BY <1>1 DEF Seeded
  <1>4. QED
    BY <1>2, <1>3

OutOfSync(b) == IsBook(b) /\ ~ b.synced
SeededAt(b, held) == IsBook(b) /\ b.synced = TRUE /\ b.levels = held /\ b.seq = 0

\* A step of a book out of sync that a checkpoint comes to, over a chunk that
\* holds nothing.
LEMMA SeedsFromNothing ==
    ASSUME NEW b, OutOfSync(b), NEW held, held # NoAnchor, NEW c, c.cur = EmptyNet
    PROVE  SeededAt(StepBook(b, held, c), held)
  <1> DEFINE off == [b EXCEPT !.synced = FALSE]
             d == StepBook(b, held, c)
             e == Resync(off, held)
  <1>1. d = Seeded(off, held, c)
    BY DEF StepBook, StepBy, OutOfSync
  <1> HIDE DEF off
  <1>2. d = e
    <2>1. c.cur.contiguous = TRUE /\ c.cur.first = None
      BY EmptyNetIs
    <2>2. d = Absorb(e, c, FALSE)
      BY <1>1, <2>1 DEF Seeded
    <2>3. QED
      BY <2>1, <2>2 DEF Absorb
  <1>3. IsBook(e) /\ e.synced = TRUE /\ e.levels = held /\ e.seq = 0
    BY ResyncIs
  <1> HIDE DEF d, e
  <1>4. IsBook(d) /\ d.synced = TRUE /\ d.levels = held /\ d.seq = 0
    BY <1>2, <1>3, Zenon
  <1>5. QED
    BY <1>4 DEF d, SeededAt

-----------------------------------------------------------------------------
\* What a book, a checkpoint and the chunk are as of n rows.
BookHeld(books, rows, opened, b, n) ==
    /\ IsBook(b) /\ b.seq \in 0..n
    /\ b.synced => b.levels \in Levels
    /\ b.synced /\ (b.seq # 0 \/ n = 0) => Right(books, rows, opened, b.levels, b.seq)

AnchorHeld(books, rows, opened, a, n) ==
    /\ a.levels \in Levels /\ a.from \in 0..n
    /\ \E s \in a.from..n : Right(books, rows, opened, a.levels, s)

\* Before a checkpoint only a range none was carried into has rows, of one run,
\* and the chunk holds all of them or none.
Waiting(books, opened, c, n) ==
    /\ n # 0 => opened = NoAnchor
    /\ Whole(c, books, 0) \/ Whole(c, books, n)

ReplayInv ==
    /\ IsLog(tape, history) /\ IsChunk(chunk)
    /\ carried \in Levels \cup {NoAnchor}
    /\ BookHeld(history, tape, carried, book, Len(tape))
    /\ book.synced => Delivered
    /\ Delivered => AnchorHeld(history, tape, carried, anchor, Len(tape))
    /\ Len(tape) = 0 => Whole(chunk, history, 0)
    /\ ~ Delivered => Waiting(history, carried, chunk, Len(tape))
    /\ shown => Right(history, tape, carried, book.levels, Len(tape))

\* A book stood on the last row delivered, wherever it resumes from.
LEMMA RewindStands ==
    ASSUME ReplayInv
    PROVE  /\ IsBook(Rewind(book)) /\ Rewind(book).seq \in 0..Len(tape)
           /\ Len(tape) = 0 \/ (~ Delivered /\ ~ book.synced) => Rewind(book) = book
           /\ Len(tape) # 0 /\ Delivered =>
                /\ Rewind(book).synced /\ Rewind(book).seq = Len(tape)
                /\ Rewind(book).levels \in Levels
                /\ Right(history, tape, carried, Rewind(book).levels, Len(tape))
  <1> DEFINE n == Len(tape)
             run(k) == SubSeq(tape, k + 1, n)
             a == anchor.levels
             k == Min({anchor.from, n - 1})
             cheaper == Place(book) = None \/ Depth(a) + n - k < n - Place(book)
             r == Rewind(book)
  <1>1. /\ IsLog(tape, history) /\ n \in Nat /\ tape \in Seq(Rows)
        /\ IsBook(book) /\ book.seq \in 0..n
        /\ (book.synced => book.levels \in Levels)
        /\ (book.synced /\ book.seq # 0 => Right(history, tape, carried, book.levels, book.seq))
        /\ (book.synced => Delivered)
    BY DEF ReplayInv, BookHeld, IsLog
  <1>2. r = IF n = 0 \/ Place(book) = n THEN book
            ELSE IF Delivered /\ cheaper THEN Resume(book, a, run(k))
            ELSE IF Place(book) # None THEN Resume(book, NoAnchor, run(Place(book)))
            ELSE book
    BY Zenon DEF Rewind
  <1>3. Place(book) = IF book.synced THEN book.seq ELSE 0
    BY DEF Place, None
  <1>4. ASSUME NEW j \in 0..n, j # n
        PROVE  run(j) # <<>> /\ Last(run(j)).seq = n
    BY <1>1, <1>4, LastOfRun
  <1> HIDE DEF r
  <1> DEFINE Stands == /\ r.synced /\ r.seq = n /\ r.levels \in Levels
                       /\ Right(history, tape, carried, r.levels, n)
  <1>5. CASE n = 0 \/ Place(book) = n
    <2>1. r = book
      BY <1>2, <1>5
    <2>2. n # 0 => Stands
      BY <1>1, <1>3, <1>5, <2>1
    <2>3. QED
      BY <1>1, <2>1, <2>2 DEF r
  <1>6. CASE ~ (n = 0 \/ Place(book) = n) /\ Delivered /\ cheaper
    <2>1. r = Resume(book, a, run(k))
      BY <1>2, <1>6
    <2>2. AnchorHeld(history, tape, carried, anchor, n)
      BY <1>6 DEF ReplayInv
    <2>3. PICK s \in anchor.from..n : Right(history, tape, carried, a, s)
      BY <2>2 DEF AnchorHeld
    <2>4. a \in Levels /\ anchor.from \in 0..n
      BY <2>2 DEF AnchorHeld
    <2>5. k \in 0..n /\ k # n /\ k \in 0..s /\ s \in 0..n
      <3> DEFINE f == anchor.from
      <3>1. k = IF f <= n - 1 THEN f ELSE n - 1
        <4>1. f \in Int /\ n - 1 \in Int
          BY <1>1, <2>4
        <4>2. QED
          BY <4>1, MinOfPair
      <3>2. f \in 0..n /\ s \in f..n /\ n # 0
        BY <1>6, <2>4
      <3> HIDE DEF f, n, k
      <3>3. QED
        BY <1>1, <3>1, <3>2
    <2> HIDE DEF k, a
    <2>6. /\ IsBook(r) /\ r.synced = TRUE /\ r.levels = SetRows(a, run(k))
          /\ r.seq = IF run(k) = <<>> THEN 0 ELSE Last(run(k)).seq
      <3> DEFINE ran == run(k)
      <3>1. IsBook(book) /\ r = Resume(book, a, ran)
        BY <1>1, <2>1
      <3> HIDE DEF r, ran
      <3>2. IsBook(r) /\ r.synced = TRUE
        BY <2>4, <3>1, ResumeIs
      <3>3. r.levels = SetRows(a, ran) /\ r.seq = IF ran = <<>> THEN 0 ELSE Last(ran).seq
        BY <2>4, <3>1, ResumeIs
      <3> QED
        BY <3>2, <3>3 DEF ran
    <2>7. r.seq = n
      BY <1>4, <2>5, <2>6
    <2>8. n \in 0..n /\ s \in 0..n
      BY <1>1, <2>5
    <2>9. /\ SetRows(a, run(k)) \in Levels
          /\ Right(history, tape, carried, SetRows(a, run(k)), n)
      BY <1>1, <2>3, <2>4, <2>5, <2>8, RowsRight
    <2>10. Stands
      BY <2>6, <2>7, <2>9
    <2>11. QED
      BY <1>1, <1>6, <2>6, <2>7, <2>10 DEF r
  <1>7. CASE ~ (n = 0 \/ Place(book) = n) /\ ~ (Delivered /\ cheaper) /\ Place(book) # None
    <2> DEFINE p == Place(book)
    <2>1. book.synced /\ book.seq = p /\ p \in 0..n /\ p # n /\ p # 0
      BY <1>1, <1>3, <1>7 DEF None
    <2>2. r = Resume(book, NoAnchor, run(p))
      BY <1>2, <1>7
    <2>3. r = Apply(book, run(p))
      BY <2>2 DEF Resume
    <2> HIDE DEF p
    <2>4. /\ IsBook(r) /\ r.synced = book.synced /\ r.levels = SetRows(book.levels, run(p))
          /\ r.seq = IF run(p) = <<>> THEN book.seq ELSE Last(run(p)).seq
      BY <1>1, <2>3, ApplyIs
    <2>5. r.seq = n
      BY <1>4, <2>1, <2>4
    <2>6. n \in 0..n /\ p \in 0..p /\ p \in 0..n
      BY <1>1, <2>1
    <2>7. /\ SetRows(book.levels, run(p)) \in Levels
          /\ Right(history, tape, carried, SetRows(book.levels, run(p)), n)
      <3>1. Right(history, tape, carried, book.levels, p) /\ book.levels \in Levels
        BY <1>1, <2>1
      <3>2. QED
        BY <1>1, <2>6, <3>1, RowsRight
    <2>8. Stands
      BY <2>1, <2>4, <2>5, <2>7
    <2>9. QED
      BY <1>1, <1>7, <2>1, <2>4, <2>5, <2>8 DEF r
  <1>8. CASE ~ (n = 0 \/ Place(book) = n) /\ ~ (Delivered /\ cheaper) /\ Place(book) = None
    <2>1. r = book /\ ~ Delivered
      BY <1>2, <1>8
    <2>2. QED
      BY <1>1, <1>8, <2>1 DEF r
  <1>9. QED
    BY <1>5, <1>6, <1>7, <1>8

\* What a step leaves of a book: what it may publish is right as of row n.
StepHeld(books, rows, opened, b, n) ==
    /\ BookHeld(books, rows, opened, b, n)
    /\ b.synced => Right(books, rows, opened, b.levels, n)

\* A book right to the end of the tape, standing there or on a checkpoint, is held.
LEMMA HeldItself ==
    ASSUME NEW books, NEW rows, NEW opened, NEW n \in Nat, NEW b, IsBook(b), b.seq \in 0..n,
           b.synced => b.levels \in Levels /\ Right(books, rows, opened, b.levels, n)
                       /\ (b.seq = n \/ (b.seq = 0 /\ n # 0))
    PROVE  StepHeld(books, rows, opened, b, n)
  BY DEF BookHeld, StepHeld

\* One step of the book the sweep has rewound: what it publishes is right as of
\* the rows the step delivered, and once a checkpoint and a row were delivered
\* before, it publishes.
LEMMA ReplayStep ==
    ASSUME ReplayInv, NEW rows \in Seq(Rows), NEW a, NEW c, IsChunk(c), c.fresh = rows,
           IsLog(tape', history'), Agrees(history, history', Len(tape)),
           \A i \in 1..Len(tape) : tape'[i] = tape[i],
           Len(tape) \in 0..Len(tape'), rows = SubSeq(tape', Len(tape) + 1, Len(tape')),
           a = NoAnchor \/ (/\ Len(tape') = Len(tape) /\ a \in Levels
                            /\ a = history[Len(tape) + 1] \/ (a = carried /\ Len(tape) = 0)),
           Len(tape') = Len(tape) \/ Len(tape) = 0 \/ Delivered,
           Len(tape) = 0 /\ Len(tape') = 0 => c.cur = EmptyNet,
           ~ Delivered /\ Len(tape') = Len(tape) => Whole(c, history, 0) \/ Whole(c, history, Len(tape))
    PROVE  /\ StepHeld(history', tape', carried, StepBook(Stood(book), a, c), Len(tape'))
           /\ StepBook(Stood(book), a, c).synced => Delivered \/ a # NoAnchor
           /\ Delivered /\ Len(tape) # 0 => StepBook(Stood(book), a, c).synced
  <1> DEFINE m == Len(tape)
             n == Len(tape')
             b == Rewind(book)
             d == StepBook(b, a, c)
             Fits == /\ IsBook(d) /\ d.seq \in 0..n
                     /\ d.synced => /\ d.levels \in Levels /\ Right(history', tape', carried, d.levels, n)
                                    /\ (d.seq = n \/ (d.seq = 0 /\ n # 0))
             Good == /\ Fits
                     /\ d.synced => Delivered \/ a # NoAnchor
                     /\ Delivered /\ m # 0 => d.synced
  <1>1. /\ IsLog(tape, history) /\ m \in Nat /\ n \in Nat /\ m \in 0..n /\ tape' \in Seq(Rows)
        /\ (book.synced => Delivered)
        /\ BookHeld(history, tape, carried, book, m)
    BY DEF ReplayInv, IsLog
  <1>2. /\ IsBook(b) /\ b.seq \in 0..m
        /\ (m = 0 \/ (~ Delivered /\ ~ book.synced) => b = book)
        /\ (m # 0 /\ Delivered => /\ b.synced /\ b.seq = m /\ b.levels \in Levels
                                  /\ Right(history, tape, carried, b.levels, m))
    BY RewindStands
  <1>3. Stood(book) = b
    BY DEF Stood
  <1>4. /\ m = n => rows = <<>>
        /\ m # n => rows # <<>> /\ rows[1].seq = m + 1 /\ Last(rows).seq = n
    BY <1>1, LastOfRun
  <1>5. \A held : Right(history, tape, carried, held, m) => Right(history', tape', carried, held, m)
    <2>1. m \in 0..m
      BY <1>1
    <2>2. QED
      BY <1>1, <2>1, RightStays
  \* Folding the step's rows over a book right as of the last row before it.
  <1>6. ASSUME d = Apply(b, rows), b.synced, b.levels \in Levels,
               Right(history, tape, carried, b.levels, m), b.seq = m
        PROVE  Fits /\ d.synced
    <2>0. IsBook(b) /\ d = Apply(b, rows)
      BY <1>2, <1>6
    <2> HIDE DEF d, b
    <2>1. /\ IsBook(d) /\ d.synced = b.synced /\ d.levels = SetRows(b.levels, rows)
          /\ d.seq = IF rows = <<>> THEN b.seq ELSE Last(rows).seq
      BY <2>0, ApplyIs
    <2>2. d.seq = n
      BY <1>1, <1>4, <1>6, <2>1
    <2> DEFINE held == b.levels
    <2>3. Right(history', tape', carried, held, m) /\ held \in Levels
      BY <1>5, <1>6
    <2>4. n \in 0..n /\ m \in 0..m /\ n \in 0..Len(tape') /\ m \in 0..n
      BY <1>1
    <2> HIDE DEF held
    <2>5. /\ SetRows(held, SubSeq(tape', m + 1, n)) \in Levels
          /\ Right(history', tape', carried, SetRows(held, SubSeq(tape', m + 1, n)), n)
      BY <2>3, <2>4, RowsRight
    <2>6. d.levels \in Levels /\ Right(history', tape', carried, d.levels, n)
      BY <2>1, <2>5 DEF held
    <2>7. n \in 0..n
      BY <1>1
    <2>8. d.seq \in 0..n /\ d.synced = b.synced
      BY <2>1, <2>2, <2>7
    <2>9. b.synced
      BY <1>6
    <2>10. d.synced
      BY <2>8, <2>9, Zenon
    <2>11. QED
      BY <2>1, <2>2, <2>6, <2>8, <2>10
  <1>7. ASSUME m # 0 /\ Delivered
        PROVE  Good
    <2>1. b.synced /\ b.seq = m /\ b.levels \in Levels /\ Right(history, tape, carried, b.levels, m)
      BY <1>2, <1>7
    <2>2. Reach(b, c) = "fresh"
      BY <1>1, <1>4, <1>7, <2>1 DEF Reach, None
    <2>3. d = Apply(b, rows)
      BY <2>1, <2>2 DEF StepBook, StepBy
    <2>4. Fits /\ d.synced
      BY <1>6, <2>1, <2>3
    <2>5. QED
      BY <1>7, <2>4
  <1>8. ASSUME ~ (m # 0 /\ Delivered) /\ book.synced
        PROVE  Good
    <2>1. m = 0 /\ b = book
      BY <1>1, <1>2, <1>8
    <2>2. /\ IsBook(b) /\ b.synced /\ b.seq = m /\ b.levels \in Levels /\ Delivered
          /\ Right(history, tape, carried, b.levels, m)
      BY <1>1, <1>8, <2>1 DEF BookHeld
    <2>3. CASE Reach(b, c) = "fresh"
      <3>1. d = Apply(b, rows)
        BY <2>2, <2>3 DEF StepBook, StepBy
      <3>2. Fits /\ d.synced
        BY <1>6, <2>2, <3>1
      <3>3. QED
        BY <2>1, <2>2, <3>2
    <2>4. CASE Reach(b, c) # "fresh"
      <3>1. Reach(b, c) = "gone" /\ c.cur.first # None
        BY <2>1, <2>2, <2>4 DEF Reach, None
      <3>2. m # n
        BY <2>1, <3>1, EmptyNetIs
      <3>3. a = NoAnchor
        BY <3>2
      <3> DEFINE off == [b EXCEPT !.synced = FALSE]
      <3>4. d = Seeded(off, a, c)
        BY <2>2, <3>1 DEF StepBook, StepBy
      <3>5. off = [levels |-> b.levels, epoch |-> b.epoch, synced |-> FALSE, seq |-> b.seq]
        BY <2>2, OffIs
      <3> HIDE DEF off
      <3>6. IsBook(off) /\ off.synced = FALSE /\ off.seq = b.seq
        BY <3>5 DEF IsBook
      <3>7. d = off
        BY <3>3, <3>4 DEF Seeded
      <3> HIDE DEF d
      <3>8. IsBook(d) /\ ~ d.synced /\ d.seq \in 0..n
        BY <1>1, <2>1, <2>2, <3>6, <3>7
      <3>9. QED
        BY <2>1, <3>8
    <2>5. QED
      BY <2>3, <2>4
  <1>9. ASSUME ~ (m # 0 /\ Delivered) /\ ~ book.synced
        PROVE  Good
    <2>1. b = book
      BY <1>2, <1>9
    <2>2. IsBook(b) /\ ~ b.synced /\ b.seq \in 0..m
      BY <1>2, <1>9, <2>1
    <2>3. ~ (Delivered /\ m # 0)
      BY <1>9
    <2>4. CASE a = NoAnchor
      <3>1. IsBook(d) /\ ~ d.synced /\ d.seq = b.seq
        BY <2>2, <2>4, Unseeded
      <3> HIDE DEF d, b
      <3>2. IsBook(d) /\ ~ d.synced /\ d.seq \in 0..n
        BY <1>1, <2>2, <3>1
      <3>3. QED
        BY <2>3, <3>2
    <2>5. CASE a # NoAnchor /\ c.cur = EmptyNet
      <3>1. IsBook(d) /\ d.synced = TRUE /\ d.levels = a /\ d.seq = 0
        <4>1. d = StepBook(b, a, c)
          OBVIOUS
        <4>2. OutOfSync(b) /\ a # NoAnchor /\ c.cur = EmptyNet
          BY <2>2, <2>5 DEF OutOfSync
        <4> HIDE DEF d, b
        <4>3. SeededAt(StepBook(b, a, c), a)
          BY <4>2, SeedsFromNothing, Zenon
        <4>4. QED
          BY <4>1, <4>3, Zenon DEF SeededAt
      <3>2. m = n /\ a \in Levels /\ (a = history[m + 1] \/ (a = carried /\ m = 0))
        BY <2>5
      <3>3. Right(history, tape, carried, a, m)
        <4>1. CASE a = history[m + 1]
          BY <4>1, RightItself
        <4>2. CASE a = carried /\ m = 0
          <5>1. \A l \in Level : ~ Wrote(tape, l, 0, 0)
            BY DEF Wrote
          <5>2. QED
            BY <2>5, <4>2, <5>1 DEF Right
        <4>3. QED
          BY <3>2, <4>1, <4>2
      <3>4. Right(history', tape', carried, a, m)
        BY <1>5, <3>3
      <3> HIDE DEF d
      <3>5. Fits
        BY <1>1, <3>1, <3>2, <3>4
      <3>6. QED
        BY <2>3, <2>5, <3>5
    <2>6. CASE a # NoAnchor /\ c.cur # EmptyNet
      <3>1. m = n /\ m # 0 /\ a \in Levels /\ a = history[m + 1]
        BY <2>6
      <3>2. ~ Delivered
        BY <2>3, <3>1
      <3>3. Whole(c, history, m)
        BY <2>6, <3>1, <3>2 DEF Whole
      <3>4. rows = SubSeq(tape, m + 1, m) /\ m \in 0..m
        BY <1>1, <1>4, <3>1 DEF IsLog
      <3>5. StandsOn(history, b)
        BY <2>2 DEF StandsOn
      <3> HIDE DEF b
      <3>6. /\ IsBook(d) /\ d.seq \in 0..m
            /\ d.synced => d.seq = m /\ d.levels = history[m + 1]
        <4>1. c.fresh = SubSeq(tape, m + 1, Len(tape)) /\ m \in 0..Len(tape)
          BY <3>4
        <4>2. a = NoAnchor \/ (m = Len(tape) /\ a = history[m + 1])
          BY <3>1
        <4>3. ~ (b.synced /\ b.seq = 0) /\ ~ (b.synced /\ m = Len(tape))
          BY <2>2
        <4>4. /\ IsBook(StepBook(b, a, c)) /\ StepBook(b, a, c).seq \in 0..Len(tape)
              /\ StepBook(b, a, c).synced =>
                    /\ StepBook(b, a, c).seq = Len(tape)
                    /\ StepBook(b, a, c).levels = history[Len(tape) + 1]
          <5>1. /\ IsLog(tape, history) /\ m \in 0..Len(tape) /\ Whole(c, history, Len(tape))
                /\ IsBook(b) /\ b.seq \in 0..m /\ (b.synced /\ b.seq = 0 => m = 0)
                /\ (b.synced /\ m = Len(tape) => b.seq = m)
            BY <1>1, <2>2, <3>3, <4>1
          <5> HIDE DEF m
          <5>2. QED
            BY <3>5, <4>1, <4>2, <5>1, StepIsTruthful
        <4>5. d = StepBook(b, a, c) /\ m = Len(tape)
          OBVIOUS
        <4> HIDE DEF d, m
        <4>6. QED
          BY <4>4, <4>5, Zenon
      <3>7. Right(history', tape', carried, history[m + 1], m)
        BY <1>5, RightItself
      <3>8. history[m + 1] \in Levels
        BY <3>1
      <3> HIDE DEF d
      <3>9. Fits
        BY <1>1, <3>1, <3>6, <3>7, <3>8
      <3>10. QED
        BY <2>3, <2>6, <3>9
    <2>7. QED
      BY <2>4, <2>5, <2>6
  <1>10. Good
    BY <1>7, <1>8, <1>9
  <1> HIDE DEF d, b
  <1>11. StepHeld(history', tape', carried, d, n)
    BY <1>1, <1>10, HeldItself
  <1>12. d = StepBook(Stood(book), a, c)
    BY <1>3, Zenon DEF d
  <1>13. QED
    BY <1>10, <1>11, <1>12, Zenon

\* A step without rows leaves the nets as they are.
LEMMA AdvanceNothing ==
    ASSUME NEW c, NEW books, NEW k, Whole(c, books, k)
    PROVE  Whole(Advance(c, <<>>), books, k)
  <1> DEFINE d == [c EXCEPT !.fresh = <<>>]
  <1>1. Advance(c, <<>>) = Amid(c, <<>>, <<>>) /\ Amid(c, <<>>, <<>>) = d
    BY AdvanceGrows
  <1>2. IsChunk(d) /\ d.cur = c.cur /\ d.prev = c.prev
    BY DEF Whole, IsChunk
  <1> HIDE DEF d
  <1>3. Whole(d, books, k)
    BY <1>2 DEF Whole
  <1>4. Advance(c, <<>>) = d
    BY <1>1, Zenon
  <1>5. QED
    BY <1>3, <1>4, Zenon

\* One sweep of the replay, whatever the past hands over with it.
LEMMA SweepHolds ==
    ASSUME ReplayInv, NEW rows \in Seq(Rows), NEW a, NEW opens \in BOOLEAN, ReplaySweep(rows, a, opens),
           carried' = carried, IsLog(tape', history'), Agrees(history, history', Len(tape)),
           \A i \in 1..Len(tape) : tape'[i] = tape[i],
           Len(tape) \in 0..Len(tape'), rows = SubSeq(tape', Len(tape) + 1, Len(tape')),
           a = NoAnchor \/ (/\ Len(tape') = Len(tape) /\ a \in Levels
                            /\ a = history[Len(tape) + 1] \/ (a = carried /\ Len(tape) = 0)),
           Len(tape') # Len(tape) => Delivered \/ (carried = NoAnchor /\ Len(tape) = 0),
           a = NoAnchor => anchor' = anchor,
           a # NoAnchor => Delivered' /\ AnchorHeld(history', tape', carried, anchor', Len(tape'))
    PROVE  ReplayInv' /\ (open' /\ Delivered /\ Len(tape) # 0 => shown')
  <1> DEFINE m == Len(tape)
             n == Len(tape')
             c == chunk'
             d == StepBook(Stood(book), a, chunk')
  <1>1. /\ c = IF opens \/ ~ sleeps THEN Advance(chunk, rows) ELSE chunk
        /\ open' = opens
        /\ book' = IF opens THEN d ELSE book
        /\ shown' = (opens /\ book'.synced)
    BY DEF ReplaySweep
  <1>2. /\ IsLog(tape, history) /\ m \in Nat /\ n \in Nat /\ m \in 0..n
        /\ IsChunk(chunk) /\ carried \in Levels \cup {NoAnchor}
        /\ BookHeld(history, tape, carried, book, m)
        /\ (book.synced => Delivered)
        /\ (Delivered => AnchorHeld(history, tape, carried, anchor, m))
        /\ (m = 0 => Whole(chunk, history, 0))
        /\ (~ Delivered => Waiting(history, carried, chunk, m))
    BY DEF ReplayInv, IsLog
  <1>3. Delivered' <=> Delivered \/ a # NoAnchor
    BY DEF Delivered
  \* The chunk.
  <1>4. IsChunk(c) /\ (opens => c.fresh = rows)
    <2>1. IsChunk(Advance(chunk, rows)) /\ Advance(chunk, rows).fresh = rows
      BY <1>2, AdvanceIs
    <2>2. QED
      BY <1>1, <1>2, <2>1
  <1>5. n = m => rows = <<>>
    BY <1>2 DEF IsLog
  <1>6. ASSUME n = m, NEW books, NEW j, Whole(chunk, books, j)
        PROVE  Whole(c, books, j)
    <2>1. Whole(Advance(chunk, <<>>), books, j)
      BY <1>6, AdvanceNothing
    <2>2. QED
      BY <1>1, <1>5, <1>6, <2>1
  <1>7. Whole(chunk, history, 0) => Whole(chunk, history', 0)
    BY <1>2 DEF Whole
  <1>8. Whole(chunk, history, m) => Whole(chunk, history', m)
    BY <1>2, WholeStays
  <1>9. n = 0 => Whole(c, history, 0) /\ Whole(c, history', 0)
    BY <1>2, <1>6, <1>7
  <1>10. ~ Delivered /\ n = m => Whole(c, history, 0) \/ Whole(c, history, m)
    BY <1>2, <1>6 DEF Waiting
  <1>11. ~ Delivered' => Waiting(history', carried, c, n)
    <2>1. SUFFICES ASSUME ~ Delivered'
                   PROVE  Waiting(history', carried, c, n)
      OBVIOUS
    <2>2. Waiting(history, carried, chunk, m) /\ ~ Delivered
      BY <1>2, <1>3, <2>1
    <2>3. n # 0 => carried = NoAnchor
      BY <1>2, <2>2 DEF Waiting
    <2>4. CASE n = m
      <3>1. Whole(chunk, history', 0) \/ Whole(chunk, history', m)
        BY <1>7, <1>8, <2>2 DEF Waiting
      <3>2. Whole(c, history', 0) \/ Whole(c, history', m)
        BY <1>6, <2>4, <3>1
      <3>3. QED
        BY <2>3, <2>4, <3>2 DEF Waiting
    <2>5. CASE n # m
      <3>1. m = 0 /\ Whole(chunk, history', m)
        BY <1>2, <1>7, <2>2, <2>5
      <3>2. Whole(Advance(chunk, SubSeq(tape', m + 1, n)), history', n)
        BY <1>2, <3>1, WholeAdvances
      <3>3. Whole(c, history', 0) \/ Whole(c, history', n)
        BY <1>1, <3>1, <3>2
      <3>4. QED
        BY <2>3, <3>3 DEF Waiting
    <2>6. QED
      BY <2>4, <2>5
  \* The checkpoint.
  <1>12. \A s \in 0..m : \A held :
           Right(history, tape, carried, held, s) => Right(history', tape', carried, held, s)
    BY <1>2, RightStays
  <1>13. Delivered' => AnchorHeld(history', tape', carried, anchor', n)
    <2>1. SUFFICES ASSUME Delivered, a = NoAnchor
                   PROVE  AnchorHeld(history', tape', carried, anchor', n)
      BY <1>3
    <2>2. anchor' = anchor /\ anchor.levels \in Levels /\ anchor.from \in 0..m
      BY <1>2, <2>1 DEF AnchorHeld
    <2>3. PICK s \in anchor.from..m : Right(history, tape, carried, anchor.levels, s)
      BY <1>2, <2>1 DEF AnchorHeld
    <2>4. s \in 0..m /\ s \in anchor.from..n /\ anchor.from \in 0..n
      BY <1>2, <2>2
    <2>5. Right(history', tape', carried, anchor.levels, s)
      <3> HIDE DEF m, n
      <3>1. QED
        BY <1>12, <2>3, <2>4, Zenon
    <2>6. AnchorHeld(history', tape', carried, anchor, n)
      <3> HIDE DEF n
      <3>1. QED
        BY <2>2, <2>4, <2>5 DEF AnchorHeld
    <2>7. QED
      BY <2>2, <2>6
  \* The book.
  <1> DEFINE Held == /\ BookHeld(history', tape', carried, book', n)
                     /\ (book'.synced => Delivered')
                     /\ (shown' => Right(history', tape', carried, book'.levels, n))
                     /\ (open' /\ Delivered /\ m # 0 => shown')
  <1>14. ASSUME opens
         PROVE  Held
    <2>1. n = m \/ m = 0 \/ Delivered
      OBVIOUS
    <2>2. m = 0 /\ n = 0 => c.cur = EmptyNet
      BY <1>9 DEF Whole
    <2>3. /\ StepHeld(history', tape', carried, d, n)
          /\ d.synced => Delivered \/ a # NoAnchor
          /\ Delivered /\ m # 0 => d.synced
      BY <1>4, <1>10, <1>14, <2>1, <2>2, ReplayStep
    <2>4. book' = d /\ (shown' => d.synced) /\ (d.synced => shown')
      BY <1>1, <1>14
    <2> HIDE DEF d, m, n
    <2>5. QED
      BY <1>1, <1>3, <2>3, <2>4 DEF StepHeld
  <1>15. ASSUME ~ opens
         PROVE  Held
    <2>1. book' = book /\ shown' = FALSE /\ open' = FALSE
      BY <1>1, <1>15
    <2>2. /\ IsBook(book) /\ book.seq \in 0..m /\ book.seq \in 0..n
          /\ book.synced => book.levels \in Levels
          /\ book.synced /\ (book.seq # 0 \/ n = 0) =>
               Right(history, tape, carried, book.levels, book.seq)
      BY <1>2 DEF BookHeld
    <2>3. BookHeld(history', tape', carried, book, n)
      <3>1. ASSUME book.synced /\ (book.seq # 0 \/ n = 0)
            PROVE  Right(history', tape', carried, book.levels, book.seq)
        <4>1. book.seq \in 0..m /\ Right(history, tape, carried, book.levels, book.seq)
          BY <2>2, <3>1
        <4> HIDE DEF m, n
        <4>2. QED
          BY <1>12, <4>1, Zenon
      <3> HIDE DEF n
      <3>2. QED
        BY <2>2, <3>1 DEF BookHeld
    <2>4. BookHeld(history', tape', carried, book', n)
      BY <2>1, <2>3
    <2>5. book'.synced => Delivered'
      BY <1>2, <1>3, <2>1
    <2>6. QED
      BY <2>1, <2>4, <2>5
  <1>16. Held
    BY <1>14, <1>15, Zenon
  <1>17. QED
    BY <1>2, <1>4, <1>9, <1>11, <1>13, <1>16 DEF ReplayInv

\* Right as of the last row: wrong where unread at most.
LEMMA RightAgrees ==
    ASSUME IsLog(tape, history), NEW held,
           Right(history, tape, carried, held, Len(tape))
    PROVE  AgreesBut(held, Unread)
  <1>1. Truth = history[Len(tape) + 1] /\ tape \in Seq(Rows) /\ Len(tape) \in Nat
    BY DEF IsLog, Truth, Last
  <1>2. \A i \in DOMAIN tape : i \in (0 + 1)..Len(tape)
    BY <1>1
  <1>3. QED
    BY <1>1, <1>2 DEF AgreesBut, Unread, Right, Wrote

\* A range opened, with a checkpoint carried into it or none, keeps the invariant.
LEMMA ReplayStarts ==
    ASSUME ReplayInit
    PROVE  ReplayInv
  <1>1. /\ IsLog(tape, history) /\ Whole(chunk, history, 0)
        /\ IsBook(book) /\ book.seq = 0 /\ ~ shown
    BY GatedBookConstants, Opens DEF ReplayInit
  <1>2. Len(tape) = 0 /\ ~ book.synced /\ ~ Delivered /\ carried \in Levels \cup {NoAnchor}
    BY BookReplayConstants DEF ReplayInit, Init, EmptyBook, Delivered
  <1>3. ~ shown /\ IsLog(tape, history) /\ Whole(chunk, history, 0) /\ IsBook(book) /\ book.seq \in 0..0
    BY <1>1, <1>2
  <1>4. QED
    BY <1>2, <1>3 DEF ReplayInv, BookHeld, Waiting, Whole

\* A delivered checkpoint is one, and is not the one nothing was delivered of.
LEMMA DeliveredIs ==
    ASSUME NEW held \in Levels, NEW from
    PROVE  /\ [levels |-> held, from |-> from] # Unanchored
           /\ [levels |-> held, from |-> from].levels = held
           /\ [levels |-> held, from |-> from].from = from
  BY IsAnchor DEF Unanchored

\* Every step of the replay keeps it, and answers what it opens.
LEMMA ReplayActs ==
    ASSUME ReplayInv, [ReplayNext]_replayVars
    PROVE  ReplayInv' /\ (open' /\ Delivered /\ tape # <<>> => shown' \/ UNCHANGED replayVars)
  <1> DEFINE m == Len(tape)
             Good == ReplayInv' /\ (open' /\ Delivered /\ m # 0 => shown')
  <1>1. /\ IsLog(tape, history) /\ m \in Nat /\ tape \in Seq(Rows) /\ history \in Seq(Levels)
        /\ Len(history) = m + 1 /\ Truth = history[m + 1] /\ Truth \in Levels
        /\ carried \in Levels \cup {NoAnchor}
    BY DEF ReplayInv, IsLog, Truth, Last
  <1>2. tape # <<>> <=> m # 0
    BY <1>1
  \* The recording where it stays.
  <1>3. ASSUME tape' = tape, history' = history
        PROVE  /\ IsLog(tape', history') /\ Agrees(history, history', m)
               /\ \A i \in 1..m : tape'[i] = tape[i]
               /\ Len(tape') = m /\ m \in 0..Len(tape') /\ <<>> = SubSeq(tape', m + 1, Len(tape'))
    BY <1>1, <1>3 DEF Agrees
  <1>4. <<>> \in Seq(Rows)
    OBVIOUS
  <1>5. ASSUME NEW opens \in BOOLEAN, NEW k \in 1..MaxRun, NEW run \in RunsOf(k),
               ReplayRows(NextRows(run), opens)
        PROVE  Good
    <2>1. /\ Delivered \/ (carried = NoAnchor /\ m = 0)
          /\ ReplaySweep(NextRows(run), NoAnchor, opens) /\ carried' = carried /\ anchor' = anchor
          /\ Record(NextRows(run))
      BY <1>2, <1>5 DEF ReplayRows
    <2>2. k \in Nat
      BY GatedBookConstants DEF GatedBookConstants
    <2>3. NextRows(run) \in Seq(Rows)
      BY <1>1, <2>2, RunRows, GatedBookConstants
    <2>4. /\ IsLog(tape', history') /\ Agrees(history, history', m)
          /\ m \in 0..Len(tape') /\ NextRows(run) = SubSeq(tape', m + 1, Len(tape'))
          /\ \A i \in 1..m : tape'[i] = tape[i]
      BY <1>1, <2>1, <2>2, Records, GatedBookConstants
    <2> DEFINE rows == NextRows(run)
    <2> HIDE DEF rows
    <2>5. /\ ReplaySweep(rows, NoAnchor, opens) /\ rows \in Seq(Rows)
          /\ rows = SubSeq(tape', m + 1, Len(tape'))
      BY <2>1, <2>3, <2>4 DEF rows
    <2>6. QED
      BY <2>1, <2>4, <2>5, SweepHolds
  <1>6. ASSUME NEW opens \in BOOLEAN, ReplayCarried(opens)
        PROVE  Good
    <2>1. /\ carried # NoAnchor /\ ~ Delivered /\ ReplaySweep(<<>>, carried, opens)
          /\ anchor' = [levels |-> carried, from |-> 0]
          /\ tape' = tape /\ history' = history /\ carried' = carried
      BY <1>6 DEF ReplayCarried
    <2>2. m = 0 /\ carried \in Levels
      BY <1>1, <2>1 DEF ReplayInv, Waiting
    <2>3. Delivered' /\ anchor'.levels = carried /\ anchor'.from = 0
      BY <2>1, <2>2, DeliveredIs DEF Delivered
    <2>4. Right(history', tape', carried, carried, 0)
      <3>1. \A l : ~ Wrote(tape', l, 0, 0)
        BY DEF Wrote
      <3>2. history'[0 + 1] = history'[1]
        OBVIOUS
      <3>3. QED
        BY <2>1, <3>1, <3>2 DEF Right
    <2>5. AnchorHeld(history', tape', carried, anchor', Len(tape'))
      <3>1. 0 \in 0..0 /\ Len(tape') = 0
        BY <2>1, <2>2
      <3>2. QED
        BY <2>2, <2>3, <2>4, <3>1 DEF AnchorHeld
    <2>6. QED
      BY <1>3, <1>4, <2>1, <2>2, <2>3, <2>5, SweepHolds
  <1>7. ASSUME NEW opens \in BOOLEAN, NEW k \in 0..Min({MaxRun, m}), ReplayAnchor(k, opens)
        PROVE  Good
    <2>1. /\ ReplaySweep(<<>>, Truth, opens)
          /\ anchor' = [levels |-> Truth, from |-> m - k]
          /\ tape' = tape /\ history' = history /\ carried' = carried
      BY <1>7 DEF ReplayAnchor
    <2>2. m - k \in 0..m
      <3>1. MaxRun \in Int
        BY GatedBookConstants DEF GatedBookConstants
      <3>2. Min({MaxRun, m}) = IF MaxRun <= m THEN MaxRun ELSE m
        BY <1>1, <3>1, MinOfPair
      <3>3. QED
        BY <1>1, <3>1, <3>2
    <2>3. Delivered' /\ anchor'.levels = Truth /\ anchor'.from = m - k
      BY <1>1, <2>1, DeliveredIs DEF Delivered
    <2>4. AnchorHeld(history', tape', carried, anchor', Len(tape'))
      <3>1. m \in (m - k)..m /\ Len(tape') = m
        BY <1>1, <2>1, <2>2
      <3>2. Right(history', tape', carried, Truth, m)
        BY <1>1, <2>1, RightItself
      <3> HIDE DEF m
      <3>3. QED
        BY <1>1, <2>2, <2>3, <3>1, <3>2 DEF AnchorHeld
    <2>5. Truth \in Levels /\ Truth = history[m + 1] /\ Truth # NoAnchor
      BY <1>1, IsAnchor
    <2>6. QED
      BY <1>3, <1>4, <2>1, <2>3, <2>4, <2>5, SweepHolds
  <1>8. ASSUME NEW opens \in BOOLEAN, ReplayOther(opens)
        PROVE  Good
    <2>1. /\ ReplaySweep(<<>>, NoAnchor, opens)
          /\ tape' = tape /\ history' = history /\ carried' = carried /\ anchor' = anchor
      BY <1>8 DEF ReplayOther
    <2>2. QED
      BY <1>3, <1>4, <2>1, SweepHolds
  <1>9. ASSUME ReplayNext
        PROVE  Good
    BY <1>5, <1>6, <1>7, <1>8, <1>9 DEF ReplayNext
  <1>10. ASSUME UNCHANGED replayVars
         PROVE  ReplayInv'
    BY <1>10 DEF ReplayInv, replayVars, vars, IsLog, IsChunk, BookHeld, IsBook, Delivered, AnchorHeld,
                 Whole, Waiting, Right
  <1>11. QED
    BY <1>2, <1>9, <1>10

\* read.rs and sync/mod.rs: a book that publishes itself in a replay is the
\* recorder's, but for the levels written between the checkpoint the range opened on
\* and its start, and by no row since.
THEOREM ReplayIsTheRecorders == ReplaySpec => []WrongOnlyWhereUnread
  <1>1. ReplayInit => ReplayInv
    BY ReplayStarts
  <1>2. ReplayInv /\ [ReplayNext]_replayVars => ReplayInv'
    BY ReplayActs
  <1>3. ReplayInv => WrongOnlyWhereUnread
    BY RightAgrees DEF ReplayInv, WrongOnlyWhereUnread
  <1>4. QED
    BY <1>1, <1>2, <1>3, PTL DEF ReplaySpec

\* The tripwire of Past::rewind never trips: wherever a book resumes from, its own
\* cursor or the newest checkpoint, it stands on the last row delivered.
THEOREM RewindsToTheLastRow == ReplaySpec => []StandsOnTheLastRow
  <1>1. ReplayInit => ReplayInv
    BY ReplayStarts
  <1>2. ReplayInv /\ [ReplayNext]_replayVars => ReplayInv'
    BY ReplayActs
  <1>3. ReplayInv => StandsOnTheLastRow
    <2>1. SUFFICES ASSUME ReplayInv, tape # <<>>, Delivered \/ Place(book) # None
                   PROVE  /\ Rewind(book).seq = Len(tape)
                          /\ AgreesBut(Rewind(book).levels, Unread)
      BY DEF StandsOnTheLastRow
    <2>2. Len(tape) # 0 /\ Delivered
      BY <2>1 DEF ReplayInv, IsLog, Place
    <2>3. /\ Rewind(book).seq = Len(tape)
          /\ Right(history, tape, carried, Rewind(book).levels, Len(tape))
      BY <2>1, <2>2, RewindStands
    <2>4. IsLog(tape, history)
      BY <2>1 DEF ReplayInv
    <2>5. QED
      BY <2>3, <2>4, RightAgrees
  <1>4. QED
    BY <1>1, <1>2, <1>3, PTL DEF ReplaySpec

\* lib.rs, the sweep of an anchored book: however long it slept, a book demanded
\* after a checkpoint and a row were delivered publishes itself on that tick.
THEOREM DemandedIsAnswered == ReplaySpec => AnswersOnTheTick
  <1>1. ReplayInit => ReplayInv
    BY ReplayStarts
  <1>2. ReplayInv /\ [ReplayNext]_replayVars => ReplayInv'
    BY ReplayActs
  <1>3. ReplayInv /\ [ReplayNext]_replayVars
          => [open' /\ Delivered /\ tape # <<>> => shown']_replayVars
    BY ReplayActs
  <1>4. QED
    BY <1>1, <1>2, <1>3, PTL DEF ReplaySpec, AnswersOnTheTick

-----------------------------------------------------------------------------
(* How far a gated book is carried.                                        *)

\* Rows are recorded in the order of their periods.
Ascending(rows) == \A i \in 1..Len(rows) : i > 1 => rows[i - 1].period <= rows[i].period

\* A level a net does not hold, none of its rows wrote.
Reads(net, rows, n) ==
    \A l \in Level : net.levels[l] = Absent => \A i \in net.first..n : rows[i].level # l

\* What a chunk's nets are of, after n rows: the period of the last of them and the
\* one before that has rows, each from its first row on.
OnGrid(c, rows, n) ==
    IF n = 0 THEN c.base = -1
    ELSE /\ c.base = rows[n].period /\ Reads(c.cur, rows, n)
         /\ \A i \in c.cur.first..n : rows[i].period = c.base
         /\ c.cur.first > 1 =>
              /\ c.prev.first # None /\ Reads(c.prev, rows, c.cur.first - 1)
              /\ \A i \in c.prev.first..(c.cur.first - 1) :
                   rows[i].period = rows[c.cur.first - 1].period
              /\ rows[c.cur.first - 1].period < c.base
              /\ c.prev.first > 1 =>
                   rows[c.prev.first - 1].period < rows[c.cur.first - 1].period

\* One row folded into a net is one it reads.
LEMMA FoldRowReads ==
    ASSUME NEW net, IsNet(net), NEW rows, NEW n \in Nat, rows[n + 1] \in Rows,
           rows[n + 1].seq = n + 1, net.first = None \/ (net.first \in 1..n /\ Reads(net, rows, n))
    PROVE  Reads(FoldRow(net, rows[n + 1]), rows, n + 1)
  <1> DEFINE r == rows[n + 1]
             d == FoldRow(net, r)
  <1>1. /\ d.levels = [net.levels EXCEPT ![r.level] = r.qty]
        /\ d.first = IF net.first = None THEN n + 1 ELSE net.first
    BY FoldRowIs
  <1>2. net.levels \in Nets /\ r.level \in Level /\ r.qty # Absent
    BY BookConstants DEF IsNet, Rows, Absent
  <1>3. ASSUME NEW l \in Level, d.levels[l] = Absent, NEW i \in d.first..(n + 1)
        PROVE  rows[i].level # l
    <2>1. l # r.level /\ net.levels[l] = Absent
      <3> HIDE DEF d, r
      <3> QED
        BY <1>1, <1>2, <1>3 DEF Nets
    <2>2. CASE i = n + 1
      BY <2>1, <2>2
    <2>3. CASE i # n + 1
      <3>1. net.first # None /\ i \in net.first..n
        <4> HIDE DEF d
        <4> QED
          BY <1>1, <1>3, <2>3
      <3> QED
        BY <2>1, <3>1 DEF Reads
    <2> QED
      BY <2>2, <2>3
  <1> QED
    BY <1>3 DEF Reads

\* BookChunk::advance tumbles exactly where the period turns.
LEMMA GridGrows ==
    ASSUME NEW rows, NEW books, IsLog(rows, books), Ascending(rows),
           NEW n \in Nat, n < Len(rows), NEW c, Whole(c, books, n), OnGrid(c, rows, n)
    PROVE  OnGrid(FoldInto(0, c, rows[n + 1]), rows, n + 1)
  <1> DEFINE r == rows[n + 1]
             turns == c.base # r.period
             d == FoldInto(0, c, r)
  <1> SUFFICES OnGrid(d, rows, n + 1)
    OBVIOUS
  <1>0. Len(rows) \in Nat /\ \A i \in 1..(n + 1) : rows[i] \in Rows /\ rows[i].seq = i
    <2>1. Len(rows) \in Nat /\ \A i \in 1..Len(rows) : rows[i] \in Rows /\ rows[i].seq = i
      BY DEF IsLog
    <2>2. \A i \in 1..(n + 1) : i \in 1..Len(rows)
      BY <2>1
    <2>3. QED
      BY <2>1, <2>2
  <1>1. r \in Rows /\ r.seq = n + 1 /\ \A i \in 1..(n + 1) : rows[i].period \in Nat
    BY <1>0 DEF Rows
  <1>2. n # 0 => rows[n].period <= r.period
    BY <1>0 DEF Ascending
  <1>3. IsChunk(c)
    BY DEF Whole
  <1> HIDE DEF r
  <1>4. /\ d.cur = FoldRow(IF turns THEN EmptyNet ELSE c.cur, r)
        /\ d.prev = IF turns THEN c.cur ELSE c.prev
    BY <1>1, <1>3, FoldIntoIs
  <1>5. d.base = r.period
    BY <1>3 DEF FoldInto, Tumble, IsChunk
  <1> HIDE DEF d
  <1>8. Reads(d.cur, rows, n + 1)
    <2> DEFINE net == IF turns THEN EmptyNet ELSE c.cur
    <2>1. IsNet(net)
      BY <1>3, EmptyNetIs DEF IsChunk
    <2>2. CASE net.first = None
      BY <1>1, <1>4, <2>1, <2>2, FoldRowReads DEF r
    <2>3. CASE net.first # None
      <3>1. ~ turns /\ net = c.cur
        BY <2>3, EmptyNetIs
      <3>2. n # 0
        BY <2>3, <3>1, EmptyNetIs DEF Whole
      <3>3. net.first \in 1..n /\ Reads(net, rows, n)
        BY <3>1, <3>2 DEF Whole, EndsAt, OnGrid
      <3> QED
        BY <1>1, <1>4, <2>1, <3>3, FoldRowReads DEF r
    <2> QED
      BY <2>2, <2>3
  <1>6. CASE n = 0 \/ turns
    <2>1. turns
      BY <1>1, <1>6 DEF OnGrid, r
    <2>2. d.cur.first = n + 1 /\ d.prev = c.cur
      <3>1. d.cur = FoldRow(EmptyNet, r) /\ d.prev = c.cur
        BY <1>4, <2>1
      <3>2. IsNet(EmptyNet) /\ EmptyNet.first = None
        BY EmptyNetIs
      <3>3. FoldRow(EmptyNet, r).first = r.seq
        BY <1>1, <3>2, FoldRowIs
      <3> QED
        BY <1>1, <3>1, <3>3
    <2>3. CASE n = 0
      BY <1>1, <1>5, <1>8, <2>2, <2>3 DEF OnGrid, r
    <2>4. CASE n # 0
      <3>1. /\ c.cur.first \in 1..n
            /\ c.base = rows[n].period /\ \A i \in c.cur.first..n : rows[i].period = c.base
            /\ c.cur.first > 1 => rows[c.cur.first - 1].period < c.base
            /\ Reads(c.cur, rows, n)
        BY <2>4 DEF Whole, EndsAt, OnGrid
      <3>2. rows[n].period < r.period
        BY <1>1, <1>2, <2>1, <2>4, <3>1 DEF r
      <3>3. d.base = rows[n + 1].period /\ \A i \in (n + 1)..(n + 1) : rows[i].period = d.base
        BY <1>5 DEF r
      <3>4. /\ d.prev.first # None /\ Reads(d.prev, rows, n)
            /\ \A i \in d.prev.first..n : rows[i].period = rows[n].period
            /\ d.prev.first > 1 => rows[d.prev.first - 1].period < rows[n].period
        BY <2>2, <3>1 DEF None
      <3>5. d.cur.first - 1 = n /\ rows[n].period < d.base
        BY <1>5, <2>2, <3>2
      <3> QED
        BY <1>8, <2>2, <3>3, <3>4, <3>5 DEF OnGrid
    <2> QED
      BY <2>3, <2>4
  <1>7. CASE n # 0 /\ ~turns
    <2>1. EndsAt(books, c.cur, n) /\ IsNet(c.cur)
      BY <1>3, <1>7 DEF Whole, IsChunk
    <2>2. d.cur = FoldRow(c.cur, r) /\ d.prev = c.prev
      BY <1>4, <1>7
    <2>3. d.cur.first = c.cur.first /\ c.cur.first \in 1..n
      <3>1. c.cur.first \in 1..n /\ c.cur.first # None
        BY <2>1 DEF EndsAt, None
      <3>2. FoldRow(c.cur, r).first = c.cur.first
        BY <1>1, <2>1, <3>1, FoldRowIs
      <3> QED
        BY <2>2, <3>1, <3>2
    <2>5. /\ \A i \in c.cur.first..n : rows[i].period = c.base
          /\ c.cur.first > 1 =>
               /\ c.prev.first # None /\ Reads(c.prev, rows, c.cur.first - 1)
               /\ \A i \in c.prev.first..(c.cur.first - 1) :
                    rows[i].period = rows[c.cur.first - 1].period
               /\ rows[c.cur.first - 1].period < c.base
               /\ c.prev.first > 1 =>
                    rows[c.prev.first - 1].period < rows[c.cur.first - 1].period
      <3>1. n # 0 /\ OnGrid(c, rows, n)
        BY <1>7
      <3> HIDE <1>7, <1>8
      <3> QED
        BY <3>1, Zenon DEF OnGrid
    <2>4. /\ d.base = c.base /\ c.base = rows[n + 1].period
          /\ \A i \in c.cur.first..(n + 1) : rows[i].period = c.base
      BY <1>5, <1>7, <2>3, <2>5 DEF r
    <2>6. d.prev = c.prev /\ d.cur.first = c.cur.first /\ d.base = c.base /\ d.base = rows[n + 1].period
      BY <2>2, <2>3, <2>4
    <2>7. n + 1 # 0
      BY <1>1
    <2> QED
      BY <1>8, <2>4, <2>5, <2>6, <2>7 DEF OnGrid
  <1> QED
    BY <1>6, <1>7

\* The chunk after one row more of its run.
LEMMA AmidGrows ==
    ASSUME NEW c, NEW fresh, NEW some \in Seq(Rows), NEW r \in Rows
    PROVE  Amid(c, fresh, Append(some, r)) = FoldInto(0, Amid(c, fresh, some), r)
  <1> DEFINE base == [c EXCEPT !.fresh = fresh]
  <1> HIDE DEF base
  <1>1. Chunking!Fold(0, base, Append(some, r)) = FoldInto(0, Chunking!Fold(0, base, some), r)
    BY Chunking!FoldAppend
  <1> QED
    BY <1>1 DEF Amid, base

\* A whole run leaves it on the grid.
LEMMA GridAdvances ==
    ASSUME NEW rows, NEW books, IsLog(rows, books), Ascending(rows), NEW n \in 0..Len(rows),
           NEW c, Whole(c, books, n), OnGrid(c, rows, n)
    PROVE  OnGrid(Advance(c, SubSeq(rows, n + 1, Len(rows))), rows, Len(rows))
  <1> DEFINE run == SubSeq(rows, n + 1, Len(rows))
             At(some) == Amid(c, run, some)
             Good(d, i) == Whole(d, books, i) /\ OnGrid(d, rows, i)
             T == {k \in Nat : n + k <= Len(rows) => Good(At(SubSeq(rows, n + 1, n + k)), n + k)}
  <1>0. Len(rows) \in Nat /\ rows \in Seq(Rows)
    BY DEF IsLog
  <1>1. /\ Advance(c, run) = At(run) /\ At(<<>>) = [c EXCEPT !.fresh = run]
        /\ \A some \in Seq(Rows), r \in Rows : At(Append(some, r)) = FoldInto(0, At(some), r)
    <2> HIDE DEF run
    <2>1. Advance(c, run) = At(run) /\ At(<<>>) = [c EXCEPT !.fresh = run]
      BY AdvanceGrows
    <2> HIDE DEF At
    <2>2. ASSUME NEW some \in Seq(Rows), NEW r \in Rows
          PROVE  At(Append(some, r)) = FoldInto(0, At(some), r)
      BY AmidGrows, Zenon DEF At
    <2> QED
      BY <2>1, <2>2
  <1>2. Good([c EXCEPT !.fresh = run], n)
    <2> DEFINE d == [c EXCEPT !.fresh = run]
    <2> HIDE DEF run
    <2>1. IsChunk(d) /\ d.cur = c.cur /\ d.prev = c.prev /\ d.base = c.base
      BY DEF Whole, IsChunk
    <2> HIDE DEF d
    <2>2. Whole(d, books, n)
      BY <2>1 DEF Whole
    <2>3. OnGrid(d, rows, n)
      BY <2>1 DEF OnGrid
    <2> QED
      BY <2>2, <2>3 DEF d
  <1> HIDE DEF At
  <1>3. 0 \in T
    <2>1. SubSeq(rows, n + 1, n + 0) = <<>> /\ n + 0 = n
      BY <1>0
    <2> HIDE DEF Good
    <2> QED
      BY <1>1, <1>2, <2>1
  <1>4. ASSUME NEW k \in Nat, k \in T
        PROVE  k + 1 \in T
    <2> DEFINE i == n + k
               d == At(SubSeq(rows, n + 1, i))
               e == At(SubSeq(rows, n + 1, i + 1))
    <2>1. SUFFICES ASSUME n + (k + 1) <= Len(rows)
                   PROVE  Good(At(SubSeq(rows, n + 1, n + (k + 1))), n + (k + 1))
      OBVIOUS
    <2>2. i \in 0..Len(rows) /\ n \in 0..i /\ i < Len(rows) /\ i \in Nat
      BY <1>0, <2>1
    <2>3. /\ SubSeq(rows, n + 1, i) \in Seq(Rows) /\ rows[i + 1] \in Rows
          /\ SubSeq(rows, n + 1, i + 1) = Append(SubSeq(rows, n + 1, i), rows[i + 1])
      BY <1>0, <2>2, Writing!SubSeqGrows
    <2>4. Good(d, i)
      <3> HIDE DEF Good
      <3> QED
        BY <1>0, <1>4, <2>1
    <2>5. e = FoldInto(0, d, rows[i + 1])
      BY <1>1, <2>3
    <2>6. n + (k + 1) = i + 1
      BY <1>0
    <2> HIDE DEF d, e, i
    <2>7. Whole(e, books, i + 1)
      BY <2>2, <2>4, <2>5, WholeGrows
    <2>8. OnGrid(e, rows, i + 1)
      BY <2>2, <2>4, <2>5, GridGrows
    <2> QED
      BY <2>6, <2>7, <2>8, Zenon DEF e
  <1> HIDE DEF T
  <1>5. Nat \subseteq T
    BY <1>3, <1>4, Writing!Induction
  <1>6. Len(rows) - n \in T /\ n + (Len(rows) - n) = Len(rows) /\ n + (Len(rows) - n) <= Len(rows)
    BY <1>0, <1>5
  <1>7. Good(At(SubSeq(rows, n + 1, n + (Len(rows) - n))), n + (Len(rows) - n))
    <2> HIDE DEF Good
    <2> QED
      BY <1>6 DEF T
  <1>8. OnGrid(At(run), rows, Len(rows))
    BY <1>6, <1>7, Zenon
  <1> QED
    BY <1>1, <1>8, Zenon

\* More rows behind leave it there.
LEMMA GridStays ==
    ASSUME NEW rows, NEW all, NEW books, NEW n \in Nat, \A i \in 1..n : all[i] = rows[i],
           NEW c, Whole(c, books, n), OnGrid(c, rows, n)
    PROVE  OnGrid(c, all, n)
  <1>1. CASE n = 0
    BY <1>1 DEF OnGrid
  <1>2. CASE n # 0
    <2>1. c.cur.first \in 1..n
      BY <1>2 DEF Whole, EndsAt
    <2>2. c.prev.first # None => c.prev.first \in 1..(c.cur.first - 1)
      BY <1>2 DEF Whole, EndsAt
    <2>3. all[n].period = rows[n].period /\ \A i \in c.cur.first..n : all[i] = rows[i]
      BY <1>2, <2>1
    <2>4. c.cur.first > 1 => all[c.cur.first - 1] = rows[c.cur.first - 1]
      BY <2>1
    <2>5. c.prev.first # None =>
            /\ \A i \in c.prev.first..(c.cur.first - 1) : all[i] = rows[i]
            /\ c.prev.first > 1 => all[c.prev.first - 1] = rows[c.prev.first - 1]
      BY <2>1, <2>2
    <2>6. Reads(c.cur, rows, n) => Reads(c.cur, all, n)
      BY <2>3 DEF Reads
    <2>7. c.prev.first # None /\ Reads(c.prev, rows, c.cur.first - 1) =>
            Reads(c.prev, all, c.cur.first - 1)
      BY <2>5 DEF Reads
    <2> QED
      BY <1>2, <2>3, <2>4, <2>5, <2>6, <2>7 DEF OnGrid
  <1> QED
    BY <1>1, <1>2

\* The periods from a row on: one, two, or more, as the nets reach back to it.
LEMMA PeriodsMissed ==
    ASSUME NEW rows, NEW books, IsLog(rows, books), NEW c, Whole(c, books, Len(rows)),
           OnGrid(c, rows, Len(rows)), NEW s \in Nat, s < Len(rows)
    PROVE  Cardinality(Missed(rows, s)) <= 2
             <=> s + 1 >= c.cur.first \/ (c.prev.first # None /\ s + 1 >= c.prev.first)
  <1> DEFINE n == Len(rows)
             M == Missed(rows, s)
             late == rows[n].period
             cut == c.cur.first - 1
             before == rows[cut].period
  <1>0. n \in Nat /\ n # 0 /\ \A i \in 1..n : rows[i] \in Rows
    BY DEF IsLog
  <1>1. n \in Nat /\ n # 0 /\ \A i \in 1..n : rows[i].period \in Nat
    BY <1>0 DEF Rows
  <1>2. c.cur.first \in 1..n /\ (c.prev.first # None => c.prev.first \in 1..cut)
    BY <1>1 DEF Whole, EndsAt
  <1>3. \A i \in c.cur.first..n : rows[i].period = late
    BY <1>1 DEF OnGrid
  <1>4. c.cur.first > 1 =>
          /\ c.prev.first # None
          /\ \A i \in c.prev.first..cut : rows[i].period = before
          /\ before < late
          /\ c.prev.first > 1 => rows[c.prev.first - 1].period < before
    BY <1>1 DEF OnGrid
  <1>5. \A p : p \in M <=> \E i \in (s + 1)..n : p = rows[i].period
    BY DEF Missed
  <1> HIDE DEF M
  <1>6. late \in M
    BY <1>1, <1>5
  <1>7. IsFiniteSet({late}) /\ Cardinality({late}) = 1
    BY FS_Singleton
  <1>8. CASE s + 1 >= c.cur.first
    <2>1. \A p \in M : p = late
      BY <1>1, <1>2, <1>3, <1>5, <1>8
    <2>2. M = {late}
      BY <1>6, <2>1
    <2> QED
      BY <1>7, <1>8, <2>2 DEF M
  <1>9. CASE ~(s + 1 >= c.cur.first) /\ s + 1 >= c.prev.first
    <2>1. c.cur.first > 1 /\ c.prev.first # None /\ before < late
      BY <1>1, <1>2, <1>4, <1>9
    <2>2. ASSUME NEW p \in M
          PROVE  p = late \/ p = before
      <3>1. PICK i \in (s + 1)..n : p = rows[i].period
        BY <1>5
      <3>2. i \in c.cur.first..n \/ i \in c.prev.first..cut
        BY <1>1, <1>2, <1>9, <2>1
      <3> QED
        BY <1>3, <1>4, <2>1, <3>1, <3>2
    <2>3. M \in SUBSET ({late} \cup {before})
      BY <2>2
    <2>4. IsFiniteSet({late} \cup {before}) /\ Cardinality({late} \cup {before}) <= 2
      BY <1>7, FS_AddElement
    <2>5. IsFiniteSet(M) /\ Cardinality(M) <= Cardinality({late} \cup {before})
      BY <2>3, <2>4, FS_Subset
    <2>6. Cardinality(M) <= 2
      BY <2>4, <2>5, FS_CardinalityType
    <2> QED
      BY <1>9, <2>1, <2>6 DEF M
  <1>10. CASE ~(s + 1 >= c.cur.first) /\ ~(s + 1 >= c.prev.first)
    <2> DEFINE early == rows[c.prev.first - 1].period
    <2>1. c.cur.first > 1 /\ c.prev.first # None /\ c.prev.first > 1
      BY <1>1, <1>2, <1>4, <1>10
    <2>2. /\ before < late /\ early < before
          /\ c.prev.first - 1 \in (s + 1)..n /\ cut \in (s + 1)..n
      BY <1>1, <1>2, <1>4, <1>10, <2>1
    <2>3. early \in M /\ before \in M
      BY <1>5, <2>2
    <2>4. early \in Nat /\ before \in Nat /\ late \in Nat
      BY <1>1, <2>2
    <2>5. before \notin {late} /\ early \notin {late} \cup {before}
      <3>1. before # late /\ early # late /\ early # before
        BY <2>2, <2>4
      <3> HIDE DEF early, before, late
      <3> QED
        BY <3>1
    <2> HIDE DEF early, before, late
    <2> DEFINE two == {late} \cup {before}
               U == two \cup {early}
    <2>6. Cardinality(U) = 3 /\ U \in SUBSET M
      <3>1. IsFiniteSet(two) /\ Cardinality(two) = 2
        BY <1>7, <2>5, FS_AddElement
      <3>2. U \in SUBSET M
        BY <1>6, <2>3
      <3>3. early \notin two
        BY <2>5
      <3> HIDE DEF two
      <3> QED
        BY <3>1, <3>2, <3>3, FS_AddElement
    <2>7. IsFiniteSet(M)
      <3>1. M = {rows[i].period : i \in (s + 1)..n}
        BY DEF M, Missed
      <3>2. IsFiniteSet((s + 1)..n)
        BY <1>1, FS_Interval
      <3>3. [i \in (s + 1)..n |-> rows[i].period] \in Surjection((s + 1)..n, M)
        BY <3>1 DEF Surjection
      <3> QED
        BY <3>2, <3>3, FS_Surjection
    <2> HIDE DEF U, two
    <2>8. Cardinality(U) <= Cardinality(M) /\ Cardinality(M) \in Nat
      BY <2>6, <2>7, FS_Subset, FS_CardinalityType
    <2>9. ~(Cardinality(M) <= 2)
      BY <2>6, <2>8
    <2> QED
      BY <1>10, <2>9 DEF M
  <1> QED
    BY <1>8, <1>9, <1>10

\* Book::absorb moves levels and place only.
LEMMA AbsorbIs ==
    ASSUME NEW b, IsBook(b), NEW c, NEW prev
    PROVE  LET d == Absorb(b, c, prev)
           IN  /\ IsBook(d) /\ d.synced = b.synced /\ d.epoch = b.epoch
               /\ d.seq = IF c.cur.first = None THEN b.seq ELSE c.cur.last
  <1> DEFINE held == SetNet(IF prev THEN SetNet(b.levels, c.prev.levels) ELSE b.levels, c.cur.levels)
             d == Absorb(b, c, prev)
  <1>1. CASE c.cur.first = None
    BY <1>1 DEF Absorb
  <1>2. CASE c.cur.first # None
    <2>1. d = [b EXCEPT !.levels = held, !.seq = c.cur.last]
      BY <1>2 DEF Absorb
    <2> HIDE DEF held, d
    <2>2. d = [levels |-> held, epoch |-> b.epoch, synced |-> b.synced, seq |-> c.cur.last]
      BY <2>1 DEF IsBook
    <2>3. IsBook(d) /\ d.synced = b.synced /\ d.epoch = b.epoch /\ d.seq = c.cur.last
      BY <2>2 DEF IsBook
    <2> QED
      BY <1>2, <2>3 DEF d
  <1> QED
    BY <1>1, <1>2

\* Whatever it is stepped over, a book stands on a row or on none.
LEMMA StepPlaces ==
    ASSUME NEW b, IsBook(b), b.seq \in Nat, NEW c, IsChunk(c), c.fresh \in Seq(Rows), NEW given
    PROVE  IsBook(StepBook(b, given, c)) /\ StepBook(b, given, c).seq \in Nat
  <1> DEFINE Placed(d) == IsBook(d) /\ d.seq \in Nat
             reach == IF b.synced THEN Reach(b, c) ELSE "gone"
             off == [b EXCEPT !.synced = FALSE]
             seed == Resync(off, given)
  <1>1. c.cur.last \in Nat
    BY DEF IsChunk, IsNet
  <1>2. c.fresh = <<>> \/ Last(c.fresh).seq \in Nat
    <2> SUFFICES ASSUME c.fresh # <<>> PROVE Last(c.fresh).seq \in Nat
      OBVIOUS
    <2>1. Last(c.fresh) \in Rows
      BY DEF Last
    <2> QED
      BY <2>1 DEF Rows
  <1>3. ASSUME NEW d, Placed(d)
        PROVE  Placed(Apply(d, c.fresh)) /\ \A prev : Placed(Absorb(d, c, prev))
    BY <1>1, <1>2, <1>3, ApplyIs, AbsorbIs
  <1>4. Placed(b)
    OBVIOUS
  <1>5. Placed(off)
    BY OffIs DEF IsBook
  <1>6. Placed(seed)
    <2> HIDE DEF off
    <2>1. IsBook(seed) /\ seed.seq = 0
      BY ResyncIs
    <2> HIDE DEF seed
    <2> QED
      BY <2>1
  <1> HIDE DEF Placed, off
  <1>7. Placed(Seeded(off, given, c))
    <2>1. CASE given = NoAnchor
      BY <1>5, <2>1 DEF Seeded
    <2>2. CASE given # NoAnchor
      <3>1. Seeded(off, given, c) = IF c.cur.contiguous THEN Absorb(seed, c, FALSE) ELSE Apply(seed, c.fresh)
        BY <2>2 DEF Seeded
      <3> HIDE DEF seed
      <3> QED
        BY <1>3, <1>6, <3>1
    <2> QED
      BY <2>1, <2>2
  <1>8. reach \in {"fresh", "net", "both", "gone"}
    BY ReachIs
  <1>9. StepBook(b, given, c) = StepBy(reach, b, given, c)
    BY DEF StepBook
  <1> HIDE DEF reach
  <1>10. Placed(StepBy(reach, b, given, c))
    BY <1>3, <1>4, <1>7, <1>8 DEF StepBy, off
  <1> QED
    BY <1>9, <1>10 DEF Placed

\* Over a chunk on the grid a placed book that missed rows is carried exactly if they
\* are of two periods at most, and is the same epoch either way.
LEMMA StepReaches ==
    ASSUME NEW rows, NEW books, IsLog(rows, books), NEW m \in 0..Len(rows), m # Len(rows),
           NEW c, Whole(c, books, Len(rows)), OnGrid(c, rows, Len(rows)),
           c.fresh = SubSeq(rows, m + 1, Len(rows)),
           NEW b, IsBook(b), b.synced, b.seq \in Nat, b.seq # None, b.seq < m
    PROVE  LET d == StepBook(b, NoAnchor, c)
           IN  /\ d.synced <=> Cardinality(Missed(rows, b.seq)) <= 2
               /\ d.epoch = b.epoch
  <1> DEFINE n == Len(rows)
             s == b.seq
             d == StepBook(b, NoAnchor, c)
             few == s + 1 >= c.cur.first \/ (c.prev.first # None /\ s + 1 >= c.prev.first)
  <1>1. n \in Nat /\ n # 0 /\ m \in Nat /\ s < n
    BY DEF IsLog
  <1>2. c.fresh # <<>> /\ c.fresh[1].seq = m + 1
    BY LastOfRun
  <1>3. /\ c.cur.first \in 1..n /\ c.cur.last = n /\ c.cur.contiguous
        /\ c.prev.first # None =>
             c.prev.contiguous /\ c.prev.last + 1 = c.cur.first
    <2>1. /\ EndsAt(books, c.cur, n)
          /\ c.prev.first # None => EndsAt(books, c.prev, c.cur.first - 1)
      BY <1>1 DEF Whole
    <2> QED
      BY <1>1, <2>1 DEF EndsAt
  <1>4. c.cur.first # None
    BY <1>3 DEF None
  <1>5. ~(c.fresh = <<>> \/ c.fresh[1].seq = s + 1) /\ ~(s > c.cur.last)
    BY <1>1, <1>2, <1>3
  <1>6. Reach(b, c) = IF s + 1 >= c.cur.first THEN "net"
                      ELSE IF c.prev.first # None /\ s + 1 >= c.prev.first THEN "both"
                      ELSE "gone"
    BY <1>3, <1>4, <1>5 DEF Reach, Joins
  <1>7. d = StepBy(Reach(b, c), b, NoAnchor, c)
    BY DEF StepBook
  <1> HIDE DEF d
  <1>8. (Cardinality(Missed(rows, s)) <= 2) <=> few
    BY <1>1, PeriodsMissed
  <1>9. /\ d.epoch = b.epoch /\ (d.synced <=> few)
    <2>1. few => d.synced = b.synced /\ d.epoch = b.epoch
      <3> SUFFICES ASSUME few PROVE d.synced = b.synced /\ d.epoch = b.epoch
        OBVIOUS
      <3>1. Reach(b, c) \in {"net", "both"}
        BY <1>6
      <3>2. d = Absorb(b, c, FALSE) \/ d = Absorb(b, c, TRUE)
        BY <1>7, <3>1 DEF StepBy
      <3>3. ASSUME NEW prev
            PROVE  Absorb(b, c, prev).synced = b.synced /\ Absorb(b, c, prev).epoch = b.epoch
        BY AbsorbIs
      <3> QED
        BY <3>2, <3>3
    <2>2. ~few => d.synced = FALSE /\ d.epoch = b.epoch
      <3> SUFFICES ASSUME ~few PROVE d.synced = FALSE /\ d.epoch = b.epoch
        OBVIOUS
      <3>1. Reach(b, c) = "gone"
        BY <1>6
      <3>2. d = [b EXCEPT !.synced = FALSE]
        BY <1>7, <3>1 DEF StepBy, Seeded
      <3> QED
        BY <3>2, OffIs
    <2> QED
      BY <2>1, <2>2
  <1> QED
    BY <1>8, <1>9 DEF d

\* The recording, the nets on its grid, and a book that stands somewhere.
NetInv ==
    /\ IsLog(tape, history) /\ Ascending(tape)
    /\ Whole(chunk, history, Len(tape)) /\ OnGrid(chunk, tape, Len(tape))
    /\ IsBook(book) /\ book.seq \in Nat

\* A run goes behind the tape, and starts in its last period or a later one.
LEMMA AscendingGrows ==
    ASSUME GatedBookConstants, NetInv, NEW k \in Nat, NEW run \in RunsOf(k),
           \A i \in 1..k : run[i].period >= IF i = 1 THEN Period ELSE run[i - 1].period,
           NEW all, all = tape \o NextRows(run)
    PROVE  Ascending(all)
  <1> DEFINE n == Len(tape)
             rows == NextRows(run)
  <1>1. tape \in Seq(Rows) /\ n \in Nat /\ IsLog(tape, history) /\ Ascending(tape)
    BY DEF NetInv, IsLog
  <1>2. rows \in Seq(Rows) /\ Len(rows) = k
    BY <1>1, RunRows
  <1>3. \A i \in 1..k : rows[i].period = run[i].period
    <2>1. Len(run) = k
      BY DEF RunsOf
    <2> QED
      BY <2>1 DEF NextRows
  <1>10. all = tape \o rows
    OBVIOUS
  <1> HIDE DEF rows
  <1>4. /\ Len(all) = n + k
        /\ \A i \in 1..n : all[i] = tape[i]
        /\ \A i \in 1..k : all[n + i] = rows[i]
    BY <1>1, <1>2, <1>10
  <1>5. n # 0 => Period = tape[n].period
    BY <1>1 DEF Period, Last
  <1>6. ASSUME NEW i \in 1..(n + k), i > 1
        PROVE  all[i - 1].period <= all[i].period
    <2>1. CASE i <= n
      <3>1. i \in 1..n /\ i - 1 \in 1..n
        BY <1>1, <1>6, <2>1
      <3>2. tape[i - 1].period <= tape[i].period
        BY <1>1, <1>6, <3>1 DEF Ascending
      <3> QED
        BY <1>4, <3>1, <3>2
    <2>2. CASE i = n + 1
      <3>1. n \in 1..n /\ 1 \in 1..k
        BY <1>1, <1>6, <2>2
      <3>2. all[i].period = run[1].period /\ all[i - 1].period = tape[n].period
        BY <1>1, <1>3, <1>4, <2>2, <3>1
      <3>3. run[1].period >= Period
        BY <3>1
      <3>4. run[1].period \in Nat /\ tape[n].period \in Nat
        <4>1. tape[n] \in Rows /\ rows[1] \in Rows
          BY <1>1, <1>2, <3>1
        <4> QED
          BY <1>3, <3>1, <4>1 DEF Rows
      <3> QED
        BY <1>1, <1>5, <3>1, <3>2, <3>3, <3>4
    <2>3. CASE i > n + 1
      <3> DEFINE j == i - n
      <3>1. j \in 1..k /\ j - 1 \in 1..k /\ j # 1 /\ n + j = i /\ n + (j - 1) = i - 1
        BY <1>1, <2>3
      <3>2. run[j].period >= run[j - 1].period
        BY <3>1
      <3> HIDE DEF j
      <3>3. all[i].period = run[j].period /\ all[i - 1].period = run[j - 1].period
        <4>1. all[n + j] = rows[j] /\ all[n + (j - 1)] = rows[j - 1]
          BY <1>4, <3>1
        <4>2. all[i] = rows[j] /\ all[i - 1] = rows[j - 1]
          BY <3>1, <4>1
        <4> QED
          BY <1>3, <3>1, <4>2
      <3>4. run[j].period \in Nat /\ run[j - 1].period \in Nat
        <4>1. rows[j] \in Rows /\ rows[j - 1] \in Rows
          BY <1>2, <3>1
        <4> QED
          BY <1>3, <3>1, <4>1 DEF Rows
      <3> QED
        BY <3>2, <3>3, <3>4
    <2>4. i <= n \/ i = n + 1 \/ i > n + 1
      BY <1>1
    <2> QED
      BY <2>1, <2>2, <2>3, <2>4
  <1> QED
    BY <1>4, <1>6 DEF Ascending

\* What a step of the feed, whatever it carries, does to the chunk and the book.
LEMMA NetSweep ==
    ASSUME NetInv, NEW rows, NEW given, NEW opens \in BOOLEAN, Sweep(rows, given, opens),
           IsLog(tape', history'), Ascending(tape'), Agrees(history, history', Len(tape)),
           Len(tape) \in 0..Len(tape'), rows = SubSeq(tape', Len(tape) + 1, Len(tape')),
           \A i \in 1..Len(tape) : tape'[i] = tape[i]
    PROVE  NetInv' /\ chunk'.fresh = rows
  <1> DEFINE m == Len(tape)
             n == Len(tape')
  <1>1. m \in Nat /\ n \in Nat /\ rows \in Seq(Rows)
    <2>1. tape' \in Seq(Rows) /\ n \in 0..n /\ n \in Nat
      BY DEF IsLog
    <2>2. rows \in Seq(Rows)
      BY <2>1, Writing!SubSeqGrows
    <2> QED
      BY <2>1, <2>2
  <1>2. /\ chunk' = Advance(chunk, rows)
        /\ book' = IF opens THEN StepBook(book, given, chunk') ELSE book
    BY DEF Sweep
  <1>3. /\ Whole(chunk, history, m) /\ OnGrid(chunk, tape, m) /\ IsChunk(chunk)
        /\ IsBook(book) /\ book.seq \in Nat
    BY DEF NetInv, Whole
  <1>4. Whole(chunk, history', m)
    BY <1>1, <1>3, WholeStays
  <1>5. OnGrid(chunk, tape', m)
    BY <1>1, <1>3, GridStays
  <1>6. Whole(Advance(chunk, rows), history', n)
    BY <1>4, WholeAdvances
  <1>7. OnGrid(Advance(chunk, rows), tape', n)
    BY <1>4, <1>5, GridAdvances
  <1>8. IsChunk(Advance(chunk, rows)) /\ Advance(chunk, rows).fresh = rows
    BY <1>1, <1>3, AdvanceIs
  <1>9. IsBook(book') /\ book'.seq \in Nat
    <2>1. IsChunk(chunk') /\ chunk'.fresh \in Seq(Rows)
      BY <1>1, <1>2, <1>8
    <2>2. IsBook(StepBook(book, given, chunk')) /\ StepBook(book, given, chunk').seq \in Nat
      BY <1>3, <2>1, StepPlaces
    <2> QED
      BY <1>2, <1>3, <2>2
  <1> QED
    BY <1>2, <1>6, <1>7, <1>8, <1>9 DEF NetInv

\* A book that was handed nothing stands nowhere.
LEMMA NetInit ==
    ASSUME GatedBookConstants, Init
    PROVE  NetInv
  <1>1. IsLog(tape, history) /\ Whole(chunk, history, Len(tape)) /\ IsBook(book)
    BY Opens
  <1>2. tape = <<>> /\ Len(<<>>) = 0
    BY DEF Init
  <1>3. OnGrid(chunk, tape, 0)
    BY DEF Init, EmptyChunk, OnGrid
  <1>4. Ascending(tape)
    BY <1>2 DEF Ascending
  <1>5. book.seq \in Nat
    BY DEF Init, EmptyBook, None
  <1> QED
    BY <1>1, <1>2, <1>3, <1>4, <1>5 DEF NetInv

\* A run of rows, as NetSweep takes it.
LEMMA NetRun ==
    ASSUME GatedBookConstants, NetInv, NEW opens \in BOOLEAN, NEW k \in 1..MaxRun,
           NEW run \in RunsOf(k), RowsStep(NextRows(run), opens),
           \A i \in 1..k : run[i].period >= IF i = 1 THEN Period ELSE run[i - 1].period
    PROVE  /\ NetInv' /\ chunk'.fresh = NextRows(run)
           /\ NextRows(run) = SubSeq(tape', Len(tape) + 1, Len(tape'))
           /\ Len(tape) \in 0..Len(tape') /\ Len(tape') # Len(tape)
  <1>0. IsLog(tape, history) /\ Len(tape) \in Nat
    BY DEF NetInv, IsLog
  <1>1. /\ Sweep(NextRows(run), NoAnchor, opens)
        /\ Record(NextRows(run)) /\ tape' = tape \o NextRows(run)
    BY DEF RowsStep, Record
  <1>2. k \in Nat /\ k # 0
    BY DEF GatedBookConstants
  <1>3. /\ IsLog(tape', history') /\ Agrees(history, history', Len(tape))
        /\ Len(tape') = Len(tape) + k /\ Len(tape) \in 0..Len(tape')
        /\ NextRows(run) = SubSeq(tape', Len(tape) + 1, Len(tape'))
        /\ \A i \in 1..Len(tape) : tape'[i] = tape[i]
    BY <1>0, <1>1, <1>2, Records
  <1>4. Ascending(tape')
    BY <1>1, <1>2, AscendingGrows
  <1>5. NetInv' /\ chunk'.fresh = NextRows(run)
    BY <1>1, <1>3, <1>4, NetSweep
  <1> QED
    BY <1>0, <1>2, <1>3, <1>5

\* Every step of the feed keeps the nets on the grid.
LEMMA NetStep ==
    ASSUME GatedBookConstants, NetInv, [BookNext]_bookVars
    PROVE  NetInv'
  <1>1. ASSUME NEW opens \in BOOLEAN, NEW k \in 1..MaxRun, NEW run \in RunsOf(k),
               RowsStep(NextRows(run), opens),
               \A i \in 1..k : run[i].period >= IF i = 1 THEN Period ELSE run[i - 1].period
        PROVE  NetInv'
    BY <1>1, NetRun
  <1>2. ASSUME NEW opens \in BOOLEAN, NEW given, Sweep(<<>>, given, opens), UNCHANGED <<tape, history>>
        PROVE  NetInv'
    <2>1. tape' = tape /\ history' = history
      BY <1>2
    <2>2. /\ IsLog(tape', history') /\ Ascending(tape') /\ Agrees(history, history', Len(tape))
          /\ Len(tape) \in 0..Len(tape') /\ \A i \in 1..Len(tape) : tape'[i] = tape[i]
      BY <2>1 DEF NetInv, IsLog, Agrees
    <2>3. <<>> = SubSeq(tape', Len(tape) + 1, Len(tape'))
      BY <2>1 DEF NetInv, IsLog
    <2> QED
      BY <1>2, <2>2, <2>3, NetSweep
  <1>3. ASSUME NEW opens \in BOOLEAN, AnchorStep(opens)
        PROVE  NetInv'
    BY <1>2, <1>3 DEF AnchorStep
  <1>4. ASSUME NEW opens \in BOOLEAN, OtherStep(opens)
        PROVE  NetInv'
    BY <1>2, <1>4 DEF OtherStep
  <1>5. CASE UNCHANGED bookVars
    BY <1>5 DEF NetInv, bookVars, vars, IsLog, Whole, IsBook, Ascending, OnGrid, Reads
  <1> QED
    BY <1>1, <1>3, <1>4, <1>5 DEF BookNext

\* book.rs and chunk.rs, for any grid, runs and pattern of sleep: a book that stood on
\* a row and wakes on rows it was dark for publishes itself exactly if those are of
\* two periods at most; in neither case does it begin another epoch.
THEOREM CarriedOverTwoPeriods == BookSpec => WakesAsFarAsTheNetReaches
  <1>1. BookInit => NetInv
    BY GatedBookConstants, NetInit DEF BookInit
  <1>2. NetInv /\ [BookNext]_bookVars => NetInv'
    BY GatedBookConstants, NetStep
  <1>3. NetInv /\ [BookNext]_bookVars =>
          [ book.synced /\ book.seq # None /\ book.seq < Len(tape) /\ open' /\ tape' # tape
              => /\ shown' <=> Cardinality(Missed(tape', book.seq)) <= 2
                 /\ book'.epoch = book.epoch ]_bookVars
    <2> SUFFICES ASSUME NetInv, BookNext, book.synced, book.seq # None, book.seq < Len(tape),
                        open', tape' # tape
                 PROVE  /\ shown' <=> Cardinality(Missed(tape', book.seq)) <= 2
                        /\ book'.epoch = book.epoch
      OBVIOUS
    <2>0. PICK opens \in BOOLEAN, k \in 1..MaxRun : \E run \in RunsOf(k) :
             /\ RowsStep(NextRows(run), opens)
             /\ \A i \in 1..k : run[i].period >= IF i = 1 THEN Period ELSE run[i - 1].period
      BY DEF BookNext, AnchorStep, OtherStep
    <2>1. PICK run \in RunsOf(k) :
             /\ RowsStep(NextRows(run), opens)
             /\ \A i \in 1..k : run[i].period >= IF i = 1 THEN Period ELSE run[i - 1].period
      BY <2>0
    <2>2. /\ NetInv' /\ chunk'.fresh = SubSeq(tape', Len(tape) + 1, Len(tape'))
          /\ Len(tape) \in 0..Len(tape') /\ Len(tape) # Len(tape')
      BY <2>1, GatedBookConstants, NetRun
    <2>3. Sweep(NextRows(run), NoAnchor, opens)
      BY <2>1 DEF RowsStep
    <2>4. book' = StepBook(book, NoAnchor, chunk') /\ (shown' <=> book'.synced)
      BY <2>3 DEF Sweep
    <2>5. /\ IsLog(tape', history') /\ Whole(chunk', history', Len(tape'))
          /\ OnGrid(chunk', tape', Len(tape')) /\ IsBook(book) /\ book.seq \in Nat
      BY <2>2 DEF NetInv
    <2> QED
      BY <2>2, <2>4, <2>5, StepReaches
  <1> QED
    BY <1>1, <1>2, <1>3, PTL DEF BookSpec, WakesAsFarAsTheNetReaches

-----------------------------------------------------------------------------
(* What a gated book is, wherever it stands.                               *)

\* Right as of row s, but for what the first p rows wrote and none since.
RightBut(books, rows, p, held, s) ==
    \A l \in Level : held[l] # books[s + 1][l] => Wrote(rows, l, 0, p) /\ ~ Wrote(rows, l, p, s)

\* A book that took its place behind p rows, which it did where a period turned.
GatedHeld(books, rows, p, b, n) ==
    /\ IsBook(b) /\ b.epoch \in Nat /\ b.seq \in 0..n /\ p \in 0..b.seq
    /\ p # 0 => p # b.seq /\ rows[p].period # rows[p + 1].period
    /\ b.synced => b.levels \in Levels /\ RightBut(books, rows, p, b.levels, b.seq)

\* Rows folded over a book on the row they follow.
LEMMA RowsRightBut ==
    ASSUME NEW rows, NEW books, IsLog(rows, books), NEW held \in Levels,
           NEW b \in 0..Len(rows), NEW s \in 0..b, NEW p \in 0..s,
           RightBut(books, rows, p, held, s)
    PROVE  /\ SetRows(held, SubSeq(rows, s + 1, b)) \in Levels
           /\ RightBut(books, rows, p, SetRows(held, SubSeq(rows, s + 1, b)), b)
  <1> DEFINE got == SetRows(held, SubSeq(rows, s + 1, b))
  <1>1. got \in Levels /\ \A l \in Level :
          got[l] = IF Wrote(rows, l, s, b) THEN books[b + 1][l] ELSE held[l]
    BY LastWriter
  <1> HIDE DEF got
  <1>2. ASSUME NEW l \in Level, got[l] # books[b + 1][l]
        PROVE  Wrote(rows, l, 0, p) /\ ~ Wrote(rows, l, p, b)
    <2>1. ~ Wrote(rows, l, s, b) /\ got[l] = held[l]
      BY <1>1, <1>2
    <2>2. books[b + 1][l] = books[s + 1][l]
      BY <2>1, Unwritten
    <2>3. Wrote(rows, l, 0, p) /\ ~ Wrote(rows, l, p, s)
      BY <1>2, <2>1, <2>2 DEF RightBut
    <2>4. \A i \in (p + 1)..b : i \in (p + 1)..s \/ i \in (s + 1)..b
      OBVIOUS
    <2> QED
      BY <2>1, <2>3, <2>4 DEF Wrote
  <1> QED
    BY <1>1, <1>2 DEF RightBut, got

\* Rows folded over the book the recording opened on: what went by before them is
\* missed.
LEMMA RowsMissed ==
    ASSUME NEW rows, NEW books, IsLog(rows, books), NEW held \in Levels,
           NEW b \in 0..Len(rows), NEW m \in 0..b, RightBut(books, rows, 0, held, 0)
    PROVE  /\ SetRows(held, SubSeq(rows, m + 1, b)) \in Levels
           /\ RightBut(books, rows, m, SetRows(held, SubSeq(rows, m + 1, b)), b)
  <1> DEFINE got == SetRows(held, SubSeq(rows, m + 1, b))
  <1>1. got \in Levels /\ \A l \in Level :
          got[l] = IF Wrote(rows, l, m, b) THEN books[b + 1][l] ELSE held[l]
    BY LastWriter
  <1> HIDE DEF got
  <1>2. ASSUME NEW l \in Level, got[l] # books[b + 1][l]
        PROVE  Wrote(rows, l, 0, m) /\ ~ Wrote(rows, l, m, b)
    <2>1. ~ Wrote(rows, l, m, b) /\ got[l] = held[l]
      BY <1>1, <1>2
    <2>2. books[b + 1][l] = books[m + 1][l]
      BY <2>1, Unwritten
    <2>3. held[l] = books[0 + 1][l]
      BY DEF RightBut, Wrote
    <2>4. ASSUME ~ Wrote(rows, l, 0, m)
          PROVE  FALSE
      <3>1. m \in 0..Len(rows) /\ 0 \in 0..m
        BY DEF IsLog
      <3>2. books[m + 1][l] = books[0 + 1][l]
        BY <2>4, <3>1, Unwritten
      <3> QED
        BY <1>2, <2>1, <2>2, <2>3, <3>2
    <2> QED
      BY <2>1, <2>4
  <1> QED
    BY <1>1, <1>2 DEF RightBut, got

\* A net folded over a book that stands within its rows, or on the one before them.
LEMMA NetRightBut ==
    ASSUME NEW rows, NEW books, IsLog(rows, books), NEW net, IsNet(net),
           NEW b \in 0..Len(rows), EndsAt(books, net, b), Reads(net, rows, b),
           NEW held \in Levels, NEW s \in 0..b, s + 1 >= net.first, NEW p \in 0..s,
           RightBut(books, rows, p, held, s)
    PROVE  /\ SetNet(held, net.levels) \in Levels
           /\ RightBut(books, rows, p, SetNet(held, net.levels), b)
  <1> DEFINE got == SetNet(held, net.levels)
             a == net.first - 1
  <1>1. b \in Nat /\ a \in 0..b /\ s \in a..b /\ net.first = a + 1
        /\ net.levels \in Nets /\ Carries(books, net.levels, a, b)
    BY DEF IsLog, EndsAt, IsNet
  <1>2. got \in Levels
    BY <1>1, BookConstants DEF SetNet, SetLevel, Levels, Nets
  <1>3. \A l \in Level : IF net.levels[l] = Absent
          THEN got[l] = held[l] /\ books[b + 1][l] = books[s + 1][l] /\ ~ Wrote(rows, l, s, b)
          ELSE got[l] = books[b + 1][l]
    <2> TAKE l \in Level
    <2>1. CASE net.levels[l] = Absent
      <3>1. got[l] = held[l]
        BY <2>1 DEF SetNet
      <3>2. books[b + 1][l] = books[s + 1][l]
        <4> HIDE DEF a, got
        <4> QED
          BY <1>1, <2>1 DEF Carries
      <3>3. \A i \in (s + 1)..b : i \in net.first..b
        BY <1>1
      <3> QED
        BY <2>1, <3>1, <3>2, <3>3 DEF Reads, Wrote
    <2>2. CASE net.levels[l] # Absent
      <3>1. got[l] = IF net.levels[l] = 0 THEN Absent ELSE net.levels[l]
        BY <2>2 DEF SetNet, SetLevel, Levels
      <3> HIDE DEF got, a
      <3> QED
        BY <1>1, <2>2, <3>1 DEF Carries
    <2> QED
      BY <2>1, <2>2
  <1> HIDE DEF got, a
  <1>4. ASSUME NEW l \in Level, got[l] # books[b + 1][l]
        PROVE  Wrote(rows, l, 0, p) /\ ~ Wrote(rows, l, p, b)
    <2>1. got[l] = held[l] /\ books[b + 1][l] = books[s + 1][l] /\ ~ Wrote(rows, l, s, b)
      BY <1>3, <1>4
    <2>2. Wrote(rows, l, 0, p) /\ ~ Wrote(rows, l, p, s)
      BY <1>4, <2>1 DEF RightBut
    <2>3. \A i \in (p + 1)..b : i \in (p + 1)..s \/ i \in (s + 1)..b
      OBVIOUS
    <2> QED
      BY <2>1, <2>2, <2>3 DEF Wrote
  <1> QED
    BY <1>2, <1>4 DEF RightBut, got

\* The recording goes on behind a book.
LEMMA GatedStays ==
    ASSUME NEW rows, NEW books, NEW all, NEW more, NEW n \in Nat, Agrees(books, more, n),
           \A i \in 1..n : all[i] = rows[i], NEW p, NEW b, GatedHeld(books, rows, p, b, n)
    PROVE  GatedHeld(more, all, p, b, n)
  <1>1. b.seq \in 0..n /\ p \in 0..b.seq /\ more[b.seq + 1] = books[b.seq + 1]
    BY DEF GatedHeld, Agrees
  <1>2. p # 0 => p # b.seq /\ all[p] = rows[p] /\ all[p + 1] = rows[p + 1]
    BY <1>1 DEF GatedHeld
  <1>3. \A l : /\ Wrote(all, l, 0, p) <=> Wrote(rows, l, 0, p)
               /\ Wrote(all, l, p, b.seq) <=> Wrote(rows, l, p, b.seq)
    <2>1. \A i \in (0 + 1)..p : all[i] = rows[i]
      BY <1>1
    <2>2. \A i \in (p + 1)..b.seq : all[i] = rows[i]
      BY <1>1
    <2> QED
      BY <2>1, <2>2 DEF Wrote
  <1>4. RightBut(books, rows, p, b.levels, b.seq) => RightBut(more, all, p, b.levels, b.seq)
    BY <1>1, <1>3 DEF RightBut
  <1> QED
    BY <1>1, <1>2, <1>4 DEF GatedHeld

\* Book::reach of a synced book over a chunk that missed nothing, of which the last
\* n - m rows are new.
LEMMA ReachesOf ==
    ASSUME NEW rows, NEW books, IsLog(rows, books), NEW m \in 0..Len(rows),
           NEW c, Whole(c, books, Len(rows)), c.fresh = SubSeq(rows, m + 1, Len(rows)),
           NEW b, b.seq \in 0..m
    PROVE  /\ Reach(b, c) = "fresh" /\ m # Len(rows) =>
                IF b.seq = 0 THEN c.cur.first = m + 1 ELSE b.seq = m
           /\ Reach(b, c) = "net" =>
                Len(rows) # 0 /\ b.seq # 0 /\ b.seq + 1 >= c.cur.first
           /\ Reach(b, c) = "both" =>
                /\ Len(rows) # 0 /\ b.seq # 0 /\ c.prev.first # None
                /\ b.seq + 1 >= c.prev.first /\ b.seq + 1 < c.cur.first
  <1> DEFINE n == Len(rows)
  <1>1. n \in Nat /\ m \in Nat /\ b.seq \in Nat
    BY DEF IsLog
  <1>2. m # n => c.fresh # <<>> /\ c.fresh[1].seq = m + 1
    BY LastOfRun
  <1>3. c.cur.first # None =>
          n # 0 /\ c.cur.first \in 1..n /\ c.cur.last = n /\ c.cur.contiguous
    BY <1>1, EmptyNetIs DEF Whole, EndsAt
  <1>4. c.cur.first = None => n = 0
    BY <1>1 DEF Whole, EndsAt, None
  <1> QED
    BY <1>1, <1>2, <1>3, <1>4 DEF Reach, Joins, None

\* A step of a recording: the chunk missed nothing of it, the rows after the m-th are
\* the step's own, and a checkpoint is the recorder's book.
Steps(rows, books, m, c, given) ==
    /\ IsLog(rows, books) /\ m \in 0..Len(rows)
    /\ Whole(c, books, Len(rows)) /\ OnGrid(c, rows, Len(rows))
    /\ c.fresh = SubSeq(rows, m + 1, Len(rows))
    /\ given = NoAnchor \/ (m = Len(rows) /\ given = books[m + 1])

\* The rows gone by unread, of a book b that became d.
PassedBy(b, d, c, p) ==
    IF d.epoch # b.epoch THEN 0
    ELSE IF b.seq = None /\ d.seq # None THEN c.fresh[1].seq - 1
    ELSE p

Stepped(rows, books, m, q, d) ==
    /\ GatedHeld(books, rows, q, d, Len(rows))
    /\ d.synced /\ m # Len(rows) => d.seq = Len(rows)

\* What a step makes of a book: carried, declined or seeded, it is right as of where
\* it stands, and on the last row if the step carried any.
LEMMA StepIsRight ==
    ASSUME NEW rows, NEW books, NEW m, NEW c, NEW given, Steps(rows, books, m, c, given),
           NEW p, NEW b, GatedHeld(books, rows, p, b, m)
    PROVE  Stepped(rows, books, m, PassedBy(b, StepBook(b, given, c), c, p), StepBook(b, given, c))
  <1> SUFFICES ASSUME IsLog(rows, books), m \in 0..Len(rows),
                      Whole(c, books, Len(rows)), OnGrid(c, rows, Len(rows)),
                      c.fresh = SubSeq(rows, m + 1, Len(rows)),
                      given = NoAnchor \/ (m = Len(rows) /\ given = books[m + 1]),
                      NEW d, d = StepBook(b, given, c),
                      NEW q, q = IF d.epoch # b.epoch THEN 0
                                 ELSE IF b.seq = None /\ d.seq # None THEN c.fresh[1].seq - 1
                                 ELSE p
               PROVE  /\ GatedHeld(books, rows, q, d, Len(rows))
                      /\ d.synced /\ m # Len(rows) => d.seq = Len(rows)
    BY Zenon DEF Steps, Stepped, PassedBy
  <1> DEFINE n == Len(rows)
             reach == IF b.synced THEN Reach(b, c) ELSE "gone"
             Good == GatedHeld(books, rows, q, d, n) /\ (d.synced /\ m # n => d.seq = n)
  <1>0. n \in Nat /\ m \in Nat /\ n \in 0..n
    BY DEF IsLog
  <1>1. d = StepBy(reach, b, given, c)
    BY DEF StepBook
  <1>2. reach \in {"fresh", "net", "both", "gone"}
    BY ReachIs
  <1>3. /\ IsBook(b) /\ b.epoch \in Nat /\ b.seq \in 0..m /\ p \in 0..b.seq
        /\ p # 0 => p # b.seq /\ rows[p].period # rows[p + 1].period
        /\ b.synced => b.levels \in Levels /\ RightBut(books, rows, p, b.levels, b.seq)
    BY DEF GatedHeld
  <1>4. /\ n # 0 => EndsAt(books, c.cur, n) /\ Reads(c.cur, rows, n)
        /\ n # 0 /\ c.prev.first # None => EndsAt(books, c.prev, c.cur.first - 1)
        /\ n # 0 /\ c.cur.first > 1 =>
             /\ Reads(c.prev, rows, c.cur.first - 1)
             /\ rows[c.cur.first - 1].period < rows[c.cur.first].period
        /\ IsNet(c.cur) /\ IsNet(c.prev)
    <2>1. IsNet(c.cur) /\ IsNet(c.prev)
      BY DEF Whole, IsChunk
    <2>2. n # 0 => /\ EndsAt(books, c.cur, n) /\ Reads(c.cur, rows, n)
                   /\ c.prev.first # None => EndsAt(books, c.prev, c.cur.first - 1)
      BY DEF Whole, OnGrid
    <2>3. ASSUME n # 0, c.cur.first > 1
          PROVE  /\ Reads(c.prev, rows, c.cur.first - 1)
                 /\ rows[c.cur.first - 1].period < rows[c.cur.first].period
      <3>1. /\ Reads(c.prev, rows, c.cur.first - 1) /\ rows[c.cur.first - 1].period < c.base
            /\ \A i \in c.cur.first..n : rows[i].period = c.base
        BY <2>3, Zenon DEF OnGrid
      <3>2. c.cur.first \in c.cur.first..n
        BY <1>0, <2>2, <2>3 DEF EndsAt
      <3> QED
        BY <3>1, <3>2
    <2> QED
      BY <2>1, <2>2, <2>3
  <1>5. CASE reach = "fresh"
    <2>1. b.synced /\ Reach(b, c) = "fresh" /\ d = Apply(b, c.fresh)
      BY <1>1, <1>5 DEF StepBy
    <2>2. IsBook(d) /\ d.synced = b.synced /\ d.epoch = b.epoch
          /\ d.levels = SetRows(b.levels, c.fresh)
          /\ d.seq = IF c.fresh = <<>> THEN b.seq ELSE Last(c.fresh).seq
      <3>1. LET e == Apply(b, c.fresh)
            IN  IsBook(e) /\ e.synced = b.synced /\ e.epoch = b.epoch
                /\ e.levels = SetRows(b.levels, c.fresh)
                /\ e.seq = IF c.fresh = <<>> THEN b.seq ELSE Last(c.fresh).seq
        BY <1>3, ApplyIs, Zenon
      <3> QED
        BY <2>1, <3>1, Zenon
    <2>3. CASE m = n
      <3>1. c.fresh = <<>>
        BY <1>0, <2>3
      <3>2. d = b /\ q = p
        BY <2>1, <3>1 DEF Apply
      <3> QED
        BY <2>3, <3>2
    <2>4. CASE m # n
      <3>1. c.fresh # <<>> /\ c.fresh[1].seq = m + 1 /\ Last(c.fresh).seq = n
        BY <2>4, LastOfRun
      <3>2. d.seq = n /\ n # 0 /\ m # n /\ m \in 0..n
        BY <1>0, <2>2, <2>4, <3>1
      <3>3. IF b.seq = 0 THEN c.cur.first = m + 1 ELSE b.seq = m
        BY <1>3, <2>1, <2>4, ReachesOf
      <3>4. q = IF b.seq = 0 THEN m ELSE p
        BY <1>0, <2>2, <3>1, <3>2 DEF None
      <3>5. CASE b.seq = 0
        <4>1. p = 0 /\ RightBut(books, rows, 0, b.levels, 0) /\ b.levels \in Levels
          BY <1>3, <2>1, <3>5
        <4>2. d.levels \in Levels /\ RightBut(books, rows, m, d.levels, n)
          BY <1>0, <2>2, <4>1, RowsMissed
        <4>3. m # 0 => rows[m].period # rows[m + 1].period
          <5> SUFFICES ASSUME m # 0 PROVE rows[m].period # rows[m + 1].period
            OBVIOUS
          <5>1. rows[m].period < rows[m + 1].period
            BY <1>0, <1>4, <3>2, <3>3, <3>5
          <5>2. rows[m].period \in Nat
            <6>1. rows[m] \in Rows
              BY <1>0, <3>2 DEF IsLog
            <6> QED
              BY <6>1 DEF Rows
          <5> QED
            BY <5>1, <5>2
        <4> QED
          BY <1>0, <1>3, <2>2, <3>2, <3>4, <3>5, <4>2, <4>3 DEF GatedHeld
      <3>6. CASE b.seq # 0
        <4>1. RightBut(books, rows, p, b.levels, m) /\ b.levels \in Levels /\ p \in 0..m
              /\ b.seq = m /\ q = p
          BY <1>3, <2>1, <3>3, <3>4, <3>6
        <4>2. d.levels \in Levels /\ RightBut(books, rows, p, d.levels, n)
          BY <1>0, <2>2, <4>1, RowsRightBut
        <4>3. p \in 0..n /\ p # n
          BY <1>0, <3>2, <4>1
        <4> QED
          BY <1>0, <1>3, <2>2, <3>2, <4>1, <4>2, <4>3 DEF GatedHeld
      <3> QED
        BY <3>5, <3>6
    <2> QED
      BY <2>3, <2>4
  <1>6. CASE reach = "net"
    <2>1. b.synced /\ Reach(b, c) = "net" /\ d = Absorb(b, c, FALSE)
      BY <1>1, <1>6 DEF StepBy
    <2>2. n # 0 /\ b.seq # 0 /\ b.seq + 1 >= c.cur.first
      BY <1>3, <2>1, ReachesOf
    <2>3. EndsAt(books, c.cur, n) /\ Reads(c.cur, rows, n) /\ c.cur.first # None /\ c.cur.last = n
      BY <1>4, <2>2 DEF EndsAt, None
    <2>4. IsBook(d) /\ d.synced = b.synced /\ d.epoch = b.epoch /\ d.seq = n
      <3>1. LET e == Absorb(b, c, FALSE)
            IN  /\ IsBook(e) /\ e.synced = b.synced /\ e.epoch = b.epoch
                /\ e.seq = IF c.cur.first = None THEN b.seq ELSE c.cur.last
        BY <1>3, AbsorbIs, Zenon
      <3> QED
        BY <2>1, <2>3, <3>1, Zenon
    <2>5. d.levels = SetNet(b.levels, c.cur.levels)
      <3>1. d = [b EXCEPT !.levels = SetNet(@, c.cur.levels), !.seq = c.cur.last]
        BY <2>1, <2>3 DEF Absorb
      <3> QED
        BY <1>3, <3>1 DEF IsBook
    <2>6. d.levels \in Levels /\ RightBut(books, rows, p, d.levels, n)
      <3>1. b.seq \in 0..n /\ p \in 0..b.seq /\ b.levels \in Levels
            /\ RightBut(books, rows, p, b.levels, b.seq)
        BY <1>0, <1>3, <2>1
      <3>2. IsNet(c.cur) /\ n \in 0..Len(rows) /\ EndsAt(books, c.cur, n) /\ Reads(c.cur, rows, n)
            /\ b.seq + 1 >= c.cur.first
        BY <1>0, <1>4, <2>2, <2>3
      <3> DEFINE s == b.seq
                 held == b.levels
      <3> HIDE DEF n, s, held
      <3>3. /\ SetNet(held, c.cur.levels) \in Levels
            /\ RightBut(books, rows, p, SetNet(held, c.cur.levels), n)
        BY <3>1, <3>2, NetRightBut DEF s, held
      <3> QED
        BY <2>5, <3>3, Zenon DEF held
    <2>7. q = p /\ p \in 0..n /\ (p # 0 => p # n)
      BY <1>0, <1>3, <2>2, <2>4 DEF None
    <2> QED
      BY <1>0, <1>3, <2>4, <2>6, <2>7 DEF GatedHeld
  <1>7. CASE reach = "both"
    <2>1. b.synced /\ Reach(b, c) = "both" /\ d = Absorb(b, c, TRUE)
      BY <1>1, <1>7 DEF StepBy
    <2>2. /\ n # 0 /\ b.seq # 0 /\ c.prev.first # None
          /\ b.seq + 1 >= c.prev.first /\ b.seq + 1 < c.cur.first
      BY <1>3, <2>1, ReachesOf
    <2> DEFINE k == c.cur.first - 1
    <2>3. /\ EndsAt(books, c.cur, n) /\ Reads(c.cur, rows, n) /\ c.cur.last = n
          /\ c.cur.first \in 1..n /\ c.cur.first # None
      BY <1>4, <2>2 DEF EndsAt, None
    <2>4. /\ k \in 0..n /\ k \in Nat /\ b.seq \in 0..k /\ k + 1 = c.cur.first
          /\ EndsAt(books, c.prev, k) /\ Reads(c.prev, rows, k)
      <3>1. k \in 0..n /\ k \in Nat /\ k + 1 = c.cur.first
        BY <1>0, <2>3
      <3>2. b.seq \in 0..k
        BY <1>0, <1>3, <2>2, <2>3
      <3>3. c.cur.first > 1 /\ EndsAt(books, c.prev, k)
        BY <1>3, <1>4, <2>2, <2>3
      <3> QED
        BY <1>4, <2>2, <3>1, <3>2, <3>3
    <2>5. IsBook(d) /\ d.synced = b.synced /\ d.epoch = b.epoch /\ d.seq = n
      <3>1. LET e == Absorb(b, c, TRUE)
            IN  /\ IsBook(e) /\ e.synced = b.synced /\ e.epoch = b.epoch
                /\ e.seq = IF c.cur.first = None THEN b.seq ELSE c.cur.last
        BY <1>3, AbsorbIs, Zenon
      <3> QED
        BY <2>1, <2>3, <3>1, Zenon
    <2>6. d.levels = SetNet(SetNet(b.levels, c.prev.levels), c.cur.levels)
      <3>1. d = [b EXCEPT !.levels = SetNet(SetNet(@, c.prev.levels), c.cur.levels), !.seq = c.cur.last]
        BY <2>1, <2>3 DEF Absorb
      <3> QED
        BY <1>3, <3>1 DEF IsBook
    <2> DEFINE mid == SetNet(b.levels, c.prev.levels)
    <2>7. p \in 0..b.seq /\ b.levels \in Levels /\ RightBut(books, rows, p, b.levels, b.seq)
      BY <1>3, <2>1
    <2> HIDE DEF k
    <2>8. mid \in Levels /\ RightBut(books, rows, p, mid, k) /\ p \in 0..k
      BY <1>0, <1>4, <2>2, <2>4, <2>7, NetRightBut
    <2> HIDE DEF mid
    <2>9. k + 1 >= c.cur.first
      BY <2>4
    <2>10. /\ SetNet(mid, c.cur.levels) \in Levels
           /\ RightBut(books, rows, p, SetNet(mid, c.cur.levels), n)
      BY <1>0, <1>4, <2>3, <2>4, <2>8, <2>9, NetRightBut
    <2>11. d.levels \in Levels /\ RightBut(books, rows, p, d.levels, n)
      BY <2>6, <2>10 DEF mid
    <2>12. q = p /\ p \in 0..n /\ (p # 0 => p # n)
      BY <1>0, <1>3, <2>2, <2>5 DEF None
    <2> QED
      BY <1>0, <1>3, <2>5, <2>11, <2>12 DEF GatedHeld
  <1>8. CASE reach = "gone"
    <2> DEFINE off == [b EXCEPT !.synced = FALSE]
    <2>1. IsBook(off) /\ off.synced = FALSE /\ off.seq = b.seq /\ off.epoch = b.epoch
      <3>1. off = [levels |-> b.levels, epoch |-> b.epoch, synced |-> FALSE, seq |-> b.seq]
        BY <1>3, OffIs
      <3> HIDE DEF off
      <3> QED
        BY <3>1 DEF IsBook
    <2>2. d = Seeded(off, given, c)
      BY <1>1, <1>8 DEF StepBy
    <2> HIDE DEF off
    <2>3. CASE given = NoAnchor
      <3>1. d = off
        BY <2>2, <2>3 DEF Seeded
      <3>2. d.seq = b.seq /\ d.epoch = b.epoch /\ q = p /\ ~ d.synced /\ IsBook(d)
        BY <2>1, <3>1
      <3>3. d.seq \in 0..n
        BY <1>0, <1>3, <3>2
      <3> QED
        BY <1>3, <3>2, <3>3 DEF GatedHeld
    <2>4. CASE given # NoAnchor
      <3>1. m = n /\ given = books[n + 1]
        BY <2>4
      <3>2. SeededOn(Seeded(off, given, c), off, given, n)
        BY <2>1, <3>1, SeedIs
      <3>3. /\ IsBook(d) /\ d.epoch = b.epoch + 1 /\ d.seq = n /\ d.levels = books[n + 1]
        BY <2>1, <2>2, <3>1, <3>2 DEF SeededOn
      <3>4. q = 0
        BY <1>3, <3>3
      <3>5. books[n + 1] \in Levels /\ RightBut(books, rows, 0, books[n + 1], n)
        BY <1>0 DEF IsLog, RightBut
      <3> QED
        BY <1>0, <1>3, <3>1, <3>3, <3>4, <3>5 DEF GatedHeld
    <2> QED
      BY <2>3, <2>4
  <1> HIDE DEF reach
  <1> QED
    BY <1>2, <1>5, <1>6, <1>7, <1>8

\* The recording, its nets, and a book that is right as of where it stands.
GatedInv ==
    /\ NetInv /\ GatedHeld(history, tape, passed, book, Len(tape))
    /\ shown => book.synced
    /\ shown /\ chunk.fresh # <<>> => book.seq = Len(tape)

\* A sweep over one step of the feed, its gate open or shut, keeps it.
LEMMA GatedSweep ==
    ASSUME GatedInv, NEW rows, NEW given, NEW opens \in BOOLEAN, Sweep(rows, given, opens),
           IsLog(tape', history'), Agrees(history, history', Len(tape)),
           Len(tape) \in 0..Len(tape'), rows = SubSeq(tape', Len(tape) + 1, Len(tape')),
           \A i \in 1..Len(tape) : tape'[i] = tape[i],
           given = NoAnchor \/ (Len(tape') = Len(tape) /\ given = history'[Len(tape) + 1]),
           NetInv', chunk'.fresh = rows
    PROVE  GatedInv'
  <1> DEFINE m == Len(tape)
             n == Len(tape')
  <1>1. /\ book' = IF opens THEN StepBook(book, given, chunk') ELSE book
        /\ shown' = (opens /\ book'.synced)
        /\ passed' = IF book'.epoch # book.epoch THEN 0
                     ELSE IF book.seq = None /\ book'.seq # None THEN rows[1].seq - 1
                     ELSE passed
    BY DEF Sweep
  <1>2. m \in Nat /\ n \in Nat /\ m \in 0..n
    BY DEF GatedInv, NetInv, IsLog
  <1>3. GatedHeld(history', tape', passed, book, m)
    BY <1>2, GatedStays DEF GatedInv
  <1>4. Whole(chunk', history', n) /\ OnGrid(chunk', tape', n)
    BY DEF NetInv
  <1>5. CASE opens
    <2>1. book' = StepBook(book, given, chunk')
      BY <1>1, <1>5
    <2>2. passed' = IF book'.epoch # book.epoch THEN 0
                    ELSE IF book.seq = None /\ book'.seq # None THEN chunk'.fresh[1].seq - 1
                    ELSE passed
      BY <1>1
    <2>3. /\ GatedHeld(history', tape', passed', book', n)
          /\ book'.synced /\ m # n => book'.seq = n
      <3>1. Steps(tape', history', m, chunk', given)
        BY <1>2, <1>4 DEF Steps
      <3>2. passed' = PassedBy(book, book', chunk', passed)
        BY <2>2 DEF PassedBy
      <3> HIDE DEF m
      <3>3. Stepped(tape', history', m, PassedBy(book, book', chunk', passed), book')
        BY <1>3, <2>1, <3>1, StepIsRight, Zenon
      <3> QED
        BY <3>2, <3>3, Zenon DEF Stepped, n
    <2>4. chunk'.fresh # <<>> => m # n
      BY <1>2
    <2> QED
      BY <1>1, <2>3, <2>4 DEF GatedInv
  <1>6. CASE ~ opens
    <2>1. book' = book /\ ~ shown' /\ passed' = passed
      BY <1>1, <1>6
    <2>2. GatedHeld(history', tape', passed', book', n)
      <3>1. book.seq \in 0..m
        BY <1>3 DEF GatedHeld
      <3>2. book.seq \in 0..n
        BY <1>2, <3>1
      <3> QED
        BY <1>3, <2>1, <3>2 DEF GatedHeld
    <2> QED
      BY <2>1, <2>2 DEF GatedInv
  <1> QED
    BY <1>5, <1>6

\* Before the first step, and after every step, whichever lane it is of.
LEMMA GatedStarts ==
    ASSUME GatedBookConstants, BookInit
    PROVE  GatedInv
  <1>1. NetInv /\ passed = 0 /\ ~ shown
    BY NetInit, Opens DEF BookInit
  <1>2. IsBook(book) /\ book.seq = 0 /\ book.epoch = 0 /\ ~ book.synced /\ Len(tape) = 0
    BY Opens DEF BookInit
  <1> QED
    BY <1>1, <1>2 DEF GatedInv, GatedHeld

LEMMA GatedSteps ==
    ASSUME GatedBookConstants, GatedInv, [BookNext]_bookVars
    PROVE  GatedInv'
  <1>0. NetInv /\ IsLog(tape, history) /\ Len(tape) \in Nat
    BY DEF GatedInv, NetInv, IsLog
  <1>1. ASSUME NEW opens \in BOOLEAN, NEW k \in 1..MaxRun, NEW run \in RunsOf(k),
               RowsStep(NextRows(run), opens),
               \A i \in 1..k : run[i].period >= IF i = 1 THEN Period ELSE run[i - 1].period
        PROVE  GatedInv'
    <2>1. NetInv' /\ chunk'.fresh = NextRows(run)
      BY <1>0, <1>1, NetRun
    <2>2. Sweep(NextRows(run), NoAnchor, opens) /\ Record(NextRows(run)) /\ k \in Nat
      BY <1>1 DEF RowsStep, GatedBookConstants
    <2>3. /\ IsLog(tape', history') /\ Agrees(history, history', Len(tape))
          /\ Len(tape) \in 0..Len(tape')
          /\ NextRows(run) = SubSeq(tape', Len(tape) + 1, Len(tape'))
          /\ \A i \in 1..Len(tape) : tape'[i] = tape[i]
      BY <1>0, <2>2, Records
    <2> DEFINE rows == NextRows(run)
    <2> HIDE DEF rows
    <2>4. NetInv' /\ chunk'.fresh = rows /\ Sweep(rows, NoAnchor, opens)
          /\ rows = SubSeq(tape', Len(tape) + 1, Len(tape'))
      BY <2>1, <2>2, <2>3 DEF rows
    <2> QED
      BY <2>3, <2>4, GatedSweep
  <1>2. ASSUME NEW opens \in BOOLEAN, NEW given, given = NoAnchor \/ given = Truth,
               Sweep(<<>>, given, opens), UNCHANGED <<tape, history>>
        PROVE  GatedInv'
    <2>1. tape' = tape /\ history' = history
      BY <1>2
    <2>2. /\ IsLog(tape', history') /\ Ascending(tape') /\ Agrees(history, history', Len(tape))
          /\ Len(tape) \in 0..Len(tape') /\ \A i \in 1..Len(tape) : tape'[i] = tape[i]
      BY <1>0, <2>1 DEF NetInv, Agrees
    <2>3. <<>> = SubSeq(tape', Len(tape) + 1, Len(tape'))
      BY <1>0, <2>1 DEF IsLog
    <2>4. given = NoAnchor \/ (Len(tape') = Len(tape) /\ given = history'[Len(tape) + 1])
      BY <1>0, <1>2, <2>1 DEF IsLog, Truth, Last
    <2>5. NetInv' /\ chunk'.fresh = <<>>
      BY <1>0, <1>2, <2>2, <2>3, NetSweep
    <2> QED
      BY <1>2, <2>2, <2>3, <2>4, <2>5, GatedSweep
  <1>3. ASSUME NEW opens \in BOOLEAN, AnchorStep(opens)
        PROVE  GatedInv'
    BY <1>2, <1>3 DEF AnchorStep
  <1>4. ASSUME NEW opens \in BOOLEAN, OtherStep(opens)
        PROVE  GatedInv'
    BY <1>2, <1>4 DEF OtherStep
  <1>5. CASE UNCHANGED bookVars
    <2>1. NetInv'
      BY <1>0, <1>5, NetStep
    <2>2. UNCHANGED <<tape, history, chunk, book, shown, passed>>
      BY <1>5 DEF bookVars, vars
    <2> QED
      BY <2>1, <2>2 DEF GatedInv, GatedHeld, IsBook, RightBut, Wrote
  <1> QED
    BY <1>1, <1>3, <1>4, <1>5 DEF BookNext

\* book.rs, whatever gate a book sits behind and however it was resumed: what it
\* publishes is the recorder's book as of the row it stands on, the last one on a step
\* that carried rows -- but for the levels that only rows missed before it had a place
\* have written, and such a place is taken where a period opens.
THEOREM ReadableAsOfItsRow == BookSpec => []ReadableAsOf
  <1>1. BookInit => GatedInv
    BY GatedBookConstants, GatedStarts
  <1>2. GatedInv /\ [BookNext]_bookVars => GatedInv'
    BY GatedBookConstants, GatedSteps
  <1>3. GatedInv => ReadableAsOf
    BY DEF GatedInv, GatedHeld, RightBut, ReadableAsOf
  <1> QED
    BY <1>1, <1>2, <1>3, PTL DEF BookSpec

-----------------------------------------------------------------------------
(* The recorder's book.                                                     *)

Periods == {checkpoints[i].period : i \in DOMAIN checkpoints}

\* Checkpoints stand in the order of their periods, the last of them in the period
\* checkpointed; an unsynced book has written none.
Ordered ==
    /\ \A i \in DOMAIN checkpoints : checkpoints[i].period \in 0..checkpointed
    /\ \A i, j \in DOMAIN checkpoints : i < j => checkpoints[i].period < checkpoints[j].period

CheckpointInv ==
    /\ synced \in BOOLEAN /\ now \in Nat
    /\ checkpointed \in Int /\ checkpointed <= now
    /\ \E S : checkpoints \in Seq(S)
    /\ Ordered
    /\ ~ synced => checkpoints = <<>>
    /\ synced => checkpointed \in Periods
    /\ heard \subseteq Periods

\* A recorder that heard nothing keeps the cadence's invariant.
LEMMA Initially == ShadowInit => CheckpointInv
  <1> SUFFICES ASSUME ShadowInit PROVE CheckpointInv
    OBVIOUS
  <1>1. checkpoints = <<>> /\ checkpoints \in Seq({}) /\ DOMAIN checkpoints = {}
    BY DEF ShadowInit
  <1>2. \E S : checkpoints \in Seq(S)
    BY <1>1
  <1>3. Ordered
    BY <1>1 DEF Ordered
  <1>4. now \in Nat /\ checkpointed \in Int /\ checkpointed <= now
    BY DEF ShadowInit
  <1>5. synced = FALSE /\ heard = {}
    BY DEF ShadowInit
  <1> QED
    BY <1>1, <1>2, <1>3, <1>4, <1>5 DEF CheckpointInv

\* What Live::ingest_book does of any message once the book stands synced: the one
\* step that can touch a checkpoint.
LEMMA Receiving ==
    ASSUME CheckpointInv, NEW period \in Nat, Receive(period), synced' = TRUE
    PROVE  CheckpointInv'
  <1>1. now' = period /\ now <= period /\ heard' = heard \cup {period}
    BY DEF Receive
  <1>2. CASE ~ synced \/ checkpointed # period
    <2> DEFINE c == [period |-> period, at |-> Len(emitted'), levels |-> levels']
    <2>1. checkpointed' = period /\ checkpoints' = Append(checkpoints, c)
      BY <1>2 DEF Receive, Checkpoint
    <2>2. PICK S : checkpoints \in Seq(S)
      BY DEF CheckpointInv
    <2> HIDE DEF c
    <2>3. /\ checkpoints' \in Seq(S \cup {c})
          /\ DOMAIN checkpoints' = DOMAIN checkpoints \cup {Len(checkpoints) + 1}
          /\ DOMAIN checkpoints = 1..Len(checkpoints) /\ Len(checkpoints) \in Nat
          /\ \A i \in DOMAIN checkpoints : checkpoints'[i] = checkpoints[i]
          /\ checkpoints'[Len(checkpoints) + 1] = c
      BY <2>1, <2>2
    <2>4. c.period = period
      BY DEF c
    <2>5. \A i \in DOMAIN checkpoints : checkpoints[i].period \in 0..(period - 1)
      BY <1>1, <1>2, <2>3 DEF CheckpointInv, Ordered
    <2>6. Ordered'
      BY <2>1, <2>3, <2>4, <2>5 DEF CheckpointInv, Ordered
    <2>7. Periods' = Periods \cup {period}
      BY <2>3, <2>4 DEF Periods
    <2> QED
      BY <1>1, <2>1, <2>3, <2>6, <2>7 DEF CheckpointInv
  <1>3. CASE synced /\ checkpointed = period
    <2>1. UNCHANGED <<checkpointed, checkpoints>>
      BY <1>3 DEF Receive, Checkpoint
    <2> QED
      BY <1>1, <1>3, <2>1 DEF CheckpointInv, Ordered, Periods
  <1> QED
    BY <1>2, <1>3 DEF CheckpointInv

\* Every message received or lost keeps it.
LEMMA Stepping == CheckpointInv /\ [ShadowNext]_shadowVars => CheckpointInv'
  <1> SUFFICES ASSUME CheckpointInv, [ShadowNext]_shadowVars PROVE CheckpointInv'
    OBVIOUS
  <1>1. ASSUME NEW period \in 0..MaxCadence, SnapshotArrives(period) PROVE CheckpointInv'
    <2>1. period \in Nat /\ Receive(period) /\ synced' = TRUE
      BY <1>1, ShadowConstants DEF SnapshotArrives, Seed, Fold, CheckpointInv
    <2> QED
      BY <2>1, Receiving
  <1>2. ASSUME NEW period \in 0..MaxCadence, NEW change \in Changes,
               DeltaArrives(change, period)
        PROVE  CheckpointInv'
    <2>1. period \in Nat /\ Receive(period) /\ synced' = TRUE
      BY <1>2, ShadowConstants DEF DeltaArrives, Seed, Fold, CheckpointInv
    <2> QED
      BY <2>1, Receiving
  <1>3. ASSUME NEW change \in Changes, DeltaIsLost(change) PROVE CheckpointInv'
    BY <1>3 DEF DeltaIsLost, shadow, CheckpointInv, Ordered, Periods
  <1>4. CASE UNCHANGED shadowVars
    BY <1>4 DEF shadowVars, shadow, CheckpointInv, Ordered, Periods
  <1> QED
    BY <1>1, <1>2, <1>3, <1>4 DEF ShadowNext

\* The book's cadence keeps its invariant, whatever the venue sends and loses.
THEOREM CheckpointInvariance == ShadowSpec => []CheckpointInv
  BY Initially, Stepping, PTL DEF ShadowSpec

\* Every period the recorder was heard in holds a checkpoint, and no period holds
\* two: the boundary is absolute, so no spell of silence and no burst shifts it.
THEOREM OnePerPeriod == ShadowSpec => []OneCheckpointPerPeriod
  <1>1. CheckpointInv => OneCheckpointPerPeriod
    <2> SUFFICES ASSUME CheckpointInv, NEW p \in heard
                 PROVE  /\ \E i \in DOMAIN checkpoints : checkpoints[i].period = p
                        /\ \A i, j \in DOMAIN checkpoints :
                             checkpoints[i].period = p /\ checkpoints[j].period = p => i = j
      BY DEF OneCheckpointPerPeriod
    <2>1. DOMAIN checkpoints \subseteq Int
      BY DEF CheckpointInv
    <2> QED
      BY SMTT(30), <2>1 DEF CheckpointInv, Ordered, Periods
  <1> QED
    BY <1>1, CheckpointInvariance, PTL

-----------------------------------------------------------------------------
(* The fold of rows, and of a frame's rows.                                *)

\* SetRows is a fold, so the fold theorems speak of it.
LEMMA SetRowsFolds ==
    ASSUME NEW b, NEW rows
    PROVE  SetRows(b, rows) = Writing!Fold(0, b, rows)
  BY Zenon DEF SetRows, Writing!Fold, FoldLeft, MapThenFoldSet, Writing!FoldLeft,
               Writing!MapThenFoldSet, Max, Writing!Max

\* No rows set nothing.
LEMMA SetRowsEmpty ==
    ASSUME NEW b
    PROVE  SetRows(b, <<>>) = b
  BY SetRowsFolds, Writing!FoldEmpty

\* One row more sets its level last.
LEMMA SetRowsAppend ==
    ASSUME NEW b, NEW S, NEW rows \in Seq(S), NEW r \in S
    PROVE  SetRows(b, Append(rows, r)) = SetLevel(SetRows(b, rows), r.level, r.qty)
  <1>1. Writing!Fold(0, b, Append(rows, r)) = SetLevel(Writing!Fold(0, b, rows), r.level, r.qty)
    BY Writing!FoldAppend
  <1> QED
    BY <1>1, SetRowsFolds, Zenon

\* A emitted may be folded in two parts.
LEMMA SetRowsConcat ==
    ASSUME NEW b, NEW S, NEW rows \in Seq(S), NEW more \in Seq(S)
    PROVE  SetRows(b, rows \o more) = SetRows(SetRows(b, rows), more)
  <1>1. Writing!Fold(0, b, rows \o more) = Writing!Fold(0, Writing!Fold(0, b, rows), more)
    BY Writing!FoldConcat
  <1> QED
    BY <1>1, SetRowsFolds, Zenon

\* The keys of a frame in some order, each once.
LEMMA KeysOf ==
    ASSUME NEW D, IsFiniteSet(D)
    PROVE  /\ SetToSeq(D) \in Seq(D) /\ Len(SetToSeq(D)) = Cardinality(D)
           /\ \A d \in D : \E i \in 1..Len(SetToSeq(D)) : SetToSeq(D)[i] = d
  <1> DEFINE n == Cardinality(D)
             f == SetToSeq(D)
  <1>1. n \in Nat /\ ExistsBijection(1..n, D)
    BY FS_CardinalityType
  <1>2. \E g \in [1..n -> D] : IsInjective(g)
    BY <1>1 DEF ExistsBijection, Bijection, Injection
  <1>3. f \in [1..n -> D] /\ IsInjective(f)
    BY <1>2, Zenon DEF SetToSeq
  <1>4. f \in Injection(1..n, D)
    BY <1>3 DEF Injection
  <1> HIDE DEF f
  <1>5. Cardinality(1..n) = n
    BY <1>1, FS_Interval
  <1>6. f \in Surjection(1..n, D)
    BY <1>4, <1>5, FS_Injection
  <1>7. f \in Seq(D) /\ Len(f) = n
    BY <1>1, <1>3
  <1> QED
    BY <1>6, <1>7 DEF Surjection, f

\* What any level may say while a book is kept.
Books == [Level -> Qty \cup {Absent}]

\* A frame sets the levels it says, and no other.
Said(b, change) ==
    [l \in Level |-> IF l \in DOMAIN change THEN IF change[l] = 0 THEN Absent ELSE change[l] ELSE b[l]]

IsFrame(frame) ==
    /\ DOMAIN frame.levels \subseteq Level
    /\ \A l \in DOMAIN frame.levels : frame.levels[l] \in Qty

\* A frame's rows number its levels, each once, in some order.
LEMMA FrameRows ==
    ASSUME NEW frame, IsFrame(frame)
    PROVE  \E keys \in Seq(DOMAIN frame.levels) :
             /\ Numbered(frame) = [i \in 1..Len(keys) |->
                  [seq |-> seq + i, level |-> keys[i], qty |-> frame.levels[keys[i]], kind |-> frame.kind]]
             /\ \A l \in DOMAIN frame.levels : \E i \in 1..Len(keys) : keys[i] = l
             /\ \E S : Numbered(frame) \in Seq(S)
  <1> DEFINE D == DOMAIN frame.levels
             keys == SetToSeq(D)
             rows == Numbered(frame)
  <1>1. IsFiniteSet(D)
    BY ShadowConstants, FS_Subset DEF IsFrame
  <1>2. keys \in Seq(D) /\ \A d \in D : \E i \in 1..Len(keys) : keys[i] = d
    BY <1>1, KeysOf
  <1>3. rows = [i \in 1..Len(keys) |->
                  [seq |-> seq + i, level |-> keys[i], qty |-> frame.levels[keys[i]], kind |-> frame.kind]]
    BY Zenon DEF Numbered
  <1> HIDE DEF keys, rows
  <1>4. \E S : rows \in Seq(S)
    <2> DEFINE S == {rows[i] : i \in 1..Len(keys)}
    <2>1. Len(keys) \in Nat /\ DOMAIN rows = 1..Len(keys) /\ rows = [i \in 1..Len(keys) |-> rows[i]]
      BY <1>2, <1>3
    <2>2. \A i \in 1..Len(keys) : rows[i] \in S
      OBVIOUS
    <2> HIDE DEF S
    <2>3. rows \in Seq(S)
      BY <2>1, <2>2, IsASeq
    <2> QED
      BY <2>3
  <1> QED
    BY <1>2, <1>3, <1>4 DEF rows

\* Folding a frame's rows sets every level as the frame says, whatever their order.
LEMMA FoldsToWhatIsSaid ==
    ASSUME NEW b \in Books, NEW frame, IsFrame(frame)
    PROVE  SetRows(b, Numbered(frame)) = Said(b, frame.levels)
  <1> DEFINE change == frame.levels
             rows == Numbered(frame)
  <1>1. PICK keys \in Seq(DOMAIN change) :
             /\ rows = [i \in 1..Len(keys) |->
                  [seq |-> seq + i, level |-> keys[i], qty |-> frame.levels[keys[i]], kind |-> frame.kind]]
             /\ \A l \in DOMAIN change : \E i \in 1..Len(keys) : keys[i] = l
             /\ \E S : rows \in Seq(S)
    BY FrameRows
  <1>2. PICK S : rows \in Seq(S)
    BY <1>1
  <1> DEFINE n == Len(keys)
             part(k) == SetRows(b, SubSeq(rows, 1, k))
             Told(k, l) == \E i \in 1..k : keys[i] = l
             Good(g, k) == /\ g \in Books
                           /\ \A l \in Level : g[l] = IF Told(k, l)
                                THEN IF change[l] = 0 THEN Absent ELSE change[l] ELSE b[l]
             T == {k \in Nat : k <= n => Good(part(k), k)}
  <1>3. n \in Nat /\ Len(rows) = n /\ \A i \in 1..n : /\ keys[i] \in DOMAIN change /\ rows[i] \in S
                                   /\ rows[i].level = keys[i] /\ rows[i].qty = change[keys[i]]
    BY <1>1, <1>2
  <1>4. \A l \in DOMAIN change : l \in Level /\ change[l] \in Qty
    BY DEF IsFrame
  <1> HIDE DEF rows
  <1>5. 0 \in T
    <2>1. SubSeq(rows, 1, 0) = <<>>
      BY <1>2
    <2>2. part(0) = b
      BY <2>1, SetRowsEmpty
    <2>3. \A l : ~ Told(0, l)
      OBVIOUS
    <2>4. Good(b, 0)
      BY <2>3
    <2> QED
      BY <2>2, <2>4
  <1>6. ASSUME NEW k \in Nat, k \in T
        PROVE  k + 1 \in T
    <2>1. SUFFICES ASSUME k + 1 <= n
                   PROVE  Good(part(k + 1), k + 1)
      OBVIOUS
    <2> DEFINE g == part(k)
               r == rows[k + 1]
               key == keys[k + 1]
    <2>2. Good(g, k)
      BY <1>3, <1>6, <2>1
    <2>3. /\ k \in 0..Len(rows) /\ 0 \in 0..k /\ k < Len(rows) /\ 0 + 1 = 1
          /\ k + 1 \in 1..n
      BY <1>3, <2>1
    <2>4. r \in S /\ SubSeq(rows, 1, k) \in Seq(S) /\ SubSeq(rows, 1, k + 1) = Append(SubSeq(rows, 1, k), r)
      BY <1>2, <2>3, Writing!SubSeqGrows, Zenon
    <2>5. part(k + 1) = SetLevel(g, r.level, r.qty)
      <3> DEFINE some == SubSeq(rows, 1, k)
      <3>1. some \in Seq(S) /\ r \in S
        BY <2>4
      <3>2. SetRows(b, Append(some, r)) = SetLevel(SetRows(b, some), r.level, r.qty)
        <4> HIDE DEF some, r
        <4> QED
          BY <3>1, SetRowsAppend
      <3> QED
        BY <2>4, <3>2, Zenon
    <2>6. r.level = key /\ r.qty = change[key] /\ key \in Level /\ change[key] \in Qty
      BY <1>3, <1>4, <2>3
    <2>7. \A l : Told(k + 1, l) <=> Told(k, l) \/ l = key
      <3>1. \A i \in 1..(k + 1) : i \in 1..k \/ i = k + 1
        OBVIOUS
      <3>2. \A i \in 1..k : i \in 1..(k + 1)
        OBVIOUS
      <3>3. k + 1 \in 1..(k + 1)
        OBVIOUS
      <3> QED
        BY <3>1, <3>2, <3>3
    <2> DEFINE q == IF change[key] = 0 THEN Absent ELSE change[key]
               h == [g EXCEPT ![key] = q]
    <2>8. part(k + 1) = h
      BY <2>5, <2>6 DEF SetLevel
    <2> HIDE DEF g, key, Told
    <2>9. q \in Qty \cup {Absent}
      BY <2>6
    <2>10. Good(h, k + 1)
      BY <2>2, <2>6, <2>7, <2>9 DEF Books
    <2> QED
      BY <2>8, <2>10
  <1> HIDE DEF T
  <1>7. Nat \subseteq T
    BY <1>5, <1>6, Writing!Induction
  <1>8. n \in T /\ n <= n /\ SubSeq(rows, 1, n) = rows
    BY <1>2, <1>3, <1>7
  <1>9. Good(part(n), n) /\ part(n) = SetRows(b, rows)
    BY <1>8 DEF T
  <1>10. \A l \in Level : Told(n, l) <=> l \in DOMAIN change
    BY <1>1, <1>3
  <1> DEFINE all == SetRows(b, rows)
  <1>11. all \in Books /\ \A l \in Level : all[l] = Said(b, change)[l]
    BY <1>9, <1>10 DEF Said
  <1> HIDE DEF all
  <1>12. all = Said(b, change)
    BY <1>11 DEF Books, Said
  <1> QED
    BY <1>12 DEF all, rows

-----------------------------------------------------------------------------
(* The recording replays.                                                  *)

\* Checkpoint c, and the rows after it up to row n, make book b.
Makes(c, rows, n, b) ==
    /\ c.at \in 0..n
    /\ SetRows(c.levels, SubSeq(rows, c.at + 1, n)) = b

RecordingInv ==
    /\ \E S : emitted \in Seq(S)
    /\ \E S : checkpoints \in Seq(S)
    /\ ~ synced => checkpoints = <<>>
    /\ levels \in Books /\ venue \in Levels
    /\ \A i \in 1..Len(checkpoints) : Makes(checkpoints[i], emitted, Len(emitted), levels)
    /\ ~ drifts => levels = venue

\* An empty recording makes the empty book.
LEMMA RecordingStarts == ShadowInit => RecordingInv
  <1> SUFFICES ASSUME ShadowInit PROVE RecordingInv
    OBVIOUS
  <1>1. <<>> \in Seq({}) /\ Len(<<>>) = 0
    OBVIOUS
  <1>2. NoLevels \in Levels /\ NoLevels \in Books
    BY DEF NoLevels, Levels, Books
  <1>3. 1..0 = {}
    OBVIOUS
  <1> QED
    BY <1>1, <1>2, <1>3 DEF ShadowInit, RecordingInv

\* A checkpoint makes the book still when the rows after it are folded.
LEMMA MakesOn ==
    ASSUME NEW S, NEW rows \in Seq(S), NEW more \in Seq(S), NEW c, NEW b,
           Makes(c, rows, Len(rows), b)
    PROVE  Makes(c, rows \o more, Len(rows \o more), SetRows(b, more))
  <1> DEFINE n == Len(rows)
             m == Len(rows \o more)
             at == c.at
             read == SubSeq(rows, at + 1, n)
  <1>1. n \in Nat /\ m \in Nat /\ n <= m /\ at \in 0..n
    BY ConcatProperties DEF Makes
  <1>2. SubSeq(rows \o more, at + 1, m) = read \o more
    BY <1>1, Writing!SubSeqOn
  <1>3. SetRows(c.levels, read \o more) = SetRows(SetRows(c.levels, read), more)
    <2>1. read \in Seq(S)
      BY <1>1
    <2> HIDE DEF read
    <2> QED
      BY <2>1, SetRowsConcat
  <1>4. SetRows(c.levels, read) = b
    BY DEF Makes
  <1>5. at \in 0..m
    BY <1>1
  <1> HIDE DEF read
  <1> QED
    BY <1>2, <1>3, <1>4, <1>5 DEF Makes

\* The book of a checkpoint just written is the book.
LEMMA MakesItself ==
    ASSUME NEW S, NEW rows \in Seq(S), NEW b, NEW p
    PROVE  Makes([period |-> p, at |-> Len(rows), levels |-> b], rows, Len(rows), b)
  <1> DEFINE n == Len(rows)
             c == [period |-> p, at |-> n, levels |-> b]
  <1>1. n \in 0..n /\ SubSeq(rows, n + 1, n) = <<>>
    OBVIOUS
  <1>2. c.at = n /\ c.levels = b
    OBVIOUS
  <1> HIDE DEF c, n
  <1>3. SetRows(c.levels, SubSeq(rows, c.at + 1, n)) = b
    BY <1>1, <1>2, SetRowsEmpty
  <1>4. Makes(c, rows, n, b)
    BY <1>1, <1>2, <1>3 DEF Makes
  <1> QED
    BY <1>4 DEF c, n

\* A book that takes over what a message says is a book.
LEMMA SaidIs ==
    ASSUME NEW b \in Books, NEW change, DOMAIN change \subseteq Level,
           \A l \in DOMAIN change : change[l] \in Qty
    PROVE  Said(b, change) \in Books
  BY DEF Said, Books

\* What a message leaves, once the book it left and its rows are known.
LEMMA Received ==
    ASSUME RecordingInv, NEW period, Receive(period), levels' \in Books, venue' \in Levels,
           synced' = TRUE, ~ drifts' => levels' = venue',
           \/ ~ synced /\ emitted' = emitted
           \/ \E S : \E more \in Seq(S) : emitted' = emitted \o more /\ levels' = SetRows(levels, more)
    PROVE  RecordingInv'
  <1>1. PICK T : emitted \in Seq(T)
    BY DEF RecordingInv
  <1>2. (\E S : emitted' \in Seq(S))
        /\ \A i \in 1..Len(checkpoints) : Makes(checkpoints[i], emitted', Len(emitted'), levels')
    <2>1. CASE ~ synced /\ emitted' = emitted
      BY <1>1, <2>1 DEF RecordingInv
    <2>2. CASE \E S : \E more \in Seq(S) : emitted' = emitted \o more /\ levels' = SetRows(levels, more)
      <3>1. PICK S : \E more \in Seq(S) : emitted' = emitted \o more /\ levels' = SetRows(levels, more)
        BY <2>2
      <3>2. PICK more \in Seq(S) : emitted' = emitted \o more /\ levels' = SetRows(levels, more)
        BY <3>1
      <3>3. emitted \in Seq(S \cup T) /\ more \in Seq(S \cup T)
        BY <1>1
      <3>4. emitted \o more \in Seq(S \cup T)
        BY <3>3, ConcatProperties
      <3>5. ASSUME NEW i \in 1..Len(checkpoints)
            PROVE  Makes(checkpoints[i], emitted', Len(emitted'), levels')
        <4>1. Makes(checkpoints[i], emitted, Len(emitted), levels)
          BY DEF RecordingInv
        <4>2. Makes(checkpoints[i], emitted \o more, Len(emitted \o more), SetRows(levels, more))
          BY <3>3, <4>1, MakesOn
        <4> QED
          BY <3>2, <4>2
      <3> QED
        BY <3>2, <3>4, <3>5
    <2> QED
      BY <2>1, <2>2
  <1>3. PICK T1 : emitted' \in Seq(T1)
    BY <1>2
  <1>4. PICK C : checkpoints \in Seq(C)
    BY DEF RecordingInv
  <1> DEFINE c == [period |-> period, at |-> Len(emitted'), levels |-> levels']
  <1>5. checkpoints' = checkpoints \/ checkpoints' = Append(checkpoints, c)
    BY DEF Receive, Checkpoint
  <1>6. Makes(c, emitted', Len(emitted'), levels')
    BY <1>3, MakesItself
  <1> HIDE DEF c
  <1>7. (\E S : checkpoints' \in Seq(S))
        /\ \A i \in 1..Len(checkpoints') : Makes(checkpoints'[i], emitted', Len(emitted'), levels')
    <2>1. CASE checkpoints' = checkpoints
      BY <1>2, <1>4, <2>1
    <2>2. CASE checkpoints' = Append(checkpoints, c)
      <3>1. checkpoints' \in Seq(C \cup {c})
        BY <1>4, <2>2
      <3>2. ASSUME NEW i \in 1..Len(checkpoints')
            PROVE  Makes(checkpoints'[i], emitted', Len(emitted'), levels')
        <4>1. \/ i \in 1..Len(checkpoints) /\ checkpoints'[i] = checkpoints[i]
              \/ checkpoints'[i] = c
          BY <1>4, <2>2
        <4> QED
          BY <1>2, <1>6, <4>1
      <3> QED
        BY <3>1, <3>2
    <2> QED
      BY <1>5, <2>1, <2>2
  <1> QED
    BY <1>2, <1>7 DEF RecordingInv

\* A delta carries the venue's book where it carries ours: the levels it names.
LEMMA DeltaSays ==
    ASSUME NEW change \in Changes, venue \in Levels
    PROVE  /\ SetNet(venue, Shape(change)) \in Levels
           /\ Said(venue, change) = SetNet(venue, Shape(change))
           /\ Shape(change) \in Books
  <1>1. DOMAIN change \subseteq Level /\ \A l \in DOMAIN change : change[l] \in Qty
    BY ShadowConstants
  <1>2. Qty \subseteq Nat /\ Absent = -1 /\ -1 \notin Nat
    BY BookConstants DEF Absent
  <1> DEFINE shape == Shape(change)
             net == SetNet(venue, shape)
             said == Said(venue, change)
  <1>3. ASSUME NEW l \in Level
        PROVE  /\ net[l] = said[l] /\ net[l] \in (Qty \ {0}) \cup {Absent}
               /\ shape[l] \in Qty \cup {Absent}
    <2>1. shape[l] = IF l \in DOMAIN change THEN change[l] ELSE Absent
      BY DEF Shape
    <2>2. net[l] = IF shape[l] = Absent THEN venue[l] ELSE SetLevel(venue, l, shape[l])[l]
      BY DEF SetNet
    <2>3. SetLevel(venue, l, shape[l])[l] = IF shape[l] = 0 THEN Absent ELSE shape[l]
      BY DEF SetLevel, Levels
    <2>4. said[l] = IF l \in DOMAIN change THEN IF change[l] = 0 THEN Absent ELSE change[l] ELSE venue[l]
      BY DEF Said
    <2>5. venue[l] \in (Qty \ {0}) \cup {Absent}
      BY DEF Levels
    <2>6. CASE l \in DOMAIN change
      <3>1. shape[l] = change[l] /\ change[l] \in Qty /\ change[l] # Absent
        BY <1>1, <1>2, <2>1, <2>6
      <3> HIDE DEF shape, net, said
      <3> QED
        BY <3>1, <2>2, <2>3, <2>4, <2>6
    <2>7. CASE l \notin DOMAIN change
      <3>1. shape[l] = Absent
        BY <2>1, <2>7
      <3> HIDE DEF shape, net, said
      <3> QED
        BY <3>1, <2>2, <2>4, <2>5, <2>7
    <2> QED
      BY <2>6, <2>7
  <1>4. net = [l \in Level |-> net[l]] /\ said = [l \in Level |-> said[l]] /\ shape = [l \in Level |-> shape[l]]
    BY DEF SetNet, Said, Shape
  <1> HIDE DEF shape, net, said
  <1>5. net \in Levels /\ net = said /\ shape \in Books
    BY <1>3, <1>4 DEF Levels, Books
  <1> QED
    BY <1>5 DEF shape, net, said

\* A reconciling snapshot says just what parts our book from the venue's.
LEMMA DiffSays ==
    ASSUME NEW b \in Books, venue \in Levels
    PROVE  /\ IsFrame(Correction(Diff(b, venue)))
           /\ Said(b, Diff(b, venue)) = venue
  <1> DEFINE change == Diff(b, venue)
             said == Said(b, change)
  <1>1. DOMAIN change = {m \in Level : b[m] # venue[m]}
    BY DEF Diff
  <1>2. \A l \in DOMAIN change : change[l] = IF venue[l] = Absent THEN 0 ELSE venue[l]
    BY DEF Diff
  <1>3. 0 \in Qty /\ Qty \subseteq Nat /\ Absent = -1
    BY BookConstants DEF Absent
  <1>4. \A l \in Level : venue[l] \in (Qty \ {0}) \cup {Absent}
    BY DEF Levels
  <1>5. Correction(change).levels = change
    BY DEF Correction
  <1>6. \A l \in Level : said[l] = IF l \in DOMAIN change THEN IF change[l] = 0 THEN Absent ELSE change[l] ELSE b[l]
    BY DEF Said
  <1>7. said = [l \in Level |-> said[l]] /\ venue = [l \in Level |-> venue[l]]
    BY DEF Said, Levels
  <1> HIDE DEF change, said
  <1>8. \A l \in DOMAIN change : change[l] \in Qty
    BY <1>1, <1>2, <1>3, <1>4
  <1>9. \A l \in Level : said[l] = venue[l]
    BY <1>1, <1>2, <1>3, <1>4, <1>6
  <1>10. said = venue
    BY <1>7, <1>9
  <1>11. IsFrame(Correction(change))
    BY <1>1, <1>5, <1>8 DEF IsFrame
  <1> QED
    BY <1>10, <1>11 DEF change, said

\* A frame's rows carry a synced book to what it says.
LEMMA Folded ==
    ASSUME RecordingInv, NEW frame, IsFrame(frame), Fold(frame)
    PROVE  /\ levels' = Said(levels, frame.levels)
           /\ synced' = synced
           /\ \E S : \E more \in Seq(S) : emitted' = emitted \o more /\ levels' = SetRows(levels, more)
  <1>1. levels \in Books
    BY DEF RecordingInv
  <1>2. levels' = SetRows(levels, Numbered(frame)) /\ emitted' = emitted \o Numbered(frame) /\ synced' = synced
    BY DEF Fold
  <1>3. SetRows(levels, Numbered(frame)) = Said(levels, frame.levels)
    BY <1>1, FoldsToWhatIsSaid
  <1>4. \E S : Numbered(frame) \in Seq(S)
    BY FrameRows
  <1> QED
    BY <1>2, <1>3, <1>4

\* Snapshots, deltas, gaps and losses keep every checkpoint's replay.
LEMMA RecordingSteps == RecordingInv /\ [ShadowNext]_shadowVars => RecordingInv'
  <1> SUFFICES ASSUME RecordingInv, [ShadowNext]_shadowVars PROVE RecordingInv'
    OBVIOUS
  <1>1. ASSUME NEW period \in 0..MaxCadence, SnapshotArrives(period) PROVE RecordingInv'
    <2>1. Receive(period) /\ venue' = venue /\ drifts' = FALSE /\ venue \in Levels /\ levels \in Books
      BY <1>1 DEF SnapshotArrives, RecordingInv
    <2>2. venue' \in Levels /\ venue \in Books
      BY <2>1 DEF Levels, Books
    <2>3. CASE Seed(venue)
      <3>1. levels' = venue /\ synced' = TRUE /\ ~ synced /\ emitted' = emitted
        BY <2>3 DEF Seed
      <3>2. levels' \in Books /\ (~ drifts' => levels' = venue')
        BY <2>1, <2>2, <3>1
      <3> QED
        BY <2>1, <2>2, <3>1, <3>2, Received
    <2>4. CASE Fold(Correction(Diff(levels, venue)))
      <3> DEFINE frame == Correction(Diff(levels, venue))
      <3>1. frame.levels = Diff(levels, venue)
        BY DEF Correction
      <3>2. IsFrame(frame) /\ Said(levels, Diff(levels, venue)) = venue
        BY <2>1, DiffSays
      <3>3. /\ levels' = Said(levels, frame.levels) /\ synced' = synced
            /\ \E S : \E more \in Seq(S) : emitted' = emitted \o more /\ levels' = SetRows(levels, more)
        BY <2>4, <3>2, Folded
      <3>4. synced' = TRUE
        BY <2>4, <3>3 DEF Fold
      <3> HIDE DEF frame
      <3>5. levels' = venue
        BY <3>1, <3>2, <3>3
      <3>6. levels' \in Books /\ (~ drifts' => levels' = venue')
        BY <2>1, <2>2, <3>5
      <3> QED
        BY <2>1, <2>2, <3>3, <3>4, <3>6, Received
    <2> QED
      BY <1>1, <2>3, <2>4 DEF SnapshotArrives
  <1>2. ASSUME NEW period \in 0..MaxCadence, NEW change \in Changes, DeltaArrives(change, period)
        PROVE  RecordingInv'
    <2>1. /\ Receive(period) /\ venue' = SetNet(venue, Shape(change))
          /\ venue \in Levels /\ levels \in Books /\ (~ drifts => levels = venue)
      BY <1>2 DEF DeltaArrives, RecordingInv
    <2>2. venue' \in Levels /\ Said(venue, change) = venue' /\ Shape(change) \in Books
      BY <2>1, DeltaSays
    <2>3. CASE Seed(Shape(change)) /\ drifts' = TRUE
      <3>1. levels' = Shape(change) /\ synced' = TRUE /\ ~ synced /\ emitted' = emitted
        BY <2>3 DEF Seed
      <3>2. levels' \in Books /\ (~ drifts' => levels' = venue')
        BY <2>2, <2>3, <3>1
      <3> QED
        BY <2>1, <2>2, <3>1, <3>2, Received
    <2>4. CASE Fold(IF broken THEN Correction(change) ELSE Update(change)) /\ UNCHANGED drifts
      <3> DEFINE frame == IF broken THEN Correction(change) ELSE Update(change)
      <3>1. frame.levels = change
        BY DEF Correction, Update
      <3>2. Fold(frame) /\ drifts' = drifts
        BY <2>4
      <3>3. DOMAIN change \subseteq Level /\ \A l \in DOMAIN change : change[l] \in Qty
        BY ShadowConstants
      <3> HIDE DEF frame
      <3>4. IsFrame(frame)
        BY <3>1, <3>3 DEF IsFrame
      <3>5. /\ levels' = Said(levels, change) /\ synced' = synced
            /\ \E S : \E more \in Seq(S) : emitted' = emitted \o more /\ levels' = SetRows(levels, more)
        BY <3>1, <3>2, <3>4, Folded
      <3>6. synced' = TRUE
        BY <3>2, <3>5 DEF Fold
      <3>7. levels' \in Books
        BY <2>1, <3>3, <3>5, SaidIs
      <3>8. ~ drifts' => levels' = venue'
        BY <2>1, <2>2, <3>2, <3>5
      <3> QED
        BY <2>1, <2>2, <3>5, <3>6, <3>7, <3>8, Received
    <2> QED
      BY <1>2, <2>3, <2>4 DEF DeltaArrives
  <1>3. ASSUME NEW change \in Changes, DeltaIsLost(change) PROVE RecordingInv'
    <2>1. /\ venue' = SetNet(venue, Shape(change)) /\ drifts' = TRUE
          /\ levels' = levels /\ synced' = synced /\ emitted' = emitted /\ checkpoints' = checkpoints
      BY <1>3 DEF DeltaIsLost, shadow
    <2>2. venue' \in Levels
      BY <2>1, DeltaSays DEF RecordingInv
    <2> QED
      BY <2>1, <2>2 DEF RecordingInv
  <1>4. CASE UNCHANGED shadowVars
    BY <1>4 DEF shadowVars, shadow, RecordingInv
  <1> QED
    BY <1>1, <1>2, <1>3, <1>4 DEF ShadowNext

\* Every checkpoint of ShadowBook with the rows behind it makes the book it holds,
\* and until a delta is lost that book is the venue's.
THEOREM RecordingInvariance == ShadowSpec => []RecordingInv
  BY RecordingStarts, RecordingSteps, PTL DEF ShadowSpec

\* The recording replays exactly: from any checkpoint, the rows written after it
\* make the book, whatever was lost, gapped or reconciled in between.
THEOREM CheckpointsReplayExactly == ShadowSpec => []CheckpointsReplay
  <1>1. RecordingInv => CheckpointsReplay
    BY DEF RecordingInv, CheckpointsReplay, Makes
  <1> QED
    BY <1>1, RecordingInvariance, PTL

\* From a snapshot on, whatever the book held before it, the recorder's book is
\* the venue's until a delta is lost.
THEOREM TheBookIsTheVenues == ShadowSpec => []AgreesWithTheVenue
  <1>1. RecordingInv => AgreesWithTheVenue
    BY DEF RecordingInv, AgreesWithTheVenue
  <1> QED
    BY <1>1, RecordingInvariance, PTL
=============================================================================
