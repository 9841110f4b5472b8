----------------------------- MODULE RecorderProofs -----------------------------
(***************************************************************************)
(* That the recorder's files hold what it was given: a finished session's  *)
(* catalog answers any range with the rows of that range, a replay is      *)
(* seeded with the newest checkpoint that is young enough, and the writer  *)
(* dies of nothing but a venue time two messages of a lane share -- for    *)
(* any lanes, messages, kills and bounds.                                  *)
(***************************************************************************)
EXTENDS Recorder, FiniteSetTheorems, SequenceTheorems, TLAPS

Sifting == INSTANCE FoldTheorems
             WITH Op <- LAMBDA T, kept, e : IF e \in T THEN Append(kept, e) ELSE kept
Laying == INSTANCE FoldTheorems WITH Op <- LAMBDA env, rows, f : rows \o f.rows
Sending == INSTANCE FoldTheorems
             WITH Op <- LAMBDA l, rows, b : IF b.lane = l THEN rows \o b.rows ELSE rows
Flushing == INSTANCE FoldTheorems
             WITH Op <- LAMBDA held, sent, l : IF held[l] = <<>> THEN sent
                                               ELSE Append(sent, [lane |-> l, rows |-> held[l]])

-----------------------------------------------------------------------------
(* What is in a sequence, and what is among it.                            *)

\* The members of a sequence.
LEMMA InSet == \A s : \A x : x \in ToSet(s) <=> \E i \in DOMAIN s : s[i] = x
  BY Zenon DEF ToSet

\* The members of a sequence over S are of S.
LEMMA SetOfSeq ==
    ASSUME NEW S, NEW s \in Seq(S)
    PROVE  /\ \A x : x \in ToSet(s) <=> \E i \in 1..Len(s) : s[i] = x
           /\ ToSet(s) \subseteq S
           /\ s = <<>> <=> ToSet(s) = {}
  <1>1. DOMAIN s = 1..Len(s) /\ Len(s) \in Nat /\ \A i \in 1..Len(s) : s[i] \in S
    OBVIOUS
  <1>2. \A x : x \in ToSet(s) <=> \E i \in 1..Len(s) : s[i] = x
    BY <1>1, InSet
  <1>3. ASSUME s # <<>>
        PROVE  ToSet(s) # {}
    <2>1. 1 \in 1..Len(s)
      BY <1>3
    <2> QED
      BY <1>2, <2>1
  <1>4. Len(<<>>) = 0 /\ 1..0 = {}
    OBVIOUS
  <1> QED
    BY <1>1, <1>2, <1>3, <1>4

\* An empty one has none.
LEMMA SetOfEmpty == ToSet(<<>>) = {}
  <1>1. <<>> \in Seq({})
    OBVIOUS
  <1> QED
    BY <1>1, SetOfSeq

\* One element more is one member more.
LEMMA SetOfAppend ==
    ASSUME NEW S, NEW s \in Seq(S), NEW e \in S
    PROVE  Append(s, e) \in Seq(S) /\ ToSet(Append(s, e)) = ToSet(s) \cup {e}
  <1> DEFINE n == Len(s)
             t == Append(s, e)
  <1>1. t \in Seq(S) /\ Len(t) = n + 1 /\ n \in Nat /\ t[n + 1] = e /\ \A i \in 1..n : t[i] = s[i]
    OBVIOUS
  <1> HIDE DEF t, n
  <1>2. \A x : x \in ToSet(t) <=> \E i \in 1..(n + 1) : t[i] = x
    BY <1>1, SetOfSeq
  <1>3. \A x : x \in ToSet(s) <=> \E i \in 1..n : s[i] = x
    BY SetOfSeq DEF n
  <1>4. \A i \in 1..(n + 1) : i \in 1..n \/ i = n + 1
    BY <1>1
  <1>5. \A i \in 1..n : i \in 1..(n + 1)
    BY <1>1
  <1>6. n + 1 \in 1..(n + 1)
    BY <1>1
  <1>7. \A x : x \in ToSet(t) <=> x \in ToSet(s) \/ x = e
    BY <1>1, <1>2, <1>3, <1>4, <1>5, <1>6
  <1> QED
    BY <1>1, <1>7 DEF t

\* Two sequences joined have the members of both.
LEMMA SetOfConcat ==
    ASSUME NEW S, NEW s \in Seq(S), NEW t \in Seq(S)
    PROVE  s \o t \in Seq(S) /\ ToSet(s \o t) = ToSet(s) \cup ToSet(t)
  <1> DEFINE n == Len(s)
             k == Len(t)
             all == s \o t
  <1>1. /\ all \in Seq(S) /\ Len(all) = n + k /\ n \in Nat /\ k \in Nat
        /\ \A i \in 1..n : all[i] = s[i]
        /\ \A i \in 1..k : all[n + i] = t[i]
    BY ConcatProperties
  <1> HIDE DEF all, n, k
  <1>2. \A i \in 1..(n + k) : i \in 1..n \/ (i - n \in 1..k /\ n + (i - n) = i)
    BY <1>1
  <1>3. \A i \in 1..n : i \in 1..(n + k)
    BY <1>1
  <1>4. \A i \in 1..k : n + i \in 1..(n + k)
    BY <1>1
  <1>5. \A x : x \in ToSet(all) <=> \E i \in 1..(n + k) : all[i] = x
    BY <1>1, SetOfSeq
  <1>6. (\A x : x \in ToSet(s) <=> \E i \in 1..n : s[i] = x)
        /\ \A x : x \in ToSet(t) <=> \E i \in 1..k : t[i] = x
    BY SetOfSeq DEF n, k
  <1>7. ASSUME NEW x \in ToSet(all)
        PROVE  x \in ToSet(s) \cup ToSet(t)
    <2>1. PICK i \in 1..(n + k) : all[i] = x
      BY <1>5
    <2>2. CASE i \in 1..n
      BY <1>1, <1>6, <2>1, <2>2
    <2>3. CASE i - n \in 1..k /\ n + (i - n) = i
      <3>1. all[n + (i - n)] = t[i - n]
        BY <1>1, <2>3
      <3> QED
        BY <1>6, <2>1, <2>3, <3>1
    <2> QED
      BY <1>2, <2>2, <2>3
  <1>8. ToSet(s) \subseteq ToSet(all)
    BY <1>1, <1>3, <1>5, <1>6
  <1>9. ToSet(t) \subseteq ToSet(all)
    BY <1>1, <1>4, <1>5, <1>6
  <1> QED
    BY <1>1, <1>7, <1>8, <1>9 DEF all

\* Of nothing, nothing is kept.
LEMMA AmongEmpty == ASSUME NEW T PROVE Among(<<>>, T) = <<>>
  <1>1. Sifting!Fold(T, <<>>, <<>>) = <<>>
    BY Sifting!FoldEmpty
  <1> QED
    BY <1>1, Zenon DEF Among, Sifting!Fold, FoldLeft, MapThenFoldSet,
                       Sifting!FoldLeft, Sifting!MapThenFoldSet, Max, Sifting!Max

\* Among is a fold, so the fold theorems speak of it.
LEMMA AmongFolds ==
    ASSUME NEW T, NEW s
    PROVE  Sifting!Fold(T, <<>>, s) = Among(s, T)
  BY Zenon DEF Among, Sifting!Fold, FoldLeft, MapThenFoldSet,
               Sifting!FoldLeft, Sifting!MapThenFoldSet, Max, Sifting!Max

\* One element more is kept, last, if it is among those asked for.
LEMMA AmongAppend ==
    ASSUME NEW T, NEW S, NEW s \in Seq(S), NEW e \in S
    PROVE  Among(Append(s, e), T) = IF e \in T THEN Append(Among(s, T), e) ELSE Among(s, T)
  <1>1. Sifting!Fold(T, <<>>, Append(s, e)) =
          IF e \in T THEN Append(Sifting!Fold(T, <<>>, s), e) ELSE Sifting!Fold(T, <<>>, s)
    BY Sifting!FoldAppend
  <1> QED
    BY <1>1, AmongFolds

\* Rows, what files hold one behind the other, is a fold.
LEMMA RowsFolds ==
    ASSUME NEW s
    PROVE  Laying!Fold(0, <<>>, s) = Rows(s)
  BY Zenon DEF Rows, Laying!Fold, FoldLeft, MapThenFoldSet,
               Laying!FoldLeft, Laying!MapThenFoldSet, Max, Laying!Max

\* No files hold no rows.
LEMMA RowsEmpty == Rows(<<>>) = <<>>
  BY RowsFolds, Laying!FoldEmpty

\* A file more is read last.
LEMMA RowsAppend ==
    ASSUME NEW S, NEW s \in Seq(S), NEW f \in S
    PROVE  Rows(Append(s, f)) = Rows(s) \o f.rows
  <1>1. Laying!Fold(0, <<>>, Append(s, f)) = Laying!Fold(0, <<>>, s) \o f.rows
    BY Laying!FoldAppend
  <1> QED
    BY <1>1, RowsFolds

\* What is among s and in T: a sequence of just that.
LEMMA AmongHolds ==
    ASSUME NEW T, NEW S, NEW s \in Seq(S)
    PROVE  Among(s, T) \in Seq(S) /\ ToSet(Among(s, T)) = ToSet(s) \cap T
  <1> DEFINE Good(q) == Among(q, T) \in Seq(S) /\ ToSet(Among(q, T)) = ToSet(q) \cap T
             U == {q \in Seq(S) : Good(q)}
  <1>1. <<>> \in U
    <2>1. <<>> \in Seq(S)
      OBVIOUS
    <2> QED
      BY <2>1, AmongEmpty, SetOfEmpty
  <1>2. ASSUME NEW q \in Seq(S), NEW e \in S, q \in U
        PROVE  Append(q, e) \in U
    <2> DEFINE a == Among(q, T)
               b == Append(q, e)
    <2>1. a \in Seq(S) /\ ToSet(a) = ToSet(q) \cap T
      BY <1>2
    <2>2. b \in Seq(S) /\ ToSet(b) = ToSet(q) \cup {e}
      BY SetOfAppend
    <2>3. Among(b, T) = IF e \in T THEN Append(a, e) ELSE a
      BY AmongAppend
    <2> HIDE DEF a, b
    <2>4. Append(a, e) \in Seq(S) /\ ToSet(Append(a, e)) = ToSet(a) \cup {e}
      BY <2>1, SetOfAppend
    <2>5. Good(b)
      BY <2>1, <2>2, <2>3, <2>4
    <2> QED
      BY <2>2, <2>5 DEF b
  <1> HIDE DEF U
  <1>3. Seq(S) \subseteq U
    BY <1>1, <1>2, Sifting!SeqInduction
  <1> QED
    BY <1>3 DEF U

\* Two sets that tell the elements of s apart alike keep the same of them.
LEMMA AmongSame ==
    ASSUME NEW T, NEW V, NEW S, NEW s \in Seq(S), ToSet(s) \cap T = ToSet(s) \cap V
    PROVE  Among(s, T) = Among(s, V)
  <1> DEFINE U == {q \in Seq(S) : ToSet(q) \cap T = ToSet(q) \cap V => Among(q, T) = Among(q, V)}
  <1>1. <<>> \in U
    BY AmongEmpty
  <1>2. ASSUME NEW q \in Seq(S), NEW e \in S, q \in U
        PROVE  Append(q, e) \in U
    <2> DEFINE b == Append(q, e)
    <2>1. b \in Seq(S) /\ ToSet(b) = ToSet(q) \cup {e}
      BY SetOfAppend
    <2>2. /\ Among(b, T) = IF e \in T THEN Append(Among(q, T), e) ELSE Among(q, T)
          /\ Among(b, V) = IF e \in V THEN Append(Among(q, V), e) ELSE Among(q, V)
      BY AmongAppend
    <2> HIDE DEF b
    <2>3. ASSUME ToSet(b) \cap T = ToSet(b) \cap V
          PROVE  Among(b, T) = Among(b, V)
      <3>1. e \in T <=> e \in V
        BY <2>1, <2>3
      <3>2. ToSet(q) \cap T = ToSet(q) \cap V
        BY <2>1, <2>3
      <3>3. Among(q, T) = Among(q, V)
        BY <1>2, <3>2
      <3> QED
        BY <2>2, <3>1, <3>3
    <2> QED
      BY <2>1, <2>3 DEF b
  <1> HIDE DEF U
  <1>3. Seq(S) \subseteq U
    BY <1>1, <1>2, Sifting!SeqInduction
  <1> QED
    BY <1>3 DEF U

\* Joining three, and one element more: named, so that the provers take them whole.
Joins(s, t, u) == (s \o t) \o u = s \o (t \o u)
Extends(s, t, e) == Append(s \o t, e) = s \o Append(t, e)

\* Concatenation associates.
LEMMA JoinsAll ==
    ASSUME NEW S, NEW s \in Seq(S), NEW t \in Seq(S), NEW u \in Seq(S)
    PROVE  Joins(s, t, u)
  BY ConcatAssociative DEF Joins

\* An element appended to the second of two joined sequences is appended to both.
LEMMA ExtendsAll ==
    ASSUME NEW S, NEW s \in Seq(S), NEW t \in Seq(S), NEW e \in S
    PROVE  Extends(s, t, e)
  <1>1. \A q, x : Append(q, x) = q \o <<x>>
    OBVIOUS
  <1> QED
    BY <1>1 DEF Extends

\* Sifting two parts is sifting the whole.
LEMMA AmongConcat ==
    ASSUME NEW T, NEW S, NEW s \in Seq(S), NEW t \in Seq(S)
    PROVE  Among(s \o t, T) = Among(s, T) \o Among(t, T)
  <1> DEFINE U == {q \in Seq(S) : Among(s \o q, T) = Among(s, T) \o Among(q, T)}
             a == Among(s, T)
  <1>0. a \in Seq(S)
    BY AmongHolds
  <1>1. <<>> \in U
    <2>1. s \o <<>> = s
      OBVIOUS
    <2> HIDE DEF a
    <2>2. a \o <<>> = a
      BY <1>0
    <2>3. <<>> \in Seq(S)
      OBVIOUS
    <2> QED
      BY <2>1, <2>2, <2>3, AmongEmpty DEF a
  <1>2. ASSUME NEW q \in Seq(S), NEW e \in S, q \in U
        PROVE  Append(q, e) \in U
    <2> DEFINE b == Among(q, T)
    <2>1. s \o Append(q, e) = Append(s \o q, e)
      <3>1. Extends(s, q, e)
        BY ExtendsAll
      <3> QED
        BY <3>1 DEF Extends
    <2>0. Append(q, e) \in Seq(S) /\ s \o q \in Seq(S)
      OBVIOUS
    <2>2. Among(Append(s \o q, e), T) = IF e \in T THEN Append(a \o b, e) ELSE a \o b
      <3> DEFINE all == s \o q
      <3>1. Among(all, T) = a \o b /\ all \in Seq(S)
        BY <1>2, <2>0
      <3> HIDE DEF all
      <3>2. Among(Append(all, e), T) = IF e \in T THEN Append(Among(all, T), e) ELSE Among(all, T)
        BY SMTT(30), <3>1, AmongAppend
      <3> HIDE DEF a, b
      <3> QED
        BY <3>1, <3>2 DEF all
    <2>3. Among(Append(q, e), T) = IF e \in T THEN Append(b, e) ELSE b
      BY AmongAppend
    <2>4. b \in Seq(S)
      BY AmongHolds
    <2> HIDE DEF a, b
    <2>5. Append(a \o b, e) = a \o Append(b, e)
      <3>1. Extends(a, b, e)
        BY <1>0, <2>4, ExtendsAll
      <3> QED
        BY <3>1 DEF Extends
    <2> QED
      BY <2>0, <2>1, <2>2, <2>3, <2>5 DEF a, b
  <1> HIDE DEF U
  <1>3. Seq(S) \subseteq U
    BY <1>1, <1>2, Sifting!SeqInduction
  <1> QED
    BY <1>3 DEF U

\* The last of what is among s and in T is the last of s in T.
LEMMA AmongLast ==
    ASSUME NEW T, NEW S, NEW s \in Seq(S), ToSet(s) \cap T # {}
    PROVE  \E k \in 1..Len(s) :
             /\ s[k] \in T /\ Last(Among(s, T)) = s[k]
             /\ \A j \in 1..Len(s) : s[j] \in T => j <= k
  <1> DEFINE IsLast(q, k) == /\ q[k] \in T /\ Last(Among(q, T)) = q[k]
                             /\ \A j \in 1..Len(q) : q[j] \in T => j <= k
             U == {q \in Seq(S) : ToSet(q) \cap T # {} => \E k \in 1..Len(q) : IsLast(q, k)}
  <1>1. <<>> \in U
    <2>1. <<>> \in Seq(S)
      OBVIOUS
    <2> QED
      BY <2>1, SetOfEmpty
  <1>2. ASSUME NEW q \in Seq(S), NEW e \in S, q \in U
        PROVE  Append(q, e) \in U
    <2> DEFINE b == Append(q, e)
               n == Len(q)
    <2>1. b \in Seq(S) /\ Len(b) = n + 1 /\ n \in Nat /\ b[n + 1] = e /\ \A i \in 1..n : b[i] = q[i]
      OBVIOUS
    <2>2. ToSet(b) = ToSet(q) \cup {e}
      BY SetOfAppend
    <2>3. Among(b, T) = IF e \in T THEN Append(Among(q, T), e) ELSE Among(q, T)
      BY AmongAppend
    <2>4. Among(q, T) \in Seq(S)
      BY AmongHolds
    <2> HIDE DEF b
    <2>5. CASE e \in T
      <3> DEFINE a == Among(q, T)
      <3>1. Among(b, T) = Append(a, e)
        BY <2>3, <2>5
      <3> HIDE DEF a
      <3>2. Last(Append(a, e)) = e
        <4>1. a \in Seq(S)
          BY <2>4 DEF a
        <4> QED
          BY <4>1 DEF Last
      <3>3. n + 1 \in 1..Len(b) /\ \A j \in 1..Len(b) : j <= n + 1
        BY <2>1
      <3>4. IsLast(b, n + 1)
        BY <2>1, <2>5, <3>1, <3>2, <3>3
      <3> QED
        BY <2>1, <3>3, <3>4 DEF b
    <2>6. CASE e \notin T
      <3>1. ASSUME ToSet(b) \cap T # {}
            PROVE  \E k \in 1..Len(b) : IsLast(b, k)
        <4>1. ToSet(q) \cap T # {}
          BY <2>2, <2>6, <3>1
        <4>2. PICK k \in 1..n : IsLast(q, k)
          BY <1>2, <4>1
        <4>3. Among(b, T) = Among(q, T)
          BY <2>3, <2>6
        <4>4. k \in 1..Len(b) /\ b[k] = q[k]
          BY <2>1
        <4>5. ASSUME NEW j \in 1..Len(b), b[j] \in T
              PROVE  j <= k
          <5>1. j # n + 1
            BY <2>1, <2>6, <4>5
          <5>2. j \in 1..n /\ q[j] \in T
            BY <2>1, <4>5, <5>1
          <5> QED
            BY <4>2, <5>2
        <4>6. IsLast(b, k)
          BY <4>2, <4>3, <4>4, <4>5
        <4> QED
          BY <4>4, <4>6
      <3> QED
        BY <2>1, <3>1 DEF b
    <2> QED
      BY <2>5, <2>6
  <1> HIDE DEF U
  <1>3. Seq(S) \subseteq U
    BY <1>1, <1>2, Sifting!SeqInduction
  <1> QED
    BY <1>3 DEF U

-----------------------------------------------------------------------------
(* The rows of files, and the ones of a range.                             *)

\* What files hold is what each of them holds.
LEMMA RowsHold ==
    ASSUME NEW R, NEW F, \A f \in F : f.rows \in Seq(R), NEW s \in Seq(F)
    PROVE  /\ Rows(s) \in Seq(R)
           /\ \A r : r \in ToSet(Rows(s)) <=> \E f \in ToSet(s) : r \in ToSet(f.rows)
  <1> DEFINE Good(q) == /\ Rows(q) \in Seq(R)
                        /\ \A r : r \in ToSet(Rows(q)) <=> \E f \in ToSet(q) : r \in ToSet(f.rows)
             U == {q \in Seq(F) : Good(q)}
  <1>1. <<>> \in U
    <2>1. <<>> \in Seq(F) /\ <<>> \in Seq(R)
      OBVIOUS
    <2>2. Rows(<<>>) = <<>> /\ ToSet(<<>>) = {}
      BY RowsEmpty, SetOfEmpty
    <2>3. Good(<<>>)
      BY <2>1, <2>2
    <2> QED
      BY <2>1, <2>3
  <1>2. ASSUME NEW q \in Seq(F), NEW e \in F, q \in U
        PROVE  Append(q, e) \in U
    <2> DEFINE b == Append(q, e)
               t == Rows(q)
               m == e.rows
    <2>1. b \in Seq(F) /\ ToSet(b) = ToSet(q) \cup {e}
      BY SetOfAppend
    <2>2. Rows(b) = t \o m
      BY RowsAppend
    <2>3. t \in Seq(R) /\ m \in Seq(R)
      BY <1>2
    <2>4. \A r : r \in ToSet(t) <=> \E f \in ToSet(q) : r \in ToSet(f.rows)
      BY <1>2
    <2> HIDE DEF t, b
    <2>5. t \o m \in Seq(R) /\ ToSet(t \o m) = ToSet(t) \cup ToSet(m)
      BY <2>3, SetOfConcat
    <2>6. Good(b)
      BY <2>1, <2>2, <2>4, <2>5
    <2> QED
      BY <2>1, <2>6 DEF b
  <1> HIDE DEF U
  <1>3. Seq(F) \subseteq U
    BY <1>1, <1>2, Sifting!SeqInduction
  <1> QED
    BY <1>3 DEF U

\* Files with nothing of W to read may be left out: what is read of W is the same.
LEMMA ReadSame ==
    ASSUME NEW R, NEW F, \A f \in F : f.rows \in Seq(R), NEW s \in Seq(F), NEW M, NEW C, NEW W,
           \A f \in ToSet(s) : f \in M => f \in C,
           \A f \in ToSet(s) : f \in C /\ f \notin M => ToSet(f.rows) \cap W = {}
    PROVE  Among(Rows(Among(s, M)), W) = Among(Rows(Among(s, C)), W)
  <1> DEFINE Fits(q) == \A f \in ToSet(q) : /\ f \in M => f \in C
                                            /\ f \in C /\ f \notin M => ToSet(f.rows) \cap W = {}
             Read(q, T) == Among(Rows(Among(q, T)), W)
             U == {q \in Seq(F) : Fits(q) => Read(q, M) = Read(q, C)}
  <1>1. <<>> \in U
    <2>1. <<>> \in Seq(F)
      OBVIOUS
    <2>2. Among(<<>>, M) = Among(<<>>, C)
      BY AmongEmpty
    <2> QED
      BY <2>1, <2>2
  <1>2. ASSUME NEW q \in Seq(F), NEW e \in F, q \in U
        PROVE  Append(q, e) \in U
    <2> DEFINE b == Append(q, e)
               m == e.rows
    <2>1. b \in Seq(F) /\ ToSet(b) = ToSet(q) \cup {e}
      BY SetOfAppend
    <2>2. ASSUME NEW T
          PROVE  /\ Among(m, W) \in Seq(R) /\ Read(q, T) \in Seq(R)
                 /\ Read(b, T) = IF e \in T THEN Read(q, T) \o Among(m, W) ELSE Read(q, T)
      <3> DEFINE a == Among(q, T)
      <3>1. a \in Seq(F) /\ Among(b, T) = IF e \in T THEN Append(a, e) ELSE a
        BY AmongHolds, AmongAppend
      <3> HIDE DEF a, b
      <3>2. Rows(a) \in Seq(R) /\ m \in Seq(R)
        BY <3>1, RowsHold
      <3>3. Rows(Append(a, e)) = Rows(a) \o m
        BY <3>1, RowsAppend
      <3>4. Among(Rows(a) \o m, W) = Among(Rows(a), W) \o Among(m, W)
        BY <3>2, AmongConcat
      <3>5. Among(Rows(a), W) \in Seq(R) /\ Among(m, W) \in Seq(R)
        BY <3>2, AmongHolds
      <3> QED
        BY <3>1, <3>3, <3>4, <3>5 DEF a
    <2>3. ASSUME Fits(b)
          PROVE  Read(b, M) = Read(b, C)
      <3>1. Fits(q)
        BY <2>1, <2>3
      <3>2. Read(q, M) = Read(q, C)
        BY <1>2, <3>1
      <3>3. (e \in M => e \in C) /\ (e \in C /\ e \notin M => ToSet(m) \cap W = {})
        BY <2>1, <2>3
      <3>4. CASE e \in M <=> e \in C
        BY <2>2, <3>2, <3>4
      <3>5. CASE e \in C /\ e \notin M
        <4>1. ToSet(m) \cap W = {} /\ m \in Seq(R)
          BY <3>3, <3>5
        <4>2. ToSet(Among(m, W)) = {} /\ Among(m, W) \in Seq(R)
          BY <4>1, AmongHolds
        <4>3. Among(m, W) = <<>>
          BY <4>2, SetOfSeq
        <4>4. Read(b, M) = Read(q, M) /\ Read(b, C) = Read(q, C) \o <<>> /\ Read(q, C) \in Seq(R)
          BY <2>2, <3>5, <4>3
        <4> HIDE DEF Read
        <4>5. Read(q, C) \o <<>> = Read(q, C)
          BY <4>4, ConcatEmptySeq
        <4> QED
          BY <3>2, <4>4, <4>5
      <3> QED
        BY <3>3, <3>4, <3>5
    <2> QED
      BY <2>1, <2>3
  <1> HIDE DEF U
  <1>3. Seq(F) \subseteq U
    BY <1>1, <1>2, Sifting!SeqInduction
  <1>4. Fits(s)
    OBVIOUS
  <1> QED
    BY <1>3, <1>4 DEF U

-----------------------------------------------------------------------------
(* The interval of a batch.                                                *)

Batches == Seq(Nat \X Nat) \ {<<>>}

\* The interval is of times its rows have, and none lies outside it.
LEMMA SpanIs ==
    ASSUME NEW rows \in Batches
    PROVE  /\ Lo(rows) \in Nat /\ Hi(rows) \in Nat /\ Lo(rows) <= Hi(rows)
           /\ \E r \in ToSet(rows) : Time(r) = Lo(rows)
           /\ \E r \in ToSet(rows) : Time(r) = Hi(rows)
           /\ \A r \in ToSet(rows) : r \in Nat \X Nat /\ Lo(rows) <= Time(r) /\ Time(r) <= Hi(rows)
  <1> DEFINE n == Len(rows)
             At(i) == Time(rows[i])
             T == {At(i) : i \in DOMAIN rows}
             IsLo(t) == \A i \in DOMAIN rows : t <= Time(rows[i])
             IsHi(t) == \A i \in DOMAIN rows : Time(rows[i]) <= t
  <1>1. n \in Nat /\ n >= 1 /\ DOMAIN rows = 1..n /\ \A i \in 1..n : rows[i] \in Nat \X Nat
    BY DEF Batches
  <1>2. \A i \in 1..n : At(i) \in Nat
    BY <1>1 DEF Time
  <1>3. T \subseteq Nat /\ \A t \in T : \E i \in 1..n : t = At(i)
    BY <1>1, <1>2
  <1>4. \A i \in 1..n : At(i) \in T
    BY <1>1
  <1>5. T # {}
    BY <1>1, <1>4
  <1> HIDE DEF T
  <1>6. \E t \in T : IsLo(t)
    <2>1. PICK t \in T : \A y \in T : t <= y
      BY <1>3, <1>5, Sifting!Least
    <2> QED
      BY <1>1, <1>4, <2>1
  <1>7. \E t \in T : IsHi(t)
    <2> DEFINE V == {k \in Nat : k <= n => k = 0 \/ \E j \in 1..n : \A i \in 1..k : At(i) <= At(j)}
    <2>1. 0 \in V
      OBVIOUS
    <2>2. ASSUME NEW k \in Nat, k \in V
          PROVE  k + 1 \in V
      <3>1. ASSUME k + 1 <= n
            PROVE  \E j \in 1..n : \A i \in 1..(k + 1) : At(i) <= At(j)
        <4>1. CASE k = 0
          <5>1. 1 \in 1..n /\ At(1) <= At(1) /\ \A i \in 1..(k + 1) : i = 1
            BY <1>1, <1>2, <4>1
          <5> QED
            BY <5>1
        <4>2. CASE k # 0
          <5>1. PICK j \in 1..n : \A i \in 1..k : At(i) <= At(j)
            BY <1>1, <2>2, <3>1, <4>2
          <5>2. k + 1 \in 1..n /\ At(k + 1) \in Nat /\ At(j) \in Nat /\ \A i \in 1..k : At(i) \in Nat
            BY <1>1, <1>2, <3>1
          <5>3. \A i \in 1..(k + 1) : i \in 1..k \/ i = k + 1
            OBVIOUS
          <5> HIDE DEF At
          <5>4. CASE At(k + 1) <= At(j)
            BY <5>1, <5>3, <5>4
          <5>5. CASE At(j) < At(k + 1)
            BY <5>1, <5>2, <5>3, <5>5
          <5> QED
            BY <5>2, <5>4, <5>5
        <4> QED
          BY <4>1, <4>2
      <3> QED
        BY <3>1
    <2> HIDE DEF V
    <2>3. Nat \subseteq V
      BY <2>1, <2>2, Sifting!Induction
    <2>4. n \in V /\ n <= n /\ n # 0
      BY <1>1, <2>3
    <2> HIDE DEF At
    <2>5. \E j \in 1..n : \A i \in 1..n : At(i) <= At(j)
      BY <2>4 DEF V
    <2>6. PICK j \in 1..n : \A i \in 1..n : At(i) <= At(j)
      BY <2>5
    <2> QED
      BY <1>1, <1>4, <2>6 DEF At
  <1>8. Lo(rows) \in T /\ IsLo(Lo(rows)) /\ Hi(rows) \in T /\ IsHi(Hi(rows))
    BY <1>6, <1>7, Zenon DEF Lo, Hi, T
  <1>9. \A x : x \in ToSet(rows) <=> \E i \in 1..n : rows[i] = x
    <2>1. rows \in Seq(Nat \X Nat)
      BY DEF Batches
    <2> QED
      BY <2>1, SetOfSeq
  <1>10. \A r \in ToSet(rows) : r \in Nat \X Nat /\ Lo(rows) <= Time(r) /\ Time(r) <= Hi(rows)
    BY <1>1, <1>8, <1>9
  <1>11. (\E r \in ToSet(rows) : Time(r) = Lo(rows)) /\ \E r \in ToSet(rows) : Time(r) = Hi(rows)
    BY <1>3, <1>8, <1>9
  <1>12. Lo(rows) \in Nat /\ Hi(rows) \in Nat
    BY <1>3, <1>8
  <1>13. Lo(rows) <= Hi(rows)
    <2>1. PICK r \in ToSet(rows) : Time(r) = Lo(rows)
      BY <1>11
    <2> QED
      BY <1>10, <2>1
  <1> QED
    BY <1>10, <1>11, <1>12, <1>13

-----------------------------------------------------------------------------
(* A lane's files as a reader lists them.                                  *)

\* A climb through 1..n of n steps takes them one by one.
LEMMA ClimbIsIdentity ==
    ASSUME NEW n \in Nat, NEW p \in [1..n -> 1..n],
           \A i \in 1..n : \A j \in 1..n : i < j => p[i] < p[j]
    PROVE  \A i \in 1..n : p[i] = i
  <1>0. \A i \in 1..n : p[i] \in 1..n
    OBVIOUS
  <1> DEFINE U == {k \in Nat : k \in 1..n => k <= p[k]}
             V == {k \in Nat : n - k \in 1..n => p[n - k] <= n - k}
  <1>1. 0 \in U
    OBVIOUS
  <1>2. ASSUME NEW k \in Nat, k \in U
        PROVE  k + 1 \in U
    <2>1. ASSUME k + 1 \in 1..n
          PROVE  k + 1 <= p[k + 1]
      <3>1. CASE k = 0
        BY <1>0, <2>1, <3>1
      <3>2. CASE k # 0
        <4>1. k \in 1..n /\ k < k + 1
          BY <2>1, <3>2
        <4>2. k <= p[k] /\ p[k] < p[k + 1]
          BY <1>2, <2>1, <4>1
        <4> QED
          BY <1>0, <2>1, <4>1, <4>2
      <3> QED
        BY <3>1, <3>2
    <2> QED
      BY <2>1
  <1>3. 0 \in V
    BY <1>0
  <1>4. ASSUME NEW k \in Nat, k \in V
        PROVE  k + 1 \in V
    <2>1. ASSUME n - (k + 1) \in 1..n
          PROVE  p[n - (k + 1)] <= n - (k + 1)
      <3> DEFINE i == n - (k + 1)
                 j == n - k
      <3>1. i \in 1..n /\ j = i + 1
        BY <2>1
      <3>2. j \in 1..n
        BY <2>1
      <3>3. p[j] <= j
        BY <1>4, <3>2
      <3> HIDE DEF i, j
      <3>4. p[i] < p[j]
        BY <3>1, <3>2
      <3>5. p[i] <= i
        BY <1>0, <3>1, <3>2, <3>3, <3>4
      <3> QED
        BY <3>5 DEF i
    <2> QED
      BY <2>1
  <1> HIDE DEF U, V
  <1>5. Nat \subseteq U /\ Nat \subseteq V
    BY <1>1, <1>2, <1>3, <1>4, Sifting!Induction
  <1>6. ASSUME NEW i \in 1..n
        PROVE  p[i] = i
    <2>1. i \in Nat /\ n - i \in Nat /\ n - (n - i) = i
      OBVIOUS
    <2>2. i <= p[i]
      BY <1>5, <2>1 DEF U
    <2>3. p[n - (n - i)] <= n - (n - i)
      <3> DEFINE k == n - i
      <3>1. k \in V /\ n - k = i
        BY <1>5, <2>1
      <3> HIDE DEF k
      <3>2. p[n - k] <= n - k
        BY <3>1 DEF V
      <3> QED
        BY <3>2 DEF k
    <2> QED
      BY <1>0, <2>1, <2>2, <2>3
  <1> QED
    BY <1>6

\* A sequence of a lane's files that climbs is what the listing is.
LEMMA ListingIs ==
    ASSUME NEW l, NEW F, \A f \in F : f.lo \in Nat, NEW s \in Seq(F), ToSet(s) = files[l],
           \A i \in 1..Len(s) : \A j \in 1..Len(s) : i < j => s[i].lo < s[j].lo
    PROVE  Listing(l) = s
  <1> DEFINE n == Len(s)
             S == files[l]
             Climbs(q) == \A i \in DOMAIN q : \A j \in DOMAIN q : i < j => q[i].lo < q[j].lo
             c == Listing(l)
  <1>1. n \in Nat /\ DOMAIN s = 1..n /\ s = [i \in 1..n |-> s[i]]
    OBVIOUS
  <1>2. (\A x : x \in S <=> \E i \in 1..n : s[i] = x) /\ S \subseteq F
    BY SetOfSeq
  <1>3. s \in [1..n -> S]
    BY <1>1, <1>2
  <1>4. ASSUME NEW q \in [1..n -> S], Climbs(q), NEW i \in 1..n, NEW j \in 1..n, i # j
        PROVE  q[i] # q[j]
    <2>1. q[i].lo \in Nat /\ q[j].lo \in Nat
      BY <1>2
    <2>2. i < j \/ j < i
      BY <1>1, <1>4
    <2>3. q[i].lo < q[j].lo \/ q[j].lo < q[i].lo
      BY <1>4, <2>2
    <2> QED
      BY <2>1, <2>3
  <1>5. Climbs(s)
    BY <1>1
  <1>6. Cardinality(S) = n
    <2>1. \A i, j \in 1..n : s[i] = s[j] => i = j
      BY <1>3, <1>4, <1>5
    <2>2. s \in Bijection(1..n, S)
      BY <1>2, <1>3, <2>1 DEF Bijection, Injection, Surjection, IsInjective
    <2> QED
      BY <1>1, <2>2, FS_CountingElements DEF ExistsBijection
  <1>7. c \in [1..n -> S] /\ Climbs(c)
    <2>1. s \in [1..Cardinality(S) -> S]
      BY <1>3, <1>6
    <2>2. \A i, j \in DOMAIN s : i < j => s[i].lo < s[j].lo
      BY <1>5
    <2>3. c \in [1..Cardinality(S) -> S] /\ \A i, j \in DOMAIN c : i < j => c[i].lo < c[j].lo
      BY <2>1, <2>2, Zenon DEF Listing
    <2> QED
      BY <1>6, <2>3
  <1> HIDE DEF c, n, S
  <1>8. \A i \in 1..n : \E k \in 1..n : s[k] = c[i]
    BY <1>2, <1>7
  <1> DEFINE p == [i \in 1..n |-> CHOOSE k \in 1..n : s[k] = c[i]]
  <1>9. p \in [1..n -> 1..n] /\ \A i \in 1..n : s[p[i]] = c[i]
    BY <1>8
  <1> HIDE DEF p
  <1>10. ASSUME NEW i \in 1..n, NEW j \in 1..n, i < j
         PROVE  p[i] < p[j]
    <2>1. c[i].lo < c[j].lo
      BY <1>7, <1>10
    <2>2. p[i] \in 1..n /\ p[j] \in 1..n /\ s[p[i]].lo < s[p[j]].lo
      BY <1>9, <2>1
    <2>3. s[p[i]].lo \in Nat /\ s[p[j]].lo \in Nat
      BY <1>2, <1>3, <2>2
    <2>4. CASE p[j] < p[i]
      <3>1. s[p[j]].lo < s[p[i]].lo
        BY <1>1, <1>5, <2>2, <2>4
      <3> QED
        BY <2>2, <2>3, <3>1
    <2>5. CASE p[i] = p[j]
      BY <2>2, <2>3, <2>5
    <2> QED
      BY <1>1, <2>2, <2>4, <2>5
  <1>11. \A i \in 1..n : p[i] = i
    BY <1>1, <1>9, <1>10, ClimbIsIdentity
  <1>12. \A i \in 1..n : c[i] = s[i]
    BY <1>9, <1>11
  <1>13. c = s
    <2>1. c = [i \in 1..n |-> c[i]] /\ s = [i \in 1..n |-> s[i]]
      BY <1>3, <1>7
    <2>2. [i \in 1..n |-> c[i]] = [i \in 1..n |-> s[i]]
      BY <1>12, Zenon
    <2> QED
      BY <2>1, <2>2
  <1> QED
    BY <1>13 DEF c

-----------------------------------------------------------------------------
(* What is sent to the writer.                                             *)

Sendings == [lane : Lanes, rows : Batches]

SentIn(l, q) == FoldLeft(LAMBDA rows, b : IF b.lane = l THEN rows \o b.rows ELSE rows, <<>>, q)

\* SentIn, a lane's rows in the queue, is a fold.
LEMMA SentFolds ==
    ASSUME NEW l, NEW q
    PROVE  Sending!Fold(l, <<>>, q) = SentIn(l, q)
  BY Zenon DEF SentIn, Sending!Fold, FoldLeft, MapThenFoldSet,
               Sending!FoldLeft, Sending!MapThenFoldSet, Max, Sending!Max

\* An empty queue has none.
LEMMA SentEmpty == ASSUME NEW l PROVE SentIn(l, <<>>) = <<>>
  BY SentFolds, Sending!FoldEmpty

\* A batch sent is its lane's last.
LEMMA SentAppend ==
    ASSUME NEW l, NEW q \in Seq(Sendings), NEW b \in Sendings
    PROVE  SentIn(l, Append(q, b)) = IF b.lane = l THEN SentIn(l, q) \o b.rows ELSE SentIn(l, q)
  <1>1. Sending!Fold(l, <<>>, Append(q, b)) =
          IF b.lane = l THEN Sending!Fold(l, <<>>, q) \o b.rows ELSE Sending!Fold(l, <<>>, q)
    BY Sending!FoldAppend
  <1> QED
    BY <1>1, SentFolds

\* A batch sent is some lane's timed rows.
LEMMA SendingRows == \A b \in Sendings : b.rows \in Batches /\ b.rows \in Seq(Nat \X Nat) /\ b.lane \in Lanes
  BY DEF Sendings, Batches

\* So is what a lane has in the queue.
LEMMA SentType ==
    ASSUME NEW l, NEW q \in Seq(Sendings)
    PROVE  SentIn(l, q) \in Seq(Nat \X Nat)
  <1> DEFINE U == {x \in Seq(Sendings) : SentIn(l, x) \in Seq(Nat \X Nat)}
  <1>1. <<>> \in U
    <2>1. <<>> \in Seq(Sendings) /\ <<>> \in Seq(Nat \X Nat)
      OBVIOUS
    <2> QED
      BY <2>1, SentEmpty
  <1>2. ASSUME NEW x \in Seq(Sendings), NEW b \in Sendings, x \in U
        PROVE  Append(x, b) \in U
    <2>1. b.rows \in Seq(Nat \X Nat) /\ SentIn(l, x) \in Seq(Nat \X Nat)
      BY <1>2, SendingRows
    <2>2. SentIn(l, x) \o b.rows \in Seq(Nat \X Nat)
      BY <2>1, ConcatProperties
    <2>3. SentIn(l, Append(x, b)) \in Seq(Nat \X Nat)
      BY <2>1, <2>2, SentAppend
    <2>4. Append(x, b) \in Seq(Sendings)
      OBVIOUS
    <2> QED
      BY <2>3, <2>4
  <1> HIDE DEF U
  <1>3. Seq(Sendings) \subseteq U
    BY <1>1, <1>2, Sifting!SeqInduction
  <1> QED
    BY <1>3 DEF U

\* A queue may be read in two parts.
LEMMA SentConcat ==
    ASSUME NEW l, NEW q \in Seq(Sendings), NEW r \in Seq(Sendings)
    PROVE  SentIn(l, q \o r) = SentIn(l, q) \o SentIn(l, r)
  <1> DEFINE a == SentIn(l, q)
             U == {x \in Seq(Sendings) : SentIn(l, q \o x) = a \o SentIn(l, x)}
  <1>0. a \in Seq(Nat \X Nat)
    BY SentType
  <1>1. <<>> \in U
    <2>1. q \o <<>> = q /\ a \o <<>> = a
      BY <1>0, ConcatEmptySeq
    <2>2. <<>> \in Seq(Sendings)
      OBVIOUS
    <2> QED
      BY <2>1, <2>2, SentEmpty
  <1>2. ASSUME NEW x \in Seq(Sendings), NEW b \in Sendings, x \in U
        PROVE  Append(x, b) \in U
    <2> DEFINE c == SentIn(l, x)
    <2>0. Append(x, b) \in Seq(Sendings) /\ q \o x \in Seq(Sendings)
      OBVIOUS
    <2>1. Append(q \o x, b) = q \o Append(x, b)
      <3>1. Extends(q, x, b)
        BY ExtendsAll
      <3> QED
        BY <3>1 DEF Extends
    <2>2. SentIn(l, Append(q \o x, b)) = IF b.lane = l THEN (a \o c) \o b.rows ELSE a \o c
      <3> DEFINE y == q \o x
      <3>1. y \in Seq(Sendings) /\ SentIn(l, y) = a \o c
        BY <1>2, <2>0
      <3> HIDE DEF y, a, c
      <3>2. SentIn(l, Append(y, b)) = IF b.lane = l THEN SentIn(l, y) \o b.rows ELSE SentIn(l, y)
        BY <3>1, SentAppend
      <3> QED
        BY <3>1, <3>2 DEF y
    <2>3. SentIn(l, Append(x, b)) = IF b.lane = l THEN c \o b.rows ELSE c
      BY SentAppend
    <2>4. c \in Seq(Nat \X Nat) /\ b.rows \in Seq(Nat \X Nat)
      BY SentType, SendingRows
    <2> HIDE DEF a, c
    <2> DEFINE m == b.rows
    <2>6. m \in Seq(Nat \X Nat)
      BY <2>4
    <2> HIDE DEF m
    <2>5. (a \o c) \o m = a \o (c \o m)
      <3>1. Joins(a, c, m)
        BY <1>0, <2>4, <2>6, JoinsAll
      <3> QED
        BY <3>1 DEF Joins
    <2> QED
      BY <2>0, <2>1, <2>2, <2>3, <2>5 DEF a, c, m
  <1> HIDE DEF U
  <1>3. Seq(Sendings) \subseteq U
    BY <1>1, <1>2, Sifting!SeqInduction
  <1> QED
    BY <1>3 DEF U

\* The first sent, and what was sent after it.
LEMMA SentFirst ==
    ASSUME NEW l, NEW q \in Seq(Sendings), q # <<>>
    PROVE  SentIn(l, q) = (IF q[1].lane = l THEN q[1].rows ELSE <<>>) \o SentIn(l, Tail(q))
  <1>1. q[1] \in Sendings /\ Tail(q) \in Seq(Sendings) /\ <<>> \in Seq(Sendings) /\ <<q[1]>> \in Seq(Sendings)
    OBVIOUS
  <1>2. q = <<q[1]>> \o Tail(q) /\ <<q[1]>> = Append(<<>>, q[1])
    OBVIOUS
  <1>3. SentIn(l, q) = SentIn(l, <<q[1]>>) \o SentIn(l, Tail(q))
    <2> DEFINE one == <<q[1]>>
               others == Tail(q)
    <2>1. one \in Seq(Sendings) /\ others \in Seq(Sendings) /\ q = one \o others
      BY <1>1, <1>2
    <2> HIDE DEF one, others
    <2>2. SentIn(l, one \o others) = SentIn(l, one) \o SentIn(l, others)
      BY <2>1, SentConcat
    <2> QED
      BY <2>1, <2>2 DEF one, others
  <1>4. SentIn(l, Append(<<>>, q[1])) = IF q[1].lane = l THEN <<>> \o q[1].rows ELSE <<>>
    <2>1. \A b \in Sendings : SentIn(l, Append(<<>>, b)) =
                               IF b.lane = l THEN SentIn(l, <<>>) \o b.rows ELSE SentIn(l, <<>>)
      BY <1>1, SentAppend
    <2> QED
      BY <1>1, <2>1, SentEmpty
  <1>5. <<>> \o q[1].rows = q[1].rows
    BY <1>1, SendingRows, ConcatEmptySeq
  <1> QED
    BY <1>2, <1>3, <1>4, <1>5

\* The flush of every lane: one batch of each that holds rows, and all of them.
AreTails(q, n) ==
    /\ q \in Seq(Sendings)
    /\ \A i \in 1..Len(q) : q[i].lane <= n /\ q[i].rows = feather[q[i].lane]
    /\ \A i \in 1..Len(q) : \A j \in 1..Len(q) : i < j => q[i].lane < q[j].lane
    /\ \A l \in Lanes : SentIn(l, q) = IF l <= n THEN feather[l] ELSE <<>>

\* The final flush visits lane after lane and sends what each holds.
LEMMA FlushAppend ==
    ASSUME NEW held, NEW x \in Seq(Nat), NEW m \in Nat
    PROVE  Flushing!Fold(held, <<>>, Append(x, m)) =
             IF held[m] = <<>> THEN Flushing!Fold(held, <<>>, x)
             ELSE Append(Flushing!Fold(held, <<>>, x), [lane |-> m, rows |-> held[m]])
  BY Flushing!FoldAppend

\* What the final flush sends is every lane's feather, each once.
LEMMA TailsAre ==
    ASSUME feather \in [Lanes -> Seq(Nat \X Nat)]
    PROVE  AreTails(Tails, Cardinality(Lanes))
  <1> DEFINE N == Cardinality(Lanes)
             Up(n) == [l \in 1..n |-> l]
             T(n) == Flushing!Fold(feather, <<>>, Up(n))
             U == {n \in Nat : n <= N => AreTails(T(n), n)}
  <1>0. N \in Nat /\ Lanes = 1..N
    BY RecorderConstants, FS_CardinalityType
  <1> HIDE DEF N
  <1>1. 0 \in U
    <2>1. Up(0) = <<>>
      OBVIOUS
    <2>2. T(0) = <<>>
      BY <2>1, Flushing!FoldEmpty
    <2>3. <<>> \in Seq(Sendings) /\ Len(<<>>) = 0 /\ \A l \in Lanes : ~ (l <= 0)
      BY <1>0
    <2>4. AreTails(<<>>, 0)
      BY <2>3, SentEmpty DEF AreTails
    <2> QED
      BY <2>2, <2>4
  <1>2. ASSUME NEW n \in Nat, n \in U
        PROVE  n + 1 \in U
    <2> SUFFICES ASSUME n + 1 <= N
                 PROVE  AreTails(T(n + 1), n + 1)
      OBVIOUS
    <2> DEFINE q == T(n)
               m == n + 1
               b == [lane |-> m, rows |-> feather[m]]
    <2>1. AreTails(q, n) /\ m \in Lanes
      BY <1>0, <1>2
    <2>2. Up(n) \in Seq(Nat) /\ m \in Nat /\ Up(m) = Append(Up(n), m)
      <3>1. Up(n) \in Seq(Nat) /\ Up(m) \in Seq(Nat) /\ m \in Nat /\ Len(Up(n)) = n /\ Len(Up(m)) = n + 1
        OBVIOUS
      <3>2. \A i \in 1..(n + 1) : Up(m)[i] = i /\ Append(Up(n), m)[i] = i
        BY <3>1
      <3>3. Append(Up(n), m) \in Seq(Nat) /\ Len(Append(Up(n), m)) = n + 1
        BY <3>1
      <3> HIDE DEF Up, m
      <3> QED
        BY <3>1, <3>2, <3>3, SeqEqual
    <2>3. T(m) = IF feather[m] = <<>> THEN q ELSE Append(q, b)
      <3> DEFINE x == Up(n)
      <3>1. x \in Seq(Nat) /\ m \in Nat
        BY <2>2
      <3> HIDE DEF x, m
      <3>2. Flushing!Fold(feather, <<>>, Append(x, m)) =
              IF feather[m] = <<>> THEN Flushing!Fold(feather, <<>>, x)
              ELSE Append(Flushing!Fold(feather, <<>>, x), b)
        BY <3>1, FlushAppend
      <3> QED
        BY <2>2, <3>2 DEF x, m
    <2> HIDE DEF T, Up, q
    <2>4. feather[m] \in Seq(Nat \X Nat)
      BY <2>1
    <2>5. q \in Seq(Sendings) /\ \A i \in 1..Len(q) : q[i] \in Sendings /\ q[i].lane \in Lanes
      BY <2>1, SendingRows DEF AreTails
    <2>6. \A l \in Lanes : (l <= m <=> l <= n \/ l = m) /\ ~ (m <= n)
      BY <1>0, <2>1
    <2>7. CASE feather[m] = <<>>
      <3>1. \A i \in 1..Len(q) : q[i].lane <= m
        BY <1>0, <2>1, <2>5 DEF AreTails
      <3>2. \A l \in Lanes : SentIn(l, q) = IF l <= m THEN feather[l] ELSE <<>>
        BY <2>1, <2>6, <2>7 DEF AreTails
      <3>3. AreTails(q, m)
        BY <2>1, <3>1, <3>2 DEF AreTails
      <3> QED
        BY <2>3, <2>7, <3>3
    <2>8. CASE feather[m] # <<>>
      <3> DEFINE r == Append(q, b)
      <3>1. b \in Sendings /\ b.lane = m /\ b.rows = feather[m]
        BY <2>1, <2>4, <2>8 DEF Sendings, Batches
      <3> HIDE DEF b
      <3>2. r \in Seq(Sendings) /\ Len(r) = Len(q) + 1 /\ Len(q) \in Nat /\ r[Len(q) + 1] = b
            /\ \A i \in 1..Len(q) : r[i] = q[i]
        BY <2>5, <3>1
      <3>3. ASSUME NEW l \in Lanes
            PROVE  SentIn(l, r) = IF l <= m THEN feather[l] ELSE <<>>
        <4>1. SentIn(l, r) = IF m = l THEN SentIn(l, q) \o feather[m] ELSE SentIn(l, q)
          <5>1. SentIn(l, Append(q, b)) = IF b.lane = l THEN SentIn(l, q) \o b.rows ELSE SentIn(l, q)
            BY <2>5, <3>1, SentAppend
          <5> QED
            BY <3>1, <5>1
        <4>2. SentIn(l, q) = IF l <= n THEN feather[l] ELSE <<>>
          BY <2>1 DEF AreTails
        <4>3. <<>> \o feather[m] = feather[m]
          BY <2>4, ConcatEmptySeq
        <4> HIDE DEF r
        <4> QED
          BY <2>6, <4>1, <4>2, <4>3
      <3> HIDE DEF r
      <3>4. ASSUME NEW i \in 1..Len(r)
            PROVE  /\ r[i].lane <= m /\ r[i].rows = feather[r[i].lane]
                   /\ \A j \in 1..Len(r) : i < j => r[i].lane < r[j].lane
        <4>1. \A j \in 1..Len(r) : (j \in 1..Len(q) /\ r[j] = q[j]) \/ (j = Len(q) + 1 /\ r[j] = b)
          BY <3>2
        <4>2. \A j \in 1..Len(q) : q[j].lane < m /\ q[j].lane <= m /\ q[j].rows = feather[q[j].lane]
          BY <1>0, <2>1, <2>5 DEF AreTails
        <4>3. \A j, k \in 1..Len(q) : j < k => q[j].lane < q[k].lane
          BY <2>1 DEF AreTails
        <4>4. r[i].lane <= m /\ r[i].rows = feather[r[i].lane]
          <5>1. CASE i \in 1..Len(q) /\ r[i] = q[i]
            BY <4>2, <5>1
          <5>2. CASE i = Len(q) + 1 /\ r[i] = b
            BY <1>0, <2>1, <3>1, <5>2
          <5> QED
            BY <4>1, <5>1, <5>2
        <4>5. ASSUME NEW j \in 1..Len(r), i < j
              PROVE  r[i].lane < r[j].lane
          <5>1. i \in 1..Len(q) /\ r[i] = q[i]
            BY <3>2, <4>1, <4>5
          <5>2. CASE j \in 1..Len(q) /\ r[j] = q[j]
            BY <4>3, <4>5, <5>1, <5>2
          <5>3. CASE j = Len(q) + 1 /\ r[j] = b
            BY <3>1, <4>2, <5>1, <5>3
          <5> QED
            BY <4>1, <5>2, <5>3
        <4> QED
          BY <4>4, <4>5
      <3>5. AreTails(r, m)
        BY <3>2, <3>3, <3>4 DEF AreTails
      <3> QED
        BY <2>3, <2>8, <3>5 DEF r
    <2> QED
      BY <2>7, <2>8
  <1> HIDE DEF U, T
  <1>3. Nat \subseteq U
    BY <1>1, <1>2, Sifting!Induction
  <1>4. AreTails(T(N), N)
    BY <1>0, <1>3 DEF U
  <1>5. T(N) = Tails
    <2>1. Up(N) = [l \in Lanes |-> l]
      BY <1>0
    <2>2. Flushing!Fold(feather, <<>>, [l \in Lanes |-> l]) = Tails
      BY Zenon DEF Tails, Flushing!Fold, FoldLeft, MapThenFoldSet,
                   Flushing!FoldLeft, Flushing!MapThenFoldSet, Max, Flushing!Max
    <2> QED
      BY <2>1, <2>2 DEF T
  <1> QED
    BY <1>4, <1>5 DEF N

-----------------------------------------------------------------------------
(* The order of a lane's rows: in its files, on their way, in its feather.  *)

CatFiles == [lo : Nat, hi : Nat, rows : Batches, closed : BOOLEAN]

\* Every row of a comes before every row of b; at its time at the latest, if loose.
Ahead(loose, a, b) ==
    \A r \in ToSet(a) : \A q \in ToSet(b) : Time(r) < Time(q) \/ (loose /\ Time(r) = Time(q))

Under(top, rows) == \A r \in ToSet(rows) : Time(r) <= top

\* Rows that come at the top or after it.
From(loose, top, rows) ==
    \A r \in ToSet(rows) : top < Time(r) \/ (loose /\ top = Time(r))

\* Of lane l: the files F, the batches of q from the first on not in a file, the
\* rows held, up to the time top.
Ordered(loose, F, q, first, l, held, top) ==
    /\ \A f \in F : /\ Ahead(loose, f.rows, held) /\ Under(top, f.rows)
                    /\ \A i \in 1..Len(q) : i > first /\ q[i].lane = l => Ahead(loose, f.rows, q[i].rows)
    /\ \A i \in 1..Len(q) : q[i].lane = l =>
         /\ Ahead(loose, q[i].rows, held) /\ Under(top, q[i].rows)
         /\ \A j \in 1..Len(q) : i < j /\ q[j].lane = l => Ahead(loose, q[i].rows, q[j].rows)
    /\ Under(top, held)

TimedSeq == Seq(Nat \X Nat)

\* Venue times are numbers.
LEMMA TimeIs == \A s \in TimedSeq : \A r \in ToSet(s) : Time(r) \in Nat
  <1> SUFFICES ASSUME NEW s \in TimedSeq, NEW r \in ToSet(s) PROVE Time(r) \in Nat
    OBVIOUS
  <1>1. r \in Nat \X Nat
    BY SetOfSeq DEF TimedSeq
  <1> QED
    BY <1>1 DEF Time

\* What was in order is in the looser order.
LEMMA AheadLoosens ==
    ASSUME NEW tight, NEW loose, tight => loose, NEW a, NEW b, Ahead(tight, a, b)
    PROVE  Ahead(loose, a, b)
  BY DEF Ahead

\* An order with no ties is one with ties.
LEMMA OrderedLoosens ==
    ASSUME NEW tight, NEW loose, tight => loose,
           NEW F, NEW q, NEW first, NEW l, NEW held, NEW top,
           Ordered(tight, F, q, first, l, held, top)
    PROVE  Ordered(loose, F, q, first, l, held, top)
  <1>1. \A a, b : Ahead(tight, a, b) => Ahead(loose, a, b)
    BY AheadLoosens
  <1> QED
    BY <1>1 DEF Ordered

\* Nothing held is behind anything.
LEMMA AheadOfNone == \A loose, a : Ahead(loose, a, <<>>)
  BY SetOfEmpty DEF Ahead

\* No rows are under any time.
LEMMA UnderNone == \A top : Under(top, <<>>)
  BY SetOfEmpty DEF Under

\* Rows from the top on may join what is held.
LEMMA AheadGrows ==
    ASSUME NEW loose, NEW a \in TimedSeq, NEW held \in TimedSeq, NEW rows \in TimedSeq, NEW top \in Int,
           Ahead(loose, a, held), Under(top, a), From(loose, top, rows)
    PROVE  Ahead(loose, a, held \o rows)
  <1>1. ToSet(held \o rows) = ToSet(held) \cup ToSet(rows)
    BY SetOfConcat DEF TimedSeq
  <1>2. ASSUME NEW r \in ToSet(a), NEW q \in ToSet(rows)
        PROVE  Time(r) < Time(q) \/ (loose /\ Time(r) = Time(q))
    <2>1. Time(r) \in Nat /\ Time(q) \in Nat /\ Time(r) <= top
      BY TimeIs DEF Under
    <2>2. top < Time(q) \/ (loose /\ top = Time(q))
      BY DEF From
    <2> QED
      BY <2>1, <2>2
  <1>3. \A r \in ToSet(a) : \A q \in ToSet(held) : Time(r) < Time(q) \/ (loose /\ Time(r) = Time(q))
    BY DEF Ahead
  <1> QED
    BY <1>1, <1>2, <1>3 DEF Ahead

\* Rows under one time and rows under a later one are under the later.
LEMMA UnderGrows ==
    ASSUME NEW a \in TimedSeq, NEW rows \in TimedSeq, NEW top \in Int, NEW new \in Int, top <= new,
           Under(top, a), Under(new, rows)
    PROVE  Under(new, a) /\ Under(new, a \o rows)
  <1>1. ToSet(a \o rows) = ToSet(a) \cup ToSet(rows)
    BY SetOfConcat DEF TimedSeq
  <1>2. \A r \in ToSet(a) : Time(r) \in Nat /\ Time(r) <= top
    BY TimeIs DEF Under
  <1>3. \A r \in ToSet(a) : Time(r) <= new
    BY <1>2
  <1> QED
    BY <1>1, <1>3 DEF Under

\* A file's rows are timed and some.
LEMMA FileRows == \A f \in CatFiles : f.rows \in TimedSeq /\ f.rows \in Batches
  BY DEF CatFiles, Batches, TimedSeq

\* A batch's rows are timed and some.
LEMMA QueueRows ==
    ASSUME NEW q \in Seq(Sendings)
    PROVE  \A i \in 1..Len(q) : q[i] \in Sendings /\ q[i].rows \in TimedSeq /\ q[i].rows \in Batches
  BY SendingRows DEF TimedSeq

\* Rows the clock allows go behind everything the lane has.
LEMMA OrderedHolds ==
    ASSUME NEW loose, NEW F, F \subseteq CatFiles, NEW q \in Seq(Sendings), NEW first, NEW l,
           NEW held \in TimedSeq, NEW rows \in TimedSeq, NEW top \in Int, NEW new \in Int, top <= new,
           Ordered(loose, F, q, first, l, held, top), From(loose, top, rows), Under(new, rows)
    PROVE  Ordered(loose, F, q, first, l, held \o rows, new)
  <1>1. ASSUME NEW a \in TimedSeq, Ahead(loose, a, held), Under(top, a)
        PROVE  Ahead(loose, a, held \o rows) /\ Under(new, a)
    BY <1>1, AheadGrows, UnderGrows
  <1>2. \A f \in F : f.rows \in TimedSeq
    BY FileRows
  <1>3. \A i \in 1..Len(q) : q[i].rows \in TimedSeq
    BY QueueRows
  <1>4. ASSUME NEW f \in F
        PROVE  /\ Ahead(loose, f.rows, held \o rows) /\ Under(new, f.rows)
               /\ \A i \in 1..Len(q) : i > first /\ q[i].lane = l => Ahead(loose, f.rows, q[i].rows)
    <2>1. Ahead(loose, f.rows, held) /\ Under(top, f.rows)
      BY DEF Ordered
    <2>2. \A i \in 1..Len(q) : i > first /\ q[i].lane = l => Ahead(loose, f.rows, q[i].rows)
      BY DEF Ordered
    <2> QED
      BY <1>1, <1>2, <2>1, <2>2
  <1>5. ASSUME NEW i \in 1..Len(q), q[i].lane = l
        PROVE  /\ Ahead(loose, q[i].rows, held \o rows) /\ Under(new, q[i].rows)
               /\ \A j \in 1..Len(q) : i < j /\ q[j].lane = l => Ahead(loose, q[i].rows, q[j].rows)
    <2>1. Ahead(loose, q[i].rows, held) /\ Under(top, q[i].rows)
      BY <1>5 DEF Ordered
    <2>2. \A j \in 1..Len(q) : i < j /\ q[j].lane = l => Ahead(loose, q[i].rows, q[j].rows)
      BY <1>5 DEF Ordered
    <2> QED
      BY <1>1, <1>3, <2>1, <2>2
  <1>6. Under(new, held \o rows)
    BY UnderGrows DEF Ordered
  <1> QED
    BY <1>4, <1>5, <1>6 DEF Ordered

\* A lane is sent at most one batch, of what it holds, and then holds nothing.
LEMMA OrderedSends ==
    ASSUME NEW loose, NEW F, NEW q \in Seq(Sendings), NEW first, NEW l, NEW held, NEW top,
           Ordered(loose, F, q, first, l, held, top),
           NEW more \in Seq(Sendings),
           \A i \in 1..Len(more) : more[i].lane = l => more[i].rows = held,
           \A i \in 1..Len(more) : \A j \in 1..Len(more) : i < j => more[i].lane # more[j].lane,
           NEW rest, rest = <<>> \/ (rest = held /\ \A i \in 1..Len(more) : more[i].lane # l)
    PROVE  Ordered(loose, F, q \o more, first, l, rest, top)
  <1> DEFINE n == Len(q)
             k == Len(more)
             all == q \o more
  <1>1. /\ all \in Seq(Sendings) /\ Len(all) = n + k /\ n \in Nat /\ k \in Nat
        /\ \A i \in 1..n : all[i] = q[i]
        /\ \A i \in 1..k : all[n + i] = more[i]
    BY ConcatProperties
  <1> HIDE DEF all, n, k
  <1>2. ASSUME NEW i \in 1..(n + k)
        PROVE  \/ i \in 1..n /\ all[i] = q[i]
               \/ i > n /\ i - n \in 1..k /\ all[i] = more[i - n]
    <2>1. CASE i \in 1..n
      BY <1>1, <2>1
    <2>2. CASE i \notin 1..n
      <3>1. i > n /\ i - n \in 1..k /\ n + (i - n) = i
        BY <1>1, <2>2
      <3> QED
        BY <1>1, <3>1
    <2> QED
      BY <2>1, <2>2
  <1>3. \A a : Ahead(loose, a, held) => Ahead(loose, a, rest)
    BY AheadOfNone
  <1>4. Under(top, held) /\ Under(top, rest)
    BY UnderNone DEF Ordered
  <1>5. ASSUME NEW f \in F
        PROVE  /\ Ahead(loose, f.rows, rest) /\ Under(top, f.rows)
               /\ \A i \in 1..(n + k) : i > first /\ all[i].lane = l => Ahead(loose, f.rows, all[i].rows)
    <2>1. Ahead(loose, f.rows, held) /\ Under(top, f.rows)
      BY DEF Ordered
    <2>2. ASSUME NEW i \in 1..(n + k), i > first, all[i].lane = l
          PROVE  Ahead(loose, f.rows, all[i].rows)
      <3>1. CASE i \in 1..n /\ all[i] = q[i]
        BY <2>2, <3>1 DEF Ordered, n
      <3>2. CASE i > n /\ i - n \in 1..k /\ all[i] = more[i - n]
        BY <2>1, <2>2, <3>2 DEF k
      <3> QED
        BY <1>2, <3>1, <3>2
    <2> QED
      BY <1>3, <2>1, <2>2
  <1>6. ASSUME NEW i \in 1..(n + k), all[i].lane = l
        PROVE  /\ Ahead(loose, all[i].rows, rest) /\ Under(top, all[i].rows)
               /\ \A j \in 1..(n + k) : i < j /\ all[j].lane = l => Ahead(loose, all[i].rows, all[j].rows)
    <2>1. CASE i \in 1..n /\ all[i] = q[i]
      <3>1. Ahead(loose, q[i].rows, held) /\ Under(top, q[i].rows)
        BY <1>6, <2>1 DEF Ordered, n
      <3>2. ASSUME NEW j \in 1..(n + k), i < j, all[j].lane = l
            PROVE  Ahead(loose, q[i].rows, all[j].rows)
        <4>1. CASE j \in 1..n /\ all[j] = q[j]
          BY <1>6, <2>1, <3>2, <4>1 DEF Ordered, n
        <4>2. CASE j > n /\ j - n \in 1..k /\ all[j] = more[j - n]
          BY <3>1, <3>2, <4>2 DEF k
        <4> QED
          BY <1>2, <4>1, <4>2
      <3> QED
        BY <1>3, <2>1, <3>1, <3>2
    <2>2. CASE i > n /\ i - n \in 1..k /\ all[i] = more[i - n]
      <3>1. all[i].rows = held /\ rest = <<>>
        BY <1>6, <2>2 DEF k
      <3>2. ASSUME NEW j \in 1..(n + k), i < j, all[j].lane = l
            PROVE  FALSE
        <4>1. j > n /\ j - n \in 1..k /\ all[j] = more[j - n]
          BY <1>1, <1>2, <2>2, <3>2
        <4>2. i - n < j - n
          BY <1>1, <3>2
        <4> QED
          BY <1>6, <2>2, <3>2, <4>1, <4>2 DEF k
      <3> QED
        BY <1>4, <3>1, <3>2, AheadOfNone
    <2> QED
      BY <1>2, <2>1, <2>2
  <1> QED
    BY <1>1, <1>4, <1>5, <1>6 DEF Ordered, all

\* The first batch has become a file.
LEMMA OrderedCreates ==
    ASSUME NEW loose, NEW F, NEW q \in Seq(Sendings), q # <<>>, NEW l, NEW held, NEW top,
           Ordered(loose, F, q, 0, l, held, top), NEW G, NEW f, f.rows = q[1].rows,
           (q[1].lane = l /\ G = F \cup {f}) \/ (q[1].lane # l /\ G = F)
    PROVE  Ordered(loose, G, q, 1, l, held, top)
  <1>1. 1 \in 1..Len(q) /\ Len(q) \in Nat
    OBVIOUS
  <1>2. ASSUME NEW g \in F
        PROVE  /\ Ahead(loose, g.rows, held) /\ Under(top, g.rows)
               /\ \A i \in 1..Len(q) : i > 1 /\ q[i].lane = l => Ahead(loose, g.rows, q[i].rows)
    BY DEF Ordered
  <1>3. ASSUME q[1].lane = l
        PROVE  /\ Ahead(loose, f.rows, held) /\ Under(top, f.rows)
               /\ \A i \in 1..Len(q) : i > 1 /\ q[i].lane = l => Ahead(loose, f.rows, q[i].rows)
    BY <1>1, <1>3 DEF Ordered
  <1>4. ASSUME NEW g \in G
        PROVE  /\ Ahead(loose, g.rows, held) /\ Under(top, g.rows)
               /\ \A i \in 1..Len(q) : i > 1 /\ q[i].lane = l => Ahead(loose, g.rows, q[i].rows)
    BY <1>2, <1>3
  <1> QED
    BY <1>4 DEF Ordered

\* And is done with.
LEMMA OrderedCloses ==
    ASSUME NEW loose, NEW F, NEW q \in Seq(Sendings), q # <<>>, NEW l, NEW held, NEW top,
           Ordered(loose, F, q, 1, l, held, top), NEW G, \A g \in G : \E f \in F : g.rows = f.rows
    PROVE  Ordered(loose, G, Tail(q), 0, l, held, top)
  <1> DEFINE t == Tail(q)
  <1>1. Len(q) \in Nat /\ Len(t) = Len(q) - 1 /\ Len(t) \in Nat /\ \A i \in 1..Len(t) : t[i] = q[i + 1]
    BY HeadTailProperties
  <1> HIDE DEF t
  <1>2. \A i \in 1..Len(t) : i + 1 \in 1..Len(q) /\ i + 1 > 1
    BY <1>1
  <1>3. ASSUME NEW g \in G
        PROVE  /\ Ahead(loose, g.rows, held) /\ Under(top, g.rows)
               /\ \A i \in 1..Len(t) : i > 0 /\ t[i].lane = l => Ahead(loose, g.rows, t[i].rows)
    <2>1. PICK f \in F : g.rows = f.rows
      OBVIOUS
    <2>2. /\ Ahead(loose, f.rows, held) /\ Under(top, f.rows)
          /\ \A i \in 1..Len(q) : i > 1 /\ q[i].lane = l => Ahead(loose, f.rows, q[i].rows)
      BY DEF Ordered
    <2> QED
      BY <1>1, <1>2, <2>1, <2>2
  <1>4. ASSUME NEW i \in 1..Len(t), t[i].lane = l
        PROVE  /\ Ahead(loose, t[i].rows, held) /\ Under(top, t[i].rows)
               /\ \A j \in 1..Len(t) : i < j /\ t[j].lane = l => Ahead(loose, t[i].rows, t[j].rows)
    <2> DEFINE m == i + 1
    <2>1. m \in 1..Len(q) /\ t[i] = q[m] /\ q[m].lane = l
      BY <1>1, <1>2, <1>4
    <2>2. \A j \in 1..Len(t) : i < j => m < j + 1
      OBVIOUS
    <2> HIDE DEF m
    <2>3. Ahead(loose, q[m].rows, held) /\ Under(top, q[m].rows)
      BY <2>1 DEF Ordered
    <2>4. \A j \in 1..Len(q) : m < j /\ q[j].lane = l => Ahead(loose, q[m].rows, q[j].rows)
      BY <2>1 DEF Ordered
    <2> QED
      BY <1>1, <1>2, <2>1, <2>2, <2>3, <2>4
  <1>5. Under(top, held)
    BY DEF Ordered
  <1> QED
    BY <1>3, <1>4, <1>5 DEF Ordered, t

\* What is lost leaves the rest in order.
LEMMA OrderedEmpties ==
    ASSUME NEW loose, NEW F, NEW q, NEW first, NEW next, NEW l, NEW held, NEW top,
           Ordered(loose, F, q, first, l, held, top), NEW rest, rest = <<>> \/ rest = held
    PROVE  Ordered(loose, F, <<>>, next, l, rest, top)
  <1>1. Len(<<>>) = 0 /\ 1..0 = {}
    OBVIOUS
  <1>2. Under(top, rest)
    BY UnderNone DEF Ordered
  <1>3. \A f \in F : Ahead(loose, f.rows, rest) /\ Under(top, f.rows)
    BY AheadOfNone DEF Ordered
  <1> QED
    BY <1>1, <1>2, <1>3 DEF Ordered

-----------------------------------------------------------------------------
(* Intervals.                                                              *)

\* A file is named by the first and last time of its rows.
LEMMA FileIs ==
    ASSUME NEW rows \in Batches, NEW closed \in BOOLEAN
    PROVE  /\ File(rows, closed) \in CatFiles /\ File(rows, closed).rows = rows
           /\ File(rows, closed).closed = closed
           /\ File(rows, closed).lo = Lo(rows) /\ File(rows, closed).hi = Hi(rows)
  <1>1. Lo(rows) \in Nat /\ Hi(rows) \in Nat
    BY SpanIs
  <1> QED
    BY <1>1 DEF File, CatFiles

\* Of two batches one ahead of the other, the intervals meet in one time at most,
\* and in none if the order is tight.
LEMMA SpansApart ==
    ASSUME NEW loose, NEW a \in Batches, NEW b \in Batches, Ahead(loose, a, b), NEW c, NEW d
    PROVE  /\ ~ loose => File(a, c).hi < File(b, d).lo
           /\ ~ Overlap(File(a, c), File(b, d)) => File(a, c).hi < File(b, d).lo
           /\ Overlap(File(a, c), File(b, d)) => loose
  <1> DEFINE f == File(a, c)
             g == File(b, d)
  <1>1. f.lo = Lo(a) /\ f.hi = Hi(a) /\ g.lo = Lo(b) /\ g.hi = Hi(b)
    BY DEF File
  <1>2. PICK r \in ToSet(a) : Time(r) = Hi(a)
    BY SpanIs
  <1>3. PICK q \in ToSet(b) : Time(q) = Lo(b)
    BY SpanIs
  <1>4. Hi(a) < Lo(b) \/ (loose /\ Hi(a) = Lo(b))
    BY <1>2, <1>3 DEF Ahead
  <1>5. Lo(a) \in Nat /\ Hi(a) \in Nat /\ Lo(b) \in Nat /\ Hi(b) \in Nat /\ Lo(a) <= Hi(a) /\ Lo(b) <= Hi(b)
    BY SpanIs
  <1> HIDE DEF f, g
  <1>6. Overlap(f, g) <=> Lo(a) <= Hi(b) /\ Lo(b) <= Hi(a)
    BY <1>1 DEF Overlap
  <1>7. ~ loose => f.hi < g.lo
    BY <1>1, <1>4
  <1>8. ~ Overlap(f, g) => f.hi < g.lo
    BY <1>1, <1>4, <1>5, <1>6
  <1>9. Overlap(f, g) => loose
    BY <1>4, <1>5, <1>6
  <1> QED
    BY <1>7, <1>8, <1>9 DEF f, g

-----------------------------------------------------------------------------
(* The invariant.                                                          *)

Encoding == writer = "encoding" /\ queue # <<>>
First == IF Encoding THEN 1 ELSE 0

RecorderType ==
    /\ pushed \in [Lanes -> TimedSeq]
    /\ feather \in [Lanes -> TimedSeq]
    /\ queue \in Seq(Sendings)
    /\ files \in [Lanes -> SUBSET CatFiles]
    /\ \A l \in Lanes : \A f \in files[l] : f = File(f.rows, f.closed)
    /\ latest \in [Lanes -> Int]

\* What a session has come to, and what its threads have left to do.
Phases ==
    /\ session = "recording" => tx
    /\ session = "joining" => ~ tx /\ feather = NoRows
    /\ session = "over" => writer = "exited" /\ feather = NoRows
    /\ session = "killed" => feather = NoRows /\ queue = <<>>
    /\ writer = "exited" => ~ tx /\ queue = <<>>
    /\ writer = "dead" => queue = <<>> /\ tied
    /\ Running /\ writer = "encoding" => queue # <<>>

InOrder(l) == Ordered(tied, files[l], queue, First, l, feather[l], latest[l])

\* A dead writer's queue is gone, and what comes after it.
Lost == session = "panicked" \/ (Running /\ writer = "dead")

ClosedFiles == {f \in CatFiles : f.closed}

\* s is lane l's files, one behind the other; the one being written is the last, and
\* the closed ones, what is sent and what is held are what was recorded.
Shelved(l, s) ==
    /\ \A i \in 1..Len(s) : \A j \in 1..Len(s) : i < j => s[i].hi < s[j].lo
    /\ files[l] = ToSet(s)
    /\ Encoding /\ queue[1].lane = l => s # <<>> /\ Last(s) = File(queue[1].rows, FALSE)
    /\ ~ Lost => pushed[l] = (Rows(Among(s, ClosedFiles)) \o SentIn(l, queue)) \o feather[l]

RecorderInv ==
    /\ RecorderType /\ Phases
    /\ \A l \in Lanes : InOrder(l)
    /\ \A l \in Lanes : \E s \in Seq(CatFiles) : Shelved(l, s)

\* A catalog nobody wrote to keeps the invariant.
LEMMA RecorderStarts == Init => RecorderInv
  <1> SUFFICES ASSUME Init PROVE RecorderInv
    OBVIOUS
  <1>1. <<>> \in TimedSeq /\ <<>> \in Seq(Sendings) /\ <<>> \in Seq(CatFiles) /\ Len(<<>>) = 0 /\ 1..0 = {}
    BY DEF TimedSeq
  <1>2. RecorderType
    BY <1>1 DEF Init, NoRows, RecorderType
  <1>3. Phases
    BY DEF Init, Phases, Running
  <1>4. \A l \in Lanes : InOrder(l)
    BY <1>1, UnderNone DEF Init, NoRows, InOrder, Ordered
  <1>5. ASSUME NEW l \in Lanes
        PROVE  Shelved(l, <<>>)
    <2>1. Rows(Among(<<>>, ClosedFiles)) = <<>> /\ SentIn(l, <<>>) = <<>> /\ ToSet(<<>>) = {}
      BY AmongEmpty, RowsEmpty, SentEmpty, SetOfEmpty
    <2>2. <<>> = (<<>> \o <<>>) \o <<>>
      OBVIOUS
    <2>3. files[l] = {} /\ pushed[l] = <<>> /\ feather[l] = <<>> /\ queue = <<>>
      BY DEF Init, NoRows
    <2> QED
      BY <1>1, <2>1, <2>2, <2>3 DEF Shelved, Encoding
  <1> QED
    BY <1>1, <1>2, <1>3, <1>4, <1>5 DEF RecorderInv

-----------------------------------------------------------------------------
(* A message.                                                              *)

\* A message's rows are at or after the lane's latest.
LEMMA MessageRows ==
    ASSUME RecorderInv, NEW l \in Lanes, NEW t \in Nat, NEW message \in Messages,
           latest[l] <= t, NEW loose, latest[l] = t => loose
    PROVE  /\ RowsAt(l, t, message) \in Batches
           /\ From(loose, latest[l], RowsAt(l, t, message))
           /\ Under(t + Last(message), RowsAt(l, t, message))
           /\ t + Last(message) \in Nat /\ latest[l] <= t + Last(message)
  <1> DEFINE n == Len(message)
             rows == RowsAt(l, t, message)
             top == latest[l]
             new == t + message[n]
  <1>1. /\ message \in Seq(Nat) /\ message # <<>> /\ n \in Nat /\ n \in 1..n
        /\ \A i \in 1..n : message[i] \in Nat /\ message[i] <= message[n]
    BY RecorderConstants
  <1>2. Last(message) = message[n]
    BY <1>1 DEF Last
  <1>3. top \in Int /\ Len(pushed[l]) \in Nat
    <2>1. pushed[l] \in Seq(Nat \X Nat) /\ latest[l] \in Int
      BY DEF RecorderInv, RecorderType, TimedSeq
    <2> QED
      BY <2>1
  <1>4. new \in Nat /\ top <= new
    BY <1>1, <1>3
  <1>5. rows \in TimedSeq /\ Len(rows) = n /\ \A i \in 1..n : Time(rows[i]) = t + message[i]
    <2> DEFINE m == Len(pushed[l])
    <2>1. rows = [i \in 1..n |-> <<t + message[i], m + i>>]
      BY DEF RowsAt
    <2>2. m \in Nat
      BY <1>3
    <2> HIDE DEF rows, n, m
    <2>3. \A i \in 1..n : <<t + message[i], m + i>> \in Nat \X Nat
      BY <1>1, <2>2
    <2>4. rows \in Seq(Nat \X Nat) /\ Len(rows) = n
      BY <1>1, <2>1, <2>3
    <2>5. \A i \in 1..n : rows[i] = <<t + message[i], m + i>>
      BY <2>1
    <2> QED
      BY <2>4, <2>5 DEF TimedSeq, Time
  <1> HIDE DEF rows, n, top, new
  <1>6. rows \in Batches
    <2>1. rows # <<>>
      BY <1>1, <1>5
    <2> QED
      BY <1>5, <2>1 DEF Batches, TimedSeq
  <1>7. ASSUME NEW r \in ToSet(rows)
        PROVE  /\ top < Time(r) \/ (loose /\ top = Time(r))
               /\ Time(r) <= new
    <2>1. PICK i \in 1..n : rows[i] = r
      BY <1>5, SetOfSeq DEF TimedSeq
    <2>2. Time(r) = t + message[i] /\ message[i] \in Nat /\ message[i] <= message[n] /\ message[n] \in Nat
      BY <1>1, <1>5, <2>1
    <2>3. t <= Time(r) /\ Time(r) \in Nat /\ Time(r) <= new
      BY <2>2 DEF new
    <2>4. top <= t /\ (top = t => loose)
      BY DEF top
    <2>5. top < Time(r) \/ top = Time(r)
      BY <1>3, <2>3, <2>4
    <2>6. top = Time(r) => top = t
      BY <1>3, <2>3, <2>4
    <2> QED
      BY <2>3, <2>4, <2>5, <2>6
  <1>8. From(loose, top, rows) /\ Under(new, rows)
    BY <1>7 DEF From, Under
  <1> QED
    BY <1>2, <1>4, <1>6, <1>8 DEF rows, top, new

\* The invariant, of one lane.
LEMMA LaneOrdered ==
    ASSUME RecorderInv, NEW l \in Lanes
    PROVE  /\ Ordered(tied, files[l], queue, First, l, feather[l], latest[l])
           /\ files[l] \subseteq CatFiles /\ queue \in Seq(Sendings)
           /\ feather[l] \in TimedSeq /\ pushed[l] \in TimedSeq /\ latest[l] \in Int
  BY DEF RecorderInv, RecorderType, InOrder

\* Three joined to one more.
JoinFour(a, b, c, d) ==
    /\ ((a \o b) \o c) \o d = (a \o b) \o (c \o d)
    /\ ((a \o b) \o c) \o d = (a \o (b \o (c \o d))) \o <<>>

\* Concatenation of four associates.
LEMMA JoinsFour ==
    ASSUME NEW S, NEW a \in Seq(S), NEW b \in Seq(S), NEW c \in Seq(S), NEW d \in Seq(S)
    PROVE  JoinFour(a, b, c, d)
  <1>1. a \o b \in Seq(S) /\ c \o d \in Seq(S) /\ b \o (c \o d) \in Seq(S)
    BY ConcatProperties
  <1>2. Joins(a \o b, c, d)
    BY <1>1, JoinsAll
  <1>3. Joins(a, b, c \o d)
    BY <1>1, JoinsAll
  <1>4. a \o (b \o (c \o d)) \in Seq(S)
    BY <1>1, ConcatProperties
  <1>5. (a \o (b \o (c \o d))) \o <<>> = a \o (b \o (c \o d))
    BY <1>4, ConcatEmptySeq
  <1> QED
    BY <1>2, <1>3, <1>5 DEF Joins, JoinFour

\* The three ways a message can leave its lane: held, sent, or lost with the session.
IngestCases(l, rows) ==
    \/ /\ feather' = [feather EXCEPT ![l] = @ \o rows]
       /\ queue' = queue /\ session' = session
    \/ /\ feather' = [feather EXCEPT ![l] = <<>>] /\ writer \in {"idle", "encoding"}
       /\ queue' = Append(queue, [lane |-> l, rows |-> feather[l] \o rows]) /\ session' = session
    \/ /\ feather' = [feather EXCEPT ![l] = <<>>] /\ writer \notin {"idle", "encoding"}
       /\ queue' = queue /\ session' = "panicked"

\* Ingest, maybe_take and send, spelled out.
LEMMA IngestDoes ==
    ASSUME RecorderInv, NEW l \in Lanes, NEW t \in 0..MaxTime, NEW message \in Messages,
           NEW full \in BOOLEAN, Ingest(l, t, message, full)
    PROVE  /\ session = "recording" /\ latest[l] <= t /\ t \in Nat
           /\ pushed' = [pushed EXCEPT ![l] = @ \o RowsAt(l, t, message)]
           /\ latest' = [latest EXCEPT ![l] = t + Last(message)]
           /\ tied => tied'
           /\ latest[l] = t => tied'
           /\ tx' = tx /\ writer' = writer /\ files' = files
           /\ IngestCases(l, RowsAt(l, t, message))
  <1> DEFINE rows == RowsAt(l, t, message)
             b == [lane |-> l, rows |-> feather[l] \o rows]
  <1>1. /\ session = "recording" /\ latest[l] <= t /\ t \in Nat
        /\ latest' = [latest EXCEPT ![l] = t + Last(message)]
        /\ tx' = tx /\ writer' = writer /\ files' = files /\ Record(l, rows, full)
    BY DEF Ingest
  <1>2. (tied => tied') /\ (latest[l] = t => tied')
    BY DEF Ingest
  <1> HIDE DEF rows
  <1>3. pushed' = [pushed EXCEPT ![l] = @ \o rows]
    BY <1>1 DEF Record
  <1>4. queue \o <<b>> = Append(queue, b)
    BY DEF RecorderInv, RecorderType
  <1> HIDE DEF b
  <1>5. ASSUME full
        PROVE  IngestCases(l, rows)
    <2>1. feather' = [feather EXCEPT ![l] = <<>>] /\ Send(<<b>>)
      BY <1>1, <1>5 DEF Record, b
    <2>2. CASE writer \in {"idle", "encoding"}
      <3>1. queue' = Append(queue, b) /\ session' = session
        BY <1>4, <2>1, <2>2 DEF Send
      <3> QED
        BY <2>1, <2>2, <3>1 DEF IngestCases, b
    <2>3. CASE writer \notin {"idle", "encoding"}
      <3>1. queue' = queue /\ session' = "panicked"
        BY <2>1, <2>3 DEF Send
      <3> QED
        BY <2>1, <2>3, <3>1 DEF IngestCases
    <2> QED
      BY <2>2, <2>3
  <1>6. ASSUME ~ full
        PROVE  IngestCases(l, rows)
    <2>1. feather' = [feather EXCEPT ![l] = @ \o rows] /\ queue' = queue /\ session' = session
      BY <1>1, <1>6 DEF Record
    <2> QED
      BY <2>1 DEF IngestCases
  <1>7. IngestCases(l, rows)
    BY <1>5, <1>6, Zenon
  <1> QED
    BY <1>1, <1>2, <1>3, <1>7 DEF rows

\* Live's ingest thread records a message and perhaps sends a batch.
LEMMA IngestKeeps ==
    ASSUME RecorderInv, NEW l \in Lanes, NEW t \in 0..MaxTime, NEW message \in Messages,
           NEW full \in BOOLEAN, Ingest(l, t, message, full)
    PROVE  RecorderInv'
  <1> DEFINE rows == RowsAt(l, t, message)
             b == [lane |-> l, rows |-> feather[l] \o rows]
             new == t + Last(message)
  <1>1. /\ session = "recording" /\ latest[l] <= t /\ t \in Nat
        /\ pushed' = [pushed EXCEPT ![l] = @ \o rows]
        /\ latest' = [latest EXCEPT ![l] = new]
        /\ tied => tied'
        /\ latest[l] = t => tied'
        /\ tx' = tx /\ writer' = writer /\ files' = files
        /\ IngestCases(l, rows)
    BY IngestDoes
  <1>2. rows \in Batches /\ From(tied', latest[l], rows) /\ Under(new, rows) /\ new \in Nat /\ latest[l] <= new
    BY <1>1, MessageRows
  <1>3. /\ files[l] \subseteq CatFiles /\ queue \in Seq(Sendings)
        /\ feather[l] \in TimedSeq /\ pushed[l] \in TimedSeq /\ latest[l] \in Int
    BY LaneOrdered
  <1> HIDE DEF rows, new
  <1>4. rows \in TimedSeq /\ feather[l] \o rows \in TimedSeq /\ pushed[l] \o rows \in TimedSeq
    <2>1. rows \in TimedSeq
      BY <1>2 DEF Batches, TimedSeq
    <2> QED
      BY <1>3, <2>1, ConcatProperties DEF TimedSeq
  <1>5. b \in Sendings
    <2> DEFINE all == feather[l] \o rows
    <2>1. all # <<>>
      <3>1. Len(all) = Len(feather[l]) + Len(rows) /\ Len(feather[l]) \in Nat /\ Len(rows) \in Nat
        BY <1>3, <1>4, ConcatProperties DEF TimedSeq
      <3>2. Len(rows) # 0
        BY <1>2, <1>4 DEF Batches, TimedSeq
      <3> HIDE DEF all
      <3>3. Len(all) # 0
        BY <3>1, <3>2
      <3> QED
        BY <3>3
    <2>2. all \in Batches
      BY <1>4, <2>1 DEF Batches, TimedSeq
    <2> HIDE DEF all
    <2>3. [lane |-> l, rows |-> all] \in Sendings
      BY <2>2 DEF Sendings
    <2> QED
      BY <2>3 DEF all
  <1>6. b.lane = l /\ b.rows = feather[l] \o rows
    OBVIOUS
  <1> HIDE DEF b
  <1>7. Append(queue, b) \in Seq(Sendings) /\ Append(queue, b) = queue \o <<b>> /\ <<b>> \in Seq(Sendings)
        /\ Len(<<b>>) = 1 /\ <<b>>[1] = b /\ <<>> \in Seq(Sendings) /\ queue \o <<>> = queue /\ Len(<<>>) = 0
    BY <1>3, <1>5
  <1>8. \/ /\ feather' = [feather EXCEPT ![l] = @ \o rows]
           /\ queue' = queue /\ session' = session
        \/ /\ feather' = [feather EXCEPT ![l] = <<>>] /\ writer \in {"idle", "encoding"}
           /\ queue' = Append(queue, b) /\ session' = session
        \/ /\ feather' = [feather EXCEPT ![l] = <<>>] /\ writer \notin {"idle", "encoding"}
           /\ queue' = queue /\ session' = "panicked"
    BY <1>1 DEF IngestCases, b
  <1>9. RecorderType'
    <2>1. <<>> \in TimedSeq
      BY DEF TimedSeq
    <2>2. feather' \in [Lanes -> TimedSeq]
      BY <1>4, <1>8, <2>1 DEF RecorderInv, RecorderType
    <2>3. pushed' \in [Lanes -> TimedSeq]
      BY <1>1, <1>4 DEF RecorderInv, RecorderType
    <2>4. latest' \in [Lanes -> Int]
      BY <1>1, <1>2 DEF RecorderInv, RecorderType
    <2>5. queue' \in Seq(Sendings)
      BY <1>3, <1>7, <1>8
    <2> QED
      BY <1>1, <2>2, <2>3, <2>4, <2>5 DEF RecorderInv, RecorderType
  <1>10. queue' # <<>> \/ queue' = queue
    BY <1>3, <1>5, <1>8
  <1>11. Phases'
    <2>1. tx /\ Running
      BY <1>1 DEF RecorderInv, Phases, Running
    <2>2. (writer = "exited" => ~ tx /\ queue = <<>>) /\ (writer = "dead" => queue = <<>> /\ tied)
          /\ (writer = "encoding" => queue # <<>>)
      BY <2>1 DEF RecorderInv, Phases
    <2>3. writer # "exited"
      BY <2>1, <2>2
    <2>4. session' = "recording" \/ session' = "panicked"
      BY <1>1, <1>8
    <2>5. writer = "dead" => queue' = <<>> /\ tied'
      BY <1>1, <1>8, <2>2
    <2>6. writer = "encoding" => queue' # <<>>
      BY <1>10, <2>2
    <2>7. tx' /\ writer' = writer
      BY <1>1, <2>1
    <2> QED
      BY <2>3, <2>4, <2>5, <2>6, <2>7 DEF Phases, Running
  <1>12. Encoding' = Encoding /\ First' = First /\ (Encoding => queue'[1] = queue[1])
    <2>1. Encoding => queue # <<>> /\ queue'[1] = queue[1] /\ queue' # <<>>
      BY <1>3, <1>5, <1>8, <1>10 DEF Encoding
    <2>2. writer = "encoding" => queue # <<>>
      BY <1>1 DEF RecorderInv, Phases, Running
    <2>3. Encoding' <=> Encoding
      BY <1>1, <1>10, <2>2 DEF Encoding
    <2> QED
      BY <2>1, <2>3 DEF First
  <1>13. ASSUME NEW k \in Lanes
         PROVE  InOrder(k)'
    <2> DEFINE grown == [feather EXCEPT ![l] = @ \o rows]
    <2>1. /\ Ordered(tied, files[k], queue, First, k, feather[k], latest[k])
          /\ files[k] \subseteq CatFiles /\ feather[k] \in TimedSeq /\ latest[k] \in Int
      BY LaneOrdered
    <2>2. Ordered(tied', files[k], queue, First, k, feather[k], latest[k])
      BY <1>1, <2>1, OrderedLoosens
    <2>3. Ordered(tied', files[k], queue, First, k, grown[k], latest'[k])
      <3>1. CASE k = l
        <4>1. Ordered(tied', files[l], queue, First, l, feather[l] \o rows, new)
          BY <1>2, <1>3, <1>4, <2>2, <3>1, OrderedHolds
        <4>2. grown[l] = feather[l] \o rows /\ latest'[l] = new
          BY <1>1 DEF RecorderInv, RecorderType
        <4> QED
          BY <3>1, <4>1, <4>2
      <3>2. CASE k # l
        <4>1. grown[k] = feather[k] /\ latest'[k] = latest[k]
          BY <1>1, <3>2 DEF RecorderInv, RecorderType
        <4> QED
          BY <2>2, <4>1
      <3> QED
        BY <3>1, <3>2
    <2>4. grown[l] = feather[l] \o rows
      BY DEF RecorderInv, RecorderType
    <2> DEFINE cleared == [feather EXCEPT ![l] = <<>>]
    <2>5. cleared[l] = <<>> /\ (k # l => cleared[k] = grown[k])
      BY DEF RecorderInv, RecorderType
    <2> HIDE DEF grown, cleared
    <2>6. ASSUME NEW q \in {<<>>, <<b>>}, q = <<>> \/ q = <<b>>
          PROVE  Ordered(tied', files[k], queue \o q, First, k, cleared[k], latest'[k])
      <3>1. q \in Seq(Sendings)
        BY <1>7
      <3>2. \A i \in 1..Len(q) : i = 1 /\ q[i] = b
        <4>1. CASE q = <<>>
          BY <4>1
        <4>2. CASE q = <<b>>
          BY <1>7, <4>2
        <4> QED
          BY <2>6, <4>1, <4>2
      <3>3. \A i \in 1..Len(q) : q[i].lane = k => q[i].rows = grown[k]
        BY <1>6, <2>4, <3>2
      <3>4. \A i \in 1..Len(q) : \A j \in 1..Len(q) : i < j => q[i].lane # q[j].lane
        BY <3>2
      <3>5. cleared[k] = <<>> \/ (cleared[k] = grown[k] /\ \A i \in 1..Len(q) : q[i].lane # k)
        BY <1>6, <2>5, <3>2
      <3> QED
        BY <1>3, <2>3, <3>1, <3>3, <3>4, <3>5, OrderedSends
    <2>7. Ordered(tied', files[k], queue, First, k, cleared[k], latest'[k])
      BY <1>7, <2>6
    <2>8. Ordered(tied', files[k], Append(queue, b), First, k, cleared[k], latest'[k])
      BY <1>7, <2>6
    <2>9. Ordered(tied', files[k], queue', First, k, feather'[k], latest'[k])
      BY <1>8, <2>3, <2>7, <2>8 DEF grown, cleared
    <2> QED
      BY <1>1, <1>12, <2>9 DEF InOrder
  <1>14. ASSUME NEW k \in Lanes
         PROVE  (\E s \in Seq(CatFiles) : Shelved(k, s))'
    <2>1. PICK s \in Seq(CatFiles) : Shelved(k, s)
      BY DEF RecorderInv
    <2>2. ASSUME ~ Lost'
          PROVE  pushed'[k] = (Rows(Among(s, ClosedFiles)) \o SentIn(k, queue')) \o feather'[k]
      <3> DEFINE x == Rows(Among(s, ClosedFiles))
                 y == SentIn(k, queue)
                 h == feather[k]
      <3>1. pushed[k] = (x \o y) \o h
        BY <1>1, <1>8, <2>1, <2>2 DEF Shelved, Lost, Running
      <3>2. x \in Seq(Nat \X Nat) /\ y \in Seq(Nat \X Nat) /\ h \in Seq(Nat \X Nat) /\ rows \in Seq(Nat \X Nat)
        <4>1. Among(s, ClosedFiles) \in Seq(CatFiles) /\ \A f \in CatFiles : f.rows \in Seq(Nat \X Nat)
          BY AmongHolds, FileRows DEF TimedSeq
        <4> QED
          BY <1>3, <1>4, <4>1, RowsHold, SentType, LaneOrdered DEF TimedSeq
      <3>3. SentIn(k, Append(queue, b)) = IF k = l THEN y \o b.rows ELSE y
        BY <1>3, <1>5, <1>6, SentAppend
      <3>4. session' # "panicked"
        BY <2>2 DEF Lost
      <3> HIDE DEF x, y, h
      <3>5. CASE k # l
        <4>1. pushed'[k] = pushed[k] /\ feather'[k] = h
          BY <1>1, <1>8, <3>5 DEF RecorderInv, RecorderType, h
        <4>2. SentIn(k, queue') = y
          BY <1>8, <3>3, <3>5 DEF y
        <4> QED
          BY <3>1, <4>1, <4>2 DEF x
      <3>6. CASE k = l
        <4>1. pushed'[k] = ((x \o y) \o h) \o rows
          BY <1>1, <3>1, <3>6 DEF RecorderInv, RecorderType
        <4>2. /\ ((x \o y) \o h) \o rows = (x \o y) \o (h \o rows)
              /\ ((x \o y) \o h) \o rows = (x \o (y \o (h \o rows))) \o <<>>
          <5>1. JoinFour(x, y, h, rows)
            BY <3>2, JoinsFour
          <5> QED
            BY <5>1 DEF JoinFour
        <4>3. CASE feather' = [feather EXCEPT ![l] = @ \o rows] /\ queue' = queue
          <5>1. feather'[k] = h \o rows /\ SentIn(k, queue') = y
            BY <3>6, <4>3 DEF RecorderInv, RecorderType, h, y
          <5> QED
            BY <4>1, <4>2, <5>1 DEF x
        <4>4. CASE feather' = [feather EXCEPT ![l] = <<>>] /\ queue' = Append(queue, b)
          <5>1. feather'[k] = <<>> /\ SentIn(k, queue') = y \o (h \o rows)
            BY <1>6, <3>3, <3>6, <4>4 DEF RecorderInv, RecorderType, h
          <5> QED
            BY <4>1, <4>2, <5>1 DEF x
        <4> QED
          BY <1>8, <3>4, <4>3, <4>4
      <3> QED
        BY <3>5, <3>6
    <2>3. Encoding' /\ queue'[1].lane = k => s # <<>> /\ Last(s) = File(queue'[1].rows, FALSE)
      BY <1>12, <2>1 DEF Shelved
    <2>4. Shelved(k, s)'
      BY <1>1, <2>1, <2>2, <2>3 DEF Shelved
    <2> QED
      BY <2>4
  <1> QED
    BY <1>9, <1>11, <1>13, <1>14 DEF RecorderInv

-----------------------------------------------------------------------------
(* The end of a session, its death, and the next one.                      *)

\* The closed files' rows, typed.
LEMMA ShelvedRows ==
    ASSUME NEW s \in Seq(CatFiles)
    PROVE  /\ Rows(Among(s, ClosedFiles)) \in Seq(Nat \X Nat)
           /\ Among(s, ClosedFiles) \in Seq(CatFiles)
           /\ \A f \in CatFiles : f.rows \in Seq(Nat \X Nat)
  <1>1. Among(s, ClosedFiles) \in Seq(CatFiles) /\ \A f \in CatFiles : f.rows \in Seq(Nat \X Nat)
    BY AmongHolds, FileRows DEF TimedSeq
  <1> QED
    BY <1>1, RowsHold

\* The flush takes what is held to what is sent.
LEMMA FinalFlushKeeps == ASSUME RecorderInv, FinalFlush PROVE RecorderInv'
  <1>1. /\ session = "recording" /\ feather' = NoRows /\ tx' = FALSE
        /\ pushed' = pushed /\ writer' = writer /\ files' = files /\ latest' = latest /\ tied' = tied
    BY DEF FinalFlush
  <1>2. \/ writer = "dead" /\ session' = "panicked" /\ queue' = queue
        \/ writer # "dead" /\ session' = "joining" /\ queue' = queue \o Tails
    BY DEF FinalFlush
  <1>3. /\ queue \in Seq(Sendings) /\ feather \in [Lanes -> Seq(Nat \X Nat)]
        /\ pushed \in [Lanes -> TimedSeq]
    BY DEF RecorderInv, RecorderType, TimedSeq
  <1> DEFINE more == Tails
             all == queue \o more
  <1>0. \/ writer = "dead" /\ session' = "panicked" /\ queue' = queue
        \/ writer # "dead" /\ session' = "joining" /\ queue' = all
    BY <1>2
  <1>4. AreTails(more, Cardinality(Lanes)) /\ \A l \in Lanes : l <= Cardinality(Lanes)
    <2>1. AreTails(more, Cardinality(Lanes))
      BY <1>3, TailsAre
    <2>2. Cardinality(Lanes) \in Nat /\ Lanes = 1..Cardinality(Lanes)
      BY RecorderConstants, FS_CardinalityType
    <2> HIDE DEF more
    <2>3. \A l \in Lanes : l <= Cardinality(Lanes)
      BY <2>2
    <2> QED
      BY <2>1, <2>3
  <1> HIDE DEF more
  <1>5. /\ more \in Seq(Sendings)
        /\ \A i \in 1..Len(more) : more[i] \in Sendings /\ more[i].lane \in Lanes
        /\ \A i \in 1..Len(more) : more[i].rows = feather[more[i].lane]
        /\ \A i \in 1..Len(more) : \A j \in 1..Len(more) : i < j => more[i].lane # more[j].lane
        /\ \A l \in Lanes : SentIn(l, more) = feather[l]
    <2>1. more \in Seq(Sendings)
      BY <1>4 DEF AreTails
    <2>2. \A i \in 1..Len(more) : more[i] \in Sendings /\ more[i].lane \in Lanes
      BY <2>1, SendingRows
    <2>3. \A i \in 1..Len(more) : \A j \in 1..Len(more) : i < j => more[i].lane < more[j].lane
      BY <1>4 DEF AreTails
    <2>4. \A l \in Lanes : l \in Nat
      BY RecorderConstants
    <2>5. \A i \in 1..Len(more) : \A j \in 1..Len(more) : i < j => more[i].lane # more[j].lane
      BY <2>2, <2>3, <2>4
    <2>6. \A l \in Lanes : SentIn(l, more) = feather[l]
      BY <1>4 DEF AreTails
    <2>7. \A i \in 1..Len(more) : more[i].rows = feather[more[i].lane]
      BY <1>4 DEF AreTails
    <2> QED
      BY <2>1, <2>2, <2>5, <2>6, <2>7
  <1>6. all \in Seq(Sendings) /\ (queue # <<>> => all # <<>> /\ all[1] = queue[1])
    <2>1. all \in Seq(Sendings) /\ Len(all) = Len(queue) + Len(more)
          /\ \A i \in 1..Len(queue) : all[i] = queue[i]
      BY <1>3, <1>5, ConcatProperties
    <2>2. Len(queue) \in Nat /\ Len(more) \in Nat /\ (queue # <<>> => 1 \in 1..Len(queue))
      BY <1>3, <1>5
    <2> HIDE DEF all
    <2>3. queue # <<>> => Len(all) # 0 /\ all[1] = queue[1]
      BY <2>1, <2>2
    <2> QED
      BY <2>1, <2>3
  <1> HIDE DEF all
  <1>7. /\ writer # "exited"
        /\ writer = "dead" => queue = <<>> /\ tied
        /\ writer = "encoding" => queue # <<>>
    BY <1>1 DEF RecorderInv, Phases, Running
  <1>8. Encoding' = Encoding /\ First' = First /\ (Encoding => queue'[1] = queue[1])
    <2>1. Encoding' <=> Encoding
      BY <1>0, <1>1, <1>6, <1>7 DEF Encoding
    <2>2. Encoding => queue'[1] = queue[1]
      BY <1>0, <1>6 DEF Encoding
    <2> QED
      BY <2>1, <2>2 DEF First
  <1>9. RecorderType'
    <2>1. NoRows \in [Lanes -> TimedSeq]
      BY DEF NoRows, TimedSeq
    <2>2. queue' \in Seq(Sendings)
      BY <1>0, <1>3, <1>6
    <2> QED
      BY <1>1, <2>1, <2>2 DEF RecorderInv, RecorderType
  <1>10. Phases'
    BY <1>0, <1>1, <1>6, <1>7 DEF Phases, Running
  <1>11. ASSUME NEW l \in Lanes
         PROVE  InOrder(l)'
    <2>1. Ordered(tied, files[l], queue, First, l, feather[l], latest[l])
      BY LaneOrdered
    <2>2. feather'[l] = <<>>
      BY <1>1 DEF NoRows
    <2>3. Ordered(tied, files[l], all, First, l, <<>>, latest[l])
      <3> DEFINE held == feather[l]
                 F == files[l]
                 top == latest[l]
                 rest == <<>>
      <3>1. Ordered(tied, F, queue, First, l, held, top)
        BY <2>1
      <3>2. queue \in Seq(Sendings) /\ more \in Seq(Sendings) /\ rest = <<>>
        BY <1>3, <1>5
      <3>3. \A i \in 1..Len(more) : more[i].lane = l => more[i].rows = held
        BY <1>5
      <3>4. \A i \in 1..Len(more) : \A j \in 1..Len(more) : i < j => more[i].lane # more[j].lane
        BY <1>5
      <3> HIDE DEF held, F, top, rest
      <3>5. Ordered(tied, F, queue \o more, First, l, rest, top)
        BY <3>1, <3>2, <3>3, <3>4, OrderedSends
      <3> QED
        BY <3>5 DEF held, F, top, rest, all
    <2>4. Ordered(tied, files[l], queue \o <<>>, First, l, <<>>, latest[l])
      <3>1. <<>> \in Seq(Sendings) /\ Len(<<>>) = 0 /\ 1..0 = {}
        OBVIOUS
      <3> QED
        BY <1>3, <2>1, <3>1, OrderedSends
    <2>5. queue \o <<>> = queue
      BY <1>3
    <2>6. Ordered(tied, files[l], queue', First, l, <<>>, latest[l])
      BY <1>0, <2>3, <2>4, <2>5
    <2> QED
      BY <1>1, <1>8, <2>2, <2>6 DEF InOrder
  <1>12. ASSUME NEW l \in Lanes
         PROVE  (\E s \in Seq(CatFiles) : Shelved(l, s))'
    <2>1. PICK s \in Seq(CatFiles) : Shelved(l, s)
      BY DEF RecorderInv
    <2>2. ASSUME ~ Lost'
          PROVE  pushed'[l] = (Rows(Among(s, ClosedFiles)) \o SentIn(l, queue')) \o feather'[l]
      <3> DEFINE x == Rows(Among(s, ClosedFiles))
                 y == SentIn(l, queue)
                 h == feather[l]
      <3>1. session' = "joining" /\ queue' = all /\ writer # "dead"
        BY <1>0, <2>2 DEF Lost
      <3>2. pushed[l] = (x \o y) \o h
        BY <1>1, <2>1, <3>1 DEF Shelved, Lost, Running
      <3>3. SentIn(l, all) = y \o h
        <4>1. SentIn(l, queue \o more) = SentIn(l, queue) \o SentIn(l, more)
          BY <1>3, <1>5, SentConcat
        <4> QED
          BY <1>5, <4>1 DEF all
      <3>4. x \in Seq(Nat \X Nat) /\ y \in Seq(Nat \X Nat) /\ h \in Seq(Nat \X Nat)
        BY <1>3, ShelvedRows, SentType
      <3>5. pushed'[l] = pushed[l] /\ feather'[l] = <<>>
        BY <1>1 DEF NoRows
      <3> HIDE DEF x, y, h
      <3>6. Joins(x, y, h)
        BY <3>4, JoinsAll
      <3>7. (x \o y) \o h \in Seq(Nat \X Nat)
        BY <3>4, ConcatProperties
      <3>8. pushed[l] = pushed[l] \o <<>>
        BY <3>2, <3>7, ConcatEmptySeq
      <3>9. pushed[l] = x \o (y \o h)
        BY <3>2, <3>6 DEF Joins
      <3>10. pushed'[l] = (x \o SentIn(l, queue')) \o feather'[l]
        BY <3>1, <3>3, <3>5, <3>8, <3>9
      <3> QED
        BY <3>10 DEF x
    <2>3. Encoding' /\ queue'[1].lane = l => s # <<>> /\ Last(s) = File(queue'[1].rows, FALSE)
      BY <1>8, <2>1 DEF Shelved
    <2>4. Shelved(l, s)'
      BY <1>1, <2>1, <2>2, <2>3 DEF Shelved
    <2> QED
      BY <2>4
  <1> QED
    BY <1>9, <1>10, <1>11, <1>12 DEF RecorderInv

\* What changes no lane's rows leaves them as they were.
LEMMA LanesUntouched ==
    ASSUME RecorderInv,
           pushed' = pushed, feather' = feather, queue' = queue, files' = files,
           latest' = latest, tied' = tied, Encoding' = Encoding, Lost => Lost', Phases'
    PROVE  RecorderInv'
  <1>1. First' = First
    BY DEF First
  <1>2. \A l \in Lanes : InOrder(l)'
    BY <1>1 DEF RecorderInv, InOrder
  <1>3. ASSUME NEW l \in Lanes
        PROVE  (\E s \in Seq(CatFiles) : Shelved(l, s))'
    <2>1. PICK s \in Seq(CatFiles) : Shelved(l, s)
      BY DEF RecorderInv
    <2>2. Shelved(l, s)'
      BY <2>1 DEF Shelved
    <2> QED
      BY <2>2
  <1>4. RecorderType'
    BY DEF RecorderInv, RecorderType
  <1> QED
    BY <1>2, <1>3, <1>4 DEF RecorderInv

\* finish returns once the writer exited.
LEMMA JoinKeeps == ASSUME RecorderInv, Join PROVE RecorderInv'
  <1>1. Phases'
    BY DEF Join, RecorderInv, Phases, Running
  <1>2. Encoding' = Encoding
    BY DEF Join, Encoding
  <1>3. Lost => Lost'
    BY DEF Join, Lost, Running
  <1> QED
    BY <1>1, <1>2, <1>3, LanesUntouched DEF Join

\* The writer exits at the end of its channel.
LEMMA ExitKeeps == ASSUME RecorderInv, Exit PROVE RecorderInv'
  <1>1. Phases'
    BY DEF Exit, RecorderInv, Phases, Running
  <1>2. Encoding' = Encoding
    BY DEF Exit, Encoding
  <1>3. Lost => Lost'
    BY DEF Exit, Lost, Running
  <1> QED
    BY <1>1, <1>2, <1>3, LanesUntouched DEF Exit

\* A session opens over what the last one left.
LEMMA RestartKeeps == ASSUME RecorderInv, Restart PROVE RecorderInv'
  <1>1. Phases'
    BY DEF Restart, RecorderInv, Phases, Running
  <1>2. Encoding' = Encoding
    BY DEF Restart, RecorderInv, Phases, Encoding
  <1>3. Lost => Lost'
    BY DEF Restart, Lost, Running
  <1> QED
    BY <1>1, <1>2, <1>3, LanesUntouched DEF Restart

\* What is on disk when the process dies is the closed files, in order.
LEMMA OnDiskIs ==
    ASSUME RecorderInv, NEW l \in Lanes, NEW s \in Seq(CatFiles), Shelved(l, s)
    PROVE  Listing(l) = s /\ OnDisk(l) = Rows(Among(s, ClosedFiles))
  <1>1. files[l] = ToSet(s) /\ files[l] \subseteq CatFiles
    BY LaneOrdered DEF Shelved
  <1>2. \A f \in CatFiles : f.lo \in Nat /\ f.hi \in Nat
    BY DEF CatFiles
  <1>3. \A i \in 1..Len(s) : s[i] \in files[l] /\ s[i].lo <= s[i].hi
    <2>1. ASSUME NEW i \in 1..Len(s)
          PROVE  s[i] \in files[l] /\ s[i].lo <= s[i].hi
      <3>1. s[i] \in files[l] /\ s[i] \in CatFiles
        BY <1>1, SetOfSeq
      <3>2. s[i] = File(s[i].rows, s[i].closed)
        BY <3>1 DEF RecorderInv, RecorderType
      <3>3. s[i].rows \in Batches /\ s[i].closed \in BOOLEAN
        BY <3>1 DEF CatFiles
      <3>4. s[i].lo = Lo(s[i].rows) /\ s[i].hi = Hi(s[i].rows)
        BY <3>2, <3>3, FileIs
      <3> QED
        BY <3>1, <3>3, <3>4, SpanIs
    <2> QED
      BY <2>1
  <1>4. ASSUME NEW i \in 1..Len(s), NEW j \in 1..Len(s), i < j
        PROVE  s[i].lo < s[j].lo
    <2>1. s[i].hi < s[j].lo
      BY <1>4 DEF Shelved
    <2>2. s[i].lo <= s[i].hi /\ s[i].lo \in Nat /\ s[i].hi \in Nat /\ s[j].lo \in Nat
      BY <1>2, <1>3
    <2> QED
      BY <2>1, <2>2
  <1>5. Listing(l) = s
    BY <1>1, <1>2, <1>4, ListingIs
  <1>6. ToSet(s) \cap {f \in files[l] : f.closed} = ToSet(s) \cap ClosedFiles
    BY <1>1 DEF ClosedFiles
  <1>7. Among(s, {f \in files[l] : f.closed}) = Among(s, ClosedFiles)
    <2> DEFINE C == {f \in files[l] : f.closed}
    <2>1. ToSet(s) \cap C = ToSet(s) \cap ClosedFiles
      BY <1>6
    <2> HIDE DEF C
    <2>2. Among(s, C) = Among(s, ClosedFiles)
      BY <2>1, AmongSame
    <2> QED
      BY <2>2 DEF C
  <1> QED
    BY <1>5, <1>7 DEF OnDisk

\* A kill loses what was in memory and leaves the files.
LEMMA KillKeeps == ASSUME RecorderInv, Kill PROVE RecorderInv'
  <1>1. /\ session' = "killed" /\ pushed' = [l \in Lanes |-> OnDisk(l)] /\ feather' = NoRows /\ queue' = <<>>
        /\ tx' = tx /\ writer' = writer /\ files' = files /\ latest' = latest /\ tied' = tied
    BY DEF Kill
  <1>2. ASSUME NEW l \in Lanes
        PROVE  \E s \in Seq(CatFiles) : Shelved(l, s) /\ OnDisk(l) = Rows(Among(s, ClosedFiles))
    <2>1. PICK s \in Seq(CatFiles) : Shelved(l, s)
      BY DEF RecorderInv
    <2> QED
      BY <2>1, OnDiskIs
  <1>3. \A l \in Lanes : OnDisk(l) \in TimedSeq
    BY <1>2, ShelvedRows DEF TimedSeq
  <1>4. RecorderType'
    <2>1. NoRows \in [Lanes -> TimedSeq] /\ <<>> \in Seq(Sendings)
      BY DEF NoRows, TimedSeq
    <2> QED
      BY <1>1, <1>3, <2>1 DEF RecorderInv, RecorderType
  <1>5. Phases'
    BY <1>1 DEF RecorderInv, Phases, Running
  <1>6. ~ Encoding'
    BY <1>1 DEF Encoding
  <1>7. ASSUME NEW l \in Lanes
        PROVE  InOrder(l)'
    <2>1. Ordered(tied, files[l], queue, First, l, feather[l], latest[l]) /\ feather'[l] = <<>>
      BY <1>1, LaneOrdered DEF NoRows
    <2>2. Ordered(tied, files[l], <<>>, First', l, <<>>, latest[l])
      BY <2>1, OrderedEmpties
    <2> QED
      BY <1>1, <2>1, <2>2 DEF InOrder
  <1>8. ASSUME NEW l \in Lanes
        PROVE  (\E s \in Seq(CatFiles) : Shelved(l, s))'
    <2>1. PICK s \in Seq(CatFiles) : Shelved(l, s) /\ OnDisk(l) = Rows(Among(s, ClosedFiles))
      BY <1>2
    <2> DEFINE x == Rows(Among(s, ClosedFiles))
    <2>2. x \in Seq(Nat \X Nat)
      BY ShelvedRows
    <2>3. pushed'[l] = x /\ feather'[l] = <<>> /\ queue' = <<>> /\ SentIn(l, <<>>) = <<>>
      BY <1>1, <2>1, SentEmpty DEF NoRows
    <2> HIDE DEF x
    <2>4. (x \o <<>>) \o <<>> = x
      BY <2>2, ConcatEmptySeq
    <2>5. pushed'[l] = (Rows(Among(s, ClosedFiles)) \o SentIn(l, queue')) \o feather'[l]
      BY <2>3, <2>4 DEF x
    <2>6. Shelved(l, s)'
      BY <1>1, <1>6, <2>1, <2>5 DEF Shelved
    <2> QED
      BY <2>6
  <1> QED
    BY <1>4, <1>5, <1>7, <1>8 DEF RecorderInv

-----------------------------------------------------------------------------
(* The writer's steps.                                                     *)

\* The batch at the head, and the files of its lane.
LEMMA AtTheHead ==
    ASSUME RecorderInv, queue # <<>>
    PROVE  /\ Head(queue) = queue[1] /\ queue[1] \in Sendings /\ queue[1].lane \in Lanes
           /\ queue[1].rows \in Batches /\ 1 \in 1..Len(queue)
           /\ Tail(queue) \in Seq(Sendings)
           /\ \A l \in Lanes : files[l] \subseteq CatFiles
           /\ \A l \in Lanes : \A f \in files[l] :
                f.rows \in Batches /\ f.closed \in BOOLEAN /\ f = File(f.rows, f.closed)
  <1>1. queue \in Seq(Sendings)
    BY DEF RecorderInv, RecorderType
  <1>2. Head(queue) = queue[1] /\ queue[1] \in Sendings /\ Tail(queue) \in Seq(Sendings) /\ 1 \in 1..Len(queue)
    BY <1>1
  <1>3. \A l \in Lanes : files[l] \subseteq CatFiles
    BY DEF RecorderInv, RecorderType
  <1>4. \A l \in Lanes : \A f \in files[l] : f.rows \in Batches /\ f.closed \in BOOLEAN
    BY <1>3 DEF CatFiles
  <1>5. \A l \in Lanes : \A f \in files[l] : f = File(f.rows, f.closed)
    BY DEF RecorderInv, RecorderType
  <1> QED
    BY <1>2, <1>3, <1>4, <1>5, SendingRows

\* A file of the head's lane ends before the batch begins, or meets it in a tie.
LEMMA HeadApart ==
    ASSUME RecorderInv, queue # <<>>, First = 0, NEW f \in files[queue[1].lane], NEW c \in BOOLEAN
    PROVE  /\ ~ Overlap(f, File(queue[1].rows, TRUE)) => f.hi < File(queue[1].rows, c).lo
           /\ Overlap(f, File(queue[1].rows, TRUE)) => tied
  <1> DEFINE l == queue[1].lane
             b == queue[1].rows
             g == File(f.rows, f.closed)
             d == File(b, TRUE)
  <1>1. l \in Lanes /\ b \in Batches /\ 1 \in 1..Len(queue)
    BY AtTheHead
  <1>2. f.rows \in Batches /\ f.closed \in BOOLEAN
    BY <1>1, AtTheHead
  <1>7. f = g
    BY <1>1, AtTheHead
  <1>3. Ahead(tied, f.rows, b)
    <2>1. Ordered(tied, files[l], queue, 0, l, feather[l], latest[l])
      BY <1>1, LaneOrdered
    <2> QED
      BY <1>1, <2>1 DEF Ordered
  <1>4. File(b, c).lo = d.lo
    <2>1. File(b, c).lo = Lo(b)
      BY <1>1, FileIs
    <2>2. d.lo = Lo(b)
      BY <1>1, FileIs
    <2> QED
      BY <2>1, <2>2
  <1>5. /\ ~ Overlap(g, d) => g.hi < d.lo
        /\ Overlap(g, d) => tied
    <2> HIDE DEF b
    <2>1. \A c0, d0 : ~ Overlap(File(f.rows, c0), File(b, d0)) => File(f.rows, c0).hi < File(b, d0).lo
      BY <1>1, <1>2, <1>3, SpansApart
    <2>2. \A c0, d0 : Overlap(File(f.rows, c0), File(b, d0)) => tied
      BY <1>1, <1>2, <1>3, SpansApart
    <2>3. ~ Overlap(File(f.rows, f.closed), File(b, TRUE)) => File(f.rows, f.closed).hi < File(b, TRUE).lo
      BY <2>1
    <2>4. Overlap(File(f.rows, f.closed), File(b, TRUE)) => tied
      BY <2>2
    <2> QED
      BY <2>3, <2>4
  <1> HIDE DEF g, d
  <1>6. (~ Overlap(f, d) => f.hi < File(b, c).lo) /\ (Overlap(f, d) => tied)
    BY <1>4, <1>5, <1>7
  <1> QED
    BY <1>6 DEF d

\* Catalog::write refuses an interval that meets another and the writer dies.
LEMMA RefuseKeeps == ASSUME RecorderInv, Refuse PROVE RecorderInv'
  <1>1. /\ Running /\ writer = "idle" /\ queue # <<>> /\ Refused
        /\ writer' = "dead" /\ queue' = <<>>
        /\ pushed' = pushed /\ feather' = feather /\ tx' = tx /\ files' = files
        /\ session' = session /\ latest' = latest /\ tied' = tied
    BY DEF Refuse
  <1>2. First = 0 /\ ~ Encoding
    BY <1>1 DEF First, Encoding
  <1>3. tied
    <2>1. PICK f \in files[Head(queue).lane] : Overlap(f, File(Head(queue).rows, TRUE))
      BY <1>1 DEF Refused, Batch
    <2>2. Head(queue) = queue[1]
      BY <1>1, AtTheHead
    <2> QED
      BY <1>1, <1>2, <2>1, <2>2, HeadApart
  <1>4. RecorderType'
    <2>1. <<>> \in Seq(Sendings)
      OBVIOUS
    <2> QED
      BY <1>1, <2>1 DEF RecorderInv, RecorderType
  <1>5. Phases'
    BY <1>1, <1>3 DEF RecorderInv, Phases, Running
  <1>6. ~ Encoding' /\ Lost'
    BY <1>1 DEF Encoding, Lost, Running
  <1>7. ASSUME NEW l \in Lanes
        PROVE  InOrder(l)'
    <2>1. Ordered(tied, files[l], queue, First, l, feather[l], latest[l])
      BY LaneOrdered
    <2>2. Ordered(tied, files[l], <<>>, First', l, feather[l], latest[l])
      BY <2>1, OrderedEmpties
    <2> QED
      BY <1>1, <2>2 DEF InOrder
  <1>8. ASSUME NEW l \in Lanes
        PROVE  (\E s \in Seq(CatFiles) : Shelved(l, s))'
    <2>1. PICK s \in Seq(CatFiles) : Shelved(l, s)
      BY DEF RecorderInv
    <2>2. Shelved(l, s)'
      BY <1>1, <1>6, <2>1 DEF Shelved
    <2> QED
      BY <2>2
  <1> QED
    BY <1>4, <1>5, <1>7, <1>8 DEF RecorderInv

\* The file of the batch at the head stands, not closed, behind the others.
LEMMA CreateKeeps == ASSUME RecorderInv, Create PROVE RecorderInv'
  <1>1. /\ Running /\ writer = "idle" /\ queue # <<>> /\ writer' = "encoding"
        /\ pushed' = pushed /\ feather' = feather /\ tx' = tx /\ queue' = queue
        /\ session' = session /\ latest' = latest /\ tied' = tied
    BY DEF Create
  <1>2. queue[1].lane \in Lanes /\ queue[1].rows \in Batches /\ Head(queue) = queue[1]
    BY <1>1, AtTheHead
  <1>3. PICK k \in Lanes : k = queue[1].lane
    BY <1>2
  <1>4. PICK new \in CatFiles : new = File(queue[1].rows, FALSE)
    <2>1. FALSE \in BOOLEAN
      OBVIOUS
    <2> QED
      BY <1>2, <2>1, FileIs
  <1>5. files' = [files EXCEPT ![k] = files[k] \cup {new}] /\ ~ Refused
    BY <1>2, <1>3, <1>4 DEF Create
  <1>6. ~ Encoding /\ First = 0 /\ Encoding' /\ First' = 1
    BY <1>1 DEF First, Encoding
  <1>7. new \in CatFiles /\ new.rows = queue[1].rows /\ ~ new.closed /\ new = File(new.rows, new.closed)
    <2>1. FALSE \in BOOLEAN
      OBVIOUS
    <2>2. new.rows = queue[1].rows /\ new.closed = FALSE
      BY <1>2, <1>4, <2>1, FileIs
    <2> QED
      BY <1>4, <2>2
  <1>8. \A f \in files[k] : f.hi < new.lo
    <2>1. ASSUME NEW f \in files[k]
          PROVE  f.hi < new.lo
      <3>1. ~ Overlap(f, File(queue[1].rows, TRUE))
        BY <1>2, <1>5, <1>3 DEF Refused, Batch
      <3>2. FALSE \in BOOLEAN
        OBVIOUS
      <3> QED
        BY <1>1, <1>6, <1>3, <1>4, <3>1, <3>2, HeadApart
    <2> QED
      BY <2>1
  <1>9. files \in [Lanes -> SUBSET CatFiles]
    BY DEF RecorderInv, RecorderType
  <1>10. files'[k] = files[k] \cup {new} /\ \A l \in Lanes : l # k => files'[l] = files[l]
    BY <1>2, <1>5, <1>9
  <1>11. RecorderType'
    <2>1. files' \in [Lanes -> SUBSET CatFiles]
      BY <1>5, <1>7, <1>9
    <2>2. \A l \in Lanes : \A f \in files[l] : f = File(f.rows, f.closed)
      BY DEF RecorderInv, RecorderType
    <2>3. \A l \in Lanes : \A f \in files'[l] : f = File(f.rows, f.closed)
      BY <1>7, <1>10, <2>2
    <2> QED
      BY <1>1, <2>1, <2>3 DEF RecorderInv, RecorderType
  <1>12. Phases'
    BY <1>1 DEF RecorderInv, Phases, Running
  <1>13. ASSUME NEW l \in Lanes
         PROVE  InOrder(l)'
    <2>1. Ordered(tied, files[l], queue, 0, l, feather[l], latest[l]) /\ queue \in Seq(Sendings)
      BY <1>6, LaneOrdered
    <2>2. (queue[1].lane = l /\ files'[l] = files[l] \cup {new}) \/ (queue[1].lane # l /\ files'[l] = files[l])
      BY <1>10, <1>3
    <2>3. Ordered(tied, files'[l], queue, 1, l, feather[l], latest[l])
      BY <1>1, <1>7, <2>1, <2>2, OrderedCreates
    <2> QED
      BY <1>1, <1>6, <2>3 DEF InOrder
  <1>14. Lost' <=> Lost
    BY <1>1 DEF Lost, Running
  <1>15. ASSUME NEW l \in Lanes, l # k
         PROVE  (\E s \in Seq(CatFiles) : Shelved(l, s))'
    <2>1. PICK s \in Seq(CatFiles) : Shelved(l, s)
      BY DEF RecorderInv
    <2>2. files'[l] = files[l] /\ queue'[1].lane # l
      BY <1>1, <1>10, <1>15, <1>3
    <2>3. Shelved(l, s)'
      BY <1>1, <1>14, <2>1, <2>2 DEF Shelved
    <2> QED
      BY <2>3
  <1>16. (\E s \in Seq(CatFiles) : Shelved(k, s))'
    <2>1. PICK s \in Seq(CatFiles) : Shelved(k, s)
      BY <1>2 DEF RecorderInv
    <2> DEFINE n == Len(s)
               t == Append(s, new)
    <2>2. /\ t \in Seq(CatFiles) /\ Len(t) = n + 1 /\ n \in Nat /\ t # <<>> /\ Last(t) = new
          /\ t[n + 1] = new /\ \A i \in 1..n : t[i] = s[i]
      BY <1>7 DEF Last
    <2>3. ToSet(t) = ToSet(s) \cup {new}
      BY <1>7, SetOfAppend
    <2>4. Among(t, ClosedFiles) = Among(s, ClosedFiles)
      BY <1>7, AmongAppend DEF ClosedFiles
    <2> HIDE DEF t
    <2>5. ASSUME NEW i \in 1..Len(t), NEW j \in 1..Len(t), i < j
          PROVE  t[i].hi < t[j].lo
      <3>1. i \in 1..n /\ t[i] = s[i] /\ i \in 1..Len(s)
        BY <2>2, <2>5
      <3>2. CASE j \in 1..n
        BY <2>1, <2>2, <2>5, <3>1, <3>2 DEF Shelved
      <3>3. CASE j = n + 1
        <4>1. s[i] \in files[k]
          BY <2>1, <3>1, SetOfSeq DEF Shelved
        <4> QED
          BY <1>8, <2>2, <3>1, <3>3, <4>1
      <3> QED
        BY <2>2, <3>2, <3>3
    <2>6. files'[k] = ToSet(t)
      BY <1>10, <2>1, <2>3 DEF Shelved
    <2>7. ~ Lost' => pushed'[k] = (Rows(Among(t, ClosedFiles)) \o SentIn(k, queue')) \o feather'[k]
      BY <1>1, <1>14, <2>1, <2>4 DEF Shelved
    <2>8. Last(t) = File(queue'[1].rows, FALSE)
      BY <1>1, <1>4, <2>2
    <2>9. Shelved(k, t)'
      BY <2>2, <2>5, <2>6, <2>7, <2>8 DEF Shelved
    <2> QED
      BY <2>2, <2>9
  <1>17. \A l \in Lanes : (\E s \in Seq(CatFiles) : Shelved(l, s))'
    BY <1>15, <1>16
  <1> QED
    BY <1>11, <1>12, <1>13, <1>17 DEF RecorderInv

\* Between them the last file of the lane and the one before its close are the same
\* interval, so the files climb still.
LEMMA CloseKeeps == ASSUME RecorderInv, Close PROVE RecorderInv'
  <1>1. /\ Running /\ writer = "encoding" /\ writer' = "idle" /\ queue' = Tail(queue)
        /\ pushed' = pushed /\ feather' = feather /\ tx' = tx
        /\ session' = session /\ latest' = latest /\ tied' = tied
    BY DEF Close
  <1>2. queue # <<>>
    BY <1>1 DEF RecorderInv, Phases
  <1>3. /\ queue[1].lane \in Lanes /\ queue[1].rows \in Batches /\ Head(queue) = queue[1]
        /\ queue \in Seq(Sendings) /\ Tail(queue) \in Seq(Sendings)
    BY <1>2, AtTheHead DEF RecorderInv, RecorderType
  <1>4. PICK k \in Lanes : k = queue[1].lane
    BY <1>3
  <1>5. PICK b \in Batches : b = queue[1].rows
    BY <1>3
  <1>6. PICK old \in CatFiles : old = File(b, FALSE)
    <2>1. FALSE \in BOOLEAN
      OBVIOUS
    <2> QED
      BY <2>1, FileIs
  <1>7. PICK done \in CatFiles : done = File(b, TRUE)
    <2>1. TRUE \in BOOLEAN
      OBVIOUS
    <2> QED
      BY <2>1, FileIs
  <1>8. files' = [files EXCEPT ![k] = (files[k] \ {old}) \cup {done}]
    BY <1>3, <1>4, <1>5, <1>6, <1>7 DEF Close, Batch
  <1>9. /\ old.rows = b /\ ~ old.closed /\ done.rows = b /\ done.closed
        /\ done.lo = old.lo /\ done.hi = old.hi /\ old.lo <= old.hi /\ old.lo \in Nat /\ old.hi \in Nat
    <2>1. /\ old.rows = b /\ done.rows = b /\ old.closed = FALSE /\ done.closed = TRUE
          /\ old.lo = Lo(b) /\ old.hi = Hi(b) /\ done.lo = Lo(b) /\ done.hi = Hi(b)
      BY <1>6, <1>7 DEF File
    <2>2. Lo(b) <= Hi(b) /\ Lo(b) \in Nat /\ Hi(b) \in Nat
      BY SpanIs
    <2> QED
      BY <2>1, <2>2
  <1>10. Encoding /\ First = 1 /\ ~ Encoding' /\ First' = 0
    BY <1>1, <1>2 DEF First, Encoding
  <1>11. files \in [Lanes -> SUBSET CatFiles]
    BY DEF RecorderInv, RecorderType
  <1>12. files'[k] = (files[k] \ {old}) \cup {done} /\ \A l \in Lanes : l # k => files'[l] = files[l]
    BY <1>8, <1>11
  <1>13. PICK s \in Seq(CatFiles) : Shelved(k, s)
    BY DEF RecorderInv
  <1>14. s # <<>> /\ Last(s) = old /\ files[k] = ToSet(s)
    BY <1>4, <1>5, <1>6, <1>10, <1>13 DEF Shelved
  <1> DEFINE n == Len(s)
             front == SubSeq(s, 1, n - 1)
  <1>15. /\ n \in Nat /\ n >= 1 /\ s[n] = old /\ front \in Seq(CatFiles) /\ Len(front) = n - 1
         /\ \A i \in 1..(n - 1) : front[i] = s[i]
    <2>1. n \in Nat /\ n >= 1 /\ s[n] = old /\ n - 1 \in 1 - 1..n
      BY <1>14 DEF Last
    <2>2. front = [i \in 1..(n - 1) |-> s[i]]
      BY <2>1
    <2>3. front \in Seq(CatFiles) /\ Len(front) = n - 1
      <3>1. n - 1 \in Nat /\ 1 - 1 = 0 /\ 1 <= n /\ \A i \in 1..(n - 1) : s[i] \in CatFiles
        BY <2>1
      <3> HIDE DEF n
      <3>2. /\ front \in Seq(CatFiles)
            /\ Len(front) = IF 1 <= n - 1 THEN (n - 1) - 1 + 1 ELSE 0
        BY <3>1, SubSeqProperties
      <3> QED
        BY <3>1, <3>2
    <2> QED
      BY <2>1, <2>2, <2>3
  <1>16. s = Append(front, old)
    <2>1. s = [i \in 1..n |-> s[i]]
      OBVIOUS
    <2>2. Append(front, old) \in Seq(CatFiles) /\ Len(Append(front, old)) = n
      BY <1>15
    <2>3. \A q \in Seq(CatFiles) : q = [i \in 1..Len(q) |-> q[i]]
      OBVIOUS
    <2>4. \A i \in 1..n : Append(front, old)[i] = s[i]
      BY <1>15
    <2> HIDE DEF n, front
    <2>5. Append(front, old) = [i \in 1..n |-> Append(front, old)[i]]
      BY <2>2, <2>3
    <2>6. [i \in 1..n |-> Append(front, old)[i]] = [i \in 1..n |-> s[i]]
      BY <2>4, Zenon
    <2> QED
      BY <2>1, <2>5, <2>6
  <1> HIDE DEF front
  <1>17. ToSet(s) = ToSet(front) \cup {old}
    BY <1>15, <1>16, SetOfAppend
  <1>18. old \notin ToSet(front)
    <2>1. ASSUME old \in ToSet(front)
          PROVE  FALSE
      <3>1. PICK i \in 1..(n - 1) : front[i] = old
        BY <1>15, <2>1, SetOfSeq
      <3>2. s[i] = old /\ i \in 1..n /\ n \in 1..n /\ i < n
        BY <1>15, <3>1
      <3>3. s[i].hi < s[n].lo
        BY <1>13, <3>2 DEF Shelved
      <3> QED
        BY <1>9, <1>15, <3>2, <3>3
    <2> QED
      BY <2>1
  <1> DEFINE t == Append(front, done)
  <1>19. /\ t \in Seq(CatFiles) /\ Len(t) = n /\ t[n] = done
         /\ \A i \in 1..(n - 1) : t[i] = s[i]
    BY <1>15
  <1>20. ToSet(t) = ToSet(front) \cup {done}
    BY <1>15, SetOfAppend
  <1>21. Among(t, ClosedFiles) = Append(Among(front, ClosedFiles), done)
    BY <1>9, <1>15, AmongAppend DEF ClosedFiles
  <1>22. Among(s, ClosedFiles) = Among(front, ClosedFiles)
    <2>1. Among(Append(front, old), ClosedFiles) = Among(front, ClosedFiles)
      BY <1>9, <1>15, AmongAppend DEF ClosedFiles
    <2> QED
      BY <1>16, <2>1
  <1> HIDE DEF t
  <1>23. files'[k] = ToSet(t)
    BY <1>12, <1>14, <1>17, <1>18, <1>20
  <1>24. RecorderType'
    <2>1. files' \in [Lanes -> SUBSET CatFiles]
      BY <1>8, <1>11
    <2>2. \A l \in Lanes : \A f \in files[l] : f = File(f.rows, f.closed)
      BY DEF RecorderInv, RecorderType
    <2>3. done = File(done.rows, done.closed)
      <3>1. done.rows = b /\ done.closed = TRUE
        BY <1>7 DEF File
      <3> QED
        BY <1>7, <3>1
    <2>4. \A l \in Lanes : \A f \in files'[l] : f = File(f.rows, f.closed)
      BY <1>12, <2>2, <2>3
    <2> QED
      BY <1>1, <1>3, <2>1, <2>4 DEF RecorderInv, RecorderType
  <1>25. Phases'
    BY <1>1 DEF RecorderInv, Phases, Running
  <1>26. ASSUME NEW l \in Lanes
         PROVE  InOrder(l)'
    <2>1. Ordered(tied, files[l], queue, 1, l, feather[l], latest[l])
      BY <1>10, LaneOrdered
    <2>2. \A g \in files'[l] : \E f \in files[l] : g.rows = f.rows
      <3>1. CASE l = k
        BY <1>9, <1>12, <1>14, <1>17, <3>1
      <3>2. CASE l # k
        BY <1>12, <3>2
      <3> QED
        BY <3>1, <3>2
    <2>3. Ordered(tied, files'[l], Tail(queue), 0, l, feather[l], latest[l])
      BY <1>2, <1>3, <2>1, <2>2, OrderedCloses
    <2> QED
      BY <1>1, <1>10, <2>3 DEF InOrder
  <1>27. Lost' <=> Lost
    BY <1>1 DEF Lost, Running
  <1>28. ASSUME NEW l \in Lanes, l # k
         PROVE  (\E q \in Seq(CatFiles) : Shelved(l, q))'
    <2>1. PICK q \in Seq(CatFiles) : Shelved(l, q)
      BY DEF RecorderInv
    <2>2. SentIn(l, queue) = <<>> \o SentIn(l, Tail(queue)) /\ SentIn(l, Tail(queue)) \in Seq(Nat \X Nat)
      BY <1>2, <1>3, <1>4, <1>28, SentFirst, SentType
    <2>3. SentIn(l, queue') = SentIn(l, queue)
      BY <1>1, <2>2, ConcatEmptySeq
    <2>4. files'[l] = files[l]
      BY <1>12, <1>28
    <2>5. Shelved(l, q)'
      BY <1>1, <1>10, <1>27, <2>1, <2>3, <2>4 DEF Shelved
    <2> QED
      BY <2>5
  <1>29. ASSUME NEW i \in 1..Len(t), NEW j \in 1..Len(t), i < j
         PROVE  t[i].hi < t[j].lo
    <2>1. i \in 1..(n - 1) /\ t[i] = s[i] /\ i \in 1..n /\ j \in 1..n
      BY <1>15, <1>19, <1>29
    <2>2. s[i].hi < s[j].lo
      BY <1>13, <1>29, <2>1 DEF Shelved
    <2>3. t[j].lo = s[j].lo
      <3>1. CASE j = n
        BY <1>9, <1>15, <1>19, <3>1
      <3>2. CASE j # n
        <4>1. j \in 1..(n - 1)
          BY <1>15, <2>1, <3>2
        <4> QED
          BY <1>19, <4>1
      <3> QED
        BY <3>1, <3>2
    <2> QED
      BY <2>1, <2>2, <2>3
  <1>30. ASSUME ~ Lost'
         PROVE  pushed'[k] = (Rows(Among(t, ClosedFiles)) \o SentIn(k, queue')) \o feather'[k]
    <2> DEFINE a == Among(front, ClosedFiles)
               x == Rows(a)
               y == SentIn(k, Tail(queue))
    <2>1. pushed[k] = (x \o SentIn(k, queue)) \o feather[k]
      BY <1>13, <1>22, <1>27, <1>30 DEF Shelved
    <2>2. SentIn(k, queue) = b \o y
      BY <1>2, <1>3, <1>4, <1>5, SentFirst
    <2>3. a \in Seq(CatFiles) /\ x \in Seq(Nat \X Nat)
      BY <1>15, ShelvedRows
    <2>4. y \in Seq(Nat \X Nat) /\ b \in Seq(Nat \X Nat)
      BY <1>3, SentType DEF Batches
    <2> HIDE DEF a
    <2>5. Rows(Append(a, done)) = x \o b
      BY <1>9, <2>3, RowsAppend
    <2>6. Rows(Among(t, ClosedFiles)) = x \o b
      BY <1>21, <2>5 DEF a
    <2> HIDE DEF x, y
    <2>7. Joins(x, b, y)
      BY <2>3, <2>4, JoinsAll
    <2>8. x \o SentIn(k, queue) = Rows(Among(t, ClosedFiles)) \o y
      BY <2>2, <2>6, <2>7 DEF Joins
    <2>9. pushed[k] = (Rows(Among(t, ClosedFiles)) \o y) \o feather[k]
      BY <2>1, <2>8
    <2>10. SentIn(k, queue') = y
      BY <1>1 DEF y
    <2> QED
      BY <1>1, <2>9, <2>10
  <1>31. Shelved(k, t)'
    BY <1>10, <1>23, <1>29, <1>30 DEF Shelved
  <1>32. \A l \in Lanes : (\E q \in Seq(CatFiles) : Shelved(l, q))'
    BY <1>19, <1>28, <1>31
  <1> QED
    BY <1>24, <1>25, <1>26, <1>32 DEF RecorderInv

-----------------------------------------------------------------------------
(* Every step keeps the invariant.                                         *)

\* Every step of either thread, a kill and a restart keeps the invariant.
LEMMA RecorderSteps == RecorderInv /\ [Next]_vars => RecorderInv'
  <1> SUFFICES ASSUME RecorderInv, [Next]_vars PROVE RecorderInv'
    OBVIOUS
  <1>1. ASSUME NEW l \in Lanes, NEW t \in 0..MaxTime, NEW message \in Messages, NEW full \in BOOLEAN,
               Ingest(l, t, message, full)
        PROVE  RecorderInv'
    BY <1>1, IngestKeeps
  <1>2. CASE FinalFlush
    BY <1>2, FinalFlushKeeps
  <1>3. CASE Join
    BY <1>3, JoinKeeps
  <1>4. CASE Create
    BY <1>4, CreateKeeps
  <1>5. CASE Close
    BY <1>5, CloseKeeps
  <1>6. CASE Refuse
    BY <1>6, RefuseKeeps
  <1>7. CASE Exit
    BY <1>7, ExitKeeps
  <1>8. CASE Kill
    BY <1>8, KillKeeps
  <1>9. CASE Restart
    BY <1>9, RestartKeeps
  <1>10. CASE UNCHANGED vars
    <2>1. /\ pushed' = pushed /\ feather' = feather /\ queue' = queue /\ files' = files
          /\ latest' = latest /\ tied' = tied /\ writer' = writer /\ session' = session /\ tx' = tx
      BY <1>10 DEF vars
    <2>2. Encoding' = Encoding /\ (Lost => Lost')
      BY <2>1 DEF Encoding, Lost, Running
    <2>3. Phases'
      BY <2>1 DEF RecorderInv, Phases, Running
    <2> QED
      BY <2>1, <2>2, <2>3, LanesUntouched
  <1> QED
    BY <1>1, <1>2, <1>3, <1>4, <1>5, <1>6, <1>7, <1>8, <1>9, <1>10 DEF Next, Write

\* The recorder keeps its invariant: what was recorded is, lane by lane and in this
\* order, what its closed files hold, what is sent and what its feather holds, unless
\* a panic has lost some of it; and the files of a lane never meet.
THEOREM RecorderInvariance == Spec => []RecorderInv
  BY RecorderStarts, RecorderSteps, PTL DEF Spec

\* A writer dies of nothing but two messages of a lane at one venue time: batches are
\* cut between messages, so otherwise no interval meets another (Catalog::write's
\* refusal, the writer thread's expect).
THEOREM OnlyTiesKill == Spec => []DiesOfTiesOnly
  <1>1. RecorderInv => DiesOfTiesOnly
    BY DEF RecorderInv, Phases, DiesOfTiesOnly
  <1> QED
    BY <1>1, RecorderInvariance, PTL

-----------------------------------------------------------------------------
(* What a reader of a finished session is given.                           *)

\* The rows of a file are of its interval, which two of its rows bound.
LEMMA FileSpan ==
    ASSUME NEW f \in CatFiles, f = File(f.rows, f.closed)
    PROVE  /\ f.rows \in Batches /\ f.rows \in Seq(Nat \X Nat)
           /\ f.lo \in Nat /\ f.hi \in Nat /\ f.lo <= f.hi
           /\ \E r \in ToSet(f.rows) : Time(r) = f.lo
           /\ \A r \in ToSet(f.rows) : r \in Nat \X Nat /\ f.lo <= Time(r) /\ Time(r) <= f.hi
  <1>1. f.rows \in Batches /\ f.rows \in Seq(Nat \X Nat)
    BY DEF CatFiles, Batches
  <1>2. f.lo = Lo(f.rows) /\ f.hi = Hi(f.rows)
    BY DEF File
  <1> QED
    BY <1>1, <1>2, SpanIs

\* At the end a lane is its closed files, and no more.
LEMMA AtTheEnd ==
    ASSUME RecorderInv, session = "over", NEW l \in Lanes
    PROVE  /\ Sent(l) = <<>> /\ feather[l] = <<>>
           /\ \E s \in Seq(CatFiles) :
                /\ Listing(l) = s /\ files[l] = ToSet(s)
                /\ pushed[l] = Rows(Among(s, ClosedFiles))
                /\ \A i \in 1..Len(s) : \A j \in 1..Len(s) : i < j => s[i].hi < s[j].lo
                /\ \A f \in ToSet(s) : f \in CatFiles /\ f = File(f.rows, f.closed)
  <1>1. queue = <<>> /\ feather = NoRows /\ ~ Lost
    BY DEF RecorderInv, Phases, Lost, Running
  <1>2. SentIn(l, queue) = <<>> /\ feather[l] = <<>>
    BY <1>1, SentEmpty DEF NoRows
  <1>3. Sent(l) = SentIn(l, queue)
    BY DEF Sent, SentIn
  <1>4. PICK s \in Seq(CatFiles) : Shelved(l, s)
    BY DEF RecorderInv
  <1>5. Listing(l) = s
    BY <1>4, OnDiskIs
  <1> DEFINE x == Rows(Among(s, ClosedFiles))
  <1>6. x \in Seq(Nat \X Nat)
    BY ShelvedRows
  <1>7. pushed[l] = (x \o <<>>) \o <<>>
    BY <1>1, <1>2, <1>4 DEF Shelved
  <1> HIDE DEF x
  <1>8. pushed[l] = x
    BY <1>6, <1>7, ConcatEmptySeq
  <1>9. \A f \in files[l] : f \in CatFiles /\ f = File(f.rows, f.closed)
    BY DEF RecorderInv, RecorderType
  <1> QED
    BY <1>2, <1>3, <1>4, <1>5, <1>8, <1>9 DEF Shelved, x

\* Reading a range of a finished lane gives what was recorded within it.
LEMMA ReadableAtTheEnd ==
    ASSUME RecorderInv, session = "over", NEW l \in Lanes, NEW from \in 0..MaxTime, NEW to \in 0..MaxTime,
           Opens(ListRange(l, from, to))
    PROVE  ReadRange(l, from, to) = Between(pushed[l], from, to)
  <1>1. PICK s \in Seq(CatFiles) :
          /\ Listing(l) = s /\ files[l] = ToSet(s)
          /\ pushed[l] = Rows(Among(s, ClosedFiles))
          /\ \A f \in ToSet(s) : f \in CatFiles /\ f = File(f.rows, f.closed)
    BY AtTheEnd
  <1> DEFINE M == {f \in files[l] : f.hi >= from /\ f.lo <= to}
             W == (from..to) \X Nat
             met == Among(s, M)
  <1>2. ListRange(l, from, to) = met
    BY <1>1 DEF ListRange
  <1>3. met \in Seq(CatFiles) /\ ToSet(met) = ToSet(s) \cap M
    BY AmongHolds
  <1>4. \A f \in ToSet(s) : f \in M => f \in ClosedFiles
    <2> HIDE DEF met, M
    <2>1. ASSUME NEW f \in ToSet(s), f \in M
          PROVE  f \in ClosedFiles
      <3>1. PICK i \in DOMAIN met : met[i] = f
        BY <1>3, <2>1, InSet
      <3> QED
        BY <1>1, <1>2, <3>1 DEF Opens, ClosedFiles
    <2> QED
      BY <2>1
  <1>5. ASSUME NEW f \in ToSet(s), f \notin M
        PROVE  ToSet(f.rows) \cap W = {}
    <2>1. f \in CatFiles /\ f = File(f.rows, f.closed)
      BY <1>1
    <2>2. f.lo \in Nat /\ f.hi \in Nat /\ (f.hi < from \/ to < f.lo)
      BY <1>1, <1>5, <2>1, FileSpan
    <2>3. ASSUME NEW r \in ToSet(f.rows), r \in W
          PROVE  FALSE
      <3>1. r \in Nat \X Nat /\ f.lo <= Time(r) /\ Time(r) <= f.hi
        BY <2>1, FileSpan
      <3>2. Time(r) \in from..to
        BY <2>3 DEF Time
      <3> QED
        BY <2>2, <3>1, <3>2
    <2> QED
      BY <2>3
  <1>6. \A f \in CatFiles : f.rows \in Seq(Nat \X Nat)
    BY FileRows DEF TimedSeq
  <1> HIDE DEF M, W, met
  <1>7. Among(Rows(Among(s, M)), W) = Among(Rows(Among(s, ClosedFiles)), W)
    BY <1>4, <1>5, <1>6, ReadSame
  <1> QED
    BY <1>1, <1>2, <1>7 DEF ReadRange, Between, W, met

\* A drained feed is a catalog someone is about to read: a session that is over has
\* everything it recorded in closed files, and Catalog::list_range and LaneReader give
\* whatever range is asked for whole and in the order it was received.
THEOREM WhatIsFinishedIsReadable == Spec => []FinishedIsReadable
  <1>1. ASSUME RecorderInv
        PROVE  FinishedIsReadable
    BY <1>1, AtTheEnd, ReadableAtTheEnd DEF FinishedIsReadable
  <1>2. RecorderInv => FinishedIsReadable
    BY <1>1
  <1> QED
    BY <1>2, RecorderInvariance, PTL

\* Of the files that begin by the start the last is searched: no row at or before the
\* start is newer than its newest.
Searched(s, start, k, rows) ==
    /\ \A f \in ToSet(s) : f = File(f.rows, f.closed)
    /\ \A i \in 1..Len(s) : \A j \in 1..Len(s) : i < j => s[i].hi < s[j].lo
    /\ s[k].lo <= start /\ \A j \in 1..Len(s) : s[j].lo <= start => j <= k
    /\ rows = Among(s[k].rows, (0..start) \X Nat)

\* Of files that lie apart, the one searched holds the newest row before the start.
LEMMA LastIsNewest ==
    ASSUME NEW s \in Seq(CatFiles), NEW start \in Nat, NEW k \in 1..Len(s), NEW rows,
           Searched(s, start, k, rows)
    PROVE  /\ rows \in Batches /\ Hi(rows) \in Nat /\ Hi(rows) <= start
           /\ \A r \in ToSet(rows) : r \in ToSet(s[k].rows)
           /\ \E r \in ToSet(rows) : Time(r) = Hi(rows)
           /\ \A f \in ToSet(s) : \A r \in ToSet(f.rows) : Time(r) <= start => Time(r) <= Hi(rows)
  <1>1. \A j \in 1..Len(s) : s[j] \in CatFiles /\ s[j] \in ToSet(s) /\ s[j] = File(s[j].rows, s[j].closed)
    BY SetOfSeq DEF Searched
  <1> DEFINE g == s[k]
  <1>2. /\ g \in CatFiles /\ g \in ToSet(s) /\ g.rows \in Seq(Nat \X Nat) /\ g.lo \in Nat /\ g.lo <= start
        /\ \E r \in ToSet(g.rows) : Time(r) = g.lo
        /\ \A r \in ToSet(g.rows) : r \in Nat \X Nat /\ g.lo <= Time(r) /\ Time(r) <= g.hi
    BY <1>1, FileSpan DEF Searched
  <1> HIDE DEF g
  <1>3. rows \in Seq(Nat \X Nat) /\ ToSet(rows) = ToSet(g.rows) \cap ((0..start) \X Nat)
    <2>1. rows = Among(g.rows, (0..start) \X Nat)
      BY DEF Searched, g
    <2> QED
      BY <1>2, <2>1, AmongHolds
  <1>4. \A r : r \in ToSet(rows) <=> r \in ToSet(g.rows) /\ Time(r) <= start
    <2>1. \A r \in ToSet(g.rows) : r \in (0..start) \X Nat <=> Time(r) <= start
      <3>1. \A r \in Nat \X Nat : r \in (0..start) \X Nat <=> Time(r) <= start
        BY DEF Time
      <3> QED
        BY <1>2, <3>1
    <2> QED
      BY <1>3, <2>1
  <1>5. rows # <<>>
    <2>1. PICK r \in ToSet(g.rows) : Time(r) = g.lo
      BY <1>2
    <2>2. Time(r) <= start
      BY <1>2, <2>1
    <2>3. r \in ToSet(rows)
      BY <1>4, <2>2
    <2> QED
      BY <2>3, SetOfEmpty
  <1>6. rows \in Batches
    BY <1>3, <1>5 DEF Batches
  <1>7. /\ Hi(rows) \in Nat /\ \E r \in ToSet(rows) : Time(r) = Hi(rows)
        /\ \A r \in ToSet(rows) : r \in Nat \X Nat /\ Time(r) <= Hi(rows)
    BY <1>6, SpanIs
  <1>8. Hi(rows) <= start
    BY <1>4, <1>7
  <1>9. ASSUME NEW f \in ToSet(s), NEW r \in ToSet(f.rows), Time(r) <= start
        PROVE  Time(r) <= Hi(rows)
    <2>1. PICK j \in 1..Len(s) : s[j] = f
      BY SetOfSeq
    <2>2. f \in CatFiles /\ f = File(f.rows, f.closed)
      BY <1>1, <2>1
    <2>3. f.lo \in Nat /\ f.hi \in Nat /\ Time(r) \in Nat /\ f.lo <= Time(r) /\ Time(r) <= f.hi
      <3>1. /\ f.lo \in Nat /\ f.hi \in Nat
            /\ \A q \in ToSet(f.rows) : q \in Nat \X Nat /\ f.lo <= Time(q) /\ Time(q) <= f.hi
        BY <2>2, FileSpan
      <3>2. r \in Nat \X Nat
        BY <1>9, <3>1
      <3> QED
        BY <1>9, <3>1, <3>2 DEF Time
    <2>4. j <= k
      <3>1. f.lo <= start
        BY <1>9, <2>3
      <3> QED
        BY <2>1, <3>1 DEF Searched
    <2>5. CASE j = k
      BY <1>4, <1>7, <1>9, <2>1, <2>5 DEF g
    <2>6. CASE j < k
      <3>1. f.hi < g.lo
        BY <2>1, <2>6 DEF g, Searched
      <3>2. PICK q \in ToSet(rows) : Time(q) = Hi(rows)
        BY <1>7
      <3>3. g.lo <= Hi(rows)
        BY <1>2, <1>4, <3>2
      <3> QED
        BY SMTT(30), <1>2, <1>7, <2>3, <3>1, <3>3
    <2> QED
      BY <2>4, <2>5, <2>6
  <1> QED
    BY <1>4, <1>6, <1>7, <1>8, <1>9 DEF g

\* One that is picked is the newest of the rows young enough.
LEMMA NewestIsYoungest ==
    ASSUME NEW P \in Seq(Nat \X Nat), NEW start \in Nat, NEW rows \in Batches, Hi(rows) <= start,
           \A r \in ToSet(rows) : r \in ToSet(P),
           \A r \in ToSet(P) : Time(r) <= start => Time(r) <= Hi(rows)
    PROVE  /\ start - Hi(rows) > MaxAge => Between(P, start - MaxAge, start) = <<>>
           /\ ~ (start - Hi(rows) > MaxAge) =>
                /\ Between(P, start - MaxAge, start) # <<>>
                /\ Head(Among(rows, {Hi(rows)} \X Nat)) \in ToSet(Between(P, start - MaxAge, start))
                /\ Time(Head(Among(rows, {Hi(rows)} \X Nat))) = Hi(Between(P, start - MaxAge, start))
  <1> DEFINE young == Between(P, start - MaxAge, start)
             W == ((start - MaxAge)..start) \X Nat
             N == {Hi(rows)} \X Nat
             newest == Among(rows, N)
             e == Head(newest)
  <1>1. MaxAge \in Nat
    BY RecorderConstants
  <1>2. /\ Hi(rows) \in Nat /\ \E r \in ToSet(rows) : Time(r) = Hi(rows)
        /\ \A r \in ToSet(rows) : r \in Nat \X Nat /\ Time(r) <= Hi(rows)
    BY SpanIs
  <1>3. rows \in Seq(Nat \X Nat)
    BY DEF Batches
  <1>4. young \in Seq(Nat \X Nat) /\ ToSet(young) = ToSet(P) \cap W
    BY AmongHolds DEF Between
  <1>5. newest \in Seq(Nat \X Nat) /\ ToSet(newest) = ToSet(rows) \cap N
    BY <1>3, AmongHolds
  <1>6. \A r \in Nat \X Nat : /\ r \in W <=> start - MaxAge <= Time(r) /\ Time(r) <= start
                              /\ r \in N <=> Time(r) = Hi(rows)
    BY <1>1, <1>2 DEF Time
  <1>7. ToSet(P) \subseteq Nat \X Nat /\ \A r \in Nat \X Nat : Time(r) \in Nat
    BY SetOfSeq DEF Time
  <1> HIDE DEF young, W, N, newest
  <1>8. e \in ToSet(rows) /\ Time(e) = Hi(rows)
    <2>1. ToSet(newest) # {}
      BY <1>2, <1>5, <1>6
    <2>2. newest # <<>>
      BY <2>1, SetOfEmpty
    <2>3. 1 \in 1..Len(newest) /\ e = newest[1]
      BY <1>5, <2>2
    <2>4. e \in ToSet(newest)
      BY <1>5, <2>3, SetOfSeq
    <2> HIDE DEF e
    <2> QED
      BY <1>2, <1>5, <1>6, <2>4
  <1> HIDE DEF e
  <1>9. ASSUME start - Hi(rows) > MaxAge
        PROVE  young = <<>>
    <2>1. ASSUME NEW r \in ToSet(young)
          PROVE  FALSE
      <3>1. r \in ToSet(P) /\ r \in Nat \X Nat /\ start - MaxAge <= Time(r) /\ Time(r) <= start
        BY <1>4, <1>6, <1>7
      <3>2. Time(r) <= Hi(rows) /\ Time(r) \in Nat
        BY <1>7, <3>1
      <3> QED
        BY <1>1, <1>2, <1>9, <3>1, <3>2
    <2> QED
      BY <1>4, <2>1, SetOfSeq
  <1>10. ASSUME ~ (start - Hi(rows) > MaxAge)
         PROVE  young # <<>> /\ e \in ToSet(young) /\ Time(e) = Hi(young)
    <2>1. e \in ToSet(young)
      <3>1. e \in ToSet(P) /\ e \in Nat \X Nat
        BY <1>2, <1>8
      <3>2. start - MaxAge <= Time(e) /\ Time(e) <= start
        BY <1>1, <1>2, <1>8, <1>10
      <3> QED
        BY <1>4, <1>6, <3>1, <3>2
    <2>2. young # <<>>
      BY <2>1, SetOfEmpty
    <2>3. young \in Batches
      BY <1>4, <2>2 DEF Batches
    <2>4. PICK r \in ToSet(young) : Time(r) = Hi(young)
      BY <2>3, SpanIs
    <2>5. Time(e) <= Hi(young) /\ Hi(young) \in Nat
      BY <2>1, <2>3, SpanIs
    <2>6. Hi(young) <= Hi(rows)
      <3>1. r \in ToSet(P) /\ r \in Nat \X Nat /\ Time(r) <= start
        BY <1>4, <1>6, <1>7
      <3> QED
        BY <2>4, <3>1
    <2>7. Time(e) = Hi(young)
      BY <1>2, <1>8, <2>5, <2>6
    <2> QED
      BY <2>1, <2>2, <2>7
  <1> QED
    BY <1>9, <1>10 DEF young, newest, N, e

\* pick_anchor at the end of a session.
LEMMA AnchorAtTheEnd ==
    ASSUME RecorderInv, session = "over", NEW l \in Lanes, NEW start \in 0..MaxTime,
           Candidates(l, start) # <<>> => Last(Candidates(l, start)).closed
    PROVE  /\ PickAnchor(l, start) = <<>> <=> Between(pushed[l], start - MaxAge, start) = <<>>
           /\ PickAnchor(l, start) # <<>> =>
                /\ Head(PickAnchor(l, start)) \in ToSet(Between(pushed[l], start - MaxAge, start))
                /\ Time(Head(PickAnchor(l, start))) = Hi(Between(pushed[l], start - MaxAge, start))
  <1>0. start \in Nat /\ MaxAge \in Nat
    BY RecorderConstants
  <1>1. PICK s \in Seq(CatFiles) :
          /\ Listing(l) = s /\ files[l] = ToSet(s)
          /\ pushed[l] = Rows(Among(s, ClosedFiles))
          /\ \A i \in 1..Len(s) : \A j \in 1..Len(s) : i < j => s[i].hi < s[j].lo
          /\ \A f \in ToSet(s) : f \in CatFiles /\ f = File(f.rows, f.closed)
    BY AtTheEnd
  <1>2. PICK P \in Seq(Nat \X Nat) : P = pushed[l]
    BY <1>1, ShelvedRows
  <1>3. \A r : r \in ToSet(P) <=> \E f \in ToSet(s) : f \in ClosedFiles /\ r \in ToSet(f.rows)
    <2> DEFINE a == Among(s, ClosedFiles)
    <2>1. a \in Seq(CatFiles) /\ ToSet(a) = ToSet(s) \cap ClosedFiles
      BY AmongHolds
    <2>2. \A f \in CatFiles : f.rows \in Seq(Nat \X Nat)
      BY ShelvedRows
    <2> HIDE DEF a
    <2>3. \A r : r \in ToSet(Rows(a)) <=> \E f \in ToSet(a) : r \in ToSet(f.rows)
      BY <2>1, <2>2, RowsHold
    <2>4. P = Rows(a)
      BY <1>1, <1>2 DEF a
    <2> QED
      BY <2>1, <2>3, <2>4
  <1>4. PICK B : B = {f \in files[l] : f.lo <= start}
    OBVIOUS
  <1>5. PICK found \in Seq(CatFiles) : found = Candidates(l, start) /\ found = Among(s, B) /\ ToSet(found) = ToSet(s) \cap B
    BY <1>1, <1>4, AmongHolds DEF Candidates
  <1>6. \A f \in ToSet(s) : f \in B <=> f.lo <= start
    BY <1>1, <1>4
  <1>7. ASSUME found = <<>>
        PROVE  PickAnchor(l, start) = <<>> /\ Between(P, start - MaxAge, start) = <<>>
    <2>1. PickAnchor(l, start) = <<>>
      BY <1>5, <1>7, Zenon DEF PickAnchor
    <2> DEFINE W == ((start - MaxAge)..start) \X Nat
               young == Between(P, start - MaxAge, start)
    <2>2. young \in Seq(Nat \X Nat) /\ ToSet(young) = ToSet(P) \cap W
      BY AmongHolds DEF Between
    <2>3. ASSUME NEW r \in ToSet(P), r \in W
          PROVE  FALSE
      <3>1. PICK f \in ToSet(s) : r \in ToSet(f.rows)
        BY <1>3, <2>3
      <3>2. f \notin B
        BY <1>5, <1>7, SetOfEmpty
      <3>3. ~ (f.lo <= start)
        BY <1>6, <3>2
      <3>4. f.lo \in Nat /\ f.lo <= Time(r)
        BY <1>1, <3>1, FileSpan
      <3>5. Time(r) \in (start - MaxAge)..start
        BY <2>3 DEF Time
      <3> QED
        BY <1>0, <3>3, <3>4, <3>5
    <2> HIDE DEF W, young
    <2>4. young = <<>>
      BY <2>2, <2>3, SetOfSeq
    <2> QED
      BY <2>1, <2>4 DEF young
  <1>8. ASSUME found # <<>>
        PROVE  \E rows \in Batches :
                 /\ Hi(rows) <= start
                 /\ \A r \in ToSet(rows) : r \in ToSet(P)
                 /\ \A r \in ToSet(P) : Time(r) <= start => Time(r) <= Hi(rows)
                 /\ PickAnchor(l, start) =
                      IF start - Hi(rows) > MaxAge THEN <<>>
                      ELSE <<Head(Among(rows, {Hi(rows)} \X Nat))>>
    <2>1. ToSet(s) \cap B # {}
      BY <1>5, <1>8, SetOfSeq
    <2>2. PICK k \in 1..Len(s) : /\ s[k] \in B /\ Last(found) = s[k]
                                 /\ \A j \in 1..Len(s) : s[j] \in B => j <= k
      BY <1>5, <2>1, AmongLast
    <2>3. PICK g \in CatFiles : g = s[k] /\ g \in ToSet(s) /\ g = Last(found)
      BY <2>2, SetOfSeq
    <2>4. g.closed /\ g \in ClosedFiles
      BY <1>5, <1>8, <2>3 DEF ClosedFiles
    <2>5. Rows(<<g>>) = g.rows
      <3>1. <<>> \in Seq(CatFiles) /\ <<g>> = Append(<<>>, g)
        OBVIOUS
      <3>2. Rows(Append(<<>>, g)) = Rows(<<>>) \o g.rows
        BY <3>1, RowsAppend
      <3>3. g.rows \in Seq(Nat \X Nat)
        BY ShelvedRows
      <3> QED
        BY <3>1, <3>2, <3>3, RowsEmpty, ConcatEmptySeq
    <2>6. PICK rows : rows = Among(g.rows, (0..start) \X Nat)
      OBVIOUS
    <2>7. /\ rows \in Batches /\ Hi(rows) \in Nat /\ Hi(rows) <= start
          /\ \A r \in ToSet(rows) : r \in ToSet(g.rows)
          /\ \A f \in ToSet(s) : \A r \in ToSet(f.rows) : Time(r) <= start => Time(r) <= Hi(rows)
      <3>1. rows = Among(s[k].rows, (0..start) \X Nat)
        BY <2>3, <2>6
      <3>2. \A f \in ToSet(s) : f = File(f.rows, f.closed)
        BY <1>1
      <3>3. \A i \in 1..Len(s) : \A j \in 1..Len(s) : i < j => s[i].hi < s[j].lo
        BY <1>1
      <3>4. \A j \in 1..Len(s) : s[j] \in B <=> s[j].lo <= start
        BY <1>6, SetOfSeq
      <3>5. s[k].lo <= start /\ \A j \in 1..Len(s) : s[j].lo <= start => j <= k
        BY <2>2, <3>4
      <3>6. Searched(s, start, k, rows)
        BY <3>1, <3>2, <3>3, <3>5 DEF Searched
      <3>7. /\ rows \in Batches /\ Hi(rows) \in Nat /\ Hi(rows) <= start
            /\ \A r \in ToSet(rows) : r \in ToSet(s[k].rows)
            /\ \A f \in ToSet(s) : \A r \in ToSet(f.rows) : Time(r) <= start => Time(r) <= Hi(rows)
        BY <1>0, <3>6, LastIsNewest
      <3> QED
        BY <2>3, <3>7
    <2>8. \A r \in ToSet(rows) : r \in ToSet(P)
      BY <1>3, <2>3, <2>4, <2>7
    <2>9. \A r \in ToSet(P) : Time(r) <= start => Time(r) <= Hi(rows)
      BY <1>3, <2>7
    <2>10. Between(Rows(<<Last(found)>>), 0, start) = rows
      BY <2>3, <2>5, <2>6 DEF Between
    <2>11. rows # <<>>
      BY <2>7 DEF Batches
    <2>12. PickAnchor(l, start) = IF start - Hi(rows) > MaxAge THEN <<>>
                                  ELSE <<Head(Among(rows, {Hi(rows)} \X Nat))>>
      BY <1>5, <1>8, <2>10, <2>11, Zenon DEF PickAnchor
    <2> QED
      BY <2>7, <2>8, <2>9, <2>12
  <1>9. CASE found = <<>>
    BY <1>2, <1>7, <1>9
  <1>10. CASE found # <<>>
    <2>1. PICK rows \in Batches :
            /\ Hi(rows) <= start
            /\ \A r \in ToSet(rows) : r \in ToSet(P)
            /\ \A r \in ToSet(P) : Time(r) <= start => Time(r) <= Hi(rows)
            /\ PickAnchor(l, start) =
                 IF start - Hi(rows) > MaxAge THEN <<>>
                 ELSE <<Head(Among(rows, {Hi(rows)} \X Nat))>>
      BY <1>8, <1>10
    <2> DEFINE young == Between(P, start - MaxAge, start)
               e == Head(Among(rows, {Hi(rows)} \X Nat))
    <2>2. /\ start - Hi(rows) > MaxAge => young = <<>>
          /\ ~ (start - Hi(rows) > MaxAge) => young # <<>> /\ e \in ToSet(young) /\ Time(e) = Hi(young)
      BY <1>0, <2>1, NewestIsYoungest
    <2>3. PickAnchor(l, start) = IF start - Hi(rows) > MaxAge THEN <<>> ELSE <<e>>
      BY <2>1
    <2> HIDE DEF young, e
    <2>4. <<e>> # <<>> /\ Head(<<e>>) = e
      OBVIOUS
    <2>5. /\ PickAnchor(l, start) = <<>> <=> young = <<>>
          /\ PickAnchor(l, start) # <<>> => /\ Head(PickAnchor(l, start)) \in ToSet(young)
                                           /\ Time(Head(PickAnchor(l, start))) = Hi(young)
      BY <2>2, <2>3, <2>4
    <2> QED
      BY <1>2, <2>5 DEF young
  <1> QED
    BY <1>9, <1>10

\* pick_anchor seeds a replay whenever a row of the checkpoint lane is young enough,
\* and with the newest of them, although it searches one file: the writer's refusals
\* keep every other file out of that one's interval.
THEOREM TheAnchorIsTheNewest == Spec => []AnchorIsTheNewest
  <1>1. ASSUME RecorderInv
        PROVE  AnchorIsTheNewest
    <2>1. \A q : {q[i] : i \in DOMAIN q} = ToSet(q)
      BY Zenon DEF ToSet
    <2> QED
      BY <1>1, <2>1, AnchorAtTheEnd DEF AnchorIsTheNewest
  <1>2. RecorderInv => AnchorIsTheNewest
    BY <1>1
  <1> QED
    BY <1>2, RecorderInvariance, PTL
=============================================================================
