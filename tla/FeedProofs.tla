----------------------------- MODULE FeedProofs -----------------------------
(***************************************************************************)
(* The weaver, for any number of lanes, any keys, any cell and any         *)
(* interleaving of messages, steps and compactions: it is in order and an  *)
(* arrival-ordered merge.  And the live feed, whatever its clock reads and *)
(* whenever its sinks push: it is a weaver, since its stamps earn it the   *)
(* weaver's assertions, and gives what it took off the wire in that order. *)
(***************************************************************************)
EXTENDS Live, SequenceTheorems, FiniteSetTheorems, TLAPS

\* The lane keys are non-decreasing: what Lane::key asserts, kept by the drain.
Sorted == \A l \in Lanes : \A i, j \in 1..Len(ts[l]) : i <= j => ts[l][i] <= ts[l][j]

\* The invariant that is inductive: a lane is sorted and in step with its
\* rows, and what is left of it is not before the last run.
Inv == TypeOK /\ HoldsTheTail /\ Sorted /\ NeverOutOfOrder

-----------------------------------------------------------------------------
\* A message's rows are n equal keys.
LEMMA Repeat ==
    ASSUME NEW S, NEW k \in S, NEW n \in Nat
    PROVE  /\ [i \in 1..n |-> k] \in Seq(S)
           /\ Len([i \in 1..n |-> k]) = n
  OBVIOUS

\* Rows are numbered on from the last one their lane keyed.
LEMMA Numbered ==
    ASSUME NEW m \in Nat, NEW n \in Nat
    PROVE  /\ [i \in 1..n |-> m + i] \in Seq(Nat)
           /\ Len([i \in 1..n |-> m + i]) = n
  OBVIOUS

\* What is left of a sequence behind its first n elements.
LEMMA AfterPrefixProperties ==
    ASSUME NEW S, NEW s \in Seq(S), NEW n \in 0..Len(s)
    PROVE  /\ AfterPrefix(s, n) \in Seq(S)
           /\ Len(AfterPrefix(s, n)) = Len(s) - n
           /\ \A i \in 1..(Len(s) - n) : AfterPrefix(s, n)[i] = s[n + i]
  <1>1. \A i \in (n + 1)..Len(s) : s[i] \in S
    BY ElementOfSeq
  <1>2. /\ SubSeq(s, n + 1, Len(s)) \in Seq(S)
        /\ Len(SubSeq(s, n + 1, Len(s))) =
             IF n + 1 <= Len(s) THEN Len(s) - (n + 1) + 1 ELSE 0
        /\ \A i \in 1..(Len(s) - (n + 1) + 1) :
             SubSeq(s, n + 1, Len(s))[i] = s[(n + 1) + i - 1]
    BY <1>1, SubSeqProperties
  <1>3. QED
    BY <1>2 DEF AfterPrefix

-----------------------------------------------------------------------------
\* Keys may be compared and added to.
LEMMA KeysAreIntegers == Keys \subseteq Int /\ MinKey \in Keys
  BY WeaverConstants DEF Keys, MinKey

\* An empty weaver keeps the invariant.
LEMMA InitInv == Init => Inv
  <1> SUFFICES ASSUME Init PROVE Inv
    OBVIOUS
  <1>1. TypeOK
    BY KeysAreIntegers, WeaverConstants DEF Init, TypeOK, Lanes
  <1>2. HoldsTheTail /\ Sorted /\ NeverOutOfOrder
    BY DEF Init, HoldsTheTail, Sorted, NeverOutOfOrder, Pending
  <1>3. QED
    BY <1>1, <1>2 DEF Inv

\* What a message leaves on each lane.
LEMMA KeyRowsLane ==
    ASSUME Inv, NEW k \in Keys, NEW n \in Batches, KeyRows(k, n), NEW l \in Lanes
    PROVE  /\ n[l] \in Nat
           /\ ts'[l] \in Seq(Keys)
           /\ Len(ts'[l]) = Len(ts[l]) + n[l]
           /\ \A i \in 1..Len(ts'[l]) :
                ts'[l][i] = IF i <= Len(ts[l]) THEN ts[l][i] ELSE k
           /\ buf'[l] \in Seq(Nat)
           /\ Len(buf'[l]) = Len(buf[l]) + n[l]
           /\ \A i \in 1..Len(buf'[l]) : 
                buf'[l][i] = IF i <= Len(buf[l]) THEN buf[l][i] ELSE keyed[l] + (i - Len(buf[l]))
           /\ keyed'[l] = keyed[l] + n[l]
  <1>1. n[l] \in Nat
    BY WeaverConstants DEF Lanes
  <1>2. ts[l] \in Seq(Keys) /\ buf[l] \in Seq(Nat) /\ keyed[l] \in Nat
    BY DEF Inv, TypeOK
  <1> DEFINE K == [i \in 1..n[l] |-> k]
             R == [i \in 1..n[l] |-> keyed[l] + i]
  <1>3. K \in Seq(Keys) /\ Len(K) = n[l] /\ \A i \in 1..n[l] : K[i] = k
    BY <1>1, Repeat
  <1>4. R \in Seq(Nat) /\ Len(R) = n[l] /\ \A i \in 1..n[l] : R[i] = keyed[l] + i
    BY <1>1, <1>2, Numbered
  <1>5. ts'[l] = ts[l] \o K /\ buf'[l] = buf[l] \o R /\ keyed'[l] = keyed[l] + n[l]
    BY DEF KeyRows, AppendRows
  <1> HIDE DEF K, R
  <1>6. /\ ts[l] \o K \in Seq(Keys)
        /\ Len(ts[l] \o K) = Len(ts[l]) + n[l]
        /\ \A i \in 1..(Len(ts[l]) + n[l]) :
             (ts[l] \o K)[i] = IF i <= Len(ts[l]) THEN ts[l][i] ELSE K[i - Len(ts[l])]
    <2>1. /\ ts[l] \o K \in Seq(Keys)
          /\ Len(ts[l] \o K) = Len(ts[l]) + Len(K)
          /\ \A i \in 1..(Len(ts[l]) + Len(K)) :
               (ts[l] \o K)[i] = IF i <= Len(ts[l]) THEN ts[l][i] ELSE K[i - Len(ts[l])]
      BY <1>2, <1>3, ConcatProperties
    <2>2. Len(K) = n[l]
      BY <1>3
    <2> QED
      BY <2>1, <2>2
  <1>7. /\ buf[l] \o R \in Seq(Nat)
        /\ Len(buf[l] \o R) = Len(buf[l]) + n[l]
        /\ \A i \in 1..(Len(buf[l]) + n[l]) :
             (buf[l] \o R)[i] = IF i <= Len(buf[l]) THEN buf[l][i] ELSE R[i - Len(buf[l])]
    <2>1. /\ buf[l] \o R \in Seq(Nat)
          /\ Len(buf[l] \o R) = Len(buf[l]) + Len(R)
          /\ \A i \in 1..(Len(buf[l]) + Len(R)) :
               (buf[l] \o R)[i] = IF i <= Len(buf[l]) THEN buf[l][i] ELSE R[i - Len(buf[l])]
      BY <1>2, <1>4, ConcatProperties
    <2>2. Len(R) = n[l]
      BY <1>4
    <2> QED
      BY <2>1, <2>2
  <1>8. Len(ts[l]) \in Nat /\ Len(buf[l]) \in Nat
    BY <1>2, LenProperties
  <1>9. \A i \in 1..(Len(ts[l]) + n[l]) :
          (ts[l] \o K)[i] = IF i <= Len(ts[l]) THEN ts[l][i] ELSE k
    BY <1>1, <1>3, <1>6, <1>8
  <1>10. \A i \in 1..(Len(buf[l]) + n[l]) :
          (buf[l] \o R)[i] = IF i <= Len(buf[l]) THEN buf[l][i] ELSE keyed[l] + (i - Len(buf[l]))
    <2> TAKE i \in 1..(Len(buf[l]) + n[l])
    <2>1. i <= Len(buf[l]) \/ i - Len(buf[l]) \in 1..n[l]
      BY <1>1, <1>8
    <2> QED
      BY <1>4, <1>7, <2>1
  <1>11. QED
    BY <1>1, <1>5, <1>6, <1>7, <1>9, <1>10

\* Lane::key with push keeps it: what MayKey admits goes behind everything.
LEMMA KeyRowsInv ==
    ASSUME Inv, NEW k \in Keys, NEW n \in Batches, KeyRows(k, n)
    PROVE  Inv'
  <1> USE KeysAreIntegers
  <1>1. TypeOK'
    <2>1. ts' \in [Lanes -> Seq(Keys)]
      BY KeyRowsLane DEF KeyRows, AppendRows
    <2>2. buf' \in [Lanes -> Seq(Nat)]
      BY KeyRowsLane DEF KeyRows, AppendRows
    <2>3. keyed' \in [Lanes -> Nat]
      <3>1. \A l \in Lanes : n[l] \in Nat /\ keyed[l] \in Nat
        BY KeyRowsLane DEF Inv, TypeOK
      <3>2. keyed' = [l \in Lanes |-> keyed[l] + n[l]]
        BY DEF KeyRows, AppendRows
      <3>3. QED
        BY <3>1, <3>2
    <2>4. QED
      BY <2>1, <2>2, <2>3 DEF KeyRows, AppendRows, Inv, TypeOK
  <1>2. ASSUME NEW l \in Lanes
        PROVE  /\ Len(ts[l]) \in Nat
               /\ Len(buf[l]) = Len(ts[l])
               /\ cur[l] \in Nat
               /\ keyed[l] \in Nat
               /\ cur'[l] = cur[l]
               /\ cur[l] <= Len(ts[l])
               /\ Len(ts[l]) <= keyed[l]
    BY LenProperties DEF Inv, TypeOK, HoldsTheTail, KeyRows, AppendRows
  <1>3. HoldsTheTail'
    <2> SUFFICES ASSUME NEW l \in Lanes
                 PROVE  /\ Len(buf'[l]) = Len(ts'[l])
                        /\ cur'[l] <= Len(ts'[l])
                        /\ Len(ts'[l]) <= keyed'[l]
                        /\ \A i \in 1..Len(buf'[l]) :
                             buf'[l][i] = keyed'[l] - Len(buf'[l]) + i
      BY DEF HoldsTheTail
    <2>0. /\ Len(buf[l]) \in Nat
          /\ keyed[l] \in Nat
          /\ Len(buf[l]) = Len(ts[l])
          /\ cur'[l] = cur[l]
          /\ cur[l] <= Len(ts[l])
          /\ Len(ts[l]) <= keyed[l]
          /\ cur[l] \in Nat
      BY <1>2
    <2>1. \A i \in 1..Len(buf[l]) : buf[l][i] = keyed[l] - Len(buf[l]) + i
      BY DEF Inv, HoldsTheTail
    <2>2. /\ n[l] \in Nat
          /\ Len(ts'[l]) = Len(ts[l]) + n[l]
          /\ Len(buf'[l]) = Len(buf[l]) + n[l]
          /\ keyed'[l] = keyed[l] + n[l]
      BY KeyRowsLane
    <2>3. \A i \in 1..Len(buf'[l]) :
            buf'[l][i] = IF i <= Len(buf[l]) THEN buf[l][i] ELSE keyed[l] + (i - Len(buf[l]))
      BY KeyRowsLane
    <2>4. ASSUME NEW i \in 1..Len(buf'[l])
          PROVE  buf'[l][i] = keyed'[l] - Len(buf'[l]) + i
      <3>1. CASE i <= Len(buf[l])
        <4>1. i \in 1..Len(buf[l])
          BY <2>0, <3>1
        <4>2. buf'[l][i] = buf[l][i]
          BY <2>3, <3>1
        <4>3. buf[l][i] = keyed[l] - Len(buf[l]) + i
          BY <2>1, <4>1
        <4>4. keyed'[l] - Len(buf'[l]) + i = keyed[l] - Len(buf[l]) + i
          BY <2>0, <2>2, <4>1
        <4>5. QED
          BY <4>2, <4>3, <4>4
      <3>2. CASE ~ (i <= Len(buf[l]))
        <4>1. buf'[l][i] = keyed[l] + (i - Len(buf[l]))
          BY <2>3, <3>2
        <4>2. QED
          BY <2>0, <2>2, <4>1
      <3>3. QED
        BY <3>1, <3>2
    <2>5. Len(buf'[l]) = Len(ts'[l]) /\ cur'[l] <= Len(ts'[l]) /\ Len(ts'[l]) <= keyed'[l]
      <3>1. Len(buf'[l]) = Len(ts'[l])
        BY <2>0, <2>2
      <3>2. cur'[l] <= Len(ts'[l])
        BY <2>0, <2>2
      <3>3. Len(ts'[l]) <= keyed'[l]
        BY <2>0, <2>2
      <3>4. QED
        BY <3>1, <3>2, <3>3
    <2>6. QED
      BY <2>4, <2>5
  <1>4. Sorted'
    <2> SUFFICES ASSUME NEW l \in Lanes, NEW i \in 1..Len(ts'[l]), NEW j \in 1..Len(ts'[l]), i <= j
                 PROVE  ts'[l][i] <= ts'[l][j]
      BY DEF Sorted
    <2>1. n[l] \in Nat /\ Len(ts'[l]) = Len(ts[l]) + n[l]
      BY KeyRowsLane
    <2>2. /\ ts'[l][i] = IF i <= Len(ts[l]) THEN ts[l][i] ELSE k
          /\ ts'[l][j] = IF j <= Len(ts[l]) THEN ts[l][j] ELSE k
      BY KeyRowsLane
    <2>3. ts[l] \in Seq(Keys)
      BY DEF Inv, TypeOK
    <2>4. CASE j <= Len(ts[l])
      BY <1>2, <2>1, <2>2, <2>4 DEF Inv, Sorted
    <2>5. CASE i <= Len(ts[l]) /\ Len(ts[l]) < j
      <3>1. n[l] > 0 /\ ts[l] # <<>>
        BY <1>2, <2>1, <2>3, <2>5, EmptySeq
      <3>2. ts[l][Len(ts[l])] <= k
        BY <3>1 DEF KeyRows, AppendRows, MayKey
      <3>3. ts[l][i] <= ts[l][Len(ts[l])]
        BY <1>2, <2>5 DEF Inv, Sorted
      <3>4. ts[l][i] \in Int /\ ts[l][Len(ts[l])] \in Int
        <4>1. i \in 1..Len(ts[l]) /\ Len(ts[l]) \in 1..Len(ts[l])
          BY <1>2, <2>5
        <4>2. ts[l][i] \in Keys /\ ts[l][Len(ts[l])] \in Keys
          BY <2>3, <4>1, ElementOfSeq
        <4>3. QED
          BY <4>2
      <3>5. QED
        BY <2>2, <2>5, <3>2, <3>3, <3>4, <1>2
    <2>6. CASE Len(ts[l]) < i
      BY <1>2, <2>1, <2>2, <2>6
    <2>7. QED
      BY <1>2, <2>1, <2>4, <2>5, <2>6
  <1>5. NeverOutOfOrder'
    <2> SUFFICES ASSUME NEW l \in Lanes, Pending(l)'
                 PROVE  prevEmit <= ts'[l][cur[l] + 1]
      BY DEF NeverOutOfOrder, HeadKey, KeyRows, AppendRows
    <2>1. cur[l] < Len(ts'[l])
      BY DEF Pending, KeyRows, AppendRows
    <2>2. n[l] \in Nat /\ Len(ts'[l]) = Len(ts[l]) + n[l]
      BY KeyRowsLane
    <2>3. ts'[l][cur[l] + 1] = IF cur[l] + 1 <= Len(ts[l]) THEN ts[l][cur[l] + 1] ELSE k
      <3>1. cur[l] + 1 \in 1..Len(ts'[l])
        BY <1>2, <2>1, <2>2
      <3>2. QED
        BY <3>1, KeyRowsLane
    <2>4. CASE cur[l] < Len(ts[l])
      BY <1>2, <2>3, <2>4 DEF Inv, NeverOutOfOrder, Pending, HeadKey
    <2>5. CASE ~ (cur[l] < Len(ts[l]))
      <3>1. n[l] > 0
        BY <1>2, <2>1, <2>2, <2>5
      <3>2. QED
        <4>1. prevEmit <= k
          BY <3>1 DEF KeyRows, AppendRows, MayKey
        <4>2. ~ (cur[l] + 1 <= Len(ts[l]))
          BY <1>2, <2>5
        <4>3. QED
          BY <2>3, <4>1, <4>2
    <2>6. QED
      BY <2>4, <2>5
  <1>6. QED
    BY <1>1, <1>3, <1>4, <1>5 DEF Inv

-----------------------------------------------------------------------------
\* What a lane is, one fact at a time.
LEMMA LaneFacts ==
    ASSUME Inv, NEW l \in Lanes
    PROVE  /\ ts[l] \in Seq(Keys)
           /\ buf[l] \in Seq(Nat)
           /\ Len(ts[l]) \in Nat
           /\ Len(buf[l]) = Len(ts[l])
           /\ cur[l] \in Nat
           /\ keyed[l] \in Nat
           /\ cur[l] <= Len(ts[l])
           /\ Len(ts[l]) <= keyed[l]
           /\ \A i \in 1..Len(ts[l]) : ts[l][i] \in Keys /\ buf[l][i] \in Nat
           /\ \A i \in 1..Len(ts[l]) : buf[l][i] = keyed[l] - Len(ts[l]) + i
           /\ \A i, j \in 1..Len(ts[l]) : i <= j => ts[l][i] <= ts[l][j]
  <1>1. ts[l] \in Seq(Keys) /\ buf[l] \in Seq(Nat) /\ cur[l] \in Nat /\ keyed[l] \in Nat
    BY DEF Inv, TypeOK
  <1>2. Len(ts[l]) \in Nat
    BY <1>1, LenProperties
  <1>3. Len(buf[l]) = Len(ts[l]) /\ cur[l] <= Len(ts[l]) /\ Len(ts[l]) <= keyed[l]
    BY DEF Inv, HoldsTheTail
  <1>4. \A i \in 1..Len(ts[l]) : ts[l][i] \in Keys /\ buf[l][i] \in Nat
    BY <1>1, <1>3, ElementOfSeq
  <1>5. \A i \in 1..Len(ts[l]) : buf[l][i] = keyed[l] - Len(ts[l]) + i
    BY <1>3 DEF Inv, HoldsTheTail
  <1>6. \A i, j \in 1..Len(ts[l]) : i <= j => ts[l][i] <= ts[l][j]
    BY DEF Inv, Sorted
  <1>7. QED
    BY <1>1, <1>2, <1>3, <1>4, <1>5, <1>6

\* The book rows up to the cursor.
LEMMA PastTyped ==
    ASSUME Inv, NEW l \in Lanes
    PROVE  SubSeq(buf[l], 1, cur[l]) \in Seq(Nat)
  <1>1. buf[l] \in Seq(Nat) /\ cur[l] \in Nat /\ cur[l] <= Len(ts[l]) /\ Len(buf[l]) = Len(ts[l])
    BY LaneFacts
  <1>2. \A i \in 1..cur[l] : buf[l][i] \in Nat
    BY LaneFacts
  <1>3. QED
    BY <1>1, <1>2, SubSeqProperties

\* Weaver::step keeps it: the run ends before every other lane's head.
LEMMA StepInv ==
    ASSUME Inv, NEW w \in Lanes, NEW e \in 1..Len(ts[w]), Step(w, e)
    PROVE  Inv'
  <1> USE KeysAreIntegers
  <1>1. /\ cur[w] \in Nat /\ e \in Nat
        /\ cur[w] < e
        /\ e <= Len(ts[w])
        /\ Len(ts[w]) \in Nat
        /\ ts' = ts /\ buf' = buf /\ keyed' = keyed
        /\ cur' = [cur EXCEPT ![w] = e]
        /\ prevEmit' = ts[w][e]
    BY LaneFacts DEF Step, IsRunEnd
  <1>2. \A l \in Lanes : cur'[l] = IF l = w THEN e ELSE cur[l]
    BY <1>1 DEF Inv, TypeOK
  <1>3. TypeOK'
    <2>1. cur' \in [Lanes -> Nat] /\ prevEmit' \in Keys
      BY <1>1, LaneFacts DEF Inv, TypeOK
    <2>2. run' \in Seq(Keys \X Nat)
      <3>1. \A i \in 1..(e - cur[w]) : cur[w] + i \in 1..Len(ts[w])
        BY <1>1
      <3>2. \A i \in 1..(e - cur[w]) :
              <<ts[w][cur[w] + i], buf[w][cur[w] + i]>> \in Keys \X Nat
        BY <3>1, LaneFacts
      <3>3. e - cur[w] \in Nat
        BY <1>1
      <3>4. run' = [i \in 1..(e - cur[w]) |-> <<ts[w][cur[w] + i], buf[w][cur[w] + i]>>]
        BY DEF Step
      <3>5. QED
        BY SMTT(30), <3>2, <3>3, <3>4
    <2>3. winner' \in 0..N
      BY WeaverConstants DEF Step, Lanes
    <2>4. past' \in [deltas : Seq(Nat), anchors : Seq(Nat)]
      <3>1. Deltas \in Lanes /\ Anchors \in Lanes
        BY WeaverConstants DEF Lanes
      <3>2. QED
        BY <3>1, PastTyped DEF Step, PastOf
    <2>5. QED
      BY <1>1, <2>1, <2>2, <2>3, <2>4 DEF Inv, TypeOK
  <1>4. HoldsTheTail'
    <2>1. \A l \in Lanes : cur'[l] <= Len(ts[l])
      BY <1>1, <1>2, LaneFacts
    <2>2. QED
      BY <1>1, <2>1 DEF Inv, HoldsTheTail
  <1>5. Sorted'
    BY <1>1 DEF Inv, Sorted
  <1>6. NeverOutOfOrder'
    <2> SUFFICES ASSUME NEW l \in Lanes, cur'[l] < Len(ts[l])
                 PROVE  ts[w][e] <= ts[l][cur'[l] + 1]
      BY <1>1 DEF NeverOutOfOrder, Pending, HeadKey
    <2>1. CASE l = w
      <3>1. e + 1 \in 1..Len(ts[w])
        BY <1>1, <1>2, <2>1
      <3>2. QED
        BY <1>1, <1>2, <2>1, <3>1, LaneFacts
    <2>2. CASE l # w
      <3>1. cur'[l] = cur[l] /\ Pending(l)
        BY <1>2, <2>2 DEF Pending
      <3>2. CASE e = cur[w] + 1
        <4>1. HeadKey(w) < HeadKey(l) \/ HeadKey(w) = HeadKey(l)
          BY <3>1 DEF Step, IsWinner
        <4>2. HeadKey(w) \in Int /\ HeadKey(l) \in Int
          <5>1. cur[w] + 1 \in 1..Len(ts[w]) /\ cur[l] + 1 \in 1..Len(ts[l])
            BY <1>1, <3>1, LaneFacts DEF Pending
          <5>2. QED
            BY <5>1, LaneFacts DEF HeadKey
        <4>3. QED
          BY <3>1, <3>2, <4>1, <4>2 DEF HeadKey
      <3>3. CASE e # cur[w] + 1
        <4>1. e \in (cur[w] + 2)..e
          BY <1>1, <3>3
        <4>2. Within(w, ts[w][e])
          BY <4>1 DEF Step, IsRunEnd
        <4>3. QED
          BY <2>2, <3>1, <4>2 DEF Within, HeadKey
      <3>4. QED
        BY <3>2, <3>3
    <2>3. QED
      BY <2>1, <2>2
  <1>7. QED
    BY <1>3, <1>4, <1>5, <1>6 DEF Inv

-----------------------------------------------------------------------------
\* What a compaction leaves of a lane: what lies behind c consumed rows.
LEMMA CompactLane ==
    ASSUME Inv, Compact, NEW l \in Lanes
    PROVE  LET c == cur[l] - cur'[l]
           IN  /\ c \in 0..cur[l]
               /\ ts'[l] \in Seq(Keys)
               /\ buf'[l] \in Seq(Nat)
               /\ Len(ts'[l]) = Len(ts[l]) - c
               /\ Len(buf'[l]) = Len(ts[l]) - c
               /\ \A i \in 1..(Len(ts[l]) - c) :
                    ts'[l][i] = ts[l][c + i] /\ buf'[l][i] = buf[l][c + i]
  <1> DEFINE c == cur[l] - cur'[l]
  <1> SUFFICES /\ c \in 0..cur[l]
               /\ ts'[l] \in Seq(Keys)
               /\ buf'[l] \in Seq(Nat)
               /\ Len(ts'[l]) = Len(ts[l]) - c
               /\ Len(buf'[l]) = Len(ts[l]) - c
               /\ \A i \in 1..(Len(ts[l]) - c) :
                    ts'[l][i] = ts[l][c + i] /\ buf'[l][i] = buf[l][c + i]
    OBVIOUS
  <1>0. c = cur[l] - cur'[l]
    OBVIOUS
  <1> HIDE DEF c
  <1>1. /\ ts[l] \in Seq(Keys) /\ buf[l] \in Seq(Nat)
        /\ Len(ts[l]) \in Nat /\ cur[l] \in Nat
        /\ Len(buf[l]) = Len(ts[l]) /\ cur[l] <= Len(ts[l])
    BY LaneFacts
  <1>2. CASE Dominated(l)
    <2>1. /\ ts'[l] = AfterPrefix(ts[l], cur[l])
          /\ buf'[l] = AfterPrefix(buf[l], cur[l])
          /\ cur'[l] = 0
      BY <1>2 DEF Compact
    <2>2. cur[l] \in 0..Len(ts[l])
      BY <1>1
    <2>3. /\ AfterPrefix(ts[l], cur[l]) \in Seq(Keys)
          /\ Len(AfterPrefix(ts[l], cur[l])) = Len(ts[l]) - cur[l]
          /\ \A i \in 1..(Len(ts[l]) - cur[l]) :
               AfterPrefix(ts[l], cur[l])[i] = ts[l][cur[l] + i]
      BY <1>1, <2>2, AfterPrefixProperties
    <2>4. /\ AfterPrefix(buf[l], cur[l]) \in Seq(Nat)
          /\ Len(AfterPrefix(buf[l], cur[l])) = Len(ts[l]) - cur[l]
          /\ \A i \in 1..(Len(ts[l]) - cur[l]) :
               AfterPrefix(buf[l], cur[l])[i] = buf[l][cur[l] + i]
      <3>1. Len(buf[l]) = Len(ts[l]) /\ cur[l] \in 0..Len(buf[l])
        BY <1>1, <2>2
      <3>2. /\ AfterPrefix(buf[l], cur[l]) \in Seq(Nat)
            /\ Len(AfterPrefix(buf[l], cur[l])) = Len(buf[l]) - cur[l]
            /\ \A i \in 1..(Len(buf[l]) - cur[l]) :
                 AfterPrefix(buf[l], cur[l])[i] = buf[l][cur[l] + i]
        BY <1>1, <3>1, AfterPrefixProperties
      <3>3. QED
        BY <3>1, <3>2
    <2>5. c = cur[l] /\ cur[l] \in 0..cur[l]
      BY <1>0, <1>1, <2>1
    <2>6. AfterPrefix(ts[l], cur[l]) = ts'[l] /\ AfterPrefix(buf[l], cur[l]) = buf'[l]
      BY <2>1
    <2>7. /\ ts'[l] \in Seq(Keys) /\ buf'[l] \in Seq(Nat)
          /\ Len(ts'[l]) = Len(ts[l]) - cur[l] /\ Len(buf'[l]) = Len(ts[l]) - cur[l]
      BY <2>3, <2>4, <2>6
    <2>8. \A i \in 1..(Len(ts[l]) - cur[l]) : ts'[l][i] = ts[l][cur[l] + i]
      BY <2>3, <2>6
    <2>9. \A i \in 1..(Len(ts[l]) - cur[l]) : buf'[l][i] = buf[l][cur[l] + i]
      BY <2>4, <2>6
    <2>10. QED
      BY <2>5, <2>7, <2>8, <2>9
  <1>3. CASE ~ Dominated(l)
    <2>1. ts'[l] = ts[l] /\ buf'[l] = buf[l] /\ cur'[l] = cur[l]
      BY <1>3 DEF Compact
    <2>2. c = 0 /\ 0 \in 0..cur[l] /\ Len(ts[l]) - 0 = Len(ts[l])
      BY <1>0, <1>1, <2>1
    <2>3. \A i \in 1..Len(ts[l]) : 0 + i = i
      OBVIOUS
    <2>4. /\ Len(ts'[l]) = Len(ts[l]) - 0 /\ Len(buf'[l]) = Len(ts[l]) - 0
          /\ \A i \in 1..(Len(ts[l]) - 0) :
               ts'[l][i] = ts[l][0 + i] /\ buf'[l][i] = buf[l][0 + i]
      BY <1>1, <2>1, <2>3
    <2>5. QED
      BY <1>1, <2>1, <2>2, <2>4
  <1>4. QED
    BY <1>2, <1>3

\* Weaver::compact keeps it: each lane moves to its own suffix, cursor 0.
LEMMA CompactInv ==
    ASSUME Inv, Compact
    PROVE  Inv'
  <1>1. \A l \in Lanes : cur'[l] \in Nat
    BY LaneFacts DEF Compact
  <1>2. TypeOK'
    <2>1. \A l \in Lanes : ts'[l] \in Seq(Keys) /\ buf'[l] \in Seq(Nat)
      BY CompactLane
    <2>2. QED
      BY <1>1, <2>1 DEF Compact, Inv, TypeOK
  <1>3. HoldsTheTail'
    <2> SUFFICES ASSUME NEW l \in Lanes
                 PROVE  /\ Len(buf'[l]) = Len(ts'[l])
                        /\ cur'[l] <= Len(ts'[l])
                        /\ Len(ts'[l]) <= keyed[l]
                        /\ \A i \in 1..Len(buf'[l]) :
                             buf'[l][i] = keyed[l] - Len(buf'[l]) + i
      BY DEF HoldsTheTail, Compact
    <2> DEFINE c == cur[l] - cur'[l]
    <2>1. /\ c \in 0..cur[l]
          /\ Len(ts'[l]) = Len(ts[l]) - c
          /\ Len(buf'[l]) = Len(ts[l]) - c
          /\ \A i \in 1..(Len(ts[l]) - c) : buf'[l][i] = buf[l][c + i]
      BY CompactLane
    <2>2. /\ Len(ts[l]) \in Nat /\ cur[l] \in Nat /\ cur'[l] \in Nat /\ keyed[l] \in Nat
          /\ cur[l] <= Len(ts[l])
          /\ Len(ts[l]) <= keyed[l]
      BY <1>1, LaneFacts
    <2>3. ASSUME NEW i \in 1..Len(buf'[l])
          PROVE  buf'[l][i] = keyed[l] - Len(buf'[l]) + i
      <3>1. c + i \in 1..Len(ts[l]) /\ i \in 1..(Len(ts[l]) - c)
        BY <2>1, <2>2
      <3>2. buf[l][c + i] = keyed[l] - Len(ts[l]) + (c + i)
        BY <3>1, LaneFacts
      <3>3. buf'[l][i] = buf[l][c + i]
        BY <2>1, <3>1
      <3> HIDE DEF c
      <3>4. QED
        BY <2>1, <2>2, <3>2, <3>3
    <2>4. Len(buf'[l]) = Len(ts'[l]) /\ cur'[l] <= Len(ts'[l]) /\ Len(ts'[l]) <= keyed[l]
      <3> HIDE DEF c
      <3>1. cur'[l] = cur[l] - c
        BY <2>2 DEF c
      <3>2. QED
        BY <2>1, <2>2, <3>1
    <2>5. QED
      BY <2>3, <2>4
  <1>4. Sorted'
    <2> SUFFICES ASSUME NEW l \in Lanes, NEW i \in 1..Len(ts'[l]), NEW j \in 1..Len(ts'[l]), i <= j
                 PROVE  ts'[l][i] <= ts'[l][j]
      BY DEF Sorted
    <2> DEFINE c == cur[l] - cur'[l]
    <2>1. /\ c \in 0..cur[l]
          /\ Len(ts'[l]) = Len(ts[l]) - c
          /\ \A m \in 1..(Len(ts[l]) - c) : ts'[l][m] = ts[l][c + m]
      BY CompactLane
    <2>2. Len(ts[l]) \in Nat /\ cur[l] \in Nat
      BY LaneFacts
    <2> HIDE DEF c
    <2>3. c + i \in 1..Len(ts[l]) /\ c + j \in 1..Len(ts[l]) /\ c + i <= c + j
      BY <2>1, <2>2
    <2>4. ts[l][c + i] <= ts[l][c + j]
      BY <2>3, LaneFacts
    <2>5. i \in 1..(Len(ts[l]) - c) /\ j \in 1..(Len(ts[l]) - c)
      BY <2>1
    <2>6. ts'[l][i] = ts[l][c + i] /\ ts'[l][j] = ts[l][c + j]
      BY <2>1, <2>5
    <2>7. QED
      BY <2>4, <2>6
  <1>5. NeverOutOfOrder'
    <2> SUFFICES ASSUME NEW l \in Lanes, cur'[l] < Len(ts'[l])
                 PROVE  prevEmit <= ts'[l][cur'[l] + 1]
      BY DEF NeverOutOfOrder, Pending, HeadKey, Compact
    <2> DEFINE c == cur[l] - cur'[l]
    <2>1. /\ c \in 0..cur[l]
          /\ Len(ts'[l]) = Len(ts[l]) - c
          /\ \A m \in 1..(Len(ts[l]) - c) : ts'[l][m] = ts[l][c + m]
      BY CompactLane
    <2>2. Len(ts[l]) \in Nat /\ cur[l] \in Nat /\ cur'[l] \in Nat
      BY <1>1, LaneFacts
    <2>3. cur[l] < Len(ts[l]) /\ c + (cur'[l] + 1) = cur[l] + 1 /\ cur'[l] + 1 \in 1..(Len(ts[l]) - c)
      <3>1. c = cur[l] - cur'[l]
        OBVIOUS
      <3> HIDE DEF c
      <3>2. cur'[l] < Len(ts[l]) - c
        BY <2>1
      <3>3. cur[l] = c + cur'[l]
        BY <2>1, <2>2, <3>1
      <3>4. QED
        BY <2>1, <2>2, <3>2, <3>3
    <2>4. ts'[l][cur'[l] + 1] = ts[l][cur[l] + 1]
      BY <2>1, <2>3
    <2>5. QED
      BY <2>3, <2>4 DEF Inv, NeverOutOfOrder, Pending, HeadKey
  <1>6. QED
    BY <1>2, <1>3, <1>4, <1>5 DEF Inv

-----------------------------------------------------------------------------
\* Every step of a weaver keeps the invariant.
LEMMA WeavingInv ==
    ASSUME Inv, [Ingest \/ Weave \/ Compact]_vars
    PROVE  Inv'
  <1>1. CASE UNCHANGED vars
    BY <1>1 DEF vars, Inv, TypeOK, HoldsTheTail, Sorted, NeverOutOfOrder, Pending, HeadKey
  <1>2. CASE Ingest
    BY <1>2, KeyRowsInv DEF Ingest
  <1>3. CASE Weave
    BY <1>3, StepInv DEF Weave
  <1>4. CASE Compact
    BY <1>4, CompactInv
  <1>5. QED
    BY <1>1, <1>2, <1>3, <1>4

\* Whatever feeds it, a weaver keeps the invariant.
THEOREM Invariance == Weaving => []Inv
  <1>1. QED
    BY InitInv, WeavingInv, PTL DEF Weaving

\* The bound the checked instances put on the rows keyed drops behaviours, and
\* adds none.
LEMMA SpecIsWeaving == Spec => Weaving
  <1>1. [Next]_vars => [Ingest \/ Weave \/ Compact]_vars
    BY DEF Next, Ingest
  <1>2. QED
    BY <1>1, PTL DEF Spec, Weaving

-----------------------------------------------------------------------------
\* Keying rows and compacting a lane leave what was handed over of it alone.
LEMMA DeliveredStands ==
    ASSUME Inv, NEW l \in Lanes, Ingest \/ Compact
    PROVE  Delivered(l)' = Delivered(l)
  <1>1. Len(ts[l]) \in Nat /\ cur[l] \in Nat /\ keyed[l] \in Nat
    BY LaneFacts
  <1>2. CASE Ingest
    <2>1. PICK k \in Keys : \E n \in Batches : KeyRows(k, n)
      BY <1>2 DEF Ingest
    <2>2. PICK n \in Batches : KeyRows(k, n)
      BY <2>1
    <2>3. n[l] \in Nat /\ Len(ts'[l]) = Len(ts[l]) + n[l] /\ keyed'[l] = keyed[l] + n[l]
      BY <2>2, KeyRowsLane
    <2>4. cur' = cur
      BY <2>2 DEF KeyRows, AppendRows
    <2>5. QED
      BY <1>1, <2>3, <2>4 DEF Delivered
  <1>3. CASE Compact
    <2> DEFINE c == cur[l] - cur'[l]
    <2>1. Len(ts'[l]) = Len(ts[l]) - c /\ c \in 0..cur[l]
      BY <1>3, CompactLane
    <2>2. cur'[l] \in Nat
      BY <1>1, <1>3 DEF Compact
    <2>3. c = cur[l] - cur'[l]
      OBVIOUS
    <2> HIDE DEF c
    <2>4. keyed' = keyed
      BY <1>3 DEF Compact
    <2>5. QED
      BY SMTT(30), <1>1, <2>1, <2>2, <2>3, <2>4 DEF Delivered
  <1>4. QED
    BY <1>2, <1>3

\* The slice of lane l a step carries ends where the step found lane l.
LEMMA SliceStops ==
    ASSUME Inv, NEW w \in Lanes, NEW e \in 1..Len(ts[w]), Step(w, e), NEW l \in Lanes
    PROVE  LET rows == SubSeq(buf[l], 1, cur[l])
               stood == IF winner' = l THEN run'[1][2] - 1 ELSE Delivered(l)'
           IN  \A i \in 1..Len(rows) : rows[i] = stood - Len(rows) + i
  <1> DEFINE rows == SubSeq(buf[l], 1, cur[l])
             stood == keyed[l] - Len(ts[l]) + cur[l]
  <1>1. /\ buf[l] \in Seq(Nat)
        /\ Len(ts[l]) \in Nat /\ cur[l] \in Nat /\ keyed[l] \in Nat
        /\ Len(buf[l]) = Len(ts[l]) /\ cur[l] <= Len(ts[l])
    BY LaneFacts
  <1>2. Len(rows) = cur[l] /\ \A i \in 1..cur[l] : rows[i] = buf[l][i]
    <2>1. \A i \in 1..cur[l] : buf[l][i] \in Nat
      BY LaneFacts
    <2>2. QED
      BY <1>1, <2>1, SubSeqProperties
  <1>3. \A i \in 1..cur[l] : rows[i] = stood - cur[l] + i
    <2> SUFFICES ASSUME NEW i \in 1..cur[l]
                 PROVE  rows[i] = stood - cur[l] + i
      OBVIOUS
    <2>1. i \in 1..Len(ts[l])
      BY <1>1
    <2>2. buf[l][i] = keyed[l] - Len(ts[l]) + i
      BY <2>1, LaneFacts
    <2>3. QED
      BY SMTT(30), <1>1, <1>2, <2>2
  <1>4. (IF winner' = l THEN run'[1][2] - 1 ELSE Delivered(l)') = stood
    <2>1. winner' = w /\ ts' = ts /\ keyed' = keyed
      BY DEF Step
    <2>2. CASE w = l
      <3>1. cur[l] < e /\ e <= Len(ts[l]) /\ e \in Nat
        BY <1>1, <2>2 DEF Step, IsRunEnd
      <3>2. 1 \in 1..(e - cur[l]) /\ cur[l] + 1 \in 1..Len(ts[l])
        BY <1>1, <3>1
      <3>3. run'[1] = <<ts[l][cur[l] + 1], buf[l][cur[l] + 1]>>
        BY <2>2, <3>2 DEF Step
      <3>4. buf[l][cur[l] + 1] = keyed[l] - Len(ts[l]) + (cur[l] + 1)
        BY <3>2, LaneFacts
      <3>5. run'[1][2] = keyed[l] - Len(ts[l]) + (cur[l] + 1)
        BY <3>3, <3>4
      <3>6. run'[1][2] - 1 = stood
        <4>1. (keyed[l] - Len(ts[l]) + (cur[l] + 1)) - 1 = stood
          BY <1>1
        <4>2. QED
          BY <3>5, <4>1, Zenon
      <3>7. QED
        BY <2>1, <2>2, <3>6
    <2>3. CASE w # l
      <3>1. cur'[l] = cur[l]
        BY <2>3 DEF Step, Inv, TypeOK
      <3>2. QED
        BY <1>1, <2>1, <2>3, <3>1 DEF Delivered
    <2>4. QED
      BY <2>2, <2>3
  <1>5. QED
    BY <1>1, <1>2, <1>3, <1>4

\* The Past handed to a step is not moved into the step's own rows by anything after.
LEMMA PastInv ==
    ASSUME Inv, PastStopsAtTheWeave, [Ingest \/ Weave \/ Compact]_vars
    PROVE  PastStopsAtTheWeave'
  <1>1. Deltas \in Lanes /\ Anchors \in Lanes
    BY WeaverConstants DEF Lanes
  <1>2. CASE UNCHANGED vars
    BY <1>2 DEF vars, PastStopsAtTheWeave, StopsAtTheWeave, Delivered
  <1>3. CASE Ingest \/ Compact
    <2>1. past' = past /\ run' = run /\ winner' = winner
      BY <1>3 DEF Ingest, KeyRows, AppendRows, Compact
    <2>2. Delivered(Deltas)' = Delivered(Deltas) /\ Delivered(Anchors)' = Delivered(Anchors)
      BY <1>1, <1>3, DeliveredStands
    <2>3. QED
      BY <2>1, <2>2 DEF PastStopsAtTheWeave, StopsAtTheWeave
  <1>4. CASE Weave
    <2>1. PICK w \in Lanes : \E e \in 1..Len(ts[w]) : Step(w, e)
      BY <1>4 DEF Weave
    <2>2. PICK e \in 1..Len(ts[w]) : Step(w, e)
      BY <2>1
    <2>3. /\ past'.deltas = SubSeq(buf[Deltas], 1, cur[Deltas])
          /\ past'.anchors = SubSeq(buf[Anchors], 1, cur[Anchors])
      BY <2>2 DEF Step, PastOf
    <2>4. StopsAtTheWeave(past.deltas, Deltas)'
      BY <1>1, <2>2, <2>3, SliceStops DEF StopsAtTheWeave
    <2>5. StopsAtTheWeave(past.anchors, Anchors)'
      BY <1>1, <2>2, <2>3, SliceStops DEF StopsAtTheWeave
    <2>6. QED
      BY <2>4, <2>5 DEF PastStopsAtTheWeave
  <1>5. QED
    BY <1>2, <1>3, <1>4

\* No rewind reads its own future: for any interleaving, runs of any length and
\* any compaction, the rows handed over with a step end before the step's own.
THEOREM PastStops == Spec => []PastStopsAtTheWeave
  <1>1. Init => PastStopsAtTheWeave
    BY DEF Init, PastStopsAtTheWeave, StopsAtTheWeave
  <1>2. QED
    BY <1>1, Invariance, SpecIsWeaving, PastInv, PTL DEF Weaving

-----------------------------------------------------------------------------
(* The weaver implements ArrivalMerge.                                     *)

\* The order assertion compares with the key of the last row passed; a lane has
\* won a step that took something.
EndsOn ==
    /\ run # <<>> => run[Len(run)][1] = prevEmit
    /\ winner \in Lanes => run # <<>>

\* A checkpoint handed over for its run is that last row: what was handed over
\* ends on the key of the run.
LEMMA HandedEnds ==
    ASSUME EndsOn, Handed # <<>>
    PROVE  Handed[Len(Handed)][1] = prevEmit
  <1>1. CASE winner = Anchors
    <2>1. run # <<>>
      BY <1>1, WeaverConstants DEF EndsOn, Lanes
    <2>2. Handed = <<run[Len(run)]>>
      BY <1>1 DEF Handed
    <2>3. Handed[Len(Handed)] = run[Len(run)]
      BY <2>2
    <2>4. QED
      BY <2>1, <2>3 DEF EndsOn
  <1>2. CASE winner # Anchors
    BY <1>2 DEF Handed, EndsOn
  <1>3. QED
    BY <1>1, <1>2

\* The last row passed is the last of its lane's delivered rows, until it is drained.
LEMMA EndsOnInv ==
    ASSUME Inv, EndsOn, [Ingest \/ Weave \/ Compact]_vars
    PROVE  EndsOn'
  <1>1. CASE UNCHANGED vars \/ Ingest \/ Compact
    BY <1>1 DEF vars, Ingest, KeyRows, AppendRows, Compact, EndsOn
  <1>2. CASE Weave
    <2>1. PICK w \in Lanes : \E e \in 1..Len(ts[w]) : Step(w, e)
      BY <1>2 DEF Weave
    <2>2. PICK e \in 1..Len(ts[w]) : Step(w, e)
      BY <2>1
    <2>3. e - cur[w] \in Nat /\ e - cur[w] > 0 /\ cur[w] + (e - cur[w]) = e
      BY <2>2, LaneFacts DEF Step, IsRunEnd
    <2>4. Len(run') = e - cur[w] /\ run'[e - cur[w]] = <<ts[w][e], buf[w][e]>>
      BY <2>2, <2>3 DEF Step
    <2>5. prevEmit' = ts[w][e]
      BY <2>2 DEF Step
    <2>6. <<ts[w][e], buf[w][e]>>[1] = ts[w][e]
      OBVIOUS
    <2>7. run'[Len(run')] = <<ts[w][e], buf[w][e]>>
      BY <2>4, Zenon
    <2>8. run' # <<>>
      BY <2>3, <2>4
    <2>9. QED
      BY <2>5, <2>6, <2>7, <2>8, Zenon DEF EndsOn
  <1>3. QED
    BY <1>1, <1>2

\* What is left of a lane's keys and rows, in pairs.
LEMMA Paired ==
    ASSUME NEW K \in Seq(Keys), NEW R \in Seq(Nat), Len(R) = Len(K), NEW c \in 0..Len(K),
           NEW h, h = [i \in 1..(Len(K) - c) |-> <<K[c + i], R[c + i]>>]
    PROVE  /\ h \in Seq(Keys \X Nat)
           /\ Len(h) = Len(K) - c
           /\ Len(K) - c \in Nat
           /\ \A i \in 1..(Len(K) - c) : h[i] = <<K[c + i], R[c + i]>>
  <1>1. Len(K) - c \in Nat /\ \A i \in 1..(Len(K) - c) : c + i \in 1..Len(K)
    OBVIOUS
  <1>2. \A i \in 1..(Len(K) - c) : <<K[c + i], R[c + i]>> \in Keys \X Nat
    BY <1>1, ElementOfSeq
  <1>3. h \in Seq(Keys \X Nat) /\ Len(h) = Len(K) - c
    BY <1>1, <1>2
  <1>4. QED
    BY <1>1, <1>3

\* What a lane holds, read through its cursor.
LEMMA HeldFacts ==
    ASSUME Inv, NEW l \in Lanes
    PROVE  /\ Held[l] \in Seq(Keys \X Nat)
           /\ Len(Held[l]) = Len(ts[l]) - cur[l]
           /\ Len(ts[l]) - cur[l] \in Nat
           /\ \A i \in 1..(Len(ts[l]) - cur[l]) :
                Held[l][i] = <<ts[l][cur[l] + i], buf[l][cur[l] + i]>>
  <1>1. /\ ts[l] \in Seq(Keys) /\ buf[l] \in Seq(Nat)
        /\ Len(buf[l]) = Len(ts[l]) /\ cur[l] \in 0..Len(ts[l])
    BY LaneFacts
  <1>2. Held[l] = [i \in 1..(Len(ts[l]) - cur[l]) |->
                     <<ts[l][cur[l] + i], buf[l][cur[l] + i]>>]
    BY DEF Held
  <1> DEFINE K == ts[l]
             R == buf[l]
             c == cur[l]
             h == Held[l]
  <1>3. /\ K \in Seq(Keys) /\ R \in Seq(Nat) /\ Len(R) = Len(K) /\ c \in 0..Len(K)
        /\ h = [i \in 1..(Len(K) - c) |-> <<K[c + i], R[c + i]>>]
    BY <1>1, <1>2
  <1> HIDE DEF K, R, c, h
  <1>4. /\ h \in Seq(Keys \X Nat) /\ Len(h) = Len(K) - c /\ Len(K) - c \in Nat
        /\ \A i \in 1..(Len(K) - c) : h[i] = <<K[c + i], R[c + i]>>
    BY <1>3, Paired
  <1>5. QED
    BY <1>4 DEF K, R, c, h

\* The same after a step.
LEMMA HeldFactsNext ==
    ASSUME Inv', NEW l \in Lanes
    PROVE  /\ Held'[l] \in Seq(Keys \X Nat)
           /\ Len(Held'[l]) = Len(ts'[l]) - cur'[l]
           /\ Len(ts'[l]) - cur'[l] \in Nat
           /\ cur'[l] \in Nat
           /\ \A i \in 1..(Len(ts'[l]) - cur'[l]) :
                Held'[l][i] = <<ts'[l][cur'[l] + i], buf'[l][cur'[l] + i]>>
  <1>1. /\ ts'[l] \in Seq(Keys) /\ buf'[l] \in Seq(Nat)
        /\ Len(buf'[l]) = Len(ts'[l]) /\ cur'[l] \in Nat /\ cur'[l] <= Len(ts'[l])
    BY DEF Inv, TypeOK, HoldsTheTail
  <1>2. Len(ts'[l]) \in Nat
    BY <1>1, LenProperties
  <1>3. cur'[l] \in 0..Len(ts'[l])
    BY <1>1, <1>2
  <1>4. Held'[l] = [i \in 1..(Len(ts'[l]) - cur'[l]) |->
                     <<ts'[l][cur'[l] + i], buf'[l][cur'[l] + i]>>]
    BY DEF Held
  <1> DEFINE K == ts'[l]
             R == buf'[l]
             c == cur'[l]
             h == Held'[l]
  <1>5. /\ K \in Seq(Keys) /\ R \in Seq(Nat) /\ Len(R) = Len(K) /\ c \in 0..Len(K)
        /\ h = [i \in 1..(Len(K) - c) |-> <<K[c + i], R[c + i]>>]
    BY <1>1, <1>3, <1>4
  <1> HIDE DEF K, R, c, h
  <1>6. /\ h \in Seq(Keys \X Nat) /\ Len(h) = Len(K) - c /\ Len(K) - c \in Nat
        /\ \A i \in 1..(Len(K) - c) : h[i] = <<K[c + i], R[c + i]>>
    BY <1>5, Paired
  <1>7. QED
    BY <1>1, <1>6 DEF K, R, c, h

\* A message's rows arrive behind what their lanes hold.
LEMMA MergesMessage ==
    ASSUME Inv, EndsOn, NEW k \in Keys, NEW n \in Batches, KeyRows(k, n)
    PROVE  [Merge!Next]_(Merge!mergeVars)
  <1>0. Inv'
    BY KeyRowsInv
  <1>1. cur' = cur /\ Handed' = Handed
    BY DEF KeyRows, AppendRows, Handed
  <1>2. ASSUME NEW l \in Lanes
        PROVE  /\ Held[l] \in Seq(Keys \X Nat) /\ Held'[l] \in Seq(Keys \X Nat)
               /\ n[l] \in Nat
               /\ Len(Held[l]) \in Nat
               /\ Len(Held'[l]) = Len(Held[l]) + n[l]
               /\ \A i \in 1..Len(Held[l]) : Held'[l][i] = Held[l][i]
               /\ \A i \in (Len(Held[l]) + 1)..Len(Held'[l]) : Held'[l][i][1] = k
    <2>1. /\ Len(ts[l]) \in Nat /\ cur[l] \in Nat /\ cur[l] <= Len(ts[l])
          /\ Len(buf[l]) = Len(ts[l])
      BY LaneFacts
    <2>2. /\ n[l] \in Nat
          /\ Len(ts'[l]) = Len(ts[l]) + n[l]
          /\ Len(buf'[l]) = Len(ts[l]) + n[l]
      BY <2>1, KeyRowsLane
    <2>3. \A i \in 1..(Len(ts[l]) + n[l]) :
            ts'[l][i] = IF i <= Len(ts[l]) THEN ts[l][i] ELSE k
      BY <2>2, KeyRowsLane
    <2>4. \A i \in 1..Len(ts[l]) : buf'[l][i] = buf[l][i]
      <3>1. \A i \in 1..Len(buf'[l]) :
              buf'[l][i] = IF i <= Len(buf[l]) THEN buf[l][i] ELSE keyed[l] + (i - Len(buf[l]))
        BY KeyRowsLane
      <3>2. \A i \in 1..Len(ts[l]) : i \in 1..Len(buf'[l]) /\ i <= Len(buf[l])
        BY <2>1, <2>2
      <3>3. QED
        BY <3>1, <3>2
    <2> DEFINE m == Len(ts[l]) - cur[l]
    <2>5. /\ Held[l] \in Seq(Keys \X Nat) /\ Len(Held[l]) = m /\ m \in Nat
          /\ \A i \in 1..m : Held[l][i] = <<ts[l][cur[l] + i], buf[l][cur[l] + i]>>
      BY HeldFacts
    <2>6. /\ Held'[l] \in Seq(Keys \X Nat) /\ Len(Held'[l]) = Len(ts'[l]) - cur[l]
          /\ \A i \in 1..(Len(ts'[l]) - cur[l]) :
               Held'[l][i] = <<ts'[l][cur[l] + i], buf'[l][cur[l] + i]>>
      BY <1>0, <1>1, HeldFactsNext
    <2>7. Len(ts'[l]) - cur[l] = m + n[l]
      BY <2>1, <2>2
    <2>8. ASSUME NEW i \in 1..m
          PROVE  Held'[l][i] = Held[l][i]
      <3>1. i \in 1..(Len(ts'[l]) - cur[l]) /\ cur[l] + i \in 1..Len(ts[l])
            /\ cur[l] + i \in 1..(Len(ts[l]) + n[l])
        BY SMTT(30), <2>1, <2>2, <2>7
      <3>2. ts'[l][cur[l] + i] = ts[l][cur[l] + i]
        BY <2>3, <3>1
      <3>3. buf'[l][cur[l] + i] = buf[l][cur[l] + i]
        BY <2>4, <3>1
      <3>4. Held'[l][i] = <<ts'[l][cur[l] + i], buf'[l][cur[l] + i]>>
        BY <2>6, <3>1
      <3>5. Held[l][i] = <<ts[l][cur[l] + i], buf[l][cur[l] + i]>>
        BY <2>5
      <3>6. QED
        BY <3>2, <3>3, <3>4, <3>5
    <2>9. ASSUME NEW i \in (m + 1)..(m + n[l])
          PROVE  Held'[l][i][1] = k
      <3>1. m = Len(ts[l]) - cur[l] /\ m \in Nat
        BY <2>5
      <3> HIDE DEF m
      <3>2. i \in 1..(m + n[l]) /\ m < i /\ i <= m + n[l]
        BY <2>2, <3>1
      <3>3. cur[l] + i \in 1..(Len(ts[l]) + n[l]) /\ ~ (cur[l] + i <= Len(ts[l]))
        <4>1. /\ i \in Nat /\ cur[l] \in Nat /\ Len(ts[l]) \in Nat /\ n[l] \in Nat
              /\ 1 <= i /\ Len(ts[l]) - cur[l] < i /\ i <= (Len(ts[l]) - cur[l]) + n[l]
          BY <2>1, <2>2, <3>1, <3>2
        <4>2. QED
          BY <4>1
      <3>4. ts'[l][cur[l] + i] = k
        BY <2>3, <3>3
      <3>5. Held'[l][i] = <<ts'[l][cur[l] + i], buf'[l][cur[l] + i]>>
        BY <2>6, <2>7, <3>2
      <3>6. QED
        BY <3>4, <3>5
    <2> HIDE DEF m
    <2>10. Len(Held'[l]) = m + n[l]
      BY <2>6, <2>7
    <2>11. QED
      BY <2>2, <2>5, <2>6, <2>8, <2>9, <2>10
  <1>3. CASE \A l \in Lanes : n[l] = 0
    <2>1. \A l \in Lanes : ts'[l] = ts[l] /\ buf'[l] = buf[l]
      <3> SUFFICES ASSUME NEW l \in Lanes
                   PROVE  ts'[l] = ts[l] /\ buf'[l] = buf[l]
        OBVIOUS
      <3>1. n[l] = 0
        BY <1>3
      <3>2. /\ ts[l] \in Seq(Keys) /\ buf[l] \in Seq(Nat)
            /\ ts'[l] \in Seq(Keys) /\ buf'[l] \in Seq(Nat)
            /\ Len(ts[l]) \in Nat /\ Len(buf[l]) \in Nat
            /\ Len(ts'[l]) = Len(ts[l]) + n[l] /\ Len(buf'[l]) = Len(buf[l]) + n[l]
        BY LaneFacts, KeyRowsLane
      <3>3. Len(ts'[l]) = Len(ts[l]) /\ Len(buf'[l]) = Len(buf[l])
        BY <3>1, <3>2
      <3>4. \A i \in 1..Len(ts'[l]) : ts'[l][i] = ts[l][i]
        <4>1. \A i \in 1..Len(ts'[l]) :
                ts'[l][i] = IF i <= Len(ts[l]) THEN ts[l][i] ELSE k
          BY KeyRowsLane
        <4>2. QED
          BY <3>2, <3>3, <4>1
      <3>5. \A i \in 1..Len(buf'[l]) : buf'[l][i] = buf[l][i]
        BY <3>2, <3>3, KeyRowsLane
      <3>6. QED
        BY <3>2, <3>3, <3>4, <3>5, SeqEqual
    <2>2. Held' = Held
      BY <1>1, <2>1 DEF Held
    <2>3. QED
      BY <1>1, <2>2 DEF Merge!mergeVars
  <1>4. CASE \E l \in Lanes : n[l] > 0
    <2>1. prevEmit <= k
      BY <1>4 DEF KeyRows, MayKey
    <2>2. Merge!NotBefore(k)
      BY <2>1, HandedEnds DEF Merge!NotBefore, Merge!Key
    <2>3. ASSUME NEW l \in Lanes
          PROVE  /\ Len(Held'[l]) >= Len(Held[l])
                 /\ SubSeq(Held'[l], 1, Len(Held[l])) = Held[l]
                 /\ \A i \in (Len(Held[l]) + 1)..Len(Held'[l]) : Held'[l][i][1] = k
                 /\ Len(Held'[l]) > Len(Held[l]) =>
                      \A i \in 1..Len(Held[l]) : Held[l][i][1] <= k
      <3>1. /\ Held[l] \in Seq(Keys \X Nat) /\ Held'[l] \in Seq(Keys \X Nat)
            /\ n[l] \in Nat
            /\ Len(Held[l]) \in Nat
            /\ Len(Held'[l]) = Len(Held[l]) + n[l]
            /\ \A i \in 1..Len(Held[l]) : Held'[l][i] = Held[l][i]
            /\ \A i \in (Len(Held[l]) + 1)..Len(Held'[l]) : Held'[l][i][1] = k
        BY <1>2
      <3>2. SubSeq(Held'[l], 1, Len(Held[l])) = Held[l]
        <4> DEFINE p == SubSeq(Held'[l], 1, Len(Held[l]))
        <4>1. \A i \in 1..Len(Held[l]) : Held'[l][i] \in Keys \X Nat
          BY <3>1, ElementOfSeq
        <4>2. /\ p \in Seq(Keys \X Nat) /\ Len(p) = Len(Held[l])
              /\ \A i \in 1..Len(Held[l]) : p[i] = Held'[l][i]
          BY SMTT(30), <3>1, <4>1, SubSeqProperties
        <4> HIDE DEF p
        <4>3. p = Held[l]
          <5>1. Len(p) = Len(Held[l]) /\ \A i \in 1..Len(p) : p[i] = Held[l][i]
            BY <3>1, <4>2
          <5>2. QED
            BY <3>1, <4>2, <5>1, SeqEqual
        <4>4. QED
          BY <4>3 DEF p
      <3>3. ASSUME Len(Held'[l]) > Len(Held[l]), NEW i \in 1..Len(Held[l])
            PROVE  Held[l][i][1] <= k
        <4>1. n[l] > 0
          BY <3>1, <3>3
        <4>2. /\ Len(ts[l]) \in Nat /\ cur[l] \in Nat
              /\ Len(Held[l]) = Len(ts[l]) - cur[l]
          BY LaneFacts, HeldFacts
        <4>3. cur[l] + i \in 1..Len(ts[l]) /\ Len(ts[l]) \in 1..Len(ts[l])
          BY <4>2
        <4>4. ts[l] # <<>>
          BY <4>3, EmptySeq
        <4>5. ts[l][Len(ts[l])] <= k
          BY <4>1, <4>4 DEF KeyRows, MayKey
        <4>6. cur[l] + i <= Len(ts[l])
          BY <4>3
        <4>7. ts[l][cur[l] + i] <= ts[l][Len(ts[l])]
          BY <4>3, <4>6, LaneFacts
        <4>8. ts[l][cur[l] + i] \in Int /\ ts[l][Len(ts[l])] \in Int
          BY <4>3, LaneFacts, KeysAreIntegers
        <4>9. k \in Int
          BY KeysAreIntegers
        <4>10. Held[l][i][1] = ts[l][cur[l] + i]
          <5>1. Held[l][i] = <<ts[l][cur[l] + i], buf[l][cur[l] + i]>>
            BY <4>2, HeldFacts
          <5>2. QED
            BY <5>1
        <4>11. QED
          BY <4>5, <4>7, <4>8, <4>9, <4>10
      <3>4. QED
        BY <3>1, <3>2, <3>3
    <2>4. DOMAIN Held' = Lanes
      BY DEF Held
    <2>5. Merge!Arrive(k)
      BY <1>1, <2>2, <2>3, <2>4 DEF Merge!Arrive, Merge!Key
    <2>6. QED
      BY <2>5 DEF Merge!Next
  <1>5. QED
    BY <1>2, <1>3, <1>4

\* A step hands over a block of one lane.
LEMMA MergesStep ==
    ASSUME Inv, EndsOn, NEW w \in Lanes, NEW e \in 1..Len(ts[w]), Step(w, e)
    PROVE  [Merge!Next]_(Merge!mergeVars)
  <1>0. Inv'
    BY StepInv
  <1> DEFINE n == e - cur[w]
  <1>1. /\ cur[w] \in Nat /\ e \in Nat /\ cur[w] < e /\ e <= Len(ts[w]) /\ Len(ts[w]) \in Nat
        /\ ts' = ts /\ buf' = buf
        /\ prevEmit' = ts[w][e]
    BY LaneFacts DEF Step, IsRunEnd
  <1>2. \A l \in Lanes : cur'[l] = IF l = w THEN e ELSE cur[l]
    BY DEF Step, Inv, TypeOK
  <1>3. /\ Held[w] \in Seq(Keys \X Nat)
        /\ Len(Held[w]) = Len(ts[w]) - cur[w]
        /\ \A i \in 1..(Len(ts[w]) - cur[w]) :
             Held[w][i] = <<ts[w][cur[w] + i], buf[w][cur[w] + i]>>
    BY HeldFacts
  <1>4. n \in 1..Len(Held[w]) /\ cur[w] + n = e
    BY <1>1, <1>3
  <1>5. Merge!NotBefore(Merge!Key(Held[w][1]))
    <2>1. Pending(w)
      BY DEF Step, IsWinner
    <2>2. prevEmit <= ts[w][cur[w] + 1]
      BY <2>1 DEF Inv, NeverOutOfOrder, HeadKey
    <2>3. 1 \in 1..(Len(ts[w]) - cur[w])
      BY <1>1
    <2>4. Held[w][1][1] = ts[w][cur[w] + 1]
      BY <1>3, <2>3
    <2>5. Handed # <<>> => Handed[Len(Handed)][1] = prevEmit
      BY HandedEnds
    <2>6. QED
      BY <2>2, <2>4, <2>5 DEF Merge!NotBefore, Merge!Key
  <1>6. run' = SubSeq(Held[w], 1, n)
    <2> DEFINE p == SubSeq(Held[w], 1, n)
    <2>1. \A i \in 1..n : Held[w][i] \in Keys \X Nat
      BY <1>3, <1>4, ElementOfSeq
    <2>2. /\ p \in Seq(Keys \X Nat) /\ Len(p) = n /\ \A i \in 1..n : p[i] = Held[w][i]
      BY SMTT(30), <1>1, <1>3, <1>4, <2>1, SubSeqProperties
    <2>3. run' \in Seq(Keys \X Nat)
      BY <1>0 DEF Inv, TypeOK
    <2>4. Len(run') = n /\ \A i \in 1..n : run'[i] = <<ts[w][cur[w] + i], buf[w][cur[w] + i]>>
      BY <1>1 DEF Step
    <2>5. ASSUME NEW i \in 1..n
          PROVE  run'[i] = p[i]
      <3>1. i \in 1..(Len(ts[w]) - cur[w])
        BY <1>1
      <3> HIDE DEF p, n
      <3>2. Held[w][i] = <<ts[w][cur[w] + i], buf[w][cur[w] + i]>>
        BY <1>3, <3>1
      <3>3. QED
        BY <2>2, <2>4, <3>2
    <2> HIDE DEF p
    <2>6. run' = p
      BY <2>2, <2>3, <2>4, <2>5, SeqEqual
    <2>7. QED
      BY <2>6 DEF p
  <1>13. Handed' = IF w \in {Anchors} THEN <<Held[w][n]>> ELSE SubSeq(Held[w], 1, n)
    <2>1. winner' = w /\ Len(run') = n
      BY <1>1 DEF Step
    <2>2. run'[n] = Held[w][n]
      <3>1. n \in 1..(e - cur[w]) /\ n \in 1..(Len(ts[w]) - cur[w])
        BY <1>1
      <3>2. run' = [i \in 1..(e - cur[w]) |-> <<ts[w][cur[w] + i], buf[w][cur[w] + i]>>]
        BY DEF Step
      <3> HIDE DEF n
      <3>3. QED
        BY <1>3, <3>1, <3>2
    <2> HIDE DEF n
    <2>3. QED
      BY <1>6, <2>1, <2>2 DEF Handed
  <1>7. Held'[w] = SubSeq(Held[w], n + 1, Len(Held[w]))
    <2> DEFINE p == AfterPrefix(Held[w], n)
    <2>1. n \in 0..Len(Held[w])
      BY <1>4
    <2> HIDE DEF n
    <2> DEFINE H == Held[w]
    <2>2. /\ p \in Seq(Keys \X Nat)
          /\ Len(p) = Len(Held[w]) - n
          /\ \A i \in 1..(Len(Held[w]) - n) : p[i] = Held[w][n + i]
      <3>1. H \in Seq(Keys \X Nat) /\ n \in 0..Len(H)
        BY <1>3, <2>1
      <3> HIDE DEF H
      <3>2. /\ AfterPrefix(H, n) \in Seq(Keys \X Nat)
            /\ Len(AfterPrefix(H, n)) = Len(H) - n
            /\ \A i \in 1..(Len(H) - n) : AfterPrefix(H, n)[i] = H[n + i]
        BY <3>1, AfterPrefixProperties
      <3>3. QED
        BY <3>2, Zenon DEF H
    <2>3. cur'[w] = e
      BY <1>2
    <2>4. /\ Held'[w] \in Seq(Keys \X Nat) /\ Len(Held'[w]) = Len(ts[w]) - e
          /\ \A i \in 1..(Len(ts[w]) - e) : Held'[w][i] = <<ts[w][e + i], buf[w][e + i]>>
      BY <1>0, <1>1, <2>3, HeldFactsNext
    <2>5. n = e - cur[w] /\ Len(Held[w]) - n = Len(ts[w]) - e
      BY <1>1, <1>3 DEF n
    <2>6. ASSUME NEW i \in 1..(Len(ts[w]) - e)
          PROVE  p[i] = Held'[w][i]
      <3>1. n + i \in 1..(Len(ts[w]) - cur[w]) /\ cur[w] + (n + i) = e + i
        BY SMTT(30), <1>1, <2>5
      <3> HIDE DEF p
      <3>2. Held[w][n + i] = <<ts[w][e + i], buf[w][e + i]>>
        BY <1>3, <3>1
      <3>3. QED
        BY <2>2, <2>4, <2>5, <3>2
    <2> HIDE DEF p
    <2>7. Held'[w] = p
      <3>1. Len(p) = Len(Held'[w]) /\ \A i \in 1..Len(p) : p[i] = Held'[w][i]
        BY <2>2, <2>4, <2>5, <2>6
      <3>2. QED
        BY <2>2, <2>4, <3>1, SeqEqual
    <2>8. QED
      BY <2>7 DEF p, AfterPrefix
  <1>8. \A l \in Lanes : l # w => Held'[l] = Held[l]
    BY <1>1, <1>2 DEF Held
  <1>9. Held' = [Held EXCEPT ![w] = SubSeq(@, n + 1, Len(@))]
    <2>1. DOMAIN Held = Lanes /\ DOMAIN Held' = Lanes
      BY DEF Held
    <2>2. Held' = [l \in Lanes |-> Held'[l]] /\ Held = [l \in Lanes |-> Held[l]]
      BY DEF Held
    <2> HIDE DEF n
    <2>3. QED
      BY <1>7, <1>8, <2>1, <2>2
  <1>10. ASSUME NEW m \in Lanes, NEW i \in 1..Len(Held'[m])
         PROVE  Held[w][n][1] <= Held'[m][i][1]
    <2>1. Held[w][n][1] = prevEmit'
      <3>1. n \in 1..(Len(ts[w]) - cur[w])
        BY <1>1
      <3> HIDE DEF n
      <3>2. Held[w][n] = <<ts[w][e], buf[w][e]>>
        BY <1>3, <1>4, <3>1
      <3>3. QED
        BY <1>1, <3>2
    <2>2. /\ Len(Held'[m]) = Len(ts'[m]) - cur'[m] /\ cur'[m] \in Nat
          /\ \A j \in 1..(Len(ts'[m]) - cur'[m]) :
               Held'[m][j] = <<ts'[m][cur'[m] + j], buf'[m][cur'[m] + j]>>
      BY <1>0, HeldFactsNext
    <2>3. Held'[m][i][1] = ts'[m][cur'[m] + i]
      BY SMTT(30), <2>2
    <2>4. Len(ts'[m]) \in Nat
      BY <1>1, LaneFacts
    <2>5. /\ cur'[m] < Len(ts'[m])
          /\ cur'[m] + 1 \in 1..Len(ts'[m]) /\ cur'[m] + i \in 1..Len(ts'[m])
          /\ cur'[m] + 1 <= cur'[m] + i
      BY <2>2, <2>4
    <2>6. prevEmit' <= ts'[m][cur'[m] + 1]
      BY <1>0, <2>5 DEF Inv, NeverOutOfOrder, Pending, HeadKey
    <2>7. ts'[m][cur'[m] + 1] <= ts'[m][cur'[m] + i]
      BY <1>0, <2>5 DEF Inv, Sorted
    <2>8. /\ prevEmit' \in Int /\ ts'[m][cur'[m] + 1] \in Int
          /\ ts'[m][cur'[m] + i] \in Int
      <3>1. ts'[m] = ts[m]
        BY <1>1
      <3>2. ts[m][cur'[m] + 1] \in Keys /\ ts[m][cur'[m] + i] \in Keys
        BY <2>5, <3>1, LaneFacts
      <3>3. prevEmit' \in Keys
        BY <1>0 DEF Inv, TypeOK
      <3>4. QED
        BY <3>1, <3>2, <3>3, KeysAreIntegers
    <2> HIDE DEF n
    <2>9. QED
      BY <2>1, <2>3, <2>6, <2>7, <2>8
  <1> HIDE DEF n
  <1>11. Merge!HandOver(w, n)
    BY <1>5, <1>9, <1>10, <1>13 DEF Merge!HandOver, Merge!Key
  <1>12. QED
    BY <1>4, <1>11 DEF Merge!Next

\* A compaction is none of the merge's business.
LEMMA MergesCompact ==
    ASSUME Inv, Compact
    PROVE  UNCHANGED Merge!mergeVars
  <1>0. Inv'
    BY CompactInv
  <1>1. ASSUME NEW l \in Lanes
        PROVE  Held'[l] = Held[l]
    <2> DEFINE c == cur[l] - cur'[l]
               m == Len(ts[l]) - cur[l]
    <2>1. /\ c \in 0..cur[l]
          /\ Len(ts'[l]) = Len(ts[l]) - c
          /\ \A i \in 1..(Len(ts[l]) - c) :
               ts'[l][i] = ts[l][c + i] /\ buf'[l][i] = buf[l][c + i]
      BY CompactLane
    <2>2. /\ Len(ts[l]) \in Nat /\ cur[l] \in Nat
      BY LaneFacts
    <2>3. /\ Held[l] \in Seq(Keys \X Nat) /\ Len(Held[l]) = m /\ m \in Nat
          /\ \A i \in 1..m : Held[l][i] = <<ts[l][cur[l] + i], buf[l][cur[l] + i]>>
      BY HeldFacts
    <2>4. /\ Held'[l] \in Seq(Keys \X Nat) /\ Len(Held'[l]) = Len(ts'[l]) - cur'[l]
          /\ cur'[l] \in Nat
          /\ \A i \in 1..(Len(ts'[l]) - cur'[l]) :
               Held'[l][i] = <<ts'[l][cur'[l] + i], buf'[l][cur'[l] + i]>>
      BY <1>0, HeldFactsNext
    <2>5. c = cur[l] - cur'[l] /\ m = Len(ts[l]) - cur[l]
      OBVIOUS
    <2> HIDE DEF c, m
    <2>6. Len(ts'[l]) - cur'[l] = m
      BY <2>1, <2>2, <2>4, <2>5
    <2>7. ASSUME NEW i \in 1..m
          PROVE  Held'[l][i] = Held[l][i]
      <3>1. cur'[l] + i \in 1..(Len(ts[l]) - c) /\ c + (cur'[l] + i) = cur[l] + i
        <4>1. cur[l] = c + cur'[l] /\ c \in Nat /\ cur'[l] \in Nat
          BY <2>1, <2>2, <2>4, <2>5
        <4>2. i <= Len(ts[l]) - cur[l] /\ 1 <= i
          BY <2>3, <2>5
        <4>3. QED
          BY SMTT(30), <2>2, <4>1, <4>2
      <3>2. /\ ts'[l][cur'[l] + i] = ts[l][cur[l] + i]
            /\ buf'[l][cur'[l] + i] = buf[l][cur[l] + i]
        BY <2>1, <3>1
      <3>3. QED
        BY <2>3, <2>4, <2>6, <3>2
    <2>8. QED
      BY SMTT(30), <2>3, <2>4, <2>6, <2>7, SeqEqual
  <1>2. Held' = Held
    BY <1>1 DEF Held
  <1>3. Handed' = Handed
    BY DEF Compact, Handed
  <1>4. QED
    BY <1>2, <1>3 DEF Merge!mergeVars

\* A weaver never hands over what an arrival-ordered merge would not: for any
\* number of lanes, any cell and any interleaving of messages, steps and
\* compactions, a row is passed once, behind its lane's earlier rows and before
\* no row another lane still holds under an earlier key; what is passed is
\* handed over, but a checkpoint that a newer one of its own run replaces.
THEOREM WeavingMerges == Weaving => IsArrivalMerge
  <1>1. Init => Merge!Init /\ EndsOn
    BY WeaverConstants DEF Init, EndsOn, Merge!Init, Held, Handed, Lanes
  <1>2. Inv /\ EndsOn /\ [Ingest \/ Weave \/ Compact]_vars => EndsOn'
    BY EndsOnInv
  <1>3. ASSUME Inv, EndsOn, [Ingest \/ Weave \/ Compact]_vars
        PROVE  [Merge!Next]_(Merge!mergeVars)
    <2>1. CASE UNCHANGED vars
      BY <2>1 DEF vars, Merge!mergeVars, Held, Handed
    <2>2. CASE Ingest
      BY <1>3, <2>2, MergesMessage DEF Ingest
    <2>3. CASE Weave
      BY <1>3, <2>3, MergesStep DEF Weave
    <2>4. CASE Compact
      BY <1>3, <2>4, MergesCompact
    <2>5. QED
      BY <1>3, <2>1, <2>2, <2>3, <2>4
  <1>4. QED
    BY <1>1, <1>2, <1>3, Invariance, PTL DEF Weaving, IsArrivalMerge, Merge!Spec

\* The specification TLC checks refines the merge: Quota and the constants only narrow it.
THEOREM Merges == Spec => IsArrivalMerge
  <1>1. QED
    BY SpecIsWeaving, WeavingMerges, PTL

-----------------------------------------------------------------------------
\* The weaver's state is well typed whatever is keyed: Arrival::MIN included,
\* no key, cursor or row number leaves its range.
THEOREM TypeCorrect == Spec => []TypeOK
  <1>1. Inv => TypeOK
    BY DEF Inv
  <1>2. QED
    BY <1>1, Invariance, SpecIsWeaving, PTL

\* For any number of lanes, any cell width and any interleaving, the order
\* assertion of Weaver::step never fires.
THEOREM InOrder == Spec => []NeverOutOfOrder
  <1>1. Inv => NeverOutOfOrder
    BY DEF Inv
  <1>2. QED
    BY <1>1, Invariance, SpecIsWeaving, PTL

\* Compaction never loses or repeats a row and never separates a key from its
\* row.
THEOREM TailHeld == Spec => []HoldsTheTail
  <1>1. Inv => HoldsTheTail
    BY DEF Inv
  <1>2. QED
    BY <1>1, Invariance, SpecIsWeaving, PTL

-----------------------------------------------------------------------------
(* The live feed.                                                          *)

\* No slot is above the last stamp: not one keyed, nor the one the last run
\* ended on.
BelowStamp ==
    /\ lastStamp \in Keys
    /\ prevEmit <= lastStamp
    /\ \A l \in Lanes : \A i \in 1..Len(ts[l]) : ts[l][i] <= lastStamp

\* What is on the wire is messages.
OnTheWire == channel \in Seq(Batches)

LiveInv == Inv /\ BelowStamp /\ OnTheWire

-----------------------------------------------------------------------------
\* A stamp is a key above every stamp before it.
LEMMA StampGrows ==
    ASSUME lastStamp \in Keys, NEW reading \in Readings, Stamp(reading) <= MaxKey
    PROVE  Stamp(reading) \in Keys /\ lastStamp < Stamp(reading)
  <1>1. reading \in Keys /\ Keys \subseteq Int /\ MinKey \in Int /\ MaxKey \in Int
    BY LiveConstants, WeaverConstants DEF Keys, MinKey
  <1>2. QED
    BY <1>1 DEF Stamp, Keys

\* A feed that has received nothing keeps the invariant.
LEMMA LiveInitInv == LiveInit => LiveInv
  <1> SUFFICES ASSUME LiveInit PROVE LiveInv
    OBVIOUS
  <1>1. Inv
    BY InitInv DEF LiveInit
  <1>2. BelowStamp
    BY KeysAreIntegers DEF LiveInit, Init, BelowStamp
  <1>3. OnTheWire
    BY DEF LiveInit, OnTheWire
  <1>4. QED
    BY <1>1, <1>2, <1>3 DEF LiveInv

\* A stamp may be keyed on any lane.
LEMMA StampMayKey ==
    ASSUME LiveInv, NEW reading \in Readings, Stamp(reading) <= MaxKey, NEW l \in Lanes
    PROVE  MayKey(l, Stamp(reading))
  <1> DEFINE k == Stamp(reading)
  <1>1. k \in Keys /\ lastStamp < k
    BY StampGrows DEF LiveInv, BelowStamp
  <1>2. Keys \subseteq Int
    BY KeysAreIntegers
  <1>3. lastStamp \in Int /\ prevEmit \in Int /\ k \in Int
    BY <1>1, <1>2 DEF LiveInv, BelowStamp, Inv, TypeOK
  <1> HIDE DEF k
  <1>4. prevEmit <= k
    BY <1>1, <1>3 DEF LiveInv, BelowStamp
  <1>5. ASSUME ts[l] # <<>>
        PROVE  ts[l][Len(ts[l])] <= k
    <2>1. ts[l] \in Seq(Keys) /\ Len(ts[l]) \in Nat
      BY LaneFacts DEF LiveInv
    <2>2. Len(ts[l]) \in 1..Len(ts[l])
      BY <1>5, <2>1, EmptySeq
    <2>3. ts[l][Len(ts[l])] <= lastStamp /\ ts[l][Len(ts[l])] \in Int
      BY <1>2, <2>2, LaneFacts DEF LiveInv, BelowStamp
    <2>4. QED
      BY <1>1, <1>3, <2>3
  <1>6. QED
    BY <1>4, <1>5 DEF MayKey, k

\* A message taken off the wire is keyed as the weaver allows, and its stamp
\* is the new bound.
LEMMA TakeIngests ==
    ASSUME LiveInv, NEW reading \in Readings, channel # <<>>, Take(reading)
    PROVE  Ingest /\ BelowStamp' /\ OnTheWire'
  <1> DEFINE n == Head(channel)
             k == Stamp(reading)
  <1>1. n \in Batches /\ Tail(channel) \in Seq(Batches)
    BY HeadTailProperties DEF LiveInv, OnTheWire
  <1>2. k \in Keys /\ lastStamp < k
    BY StampGrows DEF Take, LiveInv, BelowStamp
  <1>3. AppendRows(k, n) /\ lastStamp' = k /\ channel' = Tail(channel)
    BY DEF Take
  <1>4. Keys \subseteq Int
    BY KeysAreIntegers
  <1>5. lastStamp \in Int /\ prevEmit \in Int /\ k \in Int
    BY <1>2, <1>4 DEF LiveInv, BelowStamp, Inv, TypeOK
  <1>6. \A l \in Lanes : MayKey(l, k)
    BY StampMayKey DEF Take
  <1> HIDE DEF n, k
  <1>7. KeyRows(k, n)
    BY <1>3, <1>6 DEF KeyRows
  <1>8. BelowStamp'
    <2>1. prevEmit' <= k
      BY <1>2, <1>3, <1>5 DEF LiveInv, BelowStamp, AppendRows
    <2>2. ASSUME NEW l \in Lanes, NEW i \in 1..Len(ts'[l])
          PROVE  ts'[l][i] <= k
      <3>1. ts'[l][i] = IF i <= Len(ts[l]) THEN ts[l][i] ELSE k
        BY <1>1, <1>2, <1>7, KeyRowsLane DEF LiveInv
      <3>2. CASE i <= Len(ts[l])
        <4>1. i \in 1..Len(ts[l])
          BY <3>2, LaneFacts DEF LiveInv
        <4>2. ts[l][i] <= lastStamp /\ ts[l][i] \in Int
          BY <1>4, <4>1, LaneFacts DEF LiveInv, BelowStamp
        <4>3. QED
          BY <1>2, <1>5, <3>1, <3>2, <4>2
      <3>3. CASE ~ (i <= Len(ts[l]))
        BY <1>5, <3>1, <3>3
      <3>4. QED
        BY <3>2, <3>3
    <2>3. QED
      BY <1>2, <1>3, <2>1, <2>2 DEF BelowStamp
  <1>9. QED
    BY <1>1, <1>2, <1>3, <1>7, <1>8 DEF Ingest, OnTheWire

\* A step of the weave, or a compaction, issues no stamp and raises no slot.
LEMMA WeaveBelowStamp ==
    ASSUME LiveInv, Weave, UNCHANGED lastStamp
    PROVE  BelowStamp'
  <1>1. PICK w \in Lanes : \E e \in 1..Len(ts[w]) : Step(w, e)
    BY DEF Weave
  <1>2. PICK e \in 1..Len(ts[w]) : Step(w, e)
    BY <1>1
  <1>3. prevEmit' = ts[w][e] /\ ts' = ts
    BY <1>2 DEF Step
  <1>4. QED
    BY <1>3 DEF LiveInv, BelowStamp

\* Draining issues no stamp and raises no key.
LEMMA CompactBelowStamp ==
    ASSUME LiveInv, Compact, UNCHANGED lastStamp
    PROVE  BelowStamp'
  <1>1. prevEmit' = prevEmit
    BY DEF Compact
  <1>2. ASSUME NEW l \in Lanes, NEW i \in 1..Len(ts'[l])
        PROVE  ts'[l][i] <= lastStamp
    <2> DEFINE c == cur[l] - cur'[l]
    <2>1. /\ c \in 0..cur[l]
          /\ Len(ts'[l]) = Len(ts[l]) - c
          /\ \A j \in 1..(Len(ts[l]) - c) : ts'[l][j] = ts[l][c + j]
      BY CompactLane DEF LiveInv
    <2>2. Len(ts[l]) \in Nat /\ cur[l] \in Nat
      BY LaneFacts DEF LiveInv
    <2> HIDE DEF c
    <2>3. ts'[l][i] = ts[l][c + i] /\ c + i \in 1..Len(ts[l])
      BY <2>1, <2>2
    <2>4. QED
      BY <2>3 DEF LiveInv, BelowStamp
  <1>3. QED
    BY <1>1, <1>2 DEF LiveInv, BelowStamp

-----------------------------------------------------------------------------
\* Every step of the feed is one of the weaver, or leaves the weaver alone.
LEMMA StepIsWeaving ==
    ASSUME LiveInv, [LiveNext]_liveVars
    PROVE  [Ingest \/ Weave \/ Compact]_vars /\ BelowStamp' /\ OnTheWire'
  <1>1. CASE UNCHANGED liveVars
    BY <1>1 DEF liveVars, wire, consumer, vars, LiveInv, BelowStamp, OnTheWire
  <1>2. CASE TakeSink \/ DropSink
    BY <1>2 DEF TakeSink, DropSink, consumer, vars, LiveInv, BelowStamp, OnTheWire
  <1>3. ASSUME NEW n \in Batches, Push(n)
        PROVE  UNCHANGED vars /\ BelowStamp' /\ OnTheWire'
    <2>1. Append(channel, n) \in Seq(Batches)
      BY DEF LiveInv, OnTheWire
    <2>2. QED
      BY <1>3, <2>1 DEF Push, consumer, vars, LiveInv, BelowStamp, OnTheWire
  <1>4. CASE CallNext
    <2>1. UNCHANGED <<channel, lastStamp>>
      BY <1>4 DEF CallNext
    <2>2. CASE Compact
      BY <2>1, <2>2, CompactBelowStamp DEF LiveInv, OnTheWire
    <2>3. CASE UNCHANGED vars
      BY <2>1, <2>3 DEF vars, LiveInv, BelowStamp, OnTheWire
    <2>4. QED
      BY <1>4, <2>2, <2>3 DEF CallNext
  <1>5. CASE FindDisconnected \/ Drained \/ End
    BY <1>5 DEF FindDisconnected, Drained, End, wire, vars, LiveInv, BelowStamp, OnTheWire
  <1>6. CASE Return
    <2>1. Weave /\ UNCHANGED <<channel, lastStamp>>
      BY <1>6 DEF Return, wire
    <2>2. QED
      BY <2>1, WeaveBelowStamp DEF LiveInv, OnTheWire
  <1>7. ASSUME NEW reading \in Readings, Recv(reading) \/ Drain(reading)
        PROVE  Ingest /\ BelowStamp' /\ OnTheWire'
    BY <1>7, TakeIngests DEF Recv, Drain
  <1>8. QED
    BY <1>1, <1>2, <1>3, <1>4, <1>5, <1>6, <1>7 DEF LiveNext, Consume, Pump

\* Every channel operation of the pumps and of Live::next keeps it.
LEMMA LiveNextInv ==
    ASSUME LiveInv, [LiveNext]_liveVars
    PROVE  LiveInv'
  <1>1. [Ingest \/ Weave \/ Compact]_vars /\ BelowStamp' /\ OnTheWire'
    BY StepIsWeaving
  <1>2. Inv'
    BY <1>1, WeavingInv DEF LiveInv
  <1>3. QED
    BY <1>1, <1>2 DEF LiveInv

\* For any clock, any sinks and any messages, no slot is ever above the last
\* stamp issued.
THEOREM LiveInvariance == LiveSpec => []LiveInv
  <1>1. QED
    BY LiveInitInv, LiveNextInv, PTL DEF LiveSpec

\* The live feed implements the weaver: whatever its clock reads, each message
\* is keyed as Lane::key and Weaver::step assert.
THEOREM LiveIsWeaver == LiveSpec => IsWeaver
  <1>1. LiveInit => Init
    BY DEF LiveInit
  <1>2. LiveInv /\ [LiveNext]_liveVars => [Ingest \/ Weave \/ Compact]_vars
    BY StepIsWeaving
  <1>3. QED
    BY <1>1, <1>2, LiveInvariance, PTL DEF LiveSpec, IsWeaver, Weaving

\* So the feed's steps never leave arrival order either.
THEOREM LiveInOrder == LiveSpec => []NeverOutOfOrder
  <1>1. Inv => NeverOutOfOrder
    BY DEF Inv
  <1>2. QED
    BY <1>1, LiveIsWeaver, Invariance, PTL DEF IsWeaver

\* And they are an arrival-ordered merge of what was taken off the wire.
THEOREM LiveMerges == LiveSpec => IsArrivalMerge
  <1>1. QED
    BY LiveIsWeaver, WeavingMerges, PTL DEF IsWeaver

-----------------------------------------------------------------------------
(* The order of what is woven.                                             *)

Entry == Keys \X Lanes \X Nat

\* What a log entry is the row of.
RowOf(e) == <<e[2], e[3]>>

\* The rows some are handed over of those in all, which is in the order of its keys:
\* each once, and none before a row of an earlier key.
InOrderOf(all, some) ==
    /\ \A p, q \in DOMAIN all : p <= q => all[p][1] <= all[q][1]
    /\ \A p, q \in DOMAIN all : RowOf(all[p]) = RowOf(all[q]) => p = q
    /\ \A i, j \in DOMAIN some : some[i] = some[j] => i = j
    /\ \A i \in DOMAIN some : \E p \in DOMAIN all : some[i] = RowOf(all[p])
    /\ \A i \in DOMAIN some : \A p, q \in DOMAIN all :
         some[i] = RowOf(all[q]) /\ all[p][1] < all[q][1] =>
           \E j \in 1..(i - 1) : some[j] = RowOf(all[p])

\* n places do not fit in fewer.
LEMMA Crowded ==
    ASSUME NEW n \in Nat, NEW m \in Nat, m < n, NEW f \in [1..n -> 1..m]
    PROVE  \E x, y \in 1..n : x # y /\ f[x] = f[y]
  <1>1. /\ IsFiniteSet(1..n) /\ Cardinality(1..n) = n
        /\ IsFiniteSet(1..m) /\ Cardinality(1..m) = m
    BY FS_Interval
  <1> QED
    BY <1>1, FS_PigeonHole

\* A log and its entries, typed.
LEMMA EntryFacts ==
    ASSUME NEW all \in Seq(Entry)
    PROVE  /\ Len(all) \in Nat /\ DOMAIN all = 1..Len(all)
           /\ \A p \in 1..Len(all) : /\ all[p] \in Entry /\ all[p][1] \in Int
                                     /\ all[p] = <<all[p][1], all[p][2], all[p][3]>>
  <1>1. Len(all) \in Nat /\ DOMAIN all = 1..Len(all) /\ \A p \in 1..Len(all) : all[p] \in Entry
    OBVIOUS
  <1>2. ASSUME NEW e \in Entry
        PROVE  e[1] \in Int /\ e = <<e[1], e[2], e[3]>>
    <2>1. PICK k \in Keys, l \in Lanes, r \in Nat : e = <<k, l, r>>
      BY DEF Entry
    <2> QED
      BY <2>1, KeysAreIntegers
  <1> QED
    BY <1>1, <1>2

\* So the i-th row handed over is one of the i-th key.
LEMMA WovenGives ==
    ASSUME NEW all \in Seq(Entry), NEW some \in Seq(Lanes \X Nat), InOrderOf(all, some),
           NEW i \in 1..Len(some)
    PROVE  /\ i <= Len(all)
           /\ \E q \in 1..Len(all) : some[i] = RowOf(all[q]) /\ all[i][1] = all[q][1]
  <1> DEFINE m == Len(all)
             F == [j \in 1..i |-> CHOOSE p \in 1..m : some[j] = RowOf(all[p])]
  <1>1. /\ m \in Nat /\ DOMAIN all = 1..m /\ DOMAIN some = 1..Len(some) /\ Len(some) \in Nat /\ i \in Nat
        /\ \A p \in 1..m : all[p][1] \in Int
    BY EntryFacts
  <1>2. \A j \in 1..i : j \in DOMAIN some
    BY <1>1
  <1>3. \A j \in 1..i : \E p \in 1..m : some[j] = RowOf(all[p])
    BY <1>1, <1>2 DEF InOrderOf
  <1>4. \A j \in 1..i : F[j] \in 1..m /\ some[j] = RowOf(all[F[j]])
    BY <1>3
  <1>5. F = [j \in 1..i |-> F[j]]
    OBVIOUS
  <1> HIDE DEF F, m
  <1>6. ASSUME NEW x \in 1..i, NEW y \in 1..i, F[x] = F[y]
        PROVE  x = y
    <2>1. some[x] = some[y]
      BY <1>4, <1>6
    <2> QED
      BY <1>2, <2>1 DEF InOrderOf
  <1>7. \A n \in Nat : (\A j \in 1..i : F[j] \in 1..n) => i <= n
    <2> SUFFICES ASSUME NEW n \in Nat, \A j \in 1..i : F[j] \in 1..n, n < i
                 PROVE  FALSE
      BY <1>1
    <2>1. F \in [1..i -> 1..n]
      BY <1>5
    <2>2. \E x, y \in 1..i : x # y /\ F[x] = F[y]
      BY <1>1, <2>1, Crowded
    <2> QED
      BY <1>6, <2>2
  <1>8. i <= m
    BY <1>1, <1>4, <1>7
  <1>9. i \in 1..i /\ i \in DOMAIN all
    BY <1>1, <1>8
  <1> DEFINE q == F[i]
  <1>10. q \in 1..m /\ some[i] = RowOf(all[q])
    BY <1>4, <1>9
  <1> HIDE DEF q
  <1>11. ASSUME all[q][1] < all[i][1]
         PROVE  FALSE
    <2>1. ASSUME NEW j \in 1..i
          PROVE  all[F[j]][1] <= all[q][1]
      <3> SUFFICES ASSUME all[q][1] < all[F[j]][1]
                   PROVE  FALSE
        BY <1>1, <1>4, <1>10
      <3>1. \E k \in 1..(j - 1) : some[k] = RowOf(all[q])
        BY <1>1, <1>2, <1>4, <1>10 DEF InOrderOf
      <3>2. PICK k \in 1..(j - 1) : some[k] = some[i]
        BY <1>10, <3>1
      <3>3. k \in 1..i /\ k # i
        BY <1>1
      <3> QED
        BY <1>2, <1>9, <3>2, <3>3 DEF InOrderOf
    <2>2. ASSUME NEW j \in 1..i
          PROVE  F[j] \in 1..(i - 1)
      <3>1. all[F[j]][1] < all[i][1] /\ F[j] \in 1..m
        <4>1. F[j] \in 1..m
          BY <1>4
        <4>2. all[F[j]][1] \in Int /\ all[q][1] \in Int /\ all[i][1] \in Int
          BY <1>1, <1>9, <1>10, <4>1
        <4> QED
          BY SMTT(30), <1>11, <2>1, <4>1, <4>2
      <3>2. ~ (i <= F[j])
        <4> SUFFICES ASSUME i <= F[j] PROVE FALSE
          OBVIOUS
        <4>1. all[i][1] <= all[F[j]][1]
          BY <1>1, <1>9, <3>1 DEF InOrderOf
        <4> QED
          BY <1>1, <1>9, <3>1, <4>1
      <3> QED
        BY <1>1, <3>1, <3>2
    <2>3. i - 1 \in Nat /\ ~ (i <= i - 1)
      BY <1>1
    <2> QED
      BY <1>7, <2>2, <2>3
  <1>12. ASSUME all[i][1] < all[q][1]
         PROVE  FALSE
    <2> DEFINE G == [p \in 1..i |-> CHOOSE j \in 1..(i - 1) : some[j] = RowOf(all[p])]
    <2>1. ASSUME NEW p \in 1..i
          PROVE  \E j \in 1..(i - 1) : some[j] = RowOf(all[p])
      <3>1. p \in DOMAIN all /\ p <= i
        BY <1>1, <1>8
      <3>2. all[p][1] <= all[i][1]
        BY <1>9, <3>1 DEF InOrderOf
      <3>3. all[p][1] < all[q][1]
        BY <1>1, <1>9, <1>10, <1>12, <3>1, <3>2
      <3> QED
        BY <1>1, <1>10, <3>1, <3>3 DEF InOrderOf
    <2>2. \A p \in 1..i : G[p] \in 1..(i - 1) /\ some[G[p]] = RowOf(all[p])
      BY <2>1
    <2>3. G \in [1..i -> 1..(i - 1)]
      BY <2>2
    <2> HIDE DEF G
    <2>4. i - 1 \in Nat /\ i - 1 < i
      BY <1>1
    <2>5. PICK x \in 1..i, y \in 1..i : x # y /\ G[x] = G[y]
      BY <1>1, <2>3, <2>4, Crowded
    <2>6. RowOf(all[x]) = RowOf(all[y])
      BY <2>2, <2>5
    <2>7. x \in DOMAIN all /\ y \in DOMAIN all
      BY <1>1, <1>8
    <2> QED
      BY <2>5, <2>6, <2>7 DEF InOrderOf
  <1>13. all[i][1] = all[q][1]
    BY <1>1, <1>9, <1>10, <1>11, <1>12
  <1> QED
    BY <1>8, <1>10, <1>13 DEF m

\* To be merged of the log in the order of its keys is what WeavesTheLog says.
LEMMA WovenIsTheLog == ASSUME log \in Seq(Entry), woven \in Seq(Lanes \X Nat), InOrderOf(log, woven)
                       PROVE  WeavesTheLog
  <1>1. IsInjective(woven)
    BY DEF InOrderOf, IsInjective
  <1>2. ASSUME NEW i \in 1..Len(woven)
        PROVE  i <= Len(log) /\ <<log[i][1], woven[i][1], woven[i][2]>> \in ToSet(log)
    <2>1. PICK q \in 1..Len(log) : woven[i] = RowOf(log[q]) /\ log[i][1] = log[q][1]
      BY WovenGives
    <2>2. log[q] = <<log[q][1], log[q][2], log[q][3]>> /\ DOMAIN log = 1..Len(log)
      BY EntryFacts
    <2>3. woven[i][1] = log[q][2] /\ woven[i][2] = log[q][3]
      BY <2>1 DEF RowOf
    <2>4. log[q] \in ToSet(log)
      BY <2>2 DEF ToSet
    <2>5. i <= Len(log)
      BY WovenGives
    <2> QED
      BY <2>1, <2>2, <2>3, <2>4, <2>5
  <1> QED
    BY <1>1, <1>2 DEF WeavesTheLog

\* One sequence after another, place by place.
LEMMA BothAre ==
    ASSUME NEW S, NEW s \in Seq(S), NEW t \in Seq(S)
    PROVE  /\ s \o t \in Seq(S) /\ Len(s) \in Nat /\ Len(t) \in Nat
           /\ DOMAIN s = 1..Len(s) /\ DOMAIN t = 1..Len(t) /\ DOMAIN (s \o t) = 1..(Len(s) + Len(t))
           /\ \A p \in 1..Len(s) : (s \o t)[p] = s[p] /\ p \in 1..(Len(s) + Len(t))
           /\ \A j \in 1..Len(t) : (s \o t)[Len(s) + j] = t[j] /\ Len(s) + j \in 1..(Len(s) + Len(t))
           /\ \A p \in 1..(Len(s) + Len(t)) : p \in 1..Len(s) \/ \E j \in 1..Len(t) : p = Len(s) + j
  <1>1. /\ s \o t \in Seq(S) /\ Len(s) \in Nat /\ Len(t) \in Nat
        /\ DOMAIN s = 1..Len(s) /\ DOMAIN t = 1..Len(t) /\ Len(s \o t) = Len(s) + Len(t)
    OBVIOUS
  <1>2. \A p \in 1..Len(s) : (s \o t)[p] = s[p] /\ p \in 1..(Len(s) + Len(t))
    OBVIOUS
  <1>3. \A j \in 1..Len(t) : (s \o t)[Len(s) + j] = t[j] /\ Len(s) + j \in 1..(Len(s) + Len(t))
    OBVIOUS
  <1>4. ASSUME NEW p \in 1..(Len(s) + Len(t)), ~ (p \in 1..Len(s))
        PROVE  \E j \in 1..Len(t) : p = Len(s) + j
    <2>1. p - Len(s) \in 1..Len(t) /\ p = Len(s) + (p - Len(s))
      BY <1>1, <1>4
    <2> QED
      BY <2>1
  <1>5. DOMAIN (s \o t) = 1..(Len(s) + Len(t))
    <2>1. DOMAIN (s \o t) = 1..Len(s \o t)
      BY <1>1
    <2> QED
      BY <1>1, <2>1
  <1> QED
    BY <1>1, <1>2, <1>3, <1>4, <1>5

\* A message under a later key, of rows not logged before.
Later(all, more, k) ==
    /\ \A p \in 1..Len(all) : all[p][1] < k
    /\ \A p \in 1..Len(more) : more[p][1] = k
    /\ \A p, q \in 1..Len(more) : RowOf(more[p]) = RowOf(more[q]) => p = q
    /\ \A p \in 1..Len(all), q \in 1..Len(more) : RowOf(all[p]) # RowOf(more[q])

\* Rows logged under later stamps leave what is woven as it is.
LEMMA WovenMore ==
    ASSUME NEW all \in Seq(Entry), NEW more \in Seq(Entry), NEW some, InOrderOf(all, some),
           NEW k \in Int, Later(all, more, k)
    PROVE  InOrderOf(all \o more, some)
  <1> DEFINE both == all \o more
             n == Len(all)
             d == Len(more)
  <1>1. /\ n \in Nat /\ d \in Nat /\ DOMAIN all = 1..n /\ DOMAIN both = 1..(n + d)
        /\ \A p \in 1..n : both[p] = all[p] /\ p \in 1..(n + d)
        /\ \A j \in 1..d : both[n + j] = more[j] /\ n + j \in 1..(n + d)
        /\ \A p \in 1..(n + d) : p \in 1..n \/ \E j \in 1..d : p = n + j
    BY BothAre
  <1>0. /\ \A p \in 1..n : all[p][1] < k
        /\ \A p \in 1..d : more[p][1] = k
        /\ \A p, q \in 1..d : RowOf(more[p]) = RowOf(more[q]) => p = q
        /\ \A p \in 1..n, q \in 1..d : RowOf(all[p]) # RowOf(more[q])
    BY DEF Later
  <1>2. \A p \in 1..n : all[p][1] \in Int /\ all[p][1] < k
    BY <1>0, EntryFacts
  <1> HIDE DEF both, n, d
  <1>3. \A p \in 1..n : both[p][1] < k /\ both[p][1] \in Int
    BY <1>1, <1>2
  <1>4. ASSUME NEW q \in 1..(n + d), ~ (q \in 1..n)
        PROVE  both[q][1] = k
    <2>1. PICK j \in 1..d : q = n + j
      BY <1>1, <1>4
    <2>2. both[q] = more[j] /\ more[j][1] = k
      BY <1>0, <1>1, <2>1
    <2> QED
      BY <2>2
  <1>5. ASSUME NEW p \in 1..(n + d), NEW q \in 1..(n + d), p <= q
        PROVE  both[p][1] <= both[q][1]
    <2>1. CASE q \in 1..n
      <3>1. p \in 1..n
        BY <1>1, <1>5, <2>1
      <3> QED
        BY <1>1, <1>5, <2>1, <3>1 DEF InOrderOf
    <2>2. CASE ~ (q \in 1..n)
      <3>1. both[q][1] = k
        BY <1>1, <1>4, <2>2
      <3>2. (both[p][1] < k /\ both[p][1] \in Int) \/ both[p][1] = k
        BY <1>1, <1>3, <1>4
      <3> QED
        BY <3>1, <3>2
    <2> QED
      BY <2>1, <2>2
  <1>6. ASSUME NEW p \in 1..(n + d), NEW q \in 1..(n + d), RowOf(both[p]) = RowOf(both[q])
        PROVE  p = q
    <2>1. CASE p \in 1..n /\ q \in 1..n
      BY <1>1, <1>6, <2>1 DEF InOrderOf
    <2>2. CASE p \in 1..n /\ ~ (q \in 1..n)
      <3>1. PICK j \in 1..d : q = n + j
        BY <1>1, <2>2
      <3>2. RowOf(all[p]) = RowOf(more[j])
        BY <1>1, <1>6, <2>2, <3>1
      <3> QED
        BY <1>0, <2>2, <3>2
    <2>3. CASE q \in 1..n /\ ~ (p \in 1..n)
      <3>1. PICK j \in 1..d : p = n + j
        BY <1>1, <2>3
      <3>2. RowOf(all[q]) = RowOf(more[j])
        BY <1>1, <1>6, <2>3, <3>1
      <3> QED
        BY <1>0, <2>3, <3>2
    <2>4. CASE ~ (p \in 1..n) /\ ~ (q \in 1..n)
      <3>0. PICK i \in 1..d : p = n + i
        BY <1>1, <2>4
      <3>1. PICK j \in 1..d : q = n + j
        BY <1>1, <2>4
      <3>2. RowOf(more[i]) = RowOf(more[j])
        BY <1>1, <1>6, <3>0, <3>1
      <3>3. i = j
        BY <1>0, <3>2
      <3> QED
        BY <3>0, <3>1, <3>3
    <2> QED
      BY <2>1, <2>2, <2>3, <2>4
  <1>7. ASSUME NEW i \in DOMAIN some
        PROVE  \E p \in 1..n : some[i] = RowOf(all[p])
    BY <1>1 DEF InOrderOf
  <1>8. ASSUME NEW i \in DOMAIN some, NEW p \in 1..(n + d), NEW q \in 1..(n + d),
               some[i] = RowOf(both[q]), both[p][1] < both[q][1]
        PROVE  \E j \in 1..(i - 1) : some[j] = RowOf(both[p])
    <2>1. PICK r \in 1..n : some[i] = RowOf(all[r])
      BY <1>7
    <2>2. r \in 1..(n + d) /\ both[r] = all[r]
      BY <1>1
    <2>3. r = q
      BY <1>6, <1>8, <2>1, <2>2
    <2>4. both[q][1] < k /\ both[q][1] \in Int
      BY <1>3, <2>3
    <2>5. p \in 1..n
      <3> SUFFICES ASSUME ~ (p \in 1..n) PROVE FALSE
        OBVIOUS
      <3>1. both[p][1] = k
        BY <1>1, <1>4
      <3> QED
        BY <1>8, <2>4, <3>1
    <2>6. both[p] = all[p] /\ both[q] = all[q] /\ q \in 1..n
      BY <1>1, <2>2, <2>3, <2>5
    <2> QED
      BY SMTT(30), <1>1, <1>8, <2>5, <2>6 DEF InOrderOf
  <1>9. \A i \in DOMAIN some : \E p \in 1..(n + d) : some[i] = RowOf(both[p])
    BY <1>1, <1>7
  <1>10. \A i, j \in DOMAIN some : some[i] = some[j] => i = j
    BY DEF InOrderOf
  <1>11. InOrderOf(both, some)
    <2>1. DOMAIN both = 1..(n + d)
      BY <1>1
    <2> QED
      BY <1>5, <1>6, <1>8, <1>9, <1>10, <2>1 DEF InOrderOf
  <1> QED
    BY <1>11 DEF both

\* A run of rows not woven yet, behind every row of an earlier key.
Follows(all, some, more) ==
    /\ \A i, j \in 1..Len(more) : more[i] = more[j] => i = j
    /\ \A i \in 1..Len(some), j \in 1..Len(more) : some[i] # more[j]
    /\ \A j \in 1..Len(more) : \E p \in DOMAIN all : more[j] = RowOf(all[p])
    /\ \A j \in 1..Len(more) : \A p, q \in DOMAIN all :
         more[j] = RowOf(all[q]) /\ all[p][1] < all[q][1] =>
           \/ \E i \in 1..Len(some) : some[i] = RowOf(all[p])
           \/ \E i \in 1..(j - 1) : more[i] = RowOf(all[p])

\* A run that follows in the log's order is woven with what went before.
LEMMA WovenRun ==
    ASSUME NEW all, NEW some \in Seq(Lanes \X Nat), NEW more \in Seq(Lanes \X Nat), InOrderOf(all, some),
           Follows(all, some, more)
    PROVE  InOrderOf(all, some \o more)
  <1> DEFINE both == some \o more
             n == Len(some)
             d == Len(more)
  <1>1. /\ n \in Nat /\ d \in Nat /\ DOMAIN some = 1..n /\ DOMAIN both = 1..(n + d)
        /\ \A p \in 1..n : both[p] = some[p] /\ p \in 1..(n + d)
        /\ \A j \in 1..d : both[n + j] = more[j] /\ n + j \in 1..(n + d)
        /\ \A p \in 1..(n + d) : p \in 1..n \/ \E j \in 1..d : p = n + j
    BY BothAre
  <1>0. /\ \A i, j \in 1..d : more[i] = more[j] => i = j
        /\ \A i \in 1..n, j \in 1..d : some[i] # more[j]
        /\ \A j \in 1..d : \E p \in DOMAIN all : more[j] = RowOf(all[p])
    BY DEF Follows
  <1>00. \A j \in 1..d : \A p, q \in DOMAIN all :
           more[j] = RowOf(all[q]) /\ all[p][1] < all[q][1] =>
             \/ \E i \in 1..n : some[i] = RowOf(all[p])
             \/ \E i \in 1..(j - 1) : more[i] = RowOf(all[p])
    BY DEF Follows
  <1>01. /\ \A i \in 1..n : \E p \in DOMAIN all : some[i] = RowOf(all[p])
         /\ \A i \in 1..n : \A p, q \in DOMAIN all :
              some[i] = RowOf(all[q]) /\ all[p][1] < all[q][1] =>
                \E j \in 1..(i - 1) : some[j] = RowOf(all[p])
    <2>1. DOMAIN some = 1..n
      BY <1>1
    <2> HIDE DEF both, n, d
    <2> QED
      BY <2>1 DEF InOrderOf
  <1> HIDE DEF both, n, d
  <1>2. ASSUME NEW i \in 1..(n + d), NEW j \in 1..(n + d), both[i] = both[j]
        PROVE  i = j
    <2>1. CASE i \in 1..n /\ j \in 1..n
      BY <1>1, <1>2, <2>1 DEF InOrderOf
    <2>2. CASE i \in 1..n /\ ~ (j \in 1..n)
      <3>1. PICK y \in 1..d : j = n + y
        BY <1>1, <2>2
      <3>2. some[i] = more[y]
        BY <1>1, <1>2, <2>2, <3>1
      <3> QED
        BY <1>0, <2>2, <3>2
    <2>3. CASE j \in 1..n /\ ~ (i \in 1..n)
      <3>1. PICK x \in 1..d : i = n + x
        BY <1>1, <2>3
      <3>2. some[j] = more[x]
        BY <1>1, <1>2, <2>3, <3>1
      <3> QED
        BY <1>0, <2>3, <3>2
    <2>4. CASE ~ (i \in 1..n) /\ ~ (j \in 1..n)
      <3>1. PICK x \in 1..d : i = n + x
        BY <1>1, <2>4
      <3>2. PICK y \in 1..d : j = n + y
        BY <1>1, <2>4
      <3>3. more[x] = more[y]
        BY <1>1, <1>2, <3>1, <3>2
      <3> QED
        BY <1>0, <3>1, <3>2, <3>3
    <2> QED
      BY <2>1, <2>2, <2>3, <2>4
  <1>3. ASSUME NEW i \in 1..(n + d)
        PROVE  \E p \in DOMAIN all : both[i] = RowOf(all[p])
    <2>1. CASE i \in 1..n
      <3>1. both[i] = some[i]
        BY <1>1, <2>1
      <3> QED
        BY <1>01, <2>1, <3>1
    <2>2. CASE ~ (i \in 1..n)
      <3>1. PICK x \in 1..d : i = n + x
        BY <1>1, <2>2
      <3>2. both[i] = more[x]
        BY <1>1, <3>1
      <3> QED
        BY <1>0, <3>2
    <2> QED
      BY <2>1, <2>2
  <1>4. ASSUME NEW i \in 1..(n + d), NEW p \in DOMAIN all, NEW q \in DOMAIN all,
               both[i] = RowOf(all[q]), all[p][1] < all[q][1]
        PROVE  \E j \in 1..(i - 1) : both[j] = RowOf(all[p])
    <2>1. CASE i \in 1..n
      <3>0. both[i] = some[i]
        BY <1>1, <2>1
      <3>1. PICK j \in 1..(i - 1) : some[j] = RowOf(all[p])
        BY <1>01, <1>4, <2>1, <3>0
      <3>2. j \in 1..n
        BY <1>1, <2>1
      <3> QED
        BY <1>1, <3>1, <3>2
    <2>2. CASE ~ (i \in 1..n)
      <3>1. PICK j \in 1..d : i = n + j
        BY <1>1, <2>2
      <3>2. \/ \E h \in 1..n : some[h] = RowOf(all[p])
            \/ \E h \in 1..(j - 1) : more[h] = RowOf(all[p])
        <4>1. both[i] = more[j]
          BY <1>1, <3>1
        <4> QED
          BY <1>00, <1>4, <4>1
      <3>3. ASSUME NEW h \in 1..n, some[h] = RowOf(all[p])
            PROVE  \E x \in 1..(i - 1) : both[x] = RowOf(all[p])
        <4>1. h \in 1..(i - 1)
          BY <1>1, <3>1
        <4> QED
          BY <1>1, <3>3, <4>1
      <3>4. ASSUME NEW h \in 1..(j - 1), more[h] = RowOf(all[p])
            PROVE  \E x \in 1..(i - 1) : both[x] = RowOf(all[p])
        <4>1. n + h \in 1..(i - 1) /\ h \in 1..d
          BY <1>1, <3>1
        <4> QED
          BY <1>1, <3>4, <4>1
      <3> QED
        BY <3>2, <3>3, <3>4
    <2> QED
      BY <2>1, <2>2
  <1>5. /\ \A p, q \in DOMAIN all : p <= q => all[p][1] <= all[q][1]
        /\ \A p, q \in DOMAIN all : RowOf(all[p]) = RowOf(all[q]) => p = q
    BY DEF InOrderOf
  <1>6. InOrderOf(all, both)
    BY <1>1, <1>2, <1>3, <1>4, <1>5 DEF InOrderOf
  <1> QED
    BY <1>6 DEF both

-----------------------------------------------------------------------------
(* What a message appends to the log.                                      *)

Laying == INSTANCE FoldTheorems WITH Op <- LAMBDA env, rows, of : rows \o of

Flat(lists) == FoldLeft(LAMBDA rows, of : rows \o of, <<>>, lists)

\* Flat is a fold, so the fold theorems speak of it.
LEMMA FlatFolds == \A lists : Laying!Fold({}, <<>>, lists) = Flat(lists)
  BY Zenon DEF Flat, Laying!Fold, FoldLeft, MapThenFoldSet,
               Laying!FoldLeft, Laying!MapThenFoldSet, Max, Laying!Max

\* No lists lay out nothing.
LEMMA FlatEmpty == Flat(<<>>) = <<>>
  BY FlatFolds, Laying!FoldEmpty

\* One list more is laid out at the end.
LEMMA FlatAppend ==
    ASSUME NEW S, NEW lists \in Seq(S), NEW f \in S
    PROVE  Flat(Append(lists, f)) = Flat(lists) \o f
  <1>1. Laying!Fold({}, <<>>, Append(lists, f)) = Laying!Fold({}, <<>>, lists) \o f
    BY Laying!FoldAppend
  <1> QED
    BY <1>1, FlatFolds

\* No row is in two places of the lists.
Apart(lists) ==
    \A x, v \in 1..Len(lists) : \A y \in 1..Len(lists[x]), w \in 1..Len(lists[v]) :
      RowOf(lists[x][y]) = RowOf(lists[v][w]) => x = v /\ y = w

\* The lists one after another hold the entries of each, and no row twice that the
\* lists do not.
Laid(lists) ==
    /\ Flat(lists) \in Seq(Entry)
    /\ \A p \in 1..Len(Flat(lists)) :
         \E x \in 1..Len(lists) : \E y \in 1..Len(lists[x]) : Flat(lists)[p] = lists[x][y]
    /\ \A x \in 1..Len(lists) : \A y \in 1..Len(lists[x]) :
         \E p \in 1..Len(Flat(lists)) : Flat(lists)[p] = lists[x][y]
    /\ Apart(lists) =>
         \A p, q \in 1..Len(Flat(lists)) : RowOf(Flat(lists)[p]) = RowOf(Flat(lists)[q]) => p = q

\* Laying one list more keeps each list where it was.
LEMMA LaidMore ==
    ASSUME NEW b \in Seq(Seq(Entry)), NEW f \in Seq(Entry), Laid(b)
    PROVE  Laid(Append(b, f))
  <1> DEFINE c == Append(b, f)
             m == Len(b)
             s == Flat(b)
             t == s \o f
             n == Len(s)
             d == Len(f)
  <1>1. /\ m \in Nat /\ Len(c) = m + 1 /\ c[m + 1] = f
        /\ \A x \in 1..m : c[x] = b[x] /\ x \in 1..(m + 1)
        /\ \A x \in 1..(m + 1) : x \in 1..m \/ x = m + 1
        /\ m + 1 \in 1..(m + 1) /\ m + 1 \notin 1..m
    OBVIOUS
  <1>2. Flat(c) = t
    BY FlatAppend
  <1>3. /\ s \in Seq(Entry)
        /\ \A p \in 1..n : \E x \in 1..m : \E y \in 1..Len(b[x]) : s[p] = b[x][y]
        /\ \A x \in 1..m : \A y \in 1..Len(b[x]) : \E p \in 1..n : s[p] = b[x][y]
        /\ Apart(b) => \A p, q \in 1..n : RowOf(s[p]) = RowOf(s[q]) => p = q
    BY DEF Laid
  <1> HIDE DEF s
  <1>4. /\ t \in Seq(Entry) /\ n \in Nat /\ d \in Nat /\ Len(t) = n + d
        /\ \A p \in 1..n : t[p] = s[p] /\ p \in 1..(n + d)
        /\ \A j \in 1..d : t[n + j] = f[j] /\ n + j \in 1..(n + d)
        /\ \A p \in 1..(n + d) : p \in 1..n \/ \E j \in 1..d : p = n + j
    BY <1>3, BothAre
  <1> HIDE DEF c, m, t, n, d
  <1>5. ASSUME NEW p \in 1..(n + d)
        PROVE  \E x \in 1..(m + 1) : \E y \in 1..Len(c[x]) : t[p] = c[x][y]
    <2>1. CASE p \in 1..n
      <3>1. PICK x \in 1..m : \E y \in 1..Len(b[x]) : s[p] = b[x][y]
        BY <1>3, <2>1
      <3>2. c[x] = b[x] /\ x \in 1..(m + 1) /\ t[p] = s[p]
        BY <1>1, <1>4, <2>1
      <3> QED
        BY <3>1, <3>2
    <2>2. CASE ~ (p \in 1..n)
      <3>1. PICK j \in 1..d : p = n + j
        BY <1>4, <2>2
      <3>2. t[p] = c[m + 1][j] /\ j \in 1..Len(c[m + 1])
        BY <1>1, <1>4, <3>1 DEF d
      <3> QED
        BY <1>1, <3>2
    <2> QED
      BY <2>1, <2>2
  <1>6. ASSUME NEW x \in 1..(m + 1), NEW y \in 1..Len(c[x])
        PROVE  \E p \in 1..(n + d) : t[p] = c[x][y]
    <2>1. CASE x \in 1..m
      <3>0. c[x] = b[x]
        BY <1>1, <2>1
      <3>1. PICK p \in 1..n : s[p] = b[x][y]
        BY <1>3, <2>1, <3>0
      <3> QED
        BY <1>4, <3>0, <3>1
    <2>2. CASE x = m + 1
      <3>1. c[x] = f /\ y \in 1..d
        BY <1>1, <2>2 DEF d
      <3> QED
        BY <1>4, <3>1
    <2> QED
      BY <1>1, <2>1, <2>2
  <1>7. ASSUME Apart(c), NEW p \in 1..(n + d), NEW q \in 1..(n + d), RowOf(t[p]) = RowOf(t[q])
        PROVE  p = q
    <2>0. /\ \A x, v \in 1..(m + 1) : \A y \in 1..Len(c[x]), w \in 1..Len(c[v]) :
               RowOf(c[x][y]) = RowOf(c[v][w]) => x = v /\ y = w
      BY <1>1, <1>7 DEF Apart, c, m
    <2>1. Apart(b)
      BY SMTT(30), <1>1, <2>0 DEF Apart, m
    <2>2. ASSUME NEW r \in 1..n
          PROVE  \E x \in 1..m : \E y \in 1..Len(c[x]) : t[r] = c[x][y]
      <3>1. PICK x \in 1..m : \E y \in 1..Len(b[x]) : s[r] = b[x][y]
        BY <1>3
      <3>2. c[x] = b[x] /\ t[r] = s[r]
        BY <1>1, <1>4
      <3> QED
        BY <3>1, <3>2
    <2>3. \A j \in 1..d : t[n + j] = c[m + 1][j] /\ j \in 1..Len(c[m + 1])
      BY <1>1, <1>4 DEF d
    <2>4. ASSUME NEW r \in 1..n, NEW j \in 1..d
          PROVE  RowOf(t[r]) # RowOf(t[n + j])
      <3>1. PICK x \in 1..m : \E y \in 1..Len(c[x]) : t[r] = c[x][y]
        BY <2>2
      <3>2. PICK y \in 1..Len(c[x]) : t[r] = c[x][y]
        BY <3>1
      <3>3. x \in 1..(m + 1) /\ x # m + 1 /\ m + 1 \in 1..(m + 1)
        BY <1>1
      <3>4. t[n + j] = c[m + 1][j] /\ j \in 1..Len(c[m + 1])
        BY <2>3
      <3>5. RowOf(c[x][y]) # RowOf(c[m + 1][j])
        BY <2>0, <3>3, <3>4
      <3> QED
        BY <3>2, <3>4, <3>5
    <2>5. CASE p \in 1..n /\ q \in 1..n
      BY <1>3, <1>4, <1>7, <2>1, <2>5
    <2>6. CASE p \in 1..n /\ ~ (q \in 1..n)
      <3>1. PICK j \in 1..d : q = n + j
        BY <1>4, <2>6
      <3> QED
        BY <1>7, <2>4, <2>6, <3>1
    <2>7. CASE q \in 1..n /\ ~ (p \in 1..n)
      <3>1. PICK j \in 1..d : p = n + j
        BY <1>4, <2>7
      <3> QED
        BY <1>7, <2>4, <2>7, <3>1
    <2>8. CASE ~ (p \in 1..n) /\ ~ (q \in 1..n)
      <3>1. PICK i \in 1..d : p = n + i
        BY <1>4, <2>8
      <3>2. PICK j \in 1..d : q = n + j
        BY <1>4, <2>8
      <3>3. i = j
        BY <1>1, <1>7, <2>0, <2>3, <3>1, <3>2
      <3> QED
        BY <3>1, <3>2, <3>3
    <2> QED
      BY <2>5, <2>6, <2>7, <2>8
  <1>8. Laid(c)
    <2>1. Len(c) = m + 1 /\ Len(t) = n + d
      BY <1>1, <1>4
    <2> QED
      BY <1>2, <1>4, <1>5, <1>6, <1>7, <2>1 DEF Laid
  <1> QED
    BY <1>8 DEF c

\* Every list of a batch is laid out whole.
LEMMA AllLaid == \A b \in Seq(Seq(Entry)) : Laid(b)
  <1> DEFINE T == {b \in Seq(Seq(Entry)) : Laid(b)}
  <1>1. <<>> \in T
    <2>1. <<>> \in Seq(Seq(Entry)) /\ <<>> \in Seq(Entry) /\ Len(<<>>) = 0
      OBVIOUS
    <2>2. Laid(<<>>)
      <3>1. 1..0 = {}
        OBVIOUS
      <3> QED
        BY <2>1, <3>1, FlatEmpty, Zenon DEF Laid
    <2> QED
      BY <2>1, <2>2
  <1>2. ASSUME NEW b \in Seq(Seq(Entry)), NEW f \in Seq(Entry), b \in T
        PROVE  Append(b, f) \in T
    <2>1. Append(b, f) \in Seq(Seq(Entry))
      OBVIOUS
    <2> QED
      BY <1>2, <2>1, LaidMore
  <1> HIDE DEF T
  <1>3. Seq(Seq(Entry)) \subseteq T
    BY <1>1, <1>2, Laying!SeqInduction
  <1> QED
    BY <1>3 DEF T

\* A message logs, for each row it appends to a lane, that row, once.
Logs(rows, k, n) ==
    /\ rows \in Seq(Entry)
    /\ \A p \in 1..Len(rows) : \E l \in Lanes : \E i \in 1..n[l] : rows[p] = <<k, l, keyed[l] + i>>
    /\ \A l \in Lanes : \A i \in 1..n[l] : \E p \in 1..Len(rows) : rows[p] = <<k, l, keyed[l] + i>>
    /\ \A p, q \in 1..Len(rows) : RowOf(rows[p]) = RowOf(rows[q]) => p = q

\* A message logs one row per row it keys, lane by lane, all under its stamp.
LEMMA LoggedIs ==
    ASSUME NEW k \in Keys, NEW n \in Batches, keyed \in [Lanes -> Nat]
    PROVE  Logs(Logged(k, n), k, n)
  <1> DEFINE lists == [l \in Lanes |-> [i \in 1..n[l] |-> <<k, l, keyed[l] + i>>]]
  <1>1. N \in Nat /\ Lanes = 1..N /\ n \in [Lanes -> Nat]
    BY WeaverConstants DEF Lanes
  <1>2. ASSUME NEW l \in Lanes
        PROVE  /\ n[l] \in Nat /\ lists[l] \in Seq(Entry) /\ Len(lists[l]) = n[l]
               /\ \A i \in 1..n[l] : lists[l][i] = <<k, l, keyed[l] + i>>
    <2>1. n[l] \in Nat
      BY <1>1
    <2>2. \A i \in 1..n[l] : <<k, l, keyed[l] + i>> \in Entry
      BY <2>1 DEF Entry
    <2>3. lists[l] = [i \in 1..n[l] |-> <<k, l, keyed[l] + i>>]
      OBVIOUS
    <2> HIDE DEF lists
    <2> QED
      BY <2>1, <2>2, <2>3
  <1>3. lists \in Seq(Seq(Entry)) /\ Len(lists) = N
    <2>1. lists = [l \in 1..N |-> lists[l]]
      BY <1>1
    <2>2. \A l \in 1..N : lists[l] \in Seq(Entry)
      BY <1>1, <1>2
    <2> HIDE DEF lists
    <2>3. lists \in [1..N -> Seq(Entry)]
      BY <2>1, <2>2
    <2> DEFINE S == Seq(Entry)
    <2> HIDE DEF S
    <2>4. lists \in Seq(S)
      BY <1>1, <2>3, SeqDef DEF S
    <2>5. DOMAIN lists = 1..Len(lists) /\ Len(lists) \in Nat
      BY <2>4, LenProperties
    <2>6. DOMAIN lists = 1..N
      BY <2>1
    <2>7. Len(lists) = N
      <3> DEFINE d == Len(lists)
      <3>1. 1..d = 1..N /\ d \in Nat
        BY <2>5, <2>6
      <3> HIDE DEF d
      <3>2. (d \in 1..d => d \in 1..N) /\ (N \in 1..N => N \in 1..d)
        BY <3>1
      <3>3. d = N
        BY <1>1, <3>1, <3>2
      <3> QED
        BY <3>3 DEF d
    <2> QED
      BY <2>4, <2>7 DEF S
  <1>4. Logged(k, n) = Flat(lists)
    BY Zenon DEF Logged, Flat, FoldLeft, MapThenFoldSet
  <1> HIDE DEF lists
  <1>5. Laid(lists)
    BY <1>3, AllLaid
  <1>6. Apart(lists)
    <2> SUFFICES ASSUME NEW x \in Lanes, NEW v \in Lanes, NEW y \in 1..n[x], NEW w \in 1..n[v],
                        RowOf(lists[x][y]) = RowOf(lists[v][w])
                 PROVE  x = v /\ y = w
      <3>1. \A x \in Lanes : Len(lists[x]) = n[x]
        BY <1>2
      <3> QED
        BY <1>1, <1>3, <3>1 DEF Apart
    <2>1. lists[x][y] = <<k, x, keyed[x] + y>> /\ lists[v][w] = <<k, v, keyed[v] + w>>
      BY <1>2
    <2>2. x = v /\ keyed[x] + y = keyed[v] + w
      BY <2>1 DEF RowOf
    <2> QED
      BY <1>2, <2>2
  <1> DEFINE s == Flat(lists)
  <1>7. /\ s \in Seq(Entry)
        /\ \A p \in 1..Len(s) : \E x \in 1..Len(lists) : \E y \in 1..Len(lists[x]) : s[p] = lists[x][y]
        /\ \A x \in 1..Len(lists) : \A y \in 1..Len(lists[x]) : \E p \in 1..Len(s) : s[p] = lists[x][y]
        /\ \A p, q \in 1..Len(s) : RowOf(s[p]) = RowOf(s[q]) => p = q
    BY <1>5, <1>6 DEF Laid
  <1> HIDE DEF s
  <1>8. ASSUME NEW p \in 1..Len(s)
        PROVE  \E l \in Lanes : \E i \in 1..n[l] : s[p] = <<k, l, keyed[l] + i>>
    <2>1. PICK l \in 1..Len(lists) : \E i \in 1..Len(lists[l]) : s[p] = lists[l][i]
      BY <1>7
    <2>2. PICK i \in 1..Len(lists[l]) : s[p] = lists[l][i]
      BY <2>1
    <2>3. l \in Lanes /\ i \in 1..n[l]
      BY <1>1, <1>2, <1>3
    <2> QED
      BY <1>2, <2>2, <2>3
  <1>9. ASSUME NEW l \in Lanes, NEW i \in 1..n[l]
        PROVE  \E p \in 1..Len(s) : s[p] = <<k, l, keyed[l] + i>>
    <2>1. l \in 1..Len(lists) /\ i \in 1..Len(lists[l]) /\ lists[l][i] = <<k, l, keyed[l] + i>>
      BY <1>1, <1>2, <1>3
    <2>2. PICK p \in 1..Len(s) : s[p] = lists[l][i]
      BY <1>7, <2>1
    <2> QED
      BY <2>1, <2>2
  <1>10. Logged(k, n) = s
    BY <1>4 DEF s
  <1>11. Logs(s, k, n)
    BY <1>7, <1>8, <1>9 DEF Logs
  <1> QED
    BY <1>10, <1>11

-----------------------------------------------------------------------------
(* What is woven is the log's beginning.                                   *)

\* The log is of rows keyed, under stamps issued.
OfTheKeyed ==
    /\ log \in Seq(Entry)
    /\ woven \in Seq(Lanes \X Nat)
    /\ \A p \in 1..Len(log) : log[p][1] <= lastStamp /\ log[p][3] \in 1..keyed[log[p][2]]

\* Whatever a lane still holds is in the log, under its key.
HeldIsLogged ==
    \A l \in Lanes : \A i \in 1..Len(ts[l]) :
      \E p \in 1..Len(log) : log[p] = <<ts[l][i], l, buf[l][i]>>

\* What was woven is what the lanes' cursors have passed.
WovenIsDelivered ==
    /\ \A i \in 1..Len(woven) : woven[i][2] \in 1..Delivered(woven[i][1])
    /\ \A l \in Lanes : \A r \in 1..Delivered(l) : \E i \in 1..Len(woven) : woven[i] = <<l, r>>

LogInv == OfTheKeyed /\ HeldIsLogged /\ WovenIsDelivered /\ InOrderOf(log, woven)

\* Nothing is logged and nothing woven.
LEMMA LogInitially == LiveInit => LogInv
  <1> SUFFICES ASSUME LiveInit PROVE LogInv
    OBVIOUS
  <1>1. /\ log = <<>> /\ woven = <<>> /\ Len(log) = 0 /\ Len(woven) = 0
        /\ DOMAIN log = {} /\ DOMAIN woven = {}
        /\ <<>> \in Seq(Entry) /\ <<>> \in Seq(Lanes \X Nat)
    BY DEF LiveInit
  <1>2. \A l \in Lanes : Len(ts[l]) = 0 /\ Delivered(l) = 0
    BY DEF LiveInit, Init, Delivered
  <1>3. 1..0 = {}
    OBVIOUS
  <1>4. OfTheKeyed
    BY <1>1, <1>3 DEF OfTheKeyed
  <1>5. HeldIsLogged /\ WovenIsDelivered
    BY <1>1, <1>2, <1>3 DEF HeldIsLogged, WovenIsDelivered
  <1>6. InOrderOf(log, woven)
    BY <1>1 DEF InOrderOf
  <1> QED
    BY <1>4, <1>5, <1>6 DEF LogInv

\* What touches neither lanes nor log keeps the log's invariant.
LEMMA LogSteady ==
    ASSUME LogInv, UNCHANGED <<vars, lastStamp, log, woven>>
    PROVE  LogInv'
  <1>1. UNCHANGED <<ts, buf, cur, keyed>>
    BY DEF vars
  <1>2. OfTheKeyed'
    BY <1>1 DEF LogInv, OfTheKeyed
  <1>3. HeldIsLogged'
    BY <1>1 DEF LogInv, HeldIsLogged
  <1>4. WovenIsDelivered'
    BY <1>1 DEF LogInv, WovenIsDelivered, Delivered
  <1>5. InOrderOf(log', woven')
    BY <1>1 DEF LogInv
  <1> QED
    BY <1>2, <1>3, <1>4, <1>5 DEF LogInv

\* The entries of the log, and their rows.
LEMMA LogFacts ==
    ASSUME OfTheKeyed, NEW p \in 1..Len(log)
    PROVE  /\ Len(log) \in Nat /\ DOMAIN log = 1..Len(log) /\ p \in DOMAIN log
           /\ log[p][1] \in Int /\ log[p][1] <= lastStamp
           /\ log[p][2] \in Lanes /\ log[p][3] \in Nat /\ log[p][3] \in 1..keyed[log[p][2]]
           /\ RowOf(log[p]) = <<log[p][2], log[p][3]>>
  <1>1. log \in Seq(Entry) /\ Len(log) \in Nat /\ DOMAIN log = 1..Len(log)
    BY DEF OfTheKeyed
  <1>2. log[p] \in Entry /\ log[p][1] \in Int
    BY <1>1, EntryFacts
  <1>3. log[p][2] \in Lanes /\ log[p][3] \in Nat
    BY <1>2 DEF Entry
  <1>4. log[p][1] <= lastStamp /\ log[p][3] \in 1..keyed[log[p][2]]
    BY DEF OfTheKeyed
  <1> QED
    BY <1>1, <1>2, <1>3, <1>4 DEF RowOf

\* A row a lane holds stands in the log under the lane's key of it.
LEMMA HeldUnderItsKey ==
    ASSUME Inv, LogInv, NEW l \in Lanes, NEW i \in 1..Len(ts[l]), NEW p \in 1..Len(log),
           RowOf(log[p]) = <<l, keyed[l] - Len(ts[l]) + i>>
    PROVE  log[p][1] = ts[l][i]
  <1>1. buf[l][i] = keyed[l] - Len(ts[l]) + i
    BY LaneFacts
  <1>2. PICK q \in 1..Len(log) : log[q] = <<ts[l][i], l, buf[l][i]>>
    BY DEF LogInv, HeldIsLogged
  <1>3. RowOf(log[q]) = RowOf(log[p])
    BY <1>1, <1>2 DEF RowOf
  <1>4. p \in DOMAIN log /\ q \in DOMAIN log
    BY LogFacts DEF LogInv
  <1>5. q = p
    BY <1>3, <1>4 DEF LogInv, InOrderOf
  <1> QED
    BY <1>2, <1>5

\* A message taken off the wire goes to the end of the log.
LEMMA LogTake ==
    ASSUME LiveInv, LogInv, NEW reading \in Readings, channel # <<>>, Take(reading)
    PROVE  LogInv'
  <1> DEFINE n == Head(channel)
             k == Stamp(reading)
             more == Logged(k, n)
  <1>1. n \in Batches /\ k \in Keys /\ lastStamp < k /\ Inv
    <2>1. n \in Batches
      BY HeadTailProperties DEF LiveInv, OnTheWire
    <2> QED
      BY <2>1, StampGrows DEF Take, LiveInv, BelowStamp
  <1>2. /\ AppendRows(k, n) /\ lastStamp' = k /\ woven' = woven /\ log' = log \o more
        /\ keyed' = [l \in Lanes |-> keyed[l] + n[l]]
    BY DEF Take, AppendRows
  <1>3. Ingest /\ k \in Int /\ lastStamp \in Int
    BY <1>1, TakeIngests, KeysAreIntegers DEF LiveInv, BelowStamp
  <1>4. keyed \in [Lanes -> Nat] /\ n \in [Lanes -> Nat]
    BY <1>1, WeaverConstants DEF Inv, TypeOK, Lanes
  <1>5. Logs(more, k, n)
    BY <1>1, <1>4, LoggedIs
  <1>6. KeyRows(k, n)
    <2>1. \A l \in Lanes : MayKey(l, k)
      BY StampMayKey DEF Take
    <2> QED
      BY <1>2, <2>1 DEF KeyRows
  <1> HIDE DEF n, k, more
  <1> DEFINE both == log \o more
             m == Len(log)
             d == Len(more)
  <1>7. /\ both \in Seq(Entry) /\ m \in Nat /\ d \in Nat /\ Len(both) = m + d
        /\ \A p \in 1..m : both[p] = log[p] /\ p \in 1..(m + d)
        /\ \A j \in 1..d : both[m + j] = more[j] /\ m + j \in 1..(m + d)
        /\ \A p \in 1..(m + d) : p \in 1..m \/ \E j \in 1..d : p = m + j
    BY <1>5, BothAre DEF LogInv, OfTheKeyed, Logs
  <1> HIDE DEF both, m, d
  <1>8. log' = both
    BY <1>2 DEF both
  <1>9. \A p \in 1..m : /\ log[p][1] \in Int /\ log[p][1] <= lastStamp
                        /\ log[p][2] \in Lanes /\ log[p][3] \in 1..keyed[log[p][2]]
                        /\ RowOf(log[p]) = <<log[p][2], log[p][3]>>
    BY LogFacts DEF LogInv, m
  <1>10. ASSUME NEW j \in 1..d
         PROVE  /\ more[j][1] = k /\ more[j][2] \in Lanes
                /\ more[j][3] \in (keyed[more[j][2]] + 1)..(keyed[more[j][2]] + n[more[j][2]])
                /\ RowOf(more[j]) = <<more[j][2], more[j][3]>>
    <2>1. PICK l \in Lanes : \E i \in 1..n[l] : more[j] = <<k, l, keyed[l] + i>>
      BY <1>5 DEF Logs, d
    <2>2. PICK i \in 1..n[l] : more[j] = <<k, l, keyed[l] + i>>
      BY <2>1
    <2>3. keyed[l] \in Nat /\ n[l] \in Nat
      BY <1>4
    <2>4. keyed[l] + i \in (keyed[l] + 1)..(keyed[l] + n[l])
      BY <2>3
    <2>5. more[j][1] = k /\ more[j][2] = l /\ more[j][3] = keyed[l] + i
      BY <2>2
    <2> QED
      BY <2>4, <2>5 DEF RowOf
  <1>11. OfTheKeyed'
    <2>1. ASSUME NEW p \in 1..(m + d)
          PROVE  both[p][1] <= k /\ both[p][3] \in 1..keyed'[both[p][2]]
      <3>1. CASE p \in 1..m
        <4>1. keyed'[log[p][2]] = keyed[log[p][2]] + n[log[p][2]]
          BY <1>2, <1>9, <3>1
        <4>2. keyed[log[p][2]] \in Nat /\ n[log[p][2]] \in Nat
          BY <1>4, <1>9, <3>1
        <4>3. log[p][1] <= k
          BY <1>1, <1>3, <1>9, <3>1
        <4>4. log[p][3] \in 1..keyed'[log[p][2]]
          BY <1>9, <3>1, <4>1, <4>2
        <4> QED
          BY <1>7, <3>1, <4>3, <4>4
      <3>2. CASE ~ (p \in 1..m)
        <4>1. PICK j \in 1..d : p = m + j
          BY <1>7, <3>2
        <4>2. both[p] = more[j]
          BY <1>7, <4>1
        <4>3. keyed[more[j][2]] \in Nat /\ n[more[j][2]] \in Nat
          BY <1>4, <1>10
        <4>4. keyed'[more[j][2]] = keyed[more[j][2]] + n[more[j][2]]
          BY <1>2, <1>10
        <4>5. more[j][3] \in 1..keyed'[more[j][2]]
          BY <1>10, <4>3, <4>4
        <4> QED
          BY <1>3, <1>10, <4>2, <4>5
      <3> QED
        BY <3>1, <3>2
    <2> QED
      BY <1>2, <1>7, <1>8, <2>1 DEF LogInv, OfTheKeyed
  <1>12. HeldIsLogged'
    <2> SUFFICES ASSUME NEW l \in Lanes, NEW i \in 1..Len(ts'[l])
                 PROVE  \E p \in 1..(m + d) : both[p] = <<ts'[l][i], l, buf'[l][i]>>
      <3>1. Len(log') = m + d
        BY <1>7, <1>8
      <3> QED
        BY <1>8, <3>1 DEF HeldIsLogged
    <2>0. /\ Len(ts[l]) \in Nat /\ Len(buf[l]) = Len(ts[l])
          /\ Len(ts'[l]) = Len(ts[l]) + n[l] /\ Len(buf'[l]) = Len(ts[l]) + n[l]
      BY <1>1, <1>6, LaneFacts, KeyRowsLane
    <2>1. /\ ts'[l][i] = IF i <= Len(ts[l]) THEN ts[l][i] ELSE k
          /\ buf'[l][i] = IF i <= Len(ts[l]) THEN buf[l][i] ELSE keyed[l] + (i - Len(ts[l]))
      <3>1. ts'[l][i] = IF i <= Len(ts[l]) THEN ts[l][i] ELSE k
        BY <1>1, <1>6, KeyRowsLane
      <3>2. i \in 1..Len(buf'[l])
        BY <2>0
      <3>3. buf'[l][i] = IF i <= Len(buf[l]) THEN buf[l][i] ELSE keyed[l] + (i - Len(buf[l]))
        BY <1>1, <1>6, <3>2, KeyRowsLane
      <3> QED
        BY <2>0, <3>1, <3>3
    <2>2. CASE i <= Len(ts[l])
      <3>1. i \in 1..Len(ts[l])
        BY <2>0, <2>2
      <3>2. PICK p \in 1..m : log[p] = <<ts[l][i], l, buf[l][i]>>
        BY <3>1 DEF LogInv, HeldIsLogged, m
      <3> QED
        BY <1>7, <2>1, <2>2, <3>2
    <2>3. CASE ~ (i <= Len(ts[l]))
      <3> DEFINE x == i - Len(ts[l])
      <3>1. x \in 1..n[l]
        BY <1>4, <2>0, <2>3
      <3>2. ts'[l][i] = k /\ buf'[l][i] = keyed[l] + x
        BY <2>1, <2>3
      <3> HIDE DEF x
      <3>3. PICK j \in 1..d : more[j] = <<k, l, keyed[l] + x>>
        BY <1>5, <3>1 DEF Logs, d
      <3> QED
        BY <1>7, <3>2, <3>3
    <2> QED
      BY <2>2, <2>3
  <1>13. WovenIsDelivered'
    <2>1. \A l \in Lanes : Delivered(l)' = Delivered(l)
      BY <1>1, <1>3, DeliveredStands
    <2>2. \A i \in 1..Len(woven) : woven[i][1] \in Lanes
      BY DEF LogInv, OfTheKeyed
    <2> QED
      BY <1>2, <2>1, <2>2 DEF LogInv, WovenIsDelivered
  <1>14. InOrderOf(both, woven)
    <2>1. Later(log, more, k)
      <3>1. \A p \in 1..m : log[p][1] < k
        BY <1>1, <1>3, <1>9
      <3>2. ASSUME NEW p \in 1..m, NEW q \in 1..d
            PROVE  RowOf(log[p]) # RowOf(more[q])
        <4>1. /\ log[p][3] \in 1..keyed[log[p][2]]
              /\ RowOf(log[p]) = <<log[p][2], log[p][3]>> /\ log[p][2] \in Lanes
          BY <1>9
        <4>2. /\ more[q][3] \in (keyed[more[q][2]] + 1)..(keyed[more[q][2]] + n[more[q][2]])
              /\ RowOf(more[q]) = <<more[q][2], more[q][3]>>
          BY <1>10
        <4>3. keyed[log[p][2]] \in Nat
          BY <1>4, <4>1
        <4>4. ASSUME log[p][2] = more[q][2] PROVE log[p][3] # more[q][3]
          BY <4>1, <4>2, <4>3, <4>4
        <4> QED
          BY <4>1, <4>2, <4>4
      <3>3. \A p, q \in 1..d : RowOf(more[p]) = RowOf(more[q]) => p = q
        BY <1>5 DEF Logs, d
      <3>4. \A q \in 1..d : more[q][1] = k
        BY <1>10
      <3> QED
        BY <3>1, <3>2, <3>3, <3>4 DEF Later, m, d
    <2>2. log \in Seq(Entry) /\ more \in Seq(Entry) /\ InOrderOf(log, woven)
      BY <1>5 DEF Logs, LogInv, OfTheKeyed
    <2> QED
      BY <1>3, <2>1, <2>2, WovenMore DEF both
  <1> QED
    BY <1>2, <1>8, <1>11, <1>12, <1>13, <1>14 DEF LogInv

\* Rows of a lane, from the one after the m-th on.
LEMMA CountedRows ==
    ASSUME NEW l \in Lanes, NEW m \in Nat, NEW n \in Nat, NEW s, s = [i \in 1..n |-> <<l, m + i>>]
    PROVE  /\ s \in Seq(Lanes \X Nat) /\ Len(s) = n
           /\ \A i, j \in 1..n : s[i] = s[j] => i = j
  <1>1. \A i \in 1..n : m + i \in Nat /\ <<l, m + i>> \in Lanes \X Nat
    OBVIOUS
  <1>2. s \in Seq(Lanes \X Nat)
    BY <1>1
  <1>3. Len(s) = n
    OBVIOUS
  <1>4. ASSUME NEW i \in 1..n, NEW j \in 1..n, s[i] = s[j]
        PROVE  i = j
    <2>1. <<l, m + i>> = <<l, m + j>>
      BY <1>4
    <2>2. m + i = m + j
      BY <2>1
    <2> QED
      BY <2>2
  <1> QED
    BY <1>2, <1>3, <1>4

\* The run of lane w that ends at e, as the log knows its rows.
IsRunOf(more, w, e) == more = [i \in 1..(e - cur[w]) |-> <<w, Delivered(w) + i>>]

\* The run Weaver::step takes is the next rows of the log, in the weave's order.
LEMMA RunFollows ==
    ASSUME Inv, LogInv, NEW w \in Lanes, NEW e \in 1..Len(ts[w]), Step(w, e), NEW more, IsRunOf(more, w, e)
    PROVE  more \in Seq(Lanes \X Nat) /\ Len(more) = e - cur[w] /\ Follows(log, woven, more)
  <1> DEFINE d == e - cur[w]
  <1>1. /\ cur[w] \in Nat /\ cur[w] < e /\ d \in Nat /\ d > 0 /\ e \in Nat
        /\ Len(ts[w]) \in Nat /\ keyed[w] \in Nat /\ Len(ts[w]) <= keyed[w]
        /\ Delivered(w) = keyed[w] - (Len(ts[w]) - cur[w]) /\ Delivered(w) \in Nat
    <2>1. /\ cur[w] \in Nat /\ Len(ts[w]) \in Nat /\ keyed[w] \in Nat
          /\ cur[w] <= Len(ts[w]) /\ Len(ts[w]) <= keyed[w]
      BY LaneFacts
    <2>2. cur[w] < e
      BY DEF Step, IsRunEnd
    <2>3. Delivered(w) = keyed[w] - (Len(ts[w]) - cur[w])
      BY DEF Delivered
    <2>4. d \in Nat /\ d > 0 /\ e \in Nat
      BY <2>1, <2>2
    <2>5. Delivered(w) \in Nat
      BY <2>1, <2>3
    <2> HIDE DEF d
    <2> QED
      BY <2>1, <2>2, <2>3, <2>4, <2>5
  <1>2. more = [i \in 1..d |-> <<w, Delivered(w) + i>>]
    BY DEF IsRunOf
  <1> HIDE DEF d
  <1>3. \A i \in 1..d : more[i] = <<w, Delivered(w) + i>> /\ Delivered(w) + i \in Nat
    BY SMTT(30), <1>1, <1>2
  <1>4. more \in Seq(Lanes \X Nat) /\ Len(more) = d
    <2>1. Delivered(w) \in Nat /\ d \in Nat
      BY <1>1
    <2> QED
      BY <1>2, <2>1, CountedRows
  <1>5. \A i, j \in 1..d : more[i] = more[j] => i = j
    BY <1>1, <1>2, CountedRows
  <1>6. ASSUME NEW i \in 1..Len(woven), NEW j \in 1..d
        PROVE  woven[i] # more[j]
    <2> SUFFICES ASSUME woven[i] = more[j] PROVE FALSE
      OBVIOUS
    <2>1. woven[i][1] = w /\ woven[i][2] = Delivered(w) + j
      BY <1>3
    <2>2. woven[i][2] \in 1..Delivered(woven[i][1])
      BY DEF LogInv, WovenIsDelivered
    <2> QED
      BY <1>1, <2>1, <2>2
  <1>7. ASSUME NEW j \in 1..d
        PROVE  /\ cur[w] + j \in 1..Len(ts[w]) /\ cur[w] + j \in (cur[w] + 1)..e
               /\ more[j] = <<w, keyed[w] - Len(ts[w]) + (cur[w] + j)>>
    <2>1. j \in Nat /\ 1 <= j /\ j <= e - cur[w]
      BY <1>1 DEF d
    <2>2. cur[w] + j \in 1..Len(ts[w]) /\ cur[w] + j \in (cur[w] + 1)..e
      BY SMTT(30), <1>1, <2>1
    <2>3. Delivered(w) + j = keyed[w] - Len(ts[w]) + (cur[w] + j)
      BY SMTT(30), <1>1, <2>1
    <2>4. more[j] = <<w, Delivered(w) + j>>
      BY <1>3
    <2> QED
      BY <2>2, <2>3, <2>4
  <1>8. ASSUME NEW j \in 1..d
        PROVE  \E p \in DOMAIN log : more[j] = RowOf(log[p])
    <2> DEFINE x == cur[w] + j
    <2>1. x \in 1..Len(ts[w]) /\ more[j] = <<w, keyed[w] - Len(ts[w]) + x>>
      BY <1>7
    <2> HIDE DEF x
    <2>2. buf[w][x] = keyed[w] - Len(ts[w]) + x
      BY <2>1, LaneFacts
    <2>3. PICK p \in 1..Len(log) : log[p] = <<ts[w][x], w, buf[w][x]>>
      BY <2>1 DEF LogInv, HeldIsLogged
    <2>4. p \in DOMAIN log
      BY LogFacts DEF LogInv
    <2>5. RowOf(log[p]) = <<w, buf[w][x]>>
      BY <2>3 DEF RowOf
    <2>6. more[j] = RowOf(log[p])
      BY <2>1, <2>2, <2>5
    <2> QED
      BY <2>4, <2>6
  <1>9. ASSUME NEW j \in 1..d, NEW p \in DOMAIN log, NEW q \in DOMAIN log,
               more[j] = RowOf(log[q]), log[p][1] < log[q][1]
        PROVE  \/ \E i \in 1..Len(woven) : woven[i] = RowOf(log[p])
               \/ \E i \in 1..(j - 1) : more[i] = RowOf(log[p])
    <2> DEFINE y == cur[w] + j
               l == log[p][2]
               r == log[p][3]
    <2>0. p \in 1..Len(log) /\ q \in 1..Len(log)
      BY DEF LogInv, OfTheKeyed
    <2>1. l \in Lanes /\ r \in 1..keyed[l] /\ RowOf(log[p]) = <<l, r>> /\ log[p][1] \in Int
      BY <2>0, LogFacts DEF LogInv
    <2>2. y \in 1..Len(ts[w]) /\ y \in (cur[w] + 1)..e /\ RowOf(log[q]) = <<w, keyed[w] - Len(ts[w]) + y>>
      BY <1>7, <1>9
    <2> HIDE DEF l, r
    <2>3. log[q][1] = ts[w][y]
      <3> HIDE DEF y
      <3> QED
        BY <2>0, <2>2, HeldUnderItsKey
    <2>4. /\ Len(ts[l]) \in Nat /\ keyed[l] \in Nat /\ cur[l] \in Nat
          /\ cur[l] <= Len(ts[l]) /\ Len(ts[l]) <= keyed[l]
      BY <2>1, LaneFacts
    <2>7. /\ \A a \in 1..Len(ts[l]) : ts[l][a] \in Keys
          /\ \A a, b \in 1..Len(ts[l]) : a <= b => ts[l][a] <= ts[l][b]
      BY <2>1, LaneFacts
    <2>5. CASE r \in 1..Delivered(l)
      BY <2>1, <2>5 DEF LogInv, WovenIsDelivered
    <2>6. CASE ~ (r \in 1..Delivered(l))
      <3> DEFINE x == r - (keyed[l] - Len(ts[l]))
      <3>1. x \in 1..Len(ts[l]) /\ cur[l] < x /\ r = keyed[l] - Len(ts[l]) + x
        <4>1. r \in Nat /\ 1 <= r /\ r <= keyed[l]
          BY <2>1, <2>4
        <4>2. Delivered(l) = keyed[l] - (Len(ts[l]) - cur[l])
          BY DEF Delivered
        <4>3. Delivered(l) < r
          BY <2>4, <2>6, <4>1, <4>2
        <4> QED
          BY SMTT(30), <2>4, <4>1, <4>2, <4>3
      <3> HIDE DEF x
      <3>2. log[p][1] = ts[l][x]
        BY <2>0, <2>1, <3>1, HeldUnderItsKey
      <3>3. ts[l][x] < ts[w][y] /\ ts[l][x] \in Int /\ ts[w][y] \in Int
        BY <1>9, <2>0, <2>3, <3>2, LogFacts DEF LogInv
      <3>4. CASE l = w
        <4>1. x < y
          <5> HIDE DEF y
          <5> SUFFICES ASSUME y <= x PROVE FALSE
            BY <2>2, <3>1
          <5>1. ts[w][y] <= ts[w][x]
            BY <2>2, <2>7, <3>1, <3>4
          <5> QED
            BY <3>3, <3>4, <5>1
        <4> DEFINE i == x - cur[w]
        <4>2. i \in 1..(j - 1) /\ i \in 1..d /\ r = Delivered(w) + i
          <5>1. x \in Nat /\ cur[w] < x /\ r = keyed[w] - Len(ts[w]) + x /\ x < cur[w] + j /\ cur[w] + j <= e
            BY <1>1, <2>2, <3>1, <3>4, <4>1
          <5>2. j \in Nat /\ j <= d
            BY <1>1
          <5> HIDE DEF y
          <5>3. i \in 1..(j - 1) /\ i \in 1..d
            <6>1. \A c, z, u, v \in Nat : c < z /\ z < c + u /\ u <= v => z - c \in 1..(u - 1) /\ z - c \in 1..v
              OBVIOUS
            <6>2. cur[w] \in Nat /\ d \in Nat
              BY <1>1
            <6> QED
              BY <5>1, <5>2, <6>1, <6>2
          <5>4. r = Delivered(w) + i
            <6>1. \A c, z, u, v \in Nat : v - u + z = v - (u - c) + (z - c)
              OBVIOUS
            <6>2. cur[w] \in Nat /\ Len(ts[w]) \in Nat /\ keyed[w] \in Nat
              BY <1>1
            <6>3. Delivered(w) = keyed[w] - (Len(ts[w]) - cur[w])
              BY <1>1
            <6> QED
              BY SMTT(30), <5>1, <6>1, <6>2, <6>3
          <5> QED
            BY <5>3, <5>4
        <4> HIDE DEF i
        <4>3. more[i] = RowOf(log[p])
          BY <1>3, <2>1, <3>4, <4>2
        <4> QED
          BY <4>2, <4>3
      <3>5. CASE l # w
        <4>1. Pending(l) /\ cur[l] + 1 \in 1..Len(ts[l]) /\ cur[l] + 1 <= x
          BY SMTT(30), <2>4, <3>1 DEF Pending
        <4>2. HeadKey(l) <= ts[l][x] /\ HeadKey(l) \in Int
          BY <2>7, <3>1, <4>1, KeysAreIntegers DEF HeadKey
        <4>3. ts[w][y] <= HeadKey(l)
          <5>1. CASE y = cur[w] + 1
            <6>1. HeadKey(w) < HeadKey(l) \/ HeadKey(w) = HeadKey(l)
              BY <2>1, <4>1 DEF Step, IsWinner
            <6>2. HeadKey(w) = ts[w][y]
              BY <5>1 DEF HeadKey
            <6> QED
              BY <3>3, <4>2, <6>1, <6>2
          <5>2. CASE y # cur[w] + 1
            <6>1. y \in (cur[w] + 2)..e
              BY <1>1, <2>2, <5>2
            <6> HIDE DEF y
            <6>2. Within(w, ts[w][y])
              BY <6>1 DEF Step, IsRunEnd
            <6>3. l \in Lanes \ {w}
              BY <2>1, <3>5
            <6> QED
              BY <4>1, <6>2, <6>3 DEF Within
          <5> QED
            BY <5>1, <5>2
        <4> QED
          BY <3>3, <4>2, <4>3
      <3> QED
        BY <3>4, <3>5
    <2> QED
      BY <2>5, <2>6
  <1>10. Follows(log, woven, more)
    BY <1>4, <1>5, <1>6, <1>8, <1>9 DEF Follows
  <1> QED
    BY <1>4, <1>10 DEF d

\* A step gives its run, and its lane's cursor passes it.
LEMMA LogReturn ==
    ASSUME LiveInv, LogInv, Return
    PROVE  LogInv'
  <1>0. Inv /\ OfTheKeyed /\ HeldIsLogged /\ WovenIsDelivered /\ InOrderOf(log, woven)
    BY DEF LiveInv, LogInv
  <1>1. PICK w \in Lanes : \E e \in 1..Len(ts[w]) : Step(w, e)
    BY DEF Return, Weave
  <1>2. PICK e \in 1..Len(ts[w]) : Step(w, e)
    BY <1>1
  <1>3. PICK more : more = [i \in 1..(e - cur[w]) |-> <<w, Delivered(w) + i>>]
    OBVIOUS
  <1>4. /\ cur' = [cur EXCEPT ![w] = e] /\ winner' = w
        /\ ts' = ts /\ buf' = buf /\ keyed' = keyed
        /\ run' = [i \in 1..(e - cur[w]) |-> <<ts[w][cur[w] + i], buf[w][cur[w] + i]>>]
    BY <1>2 DEF Step
  <1>5. /\ more \in Seq(Lanes \X Nat) /\ Len(more) = e - cur[w] /\ Follows(log, woven, more)
    BY <1>0, <1>2, <1>3, RunFollows DEF LogInv, IsRunOf
  <1>6. /\ cur \in [Lanes -> Nat] /\ cur[w] \in Nat /\ cur[w] < e /\ e \in Nat
        /\ Len(ts[w]) \in Nat /\ e <= Len(ts[w])
    <2>1. cur \in [Lanes -> Nat] /\ Len(ts[w]) \in Nat
      BY <1>0, LaneFacts DEF Inv, TypeOK
    <2>2. cur[w] < e
      BY <1>2 DEF Step, IsRunEnd
    <2> QED
      BY <2>1, <2>2
  <1>7. woven' = woven \o more
    <2>1. Len(run') = e - cur[w]
      BY <1>4, <1>6
    <2>2. \A i \in 1..(e - cur[w]) : <<winner', run'[i][2]>> = <<w, Delivered(w) + i>>
      <3>1. ASSUME NEW i \in 1..(e - cur[w])
            PROVE  buf[w][cur[w] + i] = Delivered(w) + i
        <4>1. cur[w] + i \in 1..Len(ts[w])
          BY <1>6
        <4>2. buf[w][cur[w] + i] = keyed[w] - Len(ts[w]) + (cur[w] + i)
          BY <1>0, <4>1, LaneFacts
        <4>3. keyed[w] \in Nat
          BY <1>0, LaneFacts
        <4> QED
          BY <1>6, <4>2, <4>3 DEF Delivered
      <3> QED
        BY <1>4, <3>1
    <2>3. [i \in 1..Len(run') |-> <<winner', run'[i][2]>>] = more
      BY <1>3, <2>1, <2>2
    <2> QED
      BY <2>3 DEF Return
  <1>8. UNCHANGED <<lastStamp, log>>
    BY DEF Return
  <1> DEFINE both == woven \o more
             m == Len(woven)
             d == Len(more)
  <1>9. /\ both \in Seq(Lanes \X Nat) /\ m \in Nat /\ d \in Nat /\ Len(both) = m + d
        /\ \A p \in 1..m : both[p] = woven[p] /\ p \in 1..(m + d)
        /\ \A j \in 1..d : both[m + j] = more[j] /\ m + j \in 1..(m + d)
        /\ \A p \in 1..(m + d) : p \in 1..m \/ \E j \in 1..d : p = m + j
    <2>1. woven \in Seq(Lanes \X Nat)
      BY <1>0 DEF OfTheKeyed
    <2>2. more \in Seq(Lanes \X Nat)
      BY <1>5
    <2> QED
      BY <2>1, <2>2, BothAre
  <1>10. InOrderOf(log, both)
    <2>1. woven \in Seq(Lanes \X Nat)
      BY <1>0 DEF OfTheKeyed
    <2> QED
      BY <1>0, <1>5, <2>1, WovenRun
  <1>11. d = e - cur[w] /\ \A j \in 1..d : more[j] = <<w, Delivered(w) + j>>
    BY <1>3, <1>5
  <1>12. woven' = both
    BY <1>7
  <1> HIDE DEF both, m, d
  <1>13. PICK before : before = [l \in Lanes |-> keyed[l] - (Len(ts[l]) - cur[l])]
    OBVIOUS
  <1>14. \A l \in Lanes : Delivered(l) = before[l]
    BY <1>13 DEF Delivered
  <1>15. PICK after : after = [l \in Lanes |-> keyed'[l] - (Len(ts'[l]) - cur'[l])]
    OBVIOUS
  <1>16. \A l \in Lanes : /\ before[l] \in Nat
                          /\ after[l] = IF l = w THEN before[w] + d ELSE before[l]
    <2> SUFFICES ASSUME NEW l \in Lanes
                 PROVE  /\ before[l] \in Nat
                        /\ after[l] = IF l = w THEN before[w] + d ELSE before[l]
      OBVIOUS
    <2>1. /\ keyed[l] \in Nat /\ Len(ts[l]) \in Nat /\ cur[l] \in Nat
          /\ cur[l] <= Len(ts[l]) /\ Len(ts[l]) <= keyed[l]
      BY <1>0, LaneFacts
    <2>2. cur'[l] = IF l = w THEN e ELSE cur[l]
      BY <1>4, <1>6
    <2>3. after[l] = keyed[l] - (Len(ts[l]) - cur'[l])
      BY <1>4, <1>15
    <2>4. before[l] = keyed[l] - (Len(ts[l]) - cur[l])
      BY <1>13
    <2>5. d = e - cur[w]
      BY <1>11
    <2>6. before[l] \in Nat
      BY <2>1, <2>4
    <2>7. ASSUME l = w PROVE after[l] = before[l] + d
      BY <1>6, <2>1, <2>2, <2>3, <2>4, <2>5, <2>7
    <2>8. ASSUME l # w PROVE after[l] = before[l]
      BY <2>2, <2>3, <2>4, <2>8
    <2> QED
      BY <2>6, <2>7, <2>8
  <1>17. OfTheKeyed'
    BY <1>0, <1>4, <1>8, <1>9, <1>12 DEF OfTheKeyed
  <1>18. HeldIsLogged'
    BY <1>0, <1>4, <1>8 DEF HeldIsLogged
  <1>19. WovenIsDelivered'
    <2>1. ASSUME NEW i \in 1..(m + d)
          PROVE  both[i][1] \in Lanes /\ both[i][2] \in 1..after[both[i][1]]
      <3>1. CASE i \in 1..m
        <4>1. woven[i][2] \in 1..before[woven[i][1]] /\ woven[i][1] \in Lanes
          BY <1>0, <1>14, <3>1 DEF WovenIsDelivered, OfTheKeyed, m
        <4>2. before[woven[i][1]] \in Nat
          BY <1>16, <4>1
        <4>3. \/ after[woven[i][1]] = before[woven[i][1]]
              \/ after[woven[i][1]] = before[woven[i][1]] + d
          BY <1>16, <4>1
        <4>4. woven[i][2] \in 1..after[woven[i][1]]
          BY SMTT(30), <1>9, <4>1, <4>2, <4>3
        <4> QED
          BY <1>9, <3>1, <4>1, <4>4
      <3>2. CASE ~ (i \in 1..m)
        <4>1. PICK j \in 1..d : i = m + j
          BY <1>9, <3>2
        <4>2. both[i] = <<w, before[w] + j>>
          BY <1>9, <1>11, <1>14, <4>1
        <4>3. before[w] \in Nat /\ after[w] = before[w] + d
          BY <1>16
        <4>4. before[w] + j \in 1..after[w]
          <5>1. \A b, c \in Nat : \A x \in 1..c : b + x \in 1..(b + c)
            OBVIOUS
          <5>2. d \in Nat
            BY <1>9
          <5> QED
            BY <4>3, <5>1, <5>2
        <4> QED
          BY <4>2, <4>4
      <3> QED
        BY <3>1, <3>2
    <2>2. ASSUME NEW l \in Lanes, NEW r \in 1..after[l]
          PROVE  \E i \in 1..(m + d) : both[i] = <<l, r>>
      <3>1. CASE r \in 1..before[l]
        <4>1. PICK i \in 1..m : woven[i] = <<l, r>>
          BY <1>0, <1>14, <3>1 DEF WovenIsDelivered, m
        <4> QED
          BY <1>9, <4>1
      <3>2. CASE ~ (r \in 1..before[l])
        <4>1. l = w /\ before[w] \in Nat /\ after[w] = before[w] + d
          BY <1>16, <3>2
        <4>2. PICK j \in 1..d : r = before[w] + j
          <5>1. r - before[w] \in 1..d /\ r = before[w] + (r - before[w])
            <6>1. \A b, c \in Nat : \A x \in 1..(b + c) : x \in 1..b \/ (x - b \in 1..c /\ x = b + (x - b))
              OBVIOUS
            <6>2. d \in Nat /\ r \in 1..(before[w] + d) /\ r \notin 1..before[w]
              BY <1>9, <3>2, <4>1
            <6> QED
              BY <4>1, <6>1, <6>2
          <5> QED
            BY <5>1
        <4>3. more[j] = <<l, r>>
          BY <1>11, <1>14, <4>1, <4>2
        <4> QED
          BY <1>9, <4>3
      <3> QED
        BY <3>1, <3>2
    <2>3. Len(woven') = m + d
      BY <1>9, <1>12
    <2>4. \A l \in Lanes : after[l] = keyed'[l] - (Len(ts'[l]) - cur'[l])
      BY <1>15
    <2>5. \A i \in 1..Len(woven') :
            woven'[i][2] \in 1..(keyed'[woven'[i][1]] - (Len(ts'[woven'[i][1]]) - cur'[woven'[i][1]]))
      BY <1>12, <2>1, <2>3, <2>4
    <2>6. \A l \in Lanes : \A r \in 1..(keyed'[l] - (Len(ts'[l]) - cur'[l])) :
            \E i \in 1..Len(woven') : woven'[i] = <<l, r>>
      BY <1>12, <2>2, <2>3, <2>4
    <2> QED
      BY <2>5, <2>6 DEF WovenIsDelivered, Delivered
  <1>20. InOrderOf(log', woven')
    BY <1>8, <1>10, <1>12
  <1> QED
    BY <1>17, <1>18, <1>19, <1>20 DEF LogInv

\* Compaction reclaims rows that were woven.
LEMMA LogCompact ==
    ASSUME LiveInv, LogInv, Compact, UNCHANGED <<lastStamp, log, woven>>
    PROVE  LogInv'
  <1>1. Inv /\ OfTheKeyed /\ HeldIsLogged /\ WovenIsDelivered /\ InOrderOf(log, woven)
    BY DEF LiveInv, LogInv
  <1>2. keyed' = keyed
    BY DEF Compact
  <1>3. OfTheKeyed'
    BY <1>1, <1>2 DEF OfTheKeyed
  <1>4. HeldIsLogged'
    <2> SUFFICES ASSUME NEW l \in Lanes, NEW i \in 1..Len(ts'[l])
                 PROVE  \E p \in 1..Len(log) : log[p] = <<ts'[l][i], l, buf'[l][i]>>
      BY DEF HeldIsLogged
    <2>1. PICK c : c = cur[l] - cur'[l]
      OBVIOUS
    <2>2. /\ c \in 0..cur[l] /\ Len(ts'[l]) = Len(ts[l]) - c
          /\ \A x \in 1..(Len(ts[l]) - c) : ts'[l][x] = ts[l][c + x] /\ buf'[l][x] = buf[l][c + x]
      BY <1>1, <2>1, CompactLane
    <2>3. Len(ts[l]) \in Nat /\ cur[l] \in Nat
      BY <1>1, LaneFacts
    <2>4. c + i \in 1..Len(ts[l]) /\ ts'[l][i] = ts[l][c + i] /\ buf'[l][i] = buf[l][c + i]
      BY <2>2, <2>3
    <2>5. PICK p \in 1..Len(log) : log[p] = <<ts[l][c + i], l, buf[l][c + i]>>
      BY <1>1, <2>4 DEF HeldIsLogged
    <2> QED
      BY <2>4, <2>5
  <1>5. WovenIsDelivered'
    <2>1. \A l \in Lanes : Delivered(l)' = Delivered(l)
      BY <1>1, DeliveredStands
    <2>2. \A i \in 1..Len(woven) : woven[i][1] \in Lanes
      BY <1>1 DEF OfTheKeyed
    <2> QED
      BY <1>1, <2>1, <2>2 DEF WovenIsDelivered
  <1>6. InOrderOf(log', woven')
    BY <1>1
  <1> QED
    BY <1>3, <1>4, <1>5, <1>6 DEF LogInv

\* Every channel operation keeps the log's invariant.
LEMMA LogSteps ==
    ASSUME LiveInv, LogInv, [LiveNext]_liveVars
    PROVE  LogInv'
  <1>1. CASE UNCHANGED liveVars
    BY <1>1, LogSteady DEF liveVars, consumer
  <1>2. CASE TakeSink \/ DropSink
    BY <1>2, LogSteady DEF TakeSink, DropSink, consumer
  <1>3. ASSUME NEW n \in Batches, Push(n)
        PROVE  LogInv'
    BY <1>3, LogSteady DEF Push, consumer
  <1>4. CASE CallNext
    <2>1. UNCHANGED <<lastStamp, log, woven>>
      BY <1>4 DEF CallNext
    <2>2. Compact \/ UNCHANGED vars
      BY <1>4 DEF CallNext
    <2> QED
      BY <2>1, <2>2, LogCompact, LogSteady
  <1>5. CASE FindDisconnected \/ Drained \/ End
    BY <1>5, LogSteady DEF FindDisconnected, Drained, End
  <1>6. CASE Return
    BY <1>6, LogReturn
  <1>7. ASSUME NEW reading \in Readings, Recv(reading) \/ Drain(reading)
        PROVE  LogInv'
    BY <1>7, LogTake DEF Recv, Drain
  <1> QED
    BY <1>1, <1>2, <1>3, <1>4, <1>5, <1>6, <1>7 DEF LiveNext, Consume, Pump

-----------------------------------------------------------------------------
(* What is given of it, and when the feed may say that nothing is left.    *)

\* A feed that found its channel closed has no message left and no sender
\* that could push one; when it said None, every row keyed was passed.
DrainedOnce ==
    /\ disconnected => sinks = 0 /\ ~ own /\ channel = <<>>
    /\ ended => disconnected /\ \A l \in Lanes : Delivered(l) = keyed[l]

\* What a step passes and does not hand over is a checkpoint right before
\* another one of the same step.
LEMMA NewestReturn ==
    ASSUME LiveInv, LogInv, GivesTheNewest, Return
    PROVE  GivesTheNewest'
  <1>1. PICK w \in Lanes : \E e \in 1..Len(ts[w]) : Step(w, e)
    BY DEF Return, Weave
  <1>2. PICK e \in 1..Len(ts[w]) : Step(w, e)
    BY <1>1
  <1>3. winner' = w /\ Inv'
    BY <1>2, StepInv DEF Step, LiveInv
  <1>4. run' \in Seq(Keys \X Nat) /\ Len(run') \in Nat
    BY <1>3 DEF Inv, TypeOK
  <1>5. PICK more : more = [i \in 1..Len(run') |-> <<w, run'[i][2]>>]
    OBVIOUS
  <1>6. /\ more \in Seq(Lanes \X Nat) /\ Len(more) = Len(run')
        /\ \A j \in 1..Len(run') : more[j] = <<w, run'[j][2]>>
    <2>1. \A j \in 1..Len(run') : <<w, run'[j][2]>> \in Lanes \X Nat
      <3> SUFFICES ASSUME NEW j \in 1..Len(run') PROVE run'[j][2] \in Nat
        OBVIOUS
      <3>1. run'[j] \in Keys \X Nat
        BY <1>4, ElementOfSeq
      <3> QED
        BY <3>1
    <2> QED
      BY <1>4, <1>5, <2>1
  <1>7. /\ woven' = woven \o more
        /\ given' = given \union {<<w, Handed'[i][2]>> : i \in DOMAIN Handed'}
    BY <1>3, <1>5 DEF Return
  <1> DEFINE m == Len(woven)
             d == Len(more)
  <1>8. /\ m \in Nat /\ d \in Nat /\ Len(woven') = m + d
        /\ \A p \in 1..m : woven'[p] = woven[p] /\ p \in 1..(m + d)
        /\ \A j \in 1..d : woven'[m + j] = more[j] /\ m + j \in 1..(m + d)
        /\ \A p \in 1..(m + d) : p \in 1..m \/ \E j \in 1..d : p = m + j
    <2>1. woven \in Seq(Lanes \X Nat)
      BY DEF LogInv, OfTheKeyed
    <2>5. more \in Seq(Lanes \X Nat)
      BY <1>6
    <2> DEFINE both == woven \o more
    <2>2. /\ both \in Seq(Lanes \X Nat) /\ m \in Nat /\ d \in Nat
          /\ \A p \in 1..m : both[p] = woven[p] /\ p \in 1..(m + d)
          /\ \A j \in 1..d : both[m + j] = more[j] /\ m + j \in 1..(m + d)
          /\ \A p \in 1..(m + d) : p \in 1..m \/ \E j \in 1..d : p = m + j
      BY <2>1, <2>5, BothAre
    <2>3. Len(both) = m + d
      BY <2>1, <2>5
    <2>4. woven' = both
      BY <1>7
    <2> HIDE DEF both, m, d
    <2> QED
      BY <2>2, <2>3, <2>4
  <1> HIDE DEF m, d
  <1>9. ASSUME NEW j \in 1..d, more[j] \notin given'
        PROVE  w = Anchors /\ j # d
    <2>1. j \in 1..Len(run') /\ d = Len(run') /\ more[j] = <<w, run'[j][2]>>
      BY <1>6 DEF d
    <2>2. ASSUME w # Anchors
          PROVE  FALSE
      <3>1. Handed' = run' /\ DOMAIN run' = 1..Len(run')
        BY <1>3, <1>4, <2>2 DEF Handed
      <3>2. more[j] \in given'
        BY <1>7, <2>1, <3>1
      <3> QED
        BY <1>9, <3>2
    <2>3. ASSUME w = Anchors, j = d
          PROVE  FALSE
      <3>1. Handed' = <<run'[d]>>
        BY <1>3, <2>1, <2>3 DEF Handed
      <3>2. 1 \in DOMAIN Handed' /\ Handed'[1] = run'[d]
        BY <3>1
      <3>3. more[j] \in given'
        BY <1>7, <2>1, <2>3, <3>2
      <3> QED
        BY <1>9, <3>3
    <2> QED
      BY <2>2, <2>3
  <1>10. ASSUME NEW i \in 1..(m + d), woven'[i] \notin given'
         PROVE  i < m + d /\ woven'[i][1] = Anchors /\ woven'[i + 1][1] = Anchors
    <2>1. CASE i \in 1..m
      <3>1. woven[i] \notin given
        BY <1>7, <1>8, <1>10, <2>1
      <3>2. i < m /\ woven[i][1] = Anchors /\ woven[i + 1][1] = Anchors
        BY <2>1, <3>1 DEF GivesTheNewest, m
      <3>3. i + 1 \in 1..m /\ i < m + d
        BY <1>8, <2>1, <3>2
      <3> QED
        BY <1>8, <2>1, <3>2, <3>3
    <2>2. CASE ~ (i \in 1..m)
      <3>1. PICK j \in 1..d : i = m + j
        BY <1>8, <2>2
      <3>2. woven'[i] = more[j]
        BY <1>8, <3>1
      <3>3. w = Anchors /\ j # d
        BY <1>9, <1>10, <3>2
      <3>4. j + 1 \in 1..d /\ i + 1 = m + (j + 1) /\ i < m + d
        BY <1>8, <3>1, <3>3
      <3>5. woven'[i + 1] = more[j + 1]
        BY <1>8, <3>4
      <3>6. more[j][1] = w /\ more[j + 1][1] = w
        BY <1>6, <3>4 DEF d
      <3> QED
        BY <3>2, <3>3, <3>4, <3>5, <3>6
    <2> QED
      BY <2>1, <2>2
  <1> QED
    BY <1>8, <1>10 DEF GivesTheNewest

\* No operation of the pumps or of Live::next undoes it: only a step gives, and
\* a closed channel stays closed.
LEMMA GivenSteps ==
    ASSUME LiveInv, LogInv, GivesTheNewest, DrainedOnce, [LiveNext]_liveVars
    PROVE  GivesTheNewest' /\ DrainedOnce'
  <1>1. CASE UNCHANGED liveVars
    BY <1>1 DEF liveVars, vars, wire, consumer, GivesTheNewest, DrainedOnce, Delivered
  <1>2. CASE TakeSink \/ DropSink
    <2>1. UNCHANGED <<vars, consumer, own, channel>>
      BY <1>2 DEF TakeSink, DropSink
    <2>2. disconnected => sinks' = sinks
      BY <1>2 DEF TakeSink, DropSink, DrainedOnce
    <2> QED
      BY <2>1, <2>2 DEF vars, consumer, GivesTheNewest, DrainedOnce, Delivered
  <1>3. ASSUME NEW n \in Batches, Push(n)
        PROVE  GivesTheNewest' /\ DrainedOnce'
    <2>1. UNCHANGED <<vars, consumer, sinks, own>> /\ sinks > 0
      BY <1>3 DEF Push
    <2> QED
      BY <2>1 DEF vars, consumer, GivesTheNewest, DrainedOnce, Delivered
  <1>4. CASE CallNext
    <2>1. UNCHANGED <<sinks, channel, disconnected, ended, woven, given>> /\ own' = FALSE
      BY <1>4 DEF CallNext
    <2>2. \A l \in Lanes : Delivered(l)' = Delivered(l) /\ keyed' = keyed
      <3>1. CASE Compact
        BY <3>1, DeliveredStands DEF LiveInv, Compact
      <3>2. CASE UNCHANGED vars
        BY <3>2 DEF vars, Delivered
      <3> QED
        BY <1>4, <3>1, <3>2 DEF CallNext
    <2> QED
      BY <2>1, <2>2 DEF GivesTheNewest, DrainedOnce
  <1>5. CASE FindDisconnected
    BY <1>5 DEF FindDisconnected, vars, wire, GivesTheNewest, DrainedOnce, Delivered
  <1>6. CASE Drained
    BY <1>6 DEF Drained, vars, wire, GivesTheNewest, DrainedOnce, Delivered
  <1>7. CASE End
    <2>1. UNCHANGED <<vars, wire, disconnected, woven, given>> /\ disconnected /\ IsEmpty
      BY <1>7 DEF End
    <2>2. ASSUME NEW l \in Lanes
          PROVE  Delivered(l) = keyed[l]
      <3>1. ~ (cur[l] < Len(ts[l]))
        BY <2>1 DEF IsEmpty, Pending
      <3>2. /\ cur[l] \in Nat /\ Len(ts[l]) \in Nat /\ keyed[l] \in Nat
            /\ cur[l] <= Len(ts[l])
        BY LaneFacts DEF LiveInv
      <3> QED
        BY <3>1, <3>2 DEF Delivered
    <2> QED
      BY <2>1, <2>2 DEF vars, wire, GivesTheNewest, DrainedOnce, Delivered
  <1>8. CASE Return
    <2>1. UNCHANGED <<sinks, own, channel, disconnected, ended>>
      BY <1>8 DEF Return, wire
    <2>2. ~ ended
      <3> SUFFICES ASSUME ended PROVE FALSE
        OBVIOUS
      <3>1. PICK w \in Lanes : \E e \in 1..Len(ts[w]) : Step(w, e)
        BY <1>8 DEF Return, Weave
      <3>2. cur[w] < Len(ts[w])
        BY <3>1 DEF Step, IsWinner, Pending
      <3>3. Delivered(w) = keyed[w]
        BY DEF DrainedOnce
      <3>4. cur[w] \in Nat /\ Len(ts[w]) \in Nat /\ keyed[w] \in Nat
        BY LaneFacts DEF LiveInv
      <3> QED
        BY <3>2, <3>3, <3>4 DEF Delivered
    <2> QED
      BY <1>8, <2>1, <2>2, NewestReturn DEF DrainedOnce
  <1>9. ASSUME NEW reading \in Readings, Recv(reading) \/ Drain(reading)
        PROVE  GivesTheNewest' /\ DrainedOnce'
    <2>1. /\ UNCHANGED <<sinks, own, disconnected, ended, woven, given>>
          /\ channel # <<>>
      BY <1>9 DEF Recv, Drain, Take
    <2> QED
      BY <2>1 DEF GivesTheNewest, DrainedOnce
  <1> QED
    BY <1>1, <1>2, <1>3, <1>4, <1>5, <1>6, <1>7, <1>8, <1>9 DEF LiveNext, Consume, Pump

\* Where every row keyed was passed, the whole log was woven: its entries are
\* of different rows, each of them woven, so they cannot outnumber these.
LEMMA WovenWhole ==
    ASSUME LogInv, \A l \in Lanes : Delivered(l) = keyed[l]
    PROVE  Len(woven) = Len(log)
  <1>1. /\ log \in Seq(Entry) /\ woven \in Seq(Lanes \X Nat) /\ InOrderOf(log, woven)
        /\ Len(log) \in Nat /\ Len(woven) \in Nat
    BY DEF LogInv, OfTheKeyed
  <1>2. Len(woven) <= Len(log)
    <2>1. CASE Len(woven) = 0
      BY <1>1, <2>1
    <2>2. CASE Len(woven) # 0
      <3>1. Len(woven) \in 1..Len(woven)
        BY <1>1, <2>2
      <3> QED
        BY <1>1, <3>1, WovenGives
    <2> QED
      BY <2>1, <2>2
  <1>3. ASSUME NEW p \in 1..Len(log)
        PROVE  \E i \in 1..Len(woven) : woven[i] = RowOf(log[p])
    <2>1. /\ log[p][2] \in Lanes /\ log[p][3] \in 1..keyed[log[p][2]]
          /\ RowOf(log[p]) = <<log[p][2], log[p][3]>>
      BY LogFacts DEF LogInv
    <2>2. log[p][3] \in 1..Delivered(log[p][2])
      BY <2>1
    <2> QED
      BY <2>1, <2>2 DEF LogInv, WovenIsDelivered
  <1>4. ASSUME Len(woven) < Len(log)
        PROVE  FALSE
    <2> DEFINE F == [p \in 1..Len(log) |-> CHOOSE i \in 1..Len(woven) : woven[i] = RowOf(log[p])]
    <2>1. \A p \in 1..Len(log) : F[p] \in 1..Len(woven) /\ woven[F[p]] = RowOf(log[p])
      BY <1>3
    <2>2. F \in [1..Len(log) -> 1..Len(woven)]
      BY <2>1
    <2> HIDE DEF F
    <2>3. PICK p, q \in 1..Len(log) : p # q /\ F[p] = F[q]
      BY <1>1, <1>4, <2>2, Crowded
    <2>4. RowOf(log[p]) = RowOf(log[q])
      BY <2>1, <2>3
    <2>5. p \in DOMAIN log /\ q \in DOMAIN log
      BY <1>1
    <2> QED
      BY <1>1, <2>3, <2>4, <2>5 DEF InOrderOf
  <1> QED
    BY <1>1, <1>2, <1>4

\* Whatever the clock reads, however many messages there are and wherever the
\* weave stands when they come: what the live feed weaves is the beginning of
\* what it took off the wire, rows of one message in any order among
\* themselves, and no row twice; it hands over all of it but a checkpoint right
\* before a newer one; and it says None only when the channel is closed and
\* empty and the whole log was woven.  A session may be recorded by what it
\* gives.
THEOREM LiveGivesTheLog == LiveSpec => []GivesTheLog
  <1>1. LogInv => WeavesTheLog
    BY WovenIsTheLog DEF LogInv, OfTheKeyed
  <1>2. LogInv /\ DrainedOnce => EndsDrained
    BY WovenWhole DEF DrainedOnce, EndsDrained
  <1>3. LiveInit => LiveInv /\ LogInv /\ GivesTheNewest /\ DrainedOnce
    <2>1. LiveInit => GivesTheNewest /\ DrainedOnce
      BY DEF LiveInit, GivesTheNewest, DrainedOnce
    <2> QED
      BY <2>1, LiveInitInv, LogInitially
  <1>4. LiveInv /\ LogInv /\ GivesTheNewest /\ DrainedOnce /\ [LiveNext]_liveVars
          => LiveInv' /\ LogInv' /\ GivesTheNewest' /\ DrainedOnce'
    BY LiveNextInv, LogSteps, GivenSteps
  <1>5. LogInv /\ GivesTheNewest /\ DrainedOnce => GivesTheLog
    BY <1>1, <1>2 DEF GivesTheLog
  <1> QED
    BY <1>3, <1>4, <1>5, PTL DEF LiveSpec
=============================================================================
