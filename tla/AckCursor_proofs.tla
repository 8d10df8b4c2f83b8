-------------------------- MODULE AckCursor_proofs --------------------------
(***************************************************************************)
(* The run list of cursor.rs, on its two-slot checkpoint file, implements  *)
(* the set of acknowledged offsets, for every size of the offset space,    *)
(* run cap and slot size and any number of runs, writes and crashes.       *)
(* Facts about all runs of a list follow from facts about neighbours by a  *)
(* least counterexample (LeastNatural).                                    *)
(***************************************************************************)
EXTENDS AckCursor, WellFoundedInduction, SequenceTheorems, FiniteSetTheorems, TLAPS

\* The snapshots that checkpoints really hold.
Sound == {p \in Snapshots : WellFormed(p.committed, p.ahead)}

FileProofs ==
  INSTANCE SlotFile_proofs WITH Payloads <- Sound, Fresh <- NoSnapshot

RunLists == Seq(Offsets \X Offsets)

-----------------------------------------------------------------------------
(* Lists of runs.                                                          *)

\* What indexing a list of runs yields.
LEMMA RunsTyped ==
  ASSUME NEW s \in RunLists
  PROVE  /\ Len(s) \in Nat /\ DOMAIN s = 1 .. Len(s)
         /\ \A i \in 1 .. Len(s) : /\ s[i] \in Offsets \X Offsets
                                   /\ s[i][1] \in Nat /\ s[i][2] \in Nat
                                   /\ s[i][1] \in Offsets /\ s[i][2] \in Offsets
                                   /\ s[i][2] <= MaxOffset
BY MaxOffsetAssumption DEF RunLists, Offsets

\* A list of runs, from its elements.
LEMMA RunsFromElements ==
  ASSUME NEW n \in Nat, NEW t, DOMAIN t = 1 .. n,
         t = [i \in 1 .. n |-> t[i]],
         \A i \in 1 .. n : t[i] \in Offsets \X Offsets
  PROVE  t \in RunLists /\ Len(t) = n
BY DEF RunLists

\* The shape while the watermark has not yet moved over the first run: that run
\* may begin at the watermark.
Loose(low, ranges) ==
  \A i \in 1 .. Len(ranges) :
    /\ ranges[i][1] < ranges[i][2]
    /\ i = 1 => ranges[i][1] >= low
    /\ i > 1 => ranges[i][1] > ranges[i - 1][2]

\* Every non-empty set of naturals has a least element (< is well-founded).
LEMMA LeastNatural ==
  ASSUME NEW T \in SUBSET Nat, T # {}
  PROVE  \E x \in T : \A y \in T : x <= y
<1>1. OpToRel(<, Nat) = {ss \in Nat \X Nat : ss[1] < ss[2]}
  BY DEF OpToRel
<1>2. PICK x \in T : \A y \in T : ~ (<<y, x>> \in OpToRel(<, Nat))
  BY NatLessThanWellFounded, WFMin, Zenon
<1>3. \A y \in T : y \in Nat /\ x \in Nat /\ ~ (y < x)
  BY <1>1, <1>2
<1> QED BY <1>3

\* The runs of a list are apart, not only neighbouring ones.
LEMMA Apart ==
  ASSUME NEW s \in RunLists, NEW low, Loose(low, s)
  PROVE  \A i, j \in 1 .. Len(s) : i < j => s[i][2] < s[j][1]
<1> SUFFICES ASSUME NEW i \in 1 .. Len(s), NEW k \in 1 .. Len(s),
                    i < k, ~ (s[i][2] < s[k][1])
             PROVE  FALSE
  OBVIOUS
<1> DEFINE T == {j \in 1 .. Len(s) : i < j /\ ~ (s[i][2] < s[j][1])}
<1>0. /\ Len(s) \in Nat
      /\ \A j \in 1 .. Len(s) : s[j][1] \in Nat /\ s[j][2] \in Nat
  BY RunsTyped
<1>1. T \in SUBSET Nat /\ T # {}
  BY <1>0
<1>2. PICK j \in T : \A m \in T : j <= m
  <2> HIDE DEF T
  <2> QED BY <1>1, LeastNatural
<1>3. /\ j \in 1 .. Len(s) /\ j - 1 \in 1 .. Len(s) /\ i <= j - 1 /\ j - 1 \notin T
      /\ ~ (s[i][2] < s[j][1])
  BY <1>0, <1>2
<1>4. s[j][1] > s[j - 1][2] /\ s[j - 1][1] < s[j - 1][2]
  BY <1>0, <1>3 DEF Loose
<1>5. CASE i = j - 1
  BY <1>0, <1>3, <1>4, <1>5
<1>6. CASE i < j - 1
  <2>1. s[i][2] < s[j - 1][1]
    BY <1>3, <1>6
  <2> QED BY <1>0, <1>3, <1>4, <2>1, SMTT(30)
<1> QED BY <1>0, <1>3, <1>5, <1>6

\* Every run of a list begins at or above the watermark.
LEMMA Above ==
  ASSUME NEW s \in RunLists, NEW low \in Nat, Loose(low, s)
  PROVE  \A i \in 1 .. Len(s) : s[i][1] >= low /\ s[i][2] > low /\ s[i][1] < s[i][2]
<1> SUFFICES ASSUME NEW i \in 1 .. Len(s)
             PROVE  s[i][1] >= low /\ s[i][2] > low /\ s[i][1] < s[i][2]
  OBVIOUS
<1>0. /\ Len(s) \in Nat /\ 1 \in 1 .. Len(s)
      /\ \A j \in 1 .. Len(s) : s[j][1] \in Nat /\ s[j][2] \in Nat
  BY RunsTyped
<1>1. s[1][1] >= low /\ s[1][1] < s[1][2] /\ s[i][1] < s[i][2]
  BY <1>0 DEF Loose
<1>2. CASE i = 1
  BY <1>0, <1>1, <1>2
<1>3. CASE 1 < i
  BY <1>0, <1>1, <1>3, Apart
<1> QED BY <1>0, <1>2, <1>3

\* The shape is the loose one with the first run off the watermark.
LEMMA WellFormedIs ==
  ASSUME NEW s \in RunLists, NEW low \in Nat
  PROVE  WellFormed(low, s) <=> Loose(low, s) /\ (Len(s) >= 1 => s[1][1] # low)
<1>0. /\ Len(s) \in Nat
      /\ \A j \in 1 .. Len(s) : s[j][1] \in Nat /\ s[j][2] \in Nat
  BY RunsTyped
<1> QED BY <1>0 DEF WellFormed, Loose

-----------------------------------------------------------------------------
(* The set a list stands for.                                              *)

InRuns(s, o) == \E i \in 1 .. Len(s) : s[i][1] <= o /\ o < s[i][2]

SetOf(low, s) == {o \in Offsets : o < low \/ InRuns(s, o)}

\* Both cursors speak of the same offsets.
LEMMA SameOffsets == Abs!Offsets = Offsets
BY DEF Abs!Offsets, Offsets

\* The watermark of a well-formed list is the first gap of its set, and the
\* exhausted offset is never in it.
LEMMA WatermarkIsGap ==
  ASSUME NEW s \in RunLists, NEW low \in Offsets, WellFormed(low, s)
  PROVE  /\ SetOf(low, s) \subseteq Abs!Ackable
         /\ Abs!FirstGap(SetOf(low, s)) = low
         /\ low \notin SetOf(low, s)
         /\ Abs!Below(low) \subseteq SetOf(low, s)
<1> DEFINE S == SetOf(low, s)
<1>0. low \in Nat /\ low <= MaxOffset /\ MaxOffset \in Nat
  BY MaxOffsetAssumption DEF Offsets
<1>1. \A i \in 1 .. Len(s) : /\ s[i][1] \in Nat /\ s[i][2] \in Nat /\ s[i][2] <= MaxOffset
                             /\ s[i][1] > low
  <2>1. Loose(low, s) /\ (Len(s) >= 1 => s[1][1] # low) /\ Len(s) \in Nat
    BY <1>0, WellFormedIs, RunsTyped
  <2> SUFFICES ASSUME NEW i \in 1 .. Len(s) PROVE s[i][1] > low
    BY RunsTyped
  <2>2. s[i][1] >= low /\ s[i][1] \in Nat /\ s[1][1] \in Nat /\ s[1][2] \in Nat
    BY <1>0, <2>1, Above, RunsTyped
  <2>3. CASE i = 1
    BY <1>0, <2>1, <2>2, <2>3
  <2>4. CASE 1 < i
    <3>1. 1 \in 1 .. Len(s) /\ s[1][2] < s[i][1] /\ s[1][2] > low
      BY <1>0, <2>1, <2>4, Above, Apart
    <3> QED BY <1>0, <2>2, <3>1
  <2> QED BY <2>1, <2>3, <2>4
<1>2. S \subseteq Abs!Ackable
  BY <1>0, <1>1 DEF SetOf, InRuns, Abs!Ackable, Offsets
<1>3. low \notin S
  BY <1>0, <1>1 DEF SetOf, InRuns
<1>4. Abs!Below(low) \subseteq S
  BY SameOffsets DEF SetOf, Abs!Below
<1>5. \A n \in Offsets : n \notin S /\ Abs!Below(n) \subseteq S => n = low
  <2> SUFFICES ASSUME NEW n \in Offsets, n \notin S, Abs!Below(n) \subseteq S
               PROVE  n = low
    OBVIOUS
  <2>1. n \in Nat
    BY <1>0 DEF Offsets
  <2>2. ~ (n < low)
    BY <1>4, SameOffsets DEF Abs!Below
  <2>3. ~ (low < n)
    BY <1>3, SameOffsets DEF Abs!Below
  <2> QED BY <1>0, <2>1, <2>2, <2>3
<1>6. Abs!FirstGap(S) = low
  <2> HIDE DEF S
  <2> QED BY <1>3, <1>4, <1>5, SameOffsets DEF Abs!FirstGap
<1> QED BY <1>2, <1>3, <1>4, <1>6

-----------------------------------------------------------------------------
(* The operators of the list.                                              *)

\* Tail drops the first run.
LEMMA TailOfRuns ==
  ASSUME NEW s \in RunLists, Len(s) >= 1
  PROVE  /\ Tail(s) \in RunLists /\ Len(Tail(s)) = Len(s) - 1
         /\ \A i \in 1 .. Len(s) - 1 : Tail(s)[i] = s[i + 1]
<1>1. s \in Seq(Offsets \X Offsets) /\ s # <<>>
  BY DEF RunLists
<1> QED BY <1>1, HeadTailProperties DEF RunLists

\* `advance` moves the watermark over a first run that touches it, which leaves
\* a well-formed list of the same set.
LEMMA AdvanceKeeps ==
  ASSUME NEW s \in RunLists, NEW low \in Offsets, Loose(low, s),
         NEW c, c = Advance(low, s)
  PROVE  /\ c.committed \in Offsets /\ c.ahead \in RunLists
         /\ WellFormed(c.committed, c.ahead)
         /\ SetOf(c.committed, c.ahead) = SetOf(low, s)
         /\ Len(c.ahead) <= Len(s)
         /\ s # <<>> /\ s[1][1] = low => Len(c.ahead) = Len(s) - 1
<1>0. /\ low \in Nat /\ Len(s) \in Nat
      /\ \A j \in 1 .. Len(s) : /\ s[j][1] \in Nat /\ s[j][2] \in Nat
                                /\ s[j][2] \in Offsets
  BY RunsTyped, MaxOffsetAssumption DEF Offsets
<1>1. CASE s # <<>> /\ s[1][1] = low
  <2>1. Len(s) >= 1 /\ c.committed = s[1][2] /\ c.ahead = Tail(s)
    <3>1. Len(s) # 0
      BY <1>1 DEF RunLists
    <3> QED BY <1>0, <1>1, <3>1 DEF Advance
  <2>2. /\ Tail(s) \in RunLists /\ Len(Tail(s)) = Len(s) - 1
        /\ \A i \in 1 .. Len(s) - 1 : Tail(s)[i] = s[i + 1]
    BY <2>1, TailOfRuns
  <2>3. WellFormed(s[1][2], Tail(s))
    <3> SUFFICES ASSUME NEW i \in 1 .. Len(s) - 1
                 PROVE  /\ s[i + 1][1] < s[i + 1][2]
                        /\ i = 1 => s[i + 1][1] > s[1][2]
                        /\ i # 1 => s[i + 1][1] > Tail(s)[i - 1][2]
      BY <1>0, <2>2 DEF WellFormed
    <3>1. i + 1 \in 1 .. Len(s) /\ i + 1 > 1 /\ (i + 1) - 1 = i
      BY <1>0
    <3>2. s[i + 1][1] < s[i + 1][2] /\ s[i + 1][1] > s[i][2]
      BY <3>1 DEF Loose
    <3>3. CASE i = 1
      BY <3>2, <3>3
    <3>4. CASE i # 1
      <4>1. i - 1 \in 1 .. Len(s) - 1 /\ (i - 1) + 1 = i
        BY <1>0, <3>4
      <4>2. Tail(s)[i - 1] = s[(i - 1) + 1]
        BY <2>2, <4>1
      <4> QED BY <3>2, <3>4, <4>1, <4>2
    <3> QED BY <3>2, <3>3, <3>4
  <2>4. ASSUME NEW o \in Offsets
        PROVE  o < s[1][2] \/ InRuns(Tail(s), o) <=> o < low \/ InRuns(s, o)
    <3>0. o \in Nat /\ 1 \in 1 .. Len(s) /\ s[1][1] < s[1][2]
      BY <1>0, <2>1, MaxOffsetAssumption DEF Offsets, Loose
    <3>1. ASSUME o < s[1][2] PROVE o < low \/ InRuns(s, o)
      BY <1>0, <1>1, <3>0, <3>1 DEF InRuns
    <3>2. ASSUME InRuns(Tail(s), o) PROVE InRuns(s, o)
      <4>1. PICK i \in 1 .. Len(s) - 1 : Tail(s)[i][1] <= o /\ o < Tail(s)[i][2]
        BY <2>2, <3>2 DEF InRuns
      <4>2. i + 1 \in 1 .. Len(s) /\ s[i + 1][1] <= o /\ o < s[i + 1][2]
        BY <1>0, <2>2, <4>1
      <4> QED BY <4>2 DEF InRuns
    <3>3. ASSUME o < low PROVE o < s[1][2]
      BY <1>0, <1>1, <3>0, <3>3
    <3>4. ASSUME InRuns(s, o) PROVE o < s[1][2] \/ InRuns(Tail(s), o)
      <4>1. PICK i \in 1 .. Len(s) : s[i][1] <= o /\ o < s[i][2]
        BY <3>4 DEF InRuns
      <4>2. CASE i = 1
        BY <4>1, <4>2
      <4>3. CASE i # 1
        <5>1. i - 1 \in 1 .. Len(s) - 1 /\ (i - 1) + 1 = i
          BY <1>0, <4>3
        <5>2. Tail(s)[i - 1] = s[(i - 1) + 1]
          BY <2>2, <5>1
        <5> QED BY <2>2, <4>1, <5>1, <5>2 DEF InRuns
      <4> QED BY <4>2, <4>3
    <3> QED BY <3>1, <3>2, <3>3, <3>4
  <2>5. SetOf(s[1][2], Tail(s)) = SetOf(low, s)
    BY <2>4 DEF SetOf
  <2>6. s[1][2] \in Offsets
    BY <1>0, <2>1
  <2> QED BY <1>0, <2>1, <2>2, <2>3, <2>5, <2>6
<1>2. CASE ~ (s # <<>> /\ s[1][1] = low)
  <2>1. c.committed = low /\ c.ahead = s
    BY <1>2 DEF Advance
  <2>2. Len(s) >= 1 => s[1][1] # low
    BY <1>2 DEF RunLists
  <2>3. WellFormed(low, s)
    BY <1>0, <2>2, WellFormedIs
  <2> QED BY <1>0, <1>2, <2>1, <2>3
<1> QED BY <1>1, <1>2

\* The loop of `commit_up_to` absorbs at most one run, since no two touch.
LEMMA AbsorbIsAdvance ==
  ASSUME NEW s \in RunLists, NEW low \in Offsets, Loose(low, s)
  PROVE  AbsorbAll(low, s) = Advance(low, s)
<1> DEFINE Touches(i) == s[i][1] = (IF i = 1 THEN low ELSE s[i - 1][2])
           touching == {k \in 0 .. Len(s) : \A i \in 1 .. k : Touches(i)}
           n == CHOOSE k \in touching : \A j \in touching : j <= k
<1>0. /\ low \in Nat /\ Len(s) \in Nat /\ s \in Seq(Offsets \X Offsets)
      /\ \A j \in 1 .. Len(s) : s[j][1] \in Nat /\ s[j][2] \in Nat
  BY RunsTyped, MaxOffsetAssumption DEF Offsets, RunLists
<1>1. AbsorbAll(low, s) = [committed |-> IF n = 0 THEN low ELSE s[n][2],
                           ahead |-> SubSeq(s, n + 1, Len(s))]
  BY DEF AbsorbAll
<1>2. \A i \in 1 .. Len(s) : i > 1 => ~ Touches(i)
  <2> SUFFICES ASSUME NEW i \in 1 .. Len(s), i > 1 PROVE ~ Touches(i)
    OBVIOUS
  <2>1. i - 1 \in 1 .. Len(s) /\ s[i][1] > s[i - 1][2] /\ i # 1
    BY <1>0 DEF Loose
  <2> QED BY <1>0, <2>1
<1>3. CASE s # <<>> /\ s[1][1] = low
  <2>1. Len(s) >= 1
    BY <1>0, <1>3
  <2>2. touching = {0, 1}
    <3>1. 0 \in touching /\ 1 \in touching
      BY <1>0, <1>3, <2>1
    <3>2. \A k \in touching : k = 0 \/ k = 1
      <4> SUFFICES ASSUME NEW k \in 0 .. Len(s), k # 0, k # 1,
                          \A i \in 1 .. k : Touches(i)
                   PROVE  FALSE
        OBVIOUS
      <4>1. k \in 1 .. Len(s) /\ k > 1 /\ k \in 1 .. k
        BY <1>0
      <4> HIDE DEF Touches
      <4> QED BY <1>2, <4>1
    <3> HIDE DEF touching
    <3> QED BY <3>1, <3>2
  <2>3. n = 1
    <3> HIDE DEF touching
    <3> QED BY <2>2
  <2>4. SubSeq(s, 2, Len(s)) = Tail(s)
    BY <1>0, <1>3, TailIsSubSeq
  <2> HIDE DEF n
  <2>5. n # 0 /\ n + 1 = 2
    BY <2>3
  <2>6. /\ AbsorbAll(low, s) = [committed |-> s[n][2], ahead |-> SubSeq(s, n + 1, Len(s))]
        /\ SubSeq(s, n + 1, Len(s)) = Tail(s) /\ s[n][2] = s[1][2]
    BY <1>1, <2>3, <2>4, <2>5
  <2> QED BY <1>3, <2>6 DEF Advance
<1>4. CASE ~ (s # <<>> /\ s[1][1] = low)
  <2>1. Len(s) >= 1 => ~ Touches(1)
    BY <1>0, <1>4
  <2>2. touching = {0}
    <3>1. 0 \in touching
      BY <1>0
    <3>2. \A k \in touching : k = 0
      <4> SUFFICES ASSUME NEW k \in 0 .. Len(s), k # 0,
                          \A i \in 1 .. k : Touches(i)
                   PROVE  FALSE
        OBVIOUS
      <4>1. Len(s) >= 1 /\ 1 \in 1 .. k
        BY <1>0
      <4> HIDE DEF Touches
      <4> QED BY <2>1, <4>1
    <3> HIDE DEF touching
    <3> QED BY <3>1, <3>2
  <2>3. n = 0
    <3> HIDE DEF touching
    <3> QED BY <2>2
  <2>4. SubSeq(s, 1, Len(s)) = s
    BY <1>0, SubSeqFull
  <2> HIDE DEF n
  <2> QED BY <1>1, <1>4, <2>3, <2>4 DEF Advance
<1> QED BY <1>3, <1>4

\* The binary search finds where an offset belongs.
LEMMA PartitionPointIs ==
  ASSUME NEW low, ahead \in RunLists, Loose(low, ahead), NEW o \in Nat,
         NEW p, p = PartitionPoint(o)
  PROVE  /\ p \in 0 .. Len(ahead)
         /\ \A j \in 1 .. p : ahead[j][1] <= o
         /\ \A j \in p + 1 .. Len(ahead) : ahead[j][1] > o
<1> DEFINE Splits(i) == /\ \A j \in 1 .. i : ahead[j][1] <= o
                        /\ \A j \in i + 1 .. Len(ahead) : ahead[j][1] > o
           T == {j \in 1 .. Len(ahead) : ahead[j][1] > o}
<1>0. /\ Len(ahead) \in Nat
      /\ \A j \in 1 .. Len(ahead) : ahead[j][1] \in Nat /\ ahead[j][2] \in Nat
  BY RunsTyped
<1>1. \E i \in 0 .. Len(ahead) : Splits(i)
  <2>1. CASE T = {}
    <3>1. Len(ahead) \in 0 .. Len(ahead) /\ Splits(Len(ahead))
      BY <1>0, <2>1
    <3> HIDE DEF Splits
    <3> QED BY <3>1
  <2>2. CASE T # {}
    <3>1. T \in SUBSET Nat
      BY <1>0
    <3>2. PICK k \in T : \A m \in T : k <= m
      <4> HIDE DEF T
      <4> QED BY <2>2, <3>1, LeastNatural
    <3>3. k - 1 \in 0 .. Len(ahead) /\ k \in 1 .. Len(ahead) /\ ahead[k][1] > o
      BY <1>0
    <3>4. \A j \in 1 .. k - 1 : ahead[j][1] <= o
      BY <1>0, <3>2, <3>3
    <3>5. ASSUME NEW j \in (k - 1) + 1 .. Len(ahead) PROVE ahead[j][1] > o
      <4>1. CASE j = k
        BY <3>3, <4>1
      <4>2. CASE k < j
        <5>1. j \in 1 .. Len(ahead)
          BY <1>0, <3>3, <4>2
        <5>2. ahead[k][2] < ahead[j][1]
          BY <3>3, <4>2, <5>1, Apart
        <5>3. ahead[k][1] < ahead[k][2]
          BY <3>3 DEF Loose
        <5> QED BY <1>0, <3>3, <5>1, <5>2, <5>3
      <4> QED BY <1>0, <3>3, <4>1, <4>2
    <3>6. Splits(k - 1)
      BY <3>4, <3>5
    <3> HIDE DEF Splits
    <3> QED BY <3>3, <3>6
  <2> QED BY <2>1, <2>2
<1>2. p \in 0 .. Len(ahead) /\ Splits(p)
  <2>1. p = CHOOSE i \in 0 .. Len(ahead) : Splits(i)
    BY DEF PartitionPoint
  <2> HIDE DEF Splits
  <2> QED BY <1>1, <2>1
<1> QED BY <1>2

\* Element by element, what InsertAt and RemoveAt make of a list.
LEMMA InsertAtIs ==
  ASSUME NEW s \in RunLists, NEW k \in 1 .. Len(s) + 1, NEW e \in Offsets \X Offsets,
         NEW t, t = InsertAt(s, k, e)
  PROVE  /\ t \in RunLists /\ Len(t) = Len(s) + 1
         /\ \A j \in 1 .. Len(t) :
              t[j] = IF j < k THEN s[j] ELSE IF j = k THEN e ELSE s[j - 1]
<1> DEFINE a == SubSeq(s, 1, k - 1)
           b == SubSeq(s, k, Len(s))
           ae == a \o <<e>>
<1>0. Len(s) \in Nat /\ s \in Seq(Offsets \X Offsets) /\ <<e>> \in Seq(Offsets \X Offsets)
  BY RunsTyped DEF RunLists
<1>1. /\ a \in Seq(Offsets \X Offsets) /\ Len(a) = k - 1
      /\ \A j \in 1 .. k - 1 : a[j] = s[j]
  BY <1>0, SubSeqProperties
<1>2. /\ b \in Seq(Offsets \X Offsets) /\ Len(b) = Len(s) - k + 1
      /\ \A j \in 1 .. Len(s) - k + 1 : b[j] = s[k + j - 1]
  BY <1>0, SubSeqProperties
<1>3. t = ae \o b
  BY DEF InsertAt
<1> HIDE DEF a, b
<1>4. /\ ae \in Seq(Offsets \X Offsets) /\ Len(ae) = k
      /\ \A j \in 1 .. k : ae[j] = IF j < k THEN s[j] ELSE e
  BY <1>0, <1>1, ConcatProperties
<1> HIDE DEF ae
<1>5. /\ t \in RunLists /\ Len(t) = Len(s) + 1
      /\ \A j \in 1 .. Len(t) : t[j] = IF j <= k THEN ae[j] ELSE b[j - k]
  <2>1. /\ t \in Seq(Offsets \X Offsets) /\ Len(t) = Len(ae) + Len(b)
        /\ \A j \in 1 .. Len(ae) + Len(b) :
             t[j] = IF j <= Len(ae) THEN ae[j] ELSE b[j - Len(ae)]
    <3>1. ae \in Seq(Offsets \X Offsets) /\ b \in Seq(Offsets \X Offsets)
      BY <1>2, <1>4
    <3>2. /\ (ae \o b) \in Seq(Offsets \X Offsets) /\ Len(ae \o b) = Len(ae) + Len(b)
          /\ \A j \in 1 .. Len(ae) + Len(b) :
               (ae \o b)[j] = IF j <= Len(ae) THEN ae[j] ELSE b[j - Len(ae)]
      BY <3>1, ConcatProperties
    <3> QED BY <1>3, <3>2, Zenon
  <2> QED BY <1>0, <1>2, <1>4, <2>1 DEF RunLists
<1>6. ASSUME NEW j \in 1 .. Len(t), j > k PROVE t[j] = s[j - 1]
  <2>1. j - k \in 1 .. Len(s) - k + 1 /\ k + (j - k) - 1 = j - 1
    BY <1>0, <1>5, <1>6
  <2> QED BY <1>2, <1>5, <1>6, <2>1
<1> QED BY <1>0, <1>4, <1>5, <1>6

LEMMA RemoveAtIs ==
  ASSUME NEW s \in RunLists, NEW k \in 1 .. Len(s), NEW t, t = RemoveAt(s, k)
  PROVE  /\ t \in RunLists /\ Len(t) = Len(s) - 1
         /\ \A j \in 1 .. Len(t) : t[j] = IF j < k THEN s[j] ELSE s[j + 1]
<1> DEFINE a == SubSeq(s, 1, k - 1)
           b == SubSeq(s, k + 1, Len(s))
<1>0. Len(s) \in Nat /\ s \in Seq(Offsets \X Offsets)
  BY RunsTyped DEF RunLists
<1>1. /\ a \in Seq(Offsets \X Offsets) /\ Len(a) = k - 1
      /\ \A j \in 1 .. k - 1 : a[j] = s[j]
  BY <1>0, SubSeqProperties
<1>2. /\ b \in Seq(Offsets \X Offsets) /\ Len(b) = Len(s) - k
      /\ \A j \in 1 .. Len(s) - k : b[j] = s[k + j]
  <2>1. /\ b \in Seq(Offsets \X Offsets) /\ Len(b) = Len(s) - k
        /\ \A j \in 1 .. Len(s) - (k + 1) + 1 : b[j] = s[(k + 1) + j - 1]
    BY <1>0, SubSeqProperties
  <2> QED BY <1>0, <2>1
<1>3. t = a \o b
  BY DEF RemoveAt
<1> HIDE DEF a, b
<1>5. /\ t \in RunLists /\ Len(t) = Len(s) - 1
      /\ \A j \in 1 .. Len(t) : t[j] = IF j <= k - 1 THEN a[j] ELSE b[j - (k - 1)]
  BY <1>0, <1>1, <1>2, <1>3, ConcatProperties DEF RunLists
<1>6. ASSUME NEW j \in 1 .. Len(t), j >= k PROVE t[j] = s[j + 1]
  <2>1. j - (k - 1) \in 1 .. Len(s) - k /\ k + (j - (k - 1)) = j + 1
    BY <1>0, <1>5, <1>6
  <2> QED BY <1>2, <1>5, <1>6, <2>1
<1> QED BY <1>0, <1>1, <1>5, <1>6

\* What a step of the cursor may assume of its list.
Listed ==
  ahead \in RunLists /\ committed \in Offsets /\ WellFormed(committed, ahead)

\* Where an unacknowledged offset falls between the runs.
LEMMA Around ==
  ASSUME Listed, NEW o \in Offsets, ~ IsAcked(o), NEW p, p = PartitionPoint(o)
  PROVE  /\ p \in 0 .. Len(ahead) /\ o \in Nat /\ committed \in Nat /\ o >= committed
         /\ Len(ahead) \in Nat /\ Loose(committed, ahead)
         /\ \A j \in 1 .. Len(ahead) :
              /\ ahead[j] \in Offsets \X Offsets
              /\ ahead[j][1] \in Nat /\ ahead[j][2] \in Nat /\ ahead[j][1] < ahead[j][2]
              /\ j <= p => ahead[j][2] <= o
              /\ j > p => ahead[j][1] > o
         /\ \A i, j \in 1 .. Len(ahead) : i < j => ahead[i][2] < ahead[j][1]
         /\ MergesLeft(o) <=> p > 0 /\ ahead[p][2] = o
         /\ MergesRight(o) <=> p < Len(ahead) /\ ahead[p + 1][1] = o + 1
<1>0. o \in Nat /\ committed \in Nat
  BY MaxOffsetAssumption DEF Listed, Offsets
<1>1. /\ Loose(committed, ahead) /\ Len(ahead) \in Nat
      /\ \A j \in 1 .. Len(ahead) : /\ ahead[j] \in Offsets \X Offsets
                                    /\ ahead[j][1] \in Nat /\ ahead[j][2] \in Nat
                                    /\ ahead[j][1] < ahead[j][2]
  <2>1. Loose(committed, ahead)
    BY <1>0, WellFormedIs DEF Listed
  <2> QED BY <1>0, <2>1, RunsTyped, Above DEF Listed
<1>2. \A i, j \in 1 .. Len(ahead) : i < j => ahead[i][2] < ahead[j][1]
  BY <1>1, Apart DEF Listed
<1>3. /\ p \in 0 .. Len(ahead)
      /\ \A j \in 1 .. p : ahead[j][1] <= o
      /\ \A j \in p + 1 .. Len(ahead) : ahead[j][1] > o
  BY <1>0, <1>1, PartitionPointIs DEF Listed
<1>4. o >= committed /\ \A j \in 1 .. Len(ahead) : ~ (ahead[j][1] <= o /\ o < ahead[j][2])
  BY <1>0 DEF IsAcked, ContainsAhead
<1>5. ASSUME NEW j \in 1 .. Len(ahead)
      PROVE  (j <= p => ahead[j][2] <= o) /\ (j > p => ahead[j][1] > o)
  BY <1>0, <1>1, <1>3, <1>4
<1> QED BY <1>0, <1>1, <1>2, <1>3, <1>4, <1>5 DEF MergesLeft, MergesRight

\* `insert` in its four cases: the list gains exactly the offset, and only an
\* offset that touches no run lengthens it.
Inserted(o, t) ==
  /\ t \in RunLists /\ Loose(committed, t)
  /\ \A x \in Offsets : InRuns(t, x) <=> x = o \/ InRuns(ahead, x)
  /\ MergesLeft(o) \/ MergesRight(o) => Len(t) <= Len(ahead)
  /\ Len(t) <= Len(ahead) + 1
  /\ o = committed => t # <<>> /\ t[1][1] = committed

LEMMA InsertAlone ==
  ASSUME Listed, NEW o \in Offsets, ~ IsAcked(o), o # MaxOffset,
         ~ MergesLeft(o), ~ MergesRight(o)
  PROVE  Inserted(o, Insert(o))
<1> DEFINE p == PartitionPoint(o)
           t == InsertAt(ahead, p + 1, <<o, o + 1>>)
<1>0. Insert(o) = t
  BY DEF Insert
<1>a. /\ p \in 0 .. Len(ahead) /\ o \in Nat /\ committed \in Nat /\ o >= committed
      /\ Len(ahead) \in Nat
      /\ \A j \in 1 .. Len(ahead) :
           /\ ahead[j][1] \in Nat /\ ahead[j][2] \in Nat /\ ahead[j][1] < ahead[j][2]
           /\ j <= p => ahead[j][2] <= o
           /\ j > p => ahead[j][1] > o
      /\ \A i, j \in 1 .. Len(ahead) : i < j => ahead[i][2] < ahead[j][1]
      /\ ~ (p > 0 /\ ahead[p][2] = o)
      /\ ~ (p < Len(ahead) /\ ahead[p + 1][1] = o + 1)
      /\ Loose(committed, ahead)
  BY Around
<1>1. p + 1 \in 1 .. Len(ahead) + 1 /\ <<o, o + 1>> \in Offsets \X Offsets
  BY <1>a, MaxOffsetAssumption DEF Offsets
<1>2. /\ t \in RunLists /\ Len(t) = Len(ahead) + 1
      /\ \A j \in 1 .. Len(t) :
           t[j] = IF j < p + 1 THEN ahead[j] ELSE IF j = p + 1 THEN <<o, o + 1>> ELSE ahead[j - 1]
  BY <1>1, InsertAtIs DEF Listed
<1> HIDE DEF p, t
<1>3. /\ p + 1 \in 1 .. Len(t) /\ t[p + 1][1] = o /\ t[p + 1][2] = o + 1
      /\ \A j \in 1 .. p : j \in 1 .. Len(ahead) /\ j \in 1 .. Len(t) /\ t[j] = ahead[j]
      /\ \A j \in p + 1 .. Len(ahead) :
           j \in 1 .. Len(ahead) /\ j + 1 \in 1 .. Len(t) /\ t[j + 1] = ahead[j]
  BY <1>a, <1>2
<1>4. Loose(committed, t)
  <2> SUFFICES ASSUME NEW i \in 1 .. Len(t)
               PROVE  /\ t[i][1] < t[i][2]
                      /\ i = 1 => t[i][1] >= committed
                      /\ i > 1 => t[i][1] > t[i - 1][2]
    BY DEF Loose
  <2>1. CASE i <= p
    <3>1. i \in 1 .. Len(ahead) /\ t[i] = ahead[i] /\ (i > 1 => t[i - 1] = ahead[i - 1])
      BY <1>a, <1>3, <2>1
    <3> QED BY <3>1, <1>a DEF Loose
  <2>2. CASE i = p + 1
    <3>1. p > 0 => ahead[p][2] < o /\ t[i - 1] = ahead[p]
      BY <1>a, <1>3, <2>2
    <3> QED BY <1>a, <1>3, <2>2, <3>1
  <2>3. CASE i = p + 2
    <3>1. /\ p + 1 \in 1 .. Len(ahead) /\ t[i] = ahead[p + 1] /\ i - 1 = p + 1
          /\ ahead[p + 1][1] > o + 1
      BY <1>a, <1>2, <1>3, <2>3
    <3> QED BY <1>a, <1>3, <2>3, <3>1
  <2>4. CASE i > p + 2
    <3>1. i - 1 \in 1 .. Len(ahead) /\ i - 2 \in 1 .. Len(ahead) /\ i - 2 < i - 1
      BY <1>a, <1>2, <2>4
    <3>2. t[i] = ahead[i - 1] /\ t[i - 1] = ahead[i - 2]
      BY <1>a, <1>2, <2>4
    <3> QED BY <1>a, <2>4, <3>1, <3>2, SMTT(30)
  <2> QED BY <1>a, <1>2, <2>1, <2>2, <2>3, <2>4
<1>5. ASSUME NEW x \in Offsets PROVE InRuns(t, x) <=> x = o \/ InRuns(ahead, x)
  <2>0. x \in Nat
    BY MaxOffsetAssumption DEF Offsets
  <2>1. ASSUME InRuns(t, x) PROVE x = o \/ InRuns(ahead, x)
    <3>1. PICK i \in 1 .. Len(t) : t[i][1] <= x /\ x < t[i][2]
      BY <2>1 DEF InRuns
    <3>2. CASE i < p + 1
      <4>1. i \in 1 .. Len(ahead) /\ t[i] = ahead[i]
        BY <1>a, <1>3, <3>2
      <4> QED BY <3>1, <4>1 DEF InRuns
    <3>3. CASE i = p + 1
      BY <1>a, <1>3, <2>0, <3>1, <3>3
    <3>4. CASE i > p + 1
      <4>1. i - 1 \in 1 .. Len(ahead) /\ t[i] = ahead[i - 1]
        BY <1>a, <1>2, <3>4
      <4> QED BY <3>1, <4>1 DEF InRuns
    <3> QED BY <1>a, <3>2, <3>3, <3>4
  <2>2. ASSUME x = o PROVE InRuns(t, x)
    BY <1>a, <1>3, <2>2 DEF InRuns
  <2>3. ASSUME InRuns(ahead, x) PROVE InRuns(t, x)
    <3>1. PICK i \in 1 .. Len(ahead) : ahead[i][1] <= x /\ x < ahead[i][2]
      BY <2>3 DEF InRuns
    <3>2. CASE i <= p
      <4>1. i \in 1 .. Len(t) /\ t[i] = ahead[i]
        BY <1>a, <1>3, <3>2
      <4> QED BY <3>1, <4>1 DEF InRuns
    <3>3. CASE i > p
      <4>1. i + 1 \in 1 .. Len(t) /\ t[i + 1] = ahead[i]
        BY <1>a, <1>3, <3>3
      <4> QED BY <3>1, <4>1 DEF InRuns
    <3> QED BY <1>a, <3>2, <3>3
  <2> QED BY <2>1, <2>2, <2>3
<1>6. ASSUME o = committed PROVE t # <<>> /\ t[1][1] = committed
  <2>1. p = 0
    <3> SUFFICES ASSUME p > 0 PROVE FALSE
      BY <1>a
    <3>1. p \in 1 .. Len(ahead) /\ ahead[p][2] <= o /\ ahead[p][2] > committed
      BY <1>a, Above DEF Listed
    <3> QED BY <1>a, <1>6, <3>1
  <2>2. 1 \in 1 .. Len(t) /\ t[1][1] = o
    BY <1>3, <2>1
  <2>3. t # <<>>
    BY <1>2, <1>a DEF RunLists
  <2> QED BY <1>6, <2>2, <2>3
<1> QED BY <1>0, <1>a, <1>2, <1>4, <1>5, <1>6 DEF Inserted

\* A run whose end, or start, is moved.
LEMMA MoveEnd ==
  ASSUME NEW s \in RunLists, NEW k \in 1 .. Len(s), NEW e \in Offsets
  PROVE  LET t == [s EXCEPT ![k][2] = e] IN
         /\ t \in RunLists /\ Len(t) = Len(s)
         /\ t[k][1] = s[k][1] /\ t[k][2] = e
         /\ \A j \in 1 .. Len(s) : j # k => t[j] = s[j]
<1> DEFINE r == [s[k] EXCEPT ![2] = e]
           t == [s EXCEPT ![k][2] = e]
<1>0. /\ s \in Seq(Offsets \X Offsets) /\ Len(s) \in Nat /\ DOMAIN s = 1 .. Len(s)
      /\ s[k] \in Offsets \X Offsets
  BY RunsTyped DEF RunLists
<1>1. PICK a \in Offsets, b \in Offsets : s[k] = <<a, b>>
  BY <1>0
<1>2. r = <<a, e>>
  BY <1>1
<1>3. t = [s EXCEPT ![k] = r]
  OBVIOUS
<1>4. r \in Offsets \X Offsets /\ r[1] = s[k][1] /\ r[2] = e
  BY <1>1, <1>2
<1> HIDE DEF r, t
<1>5. t \in Seq(Offsets \X Offsets) /\ Len(t) = Len(s)
  BY <1>0, <1>3, <1>4, ExceptSeq
<1>6. t[k] = r /\ \A j \in 1 .. Len(s) : j # k => t[j] = s[j]
  BY <1>0, <1>3
<1>7. /\ t \in RunLists /\ Len(t) = Len(s)
      /\ t[k][1] = s[k][1] /\ t[k][2] = e
      /\ \A j \in 1 .. Len(s) : j # k => t[j] = s[j]
  BY <1>4, <1>5, <1>6 DEF RunLists
<1> QED BY <1>7 DEF t

LEMMA MoveStart ==
  ASSUME NEW s \in RunLists, NEW k \in 1 .. Len(s), NEW e \in Offsets
  PROVE  LET t == [s EXCEPT ![k][1] = e] IN
         /\ t \in RunLists /\ Len(t) = Len(s)
         /\ t[k][1] = e /\ t[k][2] = s[k][2]
         /\ \A j \in 1 .. Len(s) : j # k => t[j] = s[j]
<1> DEFINE r == [s[k] EXCEPT ![1] = e]
           t == [s EXCEPT ![k][1] = e]
<1>0. /\ s \in Seq(Offsets \X Offsets) /\ Len(s) \in Nat /\ DOMAIN s = 1 .. Len(s)
      /\ s[k] \in Offsets \X Offsets
  BY RunsTyped DEF RunLists
<1>1. PICK a \in Offsets, b \in Offsets : s[k] = <<a, b>>
  BY <1>0
<1>2. r = <<e, b>>
  BY <1>1
<1>3. t = [s EXCEPT ![k] = r]
  OBVIOUS
<1>4. r \in Offsets \X Offsets /\ r[1] = e /\ r[2] = s[k][2]
  BY <1>1, <1>2
<1> HIDE DEF r, t
<1>5. t \in Seq(Offsets \X Offsets) /\ Len(t) = Len(s)
  BY <1>0, <1>3, <1>4, ExceptSeq
<1>6. t[k] = r /\ \A j \in 1 .. Len(s) : j # k => t[j] = s[j]
  BY <1>0, <1>3
<1>7. /\ t \in RunLists /\ Len(t) = Len(s)
      /\ t[k][1] = e /\ t[k][2] = s[k][2]
      /\ \A j \in 1 .. Len(s) : j # k => t[j] = s[j]
  BY <1>4, <1>5, <1>6 DEF RunLists
<1> QED BY <1>7 DEF t

LEMMA InsertLeft ==
  ASSUME Listed, NEW o \in Offsets, ~ IsAcked(o), o # MaxOffset,
         MergesLeft(o), ~ MergesRight(o)
  PROVE  Inserted(o, Insert(o))
<1> DEFINE p == PartitionPoint(o)
           t == [ahead EXCEPT ![p][2] = o + 1]
<1>0. Insert(o) = t
  BY DEF Insert
<1>a. /\ p \in 1 .. Len(ahead) /\ o \in Nat /\ committed \in Nat /\ o >= committed
      /\ Len(ahead) \in Nat /\ ahead[p][2] = o
      /\ \A j \in 1 .. Len(ahead) :
           /\ ahead[j][1] \in Nat /\ ahead[j][2] \in Nat /\ ahead[j][1] < ahead[j][2]
           /\ j > p => ahead[j][1] > o
      /\ ~ (p < Len(ahead) /\ ahead[p + 1][1] = o + 1)
      /\ Loose(committed, ahead)
  BY Around
<1>1. o + 1 \in Offsets
  BY <1>a, MaxOffsetAssumption DEF Offsets
<1>2. /\ t \in RunLists /\ Len(t) = Len(ahead)
      /\ t[p][1] = ahead[p][1] /\ t[p][2] = o + 1
      /\ \A j \in 1 .. Len(ahead) : j # p => t[j] = ahead[j]
  BY <1>a, <1>1, MoveEnd DEF Listed
<1> HIDE DEF p, t
<1>3. \A j \in 1 .. Len(ahead) : t[j][1] = ahead[j][1]
  BY <1>2
<1>4. Loose(committed, t)
  <2> SUFFICES ASSUME NEW i \in 1 .. Len(ahead)
               PROVE  /\ t[i][1] < t[i][2]
                      /\ i = 1 => t[i][1] >= committed
                      /\ i > 1 => t[i][1] > t[i - 1][2]
    BY <1>2 DEF Loose
  <2>1. /\ ahead[i][1] < ahead[i][2] /\ (i = 1 => ahead[i][1] >= committed)
        /\ i > 1 => ahead[i][1] > ahead[i - 1][2]
    BY <1>a DEF Loose
  <2>2. CASE i = p
    <3>1. i > 1 => i - 1 \in 1 .. Len(ahead) /\ i - 1 # p
      BY <1>a, <2>2
    <3> QED BY <1>a, <1>2, <2>1, <2>2, <3>1, SMTT(30)
  <2>3. CASE i = p + 1
    <3>1. ahead[i][1] > o + 1 /\ i - 1 = p /\ i # p
      BY <1>a, <2>3
    <3> QED BY <1>a, <1>2, <2>1, <3>1
  <2>4. CASE i # p /\ i # p + 1
    <3>1. i > 1 => i - 1 \in 1 .. Len(ahead) /\ i - 1 # p
      BY <1>a, <2>4
    <3> QED BY <1>2, <2>1, <2>4, <3>1
  <2> QED BY <2>2, <2>3, <2>4
<1>5. ASSUME NEW x \in Offsets PROVE InRuns(t, x) <=> x = o \/ InRuns(ahead, x)
  <2>0. x \in Nat
    BY MaxOffsetAssumption DEF Offsets
  <2>1. ASSUME NEW i \in 1 .. Len(ahead)
        PROVE  t[i][1] <= x /\ x < t[i][2] <=>
                 (ahead[i][1] <= x /\ x < ahead[i][2]) \/ (i = p /\ x = o)
    <3>1. CASE i = p
      BY <1>a, <1>2, <2>0, <3>1
    <3>2. CASE i # p
      BY <1>2, <3>2
    <3> QED BY <3>1, <3>2
  <2> QED BY <1>a, <1>2, <2>1 DEF InRuns
<1>6. o # committed
  BY <1>a, Above DEF Listed
<1> QED BY <1>0, <1>a, <1>2, <1>4, <1>5, <1>6 DEF Inserted

LEMMA InsertRight ==
  ASSUME Listed, NEW o \in Offsets, ~ IsAcked(o), o # MaxOffset,
         ~ MergesLeft(o), MergesRight(o)
  PROVE  Inserted(o, Insert(o))
<1> DEFINE p == PartitionPoint(o)
           q == p + 1
           t == [ahead EXCEPT ![q][1] = o]
<1>0. Insert(o) = t
  BY DEF Insert
<1>a. /\ q \in 1 .. Len(ahead) /\ o \in Nat /\ committed \in Nat /\ o >= committed
      /\ Len(ahead) \in Nat /\ ahead[q][1] = o + 1
      /\ \A j \in 1 .. Len(ahead) :
           /\ ahead[j][1] \in Nat /\ ahead[j][2] \in Nat /\ ahead[j][1] < ahead[j][2]
           /\ j < q => ahead[j][2] <= o
      /\ q > 1 => ahead[q - 1][2] # o
      /\ Loose(committed, ahead)
  <2>1. /\ p \in 0 .. Len(ahead) /\ o \in Nat /\ committed \in Nat /\ o >= committed
        /\ Len(ahead) \in Nat /\ p < Len(ahead) /\ ahead[p + 1][1] = o + 1
        /\ \A j \in 1 .. Len(ahead) :
             /\ ahead[j][1] \in Nat /\ ahead[j][2] \in Nat /\ ahead[j][1] < ahead[j][2]
             /\ j <= p => ahead[j][2] <= o
        /\ ~ (p > 0 /\ ahead[p][2] = o)
        /\ Loose(committed, ahead)
    BY Around
  <2> HIDE DEF p
  <2>2. q - 1 = p /\ \A j \in 1 .. Len(ahead) : j < q => j <= p
    BY <2>1
  <2> QED BY <2>1, <2>2
<1>2. /\ t \in RunLists /\ Len(t) = Len(ahead)
      /\ t[q][1] = o /\ t[q][2] = ahead[q][2]
      /\ \A j \in 1 .. Len(ahead) : j # q => t[j] = ahead[j]
  <2>1. ahead \in RunLists /\ q \in 1 .. Len(ahead)
    BY <1>a DEF Listed
  <2> HIDE DEF q
  <2> QED BY <2>1, MoveStart
<1> HIDE DEF p, q, t
<1>3. \A j \in 1 .. Len(ahead) : t[j][2] = ahead[j][2]
  BY <1>2
<1>4. Loose(committed, t)
  <2> SUFFICES ASSUME NEW i \in 1 .. Len(ahead)
               PROVE  /\ t[i][1] < t[i][2]
                      /\ i = 1 => t[i][1] >= committed
                      /\ i > 1 => t[i][1] > t[i - 1][2]
    BY <1>2 DEF Loose
  <2>1. /\ ahead[i][1] < ahead[i][2] /\ (i = 1 => ahead[i][1] >= committed)
        /\ i > 1 => ahead[i][1] > ahead[i - 1][2]
    BY <1>a DEF Loose
  <2>2. i > 1 => i - 1 \in 1 .. Len(ahead) /\ t[i - 1][2] = ahead[i - 1][2]
    BY <1>a, <1>3
  <2>3. CASE i = q
    <3>1. i > 1 => ahead[i - 1][2] < o
      BY <1>a, <2>2, <2>3
    <3> QED BY <1>a, <1>2, <2>1, <2>2, <2>3, <3>1
  <2>4. CASE i # q
    BY <1>2, <2>1, <2>2, <2>4
  <2> QED BY <2>3, <2>4
<1>5. ASSUME NEW x \in Offsets PROVE InRuns(t, x) <=> x = o \/ InRuns(ahead, x)
  <2>0. x \in Nat
    BY MaxOffsetAssumption DEF Offsets
  <2>1. ASSUME NEW i \in 1 .. Len(ahead)
        PROVE  t[i][1] <= x /\ x < t[i][2] <=>
                 (ahead[i][1] <= x /\ x < ahead[i][2]) \/ (i = q /\ x = o)
    <3>1. CASE i = q
      BY <1>a, <1>2, <2>0, <3>1
    <3>2. CASE i # q
      BY <1>2, <3>2
    <3> QED BY <3>1, <3>2
  <2> QED BY <1>a, <1>2, <2>1 DEF InRuns
<1>6. ASSUME o = committed PROVE t # <<>> /\ t[1][1] = committed
  <2>1. q = 1
    <3> SUFFICES ASSUME q # 1 PROVE FALSE
      OBVIOUS
    <3>1. 1 \in 1 .. Len(ahead) /\ 1 < q
      BY <1>a
    <3>2. ahead[1][2] <= o /\ ahead[1][1] >= committed
      BY <1>a, <3>1 DEF Loose
    <3> QED BY <1>a, <1>6, <3>1, <3>2
  <2>2. t # <<>>
    BY <1>a, <1>2 DEF RunLists
  <2> QED BY <1>2, <1>6, <2>1, <2>2
<1> QED BY <1>0, <1>a, <1>2, <1>4, <1>5, <1>6 DEF Inserted

LEMMA InsertBridge ==
  ASSUME Listed, NEW o \in Offsets, ~ IsAcked(o), o # MaxOffset,
         MergesLeft(o), MergesRight(o)
  PROVE  Inserted(o, Insert(o))
<1> DEFINE p == PartitionPoint(o)
           q == p + 1
           e == ahead[q][2]
           m == [ahead EXCEPT ![p][2] = e]
           t == RemoveAt(m, q)
<1>0. Insert(o) = t
  BY DEF Insert
<1>a. /\ p \in 1 .. Len(ahead) /\ o \in Nat /\ committed \in Nat /\ o >= committed
      /\ Len(ahead) \in Nat /\ ahead[p][2] = o
      /\ p < Len(ahead) /\ ahead[p + 1][1] = o + 1
      /\ \A j \in 1 .. Len(ahead) :
           /\ ahead[j] \in Offsets \X Offsets
           /\ ahead[j][1] \in Nat /\ ahead[j][2] \in Nat /\ ahead[j][1] < ahead[j][2]
      /\ Loose(committed, ahead)
  BY Around
<1>b. /\ q \in 1 .. Len(ahead) /\ q = p + 1 /\ ahead[q][1] = o + 1 /\ e \in Offsets
      /\ e \in Nat /\ o + 1 < e
  <2>1. q \in 1 .. Len(ahead)
    <3> HIDE DEF p
    <3> QED BY <1>a
  <2>2. q = p + 1 /\ ahead[q][1] = o + 1
    BY <1>a
  <2> HIDE DEF q
  <2> QED BY <1>a, <2>1, <2>2
<1>2. /\ m \in RunLists /\ Len(m) = Len(ahead)
      /\ m[p][1] = ahead[p][1] /\ m[p][2] = e
      /\ \A j \in 1 .. Len(ahead) : j # p => m[j] = ahead[j]
  <2>1. ahead \in RunLists
    BY DEF Listed
  <2> HIDE DEF e, p
  <2> QED BY <1>a, <1>b, <2>1, MoveEnd
<1> HIDE DEF e, m
<1>3. /\ t \in RunLists /\ Len(t) = Len(ahead) - 1
      /\ \A j \in 1 .. Len(t) : t[j] = IF j < q THEN m[j] ELSE m[j + 1]
  <2> HIDE DEF q
  <2> QED BY <1>b, <1>2, RemoveAtIs, SMTT(30)
<1>e. e = ahead[q][2]
  BY DEF e
<1> HIDE DEF p, q, t
<1>4. /\ p \in 1 .. Len(t) /\ t[p][1] = ahead[p][1] /\ t[p][2] = e
      /\ \A j \in 1 .. Len(t) : /\ j \in 1 .. Len(ahead) /\ j + 1 \in 1 .. Len(ahead)
                                /\ j < p => t[j] = ahead[j]
                                /\ j > p => t[j] = ahead[j + 1]
  <2>1. p \in 1 .. Len(t) /\ p < q
    BY <1>a, <1>b, <1>3
  <2>2. t[p] = m[p]
    BY <1>3, <2>1
  <2>3. ASSUME NEW j \in 1 .. Len(t)
        PROVE  /\ j \in 1 .. Len(ahead) /\ j + 1 \in 1 .. Len(ahead)
               /\ j < p => t[j] = ahead[j]
               /\ j > p => t[j] = ahead[j + 1]
    <3>1. j \in 1 .. Len(ahead) /\ j + 1 \in 1 .. Len(ahead)
      BY <1>a, <1>3
    <3>2. CASE j < p
      <4>1. j < q /\ j # p
        BY <1>a, <1>b, <3>2, SMTT(30)
      <4>2. t[j] = m[j] /\ m[j] = ahead[j]
        BY <1>2, <1>3, <3>1, <4>1
      <4> QED BY <1>a, <3>2, <4>2
    <3>3. CASE j > p
      <4>1. ~ (j < q) /\ j + 1 # p
        BY <1>a, <1>b, <3>3, SMTT(30)
      <4>2. t[j] = m[j + 1] /\ m[j + 1] = ahead[j + 1]
        BY <1>2, <1>3, <3>1, <4>1
      <4> QED BY <1>a, <3>1, <3>3, <4>2
    <3> QED BY <3>1, <3>2, <3>3
  <2> QED BY <1>2, <2>1, <2>2, <2>3
<1>5. Loose(committed, t)
  <2> SUFFICES ASSUME NEW i \in 1 .. Len(t)
               PROVE  /\ t[i][1] < t[i][2]
                      /\ i = 1 => t[i][1] >= committed
                      /\ i > 1 => t[i][1] > t[i - 1][2]
    BY DEF Loose
  <2>0. /\ i \in 1 .. Len(ahead) /\ i + 1 \in 1 .. Len(ahead)
        /\ i > 1 => i - 1 \in 1 .. Len(t)
    BY <1>a, <1>3, <1>4, SMTT(30)
  <2>1. /\ ahead[i][1] < ahead[i][2] /\ (i = 1 => ahead[i][1] >= committed)
        /\ i > 1 => ahead[i][1] > ahead[i - 1][2]
    BY <2>0, <1>a DEF Loose
  <2>2. /\ ahead[i + 1][1] < ahead[i + 1][2] /\ ahead[i + 1][1] > ahead[i][2]
    <3>1. i + 1 > 1 /\ (i + 1) - 1 = i
      BY <2>0
    <3> QED BY <2>0, <1>a, <3>1 DEF Loose
  <2>3. CASE i < p
    <3>1. t[i] = ahead[i]
      BY <1>4, <2>3
    <3>2. i > 1 => t[i - 1] = ahead[i - 1]
      <4>1. i > 1 => i - 1 < p
        BY <1>a, <2>3
      <4> QED BY <1>4, <2>0, <4>1
    <3> QED BY <2>1, <3>1, <3>2
  <2>4. CASE i = p
    <3>1. i > 1 => t[i - 1] = ahead[i - 1]
      BY <1>a, <1>4, <2>0, <2>4
    <3>2. t[i][1] = ahead[i][1] /\ t[i][2] = e
      BY <1>4, <2>4
    <3>3. ahead[i][1] \in Nat /\ ahead[i][1] < o
      BY <1>a, <2>4
    <3>4. ahead[i][1] < e
      BY <1>a, <1>b, <3>3
    <3> QED BY <2>1, <3>1, <3>2, <3>4
  <2>5. CASE i = p + 1
    <3>0. i - 1 = p /\ i = q /\ i > p /\ i # 1
      BY <1>a, <1>b, <2>5
    <3>1. t[i] = ahead[i + 1]
      BY <1>4, <3>0
    <3>2. t[i - 1][2] = ahead[i][2]
      BY <1>4, <1>e, <3>0
    <3> QED BY <2>2, <3>0, <3>1, <3>2
  <2>6. CASE i > p + 1
    <3>1. t[i] = ahead[i + 1] /\ t[i - 1] = ahead[(i - 1) + 1] /\ (i - 1) + 1 = i
      BY <1>a, <1>4, <2>0, <2>6
    <3> QED BY <1>a, <2>2, <2>6, <3>1
  <2> QED BY <1>a, <2>0, <2>3, <2>4, <2>5, <2>6
<1>6. ASSUME NEW x \in Offsets PROVE InRuns(t, x) <=> x = o \/ InRuns(ahead, x)
  <2>0. x \in Nat
    BY MaxOffsetAssumption DEF Offsets
  <2>1. ASSUME InRuns(t, x) PROVE x = o \/ InRuns(ahead, x)
    <3>1. PICK i \in 1 .. Len(t) : t[i][1] <= x /\ x < t[i][2]
      BY <2>1 DEF InRuns
    <3>2. CASE i < p
      BY <1>4, <3>1, <3>2 DEF InRuns
    <3>3. CASE i = p
      <4>1. ahead[p][1] <= x /\ x < e
        BY <1>4, <3>1, <3>3
      <4>2. CASE x < o
        BY <1>a, <4>1, <4>2 DEF InRuns
      <4>3. CASE o + 1 <= x
        BY <1>b, <1>e, <4>1, <4>3 DEF InRuns
      <4> QED BY <1>a, <2>0, <4>2, <4>3
    <3>4. CASE i > p
      <4>1. i + 1 \in 1 .. Len(ahead) /\ t[i] = ahead[i + 1]
        BY <1>4, <3>4
      <4> QED BY <3>1, <4>1 DEF InRuns
    <3> QED BY <1>a, <3>2, <3>3, <3>4
  <2>2. ASSUME x = o PROVE InRuns(t, x)
    <3>1. t[p][1] <= x /\ x < t[p][2]
      BY <1>a, <1>b, <1>4, <2>2, SMTT(30)
    <3> QED BY <1>4, <3>1 DEF InRuns
  <2>3. ASSUME InRuns(ahead, x) PROVE InRuns(t, x)
    <3>1. PICK i \in 1 .. Len(ahead) : ahead[i][1] <= x /\ x < ahead[i][2]
      BY <2>3 DEF InRuns
    <3>2. CASE i < p
      <4>1. i \in 1 .. Len(t) /\ t[i] = ahead[i]
        BY <1>a, <1>3, <1>4, <3>2, SMTT(30)
      <4> QED BY <3>1, <4>1 DEF InRuns
    <3>3. CASE i = p
      <4>1. t[p][1] <= x /\ x < t[p][2]
        BY <1>a, <1>b, <1>4, <2>0, <3>1, <3>3
      <4> QED BY <1>4, <4>1 DEF InRuns
    <3>4. CASE i = q
      <4>1. ahead[p][1] < o /\ ahead[p][1] \in Nat
        BY <1>a
      <4>2. t[p][1] <= x /\ x < t[p][2]
        BY <1>a, <1>b, <1>e, <1>4, <2>0, <3>1, <3>4, <4>1
      <4> QED BY <1>4, <4>2 DEF InRuns
    <3>5. CASE i > q
      <4>1. i - 1 \in 1 .. Len(t) /\ i - 1 > p /\ (i - 1) + 1 = i
        BY <1>a, <1>b, <1>3, <3>5
      <4>2. t[i - 1] = ahead[(i - 1) + 1]
        BY <1>4, <4>1
      <4> QED BY <3>1, <4>1, <4>2 DEF InRuns
    <3> QED BY <1>a, <1>b, <3>2, <3>3, <3>4, <3>5
  <2> QED BY <2>1, <2>2, <2>3
<1>7. o # committed
  BY <1>a, Above DEF Listed
<1> QED BY <1>0, <1>a, <1>3, <1>5, <1>6, <1>7 DEF Inserted

LEMMA InsertIs ==
  ASSUME Listed, NEW o \in Offsets, ~ IsAcked(o), o # MaxOffset
  PROVE  Inserted(o, Insert(o))
BY InsertAlone, InsertLeft, InsertRight, InsertBridge

\* Retaining an interval of indices yields that part of the list: the order of
\* the retained positions leaves no choice.
LEMMA RetainIs ==
  ASSUME NEW s \in RunLists, NEW a \in Nat, NEW n \in Nat, a + n <= Len(s),
         NEW t, t = Retain(s, a + 1 .. a + n)
  PROVE  /\ t \in RunLists /\ Len(t) = n
         /\ \A i \in 1 .. n : t[i] = s[a + i]
<1> DEFINE I == a + 1 .. a + n
           Rising(f) == \A i, j \in 1 .. n : i < j => f[i] < f[j]
           pos == CHOOSE f \in [1 .. n -> I] : Rising(f)
<1>1. Cardinality(I) = n
  BY FS_Interval
<1>2. t = [i \in 1 .. n |-> s[pos[i]]]
  <2>1. t = Retain(s, I)
    OBVIOUS
  <2> HIDE DEF I, pos
  <2>2. t = [i \in 1 .. Cardinality(I) |->
               s[(CHOOSE f \in [1 .. Cardinality(I) -> I] :
                    \A k, j \in 1 .. Cardinality(I) : k < j => f[k] < f[j])[i]]]
    BY <2>1 DEF Retain
  <2> QED BY <1>1, <2>2 DEF pos
<1>3. \E f \in [1 .. n -> I] : Rising(f)
  <2> DEFINE f == [i \in 1 .. n |-> a + i]
  <2>1. f \in [1 .. n -> I] /\ Rising(f)
    OBVIOUS
  <2> HIDE DEF f
  <2> QED BY <2>1
<1>4. pos \in [1 .. n -> I] /\ Rising(pos)
  <2> HIDE DEF Rising
  <2> QED BY <1>3
<1> HIDE DEF pos
<1>5. \A i \in 1 .. n : pos[i] \in Nat /\ pos[i] >= a + 1 /\ pos[i] <= a + n
  BY <1>4
<1>6. \A i \in 1 .. n : pos[i] >= a + i
  <2> DEFINE T == {i \in 1 .. n : ~ (pos[i] >= a + i)}
  <2> SUFFICES ASSUME T # {} PROVE FALSE
    OBVIOUS
  <2>1. T \in SUBSET Nat
    OBVIOUS
  <2>2. PICK k \in T : \A m \in T : k <= m
    <3> HIDE DEF T
    <3> QED BY <2>1, LeastNatural
  <2>3. k \in 1 .. n /\ k > 1 /\ k - 1 \in 1 .. n /\ k - 1 \notin T
    BY <1>5, <2>2, SMTT(30)
  <2>4. pos[k - 1] >= a + (k - 1) /\ pos[k - 1] < pos[k]
    BY <1>4, <2>3
  <2> QED BY <1>5, <2>2, <2>3, <2>4
<1>7. \A i \in 1 .. n : pos[i] <= a + i
  <2> DEFINE T == {n - i : i \in {j \in 1 .. n : ~ (pos[j] <= a + j)}}
  <2> SUFFICES ASSUME T # {} PROVE FALSE
    OBVIOUS
  <2>1. T \in SUBSET Nat
    OBVIOUS
  <2>2. PICK d \in T : \A m \in T : d <= m
    <3> HIDE DEF T
    <3> QED BY <2>1, LeastNatural
  <2>3. PICK k \in 1 .. n : d = n - k /\ ~ (pos[k] <= a + k)
    BY <2>2
  <2>4. k < n
    BY <1>5, <2>3
  <2>5. k + 1 \in 1 .. n /\ n - (k + 1) < d
    BY <2>3, <2>4
  <2>6. pos[k + 1] <= a + (k + 1)
    <3> SUFFICES ASSUME ~ (pos[k + 1] <= a + (k + 1)) PROVE FALSE
      OBVIOUS
    <3>1. n - (k + 1) \in T
      BY <2>5
    <3> HIDE DEF T
    <3>2. d \in Nat /\ d <= n - (k + 1)
      BY <2>1, <2>2, <3>1
    <3> QED BY <2>5, <3>2
  <2>7. pos[k] < pos[k + 1]
    BY <1>4, <2>4, <2>5
  <2> QED BY <1>5, <2>3, <2>5, <2>6, <2>7
<1>8. \A i \in 1 .. n : pos[i] = a + i /\ a + i \in 1 .. Len(s)
  BY <1>5, <1>6, <1>7, RunsTyped
<1>9. ASSUME NEW i \in 1 .. n PROVE t[i] = s[a + i] /\ t[i] \in Offsets \X Offsets
  <2>1. t[i] = s[pos[i]]
    BY <1>2
  <2>2. pos[i] = a + i /\ a + i \in 1 .. Len(s)
    BY <1>8
  <2> QED BY <2>1, <2>2, RunsTyped
<1> QED BY <1>2, <1>9, RunsFromElements

\* What every prefix of a list inherits.
LEMMA PrefixKeeps ==
  ASSUME NEW s \in RunLists, NEW low \in Offsets, WellFormed(low, s),
         NEW t \in RunLists, Len(t) <= Len(s), \A i \in 1 .. Len(t) : t[i] = s[i]
  PROVE  WellFormed(low, t) /\ SetOf(low, t) \subseteq SetOf(low, s)
<1>0. Len(s) \in Nat /\ Len(t) \in Nat
  BY RunsTyped
<1>1. \A i \in 1 .. Len(t) : i \in 1 .. Len(s) /\ (i # 1 => i - 1 \in 1 .. Len(t))
  BY <1>0
<1>2. WellFormed(low, t)
  BY <1>1 DEF WellFormed
<1>3. \A o \in Offsets : InRuns(t, o) => InRuns(s, o)
  BY <1>1 DEF InRuns
<1> QED BY <1>2, <1>3 DEF SetOf

\* The runs that end above an offset are a suffix of the list, the others a
\* prefix.
LEMMA EndsSplit ==
  ASSUME NEW s \in RunLists, NEW low, Loose(low, s), NEW x \in Nat
  PROVE  \E k \in 0 .. Len(s) : /\ \A i \in 1 .. k : s[i][2] <= x
                                /\ \A i \in k + 1 .. Len(s) : s[i][2] > x
<1> DEFINE T == {j \in 1 .. Len(s) : s[j][2] > x}
<1>0. /\ Len(s) \in Nat
      /\ \A j \in 1 .. Len(s) : s[j][1] \in Nat /\ s[j][2] \in Nat
  BY RunsTyped
<1>1. CASE T = {}
  <2>1. Len(s) \in 0 .. Len(s) /\ \A i \in 1 .. Len(s) : s[i][2] <= x
    BY <1>0, <1>1
  <2>2. \A i \in Len(s) + 1 .. Len(s) : s[i][2] > x
    BY <1>0
  <2> QED BY <2>1, <2>2
<1>2. CASE T # {}
  <2>1. T \in SUBSET Nat
    BY <1>0
  <2>2. PICK k \in T : \A m \in T : k <= m
    <3> HIDE DEF T
    <3> QED BY <1>2, <2>1, LeastNatural
  <2>3. k - 1 \in 0 .. Len(s) /\ k \in 1 .. Len(s) /\ s[k][2] > x
    BY <1>0
  <2>4. \A j \in 1 .. k - 1 : s[j][2] <= x
    BY <1>0, <2>2, <2>3
  <2>5. ASSUME NEW j \in (k - 1) + 1 .. Len(s) PROVE s[j][2] > x
    <3>1. CASE j = k
      BY <2>3, <3>1
    <3>2. CASE k < j
      <4>1. j \in 1 .. Len(s)
        BY <1>0, <2>3, <3>2
      <4>2. s[k][2] < s[j][1]
        BY <2>3, <3>2, <4>1, Apart
      <4>3. s[j][1] < s[j][2]
        BY <4>1 DEF Loose
      <4> QED BY <1>0, <2>3, <4>1, <4>2, <4>3
    <3> QED BY <1>0, <2>3, <3>1, <3>2
  <2> QED BY <2>3, <2>4, <2>5
<1> QED BY <1>1, <1>2

\* The retain_mut of `commit_up_to` leaves a loose list that, with everything
\* below the new watermark, is the old set.
LEMMA ClipIs ==
  ASSUME Listed, NEW u \in Offsets, u > committed, NEW c, c = Clip(u)
  PROVE  /\ c \in RunLists /\ Loose(u, c)
         /\ SetOf(u, c) = SetOf(committed, ahead) \union Abs!Below(u)
<1>0. /\ u \in Nat /\ committed \in Nat /\ Len(ahead) \in Nat /\ ahead \in RunLists
      /\ \A j \in 1 .. Len(ahead) : /\ ahead[j] \in Offsets \X Offsets
                                    /\ ahead[j][1] \in Nat /\ ahead[j][2] \in Nat
                                    /\ ahead[j][2] \in Offsets /\ ahead[j][1] \in Offsets
  BY RunsTyped, MaxOffsetAssumption DEF Offsets, Listed
<1>1. Loose(committed, ahead)
  BY <1>0, WellFormedIs DEF Listed
<1>2. PICK k \in 0 .. Len(ahead) : /\ \A i \in 1 .. k : ahead[i][2] <= u
                                   /\ \A i \in k + 1 .. Len(ahead) : ahead[i][2] > u
  BY <1>0, <1>1, EndsSplit
<1> DEFINE n == Len(ahead) - k
           I == {i \in 1 .. Len(ahead) : ahead[i][2] > u}
           kept == Retain(ahead, I)
           start(i) == IF kept[i][1] < u THEN u ELSE kept[i][1]
<1>3. I = k + 1 .. k + n /\ k \in Nat /\ n \in Nat /\ k + n <= Len(ahead) /\ k + n = Len(ahead)
  <2>1. ASSUME NEW i PROVE i \in I <=> i \in k + 1 .. k + n
    <3>1. ASSUME i \in I PROVE i \in k + 1 .. k + n
      <4>1. i \in 1 .. Len(ahead) /\ ahead[i][2] > u /\ ~ (i \in 1 .. k)
        BY <1>0, <1>2, <3>1
      <4> QED BY <1>0, <4>1
    <3>2. ASSUME i \in k + 1 .. k + n PROVE i \in I
      BY <1>0, <1>2, <3>2
    <3> QED BY <3>1, <3>2
  <2>2. I = k + 1 .. k + n
    <3> HIDE DEF I
    <3> QED BY <2>1
  <2> QED BY <1>0, <2>2
<1>4. c = [i \in 1 .. Len(kept) |-> <<start(i), kept[i][2]>>]
  BY DEF Clip
<1>5. /\ kept \in RunLists /\ Len(kept) = n
      /\ \A i \in 1 .. n : kept[i] = ahead[k + i]
  <2>1. kept = Retain(ahead, k + 1 .. k + n)
    BY <1>3
  <2> HIDE DEF n, kept, I
  <2>2. ahead \in RunLists /\ k \in Nat /\ n \in Nat /\ k + n <= Len(ahead)
    BY <1>0, <1>3
  <2> QED BY <2>1, <2>2, RetainIs, SMTT(30)
<1> HIDE DEF kept, I
<1>6. \A i \in 1 .. n : /\ k + i \in 1 .. Len(ahead) /\ ahead[k + i][2] > u
                        /\ kept[i] = ahead[k + i]
  BY <1>0, <1>2, <1>3, <1>5, SMTT(30)
<1> HIDE DEF n
<1>7. \A i \in 1 .. n : /\ start(i) \in Offsets /\ start(i) \in Nat /\ start(i) >= u
                        /\ c[i] = <<start(i), ahead[k + i][2]>>
                        /\ c[i][1] = start(i) /\ c[i][2] = ahead[k + i][2]
                        /\ c[i] \in Offsets \X Offsets
  <2> SUFFICES ASSUME NEW i \in 1 .. n
               PROVE  /\ start(i) \in Offsets /\ start(i) \in Nat /\ start(i) >= u
                      /\ c[i] = <<start(i), ahead[k + i][2]>>
                      /\ c[i] \in Offsets \X Offsets
    OBVIOUS
  <2>1. start(i) \in Offsets /\ start(i) \in Nat /\ start(i) >= u
    BY <1>0, <1>6
  <2>2. c[i] = <<start(i), ahead[k + i][2]>>
    BY <1>4, <1>5, <1>6
  <2> QED BY <1>0, <1>6, <2>1, <2>2
<1>8. c \in RunLists /\ Len(c) = n
  <2>1. DOMAIN c = 1 .. n /\ c = [i \in 1 .. n |-> c[i]]
    BY <1>4, <1>5
  <2> QED BY <1>3, <1>7, <2>1, RunsFromElements
<1>9. Loose(u, c)
  <2> SUFFICES ASSUME NEW i \in 1 .. n
               PROVE  /\ c[i][1] < c[i][2]
                      /\ i = 1 => c[i][1] >= u
                      /\ i > 1 => c[i][1] > c[i - 1][2]
    BY <1>8 DEF Loose
  <2>0. k + i \in 1 .. Len(ahead) /\ ahead[k + i][1] < ahead[k + i][2]
    BY <1>1, <1>6 DEF Loose
  <2>1. c[i][1] < c[i][2]
    BY <1>0, <1>6, <1>7, <2>0
  <2>2. ASSUME i > 1 PROVE c[i][1] > c[i - 1][2]
    <3>1. i - 1 \in 1 .. n /\ k + (i - 1) = (k + i) - 1 /\ k + i > 1
      BY <1>3, <2>2
    <3>2. ahead[k + i][1] > ahead[(k + i) - 1][2]
      BY <1>1, <2>0, <3>1 DEF Loose
    <3>3. c[i - 1][2] = ahead[(k + i) - 1][2] /\ ahead[(k + i) - 1][2] > u
      BY <1>6, <1>7, <3>1
    <3>4. start(i) = ahead[k + i][1]
      BY <1>0, <1>6, <2>0, <3>1, <3>2, <3>3, SMTT(30)
    <3> QED BY <1>7, <3>2, <3>3, <3>4
  <2> QED BY <1>7, <2>1, <2>2
<1>10. ASSUME NEW x \in Offsets
       PROVE  x < u \/ InRuns(c, x) <=> x < committed \/ InRuns(ahead, x) \/ x < u
  <2>0. x \in Nat
    BY MaxOffsetAssumption DEF Offsets
  <2>1. ASSUME InRuns(c, x) PROVE InRuns(ahead, x)
    <3>1. PICK i \in 1 .. n : c[i][1] <= x /\ x < c[i][2]
      BY <1>8, <2>1 DEF InRuns
    <3>2. k + i \in 1 .. Len(ahead) /\ ahead[k + i][1] <= x /\ x < ahead[k + i][2]
      <4>1. /\ k + i \in 1 .. Len(ahead) /\ kept[i] = ahead[k + i] /\ start(i) <= x
            /\ x < ahead[k + i][2]
        BY <1>6, <1>7, <3>1
      <4>2. ahead[k + i][1] \in Nat /\ ahead[k + i][1] <= start(i)
        BY <1>0, <4>1
      <4>3. start(i) \in Nat
        BY <1>7
      <4> HIDE DEF start
      <4> QED BY <2>0, <4>1, <4>2, <4>3
    <3> QED BY <3>2 DEF InRuns
  <2>2. ASSUME InRuns(ahead, x), ~ (x < u) PROVE InRuns(c, x)
    <3>1. PICK j \in 1 .. Len(ahead) : ahead[j][1] <= x /\ x < ahead[j][2]
      BY <2>2 DEF InRuns
    <3>2. ~ (j \in 1 .. k)
      BY <1>0, <1>2, <2>0, <2>2, <3>1
    <3>3. j - k \in 1 .. n /\ k + (j - k) = j
      BY <1>0, <1>3, <3>2
    <3>4. c[j - k][2] = ahead[j][2] /\ c[j - k][1] = start(j - k) /\ kept[j - k] = ahead[j]
      BY <1>6, <1>7, <3>3
    <3>5. c[j - k][1] <= x /\ x < c[j - k][2]
      BY <1>0, <2>0, <2>2, <3>1, <3>4
    <3> QED BY <1>8, <3>3, <3>5 DEF InRuns
  <2>3. x < committed => x < u
    BY <1>0, <2>0
  <2> QED BY <2>1, <2>2, <2>3
<1>11. SetOf(u, c) = SetOf(committed, ahead) \union Abs!Below(u)
  BY <1>10, SameOffsets DEF SetOf, Abs!Below
<1> QED BY <1>8, <1>9, <1>11

-----------------------------------------------------------------------------
(* Snapshots and restarts.                                                 *)

\* The sets of the refinement mapping, in the words of the lemmas above.
LEMMA SetsAre ==
  /\ AckedSet = SetOf(committed, ahead)
  /\ \A p : SavedSet(p) = SetOf(p.committed, p.ahead)
BY DEF AckedSet, IsAcked, ContainsAhead, SavedSet, SetOf, InRuns

\* A snapshot is a record of a watermark and a well-formed list.
LEMMA SoundIs ==
  ASSUME NEW p \in Sound
  PROVE  p.committed \in Offsets /\ p.ahead \in RunLists /\ WellFormed(p.committed, p.ahead)
BY DEF Sound, Snapshots, RunLists

LEMMA NoSnapshotSound == NoSnapshot \in Sound
<1>1. <<>> \in Seq(Offsets \X Offsets) /\ 0 \in Offsets /\ Len(<<>>) = 0
  BY MaxOffsetAssumption DEF Offsets
<1>2. NoSnapshot \in Snapshots
  BY <1>1 DEF NoSnapshot, Snapshots
<1>3. WellFormed(0, <<>>)
  BY <1>1 DEF WellFormed
<1> QED BY <1>2, <1>3 DEF Sound, NoSnapshot

\* A payload cut to the slot is a sound snapshot that leaves out only
\* acknowledgements ahead of the watermark.
LEMMA PayloadIs ==
  ASSUME Listed
  PROVE  /\ SnapshotPayload \in Sound
         /\ SavedSet(SnapshotPayload) \subseteq AckedSet
         /\ Abs!Below(committed) \subseteq SavedSet(SnapshotPayload)
<1> DEFINE n == IF Len(ahead) < SlotRuns THEN Len(ahead) ELSE SlotRuns
           t == SubSeq(ahead, 1, n)
<1>0. ahead \in Seq(Offsets \X Offsets) /\ Len(ahead) \in Nat /\ SlotRuns \in Nat
  BY CursorConstants, RunsTyped DEF Listed, RunLists
<1>1. n \in Nat /\ n <= Len(ahead)
  BY <1>0
<1> HIDE DEF n
<1>2. /\ t \in RunLists /\ Len(t) = n
      /\ \A i \in 1 .. n : t[i] = ahead[i]
  <2>1. \A i \in 1 .. n : i \in 1 .. Len(ahead)
    BY <1>0, <1>1
  <2>2. /\ t \in Seq(Offsets \X Offsets)
        /\ Len(t) = IF 1 <= n THEN n - 1 + 1 ELSE 0
        /\ \A i \in 1 .. n - 1 + 1 : t[i] = ahead[1 + i - 1]
    BY <1>0, <1>1, <2>1, SubSeqProperties
  <2> QED BY <1>1, <2>2 DEF RunLists
<1> HIDE DEF t
<1>3. WellFormed(committed, t) /\ SetOf(committed, t) \subseteq SetOf(committed, ahead)
  BY <1>1, <1>2, PrefixKeeps DEF Listed
<1>4. SnapshotPayload = [committed |-> committed, ahead |-> t]
  BY DEF SnapshotPayload, t, n
<1>5. SnapshotPayload.committed = committed /\ SnapshotPayload.ahead = t
  BY <1>4
<1>6. SnapshotPayload \in Sound
  BY <1>2, <1>3, <1>4 DEF Listed, Sound, Snapshots, RunLists
<1>7. Abs!Below(committed) \subseteq SetOf(committed, t)
  BY <1>2, <1>3, WatermarkIsGap DEF Listed
<1> QED BY <1>3, <1>5, <1>6, <1>7, SetsAre

\* The watermark and the runs that `Resume' takes from a snapshot.
ClampedLow(p, f) == IF p.committed < f THEN p.committed ELSE f

ClampedRuns(p, f) ==
  Retain(p.ahead, {i \in 1 .. Len(p.ahead) :
                     p.ahead[i][1] > ClampedLow(p, f) /\ p.ahead[i][2] <= f})

\* What `resume_clamped_with_ahead` keeps of a snapshot: everything below both
\* its watermark and the durable head, and nothing above either.
LEMMA KeptIs ==
  ASSUME NEW p \in Sound, NEW f \in Offsets,
         NEW low, low = ClampedLow(p, f), NEW kept, kept = ClampedRuns(p, f)
  PROVE  /\ low \in Offsets /\ kept \in RunLists /\ WellFormed(low, kept)
         /\ SetOf(low, kept) \subseteq SetOf(p.committed, p.ahead) \intersect Abs!Below(f)
         /\ Abs!Below(p.committed) \intersect Abs!Below(f) \subseteq SetOf(low, kept)
<1> DEFINE s == p.ahead
           c == p.committed
           I == {i \in 1 .. Len(s) : s[i][1] > low /\ s[i][2] <= f}
<1>0. /\ s \in RunLists /\ c \in Offsets /\ WellFormed(c, s) /\ c \in Nat /\ f \in Nat
      /\ Len(s) \in Nat
      /\ \A i \in 1 .. Len(s) : s[i][1] \in Nat /\ s[i][2] \in Nat
  BY SoundIs, RunsTyped, MaxOffsetAssumption DEF Offsets
<1>1. low \in Offsets /\ low \in Nat /\ low <= c /\ low <= f /\ (low = c \/ low = f)
  BY <1>0 DEF ClampedLow
<1> HIDE DEF s, c
<1>2. Loose(c, s) /\ (Len(s) >= 1 => s[1][1] # c)
  BY <1>0, WellFormedIs
<1>3. ASSUME NEW i \in 1 .. Len(s) PROVE s[i][1] > c
  <2>1. s[i][1] >= c /\ (1 < i => s[1][2] < s[i][1])
    BY <1>0, <1>2, Above, Apart
  <2>2. 1 \in 1 .. Len(s) /\ s[1][2] > c /\ s[1][1] # c
    BY <1>0, <1>2, Above
  <2> QED BY <1>0, <2>1, <2>2
<1>4. PICK k \in 0 .. Len(s) : /\ \A i \in 1 .. k : s[i][2] <= f
                               /\ \A i \in k + 1 .. Len(s) : s[i][2] > f
  BY <1>0, <1>2, EndsSplit
<1>5. I = 1 .. k
  <2>1. ASSUME NEW i PROVE i \in I <=> i \in 1 .. k
    <3>1. ASSUME i \in I PROVE i \in 1 .. k
      <4>1. i \in 1 .. Len(s) /\ s[i][2] <= f
        BY <3>1
      <4>2. ~ (i \in k + 1 .. Len(s))
        <5>1. \A j \in k + 1 .. Len(s) : s[j][2] > f
          BY <1>4
        <5>2. s[i][2] \in Nat /\ ~ (s[i][2] > f)
          BY <1>0, <4>1
        <5> QED BY <5>1, <5>2, Zenon
      <4> QED BY <1>0, <1>4, <4>1, <4>2
    <3>2. ASSUME i \in 1 .. k PROVE i \in I
      <4>1. i \in 1 .. Len(s) /\ s[i][2] <= f
        BY <1>0, <1>4, <3>2
      <4>2. s[i][1] > low
        BY <1>0, <1>1, <1>3, <4>1
      <4> QED BY <4>1, <4>2
    <3> QED BY <3>1, <3>2
  <2> HIDE DEF I
  <2> QED BY <2>1
<1>6. /\ kept \in RunLists /\ Len(kept) = k /\ k \in Nat /\ k <= Len(s)
      /\ \A i \in 1 .. k : kept[i] = s[i]
  <2>1. kept = Retain(s, I)
    BY DEF s, ClampedRuns
  <2>2. k \in Nat /\ 0 + k <= Len(s) /\ 0 \in Nat /\ 0 + 1 = 1 /\ 0 + k = k
    BY <1>0
  <2> HIDE DEF I
  <2>4. kept = Retain(s, 0 + 1 .. 0 + k)
    BY <1>5, <2>1, <2>2
  <2>3. /\ kept \in RunLists /\ Len(kept) = k
        /\ \A i \in 1 .. k : kept[i] = s[0 + i]
    <3> HIDE DEF I
    <3>1. s \in RunLists
      BY <1>0
    <3> QED BY <2>2, <2>4, <3>1, RetainIs
  <2> QED BY <1>0, <2>2, <2>3
<1>7. WellFormed(c, kept) /\ SetOf(c, kept) \subseteq SetOf(c, s)
  BY <1>0, <1>6, PrefixKeeps
<1>8. WellFormed(low, kept)
  <2>1. \A i \in 1 .. Len(kept) : kept[i][1] > low
    BY <1>0, <1>1, <1>3, <1>6
  <2> QED BY <1>7, <2>1 DEF WellFormed
<1>9. ASSUME NEW o \in SetOf(low, kept) PROVE o \in SetOf(c, s) /\ o \in Abs!Below(f)
  <2>0. o \in Offsets /\ o \in Nat /\ (o < low \/ InRuns(kept, o))
    BY MaxOffsetAssumption DEF SetOf, Offsets
  <2>1. CASE o < low
    BY <1>0, <1>1, <2>0, <2>1, SameOffsets DEF SetOf, Abs!Below
  <2>2. CASE InRuns(kept, o)
    <3>1. PICK i \in 1 .. k : kept[i][1] <= o /\ o < kept[i][2]
      BY <1>6, <2>2 DEF InRuns
    <3>2. i \in 1 .. Len(s) /\ s[i][1] <= o /\ o < s[i][2] /\ s[i][2] <= f
      <4>1. kept[i] = s[i] /\ s[i][2] <= f
        BY <1>4, <1>6
      <4>2. i \in 1 .. Len(s)
        BY <1>0
      <4> QED BY <3>1, <4>1, <4>2
    <3>3. o < f /\ InRuns(s, o)
      BY <1>0, <2>0, <3>2 DEF InRuns
    <3> QED BY <2>0, <3>3, SameOffsets DEF SetOf, Abs!Below
  <2> QED BY <2>0, <2>1, <2>2
<1>10. Abs!Below(c) \intersect Abs!Below(f) \subseteq SetOf(low, kept)
  BY <1>1, SameOffsets DEF SetOf, Abs!Below
<1> QED BY <1>1, <1>6, <1>8, <1>9, <1>10 DEF s, c

\* A resume from a sound snapshot.
LEMMA ResumeIs ==
  ASSUME known' \in Sound, NEW f \in Offsets, Resume(f)
  PROVE  /\ Listed' /\ reply' = "none"
         /\ AckedSet' \subseteq SavedSet(known') \intersect Abs!Below(f)
         /\ Abs!Below(known'.committed) \intersect Abs!Below(f) \subseteq AckedSet'
<1> DEFINE low == ClampedLow(known', f)
           kept == ClampedRuns(known', f)
<1>1. /\ committed' = low /\ reply' = "none"
      /\ ahead' = IF WellFormed(low, kept) THEN kept ELSE <<>>
  BY DEF Resume, ClampedLow, ClampedRuns
<1>2. /\ low \in Offsets /\ kept \in RunLists /\ WellFormed(low, kept)
      /\ SetOf(low, kept) \subseteq SetOf(known'.committed, known'.ahead) \intersect Abs!Below(f)
      /\ Abs!Below(known'.committed) \intersect Abs!Below(f) \subseteq SetOf(low, kept)
  BY KeptIs
<1> HIDE DEF low, kept
<1>3. committed' = low /\ ahead' = kept
  BY <1>1, <1>2
<1>4. Listed'
  BY <1>2, <1>3 DEF Listed
<1>5. AckedSet' = SetOf(low, kept)
  BY <1>3 DEF AckedSet, IsAcked, ContainsAhead, SetOf, InRuns
<1>6. SavedSet(known') = SetOf(known'.committed, known'.ahead)
  BY DEF SavedSet, SetOf, InRuns
<1> QED BY <1>1, <1>2, <1>4, <1>5, <1>6

-----------------------------------------------------------------------------
(* The operations.                                                         *)

\* After any operation that leaves a well-formed list, the watermark is the
\* first gap of the acknowledged set.
LEMMA GapNext ==
  ASSUME Listed'
  PROVE  Abs!FirstGap(AckedSet') = committed' /\ AckedSet' \subseteq Abs!Ackable
<1>1. AckedSet' = SetOf(committed', ahead')
  BY DEF AckedSet, IsAcked, ContainsAhead, SetOf, InRuns
<1>2. ahead' \in RunLists /\ committed' \in Offsets /\ WellFormed(committed', ahead')
  BY DEF Listed, WellFormed
<1>3. /\ SetOf(committed', ahead') \subseteq Abs!Ackable
      /\ Abs!FirstGap(SetOf(committed', ahead')) = committed'
  BY <1>2, WatermarkIsGap
<1> QED BY <1>1, <1>3

\* An acknowledgement that is recorded adds its offset and nothing else, and at
\* the cap the list does not grow.
LEMMA RecordedIs ==
  ASSUME Listed, NEW o \in Offsets, NEW cap \in Nat, AckRecorded(o, cap)
  PROVE  /\ Listed' /\ AckedSet' = AckedSet \union {o}
         /\ o \in Abs!Ackable \ AckedSet
         /\ Len(ahead) >= cap => Len(ahead') <= Len(ahead)
<1> DEFINE t == Insert(o)
           c == Advance(committed, t)
<1>0. /\ ~ IsAcked(o) /\ o # MaxOffset /\ ~ Sheds(o, cap)
      /\ committed' = c.committed /\ ahead' = c.ahead
  BY DEF AckRecorded, Install
<1>1. Inserted(o, t)
  BY <1>0, InsertIs
<1> HIDE DEF t
<1>2. t \in RunLists /\ Loose(committed, t) /\ committed \in Offsets /\ ahead \in RunLists
  BY <1>1 DEF Inserted, Listed
<1>3. /\ c.committed \in Offsets /\ c.ahead \in RunLists
      /\ WellFormed(c.committed, c.ahead)
      /\ SetOf(c.committed, c.ahead) = SetOf(committed, t)
      /\ Len(c.ahead) <= Len(t)
      /\ t # <<>> /\ t[1][1] = committed => Len(c.ahead) = Len(t) - 1
  BY <1>2, AdvanceKeeps
<1> HIDE DEF c
<1>4. Listed'
  BY <1>0, <1>3 DEF Listed, WellFormed
<1>5. SetOf(committed, t) = SetOf(committed, ahead) \union {o}
  <2>1. \A x \in Offsets : InRuns(t, x) <=> x = o \/ InRuns(ahead, x)
    BY <1>1 DEF Inserted
  <2> QED BY <2>1 DEF SetOf
<1>6. AckedSet' = SetOf(c.committed, c.ahead)
  BY <1>0 DEF AckedSet, IsAcked, ContainsAhead, SetOf, InRuns
<1>7. o \in Abs!Ackable \ AckedSet
  BY <1>0, MaxOffsetAssumption DEF AckedSet, Abs!Ackable, Offsets
<1>8. ASSUME Len(ahead) >= cap PROVE Len(ahead') <= Len(ahead)
  <2>0. Len(ahead) \in Nat /\ Len(t) \in Nat /\ Len(c.ahead) \in Nat
    BY <1>2, <1>3, RunsTyped
  <2>1. o = committed \/ MergesLeft(o) \/ MergesRight(o)
    BY <1>0, <1>8 DEF Sheds
  <2>2. CASE o = committed
    <3>1. Len(c.ahead) = Len(t) - 1 /\ Len(t) <= Len(ahead) + 1
      BY <1>1, <1>3, <2>2 DEF Inserted
    <3> QED BY <1>0, <2>0, <3>1
  <2>3. CASE MergesLeft(o) \/ MergesRight(o)
    <3>1. Len(c.ahead) <= Len(t) /\ Len(t) <= Len(ahead)
      BY <1>1, <1>3, <2>3 DEF Inserted
    <3> QED BY <1>0, <2>0, <3>1
  <2> QED BY <2>1, <2>2, <2>3
<1> QED BY <1>3, <1>4, <1>5, <1>6, <1>7, <1>8, SetsAre

\* An acknowledgement is refused only when no neighbour of it is acknowledged
\* ahead of the watermark.
LEMMA RefusedIs ==
  ASSUME Listed, NEW o \in Offsets, ~ IsAcked(o), ~ MergesLeft(o), ~ MergesRight(o)
  PROVE  ~ Abs!Neighbour(o, AckedSet \ Abs!Below(committed))
<1> SUFFICES ASSUME NEW x \in AckedSet \ Abs!Below(committed), x + 1 = o \/ o + 1 = x
             PROVE  FALSE
  BY DEF Abs!Neighbour
<1> DEFINE p == PartitionPoint(o)
<1>a. /\ p \in 0 .. Len(ahead) /\ o \in Nat /\ committed \in Nat /\ o >= committed
      /\ Len(ahead) \in Nat
      /\ \A j \in 1 .. Len(ahead) :
           /\ ahead[j][1] \in Nat /\ ahead[j][2] \in Nat /\ ahead[j][1] < ahead[j][2]
           /\ j <= p => ahead[j][2] <= o
           /\ j > p => ahead[j][1] > o
      /\ \A i, j \in 1 .. Len(ahead) : i < j => ahead[i][2] < ahead[j][1]
      /\ ~ (p > 0 /\ ahead[p][2] = o)
      /\ ~ (p < Len(ahead) /\ ahead[p + 1][1] = o + 1)
  BY Around
<1> HIDE DEF p
<1>0. x \in Offsets /\ x \in Nat /\ ~ (x < committed) /\ (x < committed \/ ContainsAhead(x))
  BY SameOffsets, MaxOffsetAssumption DEF AckedSet, IsAcked, Abs!Below, Offsets
<1>1. PICK i \in 1 .. Len(ahead) : ahead[i][1] <= x /\ x < ahead[i][2]
  BY <1>0 DEF ContainsAhead
<1>2. ~ (ahead[i][1] <= o /\ o < ahead[i][2])
  BY DEF IsAcked, ContainsAhead
<1>3. ahead[i][1] \in Nat /\ ahead[i][2] \in Nat /\ i \in Nat /\ p \in Nat
  BY <1>a
<1>4. CASE x + 1 = o
  <2>1. i <= p /\ ahead[i][2] = o
    <3>1. ~ (i > p)
      BY <1>a, <1>0, <1>1, <1>3, <1>4
    <3>2. i <= p /\ ahead[i][2] <= o
      BY <1>a, <1>3, <3>1
    <3> QED BY <1>a, <1>0, <1>1, <1>3, <1>4, <3>2
  <2>2. i < p
    BY <1>a, <1>3, <2>1
  <2>3. p \in 1 .. Len(ahead)
    BY <1>a, <2>2, <1>3
  <2>4. /\ ahead[i][2] < ahead[p][1] /\ ahead[p][1] < ahead[p][2] /\ ahead[p][2] <= o
        /\ ahead[p][1] \in Nat /\ ahead[p][2] \in Nat
    BY <1>a, <1>3, <2>2, <2>3
  <2> QED BY <1>a, <1>3, <2>1, <2>4
<1>5. CASE o + 1 = x
  <2>1. ahead[i][1] = o + 1
    BY <1>a, <1>0, <1>1, <1>2, <1>3, <1>5
  <2>2. i > p
    <3>1. i <= p => ahead[i][2] <= o
      BY <1>a
    <3>2. ahead[i][1] < ahead[i][2]
      BY <1>a
    <3> QED BY <1>a, <1>3, <2>1, <3>1, <3>2
  <2>3. p + 1 \in 1 .. Len(ahead) /\ p < Len(ahead) /\ p + 1 < i
    <3>1. p + 1 \in 1 .. Len(ahead) /\ p < Len(ahead) /\ p + 1 <= i
      BY <1>a, <1>3, <2>2
    <3>2. p + 1 # i
      BY <1>a, <2>1, <3>1
    <3> QED BY <1>3, <3>1, <3>2
  <2>4. /\ ahead[p + 1][1] > o /\ ahead[p + 1][1] < ahead[p + 1][2]
        /\ ahead[p + 1][2] < ahead[i][1]
        /\ ahead[p + 1][1] \in Nat /\ ahead[p + 1][2] \in Nat
    <3>1. p + 1 > p
      BY <1>3
    <3> QED BY <1>a, <2>3, <3>1
  <2> QED BY <1>a, <2>1, <2>4, SMTT(30)
<1> QED BY <1>4, <1>5

\* A cumulative acknowledgement adds everything below it.
LEMMA CommitIs ==
  ASSUME Listed, NEW u \in Offsets, CommitUpTo(u)
  PROVE  /\ Listed' /\ AckedSet' = AckedSet \union Abs!Below(u)
         /\ reply' = IF u > committed THEN "Advanced" ELSE "Unmoved"
<1>0. u \in Nat /\ committed \in Nat /\ committed \in Offsets
  BY MaxOffsetAssumption DEF Offsets, Listed
<1>1. CASE u > committed
  <2> DEFINE s == Clip(u)
             c == Advance(u, s)
  <2>1. /\ s \in RunLists /\ Loose(u, s)
        /\ SetOf(u, s) = SetOf(committed, ahead) \union Abs!Below(u)
    BY <1>1, ClipIs
  <2>2. /\ committed' = AbsorbAll(u, s).committed /\ ahead' = AbsorbAll(u, s).ahead
        /\ reply' = "Advanced"
    BY <1>0, <1>1 DEF CommitUpTo, Install
  <2> HIDE DEF s
  <2>3. committed' = c.committed /\ ahead' = c.ahead
    BY <2>1, <2>2, AbsorbIsAdvance
  <2>4. /\ c.committed \in Offsets /\ c.ahead \in RunLists
        /\ WellFormed(c.committed, c.ahead)
        /\ SetOf(c.committed, c.ahead) = SetOf(u, s)
    BY <2>1, AdvanceKeeps
  <2> HIDE DEF c
  <2>5. Listed'
    BY <2>3, <2>4 DEF Listed, WellFormed
  <2>6. AckedSet' = SetOf(c.committed, c.ahead)
    BY <2>3 DEF AckedSet, IsAcked, ContainsAhead, SetOf, InRuns
  <2> QED BY <1>1, <2>1, <2>2, <2>4, <2>5, <2>6, SetsAre
<1>2. CASE ~ (u > committed)
  <2>1. committed' = committed /\ ahead' = ahead /\ reply' = "Unmoved"
    BY <1>2 DEF CommitUpTo
  <2>2. Listed'
    BY <2>1 DEF Listed, WellFormed
  <2>3. AckedSet' = AckedSet
    BY <2>1 DEF AckedSet, IsAcked, ContainsAhead
  <2>4. Abs!Below(u) \subseteq AckedSet
    <3> SUFFICES ASSUME NEW x \in Offsets, x < u PROVE IsAcked(x)
      BY SameOffsets DEF Abs!Below, AckedSet
    <3>1. x \in Nat
      BY MaxOffsetAssumption DEF Offsets
    <3> QED BY <1>0, <1>2, <3>1 DEF IsAcked
  <2> QED BY <1>2, <2>1, <2>2, <2>3, <2>4
<1> QED BY <1>1, <1>2

-----------------------------------------------------------------------------
(* The checkpoint file under the cursor.                                   *)

\* The file's operations do not depend on the set of payloads it is told of.
LEMMA SameFile ==
  /\ File!Init <=> FileProofs!Init
  /\ \A p : (File!Write(p) <=> FileProofs!Write(p))
  /\ \A p : (File!WriteFails(p) <=> FileProofs!WriteFails(p))
  /\ File!Kill <=> FileProofs!Kill
  /\ File!PowerCut <=> FileProofs!PowerCut
  /\ File!CrashSafe <=> FileProofs!CrashSafe
BY DEF File!Init, File!Write, File!WriteFails, File!Kill, File!PowerCut, File!CrashSafe,
       File!Open, File!Newest, File!ValidSlots, File!Slots, File!Blank, File!Torn,
       File!Written, File!Target, File!Sibling, File!SiblingSynced, File!CutFiles,
       File!Recoverable, File!Damaged,
       FileProofs!Init, FileProofs!Write, FileProofs!WriteFails, FileProofs!Kill,
       FileProofs!PowerCut, FileProofs!CrashSafe,
       FileProofs!Open, FileProofs!Newest, FileProofs!ValidSlots, FileProofs!Slots,
       FileProofs!Blank, FileProofs!Torn, FileProofs!Written, FileProofs!Target,
       FileProofs!Sibling, FileProofs!SiblingSynced, FileProofs!CutFiles,
       FileProofs!Recoverable, FileProofs!Damaged

\* Every step of the cursor is a step of its file, or leaves the file alone.
LEMMA FileStep ==
  ASSUME Listed, [Next]_vars
  PROVE  [FileProofs!Next]_(FileProofs!vars)
<1>1. ASSUME UNCHANGED fileVars PROVE [FileProofs!Next]_(FileProofs!vars)
  BY <1>1 DEF fileVars, FileProofs!vars
<1>2. ASSUME NEW o \in Offsets, NEW cap, AckBounded(o, cap) PROVE UNCHANGED fileVars
  BY <1>2 DEF AckBounded, AckDuplicate, AckShed, AckRecorded
<1>3. ASSUME NEW u \in Offsets, CommitUpTo(u) PROVE UNCHANGED fileVars
  BY <1>3 DEF CommitUpTo
<1>4. ASSUME NEW f \in Offsets, Restart(f) PROVE FileProofs!Next
  BY <1>4, SameFile DEF Restart, FileProofs!Next
<1>5. CASE Checkpoint \/ CheckpointFails
  <2>1. File!Write(SnapshotPayload) \/ File!WriteFails(SnapshotPayload)
    BY <1>5 DEF Checkpoint, CheckpointFails
  <2>2. FileProofs!Write(SnapshotPayload) \/ FileProofs!WriteFails(SnapshotPayload)
    BY <2>1, SameFile
  <2>3. SnapshotPayload \in Sound
    BY PayloadIs
  <2> QED BY <2>2, <2>3 DEF FileProofs!Next
<1>6. CASE UNCHANGED vars
  BY <1>1, <1>6 DEF vars
<1> QED BY <1>1, <1>2, <1>3, <1>4, <1>5, <1>6 DEF Next

\* What the file knows and has attempted are sound snapshots.
LEMMA FileHoldsSound ==
  ASSUME FileProofs!TypeInv
  PROVE  known \in Sound /\ attempted \subseteq Sound
BY NoSnapshotSound DEF FileProofs!TypeInv

\* What holds with no assumption on power cuts.
CursorInv == Listed /\ FileProofs!TypeInv

LEMMA CursorInit == Init => CursorInv
<1> SUFFICES ASSUME Init PROVE CursorInv
  OBVIOUS
<1>1. Listed
  <2>1. committed = NoSnapshot.committed /\ ahead = NoSnapshot.ahead
    BY DEF Init, NoSnapshot
  <2> QED BY <2>1, NoSnapshotSound, SoundIs DEF Listed
<1>2. FileProofs!FileInv
  BY SameFile, FileProofs!InitInv DEF Init
<1> QED BY <1>1, <1>2 DEF CursorInv, FileProofs!FileInv

LEMMA CursorKeeps == CursorInv /\ [Next]_vars => CursorInv'
<1> SUFFICES ASSUME CursorInv, [Next]_vars PROVE CursorInv'
  OBVIOUS
<1> USE DEF CursorInv
<1>1. FileProofs!TypeInv'
  BY FileStep, FileProofs!TypeKeeps
<1>2. ASSUME committed' = committed, ahead' = ahead PROVE Listed'
  BY <1>2 DEF Listed, WellFormed
<1>3. ASSUME NEW o \in Offsets, NEW cap \in {MaxRuns, MaxOffset}, AckBounded(o, cap)
      PROVE  Listed'
  <2>1. cap \in Nat
    BY CursorConstants, MaxOffsetAssumption
  <2>2. CASE AckRecorded(o, cap)
    BY <2>1, <2>2, RecordedIs
  <2>3. CASE AckDuplicate(o) \/ AckShed(o, cap)
    BY <1>2, <2>3 DEF AckDuplicate, AckShed
  <2> QED BY <1>3, <2>2, <2>3 DEF AckBounded
<1>4. ASSUME NEW u \in Offsets, CommitUpTo(u) PROVE Listed'
  BY <1>4, CommitIs
<1>5. ASSUME NEW f \in Offsets, Restart(f) PROVE Listed'
  <2>1. known' \in Sound
    BY <1>1, NoSnapshotSound DEF FileProofs!TypeInv
  <2> QED BY <1>5, <2>1, ResumeIs DEF Restart
<1>6. CASE Checkpoint \/ CheckpointFails
  <2>1. committed' = committed /\ ahead' = ahead
    BY <1>6 DEF Checkpoint, CheckpointFails
  <2> QED BY <1>1, <1>2, <2>1
<1>7. CASE UNCHANGED vars
  <2>1. committed' = committed /\ ahead' = ahead
    BY <1>7 DEF vars
  <2> QED BY <1>1, <1>2, <2>1
<1> QED BY <1>1, <1>3, <1>4, <1>5, <1>6, <1>7 DEF Next

\* For every offset space, run cap and slot size, however acknowledgements,
\* checkpoints, crashes and resumes interleave (power cuts after a kill
\* included): the run list stays sorted, disjoint, non-adjacent and above the
\* watermark, and so does every snapshot in the checkpoint file.
THEOREM ShapeHolds == Spec => []ShapeOK
<1>1. CursorInv => ShapeOK
  <2> SUFFICES ASSUME CursorInv PROVE ShapeOK
    OBVIOUS
  <2>1. \A i \in 1 .. Len(ahead) : ahead[i][2] \in Offsets
    BY RunsTyped DEF CursorInv, Listed
  <2>2. \A p \in {known} \union attempted : WellFormed(p.committed, p.ahead)
    BY FileHoldsSound, SoundIs DEF CursorInv
  <2> QED BY <2>1, <2>2 DEF ShapeOK, CursorInv, Listed
<1> QED BY <1>1, CursorInit, CursorKeeps, PTL DEF Spec

\* A bounded acknowledgement (ack_bounded) at the run cap never lengthens the
\* list: only one that fills the watermark or touches a run gets through.
THEOREM CapHolds == Spec => CapBoundsRuns
<1>1. CursorInv /\ [Next]_vars
        => [\A o \in Offsets : AckBounded(o, MaxRuns) /\ Len(ahead) >= MaxRuns
              => Len(ahead') <= Len(ahead)]_vars
  <2> SUFFICES ASSUME CursorInv, NEW o \in Offsets, AckBounded(o, MaxRuns),
                      Len(ahead) >= MaxRuns
               PROVE  Len(ahead') <= Len(ahead)
    OBVIOUS
  <2>0. Listed /\ MaxRuns \in Nat /\ Len(ahead) \in Nat
    BY CursorConstants, RunsTyped DEF CursorInv, Listed
  <2>1. CASE AckRecorded(o, MaxRuns)
    BY <2>0, <2>1, RecordedIs
  <2>2. CASE AckDuplicate(o) \/ AckShed(o, MaxRuns)
    BY <2>0, <2>2 DEF AckDuplicate, AckShed
  <2> QED BY <2>1, <2>2 DEF AckBounded
<1> QED BY <1>1, CursorInit, CursorKeeps, PTL DEF Spec, CapBoundsRuns

\* With the file's own invariant, once a power cut cannot follow a kill.
RefInv == Listed /\ FileProofs!FileInv

LEMMA RefInit == Init => RefInv
BY CursorInit, SameFile, FileProofs!InitInv DEF Init, CursorInv, RefInv

LEMMA RefKeeps ==
  ASSUME ~ CutAfterKill
  PROVE  RefInv /\ [Next]_vars => RefInv'
<1> SUFFICES ASSUME RefInv, [Next]_vars PROVE RefInv'
  OBVIOUS
<1>1. CursorInv
  BY DEF RefInv, CursorInv, FileProofs!FileInv
<1>2. Listed'
  BY <1>1, CursorKeeps DEF CursorInv
<1>3. FileProofs!FileInv'
  BY <1>1, FileStep, FileProofs!StepKeeps DEF RefInv
<1> QED BY <1>2, <1>3 DEF RefInv

\* Unless power fails on a slot that was read back from a killed writer's cache,
\* any crash of the cursor's checkpoint file leaves the last confirmed snapshot
\* or a later attempt, for any number of runs and checkpoints.
THEOREM CursorCrashSafe ==
  ASSUME ~ CutAfterKill
  PROVE  Spec => []CrashSafe
<1>1. RefInv => CrashSafe
  BY SameFile, FileProofs!SafeByInv DEF RefInv, CrashSafe
<1>2. RefInv /\ [Next]_vars => RefInv'
  BY RefKeeps
<1> QED BY <1>1, <1>2, RefInit, PTL DEF Spec

-----------------------------------------------------------------------------
(* The refinement.                                                         *)

SavedSets == {SavedSet(p) : p \in {known} \union attempted}

\* A checkpoint, written or failed, saves a snapshot the abstract cursor allows.
LEMMA CheckpointMaps ==
  ASSUME RefInv, Checkpoint \/ CheckpointFails
  PROVE  Abs!Save \/ Abs!SaveFails
<1>0. Listed
  BY DEF RefInv
<1>1. committed' = committed /\ ahead' = ahead /\ reply' = reply
  BY DEF Checkpoint, CheckpointFails
<1>2. AckedSet' = AckedSet
  BY <1>1 DEF AckedSet, IsAcked, ContainsAhead
<1> DEFINE S == SavedSet(SnapshotPayload)
<1>3. S \in Abs!Snapshots
  BY <1>0, PayloadIs DEF Abs!Snapshots
<1>4. CASE Checkpoint
  <2>1. known' = SnapshotPayload /\ attempted' = {}
    BY <1>4 DEF Checkpoint, File!Write
  <2>2. SavedSets' = {S}
    BY <2>1 DEF SavedSets, SavedSet
  <2> QED BY <1>1, <1>2, <1>3, <2>2 DEF Abs!Save, SavedSets
<1>5. CASE CheckpointFails
  <2>1. known' = known /\ attempted' = attempted \union {SnapshotPayload}
    BY <1>5 DEF CheckpointFails, File!WriteFails
  <2>2. SavedSets' = SavedSets \union {S}
    BY <2>1 DEF SavedSets, SavedSet
  <2> QED BY <1>1, <1>2, <1>3, <2>2 DEF Abs!SaveFails, SavedSets
<1> QED BY <1>4, <1>5

\* Open finds the last confirmed snapshot or a later attempt.
LEMMA OpenFinds ==
  ASSUME ~ CutAfterKill, RefInv, File!Kill \/ File!PowerCut
  PROVE  known' \in {known} \union attempted /\ attempted' \subseteq attempted
<1>0. File!CrashSafe
  BY SameFile, FileProofs!SafeByInv DEF RefInv
<1>1. CASE File!Kill
  BY <1>0, <1>1 DEF File!Kill, File!Open, File!CrashSafe, File!Recoverable
<1>2. CASE File!PowerCut
  <2>1. PICK file \in File!CutFiles : File!Open(file)
    BY <1>2 DEF File!PowerCut
  <2>2. File!Recoverable(file)
    BY <1>0, <1>2 DEF File!PowerCut, File!CrashSafe
  <2> QED BY <1>2, <2>1, <2>2 DEF File!PowerCut, File!Open, File!Recoverable
<1> QED BY <1>1, <1>2

\* A restart resumes from one of the saved sets, clamped to the durable head.
LEMMA RestartMaps ==
  ASSUME ~ CutAfterKill, RefInv, NEW f \in Offsets, Restart(f)
  PROVE  Abs!Restart(f)
<1>1. known' \in {known} \union attempted /\ attempted' \subseteq attempted
  BY OpenFinds DEF Restart
<1>2. known' \in Sound
  BY <1>1, FileHoldsSound DEF RefInv, FileProofs!FileInv
<1>3. /\ Listed' /\ reply' = "none"
      /\ AckedSet' \subseteq SavedSet(known') \intersect Abs!Below(f)
      /\ Abs!Below(known'.committed) \intersect Abs!Below(f) \subseteq AckedSet'
  BY <1>2, ResumeIs DEF Restart
<1>4. Abs!FirstGap(SavedSet(known')) = known'.committed
  <2>1. Abs!FirstGap(SetOf(known'.committed, known'.ahead)) = known'.committed
    BY <1>2, SoundIs, WatermarkIsGap
  <2>2. SavedSet(known') = SetOf(known'.committed, known'.ahead)
    BY DEF SavedSet, SetOf, InRuns
  <2> QED BY <2>1, <2>2
<1>5. committed' = Abs!FirstGap(AckedSet')
  BY <1>3, GapNext
<1>6. /\ SavedSet(known') \in SavedSets /\ SavedSet(known') \in SavedSets'
      /\ SavedSets' \subseteq SavedSets
  BY <1>1 DEF SavedSets, SavedSet
<1> QED BY <1>3, <1>4, <1>5, <1>6 DEF Abs!Restart, SavedSets

\* An acknowledgement is recorded, ignored or refused as the set allows.
LEMMA AckMaps ==
  ASSUME RefInv, NEW o \in Offsets, NEW cap \in Nat, AckBounded(o, cap)
  PROVE  Abs!Record(o) \/ Abs!Ignore(o) \/ Abs!Refuse(o)
<1>0. Listed /\ known' = known /\ attempted' = attempted
  BY DEF RefInv, AckBounded, AckDuplicate, AckShed, AckRecorded, fileVars
<1>1. SavedSets' = SavedSets
  BY <1>0 DEF SavedSets, SavedSet
<1>2. ASSUME ahead' = ahead, committed' = committed PROVE AckedSet' = AckedSet
  BY <1>2 DEF AckedSet, IsAcked, ContainsAhead
<1>3. CASE AckRecorded(o, cap)
  <2>1. /\ Listed' /\ AckedSet' = AckedSet \union {o}
        /\ o \in Abs!Ackable \ AckedSet /\ reply' = "Recorded"
    BY <1>0, <1>3, RecordedIs DEF AckRecorded
  <2>2. committed' = Abs!FirstGap(AckedSet \union {o})
    BY <2>1, GapNext
  <2> QED BY <1>1, <2>1, <2>2 DEF Abs!Record, Abs!Become, SavedSets
<1>4. CASE AckDuplicate(o)
  <2>1. /\ ahead' = ahead /\ committed' = committed /\ reply' = "Duplicate"
        /\ o \in AckedSet \union {MaxOffset}
    BY <1>4 DEF AckDuplicate, AckedSet
  <2>2. AckedSet' = AckedSet
    BY <1>2, <2>1
  <2> QED BY <1>1, <2>1, <2>2 DEF Abs!Ignore, SavedSets
<1>5. CASE AckShed(o, cap)
  <2>1. /\ ahead' = ahead /\ committed' = committed /\ reply' = "Shed"
        /\ ~ IsAcked(o) /\ o # MaxOffset /\ o # committed
        /\ ~ MergesLeft(o) /\ ~ MergesRight(o)
    BY <1>5 DEF AckShed, Sheds
  <2>2. AckedSet' = AckedSet
    BY <1>2, <2>1
  <2>3. ~ Abs!Neighbour(o, AckedSet \ Abs!Below(committed))
    BY <1>0, <2>1, RefusedIs
  <2>4. o \in Abs!Ackable \ AckedSet
    BY <2>1, MaxOffsetAssumption DEF AckedSet, Abs!Ackable, Offsets
  <2> QED BY <1>1, <2>1, <2>2, <2>3, <2>4 DEF Abs!Refuse, SavedSets
<1> QED BY <1>3, <1>4, <1>5 DEF AckBounded

LEMMA CommitMaps ==
  ASSUME RefInv, NEW u \in Offsets, CommitUpTo(u)
  PROVE  Abs!Cumulative(u)
<1>0. Listed /\ known' = known /\ attempted' = attempted
  BY DEF RefInv, CommitUpTo, fileVars
<1>1. SavedSets' = SavedSets
  BY <1>0 DEF SavedSets, SavedSet
<1>2. /\ Listed' /\ AckedSet' = AckedSet \union Abs!Below(u)
      /\ reply' = IF u > committed THEN "Advanced" ELSE "Unmoved"
  BY <1>0, CommitIs
<1>3. committed' = Abs!FirstGap(AckedSet \union Abs!Below(u))
  BY <1>2, GapNext
<1> QED BY <1>1, <1>2, <1>3 DEF Abs!Cumulative, Abs!Become, SavedSets

\* The cursor of cursor.rs on its checkpoint file implements the set of
\* acknowledged offsets: recorded, duplicate, shed and cumulative acks, cut
\* snapshots, failed and torn checkpoint writes, kills, power cuts and clamped
\* resumes are each a step the set allows, for every value of the constants.
THEOREM CursorImplementsAckSet ==
  ASSUME ~ CutAfterKill
  PROVE  Spec => ImplementsAckSet
<1>1. Init => Abs!Init
  <2> SUFFICES ASSUME Init PROVE Abs!Init
    OBVIOUS
  <2>1. /\ committed = 0 /\ ahead = <<>> /\ reply = "none"
        /\ known = NoSnapshot /\ attempted = {}
    BY DEF Init, File!Init
  <2>2. AckedSet = {}
    <3>1. \A o \in Offsets : ~ (o < 0)
      BY MaxOffsetAssumption DEF Offsets
    <3> QED BY <2>1, <3>1 DEF AckedSet, IsAcked, ContainsAhead
  <2>3. SavedSet(NoSnapshot) = {}
    <3>1. \A o \in Offsets : ~ (o < 0)
      BY MaxOffsetAssumption DEF Offsets
    <3> QED BY <3>1 DEF SavedSet, NoSnapshot
  <2>4. SavedSets = {{}}
    BY <2>1, <2>3 DEF SavedSets
  <2> QED BY <2>1, <2>2, <2>4 DEF Abs!Init, SavedSets
<1>2. RefInv /\ [Next]_vars => [Abs!Next]_(Abs!vars)
  <2> SUFFICES ASSUME RefInv, [Next]_vars PROVE [Abs!Next]_(Abs!vars)
    OBVIOUS
  <2>1. ASSUME NEW o \in Offsets, NEW cap \in {MaxRuns, MaxOffset}, AckBounded(o, cap)
        PROVE  Abs!Next
    <3>1. cap \in Nat
      BY CursorConstants, MaxOffsetAssumption
    <3>2. Abs!Record(o) \/ Abs!Ignore(o) \/ Abs!Refuse(o)
      BY <2>1, <3>1, AckMaps
    <3> QED BY <3>2, SameOffsets DEF Abs!Next
  <2>2. ASSUME NEW u \in Offsets, CommitUpTo(u) PROVE Abs!Next
    BY <2>2, CommitMaps, SameOffsets DEF Abs!Next
  <2>3. ASSUME NEW f \in Offsets, Restart(f) PROVE Abs!Next
    BY <2>3, RestartMaps, SameOffsets DEF Abs!Next
  <2>4. CASE Checkpoint \/ CheckpointFails
    BY <2>4, CheckpointMaps DEF Abs!Next
  <2>5. CASE UNCHANGED vars
    BY <2>5 DEF vars, fileVars, Abs!vars, AckedSet, IsAcked, ContainsAhead, SavedSet
  <2> QED BY <2>1, <2>2, <2>3, <2>4, <2>5 DEF Next
<1>3. RefInv /\ [Next]_vars => RefInv'
  BY RefKeeps
<1> QED BY <1>1, <1>2, <1>3, RefInit, PTL DEF Spec, ImplementsAckSet, Abs!Spec
=============================================================================
