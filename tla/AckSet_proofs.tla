--------------------------- MODULE AckSet_proofs ---------------------------
(***************************************************************************)
(* The watermark of a set of acknowledged offsets is its first gap, for    *)
(* every size of the offset space.                                         *)
(***************************************************************************)
EXTENDS AckSet, WellFoundedInduction, TLAPS

\* Every non-empty set of naturals has a least element (< is well-founded).
LEMMA LeastNatural ==
  ASSUME NEW T \in SUBSET Nat, T # {}
  PROVE  \E x \in T : \A y \in T : x <= y
<1>1. OpToRel(<, Nat) = {ss \in Nat \X Nat : ss[1] < ss[2]}
  BY DEF OpToRel
<1>2. PICK x \in T : \A y \in T : ~ (<<y, x>> \in OpToRel(<, Nat))
  BY NatLessThanWellFounded, WFMin, Zenon
<1>3. \A y \in T : y \in Nat /\ x \in Nat /\ ~ (y < x)
  BY <1>1, <1>2
<1> QED BY <1>3

\* FirstGap is what its name says as long as the exhausted offset is outside S.
LEMMA FirstGapIsGap ==
  ASSUME NEW S, MaxOffset \notin S
  PROVE  /\ FirstGap(S) \in Offsets
         /\ FirstGap(S) \notin S
         /\ Below(FirstGap(S)) \subseteq S
<1> DEFINE T == Offsets \ S
<1>1. T \in SUBSET Nat /\ T # {}
  BY MaxOffsetAssumption DEF Offsets
<1> HIDE DEF T
<1>2. PICK n \in T : \A m \in T : n <= m
  BY <1>1, LeastNatural
<1>3. \E k \in Offsets : k \notin S /\ Below(k) \subseteq S
  BY <1>2, MaxOffsetAssumption DEF T, Offsets, Below
<1> QED BY <1>3 DEF FirstGap

\* The first gap of a larger set is not smaller.
LEMMA FirstGapMonotonic ==
  ASSUME NEW S, NEW U, S \subseteq U, MaxOffset \notin U
  PROVE  FirstGap(S) <= FirstGap(U)
<1>1. MaxOffset \notin S
  OBVIOUS
<1>2. /\ FirstGap(S) \in Offsets /\ Below(FirstGap(S)) \subseteq S
      /\ FirstGap(U) \in Offsets /\ FirstGap(U) \notin U
  BY <1>1, FirstGapIsGap
<1> QED BY <1>2, MaxOffsetAssumption DEF Offsets, Below

\* Every operation of the cursor keeps the type.
LEMMA StepKeepsType == TypeOK /\ [Next]_vars => TypeOK'
<1> SUFFICES ASSUME TypeOK, [Next]_vars PROVE TypeOK'
  OBVIOUS
<1> USE MaxOffsetAssumption
<1>a. ASSUME NEW S, S \subseteq Ackable, watermark' = FirstGap(S)
      PROVE  watermark' \in Offsets
  <2>1. MaxOffset \notin S
    BY <1>a DEF Ackable
  <2> QED BY <2>1, <1>a, FirstGapIsGap
<1>b. ASSUME NEW n \in Offsets PROVE Below(n) \subseteq Ackable
  BY DEF Below, Offsets, Ackable
<1>1. ASSUME NEW o \in Offsets, Record(o) PROVE TypeOK'
  <2>1. acked \union {o} \subseteq Ackable
    BY <1>1 DEF TypeOK, Record
  <2> QED BY <1>1, <2>1, <1>a DEF TypeOK, Record, Become
<1>2. ASSUME NEW o \in Offsets, Ignore(o) PROVE TypeOK'
  BY <1>2 DEF TypeOK, Ignore
<1>3. ASSUME NEW o \in Offsets, Refuse(o) PROVE TypeOK'
  BY <1>3 DEF TypeOK, Refuse
<1>4. ASSUME NEW n \in Offsets, Cumulative(n) PROVE TypeOK'
  <2>1. acked \union Below(n) \subseteq Ackable
    BY <1>b DEF TypeOK
  <2> QED BY <1>4, <2>1, <1>a DEF TypeOK, Cumulative, Become
<1>5. ASSUME NEW n \in Offsets, Restart(n) PROVE TypeOK'
  <2>1. acked' \subseteq Ackable
    BY <1>5 DEF TypeOK, Restart
  <2> QED BY <1>5, <2>1, <1>a DEF TypeOK, Restart
<1>6. CASE Save \/ SaveFails
  BY <1>6 DEF TypeOK, Save, SaveFails, Snapshots
<1>7. CASE UNCHANGED vars
  BY <1>7 DEF TypeOK, vars
<1> QED BY <1>1, <1>2, <1>3, <1>4, <1>5, <1>6, <1>7 DEF Next

\* The empty cursor has the type.
LEMMA InitType == Init => TypeOK
BY MaxOffsetAssumption DEF Init, TypeOK, Offsets

\* Type correctness of the abstract cursor, for every offset space.
THEOREM TypeCorrect == Spec => []TypeOK
BY InitType, StepKeepsType, PTL DEF Spec

\* The watermark is the first gap of the acknowledged set.
GapInv == watermark = FirstGap(acked)

\* Every operation re-derives the watermark from the set it leaves behind.
LEMMA StepKeepsGap == TypeOK /\ GapInv /\ [Next]_vars => GapInv'
BY DEF GapInv, Next, vars, Record, Ignore, Refuse, Cumulative, Restart, Save,
       SaveFails, Become

\* The empty set's first gap is offset 0.
LEMMA InitGap == Init => GapInv
<1>1. ASSUME acked = {} PROVE FirstGap(acked) = 0
  <2>1. /\ FirstGap({}) \in Offsets
        /\ Below(FirstGap({})) \subseteq {}
    BY FirstGapIsGap
  <2> QED BY <1>1, <2>1, MaxOffsetAssumption DEF Offsets, Below
<1> QED BY <1>1 DEF Init, GapInv

\* Outside a restart nothing that was acknowledged is forgotten and the
\* watermark never moves back.
THEOREM NothingForgotten == Spec => NeverForgets
<1> DEFINE Grows == watermark <= watermark' /\ acked \subseteq acked'
<1>1. TypeOK /\ GapInv /\ [Next]_vars
        => [(\E head \in Offsets : Restart(head)) \/ Grows]_vars
  <2> SUFFICES ASSUME TypeOK, GapInv, Next,
                      ~ \E head \in Offsets : Restart(head)
               PROVE  Grows
    BY DEF vars
  <2> USE MaxOffsetAssumption
  <2>1. ASSUME NEW S, S \subseteq Ackable, Become(acked \union S)
        PROVE  Grows
    <3>1. MaxOffset \notin acked \union S
      BY <2>1 DEF TypeOK, Ackable
    <3>2. FirstGap(acked) <= FirstGap(acked \union S)
      BY <3>1, FirstGapMonotonic
    <3> QED
      BY <2>1, <3>2 DEF Become, GapInv
  <2>2. ASSUME NEW o \in Offsets, Record(o) PROVE Grows
    BY <2>1, <2>2 DEF Record
  <2>3. ASSUME NEW n \in Offsets, Cumulative(n) PROVE Grows
    <3>1. Below(n) \subseteq Ackable
      BY DEF Below, Offsets, Ackable
    <3> QED
      BY <2>1, <2>3, <3>1 DEF Cumulative
  <2>4. watermark \in Nat
    BY DEF TypeOK, Offsets
  <2>5. ASSUME NEW o \in Offsets, Ignore(o) \/ Refuse(o) PROVE Grows
    BY <2>4, <2>5 DEF Ignore, Refuse
  <2>6. CASE Save \/ SaveFails
    BY <2>4, <2>6 DEF Save, SaveFails
  <2> QED
    BY <2>2, <2>3, <2>5, <2>6 DEF Next
<1> QED
  BY <1>1, InitGap, TypeCorrect, StepKeepsGap, PTL DEF Spec, NeverForgets
=============================================================================
