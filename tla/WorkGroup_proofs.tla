-------------------------- MODULE WorkGroup_proofs --------------------------
(***************************************************************************)
(* Proofs about the work group, for every number of sessions, records,     *)
(* crashes and dead-letter targets, and every configuration of the group.  *)
(***************************************************************************)
EXTENDS WorkGroup, WellFoundedInduction, FiniteSetTheorems, TLAPS

-----------------------------------------------------------------------------
(* Types.  The argument that is not bookkeeping: the watermark, a CHOOSE,  *)
(* always exists, and a scan that hands out a message took at least one    *)
(* generation for it.                                                      *)

\* Every non-empty set of naturals has a least element (< is well-founded).
LEMMA LeastNatural ==
  ASSUME NEW T \in SUBSET Nat, T # {}
  PROVE  \E x \in T : \A y \in T : x <= y
<1>1. OpToRel(<, Nat) = {ss \in Nat \X Nat : ss[1] < ss[2]}
  BY DEF OpToRel
<1>2. PICK x \in T : \A y \in T : ~ (<<y, x>> \in OpToRel(<, Nat))
  BY NatLessThanWellFounded, WFMin, Zenon
<1>3. \A y \in T : y \in Nat /\ x \in Nat /\ ~ (y < x)
  BY <1>1, <1>2
<1> QED BY <1>3

\* The cursor's watermark exists and is what its name says.
LEMMA FirstGapIsGap ==
  ASSUME NEW S, S \subseteq Offsets
  PROVE  /\ FirstGap(S) \in 0 .. MaxLen
         /\ FirstGap(S) \notin S
         /\ Below(FirstGap(S)) \subseteq S
<1> USE GroupConstants
<1> DEFINE T == (0 .. MaxLen) \ S
<1>1. MaxLen \in T
  BY DEF Offsets
<1>2. T \in SUBSET Nat /\ T # {}
  BY <1>1
<1> HIDE DEF T
<1>3. PICK n \in T : \A m \in T : n <= m
  BY <1>2, LeastNatural
<1>4. \E k \in 0 .. MaxLen : k \notin S /\ Below(k) \subseteq S
  BY <1>3 DEF T, Below, Offsets
<1> QED
  BY <1>4 DEF FirstGap

\* Sets of offsets are finite, so the generations a scan takes are counted.
LEMMA OffsetSetsAreCounted ==
  ASSUME NEW S, S \subseteq Offsets
  PROVE  /\ IsFiniteSet(S)
         /\ Cardinality(S) \in Nat
         /\ S # {} => Cardinality(S) >= 1
<1>1. IsFiniteSet(Offsets)
  BY FS_Interval, GroupConstants DEF Offsets
<1>2. IsFiniteSet(S)
  BY <1>1, FS_Subset
<1>3. Cardinality(S) \in Nat
  BY <1>2, FS_CardinalityType
<1>4. S # {} => Cardinality(S) # 0
  BY <1>2, FS_EmptySet
<1> QED
  BY <1>2, <1>3, <1>4

\* What a scan claims are offsets of the window.
LEMMA ClaimedAreOffsets ==
  ASSUME NEW D
  PROVE  PassedOver(D) \subseteq Offsets /\ StopAt(D) \subseteq Offsets
BY DEF PassedOver, StopAt, Candidates, Window

\* A scan leaves the lease table and the cursor well typed, and gives the
\* offset it keeps a proper generation.
LEMMA ScanKeepsType ==
  ASSUME TypeOK, NEW D, NEW keep, NEW more, Scan(D, keep, more),
         keep \subseteq StopAt(D), more \subseteq Offsets
  PROVE  /\ acked' \subseteq Offsets
         /\ lease' \in [Offsets -> {"none", "live", "lapsed"}]
         /\ gen' \in [Offsets -> Nat \union {NoGen}]
         /\ \A o \in keep : gen'[o] \in Nat
         /\ count' \in [Offsets -> Nat]
         /\ nextGen' \in 0 .. MaxGen
         /\ redelivered' \in Nat
<1> USE GroupConstants
<1> DEFINE claimed == PassedOver(D) \union StopAt(D)
           again == {o \in claimed : count[o] > 0}
<1>1. claimed \subseteq Offsets /\ again \subseteq Offsets
  BY ClaimedAreOffsets
<1>2. Cardinality(claimed) \in Nat /\ Cardinality(again) \in Nat
  BY <1>1, OffsetSetsAreCounted
<1>3. keep # {} => Cardinality(claimed) >= 1
  BY <1>1, OffsetSetsAreCounted
<1>4. /\ FreshGens(Cardinality(claimed))
      /\ redelivered' = Capped(redelivered + Cardinality(again))
      /\ acked' = acked \union PassedOver(D) \union more
      /\ lease' = [o \in Offsets |-> IF o \in keep \union D THEN "live"
                                     ELSE IF o \in claimed THEN "none"
                                     ELSE lease[o]]
      /\ count' = [o \in Offsets |-> IF o \in keep THEN count[o] + 1
                                     ELSE IF o \in claimed THEN 0
                                     ELSE count[o]]
      /\ gen' = [o \in Offsets |-> IF o \in keep
                                   THEN nextGen + Cardinality(claimed) - 1
                                   ELSE IF o \in claimed THEN NoGen
                                   ELSE gen[o]]
  BY DEF Scan
<1>5. keep \subseteq Offsets
  BY <1>1
<1> HIDE DEF claimed, again
<1>6. nextGen \in 0 .. MaxGen /\ nextGen' \in 0 .. MaxGen
  BY <1>2, <1>4 DEF TypeOK, FreshGens
<1>7. redelivered' \in Nat
  BY <1>2, <1>4 DEF TypeOK, Capped
<1>8. acked' \subseteq Offsets
  BY <1>4, ClaimedAreOffsets DEF TypeOK
<1>9. lease' \in [Offsets -> {"none", "live", "lapsed"}]
  BY <1>4 DEF TypeOK
<1>10. count' \in [Offsets -> Nat]
  BY <1>4 DEF TypeOK
<1>11. ASSUME NEW o \in keep PROVE nextGen + Cardinality(claimed) - 1 \in Nat
  <2>1. keep # {}
    BY <1>11
  <2> QED
    BY <2>1, <1>2, <1>3, <1>6
<1>12. gen' \in [Offsets -> Nat \union {NoGen}]
  BY <1>4, <1>11 DEF TypeOK
<1>13. \A o \in keep : gen'[o] \in Nat
  BY <1>4, <1>5, <1>11
<1> QED
  BY <1>6, <1>7, <1>8, <1>9, <1>10, <1>12, <1>13

\* The type invariant by the group of variables a step can disturb.
LogTyped ==
  /\ log \in Seq(Kinds) /\ Flushed <= MaxLen
  /\ past \subseteq Offsets /\ due \subseteq Offsets
  /\ holes \subseteq Offsets /\ earliest \in 0 .. MaxLen

TableTyped ==
  /\ acked \subseteq Offsets
  /\ lease \in [Offsets -> {"none", "live", "lapsed"}]
  /\ gen \in [Offsets -> Nat \union {NoGen}] /\ count \in [Offsets -> Nat]
  /\ nextGen \in 0 .. MaxGen /\ redelivered \in Nat

TokensTyped ==
  /\ pending = NoMatch \/ pending \in [off : Offsets, gen : Nat, nth : Nat]
  /\ leased \in [Sessions -> [Offsets -> [gen : Nat \union {NoGen}, nth : Nat]]]

SinksTyped ==
  dlq \in [Targets -> [Offsets -> Nat]] /\ known \in [Targets -> SUBSET Offsets]

DiskTyped ==
  /\ savedAcked \subseteq Offsets /\ savedCount \in [Offsets -> Nat]
  /\ lastSaved \in 0 .. MaxLen /\ lastCounts \in 0 .. MaxLen

GhostTyped ==
  /\ settled \subseteq Offsets /\ granted \in [Offsets -> Nat]
  /\ unflushed \in [Offsets -> Nat] /\ replay \in [Offsets -> Nat]

RestTyped == paused \in BOOLEAN /\ crashes \in 0 .. MaxCrashes

\* The parts are the whole.
LEMMA TypeParts ==
  TypeOK <=> /\ LogTyped /\ TableTyped /\ TokensTyped /\ SinksTyped
             /\ DiskTyped /\ GhostTyped /\ RestTyped
BY DEF TypeOK, LogTyped, TableTyped, TokensTyped, SinksTyped, DiskTyped,
       GhostTyped, RestTyped

\* The same in the next state.
LEMMA TypePartsNext ==
  ASSUME LogTyped', TableTyped', TokensTyped', SinksTyped', DiskTyped',
         GhostTyped', RestTyped'
  PROVE  TypeOK'
BY DEF TypeOK, LogTyped, TableTyped, TokensTyped, SinksTyped, DiskTyped,
       GhostTyped, RestTyped

\* Variables that stand still keep their types.
LEMMA StillTyped ==
  ASSUME TypeOK
  PROVE  /\ UNCHANGED logVars => LogTyped'
         /\ UNCHANGED <<acked, lease, gen, count, nextGen, redelivered>>
              => TableTyped'
         /\ UNCHANGED <<pending, leased>> => TokensTyped'
         /\ UNCHANGED dlqVars => SinksTyped'
         /\ UNCHANGED diskVars => DiskTyped'
         /\ UNCHANGED ghostVars => GhostTyped'
         /\ UNCHANGED <<paused, crashes>> => RestTyped'
<1>1. /\ LogTyped /\ TableTyped /\ TokensTyped /\ SinksTyped
      /\ DiskTyped /\ GhostTyped /\ RestTyped
  BY TypeParts
<1>2. UNCHANGED logVars => LogTyped'
  BY <1>1 DEF LogTyped, logVars, Flushed
<1>3. UNCHANGED <<acked, lease, gen, count, nextGen, redelivered>>
        => TableTyped'
  BY <1>1 DEF TableTyped
<1>4. UNCHANGED <<pending, leased>> => TokensTyped'
  BY <1>1 DEF TokensTyped
<1>5. UNCHANGED dlqVars => SinksTyped'
  BY <1>1 DEF SinksTyped, dlqVars
<1>6. UNCHANGED diskVars => DiskTyped'
  BY <1>1 DEF DiskTyped, diskVars
<1>7. UNCHANGED ghostVars => GhostTyped'
  BY <1>1 DEF GhostTyped, ghostVars
<1>8. UNCHANGED <<paused, crashes>> => RestTyped'
  BY <1>1 DEF RestTyped
<1> QED
  BY <1>2, <1>3, <1>4, <1>5, <1>6, <1>7, <1>8

\* A fan-out of k copies keeps the sinks typed.
LEMMA FanOutTyped ==
  ASSUME TypeOK, NEW o \in Offsets, NEW k \in 0 .. NumTargets, FanOut(o, k),
         NEW low, known' \in {Noted(o, k), Pruned(Noted(o, k), low)}
  PROVE  SinksTyped'
<1>1. dlq' \in [Targets -> [Offsets -> Nat]]
  BY DEF FanOut, TypeOK
<1>2. Noted(o, k) \in [Targets -> SUBSET Offsets]
  BY DEF Noted, TypeOK
<1>3. Pruned(Noted(o, k), low) \in [Targets -> SUBSET Offsets]
  BY <1>2 DEF Pruned
<1> QED
  BY <1>1, <1>2, <1>3 DEF SinksTyped

\* A grant is counted.
LEMMA CountGrantTyped ==
  ASSUME TypeOK, NEW o \in Offsets, CountGrant(o)
  PROVE  granted' \in [Offsets -> Nat] /\ unflushed' \in [Offsets -> Nat]
BY SMTT(30) DEF CountGrant, TypeOK

\* A token enters a session's table.
LEMMA TokenTyped ==
  ASSUME TypeOK, NEW s \in Sessions, NEW o \in Offsets,
         NEW g \in Nat \union {NoGen}, NEW n \in Nat,
         leased' = [leased EXCEPT ![s][o] = [gen |-> g, nth |-> n]]
  PROVE  leased' \in [Sessions ->
                        [Offsets -> [gen : Nat \union {NoGen}, nth : Nat]]]
BY DEF TypeOK

\* Forgetting a token is entering the empty one.
LEMMA ForgetTyped ==
  ASSUME TypeOK, NEW s \in Sessions, NEW o \in Offsets, Forget(s, o),
         UNCHANGED pending
  PROVE  TokensTyped'
<1>1. leased' = [leased EXCEPT ![s][o] = [gen |-> NoGen, nth |-> 0]]
  BY DEF Forget, NoToken
<1>2. leased' \in [Sessions -> [Offsets -> [gen : Nat \union {NoGen}, nth : Nat]]]
  BY <1>1, TokenTyped
<1> QED
  BY <1>2 DEF TokensTyped, TypeOK

\* A poll, whichever way it ends, keeps the type.
LEMMA PollKeepsType ==
  ASSUME TypeOK, NEW s \in Sessions, Poll(s)
  PROVE  TypeOK'
<1> USE GroupConstants
<1>a. ASSUME NEW D, NEW more, Scan(D, {}, more), more \subseteq Offsets
      PROVE  TableTyped'
  BY <1>a, ScanKeepsType DEF TableTyped
<1>b. ASSUME NoGrant, UNCHANGED <<settled, replay>> PROVE GhostTyped'
  BY <1>b DEF NoGrant, GhostTyped, TypeOK
<1>1. ASSUME NEW D, PollIdle(D) PROVE TypeOK'
  <2>1. TableTyped' /\ GhostTyped'
    BY <1>1, <1>a, <1>b DEF PollIdle
  <2> QED
    BY <1>1, <2>1, StillTyped, TypePartsNext DEF PollIdle
<1>2. ASSUME NEW D, PollDeliver(s, D) PROVE TypeOK'
  <2>1. PICK o \in StopAt(D) :
          /\ Scan(D, {o}, {})
          /\ CountGrant(o)
          /\ \/ /\ leased' = [leased EXCEPT ![s][o] =
                                 [gen |-> gen'[o], nth |-> granted'[o]]]
                /\ UNCHANGED pending
             \/ /\ pending' = [off |-> o, gen |-> gen'[o], nth |-> granted'[o]]
                /\ UNCHANGED leased
    BY <1>2 DEF PollDeliver
  <2>2. o \in Offsets
    BY ClaimedAreOffsets
  <2>3. TableTyped' /\ gen'[o] \in Nat
    BY <2>1, ScanKeepsType DEF TableTyped
  <2>4. granted' \in [Offsets -> Nat] /\ unflushed' \in [Offsets -> Nat]
    BY <2>1, <2>2, CountGrantTyped
  <2>5. granted'[o] \in Nat
    BY <2>2, <2>4
  <2>6. GhostTyped'
    BY <1>2, <2>4 DEF PollDeliver, GhostTyped, TypeOK
  <2>7. TokensTyped'
    <3>1. CASE /\ leased' = [leased EXCEPT ![s][o] =
                               [gen |-> gen'[o], nth |-> granted'[o]]]
               /\ UNCHANGED pending
      <4>1. leased' \in [Sessions ->
                          [Offsets -> [gen : Nat \union {NoGen}, nth : Nat]]]
        BY <2>2, <2>3, <2>5, <3>1, TokenTyped
      <4> QED
        BY <3>1, <4>1 DEF TokensTyped, TypeOK
    <3>2. CASE /\ pending' = [off |-> o, gen |-> gen'[o], nth |-> granted'[o]]
               /\ UNCHANGED leased
      BY <2>2, <2>3, <2>5, <3>2 DEF TokensTyped, TypeOK
    <3> QED
      BY <2>1, <3>1, <3>2
  <2> QED
    BY <1>2, <2>3, <2>6, <2>7, StillTyped, TypePartsNext DEF PollDeliver
<1>3. ASSUME NEW D, PollHold(D) PROVE TypeOK'
  <2>1. TableTyped' /\ GhostTyped'
    BY <1>3, <1>a, <1>b DEF PollHold
  <2> QED
    BY <1>3, <2>1, StillTyped, TypePartsNext DEF PollHold
<1>4. ASSUME NEW D, PollHole(D) PROVE TypeOK'
  <2>1. PICK o : Scan(D, {}, HoleRun(o))
    BY <1>4 DEF PollHole
  <2>2. HoleRun(o) \subseteq Offsets
    BY DEF HoleRun
  <2>3. TableTyped' /\ GhostTyped'
    BY <1>4, <1>a, <1>b, <2>1, <2>2 DEF PollHole
  <2> QED
    BY <1>4, <2>3, StillTyped, TypePartsNext DEF PollHole
<1>5. ASSUME NEW D, PollDeadLetter(D) PROVE TypeOK'
  <2>1. PICK o \in StopAt(D), k \in FanOuts :
          /\ Scan(D, {}, IF AllCopied(k) THEN {o} ELSE {})
          /\ FanOut(o, k)
          /\ known' \in {Noted(o, k), Pruned(Noted(o, k), FirstGap(acked'))}
    BY <1>5 DEF PollDeadLetter
  <2>2. o \in Offsets /\ k \in 0 .. NumTargets
    BY ClaimedAreOffsets DEF FanOuts
  <2>3. SinksTyped'
    BY <2>1, <2>2, FanOutTyped
  <2>4. TableTyped' /\ GhostTyped'
    BY <1>5, <1>a, <1>b, <2>1, <2>2 DEF PollDeadLetter
  <2> QED
    BY <1>5, <2>3, <2>4, StillTyped, TypePartsNext DEF PollDeadLetter
<1>6. ASSUME PollStashed(s) PROVE TypeOK'
  <2>1. pending \in [off : Offsets, gen : Nat, nth : Nat]
    BY <1>6 DEF PollStashed, TypeOK
  <2>2. leased' \in [Sessions ->
                      [Offsets -> [gen : Nat \union {NoGen}, nth : Nat]]]
    BY <1>6, <2>1, TokenTyped DEF PollStashed
  <2>3. TokensTyped'
    BY <1>6, <2>2 DEF PollStashed, TokensTyped
  <2> QED
    BY <1>6, <2>3, StillTyped, TypePartsNext DEF PollStashed
<1>7. ASSUME PollTruncated(s) PROVE TypeOK'
  <2>1. TableTyped'
    BY <1>7 DEF PollTruncated, TableTyped, Below, TypeOK
  <2>2. TokensTyped'
    BY <1>7 DEF PollTruncated, TokensTyped, TypeOK, NoToken
  <2> QED
    BY <1>7, <2>1, <2>2, StillTyped, TypePartsNext DEF PollTruncated
<1> QED
  BY <1>1, <1>2, <1>3, <1>4, <1>5, <1>6, <1>7 DEF Poll

\* Freeing a lease and acknowledging its offset.
LEMMA SettleTyped ==
  ASSUME TypeOK, NEW s, NEW o \in Offsets, SettleOwned(s, o),
         UNCHANGED <<nextGen, redelivered, granted, unflushed, replay>>
  PROVE  TableTyped' /\ GhostTyped'
BY DEF SettleOwned, TypeOK, TableTyped, GhostTyped

\* The checkpoint of the attempts and of the cursor.
LEMMA SavesTyped ==
  ASSUME TypeOK, savedAcked' \in {savedAcked, acked},
         lastSaved' \in {lastSaved, Committed},
         UNCHANGED <<acked, lease, gen, count, nextGen, settled, granted, replay>>,
         SaveCounts \/ KeepCounts
  PROVE  DiskTyped' /\ TableTyped' /\ GhostTyped'
<1>1. Committed \in 0 .. MaxLen
  BY FirstGapIsGap DEF Committed, TypeOK
<1>2. CASE SaveCounts
  BY <1>1, <1>2 DEF SaveCounts, AllCounts, DiskTyped, TableTyped, GhostTyped,
                    TypeOK
<1>3. CASE KeepCounts
  BY <1>1, <1>3 DEF KeepCounts, DiskTyped, TableTyped, GhostTyped, TypeOK
<1> QED
  BY <1>2, <1>3

\* A step that leaves sessions' other state alone and rewrites one session's
\* tokens, each kept or emptied.
LEMMA DropTokensTyped ==
  ASSUME TypeOK, NEW s \in Sessions, NEW K,
         leased' = [leased EXCEPT ![s] =
                      [o \in Offsets |-> IF o \in K THEN @[o] ELSE NoToken]],
         UNCHANGED pending
  PROVE  TokensTyped'
BY DEF TokensTyped, TypeOK, NoToken

\* A reject: copies, then the settlement or nothing.
LEMMA TermKeepsType ==
  ASSUME TypeOK, NEW s \in Sessions, NEW o \in Offsets, Term(s, o)
  PROVE  TypeOK'
<1> USE GroupConstants
<1>1. PICK k \in FanOuts :
        LET copies == IF Exchange /\ Readable(o) THEN k ELSE 0
        IN /\ FanOut(o, copies)
           /\ \/ /\ SettleOwned(s, o)
                 /\ Forget(s, o)
                 /\ known' = Pruned(Noted(o, copies), FirstGap(acked'))
              \/ /\ known' = Noted(o, copies)
                 /\ UNCHANGED <<lease, gen, count, acked, settled, leased>>
  BY DEF Term
<1> DEFINE copies == IF Exchange /\ Readable(o) THEN k ELSE 0
<1>2. copies \in 0 .. NumTargets
  BY DEF FanOuts
<1>3. /\ FanOut(o, copies)
      /\ known' \in {Noted(o, copies),
                     Pruned(Noted(o, copies), FirstGap(acked'))}
      /\ \/ SettleOwned(s, o) /\ Forget(s, o)
         \/ UNCHANGED <<lease, gen, count, acked, settled, leased>>
  BY <1>1
<1> HIDE DEF copies
<1>4. SinksTyped'
  BY <1>2, <1>3, FanOutTyped
<1>5. /\ UNCHANGED <<nextGen, redelivered, pending, paused, granted,
                     unflushed, replay, crashes>>
      /\ UNCHANGED logVars /\ UNCHANGED diskVars
  BY DEF Term
<1>6. TableTyped' /\ GhostTyped' /\ TokensTyped'
  <2>1. CASE SettleOwned(s, o) /\ Forget(s, o)
    BY <1>5, <2>1, SettleTyped, ForgetTyped
  <2>2. CASE UNCHANGED <<lease, gen, count, acked, settled, leased>>
    BY <1>5, <2>2, StillTyped DEF ghostVars
  <2> QED
    BY <1>3, <2>1, <2>2
<1> QED
  BY <1>4, <1>5, <1>6, StillTyped, TypePartsNext

\* What the sessions do.
LEMMA SessionStepKeepsType ==
  ASSUME TypeOK, NEW s \in Sessions, SessionStep(s)
  PROVE  TypeOK'
<1> USE GroupConstants
<1>1. ASSUME FlowBegins(s) PROVE TypeOK'
  <2> DEFINE K == {o \in Offsets : Owns(s, o) /\ lease[o] = "live"}
  <2>1. /\ leased' = [leased EXCEPT ![s] =
                        [o \in Offsets |-> IF o \in K THEN @[o] ELSE NoToken]]
        /\ UNCHANGED <<logVars, groupVars, dlqVars, diskVars, crashes,
                       ghostVars>>
    BY <1>1 DEF FlowBegins
  <2> HIDE DEF K
  <2>2. TokensTyped'
    BY <2>1, DropTokensTyped DEF groupVars
  <2> QED
    BY <2>1, <2>2, StillTyped, TypePartsNext DEF groupVars
<1>2. ASSUME NEW k \in Writes, Disconnect(s, k) PROVE TypeOK'
  <2> DEFINE K == {}
  <2>1. leased' = [leased EXCEPT ![s] =
                     [o \in Offsets |-> IF o \in K THEN @[o] ELSE NoToken]]
    BY <1>2 DEF Disconnect
  <2> HIDE DEF K
  <2>2. TokensTyped'
    BY <1>2, <2>1, DropTokensTyped DEF Disconnect
  <2>3. /\ savedAcked' \in {savedAcked, acked}
        /\ lastSaved' \in {lastSaved, Committed}
        /\ SaveCounts \/ KeepCounts
    BY <1>2 DEF Disconnect, CheckpointCursor, SaveCursor
  <2>4. DiskTyped' /\ TableTyped' /\ GhostTyped'
    BY <1>2, <2>3, SavesTyped DEF Disconnect
  <2> QED
    BY <1>2, <2>2, <2>4, StillTyped, TypePartsNext DEF Disconnect
<1>3. ASSUME NEW o \in Offsets, Ack(s, o) PROVE TypeOK'
  <2>1. TableTyped' /\ GhostTyped'
    BY <1>3, SettleTyped DEF Ack
  <2>2. TokensTyped'
    BY <1>3, ForgetTyped DEF Ack
  <2> QED
    BY <1>3, <2>1, <2>2, StillTyped, TypePartsNext DEF Ack
<1>4. ASSUME NEW o \in Offsets, Fenced(s, o) PROVE TypeOK'
  <2>1. TokensTyped'
    BY <1>4, ForgetTyped DEF Fenced, groupVars
  <2> QED
    BY <1>4, <2>1, StillTyped, TypePartsNext DEF Fenced, groupVars
<1>5. ASSUME NEW o \in Offsets, Nack(s, o) PROVE TypeOK'
  <2>1. TableTyped'
    BY <1>5 DEF Nack, FreshGens, TableTyped, TypeOK
  <2>2. TokensTyped'
    BY <1>5, ForgetTyped DEF Nack
  <2> QED
    BY <1>5, <2>1, <2>2, StillTyped, TypePartsNext DEF Nack
<1>6. ASSUME NEW o \in Offsets, Progress(s, o) PROVE TypeOK'
  <2>1. TableTyped'
    BY <1>6 DEF Progress, TableTyped, TypeOK
  <2> QED
    BY <1>6, <2>1, StillTyped, TypePartsNext DEF Progress
<1>7. ASSUME NEW n \in 0 .. MaxLen, CumulativeAck(s, n) PROVE TypeOK'
  <2> DEFINE K == {o \in Offsets : ~ (o < n)}
  <2>1. leased' = [leased EXCEPT ![s] =
                     [o \in Offsets |-> IF o \in K THEN @[o] ELSE NoToken]]
    BY <1>7 DEF CumulativeAck
  <2> HIDE DEF K
  <2>2. TokensTyped'
    BY <1>7, <2>1, DropTokensTyped DEF CumulativeAck
  <2>3. TableTyped' /\ GhostTyped'
    BY <1>7 DEF CumulativeAck, CommitUpTo, Below, TableTyped, GhostTyped,
                TypeOK
  <2> QED
    BY <1>7, <2>2, <2>3, StillTyped, TypePartsNext DEF CumulativeAck
<1> QED
  BY <1>1, <1>2, <1>3, <1>4, <1>5, <1>6, <1>7, PollKeepsType, TermKeepsType
     DEF SessionStep

\* A restart.
LEMMA CrashKeepsType ==
  ASSUME TypeOK, Crash
  PROVE  TypeOK'
<1> USE GroupConstants
<1>1. FirstGap(Resumed) \in 0 .. MaxLen
  BY FirstGapIsGap DEF Resumed, TypeOK
<1>2. TableTyped'
  BY DEF Crash, Resumed, TableTyped, TypeOK
<1>3. TokensTyped'
  BY DEF Crash, TokensTyped, NoToken
<1>4. SinksTyped'
  BY DEF Crash, SinksTyped, KnownAtOpen, TypeOK
<1>5. DiskTyped'
  BY <1>1 DEF Crash, DiskTyped, TypeOK
<1>6. GhostTyped'
  BY DEF Crash, GhostTyped, TypeOK
<1>7. RestTyped'
  <2>1. crashes' \in 0 .. MaxCrashes
    BY DEF Crash, TypeOK
  <2>2. paused' \in BOOLEAN
    BY DEF Crash
  <2> QED
    BY <2>1, <2>2 DEF RestTyped
<1>8. LogTyped'
  BY StillTyped DEF Crash
<1> QED
  BY <1>2, <1>3, <1>4, <1>5, <1>6, <1>7, <1>8, TypePartsNext

\* What happens around the group.
LEMMA EnvironmentKeepsType ==
  ASSUME TypeOK, Environment
  PROVE  TypeOK'
<1> USE GroupConstants
<1>1. ASSUME NEW k \in Writes, MaybeCheckpoint(k) PROVE TypeOK'
  <2>1. /\ savedAcked' \in {savedAcked, acked}
        /\ lastSaved' \in {lastSaved, Committed}
        /\ SaveCounts \/ KeepCounts
    BY <1>1 DEF MaybeCheckpoint, SaveCursor
  <2>2. DiskTyped' /\ TableTyped' /\ GhostTyped'
    BY <1>1, <2>1, SavesTyped DEF MaybeCheckpoint
  <2> QED
    BY <1>1, <2>2, StillTyped, TypePartsNext DEF MaybeCheckpoint
<1>2. ASSUME ForceReap PROVE TypeOK'
  <2>1. LogTyped'
    BY <1>2 DEF ForceReap, LogTyped, TypeOK, Flushed
  <2> QED
    BY <1>2, <2>1, StillTyped, TypePartsNext DEF ForceReap, groupVars
<1>3. ASSUME NEW o \in Offsets, Lapse(o) PROVE TypeOK'
  <2>1. TableTyped'
    BY <1>3 DEF Lapse, TableTyped, TypeOK
  <2> QED
    BY <1>3, <2>1, StillTyped, TypePartsNext DEF Lapse
<1>4. ASSUME NEW o \in Offsets, TtlPasses(o) PROVE TypeOK'
  <2>1. LogTyped'
    BY <1>4 DEF TtlPasses, LogTyped, TypeOK, Flushed
  <2> QED
    BY <1>4, <2>1, StillTyped, TypePartsNext DEF TtlPasses, groupVars
<1>5. ASSUME NEW o \in Offsets, BecomesDue(o) PROVE TypeOK'
  <2>1. LogTyped'
    BY <1>5 DEF BecomesDue, LogTyped, TypeOK, Flushed
  <2> QED
    BY <1>5, <2>1, StillTyped, TypePartsNext DEF BecomesDue, groupVars
<1>6. ASSUME NEW o \in Offsets, Compact(o) PROVE TypeOK'
  <2>1. LogTyped'
    BY <1>6 DEF Compact, LogTyped, TypeOK, Flushed
  <2> QED
    BY <1>6, <2>1, StillTyped, TypePartsNext DEF Compact, groupVars
<1>7. ASSUME NEW p \in BOOLEAN, SetPause(p) PROVE TypeOK'
  <2>1. RestTyped'
    BY <1>7 DEF SetPause, RestTyped, TypeOK
  <2> QED
    BY <1>7, <2>1, StillTyped, TypePartsNext DEF SetPause
<1>8. ASSUME NEW k \in Kinds, Publish(k) PROVE TypeOK'
  <2>1. LogTyped'
    BY <1>8 DEF Publish, LogTyped, TypeOK, Flushed
  <2> QED
    BY <1>8, <2>1, StillTyped, TypePartsNext DEF Publish, groupVars
<1> QED
  BY <1>1, <1>2, <1>3, <1>4, <1>5, <1>6, <1>7, <1>8, CrashKeepsType
     DEF Environment

\* The state an engine opens an empty group in.
LEMMA InitTyped == Init => TypeOK
<1> SUFFICES ASSUME Init PROVE TypeOK
  OBVIOUS
<1> USE GroupConstants
<1>1. LogTyped
  BY DEF Init, LogTyped, Flushed
<1>2. TableTyped
  BY DEF Init, TableTyped
<1>3. TokensTyped
  BY DEF Init, TokensTyped, NoToken
<1>4. SinksTyped
  BY DEF Init, SinksTyped
<1>5. DiskTyped /\ GhostTyped
  BY DEF Init, DiskTyped, GhostTyped
<1>6. crashes \in 0 .. MaxCrashes
  BY DEF Init
<1>7. paused \in BOOLEAN
  BY DEF Init
<1> QED
  BY <1>1, <1>2, <1>3, <1>4, <1>5, <1>6, <1>7, TypeParts DEF RestTyped

\* The group's state keeps its types, and lease generations never run past
\* their end, for every number of sessions, records, targets and restarts: the
\* watermark every action reads is always defined.
THEOREM GroupTypeCorrect == Spec => []TypeOK
<1>1. TypeOK /\ [Next]_vars => TypeOK'
  <2> SUFFICES ASSUME TypeOK, [Next]_vars PROVE TypeOK'
    OBVIOUS
  <2>1. CASE UNCHANGED vars
    BY <2>1, StillTyped, TypePartsNext DEF vars, groupVars
  <2>2. CASE Environment
    BY <2>2, EnvironmentKeepsType
  <2>3. CASE \E s \in Sessions : SessionStep(s)
    BY <2>3, SessionStepKeepsType
  <2> QED
    BY <2>1, <2>2, <2>3 DEF Next
<1> QED
  BY <1>1, InitTyped, PTL DEF Spec

-----------------------------------------------------------------------------
(* At most one copy of a message per dead-letter target.  The in-memory    *)
(* set that guards a target is pruned below the watermark and lost in a    *)
(* crash, so it alone does not say which offsets the target holds.  What   *)
(* does: an offset the target holds and the set forgot is below the        *)
(* watermark, and no path to a dead-letter append starts there.            *)

\* What a target holds is guarded by its set or lies below the watermark.
GuardCovers ==
  \A t \in Targets, o \in Offsets :
    dlq[t][o] > 0 => o \in known[t] \/ o < Committed

\* An offset with a lease is not acknowledged yet, unless compaction took the
\* record, and then no verb can copy it.
LeasesAreOpen ==
  \A o \in Offsets : gen[o] # NoGen => o \notin acked \/ o \in holes

\* The inductive invariant.
CopyInv == OneCopyPerTarget /\ GuardCovers /\ LeasesAreOpen

\* The watermark never moves back while the acknowledged set grows.
LEMMA FirstGapMonotone ==
  ASSUME NEW S, NEW T, S \subseteq T, T \subseteq Offsets
  PROVE  FirstGap(S) <= FirstGap(T)
<1> USE GroupConstants
<1>1. /\ FirstGap(S) \in 0 .. MaxLen /\ Below(FirstGap(S)) \subseteq S
      /\ FirstGap(T) \in 0 .. MaxLen /\ FirstGap(T) \notin T
  BY FirstGapIsGap
<1>2. SUFFICES ASSUME FirstGap(T) < FirstGap(S) PROVE FALSE
  BY <1>1
<1>3. FirstGap(T) \in Below(FirstGap(S))
  BY <1>1, <1>2 DEF Below, Offsets
<1> QED
  BY <1>1, <1>3

\* Everything below the watermark is acknowledged.
LEMMA OpenIsAboveWatermark ==
  ASSUME TypeOK, NEW o \in Offsets, o \notin acked
  PROVE  ~ (o < Committed)
BY FirstGapIsGap DEF TypeOK, Committed, Below

\* A step that appends to no target and does not move the watermark back
\* keeps the sinks guarded.
LEMMA SinksStill ==
  ASSUME TypeOK, TypeOK', CopyInv, UNCHANGED dlqVars, Committed <= Committed'
  PROVE  OneCopyPerTarget' /\ GuardCovers'
<1>1. Committed \in Int /\ Committed' \in Int
  BY FirstGapIsGap, SMTT(30) DEF TypeOK, Committed
<1>2. OneCopyPerTarget'
  BY DEF CopyInv, OneCopyPerTarget, dlqVars
<1>3. ASSUME NEW t \in Targets, NEW o \in Offsets, dlq'[t][o] > 0
      PROVE  o \in known'[t] \/ o < Committed'
  <2>1. dlq' = dlq /\ known' = known
    BY DEF dlqVars
  <2>2. o \in known[t] \/ o < Committed
    BY <1>3, <2>1 DEF CopyInv, GuardCovers
  <2> QED
    BY <1>1, <2>1, <2>2 DEF Offsets
<1> QED
  BY <1>2, <1>3 DEF GuardCovers

\* The watermark as a step that only adds acknowledgements leaves it.
LEMMA WatermarkAdvances ==
  ASSUME TypeOK', acked \subseteq acked'
  PROVE  Committed <= Committed'
BY FirstGapMonotone DEF TypeOK, Committed

\* Copies of an offset that is not below the watermark: a target takes one
\* only if it holds none, and the sets it leaves still cover every copy.
LEMMA FanOutOnce ==
  ASSUME TypeOK, TypeOK', CopyInv, NEW o \in Offsets,
         NEW k \in 0 .. NumTargets, FanOut(o, k), k = 0 \/ ~ (o < Committed),
         acked \subseteq acked',
         known' \in {Noted(o, k), Pruned(Noted(o, k), Committed')}
  PROVE  OneCopyPerTarget' /\ GuardCovers'
<1> USE GroupConstants
<1>a. acked \subseteq Offsets /\ acked' \subseteq Offsets
  BY DEF TypeOK
<1>b. Committed \in 0 .. MaxLen /\ Committed' \in 0 .. MaxLen
  BY <1>a, FirstGapIsGap DEF Committed
<1>c. Committed <= Committed'
  BY WatermarkAdvances
<1>1. Committed \in Int /\ Committed' \in Int /\ Committed <= Committed'
  BY <1>b, <1>c
<1>2. \A t \in Targets : dlq'[t] = IF t <= k /\ o \notin known[t]
                                   THEN [dlq[t] EXCEPT ![o] = dlq[t][o] + 1]
                                   ELSE dlq[t]
  BY DEF FanOut
<1>3. \A t \in Targets : dlq[t] \in [Offsets -> Nat]
  BY DEF TypeOK
<1>4. ASSUME NEW t \in Targets, NEW p \in Offsets
      PROVE  /\ dlq'[t][p] <= 1
             /\ dlq'[t][p] > 0 => p \in known'[t] \/ p < Committed'
  <2>1. dlq[t][p] \in Nat /\ dlq[t][p] <= 1
    BY <1>3 DEF CopyInv, OneCopyPerTarget
  <2>2. dlq[t][p] > 0 => p \in known[t] \/ p < Committed
    BY DEF CopyInv, GuardCovers
  <2>3. /\ known[t] \subseteq Noted(o, k)[t]
        /\ t <= k => o \in Noted(o, k)[t]
    BY DEF Noted
  <2>4. p \in Noted(o, k)[t] => p \in known'[t] \/ p < Committed'
    BY DEF Pruned, Below
  <2>5. CASE p = o /\ t <= k /\ o \notin known[t]
    <3>1. k # 0
      BY <2>5 DEF Targets
    <3>2. dlq[t][p] = 0
      BY <2>1, <2>2, <2>5, <3>1
    <3>3. dlq'[t] = [dlq[t] EXCEPT ![o] = dlq[t][o] + 1]
      BY <1>2, <2>5
    <3>4. dlq'[t][p] = dlq[t][p] + 1
      BY <1>3, <2>5, <3>3
    <3>5. dlq'[t][p] = 1
      BY <3>2, <3>4
    <3> QED
      BY <2>3, <2>4, <2>5, <3>5
  <2>6. CASE ~ (p = o /\ t <= k /\ o \notin known[t])
    <3>1. dlq'[t][p] = dlq[t][p]
      BY <1>2, <1>3, <2>6
    <3>2. p \in Int
      BY DEF Offsets
    <3> QED
      BY <1>1, <2>1, <2>2, <2>3, <2>4, <3>1, <3>2
  <2> QED
    BY <2>5, <2>6
<1> QED
  BY <1>4 DEF OneCopyPerTarget, GuardCovers

\* A scan leaves a lease only on an offset that stays unacknowledged.
LEMMA ScanKeepsOpen ==
  ASSUME CopyInv, NEW D, NEW keep, NEW more, Scan(D, keep, more),
         keep \subseteq StopAt(D), more \cap keep = {},
         more \subseteq holes \union StopAt(D), UNCHANGED holes
  PROVE  LeasesAreOpen' /\ acked \subseteq acked'
<1>1. /\ acked' = acked \union PassedOver(D) \union more
      /\ \A o \in Offsets :
           o \notin keep =>
             gen'[o] = IF o \in PassedOver(D) \union StopAt(D)
                       THEN NoGen ELSE gen[o]
  BY DEF Scan
<1>2. StopAt(D) \cap acked = {}
  BY DEF StopAt, Candidates
<1>3. StopAt(D) \cap PassedOver(D) = {}
  BY DEF StopAt, PassedOver, Candidates, Window, Offsets
<1>4. ASSUME NEW o \in Offsets, gen'[o] # NoGen, o \in acked'
      PROVE  o \in holes'
  <2>1. CASE o \in keep
    BY <1>1, <1>2, <1>3, <1>4, <2>1
  <2>2. CASE o \notin keep
    <3>1. o \notin PassedOver(D) /\ o \notin StopAt(D) /\ gen[o] # NoGen
      BY <1>1, <1>4, <2>2
    <3>2. o \in acked \/ o \in holes
      BY <1>1, <1>4, <3>1
    <3> QED
      BY <3>1, <3>2 DEF CopyInv, LeasesAreOpen
  <2> QED
    BY <2>1, <2>2
<1> QED
  BY <1>1, <1>4 DEF LeasesAreOpen

\* A step that appends to no target, only adds acknowledgements, and leaves
\* leases only where they were.
LEMMA QuietKeepsCopies ==
  ASSUME TypeOK, TypeOK', CopyInv, UNCHANGED dlqVars, acked \subseteq acked',
         holes \subseteq holes',
         \A o \in Offsets :
           gen'[o] # NoGen => gen[o] # NoGen /\ o \notin acked' \ acked
  PROVE  CopyInv'
<1>1. OneCopyPerTarget' /\ GuardCovers'
  BY SinksStill, WatermarkAdvances
<1>2. LeasesAreOpen'
  BY DEF CopyInv, LeasesAreOpen
<1> QED
  BY <1>1, <1>2 DEF CopyInv

\* A poll, whichever way it ends.
LEMMA PollKeepsCopies ==
  ASSUME TypeOK, TypeOK', CopyInv, NEW s \in Sessions, Poll(s)
  PROVE  CopyInv'
<1> USE GroupConstants
<1>a. ASSUME NEW D, NEW keep, NEW more, Scan(D, keep, more),
             keep \subseteq StopAt(D), more \cap keep = {},
             more \subseteq holes, UNCHANGED <<logVars, dlqVars>>
      PROVE  CopyInv'
  <2>1. LeasesAreOpen' /\ acked \subseteq acked'
    BY <1>a, ScanKeepsOpen DEF logVars
  <2>2. OneCopyPerTarget' /\ GuardCovers'
    BY <1>a, <2>1, SinksStill, WatermarkAdvances
  <2> QED
    BY <2>1, <2>2 DEF CopyInv
<1>1. ASSUME NEW D, PollIdle(D) PROVE CopyInv'
  BY <1>1, <1>a DEF PollIdle
<1>2. ASSUME NEW D, PollDeliver(s, D) PROVE CopyInv'
  <2>1. PICK o \in StopAt(D) : Scan(D, {o}, {})
    BY <1>2 DEF PollDeliver
  <2> QED
    BY <1>2, <1>a, <2>1 DEF PollDeliver
<1>3. ASSUME NEW D, PollHold(D) PROVE CopyInv'
  BY <1>3, <1>a DEF PollHold
<1>4. ASSUME NEW D, PollHole(D) PROVE CopyInv'
  <2>1. PICK o \in StopAt(D) : Scan(D, {}, HoleRun(o))
    BY <1>4 DEF PollHole
  <2>2. HoleRun(o) \subseteq holes
    BY ClaimedAreOffsets DEF HoleRun, Offsets
  <2> QED
    BY <1>4, <1>a, <2>1, <2>2 DEF PollHole
<1>5. ASSUME NEW D, PollDeadLetter(D) PROVE CopyInv'
  <2>1. PICK o \in StopAt(D), k \in FanOuts :
          /\ Scan(D, {}, IF AllCopied(k) THEN {o} ELSE {})
          /\ FanOut(o, k)
          /\ known' \in {Noted(o, k), Pruned(Noted(o, k), FirstGap(acked'))}
    BY <1>5 DEF PollDeadLetter
  <2>2. o \in Offsets /\ k \in 0 .. NumTargets /\ o \notin acked
    BY DEF FanOuts, StopAt, Candidates, Window
  <2>3. ~ (o < Committed)
    BY <2>2, OpenIsAboveWatermark
  <2>4. LeasesAreOpen' /\ acked \subseteq acked'
    <3>1. UNCHANGED holes
      BY <1>5 DEF PollDeadLetter, logVars
    <3> QED
      BY <2>1, <3>1, ScanKeepsOpen
  <2>5. known' \in {Noted(o, k), Pruned(Noted(o, k), Committed')}
    BY <2>1 DEF Committed
  <2>6. OneCopyPerTarget' /\ GuardCovers'
    BY <2>1, <2>2, <2>3, <2>4, <2>5, FanOutOnce
  <2> QED
    BY <2>4, <2>6 DEF CopyInv
<1>6. ASSUME PollStashed(s) PROVE CopyInv'
  BY <1>6, QuietKeepsCopies DEF PollStashed, logVars
<1>7. ASSUME PollTruncated(s) PROVE CopyInv'
  <2>1. /\ UNCHANGED dlqVars
        /\ acked' = Below(earliest)
        /\ \A o \in Offsets : gen'[o] = NoGen
        /\ Committed < earliest
    BY <1>7 DEF PollTruncated
  <2>2. /\ Committed \in 0 .. MaxLen /\ Committed' \in 0 .. MaxLen
        /\ Committed' \notin acked' /\ earliest \in 0 .. MaxLen
    BY FirstGapIsGap DEF TypeOK, Committed
  <2>3. Committed <= Committed'
    BY <2>1, <2>2 DEF Below, Offsets
  <2>4. OneCopyPerTarget' /\ GuardCovers'
    BY <2>1, <2>3, SinksStill
  <2>5. LeasesAreOpen'
    BY <2>1 DEF LeasesAreOpen
  <2> QED
    BY <2>4, <2>5 DEF CopyInv
<1> QED
  BY <1>1, <1>2, <1>3, <1>4, <1>5, <1>6, <1>7 DEF Poll

\* Settling an offset frees its lease in the same step.
LEMMA SettleKeepsOpen ==
  ASSUME TypeOK, CopyInv, NEW s, NEW o \in Offsets, SettleOwned(s, o),
         UNCHANGED holes
  PROVE  LeasesAreOpen' /\ acked \subseteq acked'
<1>1. acked \subseteq acked' /\ acked' \subseteq acked \union {o}
  BY DEF SettleOwned
<1>2. \A p \in Offsets : gen'[p] = IF p = o THEN NoGen ELSE gen[p]
  BY DEF SettleOwned, TypeOK
<1> QED
  BY <1>1, <1>2 DEF CopyInv, LeasesAreOpen

\* A reject copies only what its lease shows to be above the watermark.
LEMMA TermKeepsCopies ==
  ASSUME TypeOK, TypeOK', CopyInv, NEW s \in Sessions, NEW o \in Offsets,
         Term(s, o)
  PROVE  CopyInv'
<1> USE GroupConstants
<1>1. PICK k \in FanOuts :
        LET copies == IF Exchange /\ Readable(o) THEN k ELSE 0
        IN /\ FanOut(o, copies)
           /\ \/ /\ SettleOwned(s, o)
                 /\ known' = Pruned(Noted(o, copies), FirstGap(acked'))
              \/ /\ known' = Noted(o, copies)
                 /\ UNCHANGED <<gen, acked>>
  BY DEF Term
<1> DEFINE copies == IF Exchange /\ Readable(o) THEN k ELSE 0
<1>2. copies \in 0 .. NumTargets
  BY DEF FanOuts
<1>3. /\ FanOut(o, copies)
      /\ known' \in {Noted(o, copies), Pruned(Noted(o, copies), Committed')}
      /\ SettleOwned(s, o) \/ UNCHANGED <<gen, acked>>
  BY <1>1 DEF Committed
<1>4. copies = 0 \/ ~ (o < Committed)
  <2>1. CASE copies = 0
    BY <2>1
  <2>2. CASE copies # 0
    <3>1. o \notin holes /\ gen[o] # NoGen
      BY <2>2 DEF Readable, Term, Owns
    <3>2. o \notin acked
      BY <3>1 DEF CopyInv, LeasesAreOpen
    <3> QED
      BY <3>2, OpenIsAboveWatermark
  <2> QED
    BY <2>1, <2>2
<1> HIDE DEF copies
<1>5. UNCHANGED holes
  BY DEF Term, logVars
<1>6. LeasesAreOpen' /\ acked \subseteq acked'
  <2>1. CASE SettleOwned(s, o)
    BY <1>5, <2>1, SettleKeepsOpen
  <2>2. CASE UNCHANGED <<gen, acked>>
    BY <1>5, <2>2 DEF CopyInv, LeasesAreOpen
  <2> QED
    BY <1>3, <2>1, <2>2
<1>7. OneCopyPerTarget' /\ GuardCovers'
  BY <1>2, <1>3, <1>4, <1>6, FanOutOnce
<1> QED
  BY <1>6, <1>7 DEF CopyInv

\* What the sessions do.
LEMMA SessionStepKeepsCopies ==
  ASSUME TypeOK, TypeOK', CopyInv, NEW s \in Sessions, SessionStep(s)
  PROVE  CopyInv'
<1> USE GroupConstants
<1>1. ASSUME FlowBegins(s) PROVE CopyInv'
  BY <1>1, QuietKeepsCopies DEF FlowBegins, groupVars, logVars
<1>2. ASSUME NEW k \in Writes, Disconnect(s, k) PROVE CopyInv'
  BY <1>2, QuietKeepsCopies DEF Disconnect, logVars
<1>3. ASSUME NEW o \in Offsets, Ack(s, o) PROVE CopyInv'
  <2>1. LeasesAreOpen' /\ acked \subseteq acked'
    BY <1>3, SettleKeepsOpen DEF Ack, logVars
  <2>2. OneCopyPerTarget' /\ GuardCovers'
    BY <1>3, <2>1, SinksStill, WatermarkAdvances DEF Ack
  <2> QED
    BY <2>1, <2>2 DEF CopyInv
<1>4. ASSUME NEW o \in Offsets, Fenced(s, o) PROVE CopyInv'
  BY <1>4, QuietKeepsCopies DEF Fenced, groupVars, logVars
<1>5. ASSUME NEW o \in Offsets, Nack(s, o) PROVE CopyInv'
  <2>1. \A p \in Offsets : gen'[p] # NoGen => gen[p] # NoGen
    BY <1>5 DEF Nack, Owns, TypeOK
  <2> QED
    BY <1>5, <2>1, QuietKeepsCopies DEF Nack, logVars
<1>6. ASSUME NEW o \in Offsets, Progress(s, o) PROVE CopyInv'
  BY <1>6, QuietKeepsCopies DEF Progress, logVars
<1>7. ASSUME NEW n \in 0 .. MaxLen, CumulativeAck(s, n) PROVE CopyInv'
  <2>1. /\ UNCHANGED <<holes, dlqVars>>
        /\ acked' = acked \union Below(n)
        /\ \A o \in Offsets : gen'[o] = IF o < n THEN NoGen ELSE gen[o]
    BY <1>7 DEF CumulativeAck, CommitUpTo, logVars
  <2> QED
    BY <2>1, QuietKeepsCopies DEF Below
<1> QED
  BY <1>1, <1>2, <1>3, <1>4, <1>5, <1>6, <1>7, PollKeepsCopies,
     TermKeepsCopies DEF SessionStep

\* A restart loses the guard sets and the acknowledgements since the last
\* checkpoint, so the watermark may move back; the sets are rebuilt from what
\* each target holds, pruned offsets included.
LEMMA CrashKeepsCopies ==
  ASSUME TypeOK, CopyInv, Crash
  PROVE  CopyInv'
<1>1. OneCopyPerTarget'
  BY DEF Crash, CopyInv, OneCopyPerTarget
<1>2. GuardCovers'
  BY DEF Crash, GuardCovers, KnownAtOpen
<1>3. LeasesAreOpen'
  BY DEF Crash, LeasesAreOpen
<1> QED
  BY <1>1, <1>2, <1>3 DEF CopyInv

\* What happens around the group.
LEMMA EnvironmentKeepsCopies ==
  ASSUME TypeOK, TypeOK', CopyInv, Environment
  PROVE  CopyInv'
<1>1. ASSUME NEW k \in Writes, MaybeCheckpoint(k) PROVE CopyInv'
  BY <1>1, QuietKeepsCopies DEF MaybeCheckpoint, logVars
<1>2. ASSUME ForceReap PROVE CopyInv'
  BY <1>2, QuietKeepsCopies DEF ForceReap, groupVars
<1>3. ASSUME NEW o \in Offsets, Lapse(o) PROVE CopyInv'
  BY <1>3, QuietKeepsCopies DEF Lapse, logVars
<1>4. ASSUME NEW o \in Offsets, TtlPasses(o) PROVE CopyInv'
  BY <1>4, QuietKeepsCopies DEF TtlPasses, groupVars
<1>5. ASSUME NEW o \in Offsets, BecomesDue(o) PROVE CopyInv'
  BY <1>5, QuietKeepsCopies DEF BecomesDue, groupVars
<1>6. ASSUME NEW o \in Offsets, Compact(o) PROVE CopyInv'
  BY <1>6, QuietKeepsCopies DEF Compact, groupVars
<1>7. ASSUME NEW p \in BOOLEAN, SetPause(p) PROVE CopyInv'
  BY <1>7, QuietKeepsCopies DEF SetPause, logVars
<1>8. ASSUME NEW k \in Kinds, Publish(k) PROVE CopyInv'
  BY <1>8, QuietKeepsCopies DEF Publish, groupVars
<1> QED
  BY <1>1, <1>2, <1>3, <1>4, <1>5, <1>6, <1>7, <1>8, CrashKeepsCopies
     DEF Environment

\* A dead-letter target never holds two copies of a message: not when an
\* append to a later target fails and the message comes round again, not after
\* the guard sets are pruned, and not after a crash that takes the cursor back
\* to an older checkpoint.
THEOREM OneCopyPerTargetHolds == Spec => []OneCopyPerTarget
<1>1. Init => CopyInv
  BY GroupConstants DEF Init, CopyInv, OneCopyPerTarget, GuardCovers,
                        LeasesAreOpen
<1>2. TypeOK /\ TypeOK' /\ CopyInv /\ [Next]_vars => CopyInv'
  <2> SUFFICES ASSUME TypeOK, TypeOK', CopyInv, [Next]_vars PROVE CopyInv'
    OBVIOUS
  <2>1. CASE UNCHANGED vars
    BY <2>1, QuietKeepsCopies DEF vars, groupVars, logVars
  <2>2. CASE Environment
    BY <2>2, EnvironmentKeepsCopies
  <2>3. CASE \E s \in Sessions : SessionStep(s)
    BY <2>3, SessionStepKeepsCopies
  <2> QED
    BY <2>1, <2>2, <2>3 DEF Next
<1>3. CopyInv => OneCopyPerTarget
  BY DEF CopyInv
<1> QED
  BY <1>1, <1>2, <1>3, GroupTypeCorrect, PTL DEF Spec

-----------------------------------------------------------------------------
(* No record is skipped silently.                                          *)

\* The part of the type invariant the argument needs.
Shape ==
  /\ log \in Seq(Kinds)
  /\ earliest \in Nat
  /\ dlq \in [Targets -> [Offsets -> Nat]]
  /\ known \in [Targets -> SUBSET Offsets]
  /\ acked \subseteq Offsets
  /\ savedAcked \subseteq Offsets

\* The in-memory sets that guard against second copies never run ahead of the
\* sinks they guard: an offset they hold is durable in that target.
KnownDurable == \A t \in Targets : \A o \in known[t] : dlq[t][o] > 0

\* The inductive invariant.
SkipInv == Shape /\ KnownDurable /\ NoSilentSkip

\* The evidence that accounts for an offset is never taken back.
EvidenceGrows ==
  /\ settled \subseteq settled'
  /\ earliest' \in Nat /\ earliest <= earliest'
  /\ holes \subseteq holes'
  /\ past \subseteq past'
  /\ log' = log \/ \E k \in Kinds : log' = Append(log, k)
  /\ dlq' \in [Targets -> [Offsets -> Nat]]
  /\ \A t \in Targets, o \in Offsets : dlq[t][o] <= dlq'[t][o]

\* A longer log keeps the kind of every record it had.
LEMMA AppendKeepsKinds ==
  ASSUME NEW S, NEW l \in Seq(S), NEW k \in S, NEW o \in Nat, o < Len(l)
  PROVE  /\ Append(l, k) \in Seq(S)
         /\ o < Len(Append(l, k))
         /\ Append(l, k)[o + 1] = l[o + 1]
OBVIOUS

\* An offset once accounted for stays accounted for.
LEMMA AccountedStays ==
  ASSUME Shape, EvidenceGrows, NEW o \in Offsets, Accounted(o)
  PROVE  Accounted(o)'
<1> USE GroupConstants
<1>0. o \in Nat
  BY DEF Offsets
<1>1. CASE o \in settled
  BY <1>1 DEF Accounted, EvidenceGrows
<1>2. CASE o < earliest
  <2>1. o < earliest'
    BY <1>0, <1>2 DEF EvidenceGrows, Shape
  <2> QED
    BY <2>1 DEF Accounted
<1>3. CASE o \in holes
  BY <1>3 DEF Accounted, EvidenceGrows
<1>4. CASE o \in past
  BY <1>4 DEF Accounted, EvidenceGrows
<1>5. CASE o < Flushed /\ ~ Matches(o)
  <2>1. CASE log' = log
    BY <1>5, <2>1 DEF Accounted, Flushed, Matches, Kind
  <2>2. CASE \E k \in Kinds : log' = Append(log, k)
    <3>1. PICK k \in Kinds : log' = Append(log, k)
      BY <2>2
    <3>2. o < Len(log') /\ log'[o + 1] = log[o + 1]
      BY <1>0, <1>5, <3>1, AppendKeepsKinds DEF Shape, Flushed
    <3> QED
      BY <1>5, <3>2 DEF Accounted, Flushed, Matches, Kind
  <2> QED
    BY <2>1, <2>2 DEF EvidenceGrows
<1>6. CASE \A t \in Targets : dlq[t][o] > 0
  <2>1. \A t \in Targets : dlq'[t][o] > 0
    BY <1>6 DEF EvidenceGrows, Shape
  <2> QED
    BY <2>1 DEF Accounted
<1> QED
  BY <1>1, <1>2, <1>3, <1>4, <1>5, <1>6 DEF Accounted

\* Enough to show for a step: evidence only grows, the shape and the guard
\* sets are kept, and every newly acknowledged offset is accounted for.
LEMMA StepKeepsSkipInv ==
  ASSUME SkipInv, EvidenceGrows, Shape', KnownDurable',
         \A o \in acked' \union savedAcked' :
            o \in acked \union savedAcked \/ Accounted(o)'
  PROVE  SkipInv'
<1>1. ASSUME NEW o \in acked' \union savedAcked' PROVE Accounted(o)'
  <2>1. CASE o \in acked \union savedAcked
    <3>1. o \in Offsets /\ Accounted(o)
      BY <2>1 DEF SkipInv, Shape, NoSilentSkip
    <3> QED
      BY <3>1, AccountedStays DEF SkipInv
  <2> QED
    BY <1>1, <2>1
<1> QED
  BY <1>1 DEF SkipInv, NoSilentSkip

\* What a scan passes over is expired or off the group's subject.
LEMMA PassedOverIsAccounted ==
  ASSUME NEW D, NEW o \in PassedOver(D)
  PROVE  o \in Offsets /\ Accounted(o)
<1>1. o \in Offsets /\ o < Flushed
  BY DEF PassedOver, Candidates, Window
<1>2. PassOver(o)
  BY <1>1, GroupConstants DEF PassedOver, Offsets
<1> QED
  BY <1>1, <1>2 DEF PassOver, Expired, Accounted

\* The log and the dead letters stand still.
LEMMA StillEvidence ==
  ASSUME Shape, UNCHANGED <<logVars, dlq>>, settled \subseteq settled'
  PROVE  EvidenceGrows
BY DEF Shape, EvidenceGrows, logVars

\* A fan-out never takes a copy back; a guard set that is only told about
\* the targets appended to, and then pruned, stays durable.
LEMMA FanOutKeepsGuards ==
  ASSUME Shape, KnownDurable, NEW o \in Offsets, NEW k \in 0 .. NumTargets,
         FanOut(o, k)
  PROVE  /\ dlq' \in [Targets -> [Offsets -> Nat]]
         /\ \A t \in Targets, p \in Offsets : dlq[t][p] <= dlq'[t][p]
         /\ \A t \in Targets : t <= k => dlq'[t][o] > 0
         /\ Noted(o, k) \in [Targets -> SUBSET Offsets]
         /\ \A t \in Targets : \A p \in Noted(o, k)[t] : dlq'[t][p] > 0
<1>1. \A t \in Targets : dlq'[t] = IF t <= k /\ o \notin known[t]
                                   THEN [dlq[t] EXCEPT ![o] = @ + 1]
                                   ELSE dlq[t]
  BY DEF FanOut
<1>2. dlq' \in [Targets -> [Offsets -> Nat]]
  BY DEF FanOut, Shape
<1>3. ASSUME NEW t \in Targets, NEW p \in Offsets
      PROVE  dlq[t][p] <= dlq'[t][p]
  <2>1. dlq[t] \in [Offsets -> Nat]
    BY DEF Shape
  <2>2. CASE t <= k /\ o \notin known[t]
    <3>1. dlq'[t] = [dlq[t] EXCEPT ![o] = dlq[t][o] + 1]
      BY <1>1, <2>2
    <3> QED
      BY <2>1, <3>1
  <2>3. CASE ~ (t <= k /\ o \notin known[t])
    <3>1. dlq'[t] = dlq[t]
      BY <1>1, <2>3
    <3> QED
      BY <2>1, <3>1
  <2> QED
    BY <2>2, <2>3
<1>4. ASSUME NEW t \in Targets, t <= k PROVE dlq'[t][o] > 0
  <2>1. dlq[t] \in [Offsets -> Nat]
    BY DEF Shape
  <2>2. CASE o \in known[t]
    BY <1>1, <2>2 DEF KnownDurable
  <2>3. CASE o \notin known[t]
    <3>1. dlq'[t] = [dlq[t] EXCEPT ![o] = dlq[t][o] + 1]
      BY <1>1, <1>4, <2>3
    <3> QED
      BY <2>1, <3>1
  <2> QED
    BY <2>2, <2>3
<1>5. Noted(o, k) \in [Targets -> SUBSET Offsets]
  BY DEF Noted, Shape
<1>6. ASSUME NEW t \in Targets, NEW p \in Noted(o, k)[t]
      PROVE  dlq'[t][p] > 0
  <2>1. CASE p \in known[t]
    <3>1. p \in Offsets /\ dlq[t][p] > 0
      BY <2>1 DEF Shape, KnownDurable
    <3> QED
      BY <1>2, <1>3, <3>1 DEF Shape
  <2>2. CASE p \notin known[t]
    <3>1. t <= k /\ p = o
      BY <1>6, <2>2 DEF Noted
    <3> QED
      BY <1>4, <3>1
  <2> QED
    BY <2>1, <2>2
<1> QED
  BY <1>2, <1>3, <1>4, <1>5, <1>6

\* Pruning a guard set only shrinks it.
LEMMA PrunedIsSmaller ==
  ASSUME NEW sets \in [Targets -> SUBSET Offsets], NEW low
  PROVE  /\ Pruned(sets, low) \in [Targets -> SUBSET Offsets]
         /\ \A t \in Targets : Pruned(sets, low)[t] \subseteq sets[t]
BY DEF Pruned

\* One scan that appends to no dead-letter target.
LEMMA ScanKeepsSkipInv ==
  ASSUME SkipInv, NEW D, NEW keep, NEW more, Scan(D, keep, more),
         more \subseteq holes \cap Offsets,
         UNCHANGED <<logVars, dlqVars, diskVars, settled>>
  PROVE  SkipInv'
<1>1. acked' = acked \union PassedOver(D) \union more
  BY DEF Scan
<1>2. EvidenceGrows
  BY StillEvidence DEF SkipInv, dlqVars
<1>3. ASSUME NEW o \in PassedOver(D) PROVE o \in Offsets /\ Accounted(o)'
  BY <1>2, PassedOverIsAccounted, AccountedStays DEF SkipInv
<1>4. ASSUME NEW o \in more PROVE o \in Offsets /\ Accounted(o)'
  BY <1>4 DEF Accounted, logVars
<1>5. Shape' /\ KnownDurable'
  BY <1>1, <1>3, <1>4 DEF SkipInv, Shape, KnownDurable, dlqVars, logVars,
                          diskVars
<1>6. savedAcked' = savedAcked
  BY DEF diskVars
<1> QED
  BY <1>1, <1>2, <1>3, <1>4, <1>5, <1>6, StepKeepsSkipInv

\* The dead-letter step: an offset is acknowledged only when every target
\* took its copy or already had one.
LEMMA DeadLetterKeepsSkipInv ==
  ASSUME SkipInv, NEW D, PollDeadLetter(D)
  PROVE  SkipInv'
<1> USE GroupConstants
<1>1. PICK o \in StopAt(D), k \in FanOuts :
        /\ Scan(D, {}, IF AllCopied(k) THEN {o} ELSE {})
        /\ FanOut(o, k)
        /\ known' = IF AllCopied(k) THEN Pruned(Noted(o, k), FirstGap(acked'))
                                     ELSE Noted(o, k)
  BY DEF PollDeadLetter
<1>2. o \in Offsets /\ k \in 0 .. NumTargets
  BY DEF StopAt, Candidates, Window, FanOuts
<1>3. /\ dlq' \in [Targets -> [Offsets -> Nat]]
      /\ \A t \in Targets, p \in Offsets : dlq[t][p] <= dlq'[t][p]
      /\ \A t \in Targets : t <= k => dlq'[t][o] > 0
      /\ Noted(o, k) \in [Targets -> SUBSET Offsets]
      /\ \A t \in Targets : \A p \in Noted(o, k)[t] : dlq'[t][p] > 0
  BY <1>1, <1>2, FanOutKeepsGuards DEF SkipInv
<1>4. /\ known' \in [Targets -> SUBSET Offsets]
      /\ \A t \in Targets : known'[t] \subseteq Noted(o, k)[t]
  BY <1>1, <1>3, PrunedIsSmaller
<1>5. /\ UNCHANGED <<logVars, diskVars, settled>>
      /\ acked' = acked \union PassedOver(D)
                       \union (IF AllCopied(k) THEN {o} ELSE {})
  BY <1>1 DEF PollDeadLetter, Scan
<1>6. EvidenceGrows
  BY <1>3, <1>5 DEF EvidenceGrows, SkipInv, Shape, logVars
<1>7. ASSUME NEW p \in PassedOver(D) PROVE p \in Offsets /\ Accounted(p)'
  BY <1>6, PassedOverIsAccounted, AccountedStays DEF SkipInv
<1>8. ASSUME AllCopied(k) PROVE Accounted(o)'
  <2>1. \A t \in Targets : dlq'[t][o] > 0
    BY <1>3, <1>8 DEF AllCopied, Targets
  <2> QED
    BY <2>1 DEF Accounted
<1>9. Shape'
  BY <1>2, <1>3, <1>4, <1>5, <1>7 DEF SkipInv, Shape, logVars, diskVars
<1>10. KnownDurable'
  BY <1>3, <1>4 DEF KnownDurable
<1>11. savedAcked' = savedAcked
  BY <1>5 DEF diskVars
<1> QED
  BY <1>5, <1>6, <1>7, <1>8, <1>9, <1>10, <1>11, StepKeepsSkipInv

\* A settled offset was settled by a session.
LEMMA SettleKeepsSkipInv ==
  ASSUME SkipInv, NEW s, NEW o \in Offsets, SettleOwned(s, o),
         UNCHANGED <<logVars, diskVars>>,
         dlq' \in [Targets -> [Offsets -> Nat]],
         \A t \in Targets, p \in Offsets : dlq[t][p] <= dlq'[t][p],
         known' \in [Targets -> SUBSET Offsets], KnownDurable'
  PROVE  SkipInv'
<1>1. EvidenceGrows
  BY DEF SettleOwned, EvidenceGrows, SkipInv, Shape, logVars
<1>2. Accounted(o)'
  BY DEF Accounted, SettleOwned
<1>3. acked' \subseteq acked \union {o}
  BY DEF SettleOwned
<1>4. Shape'
  BY <1>3 DEF SkipInv, Shape, logVars, diskVars
<1>5. savedAcked' = savedAcked
  BY DEF diskVars
<1> QED
  BY <1>1, <1>2, <1>3, <1>4, <1>5, StepKeepsSkipInv

\* The initial state: nothing acknowledged, nothing known.
LEMMA InitSkipInv == Init => SkipInv
BY GroupConstants
   DEF Init, SkipInv, Shape, KnownDurable, NoSilentSkip, Targets

\* A step that leaves the log, the cursor and the dead letters alone and
\* checkpoints at most the current cursor.
LEMMA QuietKeepsSkipInv ==
  ASSUME SkipInv, UNCHANGED <<logVars, dlqVars, acked, settled>>,
         savedAcked' \in {savedAcked, acked}
  PROVE  SkipInv'
<1>1. EvidenceGrows
  BY StillEvidence DEF SkipInv, dlqVars
<1>2. Shape' /\ KnownDurable'
  BY DEF SkipInv, Shape, KnownDurable, dlqVars, logVars
<1> QED
  BY <1>1, <1>2, StepKeepsSkipInv

\* A step of the log's background work: only the evidence moves.
LEMMA LogStepKeepsSkipInv ==
  ASSUME SkipInv, EvidenceGrows, log' \in Seq(Kinds),
         UNCHANGED <<acked, savedAcked, dlqVars>>
  PROVE  SkipInv'
<1>1. Shape' /\ KnownDurable'
  BY DEF SkipInv, Shape, KnownDurable, dlqVars, EvidenceGrows
<1> QED
  BY <1>1, StepKeepsSkipInv

\* A poll, whichever way it ends.
LEMMA PollKeepsSkipInv ==
  ASSUME SkipInv, NEW s \in Sessions, Poll(s)
  PROVE  SkipInv'
<1> USE GroupConstants
<1>1. ASSUME NEW D, PollIdle(D) PROVE SkipInv'
  <2>1. Scan(D, {}, {}) /\ UNCHANGED <<logVars, dlqVars, diskVars, settled>>
    BY <1>1 DEF PollIdle
  <2> QED
    BY <2>1, ScanKeepsSkipInv
<1>2. ASSUME NEW D, PollDeliver(s, D) PROVE SkipInv'
  <2>1. PICK o \in StopAt(D) : Scan(D, {o}, {})
    BY <1>2 DEF PollDeliver
  <2>2. UNCHANGED <<logVars, dlqVars, diskVars, settled>>
    BY <1>2 DEF PollDeliver
  <2> QED
    BY <2>1, <2>2, ScanKeepsSkipInv
<1>3. ASSUME NEW D, PollHold(D) PROVE SkipInv'
  <2>1. Scan(D, {}, {}) /\ UNCHANGED <<logVars, dlqVars, diskVars, settled>>
    BY <1>3 DEF PollHold
  <2> QED
    BY <2>1, ScanKeepsSkipInv
<1>4. ASSUME NEW D, PollHole(D) PROVE SkipInv'
  <2>1. PICK o \in StopAt(D) : Scan(D, {}, HoleRun(o))
    BY <1>4 DEF PollHole
  <2>2. UNCHANGED <<logVars, dlqVars, diskVars, settled>>
    BY <1>4 DEF PollHole
  <2>3. HoleRun(o) \subseteq holes \cap Offsets
    BY DEF HoleRun, Offsets
  <2> QED
    BY <2>1, <2>2, <2>3, ScanKeepsSkipInv
<1>5. ASSUME PollStashed(s) PROVE SkipInv'
  BY <1>5, QuietKeepsSkipInv DEF PollStashed, diskVars, ghostVars
<1>6. ASSUME PollTruncated(s) PROVE SkipInv'
  <2>1. /\ UNCHANGED <<logVars, dlqVars, settled, savedAcked>>
        /\ acked' = Below(earliest)
    BY <1>6 DEF PollTruncated, diskVars, ghostVars
  <2>2. EvidenceGrows
    BY <2>1, StillEvidence DEF SkipInv, dlqVars
  <2>3. Shape' /\ KnownDurable'
    BY <2>1 DEF SkipInv, Shape, KnownDurable, dlqVars, logVars, Below
  <2>4. \A o \in acked' : Accounted(o)'
    BY <2>1 DEF Below, Accounted, logVars
  <2> QED
    BY <2>1, <2>2, <2>3, <2>4, StepKeepsSkipInv
<1> QED
  BY <1>1, <1>2, <1>3, <1>4, <1>5, <1>6, DeadLetterKeepsSkipInv DEF Poll

\* A reject: copied to every target, or not settled at all.
LEMMA TermKeepsSkipInv ==
  ASSUME SkipInv, NEW s \in Sessions, NEW o \in Offsets, Term(s, o)
  PROVE  SkipInv'
<1> USE GroupConstants
<1>1. PICK k \in FanOuts :
        LET copies == IF Exchange /\ Readable(o) THEN k ELSE 0
        IN /\ FanOut(o, copies)
           /\ \/ /\ SettleOwned(s, o)
                 /\ known' = Pruned(Noted(o, copies), FirstGap(acked'))
              \/ /\ known' = Noted(o, copies)
                 /\ UNCHANGED <<acked, settled>>
  BY DEF Term
<1> DEFINE copies == IF Exchange /\ Readable(o) THEN k ELSE 0
<1>2. copies \in 0 .. NumTargets
  BY DEF FanOuts
<1>3. FanOut(o, copies)
  BY <1>1
<1>4. \/ /\ SettleOwned(s, o)
         /\ known' = Pruned(Noted(o, copies), FirstGap(acked'))
      \/ /\ known' = Noted(o, copies)
         /\ UNCHANGED <<acked, settled>>
  BY <1>1
<1> HIDE DEF copies
<1>5. /\ dlq' \in [Targets -> [Offsets -> Nat]]
      /\ \A t \in Targets, p \in Offsets : dlq[t][p] <= dlq'[t][p]
      /\ Noted(o, copies) \in [Targets -> SUBSET Offsets]
      /\ \A t \in Targets : \A p \in Noted(o, copies)[t] : dlq'[t][p] > 0
  BY <1>2, <1>3, FanOutKeepsGuards DEF SkipInv
<1>6. /\ known' \in [Targets -> SUBSET Offsets]
      /\ \A t \in Targets : known'[t] \subseteq Noted(o, copies)[t]
  BY <1>4, <1>5, PrunedIsSmaller
<1>7. KnownDurable'
  BY <1>5, <1>6 DEF KnownDurable
<1>8. UNCHANGED <<logVars, diskVars>>
  BY DEF Term
<1>9. CASE SettleOwned(s, o)
  BY <1>5, <1>6, <1>7, <1>8, <1>9, SettleKeepsSkipInv
<1>10. CASE UNCHANGED <<acked, settled>>
  <2>1. EvidenceGrows
    BY <1>5, <1>8, <1>10 DEF EvidenceGrows, SkipInv, Shape, logVars
  <2>2. Shape'
    BY <1>5, <1>6, <1>8, <1>10 DEF SkipInv, Shape, logVars, diskVars
  <2> QED
    BY <1>7, <1>8, <1>10, <2>1, <2>2, StepKeepsSkipInv DEF diskVars
<1> QED
  BY <1>4, <1>9, <1>10

\* What the sessions do.
LEMMA SessionStepKeepsSkipInv ==
  ASSUME SkipInv, NEW s \in Sessions, SessionStep(s)
  PROVE  SkipInv'
<1>1. ASSUME FlowBegins(s) PROVE SkipInv'
  BY <1>1, QuietKeepsSkipInv DEF FlowBegins, groupVars, diskVars, ghostVars
<1>2. ASSUME NEW k \in Writes, Disconnect(s, k) PROVE SkipInv'
  <2>1. savedAcked' \in {savedAcked, acked}
    BY <1>2 DEF Disconnect, CheckpointCursor, SaveCursor
  <2> QED
    BY <1>2, <2>1, QuietKeepsSkipInv DEF Disconnect
<1>3. ASSUME NEW o \in Offsets, Ack(s, o) PROVE SkipInv'
  <2>1. SettleOwned(s, o) /\ UNCHANGED <<logVars, dlqVars, diskVars>>
    BY <1>3 DEF Ack
  <2>2. /\ dlq' \in [Targets -> [Offsets -> Nat]]
        /\ \A t \in Targets, p \in Offsets : dlq[t][p] <= dlq'[t][p]
        /\ known' \in [Targets -> SUBSET Offsets]
        /\ KnownDurable'
    BY <2>1 DEF SkipInv, Shape, KnownDurable, dlqVars
  <2> QED
    BY <2>1, <2>2, SettleKeepsSkipInv
<1>4. ASSUME NEW o \in Offsets, Fenced(s, o) PROVE SkipInv'
  BY <1>4, QuietKeepsSkipInv DEF Fenced, groupVars, diskVars, ghostVars
<1>5. ASSUME NEW o \in Offsets, Nack(s, o) PROVE SkipInv'
  BY <1>5, QuietKeepsSkipInv DEF Nack, diskVars, ghostVars
<1>6. ASSUME NEW o \in Offsets, Progress(s, o) PROVE SkipInv'
  BY <1>6, QuietKeepsSkipInv DEF Progress, diskVars, ghostVars
<1>7. ASSUME NEW n \in 0 .. MaxLen, CumulativeAck(s, n) PROVE SkipInv'
  <2>1. /\ UNCHANGED <<logVars, dlqVars, savedAcked>>
        /\ acked' = acked \union Below(n)
        /\ settled' = settled \union Below(n)
    BY <1>7 DEF CumulativeAck, CommitUpTo, diskVars
  <2>2. EvidenceGrows
    BY <2>1, StillEvidence DEF SkipInv, dlqVars
  <2>3. Shape' /\ KnownDurable'
    BY <2>1 DEF SkipInv, Shape, KnownDurable, dlqVars, logVars, Below
  <2>4. \A o \in Below(n) : Accounted(o)'
    BY <2>1 DEF Accounted
  <2> QED
    BY <2>1, <2>2, <2>3, <2>4, StepKeepsSkipInv
<1> QED
  BY <1>1, <1>2, <1>3, <1>4, <1>5, <1>6, <1>7, PollKeepsSkipInv,
     TermKeepsSkipInv DEF SessionStep

\* A restart resumes the checkpointed cursor, and rebuilds the guard sets from
\* what is durable.
LEMMA CrashKeepsSkipInv ==
  ASSUME SkipInv, Crash
  PROVE  SkipInv'
<1>1. /\ UNCHANGED <<logVars, dlq, settled, savedAcked>>
      /\ acked' = savedAcked
      /\ known' = KnownAtOpen
  BY DEF Crash, Resumed
<1>2. EvidenceGrows
  BY <1>1, StillEvidence DEF SkipInv
<1>3. Shape' /\ KnownDurable'
  BY <1>1 DEF SkipInv, Shape, KnownDurable, KnownAtOpen, logVars
<1> QED
  BY <1>1, <1>2, <1>3, StepKeepsSkipInv

\* What happens around the group: checkpoints, crashes, the clock and the log.
LEMMA EnvironmentKeepsSkipInv ==
  ASSUME SkipInv, Environment
  PROVE  SkipInv'
<1>1. ASSUME NEW k \in Writes, MaybeCheckpoint(k) PROVE SkipInv'
  <2>1. savedAcked' \in {savedAcked, acked}
    BY <1>1 DEF MaybeCheckpoint, SaveCursor
  <2> QED
    BY <1>1, <2>1, QuietKeepsSkipInv DEF MaybeCheckpoint
<1>2. ASSUME NEW o \in Offsets, Lapse(o) PROVE SkipInv'
  BY <1>2, QuietKeepsSkipInv DEF Lapse, diskVars, ghostVars
<1>3. ASSUME NEW p \in BOOLEAN, SetPause(p) PROVE SkipInv'
  BY <1>3, QuietKeepsSkipInv DEF SetPause, diskVars, ghostVars
<1>4. ASSUME ForceReap PROVE SkipInv'
  <2>1. EvidenceGrows /\ log' \in Seq(Kinds)
    BY <1>4 DEF ForceReap, EvidenceGrows, SkipInv, Shape, dlqVars, ghostVars
  <2> QED
    BY <1>4, <2>1, LogStepKeepsSkipInv DEF ForceReap, groupVars, diskVars
<1>5. ASSUME NEW o \in Offsets, TtlPasses(o) PROVE SkipInv'
  <2>1. EvidenceGrows /\ log' \in Seq(Kinds)
    BY <1>5 DEF TtlPasses, EvidenceGrows, SkipInv, Shape, dlqVars, ghostVars
  <2> QED
    BY <1>5, <2>1, LogStepKeepsSkipInv DEF TtlPasses, groupVars, diskVars
<1>6. ASSUME NEW o \in Offsets, BecomesDue(o) PROVE SkipInv'
  <2>1. EvidenceGrows /\ log' \in Seq(Kinds)
    BY <1>6 DEF BecomesDue, EvidenceGrows, SkipInv, Shape, dlqVars, ghostVars
  <2> QED
    BY <1>6, <2>1, LogStepKeepsSkipInv DEF BecomesDue, groupVars, diskVars
<1>7. ASSUME NEW o \in Offsets, Compact(o) PROVE SkipInv'
  <2>1. EvidenceGrows /\ log' \in Seq(Kinds)
    BY <1>7 DEF Compact, EvidenceGrows, SkipInv, Shape, dlqVars, ghostVars
  <2> QED
    BY <1>7, <2>1, LogStepKeepsSkipInv DEF Compact, groupVars, diskVars
<1>8. ASSUME NEW k \in Kinds, Publish(k) PROVE SkipInv'
  <2>1. log' = Append(log, k) /\ log' \in Seq(Kinds)
    BY <1>8 DEF Publish, SkipInv, Shape
  <2>2. EvidenceGrows
    BY <1>8, <2>1 DEF Publish, EvidenceGrows, SkipInv, Shape, dlqVars,
                      ghostVars
  <2> QED
    BY <1>8, <2>1, <2>2, LogStepKeepsSkipInv DEF Publish, groupVars, diskVars
<1> QED
  BY <1>1, <1>2, <1>3, <1>4, <1>5, <1>6, <1>7, <1>8, CrashKeepsSkipInv
     DEF Environment

\* The invariant holds throughout.
LEMMA SkipInvHolds == Spec => []SkipInv
<1>1. Init => SkipInv
  BY InitSkipInv
<1>2. SkipInv /\ [Next]_vars => SkipInv'
  <2> SUFFICES ASSUME SkipInv, [Next]_vars PROVE SkipInv'
    OBVIOUS
  <2>1. CASE UNCHANGED vars
    BY <2>1, QuietKeepsSkipInv DEF vars, groupVars, diskVars, ghostVars
  <2>2. CASE Environment
    BY <2>2, EnvironmentKeepsSkipInv
  <2>3. CASE \E s \in Sessions : SessionStep(s)
    BY <2>3, SessionStepKeepsSkipInv
  <2> QED
    BY <2>1, <2>2, <2>3 DEF Next
<1> QED
  BY <1>1, <1>2, PTL DEF Spec

\* The broker never counts a record as done in silence: whatever the sessions,
\* the clock, the sinks, the log and crashes do, every offset at which the
\* cursor (or the checkpoint a restart resumes) claims progress is accounted
\* for.
THEOREM NoSilentSkipHolds == Spec => []NoSilentSkip
<1>1. SkipInv => NoSilentSkip
  BY DEF SkipInv
<1> QED
  BY <1>1, SkipInvHolds, PTL

-----------------------------------------------------------------------------
(* Fencing.  A token is worth something as long as the offset's lease has  *)
(* its generation, so the argument is about generations: each is issued    *)
(* once, and the delivery it was issued for is the latest.  A truncated    *)
(* poll starts the generations again while sessions keep their tokens, so  *)
(* the theorem assumes that retention does not overtake the cursor.        *)

\* Every generation in the lease table, in the stashed match and in a token
\* was issued by this process.
Issued ==
  /\ \A o \in Offsets : gen[o] < nextGen
  /\ pending.gen < nextGen
  /\ \A s \in Sessions, o \in Offsets : leased[s][o].gen < nextGen

\* A token with the lease's generation, or the stashed match, is of the
\* latest delivery.
TokensCurrent ==
  /\ \A s \in Sessions, o \in Offsets :
       gen[o] # NoGen /\ leased[s][o].gen = gen[o]
         => leased[s][o].nth = granted[o]
  /\ pending # NoMatch /\ pending.gen = gen[pending.off]
       => pending.nth = granted[pending.off]

\* Retention has not reaped a record that the cursor has not passed.
NotOvertaken == earliest <= Committed

\* The inductive invariant.
FenceInv == Issued /\ TokensCurrent

\* What the lease table's typing says of one offset and one token.
LEMMA TokenFacts ==
  ASSUME TypeOK
  PROVE  /\ nextGen \in Nat /\ NoGen = -1
         /\ \A o \in Offsets : gen[o] \in Int
         /\ \A s \in Sessions, o \in Offsets : leased[s][o].gen \in Int
         /\ pending.gen \in Int
         /\ pending # NoMatch => pending.off \in Offsets /\ pending.gen \in Nat
<1>1. nextGen \in Nat /\ NoGen = -1
  BY GroupConstants DEF TypeOK, NoGen
<1>2. \A o \in Offsets : gen[o] \in Int
  BY <1>1 DEF TypeOK
<1>3. ASSUME NEW s \in Sessions, NEW o \in Offsets PROVE leased[s][o].gen \in Int
  <2>1. leased[s][o] \in [gen : Nat \union {NoGen}, nth : Nat]
    BY DEF TypeOK
  <2> QED
    BY <1>1, <2>1
<1>4. CASE pending = NoMatch
  BY <1>1, <1>2, <1>3, <1>4 DEF NoMatch
<1>5. CASE pending \in [off : Offsets, gen : Nat, nth : Nat]
  BY <1>1, <1>2, <1>3, <1>5
<1> QED
  BY <1>4, <1>5 DEF TypeOK

\* How a step may change the leases, the tokens and the stashed match: a lease
\* is dropped, stays with its deliveries or gets a fresh generation; a token
\* stays, is dropped, is the stashed match or the lease's own.
FairDealing ==
  /\ nextGen <= nextGen'
  /\ \A o \in Offsets :
       \/ gen'[o] = NoGen
       \/ gen'[o] = gen[o] /\ granted'[o] = granted[o]
       \/ nextGen <= gen'[o] /\ gen'[o] < nextGen'
  /\ \A s \in Sessions, o \in Offsets :
       \/ leased'[s][o] = leased[s][o]
       \/ leased'[s][o].gen = NoGen
       \/ /\ pending # NoMatch /\ o = pending.off
          /\ leased'[s][o].gen = pending.gen /\ leased'[s][o].nth = pending.nth
       \/ leased'[s][o].gen = gen'[o] /\ leased'[s][o].nth = granted'[o]
  /\ \/ pending' = pending
     \/ pending' = NoMatch
     \/ pending'.gen = gen'[pending'.off] /\ pending'.nth = granted'[pending'.off]

\* Such a step keeps every current token of the latest delivery.
LEMMA FairDealingKeepsFence ==
  ASSUME TypeOK, TypeOK', FenceInv, FairDealing
  PROVE  FenceInv'
<1>1. /\ nextGen \in Nat /\ nextGen' \in Nat /\ NoGen = -1 /\ nextGen <= nextGen'
      /\ \A o \in Offsets : gen[o] \in Int /\ gen'[o] \in Int
      /\ \A s \in Sessions, o \in Offsets :
           leased[s][o].gen \in Int /\ leased'[s][o].gen \in Int
      /\ pending.gen \in Int /\ pending'.gen \in Int
      /\ pending # NoMatch => pending.off \in Offsets /\ pending.gen \in Nat
      /\ pending' # NoMatch => pending'.off \in Offsets /\ pending'.gen \in Nat
  <2>1. /\ nextGen' \in Nat
        /\ \A o \in Offsets : gen'[o] \in Int
        /\ \A s \in Sessions, o \in Offsets : leased'[s][o].gen \in Int
        /\ pending'.gen \in Int
        /\ pending' # NoMatch => pending'.off \in Offsets /\ pending'.gen \in Nat
    <3>1. (TypeOK => /\ nextGen \in Nat /\ NoGen = -1
                     /\ \A o \in Offsets : gen[o] \in Int
                     /\ \A s \in Sessions, o \in Offsets : leased[s][o].gen \in Int
                     /\ pending.gen \in Int
                     /\ pending # NoMatch => pending.off \in Offsets /\ pending.gen \in Nat)'
      BY TokenFacts, PTL
    <3> QED
      BY <3>1
  <2> QED
    BY <2>1, TokenFacts DEF FairDealing
<1>2. \A o \in Offsets : gen'[o] < nextGen'
  BY <1>1 DEF FairDealing, FenceInv, Issued
<1>3. NoMatch.gen = NoGen
  BY DEF NoMatch
<1>4. pending'.gen < nextGen'
  BY <1>1, <1>2, <1>3 DEF FairDealing, FenceInv, Issued
<1>5. ASSUME NEW s \in Sessions, NEW o \in Offsets
      PROVE  /\ leased'[s][o].gen < nextGen'
             /\ gen'[o] # NoGen /\ leased'[s][o].gen = gen'[o]
                  => leased'[s][o].nth = granted'[o]
  <2>1. /\ leased[s][o].gen < nextGen /\ pending.gen < nextGen
        /\ gen[o] # NoGen /\ leased[s][o].gen = gen[o] => leased[s][o].nth = granted[o]
        /\ pending # NoMatch /\ pending.off = o /\ pending.gen = gen[o]
             => pending.nth = granted[o]
    BY DEF FenceInv, Issued, TokensCurrent
  <2>2. \/ gen'[o] = NoGen
        \/ gen'[o] = gen[o] /\ granted'[o] = granted[o]
        \/ nextGen <= gen'[o] /\ gen'[o] < nextGen'
    BY DEF FairDealing
  <2>3. \/ leased'[s][o] = leased[s][o]
        \/ leased'[s][o].gen = NoGen
        \/ /\ pending # NoMatch /\ o = pending.off
           /\ leased'[s][o].gen = pending.gen /\ leased'[s][o].nth = pending.nth
        \/ leased'[s][o].gen = gen'[o] /\ leased'[s][o].nth = granted'[o]
    BY DEF FairDealing
  <2>4. gen'[o] < nextGen' /\ gen'[o] \in Int /\ gen[o] \in Int /\ leased[s][o].gen \in Int
    BY <1>1, <1>2
  <2> QED
    BY <1>1, <2>1, <2>2, <2>3, <2>4
<1>6. ASSUME pending' # NoMatch, pending'.gen = gen'[pending'.off]
      PROVE  pending'.nth = granted'[pending'.off]
  <2>1. CASE pending' = pending
    <3>1. pending.off \in Offsets /\ pending.gen \in Nat /\ pending # NoMatch
      BY <1>1, <1>6, <2>1
    <3>2. pending.gen < nextGen
          /\ (pending.gen = gen[pending.off] => pending.nth = granted[pending.off])
      BY <3>1 DEF FenceInv, Issued, TokensCurrent
    <3>3. \/ gen'[pending.off] = NoGen
          \/ gen'[pending.off] = gen[pending.off] /\ granted'[pending.off] = granted[pending.off]
          \/ nextGen <= gen'[pending.off]
      BY <3>1 DEF FairDealing
    <3> QED
      BY <1>1, <1>6, <2>1, <3>1, <3>2, <3>3
  <2>2. CASE pending' # pending
    BY <1>6, <2>2 DEF FairDealing
  <2> QED
    BY <2>1, <2>2
<1> QED
  BY <1>2, <1>4, <1>5, <1>6 DEF FenceInv, Issued, TokensCurrent

\* A scan issues generations that nobody has seen.
LEMMA ScanIssuesFresh ==
  ASSUME TypeOK, NEW D, NEW keep, NEW more, Scan(D, keep, more),
         keep \subseteq StopAt(D)
  PROVE  /\ nextGen <= nextGen'
         /\ \A o \in Offsets :
              IF o \in keep THEN nextGen <= gen'[o] /\ gen'[o] < nextGen'
              ELSE gen'[o] = NoGen \/ gen'[o] = gen[o]
<1> DEFINE claimed == PassedOver(D) \union StopAt(D)
           n == Cardinality(claimed)
<1>1. claimed \subseteq Offsets /\ keep \subseteq Offsets
  BY ClaimedAreOffsets
<1>2. n \in Nat /\ (claimed # {} => n >= 1)
  BY <1>1, OffsetSetsAreCounted
<1>3. keep # {} => n >= 1
  BY <1>2
<1>4. /\ nextGen' = nextGen + n
      /\ gen' = [o \in Offsets |-> IF o \in keep THEN nextGen + n - 1
                                   ELSE IF o \in claimed THEN NoGen
                                   ELSE gen[o]]
  BY DEF Scan, FreshGens
<1>5. nextGen \in Nat
  BY GroupConstants DEF TypeOK
<1> HIDE DEF claimed, n
<1> QED
  BY <1>2, <1>3, <1>4, <1>5

\* A step that grants nothing and hands out no token.
LEMMA NoDelivery ==
  ASSUME TypeOK, TypeOK', FenceInv, UNCHANGED <<pending, granted>>, nextGen <= nextGen',
         \A o \in Offsets : \/ gen'[o] = NoGen \/ gen'[o] = gen[o]
                            \/ nextGen <= gen'[o] /\ gen'[o] < nextGen',
         \A s \in Sessions, o \in Offsets :
           leased'[s][o] = leased[s][o] \/ leased'[s][o] = NoToken
  PROVE  FenceInv'
<1>1. NoToken.gen = NoGen
  BY DEF NoToken
<1> QED
  BY <1>1, FairDealingKeepsFence DEF FairDealing

\* Handing one token to one session leaves all others alone.
LEMMA OneTokenHanded ==
  ASSUME TypeOK, NEW s \in Sessions, NEW o \in Offsets, NEW e,
         leased' = [leased EXCEPT ![s][o] = e]
  PROVE  \A r \in Sessions, p \in Offsets :
           leased'[r][p] = leased[r][p] \/ (p = o /\ leased'[r][p] = e)
<1>1. leased \in [Sessions -> [Offsets -> [gen : Nat \union {NoGen}, nth : Nat]]]
  BY DEF TypeOK
<1> QED
  BY <1>1

\* A poll that is not below the oldest retained record.
LEMMA PollKeepsFence ==
  ASSUME TypeOK, TypeOK', FenceInv, NotOvertaken,
         NEW s \in Sessions, Poll(s)
  PROVE  FenceInv'
<1>1. ASSUME NEW D, NEW more, Scan(D, {}, more), UNCHANGED <<pending, granted, leased>>
      PROVE  FenceInv'
  <2>1. /\ nextGen <= nextGen'
        /\ \A o \in Offsets : gen'[o] = NoGen \/ gen'[o] = gen[o]
    BY <1>1, ScanIssuesFresh
  <2> QED
    BY <1>1, <2>1, NoDelivery
<1>2. ASSUME NEW D, PollIdle(D) \/ PollHold(D) \/ PollHole(D) \/ PollDeadLetter(D)
      PROVE  FenceInv'
  <2>1. UNCHANGED <<pending, granted, leased>>
    BY <1>2 DEF PollIdle, PollHold, PollHole, PollDeadLetter, NoGrant
  <2>2. \E more : Scan(D, {}, more)
    BY <1>2 DEF PollIdle, PollHold, PollHole, PollDeadLetter
  <2> QED
    BY <1>1, <2>1, <2>2
<1>3. ASSUME NEW D, PollDeliver(s, D) PROVE FenceInv'
  <2>1. PICK o \in StopAt(D) :
          /\ Scan(D, {o}, {})
          /\ CountGrant(o)
          /\ \/ /\ leased' = [leased EXCEPT ![s][o] =
                                [gen |-> gen'[o], nth |-> granted'[o]]]
                /\ pending' = pending
             \/ /\ pending' = [off |-> o, gen |-> gen'[o], nth |-> granted'[o]]
                /\ leased' = leased
    BY <1>3 DEF PollDeliver
  <2>2. o \in Offsets
    BY ClaimedAreOffsets
  <2>3. /\ nextGen <= nextGen'
        /\ nextGen <= gen'[o] /\ gen'[o] < nextGen'
        /\ \A p \in Offsets : p # o => gen'[p] = NoGen \/ gen'[p] = gen[p]
    BY <2>1, <2>2, ScanIssuesFresh
  <2>4. \A p \in Offsets : p # o => granted'[p] = granted[p]
    BY <2>1 DEF CountGrant, TypeOK
  <2>5. \A r \in Sessions, p \in Offsets :
          \/ leased'[r][p] = leased[r][p]
          \/ leased'[r][p].gen = gen'[p] /\ leased'[r][p].nth = granted'[p]
    <3> DEFINE e == [gen |-> gen'[o], nth |-> granted'[o]]
    <3>1. leased' = [leased EXCEPT ![s][o] = e] \/ leased' = leased
      BY <2>1
    <3>2. e.gen = gen'[o] /\ e.nth = granted'[o]
      OBVIOUS
    <3> HIDE DEF e
    <3>3. \A r \in Sessions, p \in Offsets :
            leased'[r][p] = leased[r][p] \/ (p = o /\ leased'[r][p] = e)
      <4>1. CASE leased' = [leased EXCEPT ![s][o] = e]
        BY <2>2, <4>1, OneTokenHanded
      <4>2. CASE leased' = leased
        BY <4>2
      <4> QED
        BY <3>1, <4>1, <4>2
    <3> QED
      BY <3>2, <3>3
  <2>6. \/ pending' = pending
        \/ pending'.gen = gen'[pending'.off] /\ pending'.nth = granted'[pending'.off]
    BY <2>1
  <2>7. FairDealing
    BY <2>3, <2>4, <2>5, <2>6 DEF FairDealing
  <2> QED
    BY <2>7, FairDealingKeepsFence
<1>4. ASSUME PollStashed(s) PROVE FenceInv'
  <2>1. /\ pending # NoMatch /\ pending' = NoMatch /\ UNCHANGED <<gen, nextGen, granted>>
        /\ leased' = [leased EXCEPT ![s][pending.off] =
                        [gen |-> pending.gen, nth |-> pending.nth]]
    BY <1>4 DEF PollStashed, ghostVars
  <2>2. pending.off \in Offsets /\ nextGen \in Nat
    BY <2>1, TokenFacts
  <2>3. \A r \in Sessions, p \in Offsets :
          \/ leased'[r][p] = leased[r][p]
          \/ /\ p = pending.off /\ leased'[r][p].gen = pending.gen
             /\ leased'[r][p].nth = pending.nth
    <3> DEFINE q == pending.off
               e == [gen |-> pending.gen, nth |-> pending.nth]
    <3>1. leased' = [leased EXCEPT ![s][q] = e] /\ q \in Offsets
      BY <2>1, <2>2
    <3>2. e.gen = pending.gen /\ e.nth = pending.nth /\ q = pending.off
      OBVIOUS
    <3> HIDE DEF q, e
    <3> QED
      BY <3>1, <3>2, OneTokenHanded
  <2>4. FairDealing
    BY <2>1, <2>2, <2>3 DEF FairDealing
  <2> QED
    BY <2>4, FairDealingKeepsFence
<1>5. ~ PollTruncated(s)
  <2>1. Committed \in Nat /\ earliest \in Nat
    BY FirstGapIsGap, GroupConstants DEF TypeOK, Committed
  <2> QED
    BY <2>1 DEF PollTruncated, NotOvertaken
<1> QED
  BY <1>2, <1>3, <1>4, <1>5 DEF Poll

\* Every step, as long as retention has not overtaken the cursor.
LEMMA StepKeepsFence ==
  ASSUME TypeOK, TypeOK', FenceInv, NotOvertaken, Next
  PROVE  FenceInv'
<1>0. nextGen \in Nat /\ NoGen = -1
  BY TokenFacts
<1>s. ASSUME UNCHANGED <<gen, nextGen, pending, granted>>,
             \A s \in Sessions, o \in Offsets :
               leased'[s][o] = leased[s][o] \/ leased'[s][o] = NoToken
      PROVE  FenceInv'
  BY <1>0, <1>s, NoDelivery
<1>f. ASSUME NEW s \in Sessions, NEW o \in Offsets, Forget(s, o)
      PROVE  \A r \in Sessions, p \in Offsets :
               leased'[r][p] = leased[r][p] \/ leased'[r][p] = NoToken
  BY <1>f DEF Forget, TypeOK
<1>1. ASSUME NEW s \in Sessions, FlowBegins(s) \/ \E k \in Writes : Disconnect(s, k) PROVE FenceInv'
  <2>1. UNCHANGED <<gen, nextGen, pending, granted>>
    BY <1>1 DEF FlowBegins, Disconnect, groupVars, ghostVars
  <2>2. \A r \in Sessions, p \in Offsets :
          leased'[r][p] = leased[r][p] \/ leased'[r][p] = NoToken
    <3>1. CASE FlowBegins(s)
      <4>1. leased' = [leased EXCEPT ![s] =
              [o \in Offsets |-> IF Owns(s, o) /\ lease[o] = "live"
                                 THEN leased[s][o] ELSE NoToken]]
        BY <3>1 DEF FlowBegins
      <4> QED
        BY <4>1 DEF TypeOK
    <3>2. CASE \E k \in Writes : Disconnect(s, k)
      BY <3>2 DEF Disconnect, TypeOK
    <3> QED
      BY <1>1, <3>1, <3>2
  <2> QED
    BY <1>s, <2>1, <2>2
<1>2. ASSUME NEW s \in Sessions, NEW o \in Offsets, Ack(s, o) \/ Term(s, o) PROVE FenceInv'
  <2>1. /\ gen' = gen \/ gen' = [gen EXCEPT ![o] = NoGen]
        /\ UNCHANGED <<nextGen, pending, granted>>
        /\ Forget(s, o) \/ leased' = leased
    BY <1>2 DEF Ack, Term, SettleOwned
  <2>2. \A p \in Offsets : gen'[p] = NoGen \/ gen'[p] = gen[p]
    BY <2>1 DEF TypeOK
  <2> QED
    BY <1>0, <1>f, <2>1, <2>2, NoDelivery
<1>3. ASSUME NEW s \in Sessions, NEW o \in Offsets, Fenced(s, o) \/ Progress(s, o)
      PROVE  FenceInv'
  <2>1. UNCHANGED <<gen, nextGen, pending, granted>> /\ (Forget(s, o) \/ leased' = leased)
    BY <1>3 DEF Fenced, Progress, groupVars, ghostVars
  <2> QED
    BY <1>s, <1>f, <2>1
<1>4. ASSUME NEW s \in Sessions, NEW o \in Offsets, Nack(s, o) PROVE FenceInv'
  <2>1. /\ gen' = [gen EXCEPT ![o] = nextGen] /\ nextGen' = nextGen + 1
        /\ Forget(s, o) /\ UNCHANGED <<pending, granted>>
    BY <1>4 DEF Nack, FreshGens, ghostVars
  <2>2. \A p \in Offsets : gen'[p] = gen[p] \/ gen'[p] = nextGen
    BY <2>1 DEF TypeOK
  <2>3. nextGen <= nextGen' /\ nextGen < nextGen' /\ nextGen <= nextGen
    BY <1>0, <2>1
  <2> QED
    BY <1>f, <2>1, <2>2, <2>3, NoDelivery
<1>5. ASSUME NEW s \in Sessions, NEW n \in 0 .. MaxLen, CumulativeAck(s, n) PROVE FenceInv'
  <2>1. /\ \A p \in Offsets : gen'[p] = NoGen \/ gen'[p] = gen[p]
        /\ UNCHANGED <<nextGen, pending, granted>>
    BY <1>5 DEF CumulativeAck, CommitUpTo
  <2>2. \A r \in Sessions, p \in Offsets :
          leased'[r][p] = leased[r][p] \/ leased'[r][p] = NoToken
    BY <1>5 DEF CumulativeAck, TypeOK
  <2> QED
    BY <1>0, <2>1, <2>2, NoDelivery
<1>6. ASSUME Crash PROVE FenceInv'
  <2>1. /\ \A o \in Offsets : gen'[o] = NoGen
        /\ \A s \in Sessions, o \in Offsets : leased'[s][o] = NoToken
        /\ pending' = NoMatch /\ nextGen' = 0
    BY <1>6 DEF Crash
  <2>2. NoToken.gen = NoGen /\ NoMatch.gen = NoGen
    BY DEF NoToken, NoMatch
  <2> QED
    BY <1>0, <2>1, <2>2 DEF FenceInv, Issued, TokensCurrent
<1>7. ASSUME \/ (\E k \in Writes : MaybeCheckpoint(k)) \/ ForceReap
             \/ \E o \in Offsets : Lapse(o) \/ TtlPasses(o) \/ BecomesDue(o) \/ Compact(o)
             \/ \E p \in BOOLEAN : SetPause(p)
             \/ \E k \in Kinds : Publish(k)
      PROVE  FenceInv'
  <2>1. UNCHANGED <<gen, nextGen, pending, granted, leased>>
    BY <1>7 DEF MaybeCheckpoint, ForceReap, Lapse, TtlPasses, BecomesDue, Compact, SetPause,
                Publish, groupVars, ghostVars
  <2> QED
    BY <1>s, <2>1
<1> QED
  BY <1>1, <1>2, <1>3, <1>4, <1>5, <1>6, <1>7, PollKeepsFence
     DEF Next, Environment, SessionStep

\* The generations at the start.
LEMMA InitFence == Init => FenceInv
<1>1. NoToken.gen = NoGen /\ NoMatch.gen = NoGen /\ NoGen = -1
  BY DEF NoToken, NoMatch, NoGen
<1> QED
  BY <1>1 DEF Init, FenceInv, Issued, TokensCurrent

\* Only the session handed the latest delivery of an offset can settle it, in
\* every behaviour in which retention does not overtake the committed offset:
\* `LeaseTable` issues each generation once, a redelivery or a nack replaces
\* the lease's, and a crash voids leases and tokens together.
THEOREM LatestHolderUnlessOvertaken ==
  Spec /\ [](NotOvertaken) => []OnlyLatestHolderSettles
<1>1. Init => FenceInv
  BY InitFence
<1>2. TypeOK /\ TypeOK' /\ FenceInv /\ NotOvertaken /\ [Next]_vars => FenceInv'
  <2> SUFFICES ASSUME TypeOK, TypeOK', FenceInv, NotOvertaken, [Next]_vars
               PROVE  FenceInv'
    OBVIOUS
  <2>1. CASE UNCHANGED vars
    BY <2>1 DEF vars, groupVars, ghostVars, FenceInv, Issued, TokensCurrent
  <2>2. CASE Next
    BY <2>2, StepKeepsFence
  <2> QED
    BY <2>1, <2>2
<1>3. FenceInv => OnlyLatestHolderSettles
  BY DEF FenceInv, TokensCurrent, OnlyLatestHolderSettles, Owns
<1> QED
  BY <1>1, <1>2, <1>3, GroupTypeCorrect, PTL DEF Spec

\* Without disk pressure the log keeps its first record.
LEMMA NothingReaped ==
  ASSUME MaxReaps = 0
  PROVE  Spec => [](earliest = 0)
<1>1. Init => earliest = 0
  BY DEF Init
<1>2. earliest = 0 /\ [Next]_vars => (earliest = 0)'
  <2> SUFFICES ASSUME earliest = 0, [Next]_vars PROVE (earliest = 0)'
    OBVIOUS
  <2>1. ~ ForceReap
    BY DEF ForceReap
  <2>2. CASE UNCHANGED vars
    BY <2>2 DEF vars, logVars
  <2>3. CASE Environment
    BY <2>1, <2>3 DEF Environment, MaybeCheckpoint, Crash, Lapse, TtlPasses, BecomesDue,
                      Compact, SetPause, Publish, logVars
  <2>4. CASE \E s \in Sessions : SessionStep(s)
    BY <2>4 DEF SessionStep, Poll, PollIdle, PollDeliver, PollHold, PollHole, PollDeadLetter,
                PollStashed, PollTruncated, FlowBegins, Disconnect, Ack, Fenced, Nack,
                Progress, Term, CumulativeAck, logVars
  <2> QED
    BY <2>2, <2>3, <2>4 DEF Next
<1> QED
  BY <1>1, <1>2, PTL DEF Spec

\* The same without a hypothesis on behaviours: a log whose records are never
\* reaped under disk pressure (any policy but drop-oldest).
THEOREM LatestHolderHolds ==
  ASSUME MaxReaps = 0
  PROVE  Spec => []OnlyLatestHolderSettles
<1>1. TypeOK /\ earliest = 0 => NotOvertaken
  BY FirstGapIsGap, GroupConstants DEF TypeOK, Committed, NotOvertaken
<1>2. Spec => [](earliest = 0)
  BY NothingReaped
<1> QED
  BY <1>1, <1>2, GroupTypeCorrect, LatestHolderUnlessOvertaken, PTL

-----------------------------------------------------------------------------
(* The delivery window.  That a lease is below the window's end is kept    *)
(* because the committed offset never moves back under a lease; that it is *)
(* not below the committed offset, because whatever is acknowledged loses  *)
(* its lease in the same step.  A run of compacted records is acknowledged *)
(* past leases that a session still holds inside it, so the theorem is for *)
(* logs with at most one compacted record.                                 *)

\* A lease has a generation, its offset is open and inside the window, and no
\* two records were compacted away.
WindowInv ==
  /\ \A o \in Offsets : lease[o] = "none" <=> gen[o] = NoGen
  /\ \A o \in Offsets :
       lease[o] # "none" => o \notin acked /\ o < Committed + MaxInFlight
  /\ \A p, q \in holes : p = q

\* An offset below the window's end stays below it when the window rises.
LEMMA WindowOnlyRises ==
  ASSUME NEW o \in Int, NEW low \in Int, NEW high \in Int, NEW size \in Int,
         low <= high, o < low + size
  PROVE  o < high + size
OBVIOUS

\* A step that only adds acknowledgements, of offsets it leaves without a
\* lease, and gives leases only to open offsets of the window.
LEMMA WindowKept ==
  ASSUME TypeOK, TypeOK', WindowInv, acked \subseteq acked',
         \A p, q \in holes' : p = q,
         \A o \in Offsets : lease'[o] = "none" <=> gen'[o] = NoGen,
         \A o \in Offsets :
           lease'[o] # "none" =>
             /\ o \notin acked' \ acked
             /\ lease[o] # "none" \/ o \in Window \ acked
  PROVE  WindowInv'
<1>1. /\ Committed \in Int /\ Committed' \in Int /\ Committed <= Committed'
      /\ MaxInFlight \in Int
  <2>1. acked \subseteq Offsets /\ acked' \subseteq Offsets
    BY DEF TypeOK
  <2>2. Committed \in 0 .. MaxLen /\ Committed' \in 0 .. MaxLen
    BY <2>1, FirstGapIsGap DEF Committed
  <2> QED
    BY <2>2, WatermarkAdvances, GroupConstants
<1>2. ASSUME NEW o \in Offsets, lease'[o] # "none"
      PROVE  o \notin acked' /\ o < Committed' + MaxInFlight
  <2>1. o \notin acked /\ o < Committed + MaxInFlight
    BY <1>2 DEF WindowInv, Window
  <2>2. o \in Int
    BY DEF Offsets
  <2>3. o \notin acked'
    BY <1>2, <2>1
  <2>4. o < Committed' + MaxInFlight
    BY <1>1, <2>1, <2>2, WindowOnlyRises
  <2> QED
    BY <2>3, <2>4
<1> QED
  BY <1>2 DEF WindowInv

\* A step that leaves the lease table and the cursor alone.
LEMMA WindowStill ==
  ASSUME WindowInv, UNCHANGED <<acked, lease, gen>>, \A p, q \in holes' : p = q
  PROVE  WindowInv'
BY DEF WindowInv, Committed

\* A scan frees what it acknowledges and leases only what it kept or deferred.
LEMMA ScanKeepsWindow ==
  ASSUME TypeOK, TypeOK', WindowInv, NEW D \in Deferrals, NEW keep, NEW more,
         Scan(D, keep, more), keep \subseteq StopAt(D), more \cap keep = {},
         more \subseteq StopAt(D), UNCHANGED holes
  PROVE  WindowInv'
<1> DEFINE claimed == PassedOver(D) \union StopAt(D)
<1>1. D \subseteq Lapsed
  BY DEF Deferrals
<1>2. /\ acked' = acked \union PassedOver(D) \union more
      /\ \A o \in Offsets :
           /\ lease'[o] = IF o \in keep \union D THEN "live"
                          ELSE IF o \in claimed THEN "none" ELSE lease[o]
           /\ o \notin keep =>
                gen'[o] = IF o \in claimed THEN NoGen ELSE gen[o]
  BY DEF Scan
<1>3. \A o \in keep : gen'[o] # NoGen /\ o \in Offsets
  BY ScanIssuesFresh, TokenFacts, ClaimedAreOffsets
<1>4. /\ StopAt(D) \cap PassedOver(D) = {}
      /\ claimed \subseteq Window \ (acked \union D)
  BY DEF StopAt, PassedOver, Candidates, Window, Offsets
<1>5. \A o \in D : lease[o] = "lapsed" /\ o \in Window /\ o \notin acked
  BY <1>1 DEF Lapsed
<1>6. \A o \in Offsets : lease[o] = "none" <=> gen[o] = NoGen
  BY DEF WindowInv
<1> HIDE DEF claimed
<1>7. ASSUME NEW o \in Offsets PROVE lease'[o] = "none" <=> gen'[o] = NoGen
  <2>1. CASE o \in keep
    BY <1>2, <1>3, <2>1
  <2>2. CASE o \in D /\ o \notin keep
    BY <1>2, <1>4, <1>5, <1>6, <2>2
  <2>3. CASE o \notin keep \union D
    BY <1>2, <1>6, <2>3
  <2> QED
    BY <2>1, <2>2, <2>3
<1>8. ASSUME NEW o \in Offsets, lease'[o] # "none"
      PROVE  /\ o \notin acked' \ acked
             /\ lease[o] # "none" \/ o \in Window \ acked
  <2>1. StopAt(D) \subseteq claimed /\ PassedOver(D) \subseteq claimed
    BY DEF claimed
  <2>2. CASE o \in keep
    BY <1>2, <1>4, <2>1, <2>2
  <2>3. CASE o \in D /\ o \notin keep
    BY <1>2, <1>4, <1>5, <2>1, <2>3
  <2>4. CASE o \notin keep \union D
    BY <1>2, <1>8, <2>1, <2>4
  <2> QED
    BY <2>2, <2>3, <2>4
<1>9. acked \subseteq acked' /\ \A p, q \in holes' : p = q
  BY <1>2 DEF WindowInv
<1> QED
  BY <1>7, <1>8, <1>9, WindowKept

\* A poll, whichever way it ends.
LEMMA PollKeepsWindow ==
  ASSUME TypeOK, TypeOK', WindowInv, NEW s \in Sessions, Poll(s)
  PROVE  WindowInv'
<1>1. ASSUME NEW D \in Deferrals, PollIdle(D) \/ PollHold(D) PROVE WindowInv'
  <2>1. Scan(D, {}, {}) /\ UNCHANGED holes
    BY <1>1 DEF PollIdle, PollHold, logVars
  <2> QED
    BY <2>1, ScanKeepsWindow
<1>2. ASSUME NEW D \in Deferrals, PollDeliver(s, D) PROVE WindowInv'
  <2>1. UNCHANGED holes
    BY <1>2 DEF PollDeliver, logVars
  <2>2. PICK o \in StopAt(D) : Scan(D, {o}, {})
    BY <1>2 DEF PollDeliver
  <2>3. {o} \subseteq StopAt(D)
    OBVIOUS
  <2> QED
    BY <2>1, <2>2, <2>3, ScanKeepsWindow
<1>3. ASSUME NEW D \in Deferrals, PollHole(D) PROVE WindowInv'
  <2>1. UNCHANGED holes
    BY <1>3 DEF PollHole, logVars
  <2>2. PICK o \in StopAt(D) : o \in holes /\ Scan(D, {}, HoleRun(o))
    BY <1>3 DEF PollHole
  <2>3. HoleRun(o) \subseteq holes
    BY ClaimedAreOffsets DEF HoleRun, Offsets
  <2>4. HoleRun(o) \subseteq StopAt(D)
    BY <2>2, <2>3 DEF WindowInv
  <2> QED
    BY <2>1, <2>2, <2>4, ScanKeepsWindow
<1>4. ASSUME NEW D \in Deferrals, PollDeadLetter(D) PROVE WindowInv'
  <2>1. UNCHANGED holes
    BY <1>4 DEF PollDeadLetter, logVars
  <2>2. PICK o \in StopAt(D), k \in FanOuts :
          Scan(D, {}, IF AllCopied(k) THEN {o} ELSE {})
    BY <1>4 DEF PollDeadLetter
  <2>3. (IF AllCopied(k) THEN {o} ELSE {}) \subseteq StopAt(D)
    OBVIOUS
  <2> QED
    BY <2>1, <2>2, <2>3, ScanKeepsWindow
<1>5. ASSUME PollStashed(s) PROVE WindowInv'
  <2>1. UNCHANGED <<acked, lease, gen, holes>>
    BY <1>5 DEF PollStashed, logVars
  <2>2. \A p, q \in holes' : p = q
    BY <2>1 DEF WindowInv
  <2> QED
    BY <2>1, <2>2, WindowStill
<1>6. ASSUME PollTruncated(s) PROVE WindowInv'
  <2>1. /\ \A o \in Offsets : lease'[o] = "none" /\ gen'[o] = NoGen
        /\ holes' = holes
    BY <1>6 DEF PollTruncated, logVars
  <2> QED
    BY <2>1 DEF WindowInv
<1> QED
  BY <1>1, <1>2, <1>3, <1>4, <1>5, <1>6 DEF Poll

\* Every step.
LEMMA StepKeepsWindow ==
  ASSUME TypeOK, TypeOK', WindowInv, MaxHoles <= 1, Next
  PROVE  WindowInv'
<1>0. /\ lease \in [Offsets -> {"none", "live", "lapsed"}]
      /\ gen \in [Offsets -> Nat \union {NoGen}]
  BY DEF TypeOK
<1>g. \A o \in Offsets : lease[o] = "none" <=> gen[o] = NoGen
  BY DEF WindowInv
<1>h. holes' = holes => \A p, q \in holes' : p = q
  BY DEF WindowInv
<1>1. ASSUME NEW s \in Sessions, FlowBegins(s) \/ \E k \in Writes : Disconnect(s, k) PROVE WindowInv'
  <2>1. UNCHANGED <<acked, lease, gen, holes>>
    BY <1>1 DEF FlowBegins, Disconnect, groupVars, logVars
  <2> QED
    BY <1>h, <2>1, WindowStill
<1>2. ASSUME NEW s \in Sessions, NEW o \in Offsets, SettleOwned(s, o), holes' = holes
      PROVE  WindowInv'
  <2>1. /\ acked \subseteq acked' /\ acked' \subseteq acked \union {o}
        /\ lease' = [lease EXCEPT ![o] = "none"] /\ gen' = [gen EXCEPT ![o] = NoGen]
    BY <1>2 DEF SettleOwned
  <2>2. \A p \in Offsets : /\ lease'[p] = IF p = o THEN "none" ELSE lease[p]
                           /\ gen'[p] = IF p = o THEN NoGen ELSE gen[p]
    BY <1>0, <2>1
  <2> QED
    BY <1>g, <1>h, <1>2, <2>1, <2>2, WindowKept
<1>3. ASSUME NEW s \in Sessions, NEW o \in Offsets, Ack(s, o) \/ Term(s, o) PROVE WindowInv'
  <2>1. /\ SettleOwned(s, o) \/ UNCHANGED <<acked, lease, gen>>
        /\ holes' = holes
    BY <1>3 DEF Ack, Term, logVars
  <2> QED
    BY <1>2, <1>h, <2>1, WindowStill
<1>4. ASSUME NEW s \in Sessions, NEW o \in Offsets, Fenced(s, o) PROVE WindowInv'
  <2>1. UNCHANGED <<acked, lease, gen, holes>>
    BY <1>4 DEF Fenced, groupVars, logVars
  <2> QED
    BY <1>h, <2>1, WindowStill
\* A lease that changes its state or its generation, and stays a lease.
<1>5. ASSUME NEW o \in Offsets, lease[o] # "none", NEW l \in {"live", "lapsed"},
             lease' = [lease EXCEPT ![o] = l], UNCHANGED <<acked, holes>>,
             \A p \in Offsets : gen'[p] = NoGen <=> gen[p] = NoGen
      PROVE  WindowInv'
  <2>1. \A p \in Offsets : lease'[p] = "none" <=> lease[p] = "none"
    BY <1>0, <1>5
  <2> QED
    BY <1>g, <1>h, <1>5, <2>1, WindowKept
<1>6. ASSUME NEW s \in Sessions, NEW o \in Offsets, Nack(s, o) PROVE WindowInv'
  <2>1. PICK l \in {"live", "lapsed"} : lease' = [lease EXCEPT ![o] = l]
    BY <1>6 DEF Nack
  <2>2. gen[o] # NoGen /\ gen' = [gen EXCEPT ![o] = nextGen] /\ UNCHANGED <<acked, holes>>
    BY <1>6 DEF Nack, Owns, logVars
  <2>3. nextGen # NoGen
    BY TokenFacts
  <2>4. \A p \in Offsets : gen'[p] = NoGen <=> gen[p] = NoGen
    BY <1>0, <2>2, <2>3
  <2>5. lease[o] # "none"
    BY <1>g, <2>2
  <2> QED
    BY <1>5, <2>1, <2>2, <2>4, <2>5
<1>7. ASSUME NEW o \in Offsets, Lapse(o) \/ \E s \in Sessions : Progress(s, o)
      PROVE  WindowInv'
  <2>1. /\ lease[o] # "none" /\ UNCHANGED <<acked, holes, gen>>
        /\ \E l \in {"live", "lapsed"} : lease' = [lease EXCEPT ![o] = l]
    BY <1>7 DEF Lapse, Progress, logVars
  <2> QED
    BY <1>5, <2>1
<1>8. ASSUME NEW s \in Sessions, NEW n \in 0 .. MaxLen, CumulativeAck(s, n)
      PROVE  WindowInv'
  <2>1. /\ acked' = acked \union Below(n) /\ holes' = holes
        /\ \A o \in Offsets : /\ lease'[o] = IF o < n THEN "none" ELSE lease[o]
                              /\ gen'[o] = IF o < n THEN NoGen ELSE gen[o]
    BY <1>8 DEF CumulativeAck, CommitUpTo, logVars
  <2> QED
    BY <1>g, <1>h, <2>1, WindowKept DEF Below
<1>9. ASSUME Crash PROVE WindowInv'
  <2>1. /\ \A o \in Offsets : lease'[o] = "none" /\ gen'[o] = NoGen
        /\ holes' = holes
    BY <1>9 DEF Crash, logVars
  <2> QED
    BY <2>1 DEF WindowInv
<1>10. ASSUME NEW o \in Offsets, Compact(o) PROVE WindowInv'
  <2>1. /\ Cardinality(holes) < MaxHoles /\ holes' = holes \union {o}
        /\ UNCHANGED <<acked, lease, gen>>
    BY <1>10 DEF Compact, groupVars
  <2>2. holes \subseteq Offsets /\ MaxHoles \in Nat
    BY GroupConstants DEF TypeOK
  <2>3. Cardinality(holes) \in Nat /\ (holes # {} => Cardinality(holes) >= 1)
    BY <2>2, OffsetSetsAreCounted
  <2>4. holes = {}
    BY <2>1, <2>2, <2>3
  <2> QED
    BY <2>1, <2>4, WindowStill
<1>11. ASSUME \/ (\E k \in Writes : MaybeCheckpoint(k)) \/ ForceReap
              \/ \E o \in Offsets : TtlPasses(o) \/ BecomesDue(o)
              \/ \E p \in BOOLEAN : SetPause(p)
              \/ \E k \in Kinds : Publish(k)
       PROVE  WindowInv'
  <2>1. UNCHANGED <<acked, lease, gen, holes>>
    BY <1>11 DEF MaybeCheckpoint, ForceReap, TtlPasses, BecomesDue, SetPause, Publish,
                 groupVars, logVars
  <2> QED
    BY <1>h, <2>1, WindowStill
<1> QED
  BY <1>1, <1>3, <1>4, <1>6, <1>7, <1>8, <1>9, <1>10, <1>11, PollKeepsWindow
     DEF Next, Environment, SessionStep

\* The lease table is bounded by the window, for every window size, number of
\* sessions and run cap and whatever the sessions, the sinks and crashes do,
\* as long as compaction leaves no run of two removed records (`poll_in_timed` advances
\* past a removed run in one call and frees only the lease it just claimed).
THEOREM WindowHolds ==
  ASSUME MaxHoles <= 1
  PROVE  Spec => []InFlightWithinWindow
<1>1. Init => WindowInv
  BY DEF Init, WindowInv
<1>2. TypeOK /\ TypeOK' /\ WindowInv /\ [Next]_vars => WindowInv'
  <2> SUFFICES ASSUME TypeOK, TypeOK', WindowInv, [Next]_vars PROVE WindowInv'
    OBVIOUS
  <2>1. CASE UNCHANGED vars
    <3>1. UNCHANGED <<acked, lease, gen, holes>>
      BY <2>1 DEF vars, groupVars, logVars
    <3> QED
      BY <3>1, WindowStill DEF WindowInv
  <2>2. CASE Next
    BY <2>2, StepKeepsWindow
  <2> QED
    BY <2>1, <2>2
<1>3. TypeOK /\ WindowInv => InFlightWithinWindow
  <2> SUFFICES ASSUME TypeOK, WindowInv, NEW o \in InFlight
               PROVE  Committed <= o /\ o < Committed + MaxInFlight
    BY DEF InFlightWithinWindow
  <2>1. o \in Offsets /\ o \notin acked /\ o < Committed + MaxInFlight
    BY DEF InFlight, WindowInv
  <2>2. ~ (o < Committed)
    BY <2>1, OpenIsAboveWatermark
  <2>3. Committed \in 0 .. MaxLen
    BY FirstGapIsGap DEF TypeOK, Committed
  <2> QED
    BY <2>1, <2>2, <2>3 DEF Offsets
<1> QED
  BY <1>1, <1>2, <1>3, GroupTypeCorrect, PTL DEF Spec

-----------------------------------------------------------------------------
(* The delivery budget.  The count in memory, the durable count and what a *)
(* crash makes up for each bound the deliveries of an offset that nothing  *)
(* else accounts for.  Three paths of the code forget a count and are left *)
(* out by assumption: a dead-letter append that fails, a poison message    *)
(* released behind a filtered run, and a truncated poll.                   *)

\* The configurations in which no path forgets the count of an open offset.
CountsKept == SinkFails = FALSE /\ MaxReaps = 0 /\ "other" \notin Kinds

\* Nothing but a delivery can finish the offset: it is not settled,
\* dead-lettered, expired or compacted away.
Countable(o) ==
  o \notin settled \union holes \union past /\ ~ DeadLettered(o)

\* Only a due record is delivered; the counts cover the deliveries of a
\* countable offset, in memory and, with what a crash would add, on disk.
BudgetInv ==
  /\ \A o \in Offsets : granted[o] > 0 => o < Flushed /\ ~ Undue(o)
  /\ DeliveryBudget
  /\ \A o \in Offsets :
       Countable(o) => /\ granted[o] <= count[o] + replay[o]
                       /\ granted[o] <= savedCount[o] + unflushed[o] + replay[o]

\* Every step of the group only adds evidence.
LEMMA StepGrowsEvidence ==
  ASSUME SkipInv, Next
  PROVE  EvidenceGrows /\ due \subseteq due'
<1> USE GroupConstants
<1>1. ASSUME UNCHANGED <<logVars, dlq>>, settled \subseteq settled'
      PROVE  EvidenceGrows /\ due \subseteq due'
  BY <1>1, StillEvidence DEF SkipInv, logVars
<1>2. ASSUME NEW o \in Offsets, NEW k \in 0 .. NumTargets, FanOut(o, k),
             UNCHANGED logVars, settled \subseteq settled'
      PROVE  EvidenceGrows /\ due \subseteq due'
  <2>1. /\ dlq' \in [Targets -> [Offsets -> Nat]]
        /\ \A t \in Targets, p \in Offsets : dlq[t][p] <= dlq'[t][p]
    BY <1>2, FanOutKeepsGuards DEF SkipInv
  <2> QED
    BY <1>2, <2>1 DEF EvidenceGrows, SkipInv, Shape, logVars
<1>3. ASSUME NEW D, PollDeadLetter(D) PROVE EvidenceGrows /\ due \subseteq due'
  <2>1. PICK o \in StopAt(D), k \in FanOuts : FanOut(o, k)
    BY <1>3 DEF PollDeadLetter
  <2>2. o \in Offsets /\ k \in 0 .. NumTargets
    BY ClaimedAreOffsets DEF FanOuts
  <2>3. UNCHANGED logVars /\ settled \subseteq settled'
    BY <1>3 DEF PollDeadLetter
  <2> QED
    BY <1>2, <2>1, <2>2, <2>3
<1>4. ASSUME NEW s \in Sessions, Poll(s) PROVE EvidenceGrows /\ due \subseteq due'
  <2>1. CASE \E D : PollDeadLetter(D)
    BY <1>3, <2>1
  <2>2. CASE ~ \E D : PollDeadLetter(D)
    <3>1. UNCHANGED <<logVars, dlq, settled>>
      BY <1>4, <2>2 DEF Poll, PollIdle, PollDeliver, PollHold, PollHole, PollStashed,
                        PollTruncated, dlqVars, ghostVars
    <3> QED
      BY <1>1, <3>1
  <2> QED
    BY <2>1, <2>2
<1>5. ASSUME NEW s \in Sessions, NEW o \in Offsets, Term(s, o)
      PROVE  EvidenceGrows /\ due \subseteq due'
  <2>1. PICK k \in FanOuts :
          LET copies == IF Exchange /\ Readable(o) THEN k ELSE 0
          IN FanOut(o, copies) /\ (SettleOwned(s, o) \/ UNCHANGED settled)
    BY <1>5 DEF Term
  <2> DEFINE copies == IF Exchange /\ Readable(o) THEN k ELSE 0
  <2>2. copies \in 0 .. NumTargets /\ FanOut(o, copies)
    BY <2>1 DEF FanOuts
  <2>3. UNCHANGED logVars /\ settled \subseteq settled'
    BY <1>5, <2>1 DEF Term, SettleOwned
  <2> HIDE DEF copies
  <2> QED
    BY <1>2, <2>2, <2>3
<1>6. ASSUME NEW s \in Sessions,
             \/ FlowBegins(s) \/ \E k \in Writes : Disconnect(s, k)
             \/ \E o \in Offsets : Ack(s, o) \/ Fenced(s, o) \/ Nack(s, o) \/ Progress(s, o)
             \/ \E n \in 0 .. MaxLen : CumulativeAck(s, n)
      PROVE  EvidenceGrows /\ due \subseteq due'
  <2>1. UNCHANGED <<logVars, dlq>> /\ settled \subseteq settled'
    BY <1>6 DEF FlowBegins, Disconnect, Ack, SettleOwned, Fenced, Nack, Progress,
                CumulativeAck, dlqVars, ghostVars
  <2> QED
    BY <1>1, <2>1
<1>7. ASSUME \/ (\E k \in Writes : MaybeCheckpoint(k)) \/ Crash \/ \E o \in Offsets : Lapse(o)
             \/ \E p \in BOOLEAN : SetPause(p)
      PROVE  EvidenceGrows /\ due \subseteq due'
  <2>1. UNCHANGED <<logVars, dlq>> /\ settled \subseteq settled'
    BY <1>7 DEF MaybeCheckpoint, Crash, Lapse, SetPause, dlqVars, ghostVars
  <2> QED
    BY <1>1, <2>1
<1>8. ASSUME \/ ForceReap \/ \E o \in Offsets : TtlPasses(o) \/ BecomesDue(o) \/ Compact(o)
             \/ \E k \in Kinds : Publish(k)
      PROVE  EvidenceGrows /\ due \subseteq due'
  <2>1. /\ UNCHANGED <<dlq, settled>> /\ due \subseteq due'
        /\ holes \subseteq holes' /\ past \subseteq past'
        /\ log' = log \/ \E k \in Kinds : log' = Append(log, k)
        /\ earliest' = earliest \/ earliest' = earliest + 1
    BY <1>8 DEF ForceReap, TtlPasses, BecomesDue, Compact, Publish, dlqVars, ghostVars
  <2> QED
    BY <2>1 DEF EvidenceGrows, SkipInv, Shape
<1> QED
  BY <1>4, <1>5, <1>6, <1>7, <1>8 DEF Next, Environment, SessionStep

\* An offset that is countable after a step was so before it.
LEMMA CountableBefore ==
  ASSUME TypeOK, EvidenceGrows, NEW o \in Offsets, Countable(o)'
  PROVE  Countable(o)
<1>1. o \notin settled \union holes \union past
  BY DEF Countable, EvidenceGrows
<1>2. ASSUME NEW t \in Targets, dlq[t][o] > 0 PROVE FALSE
  <2>1. dlq[t][o] <= dlq'[t][o] /\ dlq[t][o] \in Nat /\ dlq'[t][o] \in Nat
    BY DEF EvidenceGrows, TypeOK
  <2>2. dlq'[t][o] > 0
    BY <1>2, <2>1
  <2> QED
    BY <2>2 DEF Countable, DeadLettered
<1> QED
  BY <1>1, <1>2 DEF Countable, DeadLettered

\* A copy in a target stays.
LEMMA DeadLetteredStays ==
  ASSUME TypeOK, EvidenceGrows, NEW o \in Offsets, DeadLettered(o)
  PROVE  DeadLettered(o)'
<1>1. PICK t \in Targets : dlq[t][o] > 0
  BY DEF DeadLettered
<1>2. dlq[t][o] <= dlq'[t][o] /\ dlq[t][o] \in Nat /\ dlq'[t][o] \in Nat
  BY DEF EvidenceGrows, TypeOK
<1>3. dlq'[t][o] > 0
  BY <1>1, <1>2
<1> QED
  BY <1>3 DEF DeadLettered

\* A record that was due stays due.
LEMMA DueStays ==
  ASSUME TypeOK, EvidenceGrows, due \subseteq due', NEW o \in Offsets,
         o < Flushed, ~ Undue(o)
  PROVE  (o < Flushed /\ ~ Undue(o))'
<1>1. CASE log' = log
  BY <1>1 DEF Undue, Kind, Flushed
<1>2. CASE \E k \in Kinds : log' = Append(log, k)
  <2>1. PICK k \in Kinds : log' = Append(log, k)
    BY <1>2
  <2>2. o \in Nat /\ log \in Seq(Kinds) /\ o < Len(log)
    BY DEF TypeOK, Offsets, Flushed
  <2>3. o < Len(log') /\ log'[o + 1] = log[o + 1]
    BY <2>1, <2>2, AppendKeepsKinds
  <2> QED
    BY <2>3 DEF Undue, Kind, Flushed
<1> QED
  BY <1>1, <1>2 DEF EvidenceGrows

\* What a step has to show: it delivers only due records, the counts cover a
\* countable offset afterwards, and no delivery goes over the budget.
LEMMA BudgetKept ==
  ASSUME TypeOK, TypeOK', BudgetInv, EvidenceGrows, due \subseteq due',
         \A o \in Offsets : granted'[o] = granted[o] \/ (o < Flushed /\ ~ Undue(o)),
         \A o \in Offsets :
           Countable(o)' =>
             /\ granted'[o] <= count'[o] + replay'[o]
             /\ granted'[o] <= savedCount'[o] + unflushed'[o] + replay'[o],
         \A o \in Offsets :
           \/ granted'[o] = granted[o] /\ replay[o] <= replay'[o]
           \/ /\ o \notin holes' \union past'
              /\ MaxDeliver # 0 /\ Countable(o)' => granted'[o] <= MaxDeliver + replay'[o]
  PROVE  BudgetInv'
<1>0. \A o \in Offsets : /\ granted[o] \in Nat /\ granted'[o] \in Nat
                         /\ replay[o] \in Nat /\ replay'[o] \in Nat
  BY DEF TypeOK
<1>1. ASSUME NEW o \in Offsets, granted'[o] > 0 PROVE (o < Flushed /\ ~ Undue(o))'
  <2>1. o < Flushed /\ ~ Undue(o)
    BY <1>1 DEF BudgetInv
  <2> QED
    BY <2>1, DueStays
<1>2. ASSUME NEW o \in Offsets, o \notin settled', ~ DeadLettered(o)', MaxDeliver # 0
      PROVE  granted'[o] <= MaxDeliver + replay'[o]
  <2>1. o \notin settled /\ ~ DeadLettered(o)
    BY <1>2, DeadLetteredStays DEF EvidenceGrows
  <2>2. granted[o] <= MaxDeliver + replay[o]
    BY <1>2, <2>1 DEF BudgetInv, DeliveryBudget
  <2>3. MaxDeliver \in Nat
    BY GroupConstants
  <2>4. CASE granted'[o] = granted[o] /\ replay[o] <= replay'[o]
    BY <1>0, <2>2, <2>3, <2>4
  <2>5. CASE o \notin holes' \union past'
                /\ (Countable(o)' => granted'[o] <= MaxDeliver + replay'[o])
    <3>1. Countable(o)'
      BY <1>2, <2>5 DEF Countable
    <3> QED
      BY <2>5, <3>1
  <2> QED
    BY <1>2, <2>4, <2>5
<1>3. DeliveryBudget'
  BY <1>2 DEF DeliveryBudget
<1> QED
  BY <1>1, <1>3 DEF BudgetInv

\* A step that delivers nothing: counts stay, or belong to an offset that was
\* never delivered; the checkpoint is left alone or takes the counts.
LEMMA QuietKeepsBudget ==
  ASSUME TypeOK, TypeOK', BudgetInv, EvidenceGrows, due \subseteq due',
         UNCHANGED <<granted, replay>>,
         \A o \in Offsets : Countable(o)' => count'[o] = count[o] \/ granted[o] = 0,
         \/ UNCHANGED <<savedCount, unflushed>>
         \/ \A o \in Offsets : savedCount'[o] = count[o] /\ unflushed'[o] = 0
  PROVE  BudgetInv'
<1>0. \A o \in Offsets : /\ granted[o] \in Nat /\ replay[o] \in Nat
                         /\ count[o] \in Nat /\ count'[o] \in Nat
                         /\ savedCount'[o] \in Nat /\ unflushed'[o] \in Nat
  BY DEF TypeOK
<1>1. ASSUME NEW o \in Offsets, Countable(o)'
      PROVE  /\ granted'[o] <= count'[o] + replay'[o]
             /\ granted'[o] <= savedCount'[o] + unflushed'[o] + replay'[o]
  <2>1. Countable(o)
    BY <1>1, CountableBefore
  <2>2. /\ granted[o] <= count[o] + replay[o]
        /\ granted[o] <= savedCount[o] + unflushed[o] + replay[o]
    BY <2>1 DEF BudgetInv
  <2>3. count'[o] = count[o] \/ granted[o] = 0
    BY <1>1
  <2>4. \/ savedCount'[o] = savedCount[o] /\ unflushed'[o] = unflushed[o]
        \/ savedCount'[o] = count[o] /\ unflushed'[o] = 0
    OBVIOUS
  <2>5. granted'[o] = granted[o] /\ replay'[o] = replay[o]
    OBVIOUS
  <2> QED
    BY <1>0, <2>2, <2>3, <2>4, <2>5
<1>2. \A o \in Offsets : granted'[o] = granted[o] /\ replay[o] <= replay'[o]
  BY <1>0
<1> QED
  BY <1>1, <1>2, BudgetKept

\* Without off-subject records a scan passes over expired records only.
LEMMA OnlyExpiredPassedOver ==
  ASSUME TypeOK, "other" \notin Kinds, NEW D
  PROVE  /\ PassedOver(D) \subseteq past
         /\ FilteredRun(D) = {}
<1>1. ASSUME NEW o \in PassedOver(D) PROVE o \in past
  <2>1. o \in Offsets /\ o < Flushed /\ PassOver(o)
    <3>1. o \in Offsets /\ o < Flushed /\ o \in Candidates(D)
      BY DEF PassedOver, Candidates, Window
    <3>2. o <= o
      BY <3>1, GroupConstants DEF Offsets
    <3> QED
      BY <3>1, <3>2 DEF PassedOver
  <2>2. log \in Seq(Kinds) /\ o + 1 \in 1 .. Len(log)
    BY <2>1, GroupConstants DEF TypeOK, Offsets, Flushed
  <2>3. log[o + 1] \in Kinds
    BY <2>2
  <2>4. Matches(o)
    BY <2>3 DEF Matches, Kind
  <2> QED
    BY <2>1, <2>4 DEF PassOver, Expired
<1> QED
  BY <1>1 DEF FilteredRun, Expired

\* A scan stops at one offset at most.
LEMMA OneStop ==
  ASSUME NEW D, NEW o \in StopAt(D), NEW p \in StopAt(D)
  PROVE  o = p
<1>1. o \in Int /\ p \in Int
  BY ClaimedAreOffsets DEF Offsets
<1>2. ~ (o < p) /\ ~ (p < o)
  BY DEF StopAt
<1> QED
  BY <1>1, <1>2

\* A scan that keeps nothing: it clears the counts of expired records and of
\* the one it stopped at.
LEMMA ScanKeepsBudget ==
  ASSUME TypeOK, TypeOK', BudgetInv, EvidenceGrows, due \subseteq due', CountsKept,
         NEW D, NEW more, Scan(D, {}, more), UNCHANGED <<granted, unflushed, replay, savedCount>>,
         \A o \in StopAt(D) : ~ Countable(o)' \/ granted[o] = 0
  PROVE  BudgetInv'
<1>1. PassedOver(D) \subseteq past
  BY OnlyExpiredPassedOver DEF CountsKept
<1>2. \A o \in Offsets :
        o \notin PassedOver(D) \union StopAt(D) => count'[o] = count[o]
  BY DEF Scan
<1>3. ASSUME NEW o \in Offsets, Countable(o)' PROVE count'[o] = count[o] \/ granted[o] = 0
  <2>1. o \notin PassedOver(D)
    BY <1>1, <1>3, CountableBefore DEF Countable
  <2> QED
    BY <1>2, <1>3, <2>1
<1> QED
  BY <1>3, QuietKeepsBudget

\* A delivery takes the next attempt, which is within the budget.
LEMMA DeliverKeepsBudget ==
  ASSUME TypeOK, TypeOK', BudgetInv, EvidenceGrows, due \subseteq due', CountsKept,
         NEW s \in Sessions, NEW D, PollDeliver(s, D)
  PROVE  BudgetInv'
<1>1. PICK o \in StopAt(D) : /\ Deliverable(o) /\ ~ Poison(o)
                             /\ Scan(D, {o}, {}) /\ CountGrant(o)
  BY DEF PollDeliver
<1>2. UNCHANGED <<savedCount, replay>>
  BY DEF PollDeliver, diskVars
<1>3. o \in Offsets /\ o < Flushed /\ ~ Undue(o)
  BY <1>1 DEF StopAt, Candidates, Window, Deliverable
<1>4. StopAt(D) = {o}
  BY OneStop
<1>5. PassedOver(D) \subseteq past
  BY OnlyExpiredPassedOver DEF CountsKept
<1>6. \A p \in Offsets :
        count'[p] = IF p = o THEN count[p] + 1
                    ELSE IF p \in PassedOver(D) THEN 0 ELSE count[p]
  BY <1>1, <1>4 DEF Scan
<1>7. \A p \in Offsets :
        /\ granted'[p] = IF p = o THEN granted[p] + 1 ELSE granted[p]
        /\ unflushed'[p] = IF p = o THEN unflushed[p] + 1 ELSE unflushed[p]
  BY <1>1, <1>3 DEF CountGrant, TypeOK
<1>8. \A p \in Offsets : /\ granted[p] \in Nat /\ replay[p] \in Nat /\ count[p] \in Nat
                         /\ savedCount[p] \in Nat /\ unflushed[p] \in Nat
  BY DEF TypeOK
<1>9. ASSUME NEW p \in Offsets, Countable(p)'
      PROVE  /\ granted'[p] <= count'[p] + replay'[p]
             /\ granted'[p] <= savedCount'[p] + unflushed'[p] + replay'[p]
  <2>1. Countable(p) /\ p \notin PassedOver(D)
    BY <1>5, <1>9, CountableBefore DEF Countable
  <2>2. /\ granted[p] <= count[p] + replay[p]
        /\ granted[p] <= savedCount[p] + unflushed[p] + replay[p]
    BY <2>1 DEF BudgetInv
  <2> QED
    BY <1>2, <1>6, <1>7, <1>8, <2>1, <2>2
<1>10. o \notin holes' \union past'
  BY <1>1 DEF Deliverable, Expired, PollDeliver, logVars
<1>11. ASSUME MaxDeliver # 0, Countable(o)' PROVE granted'[o] <= MaxDeliver + replay'[o]
  <2>1. MaxDeliver \in Nat /\ count[o] + 1 <= MaxDeliver
    BY <1>1, <1>3, <1>8, <1>11, GroupConstants DEF Poison
  <2>2. granted'[o] <= count[o] + 1 + replay'[o]
    BY <1>3, <1>6, <1>9, <1>11
  <2>3. granted'[o] \in Nat /\ replay'[o] \in Nat /\ count[o] \in Nat
    BY <1>3 DEF TypeOK
  <2> QED
    BY <2>1, <2>2, <2>3
<1>12. \A p \in Offsets : p # o => granted'[p] = granted[p] /\ replay[p] <= replay'[p]
  BY <1>2, <1>7, <1>8
<1> QED
  BY <1>3, <1>9, <1>10, <1>11, <1>12, BudgetKept

\* A poll, whichever way it ends.
LEMMA PollKeepsBudget ==
  ASSUME TypeOK, TypeOK', SkipInv, BudgetInv, EvidenceGrows, due \subseteq due', CountsKept,
         earliest = 0, NEW s \in Sessions, Poll(s)
  PROVE  BudgetInv'
<1> USE GroupConstants
<1>1. ASSUME NEW D, PollIdle(D) PROVE BudgetInv'
  <2>1. /\ StopAt(D) = {} /\ Scan(D, {}, {})
        /\ UNCHANGED <<granted, unflushed, replay, savedCount>>
    BY <1>1 DEF PollIdle, NoGrant, diskVars
  <2> QED
    BY <2>1, ScanKeepsBudget
<1>2. ASSUME NEW D, PollHold(D) PROVE BudgetInv'
  <2>1. Scan(D, {}, {}) /\ UNCHANGED <<granted, unflushed, replay, savedCount>>
    BY <1>2 DEF PollHold, NoGrant, diskVars
  <2>2. FilteredRun(D) = {}
    BY OnlyExpiredPassedOver DEF CountsKept
  <2>3. PICK o \in StopAt(D) : Undue(o)
    BY <1>2, <2>2 DEF PollHold
  <2>4. o \in Offsets /\ granted[o] \in Nat
    BY ClaimedAreOffsets DEF TypeOK
  <2>5. granted[o] = 0
    BY <2>3, <2>4 DEF BudgetInv
  <2>6. \A p \in StopAt(D) : p = o
    BY OneStop
  <2> QED
    BY <2>1, <2>5, <2>6, ScanKeepsBudget
<1>3. ASSUME NEW D, PollHole(D) PROVE BudgetInv'
  <2>1. PICK o \in StopAt(D) : o \in holes /\ Scan(D, {}, HoleRun(o))
    BY <1>3 DEF PollHole
  <2>2. UNCHANGED <<granted, unflushed, replay, savedCount, holes>>
    BY <1>3 DEF PollHole, NoGrant, diskVars, logVars
  <2>3. \A p \in StopAt(D) : ~ Countable(p)'
    BY <2>1, <2>2, OneStop DEF Countable
  <2> QED
    BY <2>1, <2>2, <2>3, ScanKeepsBudget
<1>4. ASSUME NEW D, PollDeadLetter(D) PROVE BudgetInv'
  <2>1. PICK o \in StopAt(D), k \in FanOuts :
          Scan(D, {}, IF AllCopied(k) THEN {o} ELSE {}) /\ FanOut(o, k)
    BY <1>4 DEF PollDeadLetter
  <2>2. UNCHANGED <<granted, unflushed, replay, savedCount>>
    BY <1>4 DEF PollDeadLetter, NoGrant, diskVars
  <2>3. o \in Offsets /\ k = NumTargets /\ k \in 0 .. NumTargets
    BY ClaimedAreOffsets DEF FanOuts, CountsKept
  <2>4. \A t \in Targets : t <= k => dlq'[t][o] > 0
    BY <2>1, <2>3, FanOutKeepsGuards DEF SkipInv
  <2>5. 1 \in Targets /\ 1 <= k
    BY <2>3 DEF Targets
  <2>6. DeadLettered(o)'
    BY <2>4, <2>5 DEF DeadLettered
  <2>7. \A p \in StopAt(D) : ~ Countable(p)'
    BY <2>6, OneStop DEF Countable
  <2> QED
    BY <2>1, <2>2, <2>7, ScanKeepsBudget
<1>5. ASSUME PollStashed(s) PROVE BudgetInv'
  <2>1. UNCHANGED <<granted, unflushed, replay, savedCount, count>>
    BY <1>5 DEF PollStashed, diskVars, ghostVars
  <2> QED
    BY <2>1, QuietKeepsBudget
<1>6. ~ PollTruncated(s)
  <2>1. Committed \in 0 .. MaxLen
    BY FirstGapIsGap DEF TypeOK, Committed
  <2> QED
    BY <2>1 DEF PollTruncated
<1> QED
  BY <1>1, <1>2, <1>3, <1>4, <1>5, <1>6, DeliverKeepsBudget DEF Poll

\* A crash takes the counts back to the checkpoint and makes up for what was
\* delivered since; an open offset is not below the resumed cursor.
LEMMA CrashKeepsBudget ==
  ASSUME TypeOK, TypeOK', SkipInv, BudgetInv, EvidenceGrows, due \subseteq due', CountsKept,
         earliest = 0, Crash
  PROVE  BudgetInv'
<1> USE GroupConstants
<1>1. /\ UNCHANGED <<granted, savedCount, log>>
      /\ \A o \in Offsets :
           /\ count'[o] = IF FirstGap(savedAcked) <= o /\ o < Flushed
                          THEN savedCount[o] ELSE 0
           /\ replay'[o] = replay[o] + unflushed[o]
           /\ unflushed'[o] = 0
  BY DEF Crash, Resumed, logVars
<1>2. \A o \in Offsets : /\ granted[o] \in Nat /\ replay[o] \in Nat
                         /\ savedCount[o] \in Nat /\ unflushed[o] \in Nat
  BY DEF TypeOK
<1>3. ASSUME NEW o \in Offsets, Countable(o)'
      PROVE  /\ granted'[o] <= count'[o] + replay'[o]
             /\ granted'[o] <= savedCount'[o] + unflushed'[o] + replay'[o]
  <2>1. Countable(o)
    BY <1>3, CountableBefore
  <2>2. granted[o] <= savedCount[o] + unflushed[o] + replay[o]
    BY <2>1 DEF BudgetInv
  <2>3. CASE o < Flushed
    <3>1. ~ Accounted(o)
      <4>1. Matches(o)
        <5>1. log \in Seq(Kinds) /\ o + 1 \in 1 .. Len(log)
          BY <2>3 DEF TypeOK, Offsets, Flushed
        <5>2. log[o + 1] \in Kinds
          BY <5>1
        <5> QED
          BY <5>2 DEF Matches, Kind, CountsKept
      <4>2. ~ (o < earliest)
        BY DEF Offsets
      <4>3. ~ \A t \in Targets : dlq[t][o] > 0
        <5>1. 1 \in Targets
          BY DEF Targets
        <5> QED
          BY <2>1, <5>1 DEF Countable, DeadLettered
      <4> QED
        BY <2>1, <4>1, <4>2, <4>3 DEF Accounted, Countable
    <3>2. o \notin savedAcked
      BY <3>1 DEF SkipInv, NoSilentSkip
    <3>3. FirstGap(savedAcked) \in 0 .. MaxLen /\ ~ (o < FirstGap(savedAcked))
      BY <3>2, FirstGapIsGap DEF TypeOK, Below
    <3>4. FirstGap(savedAcked) <= o
      BY <3>3 DEF Offsets
    <3>5. count'[o] = savedCount[o]
      BY <1>1, <2>3, <3>4
    <3> QED
      BY <1>1, <1>2, <2>2, <3>5
  <2>4. CASE ~ (o < Flushed)
    <3>1. granted[o] = 0
      BY <1>2, <2>4 DEF BudgetInv
    <3>2. count'[o] = 0
      BY <1>1, <2>4
    <3> QED
      BY <1>1, <1>2, <3>1, <3>2
  <2> QED
    BY <2>3, <2>4
<1>4. \A o \in Offsets : granted'[o] = granted[o] /\ replay[o] <= replay'[o]
  BY <1>1, <1>2
<1> QED
  BY <1>3, <1>4, BudgetKept

\* Every step.
LEMMA StepKeepsBudget ==
  ASSUME TypeOK, TypeOK', SkipInv, BudgetInv, CountsKept, earliest = 0, Next
  PROVE  BudgetInv'
<1>0. EvidenceGrows /\ due \subseteq due'
  BY StepGrowsEvidence
<1>s. ASSUME UNCHANGED <<granted, replay, count, savedCount, unflushed>> PROVE BudgetInv'
  BY <1>0, <1>s, QuietKeepsBudget
<1>1. ASSUME NEW s \in Sessions, NEW o \in Offsets, Ack(s, o) \/ Term(s, o)
      PROVE  BudgetInv'
  <2>1. /\ UNCHANGED <<granted, replay, savedCount, unflushed>>
        /\ \/ UNCHANGED count
           \/ count' = [count EXCEPT ![o] = 0] /\ o \in settled'
    BY <1>1 DEF Ack, Term, SettleOwned, diskVars
  <2>2. \A p \in Offsets : Countable(p)' => count'[p] = count[p]
    BY <2>1 DEF Countable, TypeOK
  <2> QED
    BY <1>0, <2>1, <2>2, QuietKeepsBudget
<1>2. ASSUME NEW s \in Sessions, NEW o \in Offsets, Fenced(s, o) \/ Nack(s, o) \/ Progress(s, o)
      PROVE  BudgetInv'
  BY <1>s, <1>2 DEF Fenced, Nack, Progress, groupVars, diskVars, ghostVars
<1>3. ASSUME NEW s \in Sessions, NEW n \in 0 .. MaxLen, CumulativeAck(s, n) PROVE BudgetInv'
  <2>1. /\ UNCHANGED <<granted, replay, savedCount, unflushed>>
        /\ \A o \in Offsets : count'[o] = IF o < n THEN 0 ELSE count[o]
        /\ settled' = settled \union Below(n)
    BY <1>3 DEF CumulativeAck, CommitUpTo, diskVars
  <2>2. \A p \in Offsets : Countable(p)' => count'[p] = count[p]
    BY <2>1 DEF Countable, Below
  <2> QED
    BY <1>0, <2>1, <2>2, QuietKeepsBudget
<1>4. ASSUME NEW s \in Sessions, FlowBegins(s) PROVE BudgetInv'
  BY <1>s, <1>4 DEF FlowBegins, groupVars, diskVars, ghostVars
<1>5. ASSUME \/ \E s \in Sessions, k \in Writes : Disconnect(s, k)
             \/ \E k \in Writes : MaybeCheckpoint(k)
      PROVE  BudgetInv'
  <2>1. /\ UNCHANGED <<granted, replay, count>>
        /\ UNCHANGED <<savedCount, unflushed>> \/ SaveCounts
    BY <1>5 DEF Disconnect, MaybeCheckpoint, CheckpointCursor, KeepCounts
  <2>2. SaveCounts => \A o \in Offsets : savedCount'[o] = count[o] /\ unflushed'[o] = 0
    BY DEF SaveCounts, AllCounts
  <2> QED
    BY <1>0, <2>1, <2>2, QuietKeepsBudget
<1>6. ASSUME \/ ForceReap
             \/ \E o \in Offsets : Lapse(o) \/ TtlPasses(o) \/ BecomesDue(o) \/ Compact(o)
             \/ \E p \in BOOLEAN : SetPause(p)
             \/ \E k \in Kinds : Publish(k)
      PROVE  BudgetInv'
  BY <1>s, <1>6 DEF ForceReap, Lapse, TtlPasses, BecomesDue, Compact, SetPause, Publish,
                    groupVars, diskVars, ghostVars
<1>7. ASSUME NEW s \in Sessions, Poll(s) PROVE BudgetInv'
  BY <1>0, <1>7, PollKeepsBudget
<1>8. ASSUME Crash PROVE BudgetInv'
  BY <1>0, <1>8, CrashKeepsBudget
<1> QED
  BY <1>1, <1>2, <1>3, <1>4, <1>5, <1>6, <1>7, <1>8 DEF Next, Environment, SessionStep

\* The delivery cap holds across restarts, for every cap, number of sessions,
\* checkpoint and flush interval and number of crashes: a message that nobody
\* settled and no sink took was delivered at most MaxDeliver times plus once
\* for each delivery that a crash forgot (`poll_in_timed` counts before it
\* hands out, the attempts checkpoint holds leased and carried counts).
THEOREM DeliveryBudgetHolds ==
  ASSUME CountsKept
  PROVE  Spec => []DeliveryBudget
<1>1. Init => BudgetInv
  <2> SUFFICES ASSUME Init PROVE BudgetInv
    OBVIOUS
  <2>1. \A o \in Offsets : granted[o] = 0 /\ count[o] = 0 /\ replay[o] = 0
                           /\ savedCount[o] = 0 /\ unflushed[o] = 0
    BY DEF Init
  <2> QED
    BY <2>1, GroupConstants DEF BudgetInv, DeliveryBudget
<1>2. /\ TypeOK /\ TypeOK' /\ SkipInv /\ earliest = 0 /\ BudgetInv /\ [Next]_vars
      => BudgetInv'
  <2> SUFFICES ASSUME TypeOK, TypeOK', SkipInv, earliest = 0, BudgetInv, [Next]_vars
               PROVE  BudgetInv'
    OBVIOUS
  <2>1. CASE UNCHANGED vars
    BY <2>1 DEF vars, logVars, groupVars, dlqVars, diskVars, ghostVars, BudgetInv,
                DeliveryBudget, Countable, DeadLettered, Undue, Kind, Flushed
  <2>2. CASE Next
    BY <2>2, CountsKept, StepKeepsBudget
  <2> QED
    BY <2>1, <2>2
<1>3. BudgetInv => DeliveryBudget
  BY DEF BudgetInv
<1>4. MaxReaps = 0
  BY CountsKept DEF CountsKept
<1>5. Spec => [](earliest = 0)
  BY <1>4, NothingReaped
<1> QED
  BY <1>1, <1>2, <1>3, <1>5, GroupTypeCorrect, SkipInvHolds, PTL DEF Spec

-----------------------------------------------------------------------------
(* The durable attempt counts.  A checkpoint takes the counts in memory,   *)
(* so it lowers none exactly if memory is never behind the disk for an     *)
(* offset that is still open.  A crash sets the two equal.  The paths that *)
(* forget a count are those the delivery budget leaves out, and an         *)
(* acknowledgement the cursor sheds at its run cap: it frees the lease and *)
(* its count although the offset stays open.                               *)

\* The cursor has room for another run, so it sheds no acknowledgement.
RoomForRuns == Cardinality(RunEnds(acked)) < MaxRuns

\* Only due records have counts; in memory they are not behind the disk.
CountInv ==
  /\ \A o \in Offsets :
       count[o] > 0 \/ savedCount[o] > 0 => o < Flushed /\ ~ Undue(o)
  /\ \A o \in Offsets \ acked : savedCount[o] <= count[o]

\* With room for runs an acknowledgement is taken.
LEMMA RoomMeansNoShed ==
  ASSUME TypeOK, RoomForRuns, NEW o
  PROVE  ~ Sheds(o)
<1>1. RunEnds(acked) \subseteq Offsets
  BY DEF RunEnds, TypeOK
<1>2. Cardinality(RunEnds(acked)) \in Nat /\ MaxRuns \in Nat
  BY <1>1, OffsetSetsAreCounted, GroupConstants
<1> QED
  BY <1>2 DEF Sheds, RoomForRuns

\* What a step has to show.
LEMMA CountsStay ==
  ASSUME TypeOK, TypeOK', CountInv, EvidenceGrows, due \subseteq due',
         \A o \in Offsets : \/ count'[o] \in {0, count[o], savedCount[o]}
                            \/ o < Flushed /\ ~ Undue(o),
         \A o \in Offsets : savedCount'[o] \in {savedCount[o], count[o]},
         \A o \in Offsets \ acked' : savedCount'[o] <= count'[o]
  PROVE  CountInv'
<1>0. \A o \in Offsets : /\ count[o] \in Nat /\ savedCount[o] \in Nat
                         /\ count'[o] \in Nat /\ savedCount'[o] \in Nat
  BY DEF TypeOK
<1>1. ASSUME NEW o \in Offsets, count'[o] > 0 \/ savedCount'[o] > 0
      PROVE  (o < Flushed /\ ~ Undue(o))'
  <2>1. count[o] > 0 \/ savedCount[o] > 0 \/ (o < Flushed /\ ~ Undue(o))
    BY <1>0, <1>1
  <2>2. o < Flushed /\ ~ Undue(o)
    BY <2>1 DEF CountInv
  <2> QED
    BY <2>2, DueStays
<1> QED
  BY <1>1 DEF CountInv

\* A step that writes no checkpoint and takes no count from an open offset.
LEMMA OpenCountsStay ==
  ASSUME TypeOK, TypeOK', CountInv, EvidenceGrows, due \subseteq due',
         UNCHANGED savedCount, acked \subseteq acked',
         \A o \in Offsets : \/ count'[o] = count[o]
                            \/ count'[o] = 0 /\ (o \in acked' \/ Undue(o))
                            \/ count'[o] = count[o] + 1 /\ o < Flushed /\ ~ Undue(o)
  PROVE  CountInv'
<1>0. \A o \in Offsets : count[o] \in Nat /\ savedCount[o] \in Nat
  BY DEF TypeOK
<1>1. ASSUME NEW o \in Offsets, o \notin acked' PROVE savedCount'[o] <= count'[o]
  <2>1. savedCount[o] <= count[o]
    BY <1>1 DEF CountInv
  <2>2. CASE Undue(o)
    <3>1. count[o] = 0 /\ savedCount[o] = 0
      BY <1>0, <2>2 DEF CountInv
    <3> QED
      BY <1>0, <1>1, <2>2, <3>1
  <2> QED
    BY <1>0, <1>1, <2>1, <2>2
<1> QED
  BY <1>1, CountsStay

\* A scan that keeps nothing acknowledges where it stopped, or that was undue.
LEMMA ScanKeepsCounts ==
  ASSUME TypeOK, TypeOK', CountInv, EvidenceGrows, due \subseteq due',
         NEW D, NEW more, Scan(D, {}, more), UNCHANGED savedCount,
         \A o \in StopAt(D) : o \in more \/ Undue(o)
  PROVE  CountInv'
<1>1. acked' = acked \union PassedOver(D) \union more
  BY DEF Scan
<1>2. \A o \in Offsets : count'[o] = IF o \in PassedOver(D) \union StopAt(D) THEN 0 ELSE count[o]
  BY DEF Scan
<1>3. \A o \in Offsets : \/ count'[o] = count[o]
                         \/ count'[o] = 0 /\ (o \in acked' \/ Undue(o))
  BY <1>1, <1>2
<1> QED
  BY <1>1, <1>3, OpenCountsStay

\* A poll, whichever way it ends.
LEMMA PollKeepsCounts ==
  ASSUME TypeOK, TypeOK', CountInv, EvidenceGrows, due \subseteq due', CountsKept,
         earliest = 0, NEW s \in Sessions, Poll(s)
  PROVE  CountInv'
<1> USE GroupConstants
<1>1. ASSUME NEW D, PollIdle(D) PROVE CountInv'
  <2>1. StopAt(D) = {} /\ Scan(D, {}, {}) /\ UNCHANGED savedCount
    BY <1>1 DEF PollIdle, diskVars
  <2> QED
    BY <2>1, ScanKeepsCounts
<1>2. ASSUME NEW D, PollDeliver(s, D) PROVE CountInv'
  <2>1. PICK o \in StopAt(D) : Deliverable(o) /\ Scan(D, {o}, {})
    BY <1>2 DEF PollDeliver
  <2>2. UNCHANGED savedCount
    BY <1>2 DEF PollDeliver, diskVars
  <2>3. o < Flushed /\ ~ Undue(o)
    BY <2>1 DEF StopAt, Candidates, Window, Deliverable
  <2>4. StopAt(D) = {o}
    BY OneStop
  <2>5. acked' = acked \union PassedOver(D)
    BY <2>1 DEF Scan
  <2>6. \A p \in Offsets :
          count'[p] = IF p = o THEN count[p] + 1
                      ELSE IF p \in PassedOver(D) THEN 0 ELSE count[p]
    BY <2>1, <2>4 DEF Scan
  <2> QED
    BY <2>2, <2>3, <2>5, <2>6, OpenCountsStay
<1>3. ASSUME NEW D, PollHold(D) PROVE CountInv'
  <2>1. Scan(D, {}, {}) /\ UNCHANGED savedCount
    BY <1>3 DEF PollHold, diskVars
  <2>2. FilteredRun(D) = {}
    BY OnlyExpiredPassedOver DEF CountsKept
  <2>3. PICK o \in StopAt(D) : Undue(o)
    BY <1>3, <2>2 DEF PollHold
  <2>4. \A p \in StopAt(D) : p = o
    BY OneStop
  <2> QED
    BY <2>1, <2>3, <2>4, ScanKeepsCounts
<1>4. ASSUME NEW D, PollHole(D) PROVE CountInv'
  <2>1. PICK o \in StopAt(D) : o \in holes /\ Scan(D, {}, HoleRun(o))
    BY <1>4 DEF PollHole
  <2>2. UNCHANGED savedCount
    BY <1>4 DEF PollHole, diskVars
  <2>3. o \in HoleRun(o)
    <3>1. o \in Offsets /\ o < Flushed
      BY DEF StopAt, Candidates, Window
    <3>2. o \in Int /\ \A q \in Offsets : q \in Int
      BY <3>1 DEF Offsets
    <3> QED
      BY <2>1, <3>1, <3>2 DEF HoleRun
  <2>4. \A p \in StopAt(D) : p \in HoleRun(o)
    BY <2>3, OneStop
  <2> QED
    BY <2>1, <2>2, <2>4, ScanKeepsCounts
<1>5. ASSUME NEW D, PollDeadLetter(D) PROVE CountInv'
  <2>1. PICK o \in StopAt(D), k \in FanOuts : Scan(D, {}, IF AllCopied(k) THEN {o} ELSE {})
    BY <1>5 DEF PollDeadLetter
  <2>2. UNCHANGED savedCount
    BY <1>5 DEF PollDeadLetter, diskVars
  <2>3. Scan(D, {}, {o})
    BY <2>1 DEF FanOuts, CountsKept, AllCopied
  <2>4. \A p \in StopAt(D) : p \in {o}
    BY OneStop
  <2> QED
    BY <2>2, <2>3, <2>4, ScanKeepsCounts
<1>6. ASSUME PollStashed(s) PROVE CountInv'
  <2>1. UNCHANGED <<savedCount, acked, count>>
    BY <1>6 DEF PollStashed, diskVars
  <2> QED
    BY <2>1, OpenCountsStay
<1>7. ~ PollTruncated(s)
  <2>1. Committed \in 0 .. MaxLen
    BY FirstGapIsGap DEF TypeOK, Committed
  <2> QED
    BY <2>1 DEF PollTruncated
<1> QED
  BY <1>1, <1>2, <1>3, <1>4, <1>5, <1>6, <1>7 DEF Poll

\* A crash takes the counts of the offsets it reopens from the disk.
LEMMA CrashKeepsCounts ==
  ASSUME TypeOK, TypeOK', CountInv, EvidenceGrows, due \subseteq due', Crash
  PROVE  CountInv'
<1> USE GroupConstants
<1>1. /\ UNCHANGED savedCount /\ acked' = savedAcked
      /\ \A o \in Offsets :
           count'[o] = IF FirstGap(savedAcked) <= o /\ o < Flushed THEN savedCount[o] ELSE 0
  BY DEF Crash, Resumed
<1>2. ASSUME NEW o \in Offsets, o \notin acked' PROVE savedCount'[o] <= count'[o]
  <2>1. FirstGap(savedAcked) \in 0 .. MaxLen /\ ~ (o < FirstGap(savedAcked))
    BY <1>1, <1>2, FirstGapIsGap DEF TypeOK, Below
  <2>2. FirstGap(savedAcked) <= o
    BY <2>1 DEF Offsets
  <2>3. savedCount[o] \in Nat
    BY DEF TypeOK
  <2>4. o < Flushed \/ savedCount[o] = 0
    BY <2>3 DEF CountInv
  <2> QED
    BY <1>1, <2>2, <2>3, <2>4
<1> QED
  BY <1>1, <1>2, CountsStay

\* Every step.
LEMMA StepKeepsCounts ==
  ASSUME TypeOK, TypeOK', SkipInv, CountInv, CountsKept, RoomForRuns, earliest = 0, Next
  PROVE  CountInv'
<1>0. EvidenceGrows /\ due \subseteq due'
  BY StepGrowsEvidence
<1>s. ASSUME UNCHANGED <<acked, count, savedCount>> PROVE CountInv'
  BY <1>0, <1>s, OpenCountsStay
<1>1. ASSUME NEW s \in Sessions, NEW o \in Offsets, Ack(s, o) \/ Term(s, o)
      PROVE  CountInv'
  <2>1. /\ UNCHANGED savedCount
        /\ UNCHANGED <<acked, count>> \/ SettleOwned(s, o)
    BY <1>1 DEF Ack, Term, diskVars
  <2>2. CASE SettleOwned(s, o)
    <3>1. count' = [count EXCEPT ![o] = 0] /\ acked' = acked \union {o}
      BY <2>2, RoomMeansNoShed DEF SettleOwned
    <3>2. \A p \in Offsets : count'[p] = count[p] \/ (count'[p] = 0 /\ p \in acked')
      BY <3>1 DEF TypeOK
    <3> QED
      BY <1>0, <2>1, <3>1, <3>2, OpenCountsStay
  <2> QED
    BY <1>s, <2>1, <2>2
<1>2. ASSUME NEW s \in Sessions, NEW o \in Offsets, Fenced(s, o) \/ Nack(s, o) \/ Progress(s, o)
      PROVE  CountInv'
  BY <1>s, <1>2 DEF Fenced, Nack, Progress, groupVars, diskVars
<1>3. ASSUME NEW s \in Sessions, NEW n \in 0 .. MaxLen, CumulativeAck(s, n) PROVE CountInv'
  <2>1. /\ UNCHANGED savedCount
        /\ \A o \in Offsets : count'[o] = IF o < n THEN 0 ELSE count[o]
        /\ acked' = acked \union Below(n)
    BY <1>3 DEF CumulativeAck, CommitUpTo, diskVars
  <2>2. \A p \in Offsets : count'[p] = count[p] \/ (count'[p] = 0 /\ p \in acked')
    BY <2>1 DEF Below
  <2> QED
    BY <1>0, <2>1, <2>2, OpenCountsStay
<1>4. ASSUME NEW s \in Sessions, FlowBegins(s) PROVE CountInv'
  BY <1>s, <1>4 DEF FlowBegins, groupVars, diskVars
<1>5. ASSUME \/ \E s \in Sessions, k \in Writes : Disconnect(s, k)
             \/ \E k \in Writes : MaybeCheckpoint(k)
      PROVE  CountInv'
  <2>1. /\ UNCHANGED <<acked, count>>
        /\ UNCHANGED savedCount \/ SaveCounts
    BY <1>5 DEF Disconnect, MaybeCheckpoint, CheckpointCursor, KeepCounts
  <2>2. CASE SaveCounts
    <3>1. \A o \in Offsets : savedCount'[o] = count[o] /\ count'[o] = count[o] /\ count[o] \in Nat
      BY <2>1, <2>2 DEF SaveCounts, AllCounts, TypeOK
    <3> QED
      BY <1>0, <3>1, CountsStay
  <2> QED
    BY <1>s, <2>1, <2>2
<1>6. ASSUME \/ ForceReap
             \/ \E o \in Offsets : Lapse(o) \/ TtlPasses(o) \/ BecomesDue(o) \/ Compact(o)
             \/ \E p \in BOOLEAN : SetPause(p)
             \/ \E k \in Kinds : Publish(k)
      PROVE  CountInv'
  BY <1>s, <1>6 DEF ForceReap, Lapse, TtlPasses, BecomesDue, Compact, SetPause, Publish,
                    groupVars, diskVars
<1>7. ASSUME NEW s \in Sessions, Poll(s) PROVE CountInv'
  BY <1>0, <1>7, PollKeepsCounts
<1>8. ASSUME Crash PROVE CountInv'
  BY <1>0, <1>8, CrashKeepsCounts
<1> QED
  BY <1>1, <1>2, <1>3, <1>4, <1>5, <1>6, <1>7, <1>8 DEF Next, Environment, SessionStep

\* A step leaves the durable counts alone or replaces them by those in memory.
LEMMA CheckpointTakesCounts ==
  ASSUME Next
  PROVE  UNCHANGED savedCount \/ savedCount' = [o \in Offsets |-> count[o]]
<1>1. CASE Environment
  BY <1>1 DEF Environment, MaybeCheckpoint, SaveCounts, AllCounts, KeepCounts, Crash,
              ForceReap, Lapse, TtlPasses, BecomesDue, Compact, SetPause, Publish, diskVars
<1>2. CASE \E s \in Sessions : SessionStep(s)
  BY <1>2 DEF SessionStep, Poll, PollIdle, PollDeliver, PollHold, PollHole, PollDeadLetter,
              PollStashed, PollTruncated, FlowBegins, Disconnect, CheckpointCursor, SaveCounts,
              AllCounts, KeepCounts, Ack, Fenced, Nack, Progress, Term, CumulativeAck, diskVars
<1> QED
  BY <1>1, <1>2 DEF Next

\* A durable attempt count is only raised while its offset is open, for every
\* cap, number of sessions, checkpoint and flush interval and number of
\* crashes (`checkpoint_cursor`, `maybe_checkpoint`: the two files are written
\* at different moments), as long as the cursor has room for runs.
THEOREM DurableCountHolds ==
  ASSUME CountsKept
  PROVE  Spec /\ []RoomForRuns => DurableCountNeverRegresses
<1>1. Init => CountInv
  <2> SUFFICES ASSUME Init PROVE CountInv
    OBVIOUS
  <2>1. \A o \in Offsets : count[o] = 0 /\ savedCount[o] = 0
    BY DEF Init
  <2> QED
    BY <2>1 DEF CountInv
<1>2. /\ TypeOK /\ TypeOK' /\ SkipInv /\ earliest = 0 /\ RoomForRuns /\ CountInv /\ [Next]_vars
      => CountInv'
  <2> SUFFICES ASSUME TypeOK, TypeOK', SkipInv, earliest = 0, RoomForRuns, CountInv, [Next]_vars
               PROVE  CountInv'
    OBVIOUS
  <2>1. CASE UNCHANGED vars
    BY <2>1 DEF vars, logVars, groupVars, diskVars, CountInv, Undue, Kind, Flushed
  <2>2. CASE Next
    BY <2>2, CountsKept, StepKeepsCounts
  <2> QED
    BY <2>1, <2>2
<1>3. TypeOK /\ CountInv /\ [Next]_vars
      => [\A o \in Offsets : o \notin acked => savedCount'[o] >= savedCount[o]]_vars
  <2> SUFFICES ASSUME TypeOK, CountInv, Next, NEW o \in Offsets, o \notin acked
               PROVE  savedCount'[o] >= savedCount[o]
    OBVIOUS
  <2>1. count[o] \in Nat /\ savedCount[o] \in Nat /\ savedCount[o] <= count[o]
    BY DEF TypeOK, CountInv
  <2>2. savedCount'[o] = savedCount[o] \/ savedCount'[o] = count[o]
    BY CheckpointTakesCounts
  <2> QED
    BY <2>1, <2>2
<1>4. MaxReaps = 0
  BY CountsKept DEF CountsKept
<1>5. Spec => [](earliest = 0)
  BY <1>4, NothingReaped
<1> QED
  BY <1>1, <1>2, <1>3, <1>5, GroupTypeCorrect, SkipInvHolds, PTL
     DEF Spec, DurableCountNeverRegresses

=============================================================================
