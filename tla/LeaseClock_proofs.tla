------------------------- MODULE LeaseClock_proofs -------------------------
(***************************************************************************)
(* The hard cap on a delivery attempt and the stopped clock of a pause,    *)
(* for every set of offsets, window length, cap, delay and horizon.        *)
(***************************************************************************)
EXTENDS LeaseClock, TLAPS

Leases == [start : Nat, deadline : Nat, holder : Holders]

\* A lease table seen at instant t, with the unpaused age of each attempt: the
\* age is the distance from the start, and a lease held under its claim or an
\* extension ends within the cap.
TableOK(table, t, age) ==
  /\ table \in [Offsets -> Leases \union {NoLease}]
  /\ \A o \in Offsets :
       table[o] # NoLease => /\ age[o] = t - table[o].start
                             /\ table[o].holder = "attempt" =>
                                  table[o].deadline <= table[o].start + HardCap

\* The inductive invariant: the table is right as seen through the pause,
\* although starts are shifted late and pauses end, restart and overlap.
ClockInv ==
  /\ now \in 0 .. MaxTime
  /\ \/ pause = NoPause
     \/ /\ pause \in [at : Nat, until : Nat]
        /\ pause.at <= now /\ pause.at <= pause.until
  /\ used \in [Offsets -> Nat]
  /\ TableOK(lease, ObserveNow, used)

\* A lease is absent and held by nobody, or has its three fields.
LEMMA LeaseType ==
  ASSUME NEW table \in [Offsets -> Leases \union {NoLease}], NEW o \in Offsets
  PROVE  /\ table[o] = NoLease => table[o].holder = "none"
         /\ table[o] # NoLease =>
              /\ table[o].start \in Nat /\ table[o].deadline \in Nat
              /\ table[o].holder \in Holders
BY DEF NoLease, Leases

\* The instant observed is at most the present, and is where the pause began
\* or as far behind the present as the pause was long.
LEMMA Observed ==
  ASSUME ClockInv
  PROVE  /\ now \in Nat
         /\ ObserveNow \in Int /\ ObserveNow <= now
         /\ pause = NoPause => ObserveNow = now
         /\ pause # NoPause => /\ pause.at \in Nat /\ pause.until \in Nat
                               /\ pause.at <= now /\ pause.at <= pause.until
         /\ Paused => ObserveNow = pause.at
         /\ pause # NoPause /\ ~ Paused =>
              ObserveNow = now - (pause.until - pause.at)
<1>1. now \in Nat
  BY ClockConstants DEF ClockInv
<1>2. CASE pause = NoPause
  BY <1>1, <1>2 DEF ObserveNow, Paused
<1>3. CASE pause # NoPause
  <2>1. /\ pause.at \in Nat /\ pause.until \in Nat
        /\ pause.at <= now /\ pause.at <= pause.until
    BY <1>3 DEF ClockInv
  <2> QED
    BY <1>1, <1>3, <2>1 DEF ObserveNow, Paused
<1> QED
  BY <1>2, <1>3

\* Shifting the table by delta is seeing it delta later.
LEMMA ShiftedTable ==
  ASSUME NEW t \in Int, TableOK(lease, t, used), NEW delta \in Nat
  PROVE  TableOK(Shifted(delta), t + delta, used)
<1> USE ClockConstants
<1>1. ASSUME NEW o \in Offsets, lease[o] # NoLease
      PROVE  /\ Shifted(delta)[o] \in Leases
             /\ used[o] = (t + delta) - Shifted(delta)[o].start
             /\ Shifted(delta)[o].holder = "attempt" =>
                  Shifted(delta)[o].deadline
                    <= Shifted(delta)[o].start + HardCap
  <2>1. /\ lease[o].start \in Nat /\ lease[o].deadline \in Nat
        /\ lease[o].holder \in Holders
    BY <1>1, LeaseType DEF TableOK
  <2>2. Shifted(delta)[o] = [start |-> lease[o].start + delta,
                             deadline |-> lease[o].deadline + delta,
                             holder |-> lease[o].holder]
    BY <1>1 DEF Shifted
  <2>3. /\ used[o] = t - lease[o].start
        /\ lease[o].holder = "attempt" => lease[o].deadline <= lease[o].start + HardCap
    BY <1>1 DEF TableOK
  <2> QED
    BY <2>1, <2>2, <2>3 DEF Leases
<1>2. ASSUME NEW o \in Offsets, lease[o] = NoLease
      PROVE  Shifted(delta)[o] = NoLease
  BY <1>2 DEF Shifted
<1>3. Shifted(delta) = [o \in Offsets |-> Shifted(delta)[o]]
  BY DEF Shifted
<1>4. Shifted(delta) \in [Offsets -> Leases \union {NoLease}]
  BY <1>1, <1>2, <1>3
<1> QED
  BY <1>1, <1>2, <1>4 DEF TableOK

\* Once no pause is open, the settled table is right at the present.
LEMMA SettledTable ==
  ASSUME ClockInv, ~ Paused
  PROVE  TableOK(Settled, now, used)
<1>1. CASE pause = NoPause
  BY <1>1, Observed DEF ClockInv, Settled
<1>2. CASE pause # NoPause
  <2>1. /\ pause.until - pause.at \in Nat
        /\ ObserveNow \in Int
        /\ ObserveNow + (pause.until - pause.at) = now
    BY <1>2, Observed
  <2>2. TableOK(lease, ObserveNow, used)
    BY DEF ClockInv
  <2>3. TableOK(Shifted(pause.until - pause.at), now, used)
    BY <2>1, <2>2, ShiftedTable
  <2> QED
    BY <1>2, <2>3 DEF Settled
<1> QED
  BY <1>1, <1>2

\* Replacing one entry of a table, and the age of its attempt.
LEMMA TableUpdate ==
  ASSUME NEW table, NEW t, NEW age, TableOK(table, t, age), NEW o \in Offsets,
         NEW l, l \in Leases, NEW now2,
         l.holder = "attempt" => l.deadline <= l.start + HardCap,
         now2 \in [Offsets -> Nat], now2[o] = t - l.start,
         \A p \in Offsets : p # o => now2[p] = age[p]
  PROVE  TableOK([table EXCEPT ![o] = l], t, now2)
BY DEF TableOK

\* Two lengths of time, the shorter of which is the cap.
LEMMA LeastBounds ==
  ASSUME NEW a \in Nat, NEW b \in Nat
  PROVE  Least(a, b) \in Nat /\ Least(a, b) <= b
BY DEF Least

\* Without a pause the present is what is observed.
LEMMA NoPauseNext ==
  ASSUME pause' = NoPause
  PROVE  ObserveNow' = now'
BY DEF ObserveNow, Paused

\* The actions that settle an elapsed pause and work on the settled table.
LEMMA PollKeepsClockInv ==
  ASSUME ClockInv, NEW o \in Offsets, NEW d \in Nat,
         Claim(o) \/ Defer(o, d)
  PROVE  ClockInv'
<1> USE ClockConstants
<1>1. ~ Paused /\ pause' = NoPause /\ now' = now
  BY DEF Claim, Defer
<1>2. TableOK(Settled, now, used) /\ now \in Nat
  BY <1>1, SettledTable, Observed
<1>3. ObserveNow' = now
  BY <1>1, NoPauseNext
<1>4. used \in [Offsets -> Nat]
  BY DEF ClockInv
<1>5. CASE Claim(o)
  <2> DEFINE l == [start |-> now, holder |-> "attempt",
                   deadline |-> Least(now + Visibility, now + HardCap)]
  <2>1. /\ lease' = [Settled EXCEPT ![o] = l]
        /\ used' = [used EXCEPT ![o] = 0]
    BY <1>5 DEF Claim
  <2>2. l \in Leases /\ l.deadline <= l.start + HardCap /\ l.start = now
    <3>1. /\ Least(now + Visibility, now + HardCap) \in Nat
          /\ Least(now + Visibility, now + HardCap) <= now + HardCap
      BY <1>2 DEF Least
    <3> QED
      BY <1>2, <3>1 DEF Leases, Holders
  <2>3. /\ used' \in [Offsets -> Nat] /\ used'[o] = now - now
        /\ \A p \in Offsets : p # o => used'[p] = used[p]
    BY <1>2, <1>4, <2>1
  <2> HIDE DEF l
  <2>4. TableOK(lease', now, used')
    BY <1>2, <2>1, <2>2, <2>3, TableUpdate
  <2> QED
    BY <1>1, <1>3, <2>3, <2>4 DEF ClockInv
<1>6. CASE Defer(o, d)
  <2> DEFINE l == PutOff(Settled[o], d)
  <2>1. lease' = [Settled EXCEPT ![o] = l] /\ used' = used /\ Settled[o] # NoLease
    BY <1>6 DEF Defer
  <2>2. Settled[o].start \in Nat /\ used[o] = now - Settled[o].start
    BY <1>2, <2>1, LeaseType DEF TableOK
  <2>3. l \in Leases /\ l.holder # "attempt" /\ l.start = Settled[o].start
    BY <1>2, <2>2 DEF Leases, PutOff, Greatest, Holders
  <2> HIDE DEF l
  <2>4. TableOK(lease', now, used')
    BY <1>2, <1>4, <2>1, <2>2, <2>3, TableUpdate
  <2> QED
    BY <1>1, <1>3, <1>4, <2>1, <2>4 DEF ClockInv
<1> QED
  BY <1>5, <1>6

\* Settling alone.
LEMMA SettleKeepsClockInv ==
  ASSUME ClockInv, Settle
  PROVE  ClockInv'
<1>1. /\ ~ Paused /\ pause' = NoPause /\ now' = now /\ used' = used
      /\ lease' = Settled
  BY DEF Settle
<1>2. TableOK(lease', ObserveNow', used)
  BY <1>1, SettledTable, NoPauseNext
<1> QED
  BY <1>1, <1>2 DEF ClockInv

\* What a holder does, which reads the raw clock and settles nothing.
LEMMA HolderKeepsClockInv ==
  ASSUME ClockInv, NEW o \in Offsets, NEW d \in Nat,
         Ack(o) \/ Extend(o) \/ Nack(o, d)
  PROVE  ClockInv'
<1> USE ClockConstants
<1>1. UNCHANGED <<now, pause, used>> /\ Held(o)
  BY DEF Ack, Extend, Nack
<1>2. ObserveNow' = ObserveNow
  BY <1>1 DEF ObserveNow, Paused
<1>3. TableOK(lease, ObserveNow, used) /\ now \in Nat /\ d \in Nat
  BY Observed DEF ClockInv
<1>4. /\ used \in [Offsets -> Nat]
      /\ lease[o] # NoLease
      /\ lease[o].start \in Nat /\ used[o] = ObserveNow - lease[o].start
  BY <1>1, <1>3, LeaseType DEF TableOK, ClockInv, Held
<1>5. SUFFICES TableOK(lease', ObserveNow, used)
  BY <1>1, <1>2 DEF ClockInv
<1>6. CASE Ack(o)
  BY <1>3, <1>6 DEF Ack, TableOK
<1>7. CASE Extend(o)
  <2>1. lease' = [lease EXCEPT ![o] = Extended(lease[o])]
    BY <1>7 DEF Extend
  <2>2. /\ Extended(lease[o]) \in Leases
        /\ Extended(lease[o]).start = lease[o].start
        /\ Extended(lease[o]).deadline <= Extended(lease[o]).start + HardCap
    <3>1. now + Visibility \in Nat /\ lease[o].start + HardCap \in Nat
      BY <1>3, <1>4
    <3>2. /\ Least(now + Visibility, lease[o].start + HardCap) \in Nat
          /\ Least(now + Visibility, lease[o].start + HardCap)
               <= lease[o].start + HardCap
      BY <3>1, LeastBounds
    <3> QED
      BY <1>4, <3>2 DEF Extended, Leases, Holders
  <2> QED
    BY <1>3, <1>4, <2>1, <2>2, TableUpdate
<1>8. CASE Nack(o, d)
  <2>1. lease' = [lease EXCEPT ![o] = Requeued(lease[o], d)]
    BY <1>8 DEF Nack
  <2>2. /\ Requeued(lease[o], d) \in Leases
        /\ Requeued(lease[o], d).start = lease[o].start
        /\ Requeued(lease[o], d).holder # "attempt"
    BY <1>3, <1>4 DEF Requeued, Leases, Holders
  <2> QED
    BY <1>3, <1>4, <2>1, <2>2, TableUpdate
<1> QED
  BY <1>6, <1>7, <1>8

\* Pausing, re-arming and resuming.
LEMMA PauseKeepsClockInv ==
  ASSUME ClockInv, NEW w \in Windows \union {0}, ApplyPause(w)
  PROVE  ClockInv'
<1> USE ClockConstants
<1>1. now' = now /\ used' = used /\ used \in [Offsets -> Nat] /\ w \in Nat
  BY DEF ApplyPause, ClockInv
<1>2. now \in Nat /\ ObserveNow \in Int /\ TableOK(lease, ObserveNow, used)
  BY Observed DEF ClockInv
<1>3. CASE w = 0
  <2>1. pause' = NoPause /\ ObserveNow' = now
    BY <1>1, <1>3, NoPauseNext DEF ApplyPause
  <2>2. TableOK(lease', now, used)
    <3>1. CASE Paused
      <4>1. /\ now - pause.at \in Nat
            /\ ObserveNow + (now - pause.at) = now
        BY <3>1, Observed DEF Paused
      <4> QED
        BY <1>2, <1>3, <3>1, <4>1, ShiftedTable DEF ApplyPause
    <3>2. CASE ~ Paused
      BY <1>3, <3>2, SettledTable DEF ApplyPause
    <3> QED
      BY <3>1, <3>2
  <2> QED
    BY <1>1, <2>1, <2>2 DEF ClockInv
<1>4. CASE w # 0
  <2>1. lease' = Settled /\ pause' = Armed(w)
    BY <1>4 DEF ApplyPause
  <2>2. CASE Paused
    <3>1. pause' = [at |-> pause.at, until |-> now + w] /\ pause' # NoPause
      BY <2>1, <2>2, Observed DEF Armed, NoPause, Paused
    <3>2. pause.at \in Nat /\ pause.at <= now /\ ObserveNow = pause.at
      BY <2>2, Observed DEF Paused
    <3>3. ObserveNow' = pause.at
      BY <1>1, <1>2, <1>4, <3>1 DEF ObserveNow, Paused
    <3> QED
      BY <1>1, <1>2, <2>1, <2>2, <3>1, <3>2, <3>3 DEF ClockInv, Settled
  <2>3. CASE ~ Paused
    <3>1. pause' = [at |-> now, until |-> now + w] /\ pause' # NoPause
      BY <1>2, <2>1, <2>3 DEF Armed, NoPause
    <3>2. ObserveNow' = now
      BY <1>1, <1>2, <1>4, <3>1 DEF ObserveNow, Paused
    <3> QED
      BY <1>1, <1>2, <2>1, <2>3, <3>1, <3>2, SettledTable DEF ClockInv
  <2> QED
    BY <2>2, <2>3
<1> QED
  BY <1>3, <1>4

\* Time passes: outside a pause every attempt ages, inside none does.
LEMMA TickKeepsClockInv ==
  ASSUME ClockInv, Tick
  PROVE  /\ ClockInv'
         /\ ObserveNow' = IF Paused THEN ObserveNow ELSE ObserveNow + 1
<1> USE ClockConstants
<1>1. /\ now' = now + 1 /\ now < MaxTime /\ UNCHANGED <<lease, pause>>
      /\ used' = [o \in Offsets |-> IF lease[o] # NoLease /\ ~ Paused
                                    THEN used[o] + 1 ELSE used[o]]
  BY DEF Tick
<1>2. now \in Nat /\ ObserveNow \in Int /\ TableOK(lease, ObserveNow, used)
  BY Observed DEF ClockInv
<1>3. used \in [Offsets -> Nat] /\ used' \in [Offsets -> Nat]
  BY <1>1 DEF ClockInv
<1>4. ObserveNow' = IF Paused THEN ObserveNow ELSE ObserveNow + 1
  <2>1. CASE pause = NoPause
    BY <1>1, <1>2, <2>1, Observed, NoPauseNext DEF Paused
  <2>2. CASE pause # NoPause
    <3>1. pause.at \in Nat /\ pause.until \in Nat
      BY <2>2, Observed
    <3> QED
      BY <1>1, <1>2, <2>2, <3>1 DEF ObserveNow, Paused
  <2> QED
    BY <2>1, <2>2
<1>5. ASSUME NEW o \in Offsets, lease[o] # NoLease
      PROVE  used'[o] = ObserveNow' - lease[o].start
  <2>1. used[o] \in Nat /\ used[o] = ObserveNow - lease[o].start
        /\ lease[o].start \in Nat
    BY <1>2, <1>3, <1>5, LeaseType DEF TableOK
  <2> QED
    BY <1>1, <1>2, <1>4, <1>5, <2>1
<1>6. TableOK(lease', ObserveNow', used')
  BY <1>1, <1>2, <1>5 DEF TableOK
<1>7. now' \in 0 .. MaxTime /\ now' \in Nat /\ now <= now'
  BY <1>1, <1>2
<1>8. \/ pause' = NoPause
      \/ /\ pause' \in [at : Nat, until : Nat]
         /\ pause'.at <= now' /\ pause'.at <= pause'.until
  BY <1>1, <1>2, <1>7 DEF ClockInv
<1> QED
  BY <1>3, <1>4, <1>6, <1>7, <1>8 DEF ClockInv

\* The empty table at time 0.
LEMMA InitClockInv == Init => ClockInv
BY ClockConstants DEF Init, ClockInv, TableOK, ObserveNow, Paused

\* Every step keeps the invariant.
LEMMA StepKeepsClockInv == ClockInv /\ [Next]_vars => ClockInv'
<1> SUFFICES ASSUME ClockInv, [Next]_vars PROVE ClockInv'
  OBVIOUS
<1> USE ClockConstants
<1>1. ASSUME NEW o \in Offsets, Claim(o) PROVE ClockInv'
  BY <1>1, PollKeepsClockInv
<1>2. ASSUME NEW o \in Offsets, Ack(o) \/ Extend(o) PROVE ClockInv'
  BY <1>2, HolderKeepsClockInv
<1>3. ASSUME NEW o \in Offsets, NEW d \in Delays, Nack(o, d) PROVE ClockInv'
  BY <1>3, HolderKeepsClockInv
<1>4. ASSUME NEW o \in Offsets, NEW d \in Delays, Defer(o, d) PROVE ClockInv'
  BY <1>4, PollKeepsClockInv
<1>5. ASSUME UNCHANGED vars PROVE ClockInv'
  BY <1>5 DEF vars, ClockInv, ObserveNow, Paused
<1> QED
  BY <1>1, <1>2, <1>3, <1>4, <1>5, SettleKeepsClockInv, PauseKeepsClockInv,
     TickKeepsClockInv DEF Next

\* The clock's state is well formed in every reachable state.
THEOREM ClockTypeCorrect == Spec => []TypeOK
<1>1. ClockInv => TypeOK
  <2> SUFFICES ASSUME ClockInv PROVE TypeOK
    OBVIOUS
  <2>1. ASSUME NEW o \in Offsets PROVE lease[o].start <= now
    <3>1. CASE lease[o] = NoLease
      BY <3>1, Observed DEF NoLease
    <3>2. CASE lease[o] # NoLease
      <4>1. /\ lease[o].start \in Nat /\ used[o] \in Nat
            /\ used[o] = ObserveNow - lease[o].start
        BY <3>2, LeaseType DEF ClockInv, TableOK
      <4> QED
        BY <4>1, Observed
    <3> QED
      BY <3>1, <3>2
  <2> QED
    BY <2>1 DEF ClockInv, TableOK, Leases, TypeOK
<1> QED
  BY <1>1, InitClockInv, StepKeepsClockInv, PTL DEF Spec

\* However often a consumer reports progress and whatever pauses intervene,
\* one delivery attempt is held for less than the hard cap of unpaused time,
\* unless the retry budget put its redelivery off.
THEOREM HardCapAlways == Spec => []HardCapHolds
<1>1. ClockInv => HardCapHolds
  <2> SUFFICES ASSUME ClockInv, NEW o \in Offsets, lease[o].holder = "attempt",
                      Left(o) > 0
               PROVE  used[o] < HardCap
    BY DEF HardCapHolds
  <2>1. /\ lease[o].start \in Nat /\ lease[o].deadline \in Nat
        /\ used[o] = ObserveNow - lease[o].start
        /\ lease[o].deadline <= lease[o].start + HardCap
    BY LeaseType DEF ClockInv, TableOK
  <2> QED
    BY <2>1, Observed, ClockConstants DEF Left
<1> QED
  BY <1>1, InitClockInv, StepKeepsClockInv, PTL DEF Spec

\* Shifting moves the deadline of every lease with its start.
LEMMA ShiftedDeadline ==
  ASSUME NEW delta, NEW o \in Offsets, lease[o] # NoLease
  PROVE  Shifted(delta)[o].deadline = lease[o].deadline + delta
BY DEF Shifted

\* Settling leaves to each lease what it had left.
LEMMA SettledLeft ==
  ASSUME ClockInv, ~ Paused, NEW o \in Offsets, lease[o] # NoLease
  PROVE  Settled[o].deadline - now = Left(o)
<1>1. lease[o].deadline \in Nat
  BY LeaseType DEF ClockInv, TableOK
<1>2. CASE pause = NoPause
  BY <1>2, Observed DEF Settled, Left
<1>3. CASE pause # NoPause
  <2>1. Settled[o].deadline = lease[o].deadline + (pause.until - pause.at)
    BY <1>3, ShiftedDeadline DEF Settled
  <2> QED
    BY <1>1, <1>3, <2>1, Observed DEF Left
<1> QED
  BY <1>2, <1>3

\* No pause, resume, re-arm or late settlement, and no time that passes inside
\* a pause, changes the visibility any consumer has left.
THEOREM PauseInvisible == Spec => PauseStopsTheClock
<1> DEFINE Same == \A o \in Offsets : lease[o] # NoLease => Left(o)' = Left(o)
           Idle == \/ Settle \/ (\E w \in Windows \union {0} : ApplyPause(w))
                   \/ (Tick /\ Paused)
<1>1. ClockInv /\ [Next]_vars => [Idle => Same]_vars
  <2> SUFFICES ASSUME ClockInv, Idle, NEW o \in Offsets, lease[o] # NoLease
               PROVE  Left(o)' = Left(o)
    OBVIOUS
  <2> USE ClockConstants
  <2>0. lease[o].deadline \in Nat /\ now \in Nat
    BY LeaseType, Observed DEF ClockInv, TableOK
  <2>1. CASE Settle
    <3>1. lease' = Settled /\ ~ Paused /\ now' = now /\ pause' = NoPause
      BY <2>1 DEF Settle
    <3> QED
      BY <3>1, SettledLeft, NoPauseNext DEF Left
  <2>2. ASSUME NEW w \in Windows \union {0}, ApplyPause(w)
        PROVE  Left(o)' = Left(o)
    <3>1. now' = now /\ w \in Nat
      BY <2>2 DEF ApplyPause
    <3>2. CASE ~ Paused
      <4>1. lease' = Settled
        BY <2>2, <3>2 DEF ApplyPause
      <4>2. CASE w = 0
        BY <2>2, <3>1, <3>2, <4>1, <4>2, SettledLeft, NoPauseNext
           DEF ApplyPause, Left
      <4>3. CASE w # 0
        <5>1. pause' = [at |-> now, until |-> now + w] /\ pause' # NoPause
          BY <2>0, <2>2, <3>2, <4>3 DEF ApplyPause, Armed, NoPause
        <5>2. ObserveNow' = now
          BY <2>0, <3>1, <4>3, <5>1 DEF ObserveNow, Paused
        <5> QED
          BY <3>2, <4>1, <5>2, SettledLeft DEF Left
      <4> QED
        BY <4>2, <4>3
    <3>3. CASE Paused
      <4>1. pause.at \in Nat /\ pause.at <= now /\ ObserveNow = pause.at
        BY <3>3, Observed DEF Paused
      <4>2. CASE w = 0
        <5>1. lease' = Shifted(now - pause.at) /\ ObserveNow' = now
          BY <2>2, <3>1, <3>3, <4>2, NoPauseNext DEF ApplyPause
        <5>2. lease'[o].deadline = lease[o].deadline + (now - pause.at)
          BY <5>1, ShiftedDeadline
        <5> QED
          BY <2>0, <4>1, <5>1, <5>2 DEF Left
      <4>3. CASE w # 0
        <5>1. /\ lease' = lease
              /\ pause' = [at |-> pause.at, until |-> now + w]
              /\ pause' # NoPause
          BY <2>2, <3>3, <4>1, <4>3 DEF ApplyPause, Settled, Armed, NoPause
        <5>2. ObserveNow' = pause.at
          BY <2>0, <3>1, <4>1, <4>3, <5>1 DEF ObserveNow, Paused
        <5> QED
          BY <4>1, <5>1, <5>2 DEF Left
      <4> QED
        BY <4>2, <4>3
    <3> QED
      BY <3>2, <3>3
  <2>3. CASE Tick /\ Paused
    <3>1. ObserveNow' = ObserveNow /\ lease' = lease
      BY <2>3, TickKeepsClockInv DEF Tick
    <3> QED
      BY <3>1 DEF Left
  <2> QED
    BY <2>1, <2>2, <2>3
<1> QED
  BY <1>1, InitClockInv, StepKeepsClockInv, PTL DEF Spec, PauseStopsTheClock
=============================================================================
