----------------------------- MODULE LeaseClock -----------------------------
(***************************************************************************)
(* The clock of a work-group's lease table (ironbus-core lease.rs) under   *)
(* the pause of ironbus-server engine.rs: visibility deadlines, the hard   *)
(* cap on a delivery attempt, extension, requeue with a delay, deferral by *)
(* the retry budget, and a pause that stops the clock for a window and     *)
(* settles lazily, when the next poll (or pause request) looks at it.      *)
(* Module WorkGroup abstracts all of this to "live" and "lapsed" leases.   *)
(***************************************************************************)
EXTENDS Integers

CONSTANTS
  Offsets,                  \* the offsets leased
  Visibility,               \* length of one visibility window
  HardCap,                  \* longest extension of one delivery attempt
  Delays,                   \* requeue delays (nack backoff, retry deferral)
  Windows,                  \* pause windows an operator may request
  MaxTime                   \* bound: the last instant

ASSUME ClockConstants ==
  /\ Visibility \in Nat \ {0} /\ HardCap \in Nat \ {0}
  /\ Delays \subseteq Nat /\ Windows \subseteq Nat \ {0} /\ MaxTime \in Nat

VARIABLES
  now,                      \* the monotonic clock
  lease,                    \* per offset: NoLease or the lease
  pause,                    \* NoPause or the pause window in force
  used                      \* history: unpaused time of the current attempt

vars == <<now, lease, pause, used>>

\* Whose token is valid for a lease: nobody's after a nack, that of the consumer
\* the attempt was claimed for or, after a deferral, still that consumer's.
Holders == {"none", "attempt", "deferred"}

NoLease == [start |-> -1, deadline |-> -1, holder |-> "none"]
NoPause == [at |-> -1, until |-> -1]

Least(a, b) == IF a <= b THEN a ELSE b
Greatest(a, b) == IF a >= b THEN a ELSE b
Paused == pause # NoPause /\ now < pause.until

-----------------------------------------------------------------------------

Shifted(delta) ==
  [o \in Offsets |->
     IF lease[o] = NoLease THEN NoLease
     ELSE [start |-> lease[o].start + delta,
           deadline |-> lease[o].deadline + delta,
           holder |-> lease[o].holder]]

\* Slip: the clock is shifted to the instant the settlement runs.
SettledShiftNow ==
  IF pause = NoPause \/ Paused THEN lease ELSE Shifted(now - pause.at)

\* Slip: a window that is still open is settled too.
SettledEarly ==
  IF pause = NoPause THEN lease ELSE Shifted(pause.until - pause.at)

\* The lease table after an elapsed window has been settled (pause_active).
Settled ==
  IF pause = NoPause \/ Paused THEN lease
  ELSE Shifted(pause.until - pause.at)

\* The instant at which a reader that cannot settle observes expiry.
ObserveNow ==
  CASE pause = NoPause -> now
    [] Paused          -> pause.at
    [] OTHER           -> now - (pause.until - pause.at)

Left(o) == lease[o].deadline - ObserveNow

\* A poll of o: nothing while paused, else settle and claim if claimable.  The
\* attempt gets one window, and never more than the hard cap.
Claim(o) ==
  /\ ~ Paused
  /\ LET table == Settled
     IN /\ table[o] = NoLease \/ now >= table[o].deadline
        /\ lease' = [table EXCEPT ![o] =
                       [start |-> now, holder |-> "attempt",
                        deadline |-> Least(now + Visibility, now + HardCap)]]
  /\ pause' = NoPause
  /\ used' = [used EXCEPT ![o] = 0]
  /\ UNCHANGED now

\* A poll that finds nothing to claim still settles an elapsed window, and so
\* does the idle-group sweep.
Settle ==
  /\ pause # NoPause /\ ~ Paused
  /\ lease' = Settled
  /\ pause' = NoPause
  /\ UNCHANGED <<now, used>>

\* The retry budget puts an expired lease off for at least one visibility
\* window.  Only the deadline moves: the generation stays, so the consumer whose
\* attempt expired owns the lease again, and the cap is not applied.
PutOff(l, d) ==
  [start |-> l.start, deadline |-> now + Greatest(d, Visibility),
   holder |-> IF l.holder = "none" THEN "none" ELSE "deferred"]

Defer(o, d) ==
  /\ ~ Paused
  /\ Settled[o] # NoLease /\ now >= Settled[o].deadline
  /\ lease' = [Settled EXCEPT ![o] = PutOff(Settled[o], d)]
  /\ pause' = NoPause
  /\ UNCHANGED <<now, used>>

\* The token of the consumer is of the lease's generation.
Held(o) == lease[o].holder # "none"

Ack(o) ==
  /\ Held(o)
  /\ lease' = [lease EXCEPT ![o] = NoLease]
  /\ UNCHANGED <<now, pause, used>>

\* Slip: an extension is not clamped to the cap.
ExtendedUnclamped(l) ==
  [start |-> l.start, deadline |-> now + Visibility, holder |-> "attempt"]

Extended(l) ==
  [start |-> l.start, holder |-> "attempt",
   deadline |-> Least(now + Visibility, l.start + HardCap)]

\* Progress reads the clock as it is: it neither settles an elapsed window nor
\* looks through a pause.
Extend(o) ==
  /\ Held(o)
  /\ now < lease[o].start + HardCap
  /\ lease' = [lease EXCEPT ![o] = Extended(lease[o])]
  /\ UNCHANGED <<now, pause, used>>

\* A fresh generation fences the holder and the message waits out the delay.
Requeued(l, d) == [start |-> l.start, deadline |-> now + d, holder |-> "none"]

Nack(o, d) ==
  /\ Held(o)
  /\ lease' = [lease EXCEPT ![o] = Requeued(lease[o], d)]
  /\ UNCHANGED <<now, pause, used>>

\* A second request in the middle of a pause only moves its end.
Armed(w) ==
  [at |-> IF Paused THEN pause.at ELSE now, until |-> now + w]

\* Pause for w, or resume at once for w = 0.
ApplyPause(w) ==
  /\ IF w = 0
     THEN /\ lease' = IF Paused THEN Shifted(now - pause.at) ELSE Settled
          /\ pause' = NoPause
     ELSE lease' = Settled /\ pause' = Armed(w)
  /\ UNCHANGED <<now, used>>

Tick ==
  /\ now < MaxTime
  /\ now' = now + 1
  /\ used' = [o \in Offsets |->
                IF lease[o] # NoLease /\ ~ Paused THEN used[o] + 1 ELSE used[o]]
  /\ UNCHANGED <<lease, pause>>

-----------------------------------------------------------------------------

Init ==
  /\ now = 0
  /\ lease = [o \in Offsets |-> NoLease]
  /\ pause = NoPause
  /\ used = [o \in Offsets |-> 0]

Next ==
  \/ \E o \in Offsets : Claim(o) \/ Ack(o) \/ Extend(o)
  \/ \E o \in Offsets, d \in Delays : Nack(o, d) \/ Defer(o, d)
  \/ \E w \in Windows \union {0} : ApplyPause(w)
  \/ Settle
  \/ Tick

Spec == Init /\ [][Next]_vars

-----------------------------------------------------------------------------

\* The clock's state: an attempt never starts, and a pause never begins, after
\* the present.
TypeOK ==
  /\ now \in 0 .. MaxTime
  /\ lease \in [Offsets -> [start : Nat, deadline : Nat, holder : Holders]
                           \union {NoLease}]
  /\ \A o \in Offsets : lease[o].start <= now
  /\ pause = NoPause \/ (pause \in [at : Nat, until : Nat] /\ pause.at <= now)
  /\ used \in [Offsets -> Nat]

\* A consumer keeps a delivery, however often it reports progress and whatever
\* pauses intervene, for less than the hard cap of UNPAUSED time (claim and
\* extend clamp to it).  Only a deferral gives a lease back past its cap.
HardCapHolds ==
  \A o \in Offsets :
    lease[o].holder = "attempt" /\ Left(o) > 0 => used[o] < HardCap

\* A pause is invisible to the leases: neither time passing in it, nor settling
\* it late, nor re-arming or ending it changes the visibility anyone has left.
PauseStopsTheClock ==
  [][(Settle \/ (\E w \in Windows \union {0} : ApplyPause(w)) \/ (Tick /\ Paused))
     => \A o \in Offsets : lease[o] # NoLease => Left(o)' = Left(o)]_vars
=============================================================================
