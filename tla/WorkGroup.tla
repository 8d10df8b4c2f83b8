----------------------------- MODULE WorkGroup -----------------------------
(***************************************************************************)
(* One work-group of the IronBus broker: the sessions that poll it, its    *)
(* ack cursor and lease table, the dead-letter sinks, and the checkpoints  *)
(* a restart resumes from (ironbus-server engine.rs and session.rs over    *)
(* ironbus-core lease.rs, cursor.rs and delivery.rs).                      *)
(*                                                                         *)
(* The engine runs on one actor thread, so an engine call is one step;     *)
(* sessions, the clock, the log's background work and crashes interleave   *)
(* between calls.  Time is abstract: a lease is live until the clock may   *)
(* lapse it (module LeaseClock keeps the deadlines).                       *)
(***************************************************************************)
EXTENDS Integers, FiniteSets, Sequences

CONSTANTS
  Sessions,                 \* connections subscribed to the group
  Kinds,                    \* what a record can be, a subset of AllKinds
  MaxInFlight,              \* delivery window above the committed offset
  MaxDeliver,               \* deliveries before a message is poison, 0 = never
  MaxRuns,                  \* acked-ahead run cap
  NumTargets,               \* dead-letter targets, appended to in this order
  Exchange,                 \* is a dead-letter exchange configured?
  ExpiredToExchange,        \* ... and does it take expired messages?
  Broadcast,                \* a group of one that may acknowledge cumulatively
  Throttle,                 \* can the retry budget defer redeliveries?
  SinkFails,                \* can a dead-letter append fail?
  CheckpointInterval,       \* committed offsets between cursor checkpoints
  FlushRedeliveries,        \* redeliveries that trigger an attempts flush
  MaxLen,                   \* bound: records published
  MaxGen,                   \* bound: lease generations issued per process
  MaxCrashes,               \* bound: broker crashes
  MaxReaps,                 \* bound: records force-reaped under disk pressure
  MaxHoles                  \* bound: records compacted away

AllKinds == {"plain", "other", "ttl", "delayed"}

ASSUME GroupConstants ==
  /\ Kinds \subseteq AllKinds
  /\ MaxInFlight \in Nat \ {0} /\ MaxDeliver \in Nat /\ MaxRuns \in Nat
  /\ NumTargets \in Nat \ {0}
  /\ {Exchange, ExpiredToExchange, Broadcast, Throttle, SinkFails}
       \subseteq BOOLEAN
  /\ CheckpointInterval \in Nat /\ FlushRedeliveries \in Nat
  /\ MaxLen \in Nat /\ MaxGen \in Nat /\ MaxCrashes \in Nat
  /\ MaxReaps \in Nat /\ MaxHoles \in Nat

VARIABLES
  log,                      \* durable records, the offset is the index - 1
  past,                     \* offsets whose TTL has passed
  due,                      \* offsets whose delay has elapsed
  holes,                    \* offsets compaction removed
  earliest,                 \* oldest retained offset
  acked,                    \* offsets the cursor holds as acknowledged
  lease,                    \* per offset: "none", "live" or "lapsed"
  gen,                      \* generation of the offset's lease
  count,                    \* delivery attempts: the lease's, else carried
  nextGen,                  \* next lease generation
  redelivered,              \* redelivery grants since the attempts flush
  pending,                  \* the stashed match of a filtered scan
  paused,                   \* is the group paused?
  leased,                   \* per session: the tokens it was handed
  dlq,                      \* per target: durable copies of each offset
  known,                    \* per target: in-memory set against second copies
  savedAcked,               \* cursor checkpoint
  savedCount,               \* attempts checkpoint
  lastSaved,                \* committed offset at the last cursor checkpoint
  lastCounts,               \* committed offset at the last attempts checkpoint
  crashes,
  \* History, read only by the properties:
  settled,                  \* offsets a session acknowledged or rejected
  granted,                  \* deliveries granted per offset, over all restarts
  unflushed,                \* of those, granted since the last attempts flush
  replay                    \* of those, forgotten by crashes

logVars == <<log, past, due, holes, earliest>>
groupVars == <<acked, lease, gen, count, nextGen, redelivered, pending, paused>>
diskVars == <<savedAcked, savedCount, lastSaved, lastCounts>>
dlqVars == <<dlq, known>>
ghostVars == <<settled, granted, unflushed, replay>>
vars == <<logVars, groupVars, leased, dlqVars, diskVars, crashes, ghostVars>>

Offsets == 0 .. MaxLen - 1
Targets == 1 .. NumTargets
Flushed == Len(log)
Kind(o) == log[o + 1]
Below(n) == {o \in Offsets : o < n}

NoGen == -1
NoToken == [gen |-> NoGen, nth |-> 0]
NoMatch == [off |-> -1, gen |-> NoGen, nth |-> 0]

-----------------------------------------------------------------------------
(* The cursor, as the set it implements (modules AckCursor and AckSet). *)

FirstGap(S) == CHOOSE n \in 0 .. MaxLen : n \notin S /\ Below(n) \subseteq S
Committed == FirstGap(acked)

\* The last offset of each acked-ahead run; their number is the run count.
RunEnds(S) == {o \in S : o > FirstGap(S) /\ o + 1 \notin S}

Sheds(o) ==
  /\ o \notin acked
  /\ Cardinality(RunEnds(acked)) >= MaxRuns
  /\ o # Committed
  /\ ~ \E p \in acked \ Below(Committed) : p + 1 = o \/ o + 1 = p

-----------------------------------------------------------------------------
(* The poll scan.  D is the set of redeliveries the retry budget defers.   *)

Window == {o \in Offsets : Committed <= o /\ o < Committed + MaxInFlight
                           /\ o < Flushed}

Lapsed == {o \in Window \ acked : lease[o] = "lapsed"}

Candidates(D) == {o \in Window \ (acked \union D) : lease[o] # "live"}

Expired(o) == o \in past
Matches(o) == Kind(o) # "other"
Undue(o) == Kind(o) = "delayed" /\ o \notin due

\* Claimed, then committed past inline: expired with no exchange to take it,
\* or not on the subject the group filters on.
PassOver(o) ==
  /\ o \notin holes
  /\ IF Expired(o) THEN ~ ExpiredToExchange ELSE ~ Matches(o)

PassedOver(D) ==
  {o \in Candidates(D) : \A p \in Candidates(D) : p <= o => PassOver(p)}

\* Where the scan stops: {} or the first candidate it does not pass over.
StopAt(D) ==
  {o \in Candidates(D) : /\ ~ PassOver(o)
                         /\ \A p \in Candidates(D) : p < o => PassOver(p)}

FilteredRun(D) == {o \in PassedOver(D) : ~ Expired(o)}

Deferrals ==
  {D \in SUBSET Lapsed : /\ D # {} => Throttle
                         /\ \A d \in D, o \in StopAt(D) : d < o}

CountGrant(o) ==
  /\ granted' = [granted EXCEPT ![o] = @ + 1]
  /\ unflushed' = [unflushed EXCEPT ![o] = @ + 1]

NoGrant == UNCHANGED <<granted, unflushed>>

\* Redeliveries are only ever compared with the flush threshold.
Capped(n) == IF n < FlushRedeliveries THEN n ELSE FlushRedeliveries

\* Slip: the generation counter runs past its end.
FreshGensUnchecked(n) == nextGen' = nextGen + n

\* Generations are refused rather than reused at the end of their space.
FreshGens(n) == nextGen + n <= MaxGen /\ nextGen' = nextGen + n

\* One scan: every candidate up to the stop is claimed under a generation of
\* its own and released again, except the one in `keep' (the last claimed).
\* Passed-over offsets and those in `more' become acknowledged.
Scan(D, keep, more) ==
  LET claimed == PassedOver(D) \union StopAt(D)
  IN /\ FreshGens(Cardinality(claimed))
     /\ redelivered' = Capped(redelivered
                               + Cardinality({o \in claimed : count[o] > 0}))
     /\ acked' = acked \union PassedOver(D) \union more
     /\ lease' = [o \in Offsets |-> IF o \in keep \union D THEN "live"
                                    ELSE IF o \in claimed THEN "none"
                                    ELSE lease[o]]
     /\ count' = [o \in Offsets |-> IF o \in keep THEN count[o] + 1
                                    ELSE IF o \in claimed THEN 0
                                    ELSE count[o]]
     /\ gen' = [o \in Offsets |-> IF o \in keep
                                  THEN nextGen + Cardinality(claimed) - 1
                                  ELSE IF o \in claimed THEN NoGen
                                  ELSE gen[o]]

\* The gate every scan passes: not paused, no stashed match to drain first,
\* and not below the oldest retained record.
MayScan == ~ paused /\ pending = NoMatch /\ Committed >= earliest

\* Slip: the cap is compared before this delivery is counted.
PoisonLate(o) == MaxDeliver # 0 /\ count[o] > MaxDeliver

\* Slip: only a group with an exchange dead-letters.
PoisonNeedsExchange(o) ==
  Exchange /\ MaxDeliver # 0 /\ count[o] + 1 > MaxDeliver

Poison(o) == MaxDeliver # 0 /\ count[o] + 1 > MaxDeliver

Deliverable(o) ==
  o \notin holes /\ ~ Expired(o) /\ Matches(o) /\ ~ Undue(o)

PollIdle(D) ==
  /\ MayScan
  /\ StopAt(D) = {}
  /\ D # {} \/ PassedOver(D) # {}
  /\ Scan(D, {}, {})
  /\ NoGrant
  /\ UNCHANGED <<pending, paused, leased, logVars, dlqVars, diskVars, crashes,
                 settled, replay>>

\* The message goes to the polling session, or is stashed for the next poll
\* when a run of filtered records has to be reported before it.
PollDeliver(s, D) ==
  /\ MayScan
  /\ \E o \in StopAt(D) :
       /\ Deliverable(o)
       /\ ~ Poison(o)
       /\ Scan(D, {o}, {})
       /\ CountGrant(o)
       /\ IF FilteredRun(D) = {}
          THEN /\ leased' = [leased EXCEPT ![s][o] =
                               [gen |-> gen'[o], nth |-> granted'[o]]]
               /\ UNCHANGED pending
          ELSE /\ pending' = [off |-> o, gen |-> gen'[o], nth |-> granted'[o]]
               /\ UNCHANGED leased
  /\ UNCHANGED <<paused, logVars, dlqVars, diskVars, crashes, settled, replay>>

PollStashed(s) ==
  /\ ~ paused
  /\ pending # NoMatch
  /\ leased' = [leased EXCEPT ![s][pending.off] =
                  [gen |-> pending.gen, nth |-> pending.nth]]
  /\ pending' = NoMatch
  /\ UNCHANGED <<acked, lease, gen, count, nextGen, redelivered, paused,
                 logVars, dlqVars, diskVars, crashes, ghostVars>>

\* The scan stops at a record it must not hand out now: one not due yet, or a
\* dead-letter candidate behind a filtered run that is reported first.
PollHold(D) ==
  /\ MayScan
  /\ \E o \in StopAt(D) :
       /\ o \notin holes
       /\ \/ Deliverable(o) /\ Poison(o) /\ FilteredRun(D) # {}
          \/ Expired(o) /\ FilteredRun(D) # {}
          \/ ~ Expired(o) /\ Undue(o)
  /\ Scan(D, {}, {})
  /\ NoGrant
  /\ UNCHANGED <<pending, paused, leased, logVars, dlqVars, diskVars, crashes,
                 settled, replay>>

\* A record compacted away satisfies the whole run up to the next survivor.
HoleRun(o) ==
  {p \in Offsets : o <= p /\ p < Flushed
                   /\ \A q \in Offsets : o <= q /\ q <= p => q \in holes}

PollHole(D) ==
  /\ MayScan
  /\ \E o \in StopAt(D) :
       /\ o \in holes
       /\ Scan(D, {}, HoleRun(o))
  /\ NoGrant
  /\ UNCHANGED <<pending, paused, leased, logVars, dlqVars, diskVars, crashes,
                 settled, replay>>

\* Slip: a target is appended to without looking for an earlier copy.
FanOutUnguarded(o, k) ==
  dlq' = [t \in Targets |-> IF t <= k THEN [dlq[t] EXCEPT ![o] = @ + 1]
                                      ELSE dlq[t]]

\* Append to the first k targets, each guarded by its own in-memory set.
FanOut(o, k) ==
  dlq' = [t \in Targets |->
            IF t <= k /\ o \notin known[t]
            THEN [dlq[t] EXCEPT ![o] = @ + 1] ELSE dlq[t]]

Noted(o, k) == [t \in Targets |-> IF t <= k THEN known[t] \union {o} ELSE known[t]]

Pruned(sets, low) == [t \in Targets |-> sets[t] \ Below(low)]

\* How many targets took the copy before a storage error, if there was one.
FanOuts == IF SinkFails THEN 0 .. NumTargets ELSE {NumTargets}

\* Slip: one durable copy is taken for all of them.
AnyCopy(k) == k >= 1

AllCopied(k) == k = NumTargets

\* Poison and exchange-bound expired messages: append to every target, then
\* commit past.  The lease is dropped first, whatever the appends do.
PollDeadLetter(D) ==
  /\ MayScan
  /\ FilteredRun(D) = {}
  /\ \E o \in StopAt(D), k \in FanOuts :
       /\ o \notin holes
       /\ Expired(o) \/ (Deliverable(o) /\ Poison(o))
       /\ Scan(D, {}, IF AllCopied(k) THEN {o} ELSE {})
       /\ FanOut(o, k)
       /\ known' = IF AllCopied(k) THEN Pruned(Noted(o, k), FirstGap(acked'))
                                    ELSE Noted(o, k)
  /\ NoGrant
  /\ UNCHANGED <<pending, paused, leased, logVars, diskVars, crashes, settled,
                 replay>>

\* The cursor fell below the oldest retained record: jump up to it with a new,
\* empty lease table.
PollTruncated(s) ==
  /\ ~ paused
  /\ pending = NoMatch
  /\ Committed < earliest
  /\ acked' = Below(earliest)
  /\ lease' = [o \in Offsets |-> "none"]
  /\ gen' = [o \in Offsets |-> NoGen]
  /\ count' = [o \in Offsets |-> 0]
  /\ nextGen' = 0
  /\ redelivered' = 0
  /\ leased' = [leased EXCEPT ![s] =
                  [o \in Offsets |-> IF o < earliest THEN NoToken ELSE @[o]]]
  /\ UNCHANGED <<pending, paused, logVars, dlqVars, diskVars, crashes,
                 ghostVars>>

Poll(s) ==
  \/ \E D \in Deferrals : \/ PollIdle(D) \/ PollDeliver(s, D) \/ PollHold(D)
                          \/ PollHole(D) \/ PollDeadLetter(D)
  \/ PollStashed(s)
  \/ PollTruncated(s)

-----------------------------------------------------------------------------
(* What a session does with a token it was handed.                         *)

Has(s, o) == leased[s][o] # NoToken

\* Slip: a token is checked against the offset only.
OwnsByOffset(s, o) == gen[o] # NoGen

Owns(s, o) == gen[o] # NoGen /\ gen[o] = leased[s][o].gen
Forget(s, o) == leased' = [leased EXCEPT ![s][o] = NoToken]

\* Slip: the cursor is acknowledged and the lease stays in the table.
SettleKeepsLease(s, o) ==
  /\ UNCHANGED <<lease, gen, count>>
  /\ acked' = IF Sheds(o) THEN acked ELSE acked \union {o}
  /\ settled' = settled \union {o}

\* The lease is freed first; at the run cap the cursor then drops the ack.
SettleOwned(s, o) ==
  /\ lease' = [lease EXCEPT ![o] = "none"]
  /\ gen' = [gen EXCEPT ![o] = NoGen]
  /\ count' = [count EXCEPT ![o] = 0]
  /\ acked' = IF Sheds(o) THEN acked ELSE acked \union {o}
  /\ settled' = settled \union {o}

Ack(s, o) ==
  /\ Has(s, o)
  /\ Owns(s, o)
  /\ SettleOwned(s, o)
  /\ Forget(s, o)
  /\ UNCHANGED <<nextGen, redelivered, pending, paused, logVars, dlqVars,
                 diskVars, crashes, granted, unflushed, replay>>

\* Every verb answers a stale token with "fenced" and forgets it.
Fenced(s, o) ==
  /\ Has(s, o)
  /\ ~ Owns(s, o)
  /\ Forget(s, o)
  /\ UNCHANGED <<logVars, groupVars, dlqVars, diskVars, crashes, ghostVars>>

\* Redeliver later under a fresh generation: at once ("lapsed") or delayed.
Nack(s, o) ==
  /\ Has(s, o)
  /\ Owns(s, o)
  /\ FreshGens(1)
  /\ gen' = [gen EXCEPT ![o] = nextGen]
  /\ \E l \in {"live", "lapsed"} : lease' = [lease EXCEPT ![o] = l]
  /\ Forget(s, o)
  /\ UNCHANGED <<acked, count, redelivered, pending, paused, logVars, dlqVars,
                 diskVars, crashes, ghostVars>>

\* Extending revives a lapsed lease nobody reclaimed, unless its cap passed.
Progress(s, o) ==
  /\ Has(s, o)
  /\ Owns(s, o)
  /\ lease[o] = "lapsed"
  /\ lease' = [lease EXCEPT ![o] = "live"]
  /\ UNCHANGED <<acked, gen, count, nextGen, redelivered, pending, paused,
                 leased, logVars, dlqVars, diskVars, crashes, ghostVars>>

Readable(o) == o \notin holes /\ o >= earliest

\* Reject: with an exchange, copy to every target before the ack.
Term(s, o) ==
  /\ Has(s, o)
  /\ Owns(s, o)
  /\ \E k \in FanOuts :
       LET copies == IF Exchange /\ Readable(o) THEN k ELSE 0
           ok == ~ (Exchange /\ Readable(o)) \/ AllCopied(k)
       IN /\ FanOut(o, copies)
          /\ IF ok
             THEN /\ SettleOwned(s, o)
                  /\ Forget(s, o)
                  /\ known' = Pruned(Noted(o, copies), FirstGap(acked'))
             ELSE /\ known' = Noted(o, copies)
                  /\ UNCHANGED <<lease, gen, count, acked, settled, leased>>
  /\ UNCHANGED <<nextGen, redelivered, pending, paused, logVars, diskVars,
                 crashes, granted, unflushed, replay>>

\* Slip: the leases below the new watermark are left to expire.
CommitKeepsLeases(upTo) ==
  /\ acked' = acked \union Below(upTo)
  /\ UNCHANGED <<lease, gen, count>>

CommitUpTo(upTo) ==
  /\ acked' = acked \union Below(upTo)
  /\ lease' = [o \in Offsets |-> IF o < upTo THEN "none" ELSE lease[o]]
  /\ gen' = [o \in Offsets |-> IF o < upTo THEN NoGen ELSE gen[o]]
  /\ count' = [o \in Offsets |-> IF o < upTo THEN 0 ELSE count[o]]

\* Broadcast groups only: everything below upTo is acknowledged at once.
CumulativeAck(s, upTo) ==
  /\ Broadcast
  /\ earliest <= upTo /\ upTo <= Flushed
  /\ CommitUpTo(upTo)
  /\ settled' = settled \union Below(upTo)
  /\ leased' = [leased EXCEPT ![s] =
                  [o \in Offsets |-> IF o < upTo THEN NoToken ELSE @[o]]]
  /\ UNCHANGED <<nextGen, redelivered, pending, paused, logVars, dlqVars,
                 diskVars, crashes, granted, unflushed, replay>>

\* A flow begins by dropping the tokens the session no longer actively holds.
FlowBegins(s) ==
  /\ leased' = [leased EXCEPT ![s] =
                  [o \in Offsets |-> IF Owns(s, o) /\ lease[o] = "live"
                                     THEN @[o] ELSE NoToken]]
  /\ UNCHANGED <<logVars, groupVars, dlqVars, diskVars, crashes, ghostVars>>

-----------------------------------------------------------------------------
(* Checkpoints, crash and restart. *)

\* Slip: the flush writes the leased counts and drops the carried ones.
LeasedCounts ==
  [o \in Offsets |-> IF lease[o] # "none" THEN count[o] ELSE 0]

\* Leased and carried counts alike.
AllCounts == [o \in Offsets |-> count[o]]

SaveCounts ==
  /\ savedCount' = AllCounts
  /\ lastCounts' = Committed
  /\ redelivered' = 0
  /\ unflushed' = [o \in Offsets |-> 0]

KeepCounts == UNCHANGED <<savedCount, lastCounts, redelivered, unflushed>>

SaveCursor == savedAcked' = acked /\ lastSaved' = Committed

HasAhead == acked # Below(Committed)
InFlight == {o \in Offsets : lease[o] # "none"}

\* A checkpoint is two files, each synced on its own: the cursor, then the
\* counts.  k says how many of the two writes are done when one fails or the
\* process dies; 2 is a checkpoint that went through.
Writes == 0 .. 2

\* The per-pass checkpoint: on cursor advance, else on redeliveries.
MaybeCheckpoint(k) ==
  /\ LET interval == IF CheckpointInterval = 0 THEN 1 ELSE CheckpointInterval
     IN IF Committed - lastSaved >= interval
        THEN /\ k >= 1
             /\ SaveCursor
             /\ IF k = 2 THEN SaveCounts ELSE KeepCounts
        ELSE /\ k = 2
             /\ FlushRedeliveries # 0 /\ redelivered >= FlushRedeliveries
             /\ SaveCounts
             /\ UNCHANGED <<savedAcked, lastSaved>>
  /\ UNCHANGED <<acked, lease, gen, count, nextGen, pending, paused, leased,
                 logVars, dlqVars, crashes, settled, granted, replay>>

\* The unconditional flush of a disconnect or a shutdown drain.
CheckpointCursor(k) ==
  /\ IF k >= 1 /\ (Committed > lastSaved \/ HasAhead)
     THEN SaveCursor ELSE UNCHANGED <<savedAcked, lastSaved>>
  /\ IF k = 2 /\ (Committed > lastCounts \/ InFlight # {})
     THEN SaveCounts ELSE KeepCounts

Disconnect(s, k) ==
  /\ leased' = [leased EXCEPT ![s] = [o \in Offsets |-> NoToken]]
  /\ CheckpointCursor(k)
  /\ UNCHANGED <<acked, lease, gen, count, nextGen, pending, paused, logVars,
                 dlqVars, crashes, settled, granted, replay>>

\* The checkpointed cursor, acked-ahead runs included.
Resumed == savedAcked

KnownAtOpen == [t \in Targets |-> {o \in Offsets : dlq[t][o] > 0}]

\* kill -9 and reopen: the cursor and the counts at or above it come back from
\* the checkpoints, leases and tokens are gone, and every target's set is
\* rebuilt from its own records.
Crash ==
  /\ crashes < MaxCrashes
  /\ crashes' = crashes + 1
  /\ acked' = Resumed
  /\ lease' = [o \in Offsets |-> "none"]
  /\ gen' = [o \in Offsets |-> NoGen]
  /\ count' = [o \in Offsets |->
                 IF FirstGap(Resumed) <= o /\ o < Flushed
                 THEN savedCount[o] ELSE 0]
  /\ nextGen' = 0
  /\ redelivered' = 0
  /\ pending' = NoMatch
  /\ paused' = FALSE
  /\ leased' = [s \in Sessions |-> [o \in Offsets |-> NoToken]]
  /\ known' = KnownAtOpen
  /\ lastSaved' = FirstGap(Resumed)
  /\ lastCounts' = FirstGap(Resumed)
  /\ replay' = [o \in Offsets |-> replay[o] + unflushed[o]]
  /\ unflushed' = [o \in Offsets |-> 0]
  /\ UNCHANGED <<logVars, dlq, savedAcked, savedCount, settled, granted>>

-----------------------------------------------------------------------------
(* The clock, the operator and the log around the group. *)

Lapse(o) ==
  /\ lease[o] = "live"
  /\ ~ paused
  /\ lease' = [lease EXCEPT ![o] = "lapsed"]
  /\ UNCHANGED <<acked, gen, count, nextGen, redelivered, pending, paused,
                 leased, logVars, dlqVars, diskVars, crashes, ghostVars>>

\* A pause stops the lease clock; it ends by request or when its window ends.
SetPause(p) ==
  /\ paused' = p
  /\ paused' # paused
  /\ UNCHANGED <<acked, lease, gen, count, nextGen, redelivered, pending,
                 leased, logVars, dlqVars, diskVars, crashes, ghostVars>>

Publish(k) ==
  /\ Flushed < MaxLen
  /\ log' = Append(log, k)
  /\ UNCHANGED <<past, due, holes, earliest, groupVars, leased, dlqVars,
                 diskVars, crashes, ghostVars>>

TtlPasses(o) ==
  /\ o < Flushed /\ Kind(o) = "ttl" /\ o \notin past
  /\ past' = past \union {o}
  /\ UNCHANGED <<log, due, holes, earliest, groupVars, leased, dlqVars,
                 diskVars, crashes, ghostVars>>

BecomesDue(o) ==
  /\ o < Flushed /\ Kind(o) = "delayed" /\ o \notin due
  /\ due' = due \union {o}
  /\ UNCHANGED <<log, past, holes, earliest, groupVars, leased, dlqVars,
                 diskVars, crashes, ghostVars>>

\* A later record with the same key superseded o; the newest one never is.
Compact(o) ==
  /\ Cardinality(holes) < MaxHoles
  /\ earliest <= o /\ o + 1 < Flushed /\ o \notin holes
  /\ holes' = holes \union {o}
  /\ UNCHANGED <<log, past, due, earliest, groupVars, leased, dlqVars,
                 diskVars, crashes, ghostVars>>

\* Disk pressure under drop-oldest reaps records no matter who still needs them.
ForceReap ==
  /\ earliest < MaxReaps /\ earliest < Flushed
  /\ earliest' = earliest + 1
  /\ UNCHANGED <<log, past, due, holes, groupVars, leased, dlqVars, diskVars,
                 crashes, ghostVars>>

-----------------------------------------------------------------------------

Init ==
  /\ log = <<>> /\ past = {} /\ due = {} /\ holes = {} /\ earliest = 0
  /\ acked = {}
  /\ lease = [o \in Offsets |-> "none"]
  /\ gen = [o \in Offsets |-> NoGen]
  /\ count = [o \in Offsets |-> 0]
  /\ nextGen = 0 /\ redelivered = 0 /\ pending = NoMatch /\ paused = FALSE
  /\ leased = [s \in Sessions |-> [o \in Offsets |-> NoToken]]
  /\ dlq = [t \in Targets |-> [o \in Offsets |-> 0]]
  /\ known = [t \in Targets |-> {}]
  /\ savedAcked = {} /\ savedCount = [o \in Offsets |-> 0]
  /\ lastSaved = 0 /\ lastCounts = 0 /\ crashes = 0
  /\ settled = {}
  /\ granted = [o \in Offsets |-> 0]
  /\ unflushed = [o \in Offsets |-> 0]
  /\ replay = [o \in Offsets |-> 0]

SessionStep(s) ==
  \/ Poll(s) \/ FlowBegins(s)
  \/ \E k \in Writes : Disconnect(s, k)
  \/ \E o \in Offsets : \/ Ack(s, o) \/ Fenced(s, o) \/ Nack(s, o)
                        \/ Progress(s, o) \/ Term(s, o)
  \/ \E n \in 0 .. MaxLen : CumulativeAck(s, n)

Environment ==
  \/ Crash \/ ForceReap
  \/ \E k \in Writes : MaybeCheckpoint(k)
  \/ \E o \in Offsets : Lapse(o) \/ TtlPasses(o) \/ BecomesDue(o) \/ Compact(o)
  \/ \E p \in BOOLEAN : SetPause(p)
  \/ \E k \in Kinds : Publish(k)

Next == Environment \/ \E s \in Sessions : SessionStep(s)

Spec == Init /\ [][Next]_vars

\* Consumers keep polling and a pause window ends.  Strong fairness of Lapse: a
\* pause stops the lease clock and resumes it with what was left, so pauses only
\* delay a deadline.  Strong fairness of Poll: progress reports revive a lapsed
\* lease only up to its hard cap, so they cannot hide it from every poll.
Fairness ==
  /\ \A s \in Sessions : SF_vars(Poll(s))
  /\ \A o \in Offsets : SF_vars(Lapse(o))
  /\ WF_vars(SetPause(FALSE))

FairSpec == Spec /\ Fairness

-----------------------------------------------------------------------------

\* The types of the state; lease generations never run past their end.
TypeOK ==
  /\ log \in Seq(Kinds) /\ Flushed <= MaxLen
  /\ past \subseteq Offsets /\ due \subseteq Offsets
  /\ holes \subseteq Offsets /\ earliest \in 0 .. MaxLen
  /\ acked \subseteq Offsets
  /\ lease \in [Offsets -> {"none", "live", "lapsed"}]
  /\ gen \in [Offsets -> Nat \union {NoGen}] /\ count \in [Offsets -> Nat]
  /\ nextGen \in 0 .. MaxGen /\ redelivered \in Nat
  /\ pending = NoMatch
     \/ pending \in [off : Offsets, gen : Nat, nth : Nat]
  /\ paused \in BOOLEAN
  /\ leased \in [Sessions -> [Offsets -> [gen : Nat \union {NoGen}, nth : Nat]]]
  /\ dlq \in [Targets -> [Offsets -> Nat]]
  /\ known \in [Targets -> SUBSET Offsets]
  /\ savedAcked \subseteq Offsets /\ savedCount \in [Offsets -> Nat]
  /\ lastSaved \in 0 .. MaxLen /\ lastCounts \in 0 .. MaxLen
  /\ crashes \in 0 .. MaxCrashes
  /\ settled \subseteq Offsets
  /\ granted \in [Offsets -> Nat] /\ unflushed \in [Offsets -> Nat]
  /\ replay \in [Offsets -> Nat]

\* Why an offset may be counted as done without anyone acknowledging it.
Accounted(o) ==
  \/ o \in settled
  \/ o < earliest
  \/ o \in holes
  \/ o \in past
  \/ o < Flushed /\ ~ Matches(o)
  \/ \A t \in Targets : dlq[t][o] > 0

\* No record is skipped silently: an offset the cursor (or the checkpoint it
\* may resume from) counts as done was acknowledged or rejected by a session,
\* force-reaped, compacted away, expired, off the group's subject, or is
\* durable in every dead-letter target.
NoSilentSkip == \A o \in acked \union savedAcked : Accounted(o)

\* A target holds at most one copy of a message, across redeliveries, storage
\* errors between targets, pruning and restarts.
OneCopyPerTarget == \A t \in Targets, o \in Offsets : dlq[t][o] <= 1

\* Only the session handed the latest delivery of an offset can settle it: a
\* late ack, nack or reject of an earlier delivery is fenced.
OnlyLatestHolderSettles ==
  \A s \in Sessions, o \in Offsets :
    Has(s, o) /\ Owns(s, o) => leased[s][o].nth = granted[o]

DeadLettered(o) == \E t \in Targets : dlq[t][o] > 0

\* MaxDeliver holds across restarts: until it is settled or dead-lettered, an
\* offset is delivered at most MaxDeliver times plus once for each delivery a
\* crash forgot before it was flushed.
DeliveryBudget ==
  MaxDeliver # 0 =>
    \A o \in Offsets \ settled :
      ~ DeadLettered(o) => granted[o] <= MaxDeliver + replay[o]

\* A durable attempt count is only ever raised while its offset is unsettled.
DurableCountNeverRegresses ==
  [][\A o \in Offsets :
       o \notin acked => savedCount'[o] >= savedCount[o]]_vars

\* In-flight leases stay within the window above the committed offset, which
\* is what bounds the lease table's memory.
InFlightWithinWindow ==
  \A o \in InFlight : Committed <= o /\ o < Committed + MaxInFlight

\* No message blocks the group for ever: whatever the consumers do with their
\* deliveries, every record is in the end acknowledged, dead-lettered or cut.
EventuallyDone == \A o \in Offsets : (o < Flushed) ~> (o \in acked)
=============================================================================
