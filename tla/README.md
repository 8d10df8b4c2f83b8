# A TLA+ verification of IronBus

IronBus is a durable message broker: producers append records to a segmented
log, consumers in work-groups lease, acknowledge or reject them, and a cluster
mode replicates the log to a quorum. This directory holds TLA+ modules that
model the parts of the broker where correctness depends on the order of events,
the TLC configurations that check them on small instances, and TLAPS proofs of
the properties that matter most. `PROJECT.json` is the machine-readable index:
which definition models which lines, every run, every mutant, the findings, the
hazards and the theorems.

Run a configuration with `tlc -config X.cfg M` and the proofs with
`tlapm M.tla`, M one of the proof modules below.

## Inventory of the system

| part | state | operations | interacts with | what is hard |
|---|---|---|---|---|
| ack cursor (`ironbus-core/cursor.rs`) | watermark, run list of offsets acked ahead | ack (bounded), cumulative ack, snapshot, resume | engine | out-of-order acks, the run cap, restart from an older snapshot |
| lease table (`ironbus-core/lease.rs`) | per offset: generation, deadline, attempt start, count; carried counts | claim, ack, extend, nack, defer, shift | engine, clock | late acks, hard cap, pause |
| delivery and attempts (`delivery.rs`, `attempt.rs`) | caps, attempt snapshot | disposition, snapshot | engine | poison across restarts |
| work-group engine (`ironbus-server/engine.rs`) | cursor + leases + pending match + pause per group, checkpoints | poll, ack, nack, progress, term, cumulative ack, checkpoint, pause | session, log, sinks | the poll scan, two checkpoints that are not atomic together |
| session (`session.rs`, `server.rs`) | tokens handed to the connection | flow, ack verbs, disconnect | engine through the actor | stale tokens |
| dead-letter sinks (`ironbus-storage/dlq.rs`) | a log per target and an in-memory set | append, prune, rebuild | engine | storage error between two targets, restart |
| append actor and pipeline (`actor.rs`) | parked replies, in-flight barrier, channel, batch | produce, job, shutdown, completion | log, flusher, clients | overlap of appends with a barrier in flight, wedge, freeze |
| flusher (`flusher.rs`) | the barrier it runs | fdatasync | actor, storage stack | failure or death mid-barrier |
| log and segments (`log.rs`, `segment.rs`) | heads, byte meter, active segment, writer state | append, roll, sync, external sync, recover | actor, file system | deferred create, failed barrier, recovery |
| compaction, retention, cold tier | sealed segments | rewrite, swap, reap, offload | log, consumers | crash mid-swap, readers of removed records |
| checkpoints (`checkpoint.rs`) | two slots | write, open | engine | torn slot, failed sync, power cut |
| producer sequences, dedup, transactions, confirms | per-producer high water, half messages, tombstones | check/record, prepare/resolve, back-check | engine | retry after restart, crash between two logs |
| replication data plane (`cluster/isr.rs`, `client_ack.rs`, `dataplane.rs`, `serve.rs`) | ISR frontiers, committed bar, parked client acks, replica logs | produce, fetch, report, release, purge, adopt/heal | peers, connection threads | lost reports, late fetches, restarts, acks released by another connection's event |
| metadata Raft, leader lease, membership | placement, leases, epochs | elect, place, re-replicate | data plane | stale leaders |
| geo, leaf, federation | resume positions | mirror loops | remote brokers | retries |
| subject matching, placement, partitioning | tries and tables | pure functions | engine | none beyond the algorithm |
| auth, tenants, TLS, metrics, codecs, CLI, clients, SDK | configuration, counters | — | — | not behaviour of the protocol |

How they interact: connection threads turn frames into commands on one channel;
the append actor alone owns the engine and the log and runs each command to its
end, so an engine call is atomic with respect to other engine calls. What
interleaves is everything outside that thread: other connections between two
calls, the flusher thread, the clock, the background work on the log, storage
failures and crashes.

## Modules

    OffsetSpace     the offsets, shared by the two cursor modules
    AckSet          what the cursor promises: a set of acknowledged offsets
    SlotFile        the two-slot checkpoint file under failed and torn writes,
                    kills and power cuts
    AckCursor       the run-list cursor kept in a SlotFile; implements AckSet
    LeaseClock      deadlines, hard cap and pauses of the lease table
    WorkGroup       sessions + cursor + leases + sinks + checkpoints + crashes
    MCWorkGroup     WorkGroup with the symmetry of its sessions, for TLC
    CommitPipeline  append actor + flusher + log + recovery, clients and faults
    Transactions    half messages: lifecycle, txn log, real log, dedup snapshot
    Replication     leader gate + follower fetch + client acks of a partition
    *_proofs        the theorems about the module of that name

`WorkGroup` composes the results of the first three: it uses the cursor as the
set that `AckCursor` is shown to implement, and reduces the lease clock to
"live" and "lapsed" leases, which `LeaseClock` treats in full. `CommitPipeline`
is the produce side; `WorkGroup` sees it as `Publish`, a durable append (readers
are bounded by the durable head, which is `VisibleIsDurable`). `Replication`
sees it the same way, an append with its fsync (of the leader; a follower's
batch is appended and synced in steps that can fail). `Transactions` keeps the log's
memory, file and platter apart, because its commit protocol is about the order
of writes to three files; the other producers' group commit is one step there.

Definitions whose comment begins with "Slip" (or "A slip") are not part of the
specifications: they are the plausible bugs the mutants put in place of a
definition to show that each property can fail.

### AckSet, SlotFile and AckCursor

`AckCursor` follows `cursor.rs` operation by operation: `Insert` with its left,
right and bridging merges, `Advance`, the shed decision of `ack_bounded`,
`Clip` and `AbsorbAll` of `commit_up_to`. Its snapshot, which keeps only the
runs that fit the slot, is written to a `SlotFile` and validated and clamped on
resume. `SlotFile` is `checkpoint.rs`: a write goes to the slot its sequence
number selects and is synced; a write can fail before or after it reached the
page cache, a kill keeps the cache, a power cut leaves in each slot any content
written since its last sync, or a torn one. `open` believes the valid slot with
the higher number. In `AckSet` the saved snapshot is therefore a set of
candidates, of which a restart picks one. `MaxOffset` stands for `u64::MAX`, the
offset the code refuses to acknowledge. `ImplementsAckSet` maps the watermark
and the runs to the set of acknowledged offsets, and the slots a crash could
recover to the candidates.

### LeaseClock

One variable per fact of the code: the monotonic clock, the leases (attempt
start, deadline, whose token can still act on it), and the pause window. A nack
takes the lease from its holder (a fresh generation); a deferral by the retry
budget (`PutOff`, code: `defer_redelivery`) moves only the deadline, so the
consumer whose attempt expired owns the lease again, past the cap that claims
and extensions keep to. `HardCapHolds` therefore speaks of leases whose deadline
a claim or an extension set.
The pause is settled lazily by `Settled` (code: `pause_active`), which every
poll runs first; `Extend` (code: `progress_in`) does not, and reads the raw
clock, exactly as the code does. `used` is history: the unpaused time of the
current attempt.

### WorkGroup

State: the durable log and what happened to it (`past`, `due`, `holes`,
`earliest`), the group (`acked`, `lease`, `gen`, `count`, `nextGen`,
`redelivered`, `pending`, `paused`), the sessions' tokens, the sinks with their
in-memory sets, and the two checkpoints. One poll is one action: `Scan` claims
the candidates in offset order, passes over expired and non-matching records,
and stops at the first one that is delivered, stashed, held, dead-lettered or a
compaction hole. The other actions are the settling verbs, `FlowBegins`,
`Disconnect`, the two kinds of checkpoint, `Crash` with the reopen that
follows, and the environment (clock, operator, log). A checkpoint is two files,
the cursor's and the attempt counts', each written and synced on its own: the
parameter `k` of `MaybeCheckpoint` and `CheckpointCursor` says how many of the
writes took place before the process stopped or a write failed. One write is
atomic (`SlotFile` shows what the file makes of it), an append to a sink is
atomic, and the fan-out stops at the first failing target. `settled`,
`granted`, `unflushed` and `replay` are history for the properties.

### CommitPipeline

The actor's helpers (`ReleaseReady`, `MaybeIssue`, `OnCompletion`,
`CommitInline`, `ReconcileFreeze`, `AppendRecord`, `Roll`, `SyncLog`,
`CompleteTicket`, ...) are operators on the world the actor owns, composed in
the order the code calls them; an action ends where another thread, a client or
a crash can get in between. A record is one unit of dirty bytes, `MaxSeg` of
them fill a segment. `disk` is what is on the platter and `dropped` what a
failed barrier may have dropped from the page cache; both are external and
follow the assumptions in `docs/FMEA.md`. The durability level is the default
`sync`; the relaxed levels run the legacy loop, which is not modelled. `Kill`
(the process dies, the page cache stays) is not taken after a failed barrier
dropped pages: recovery would count them, still readable in the cache, as
durable (see the list of disagreements).

### Transactions

The lifecycle table and the back-check book in memory, the txn log (`half`,
`op`, `back`), the real log with what is written and what is synced, and the
dedup high-waters in memory (`seen`) and in their checkpoint file. A commit is
the code's chain A (append), A2 (`FlushDedup`), A3 (`WritePending`,
`SyncRecord`), B (`MarkCommitted`); the engine thread runs it without letting
other commands in, but a crash or a fault can strike between any two steps, and
a failed step puts the transaction back to prepared exactly as far as the code
does. `file` is the set of snapshots a crash could recover, as in `AckSet`.
A write of the txn log can fail in its append, which leaves the writer as it
was, or in its sync, which freezes that log until the restart (`txnFrozen`)
whether the record reached the disk or not; from then on every prepare, marker
and recorded attempt is refused, and a back-check tick ends there, before the
terminal default. Ticks are driven by connections with a registered listener
(`listening`), which come and go (`Listen`, `HangUp`); whether the check is
routed to the transaction's own producer is a choice, because its group may have
no listener. `Crash` replays the txn log, restores and clamps the high-waters
and enrols what is still prepared. `told` and `asked` are history.

### Replication

One partition. The leader appends to its engine log and offers the sealed part;
each follower has a replica log, a fetch link (`off`, `adopt`, `steady`), and
responses and reports under way, which can be lost, overtaken or late. A replica
log is what was appended (`rlog`) and how much of it is on disk (`synced`). A
batch is appended and then synced; when a sync fails (`SyncFails`: the one that
ends the batch, or that of a roll in the middle of it) the appended records stay,
the writer is frozen until the process restarts and the link is dropped. The
report of a round names the appended end, also after a round with no records,
exactly as `report_from_follower` does. `failed` is history: the nodes that ever
failed a sync. The gate
holds the ISR frontiers and the parked acks; every event that drives a release
in the code (a produce, a retry from the dedup index, a follower's report, an
eviction for lag) is its own action and ends with the release it triggers. The
committed bar is checkpointed into the metadata group (external) and learned
late by each node. A follower that restarts or reconnects adopts its replica
after the content checks of `serve.rs`, or discards it. `client` is each
producer connection with the replies it is owed; released acks are written from
its outbox only in a pass over bytes the client sent (`DrainReleased`), and a
disconnect purges what it parked. Every content is distinct (node and position), so a diverged record
would show.

## Runs

Passing runs:

| run | instance | shows |
|---|---|---|
| `cursor` | offsets 0..4, run cap 1, 1 run per slot, 3 checkpoint writes, 2 faults | the run list on its file implements the set; no sequence of failed and torn writes, kills and power cuts loses the confirmed snapshot |
| `lease_clock` | 2 offsets, time 0..8, cap 3, visibility 2, pauses of 1 and 3 | a pause can begin, be re-armed, elapse and be settled late inside one attempt |
| `wg_delivery` | 2 sessions, 2 delayed records, 4 generations, 1 crash | fencing, budget across the restart, both checkpoints |
| `wg_deadletter` | 2 targets that can fail, exchange, TTL, filter, cumulative acks, run cap 0, retry budget, 2 generations per lease table, 2 crashes | all-or-nothing commit and one copy per target; filtered runs and the stashed match, shedding and deferral |
| `wg_live` | 2 records, 1 crash, 1 reap, 1 hole, fair | the log moving under the group; no message blocks it for ever |
| `cp_faults` | 5 commands, segment of 3, window of 2, 2 faults of every kind, 1 power cut, shutdown and dropped handles | all interleavings of barriers, rolls, jobs and appends, recovery at every point, nobody left waiting; no linger |
| `cp_live` | 4 commands in one segment, linger, throttle and headroom of 2, a failed barrier drops pages, 1 kill, fair | nothing acked is lost and every produce is answered |
| `rep` | 2 nodes, 1 connection, 3 records, 2 requests, `min_isr` 2, lag bound 1, parked cap 1, two responses under way, 1 fault, fair | no false ack but for a follower whose fsync failed, the bar no further ahead of the copies, replicas are prefixes and give nothing up, acks leave the gate, followers catch up |
| `txn` | 2 transactions, 2 other records, 3 attempts, 1 crash or fault of any kind at any step, listeners come and go, fair | exactly one record per committed transaction, no flipped outcome, nothing in doubt for ever while a listener stays and the txn log is not frozen |

`NoSilentSkip` and `OneCopyPerTarget` are checked in one run only, because they
are proved for every configuration (compaction holes, reaps and delayed records
included).

Runs that end in a violation show a disagreement between the code and what its
documentation or comments say; the quoted lines are in `PROJECT.json`:

| run | disagreement |
|---|---|
| `rep_v_fsync` | a follower whose fsync failed reports the records it only appended; the leader acknowledges them with fewer than `min_isr` copies on disk |
| `rep_v_route` | a produce releases parked acks of other connections and writes them on its own |
| `txn_v_empty` | a clamped high-water stays in its file; after a second crash it is valid again and a commit is acknowledged without its record |

More were met while modelling and have no run of their own. The first group is
reproduced by the constants given:

- Generations: after a truncation the lease table is rebuilt (`engine.rs:12173`)
  and reissues generations that sessions still hold. `OnlyLatestHolderSettles`
  fails in `wg_delivery` with `Kinds = {"plain"}`, `MaxGen = 5`, `MaxReaps = 1`;
  `docs/INVARIANTS.md:347` says each grant stamps a strictly increasing one.
- Wedge: a roll with a deferred create during the linger leaves covered replies
  parked (`actor.rs:3366`, against the no-wedge lemma at `actor.rs:3043`).
  `NoWedge` fails in `cp_faults` with `MaxCommands = 4`, `Kinds = {"produce"}`,
  `MaxDirty = 4`, `Linger = TRUE`, `Faults = {"create"}`, one fault, no cut.
- Restart: recovery calls everything it reads durable and syncs only when it
  cuts a tail (`log.rs:1990`), so after a kill in a full segment a retried
  produce is acknowledged from the page cache, and the same holds when dropped
  pages precede the kill. `AckImpliesDurable` fails with `MaxCommands = 4`,
  `Kinds = {"produce", "dup"}`, `MaxSeg = 2`, `MaxDirty = 2`, `Linger = TRUE`, no
  faults, one kill; `docs/DURABILITY.md:28` says a power loss never loses an
  acknowledged record.
- `DurableCountNeverRegresses` fails with off-subject records and a checkpoint
  interval of 2 (`wg_delivery` with `Kinds = {"plain", "other"}`,
  `CheckpointInterval = 2`, `MaxGen = 5`): a poison match behind a replayed
  filtered run is released together with its carried count (`engine.rs:12367`;
  `docs/DURABILITY.md:360` says a recovered count never regresses). With the
  same interval, an attempts flush between a dead-letter and the cursor
  checkpoint (`engine.rs:6087`) gives a dead-lettered message a second budget
  after a crash.
- An acknowledgement the cursor sheds at its run cap forgets the attempt count,
  so the budget restarts (`wg_delivery` therefore has a cap of 4), and the next
  checkpoint lowers the durable count: `DurableCountNeverRegresses` fails with
  `MaxRuns = 1`, `MaxLen = 4`, `MaxInFlight = 4`, `Kinds = {"plain"}`.
- The same happens when a dead-letter append fails: the lease is settled and its
  count dropped before the append (`engine.rs:12392`). `DeliveryBudget` fails in
  `wg_delivery` with `Kinds = {"plain"}`, `MaxDeliver = 1`, `SinkFails = TRUE`.
- With two holes in four records (`wg_delivery` with `MaxLen = 4`, `MaxHoles = 2`)
  `InFlightWithinWindow` fails: a compaction hole acknowledges the removed run
  in the cursor and frees only the lease it just claimed (`engine.rs:12270`;
  `lease.rs:22` says the table is bounded by max-in-flight).
- `AckImpliesDurable` fails with `DropsPages` and a flusher fault as soon as the
  segment can roll or a job can sync (`MaxSeg = 2`, or "job" in the kinds of
  `cp_live`): the second barrier on the same descriptor succeeds, and releases
  the parked acks before the failure is seen (`segment.rs:1554`; FMEA F2 says a
  failed sync is never retried and trusted).
- Checkpoint file: with `CutAfterKill = TRUE` `CrashSafe` fails. `open` trusts a
  slot it read back from a killed writer's cache; the next write then goes to
  the other slot, and a power cut can tear both (`checkpoint.rs:486` says a
  crash tears at most one).
- Transactions, with two faults or a fault and a crash: a resolve whose marker
  failed is acknowledged on retry with no durable marker (`engine.rs:8499` says
  "the op-marker is durable") and a crash then lets the outcome flip
  (`MaxMishaps = 2`, `Faults = {"marker"}`: `OutcomeNeverFlips`); a failed A2
  followed by the group commit and a crash makes the redrive append twice
  (`Faults = {"checkpoint"}`: `AtMostOnce`). Already with one crash between A3
  and B, a rollback or the terminal default leaves the record of a rolled-back
  transaction in the stream (`engine.rs:8132` says it "is never written to the
  real stream at all"). Without storage faults, `AtMostOnce`,
  `OutcomeNeverFlips` and `BackChecksBounded` hold through three crashes.

And these the models carry, or lie outside them:

- A failed sync of the txn log leaves every prepared transaction in doubt until
  the broker restarts: the tick's error ends it before the terminal default
  (`engine.rs:8696`) and is dropped (`session.rs:7123`), where the comment says
  that the next scan retries; the client's documentation says that no half
  message is ever stuck (`ironbus-client/src/lib.rs:3593`). `Settled` therefore
  speaks of a txn log that is not frozen and of a listener that stays connected.
- A deferred redelivery gives the consumer whose attempt expired its lease back,
  past the hard cap (`lease.rs:529`; the comment there says that no holder needs
  to be fenced). It may still acknowledge; `Extend` is refused past the cap.
- A released ack waits in the outbox of a producer that stays silent
  (`session.rs:1312` runs only when bytes arrive) and goes with the connection
  after its idle timeout.
- A progress report inside a pause is measured on the running clock
  (`engine.rs:15794`), so a holder can have more than one visibility window left
  on the stopped one. `LeaseClock` has this behaviour.
- A connection's replies are not in request order once some are parked
  (`session.rs:7438`), although the client pairs them by position
  (`ironbus-client/src/lib.rs:2052`).
- The last record of an open segment is replicated only after the next roll, so
  a quorum ack waits for it; `ParkedAcksLeave` speaks of sealed records.
- A promoted node serves its own engine log, not the replica log it fetched,
  while `ironbus-cli/src/main.rs:9450` promises that failover never loses
  committed data. Promotion is not modelled.
- A heal that was refused or aborted goes on (`serve.rs`, adopt), and the content
  check cannot see divergence in the leader's unsealed tail.
- High-waters of client producers reach the disk only with the cursor
  checkpoints, so an unclean crash forgets them. The routing owner of a
  transaction is lost at a restart, so no check is routed to its producer
  afterwards; the terminal default still resolves it, if any listener drives the
  scans.

The passing runs stay off those paths by their constants (no reaps in
`wg_delivery`, interval 1 there, no linger together with create faults, one
segment in `cp_live`, no `CutAfterKill`, one mishap in `txn`), so that they
still say everything else.

### Bounds

Every bound is a constant with "bound:" in its comment. The hard cases need few
objects: fencing needs one offset, two sessions and two generations; a bridging
merge three offsets; a stale ticket one barrier and one roll; a second dead-letter
copy one message, two targets and one restart; a lost snapshot one failed and one
torn write; a false ack two replicas and one lost report; a doubled commit one
transaction and one crash; an ack without its copies one follower that failed a
sync. Three nodes, with a follower that lags behind a committed record, are in
`rep_v_fsync` and in the theorems: `rep` checks liveness and safety together on
two, where the quorum is everybody and the lag bound can evict the only
follower. Two transactions let a commit meet a back-check, a rollback or a group
commit of another. `MaxGen` limits the polls between
restarts, `MaxCommands` the length of a pipeline behaviour; both are several
times what the longest counterexample of the mutants needs. In the `wg_*` runs
the sessions are symmetric; liveness runs use no symmetry.

The actor of `CommitPipeline` ends at its bounds or after a shutdown, so its
runs do not check deadlock; `NoWedge`, `StopLeavesNothing` and
`EveryProduceAnswered` say what that check could only hint at. All other runs
check it.

### Fairness

`WorkGroup`: consumers keep polling (strong fairness, because progress reports
can hide a lapsed lease from a poll only up to the hard cap), a lease whose
clock keeps running lapses (strong, because a pause only delays it) and a pause
window ends by itself. Nothing is assumed of acknowledgements: a consumer may
never settle anything. `CommitPipeline`: the actor thread and the flusher thread
keep running; storage calls return. `Replication`: the fetch threads and the
report readers keep running, a broken link is redialled (the fetch loop does so
for ever) and a stopped node is restarted. Nothing is assumed of a producer's
connection: neither that its next produce is presented to the gate nor that its
outbox is drained, which happens only when it sends bytes. `ParkedAcksLeave`
says that an ack leaves the gate for the outbox, not that it is written; it and
`FollowersCatchUp` except a frozen replica writer, and the former an open
segment longer than the lag bound, which evicts every follower however fast it
fetches. `Transactions`: the engine thread finishes the commit it began; strong
fairness of each back-check, which is enabled only while a listener is
connected. A connection that stays open keeps sending, because a quiet one is
closed after 30 s (`CONNECTION_TIMEOUT`, `server.rs:33`; the client's listener
loop pings), and each of its passes runs a tick, in which the actor takes the
due transactions in order. That some listener stays connected is a condition of
`Settled`, not an assumption: with none, nothing drives the scan.

## Proofs

A theorem holds for every value of the constants that its statement does not
name: the only assumptions beyond that are the named `ASSUME`s on the constants'
types and, in some theorems, a hypothesis that leaves out a path on which the
code breaks the property. Each of those is necessary, and what happens without
it is in the list of disagreements above:

| hypothesis | leaves out |
|---|---|
| `~ CutAfterKill` (`SlotFile`, `AckCursor`) | power failing before a slot read back from a killed writer's cache was synced |
| `SafeStorage` (`CommitPipeline`) | a kill under dirty pages, and a failed flusher barrier that drops pages |
| `RollsInLinger` (`CommitPipeline`) | a failing segment create while a dispatch lingers |
| `failed` counted in (`Replication`) | a follower whose own fsync failed and that reports what it appended |
| `MarkersSafe`, `FileSafe`, `MaxMishaps <= 1`, `FilePoints` at a crash (`Transactions`) | a crash after a failed write of the txn log (half message, marker or back-check; a failed barrier freezes the log, and a resolve refused by it is told on retry), after a failed checkpoint, or over a stale high-water that restart left in its file |
| `MaxReaps = 0`, or `NotOvertaken` of the behaviour (`WorkGroup`) | retention that reaps records the cursor has not passed, which rebuilds the lease table |
| `MaxHoles <= 1` (`WorkGroup`) | a run of two compacted records, whose leases are not freed |
| `RoomForRuns` of the behaviour (`WorkGroup`) | an acknowledgement shed at the cursor's run cap, which forgets the count of an open offset |
| `CountsKept` (`WorkGroup`) | a dead-letter append that fails, a poison match behind a filtered run, and a truncated poll, each of which forgets a count |

- `AckSet_proofs`: `TypeCorrect`, `NothingForgotten`. That no step but a restart
  gives up an acknowledgement needs `GapInv` (the watermark is `FirstGap` of the
  acknowledged set) and the lemma that a first gap exists and is monotone in the
  set.
- `SlotFile_proofs`: `CrashSafeHolds`. `FileInv` says which slot is the
  reliable one: the sibling of the next target is synced, valid or blank, and
  holds `known`; the target holds older sequence numbers, failed attempts or
  torn content. A failed write must not spend its number, or the next one would
  go to the reliable slot.
- `AckCursor_proofs`: `CursorImplementsAckSet`, `ShapeHolds`, `CapHolds`,
  `CursorCrashSafe`, for lists of any length. `Listed` is the shape of the list
  at rest and `Loose` the shape while its first run may touch the watermark. The
  shape speaks of neighbouring runs only; `Apart` and `Above` carry it to all
  pairs by a least counterexample, and from there each operator has one lemma
  that says which set its result stands for (`InsertIs` over the four merge
  cases, `AdvanceKeeps`, `AbsorbIsAdvance`, which shows that the loop of
  `commit_up_to` absorbs at most one run, `ClipIs`, `PayloadIs`, `KeptIs`). The
  file side is not proved again: `SlotFile_proofs` is instantiated with the sound
  snapshots as payloads, so that what open recovers has the shape, and `FileInv`
  says that it is the last confirmed snapshot or a later attempt, which is what
  the abstract `Restart` asks for. `ShapeHolds` needs only the file's types, hence
  no hypothesis on power cuts.
- `Replication_proofs`: `NoFalseAckHolds`, `CommitIsHeldHolds`,
  `QuorumFsyncUnlessFailed`, `FollowerIsPrefixHolds`, `FollowerNeverShrinksHolds`,
  `ReplicationTypeOK`, for any number of nodes, connections, records and faults. `RepInv` joins `LogInv` (replicas are
  prefixes of the sealed log), `MetaInv` (the checkpointed bar is held), `LinkInv`
  (what is under way never says more than the logs), `GateInv` (frontiers are
  not ahead of the replicas), `ClientInv` and `AckInv` (a reply in an outbox is
  held). `Held(k)`, that `min_isr` replicas reach k, is stable because every step
  `Grows` what they have on disk; that a replica is never cut back is what adopt
  and heal have to show. What a replica counts for is its `Width`: the part on
  disk, or, if it ever failed a sync, the leader's whole log, a credit that
  covers whatever it may report. So the statements hold with those replicas counted in, and
  `QuorumFsyncUnlessFailed` follows: without a failed sync an ack is what
  `CLUSTER_INVARIANTS.md` promises. `SizeInv` adds the bounds: the bar and every observed high watermark
  came from a log, so they are within the records written, and a gate parks
  within its cap because releasing and disconnecting only take acks away.
- `WorkGroup_proofs`: `NoSilentSkipHolds`. `NoSilentSkip` is not inductive: a
  fan-out skips a target whose in-memory set already holds the offset, so the
  proof needs `KnownDurable`, that these sets never run ahead of the sinks. With
  it, every step only adds evidence (`EvidenceGrows`, `AccountedStays`), and each
  step that acknowledges something shows evidence for it.
  `GroupTypeCorrect` is mostly bookkeeping, one group of variables at a time; the
  two facts with content are that the watermark, a `CHOOSE`, always exists
  (`FirstGapIsGap`) and that a scan that hands out a message took at least one
  generation for it (`ScanKeepsType`).
  `OneCopyPerTargetHolds`: the set that guards a target is pruned and lost in
  crashes, so the property is not inductive. `GuardCovers`
  says that a copy the set forgot lies below the watermark, `LeasesAreOpen` that
  an offset a session can still reject is above it (or its record is gone and
  cannot be copied). The watermark never moves back except in a crash, which
  rebuilds the sets from the targets themselves.
  `LatestHolderUnlessOvertaken` and `LatestHolderHolds`: `FenceInv` says that a
  generation is issued once (`Issued`) and that a token or a stashed match with
  the lease's generation is of the latest delivery (`TokensCurrent`); a crash
  voids leases and tokens together.
  `WindowHolds`: the cardinality of the table is followed through a scan, which
  claims at most one lease that it does not free again.
  `DeliveryBudgetHolds`: `BudgetInv` bounds the deliveries of an open offset by
  three counts at once, the one in memory, the durable one and what a crash would
  forget (`unflushed`), because each takes over from another at a restart, a
  flush or a carry.
  `DurableCountHolds`: a checkpoint copies the counts in memory, so `CountInv`
  says that for an open offset memory is never behind the disk; a record held
  back because it is not due is claimed and released, which is harmless since it
  never had a count.
- `CommitPipeline_proofs`: nine theorems from one invariant. The actor's helpers
  are operators on a record, the world, so the proof is compositional: `Good(w)`
  is the invariant of the world and `Evolves(w, v)` what a helper may do to it
  (heads grow, answers are kept, frozen stays frozen); each helper has one lemma,
  and an action is a chain of helpers. Around it `Flow` relates the actor's batch
  and queue, `Waiters` says that whoever waits is parked, in the batch or in the
  channel (hence nobody after the exit), `Unwedged` that parked replies always
  have a barrier that will release them. `Meter` needs the ticket's bytes to be
  those between its start and its target, also after a roll made it stale.
- `Transactions_proofs`: `OutcomeInv` relates table, marker and what was told;
  `RecordInv` says that a record in the log is one the high-waters point at, in
  memory and, from step A2 on, in every snapshot of the file; `EmptyInv` that a
  marker or a commit past A3 has its record below the synced head. `Tracked` is
  what makes `ProducerAskedWithinCap` inductive: what was asked is at most what
  the book, or the txn log after a crash, has counted.
- `LeaseClock_proofs`: `ClockTypeCorrect`, `HardCapAlways`, `PauseInvisible`.
  The invariant `ClockInv` states the table as seen through the pause: the
  unpaused age of an attempt is `ObserveNow - start`, and a deadline that a claim
  or an extension set is within the cap of the start; one set by a deferral is
  not. It is needed because the table itself is stale
  while a window waits to be settled.

Every safety property of the passing runs has a theorem. Only model-checked are
the liveness properties (`EventuallyDone`, `EveryProduceAnswered`, `Settled`,
`ParkedAcksLeave`, `FollowersCatchUp`): liveness under fairness and `ENABLED` are
out of the prover's reach, and so is induction over data with the library's
induction theorems; where a proof needs a least or greatest element it uses
`LeastNatural`, which each of these modules takes from the well-foundedness of <
on the naturals.

## Not modelled, and why

Encoding, checksums, compression and encryption (byte-level, fuzzed by the
repository), sockets and TLS, authentication and tenants, metrics and admin
endpoints, the CLI, clients and SDKs. A large part of the repository's
lines is of this kind, or tests inside the source files.

Of replication: the bootstrap window after a restart in which acks are immediate
(`Restart` fills the gate at once), the other ack levels, retention on the leader
(a follower that falls below its start), records lost by a power cut after a kill
whose unsynced pages recovery had read back (`Crash` calls what it reopens
durable, as the log does), corrupt frames, the epoch handshake (no caller of the shipped binary
fills the epoch caches, so it never compares anything), promotion after a
failover, and the metadata Raft itself (a library). Of transactions: named
target streams, which the code documents as at-least-once, eviction of
tombstones and high-waters, the byte budget, and the relaxed durability levels.
Of the pipeline: a failure of the staging flush that precedes a barrier
(`log.rs:3789`), which freezes the writer as a failed barrier does. Of the
checkpoints: a named group reopens its file for every write (`engine.rs:5928`),
where `SlotFile` keeps it open.
The other components of `PROJECT.json` marked not modelled are in the plan.

## Plan

1. Proofs: weaken the hypotheses of the table above where the code allows it, and
   prove a theorem for each property the later modules add.
2. Client producer sequences and message-id dedup (epochs, gaps, eviction), on
   the log and the checkpoint of `Transactions`.
3. Failover: promotion, the leader lease and re-replication on top of
   `Replication`, once the code serves the replica log after promotion.
4. Storage: the compaction swap, retention and cold offload, the shared WAL with
   one barrier over several streams.
5. Key-shared routing (a member that leaves with messages of its keys in flight), request/reply and `commit_notify` wake-ups, admission.
