--------------------------- MODULE CommitPipeline ---------------------------
(***************************************************************************)
(* The pipelined group commit of the durable tier: one append actor        *)
(* (run_actor_pipelined) owns the log, appends and parks produce replies,  *)
(* and hands the covering fdatasync of the active segment to a flusher     *)
(* thread, at most one barrier at a time.  A parked reply is released when *)
(* the durable head reaches its covering target, however that head moved:  *)
(* a returned flusher barrier, an inline barrier, or the seal of a roll.   *)
(*                                                                         *)
(* Records are offsets 0, 1, ...; a record is one unit of dirty bytes and  *)
(* MaxSeg records fill a segment.  The actor's helpers are operators on    *)
(* the "world" it owns, composed in the order the code calls them; the     *)
(* actor's steps end where the flusher, a client or a crash can interleave *)
(* with it.  The storage stack below the file API is external: a returned  *)
(* barrier puts what was in the file on the platter, a failed one may drop *)
(* the dirty pages (docs/FMEA.md F2), a killed process leaves the page     *)
(* cache, a power cut takes it.                                            *)
(***************************************************************************)
EXTENDS Naturals, Sequences, FiniteSets, FiniteSetsExt

CONSTANTS
    MaxCommands,  \* bound: commands submitted in a behaviour
    Kinds,        \* the kinds of command the clients submit
    MaxSeg,       \* records that fill a segment (max_segment_bytes)
    MaxDirty,     \* sync_max_dirty_bytes in records; 0 disables the throttle
    Headroom,     \* WAL fsync headroom in records; 0 disables it
    Linger,       \* barriers cost enough for the first-dispatch linger
    Faults,       \* the storage faults that may strike
    MaxFaults,    \* bound: storage faults in a behaviour
    DropsPages,   \* a failed barrier drops the dirty pages it covered
    MaxKills,     \* bound: process kills, the page cache survives
    MaxCuts       \* bound: power cuts, only the platter survives

ProduceKinds == {"produce", "quiet", "dup", "shed"}

FaultKinds == {"barrier", "create", "header", "tail", "flusher"}

ASSUME PipelineConstants ==
    /\ {MaxCommands, MaxDirty, Headroom, MaxFaults, MaxKills, MaxCuts} \subseteq Nat
    /\ MaxSeg \in Nat \ {0}
    /\ Kinds \subseteq ProduceKinds \cup {"job", "shutdown", "drop"}
    /\ Faults \subseteq FaultKinds
    /\ {Linger, DropsPages} \subseteq BOOLEAN

VARIABLES
    log,      \* the Log: heads, byte meter, active segment, writer state
    disk,     \* external: offsets whose frames are on the platter
    dropped,  \* external: offsets whose dirty pages a failed barrier dropped
    flight,   \* the in-flight barrier and its ticket
    parked,   \* parked produce replies, in append order
    timed,    \* last_fsync_nanos is set: some barrier was measured
    answer,   \* what each produce with a reply channel was told
    acked,    \* offsets whose PubAck was sent
    queue,    \* the command channel
    batch,    \* the commands drained for this pass
    pc,       \* where the actor thread is
    used      \* how much of each bound the behaviour has used

vars == <<log, disk, dropped, flight, parked, timed, answer, acked, queue,
          batch, pc, used>>

NoFlight == [state |-> "none", target |-> 0, covered |-> 0]

World ==
    [log |-> log, disk |-> disk, dropped |-> dropped, flight |-> flight,
     parked |-> parked, timed |-> timed, answer |-> answer, acked |-> acked]

\* The actor's helpers ran and left the world at w.
Become(w) ==
    \E v \in {w} :
       /\ log' = v.log
       /\ disk' = v.disk
       /\ dropped' = v.dropped
       /\ flight' = v.flight
       /\ parked' = v.parked
       /\ timed' = v.timed
       /\ answer' = v.answer
       /\ acked' = v.acked

Offs(n) == {o \in 0..n : o < n}

-----------------------------------------------------------------------------
(* The log: appends, rolls and barriers.                                   *)

Writable(w) == w.log.writer # "frozen"

Live(w) == w.log.writer = "live"

HasUnsynced(w) == Writable(w) /\ w.log.synced # w.log.next

\* What a returned barrier over the first n records puts on the platter.
Platter(w, n) == w.disk \cup (Offs(n) \ w.dropped)

\* A failed barrier freezes the writer for good.
FrozenBy(w, staged) ==
    [w EXCEPT !.log.writer = "frozen",
              !.log.file = staged,
              !.dropped = IF DropsPages THEN @ \cup (Offs(staged) \ w.disk)
                                        ELSE @]

\* Every appended record was made durable and visible.
AllDurable(w) ==
    [w EXCEPT !.log.flushed = w.log.next,
              !.log.synced  = w.log.next,
              !.log.file    = w.log.next,
              !.log.meter   = 0,
              !.disk        = Platter(w, w.log.next)]

\* Create the next active segment: install it, defer it, or freeze.
CreateSegment(w, fault) ==
    IF fault = "create" THEN [w EXCEPT !.log.writer = "deferred"]
    ELSE IF fault = "header" THEN [w EXCEPT !.log.writer = "frozen"]
    ELSE [w EXCEPT !.log.writer = "live", !.log.base = w.log.next,
                   !.log.fresh = TRUE]

\* A slip: any dead writer is brought back, a frozen one included.
EnsureRevived(w, fault) ==
    IF ~Live(w) THEN CreateSegment(w, fault) ELSE w

\* Finish a roll whose create was deferred.
EnsureWritable(w, fault) ==
    IF w.log.writer = "deferred" THEN CreateSegment(w, fault) ELSE w

\* Seal the full segment, then create its successor.
Roll(w, fault) ==
    IF fault = "barrier" THEN FrozenBy(w, w.log.next)
                         ELSE CreateSegment(AllDurable(w), fault)

SegmentFull(w) == w.log.next - w.log.base >= MaxSeg

AppendRecord(w, fault) ==
    LET ready  == EnsureWritable(w, fault)
        rolled == IF Live(ready) /\ SegmentFull(ready)
                    THEN Roll(ready, fault) ELSE ready
    IN  IF Live(rolled)
          THEN [rolled EXCEPT !.log.next = @ + 1, !.log.meter = @ + 1]
          ELSE rolled

\* The inline barrier, Log::sync.
SyncLog(w, fault) ==
    LET ready == EnsureWritable(w, fault)
    IN  IF ~Live(ready) THEN ready
        ELSE IF fault = "barrier" THEN FrozenBy(ready, ready.log.next)
        ELSE AllDurable(ready)

\* A slip: the durable head moves and readers are not shown it.
ApplyTicketUnseen(w) ==
    [w EXCEPT !.log.synced = w.flight.target,
              !.log.meter = IF @ >= w.flight.covered
                              THEN @ - w.flight.covered ELSE 0]

\* What a current ticket does to the heads and to the byte meter.
ApplyTicket(w) ==
    [w EXCEPT !.log.flushed = Max({@, w.flight.target}),
              !.log.synced = w.flight.target,
              !.log.meter = IF @ >= w.flight.covered
                              THEN @ - w.flight.covered ELSE 0]

\* A slip: a stale ticket is applied like any other.
CompleteTicketAlways(w) == ApplyTicket(w)

\* A slip: the window is recomputed from the ticket, current or not.
CompleteTicketRecomputed(w) ==
    [w EXCEPT !.log.flushed = w.flight.target,
              !.log.synced = w.flight.target,
              !.log.meter = w.log.next - w.flight.target]

\* The ticket of a returned flusher barrier, applied all or nothing.
CompleteTicket(w) ==
    IF ~Writable(w) \/ w.log.synced >= w.flight.target THEN w
    ELSE ApplyTicket(w)

-----------------------------------------------------------------------------
(* The pipeline: parked replies and the in-flight barrier.                 *)

\* Tell the produces in s (the ones with a reply channel) what happened.
Tell(a, s, what) ==
    [i \in DOMAIN a |->
       IF \E k \in DOMAIN s : s[k].id = i THEN what ELSE a[i]]

\* Release the prefix of parked replies that the durable head covers.
ReleaseUpTo(w, head) ==
    LET covered == Max({k \in 0..Len(w.parked) :
                          \A i \in 1..k : w.parked[i].target <= head})
        freed   == SubSeq(w.parked, 1, covered)
    IN  [w EXCEPT !.parked = SubSeq(@, covered + 1, Len(@)),
                  !.answer = Tell(@, freed, "acked"),
                  !.acked  = @ \cup {freed[k].off : k \in
                                {i \in DOMAIN freed : freed[i].id # 0}}]

\* A slip: release on the appended head.
ReleaseAppended(w) == ReleaseUpTo(w, w.log.next)

ReleaseReady(w) == ReleaseUpTo(w, w.log.synced)

FatalFan(w) ==
    [w EXCEPT !.parked = <<>>, !.answer = Tell(@, w.parked, "fatal")]

ReconcileFreeze(w) == IF Writable(w) THEN w ELSE FatalFan(ReleaseReady(w))

\* A slip: staging raises the visible head, as flush_no_sync does.
MaybeIssueVisible(w, fault) ==
    IF w.flight # NoFlight \/ ~Live(w) \/ ~HasUnsynced(w) THEN w
    ELSE [w EXCEPT !.log.file = w.log.next, !.log.flushed = w.log.next,
                   !.flight = [state   |-> "out", target |-> w.log.next,
                               covered |-> w.log.meter]]

\* Stage and dispatch the covering barrier unless one is in flight.
MaybeIssue(w, fault) ==
    IF w.flight # NoFlight THEN w
    ELSE LET ready == EnsureWritable(w, fault)
         IN  IF ~Writable(ready) THEN ReconcileFreeze(ready)
             ELSE IF Live(ready) /\ HasUnsynced(ready)
               THEN [ready EXCEPT !.log.file = ready.log.next,
                                  !.flight = [state   |-> "out",
                                              target  |-> ready.log.next,
                                              covered |-> ready.log.meter]]
             ELSE ready

Delivered(w) == w.flight.state \in {"ok", "err"}

\* A slip: a failed barrier is retried and the retry trusted.
OnCompletionRetried(w, fault) ==
    LET landed == [(IF w.flight.state = "ok" THEN CompleteTicket(w) ELSE w)
                     EXCEPT !.flight = NoFlight, !.timed = TRUE]
    IN  ReconcileFreeze(ReleaseReady(MaybeIssue(landed, fault)))

\* A returned barrier; a failed one, or a dead flusher, freezes the writer.
OnCompletion(w, fault) ==
    LET landed == [w EXCEPT !.flight = NoFlight]
        next   == ReleaseReady(MaybeIssue(
                     [CompleteTicket(w) EXCEPT !.flight = NoFlight,
                                               !.timed = TRUE], fault))
        tail   == IF fault = "tail"
                    THEN [next EXCEPT !.log.writer = "frozen"] ELSE next
    IN  IF w.flight.state = "ok"
          THEN ReconcileFreeze(tail)
          ELSE ReconcileFreeze([landed EXCEPT !.log.writer = "frozen"])

PollCompletions(w, fault) ==
    IF Delivered(w) THEN OnCompletion(w, fault) ELSE w

\* A slip: the waiter is not released when the barrier itself succeeded.
CommitInlineSilent(w, fault) ==
    IF HasUnsynced(w)
      THEN ReconcileFreeze([SyncLog(w, fault) EXCEPT !.timed = TRUE])
      ELSE w

\* The inline covering barrier, for a solo waiter and for a quiesce.
CommitInline(w, fault) ==
    ReleaseReady(IF HasUnsynced(w)
                   THEN ReconcileFreeze([SyncLog(w, fault) EXCEPT
                                           !.timed = TRUE])
                   ELSE w)

\* throttle_admit: an empty window always admits.
Admits(w) ==
    MaxDirty = 0 \/ w.log.meter = 0 \/ w.log.meter + 1 <= MaxDirty

\* The fsync headroom, the same rule over a bound of its own.
HasHeadroom(w) ==
    Headroom = 0 \/ w.log.meter = 0 \/ w.log.meter + 1 <= Headroom

\* Where the actor goes after a produce: back to its pass, or to the linger.
Resume(at) == IF at \in {"late", "latedrain"} THEN "linger" ELSE "poll"

Refuse(w, c, how) == [w EXCEPT !.answer = Tell(@, <<c>>, how)]

\* Park a reply behind its covering target; answer now if that is durable.
Park(w, id, off) ==
    LET ack == [id |-> id, off |-> off, target |-> w.log.next]
    IN  IF w.log.next <= w.log.synced
          THEN [w EXCEPT !.answer = Tell(@, <<ack>>, "acked"),
                         !.acked = IF id # 0 THEN @ \cup {off} ELSE @]
          ELSE [w EXCEPT !.parked = Append(@, ack)]

\* process_produce after admission: append and park, or answer at once.  A
\* "dup" retries the newest record, a "shed" is refused by admission.
Produce(w, c, fault) ==
    LET v == AppendRecord(w, fault)
        refused == IF c.kind = "shed" THEN "rejected"
                   ELSE IF Writable(v) THEN "failed" ELSE "fatal"
    IN  IF c.kind = "dup" /\ w.log.next > 0
          THEN Park(w, c.id, w.log.next - 1)
        ELSE IF c.kind # "shed" /\ Live(v)
          THEN Park(v, c.id, v.log.next - 1)
        ELSE Refuse(IF c.kind = "shed" THEN w ELSE v, c, refused)

-----------------------------------------------------------------------------
(* The specification.                                                      *)

Init ==
    /\ log = [next |-> 0, file |-> 0, flushed |-> 0, synced |-> 0,
              meter |-> 0, base |-> 0, fresh |-> TRUE, writer |-> "live"]
    /\ disk = {} /\ dropped = {}
    /\ flight = NoFlight
    /\ parked = <<>>
    /\ timed = FALSE
    /\ answer = <<>>
    /\ acked = {}
    /\ queue = <<>> /\ batch = <<>>
    /\ pc = "idle"
    /\ used = [commands |-> 0, faults |-> 0, kills |-> 0, cuts |-> 0]

\* At most one storage fault strikes a step of the actor.
Strikes(fault) ==
    \/ fault = "none" /\ UNCHANGED used
    \/ /\ fault \in Faults \ {"flusher"}
       /\ used.faults < MaxFaults
       /\ used' = [used EXCEPT !.faults = @ + 1]

\* A client sends a command; a quiet produce has no reply channel.
Submit(kind) ==
    /\ pc # "stopped"
    /\ used.commands < MaxCommands
    /\ used' = [used EXCEPT !.commands = @ + 1]
    /\ IF kind \in ProduceKinds \ {"quiet"}
         THEN /\ answer' = Append(answer, "waiting")
              /\ queue' = Append(queue, [kind |-> kind, id |-> Len(answer) + 1])
         ELSE /\ queue' = Append(queue, [kind |-> kind, id |-> 0])
              /\ UNCHANGED answer
    /\ UNCHANGED <<log, disk, dropped, flight, parked, timed, acked, batch, pc>>

\* The idle wait ends with a command: drain the channel into a batch.
StartPass ==
    /\ pc = "idle" /\ queue # <<>>
    /\ batch' = queue
    /\ queue' = <<>>
    /\ pc' = "poll"
    /\ UNCHANGED <<log, disk, dropped, flight, parked, timed, answer, acked,
                   used>>

\* The idle wait ends with a completion.
IdleCompletion ==
    /\ pc = "idle" /\ queue = <<>> /\ Delivered(World)
    /\ \E fault \in Faults \cup {"none"} :
          /\ Strikes(fault)
          /\ Become(OnCompletion(World, fault))
    /\ UNCHANGED <<queue, batch, pc>>

\* Fold in a completion before each command and at the end of the pass.
Poll ==
    /\ pc = "poll"
    /\ \E fault \in Faults \cup {"none"} :
          /\ Strikes(fault)
          /\ Become(PollCompletions(World, fault))
    /\ pc' = IF batch = <<>> THEN "end" ELSE "command"
    /\ UNCHANGED <<queue, batch>>

\* The throttle holds a produce back: dispatch before blocking, then wait.
ThrottleWait(fault) ==
    /\ ~Admits(World)
    /\ \/ Delivered(World) /\ Become(OnCompletion(World, fault))
       \/ /\ flight = NoFlight
          /\ MaybeIssue(World, fault).flight # NoFlight
          /\ Become(MaybeIssue(World, fault))

\* The world in which the throttle admits, if it does: there is room, or there
\* is no barrier to wait for.
Admitted(fault) ==
    IF Admits(World) THEN {World}
    ELSE IF flight = NoFlight
      THEN {w \in {MaybeIssue(World, fault)} : w.flight = NoFlight}
    ELSE {}

\* Nothing is in flight: sync the tail inline, answer everyone who waits.
Quiesce(w, fault) == ReconcileFreeze(CommitInline(w, fault))

\* A produce taken off the channel goes through the throttle, then, when it
\* does not fit in the headroom, drains the pipeline before it is taken.
ProduceCommand ==
    /\ pc \in {"command", "late"} /\ Head(batch).kind \in ProduceKinds
    /\ \E fault \in Faults \cup {"none"} :
          /\ Strikes(fault)
          /\ \/ ThrottleWait(fault) /\ UNCHANGED <<batch, pc>>
             \/ \E w \in Admitted(fault) :
                   IF HasHeadroom(w) \/ Head(batch).kind = "shed"
                     THEN /\ Become(Produce(w, Head(batch), fault))
                          /\ batch' = Tail(batch)
                          /\ pc' = Resume(pc)
                     ELSE /\ Become(w)
                          /\ pc' = IF pc = "late" THEN "latedrain" ELSE "drain"
                          /\ UNCHANGED batch
    /\ UNCHANGED queue

\* The drain waits out every barrier; what it cannot make durable sheds.
HeadroomDrain ==
    /\ pc \in {"drain", "latedrain"}
    /\ \E fault \in Faults \cup {"none"} :
          /\ Strikes(fault)
          /\ \/ Delivered(World) /\ Become(OnCompletion(World, fault))
                /\ UNCHANGED <<batch, pc>>
             \/ /\ flight = NoFlight
                /\ LET w == Quiesce(World, fault)
                   IN  Become(IF HasHeadroom(w)
                                THEN Produce(w, Head(batch), fault)
                                ELSE Refuse(w, Head(batch), "rejected"))
                /\ batch' = Tail(batch)
                /\ pc' = Resume(pc)
    /\ UNCHANGED queue

\* A Run job, with or without an inline barrier of its own.
JobCommand ==
    /\ pc = "command" /\ Head(batch).kind = "job"
    /\ \E fault \in Faults \cup {"none"} :
          /\ Strikes(fault)
          /\ \E ran \in {World, SyncLog(World, fault)} :
                Become(ReconcileFreeze(ReleaseReady(
                          PollCompletions(ran, fault))))
    /\ batch' = Tail(batch) /\ pc' = "poll"
    /\ UNCHANGED queue

\* A slip: only the drained batch is answered, not the channel.
ClosingBatchOnly(w, rest) ==
    [w EXCEPT !.answer = Tell(@, Tail(batch), "closing")]

\* Every produce still queued is told the actor is closing.
Closing(w, rest) == [w EXCEPT !.answer = Tell(@, rest, "closing")]

ShutdownCommand ==
    /\ pc = "command" /\ Head(batch).kind = "shutdown"
    /\ \E fault \in Faults \cup {"none"} :
          /\ Strikes(fault)
          /\ \/ /\ Delivered(World)
                /\ Become(OnCompletion(World, fault))
                /\ UNCHANGED <<queue, batch, pc>>
             \/ /\ flight = NoFlight
                /\ Become(Closing(SyncLog(Quiesce(World, fault), fault),
                                  Tail(batch) \o queue))
                /\ queue' = <<>> /\ batch' = <<>>
                /\ pc' = "stopped"

\* The last handle dropped: drain the same way and exit.
HandlesDropped ==
    /\ "drop" \in Kinds
    /\ pc = "idle" /\ queue = <<>> /\ flight = NoFlight
    /\ \E fault \in Faults \cup {"none"} :
          /\ Strikes(fault)
          /\ Become(Quiesce(World, fault))
    /\ pc' = "stopped"
    /\ UNCHANGED <<queue, batch>>

\* A slip: only a solo waiter is ever covered at the end of a pass.
FinishPassSolo(w, fault) ==
    IF w.flight = NoFlight /\ Len(w.parked) = 1 THEN CommitInline(w, fault)
                                                ELSE w

\* The dispatch decision at the end of a pass, for the released world w.
FinishPass(w, fault) ==
    IF w.flight # NoFlight THEN w
    ELSE IF Len(w.parked) = 1 /\ queue = <<>> THEN CommitInline(w, fault)
    ELSE MaybeIssue(w, fault)

EndPass ==
    /\ pc = "end"
    /\ \E fault \in Faults \cup {"none"} :
          /\ Strikes(fault)
          /\ LET w == ReleaseReady(World)
             IN  \/ /\ Become(ReconcileFreeze(FinishPass(w, fault)))
                    /\ pc' = "idle"
                 \/ /\ Linger /\ w.timed /\ w.flight = NoFlight
                    /\ Len(w.parked) >= 2 /\ fault = "none"
                    /\ Become(w)
                    /\ pc' = "linger"
    /\ UNCHANGED <<queue, batch>>

\* A late produce joins the lingering window.
LingerProduce ==
    /\ pc = "linger" /\ flight = NoFlight
    /\ queue # <<>> /\ Head(queue).kind \in ProduceKinds
    /\ batch' = <<Head(queue)>>
    /\ queue' = Tail(queue)
    /\ pc' = "late"
    /\ UNCHANGED <<log, disk, dropped, flight, parked, timed, answer, acked,
                   used>>

\* The linger times out, a barrier went out, or a command that is no produce
\* ends it.
LingerEnd ==
    /\ pc = "linger"
    /\ \E fault \in Faults \cup {"none"} :
          /\ Strikes(fault)
          /\ Become(ReconcileFreeze(MaybeIssue(World, fault)))
    /\ pc' = "idle"
    /\ UNCHANGED <<queue, batch>>

-----------------------------------------------------------------------------
(* The flusher thread, and crashes with the recovery that follows them.    *)

FlusherReturns ==
    /\ flight.state = "out"
    /\ \/ /\ flight' = [flight EXCEPT !.state = "ok"]
          /\ disk' = Platter(World, flight.target)
          /\ UNCHANGED <<dropped, used>>
       \/ /\ "flusher" \in Faults /\ used.faults < MaxFaults
          /\ used' = [used EXCEPT !.faults = @ + 1]
          /\ flight' = [flight EXCEPT !.state = "err"]
          /\ dropped' = IF DropsPages
                          THEN dropped \cup (Offs(log.file) \ disk)
                          ELSE dropped
          /\ UNCHANGED disk
    /\ UNCHANGED <<log, parked, timed, answer, acked, queue, batch, pc>>

\* A slip: recovery never syncs what it found in the page cache.
NoSlack(n) == FALSE

\* The file of the active segment is longer than its n recovered records.
Slack(n) == log.fresh /\ n < log.base + MaxSeg

\* Open the log on its first n records: everything recovered counts durable.
Recover(n) ==
    /\ log' = [next |-> n, file |-> n, flushed |-> n, synced |-> n,
               meter |-> 0,
               base |-> IF log.writer = "deferred" THEN n
                        ELSE Min({log.base, n}),
               fresh |-> log.writer = "deferred",
               writer |-> "live"]
    /\ flight' = NoFlight
    /\ parked' = <<>> /\ queue' = <<>> /\ batch' = <<>>
    /\ timed' = FALSE
    /\ answer' = [i \in DOMAIN answer |->
                    IF answer[i] = "waiting" THEN "lost" ELSE answer[i]]
    /\ pc' = "idle"
    /\ UNCHANGED acked

\* The process dies; the page cache keeps what was written to the file, and
\* recovery syncs the file only when it has a tail to cut.  Assumed of the
\* environment: no kill follows a failed barrier that dropped pages.
Kill ==
    /\ used.kills < MaxKills
    /\ dropped = {}
    /\ used' = [used EXCEPT !.kills = @ + 1]
    /\ \E n \in log.file..log.next :
          /\ Recover(n)
          /\ disk' = IF Slack(n) THEN Platter(World, n) ELSE disk
    /\ UNCHANGED dropped

\* Power fails; a prefix at least as long as the platter's survives.
PowerCut ==
    /\ used.cuts < MaxCuts
    /\ used' = [used EXCEPT !.cuts = @ + 1]
    /\ \E n \in 0..log.next :
          /\ \A o \in disk : (\A p \in Offs(o) : p \in disk) => o < n
          /\ Offs(n) \cap dropped = {}
          /\ Recover(n)
          /\ disk' = Offs(n)
    /\ dropped' = {}

Actor ==
    \/ StartPass \/ IdleCompletion \/ Poll
    \/ ProduceCommand \/ HeadroomDrain \/ JobCommand \/ ShutdownCommand
    \/ EndPass \/ LingerProduce \/ LingerEnd

Next ==
    \/ \E kind \in Kinds \ {"drop"} : Submit(kind)
    \/ Actor
    \/ HandlesDropped
    \/ FlusherReturns
    \/ Kill
    \/ PowerCut

Spec == Init /\ [][Next]_vars

\* The actor thread has something to do: it is inside a pass, and neither
\* throttled behind nor quiescing on a barrier that is still out.
ActorCanRun ==
    \/ pc = "idle" /\ (queue # <<>> \/ Delivered(World))
    \/ pc \in {"poll", "end", "linger"}
    \/ pc \in {"drain", "latedrain"} /\ flight.state # "out"
    \/ /\ pc \in {"command", "late"}
       /\ \/ flight.state # "out"
          \/ Head(batch).kind = "job"
          \/ Head(batch).kind \in ProduceKinds /\ Admits(World)

\* The actor thread and the flusher thread keep running.  The first conjunct
\* is weak fairness of Actor with its enabling condition written out.
FairSpec ==
    /\ Spec
    /\ []<>~ActorCanRun \/ []<><<Actor>>_vars
    /\ WF_vars(FlusherReturns)

-----------------------------------------------------------------------------
(* Properties.                                                             *)

\* The heads are ordered as the pipelined tier keeps them, the ticket never
\* reaches past the appended head, and the parked covering targets never
\* decrease (INV-4).
TypeOK ==
    /\ log.flushed = log.synced
    /\ log.synced <= log.next
    /\ log.file <= log.next
    /\ log.writer \in {"live", "deferred", "frozen"}
    /\ flight.state \in {"none", "out", "ok", "err"}
    /\ flight.target <= log.next
    /\ disk \subseteq Offs(log.next)
    /\ \A i, j \in DOMAIN parked :
          i <= j => parked[i].target <= parked[j].target
    /\ pc \in {"idle", "poll", "command", "drain", "end", "linger", "late",
               "latedrain", "stopped"}

\* I2, ack implies durable: every record a producer was acked for is on the
\* platter (or was recovered from it), across barriers, rolls, jobs, failed
\* syncs and crashes.
AckImpliesDurable == acked \subseteq disk

\* INV-2, visible equals durable: no reader is shown a record that a power
\* cut could still take back.
VisibleIsDurable == Offs(log.flushed) \subseteq disk

\* INV-6: the unsynced byte meter is exactly the appended-but-not-durable
\* window of a live writer, however completions, seals and inline barriers
\* interleave; a half-applied stale ticket would break it.
MeterExact == Writable(World) => log.meter = log.next - log.synced

\* The no-wedge lemma on struct Pipeline: when the actor is about to block on
\* an empty channel with no barrier in flight, no reply is left parked.
NoWedge == (pc = "idle" /\ flight = NoFlight) => parked = <<>>

\* #802: once the actor has exited no producer is left waiting for a reply
\* and, unless the writer froze, every appended record is durable.
StopLeavesNothing ==
    pc = "stopped" =>
       /\ \A i \in DOMAIN answer : answer[i] # "waiting"
       /\ Writable(World) => Offs(log.next) \subseteq disk

\* The durable head moves backwards only when a restart re-derives it.
DurableHeadMonotone ==
    [][log'.synced >= log.synced \/ used'.kills + used'.cuts #
                                    used.kills + used.cuts]_vars

\* A frozen writer stays frozen until the process restarts: no later append,
\* completion or deferred roll brings it back.
FreezeIsFinal ==
    [][log.writer = "frozen" =>
         \/ log'.writer = "frozen" /\ log'.next = log.next
         \/ used'.kills + used'.cuts # used.kills + used.cuts]_vars

\* Every produce that asked for a reply gets one.
EveryProduceAnswered ==
    \A i \in 1..MaxCommands :
       (i \in DOMAIN answer /\ answer[i] = "waiting")
          ~> (i \in DOMAIN answer /\ answer[i] # "waiting")

=============================================================================
