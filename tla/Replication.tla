----------------------------- MODULE Replication -----------------------------
(***************************************************************************)
(* The replicated data plane of one partition: the leader's ISR tracker    *)
(* and quorum-ack gate, the produce acks it withholds from its client      *)
(* connections, and the followers that fetch, fsync and report.            *)
(*                                                                         *)
(* A node derives its role once, when its data plane starts, from the      *)
(* committed placement: the leader serves its engine log through the read  *)
(* plane, a follower owns a replica log of its own.  The metadata group    *)
(* is external: the placement and the checkpointed committed high          *)
(* watermark (bar) are linearizable facts each node learns late.           *)
(*                                                                         *)
(* Offsets count from 0, so a log of length k holds the offsets below k    *)
(* and k is its frontier.  A record is named by the node and the length of *)
(* the engine log that took it, which makes every content distinct.  A     *)
(* leader's append is modelled with its fsync: the pipeline below it has a *)
(* module of its own.  A follower's batch is appended and then fsync'd,    *)
(* and the fsync may fail: the frontier it reports is what it appended.    *)
(***************************************************************************)
EXTENDS Integers, Sequences, FiniteSets

CONSTANTS
    Node,        \* the replicas of the partition
    Leader,      \* the leader the first committed placement names
    Conn,        \* producer connections
    MinIsr,      \* IsrConfig::min_isr
    MaxLag,      \* IsrConfig::max_lag_records; 0 never evicts
    Cap,         \* MAX_PARKED_ACKS_PER_PARTITION
    MaxRecords,  \* bound: records an engine log takes
    MaxRequests, \* bound: produces of one connection
    MaxWire,     \* bound: responses under way on one link
    MaxReports,  \* bound: reports of one follower under way
    MaxFaults    \* bound: crashes, failed syncs, broken links and timeouts

ASSUME ReplicationConstants ==
    /\ IsFiniteSet(Node)
    /\ Leader \in Node
    /\ MinIsr \in Nat \ {0}
    /\ {MaxLag, Cap, MaxRecords, MaxRequests, MaxWire, MaxReports, MaxFaults} \subseteq Nat

VARIABLES
    placement, \* external: the committed placement
    bar,       \* external: the checkpointed committed high watermark; 0 none
    known,     \* what each node's status snapshot knows of it
    up,        \* the process is running
    led,       \* the leader each node's data plane was started under
    elog,      \* each node's durable engine log
    sealed,    \* the end of its sealed prefix, all the read plane serves
    rlog,      \* each node's replica log, as far as it is appended
    synced,    \* the length of the part of it that is on disk
    frozen,    \* the nodes whose replica writer is dead: a sync failed
    failed,    \* history: the nodes whose replica log ever failed a sync
    seenHw,    \* Follower::leader_high_watermark
    sess,      \* the follower's fetch link: off, adopt or steady
    wire,      \* fetch responses under way to each follower
    reports,   \* AckReplicated reports under way to a leader
    gate,      \* the leader's IsrTracker and QuorumAckGate
    client,    \* the leader's producer connections and their outboxes
    acked,     \* records some producer was told are quorum-durable
    faults     \* how many faults have struck

replica == <<rlog, synced, frozen, failed>>
logs == <<elog, sealed, replica>>
meta == <<placement, bar, known>>
vars == <<placement, bar, known, up, led, elog, sealed, rlog, synced, frozen,
          failed, seenHw, sess, wire, reports, gate, client, acked, faults>>

Records == Node \X Nat

\* A withheld reply.  Tokens number them in the order they were parked.
ParkedAcks == [token : Nat, conn : Conn, off : Nat]

Responses == [hw : Nat, first : Nat, run : Seq(Records)]

Leads(n) == up[n] /\ led[n] = n

Follows(n) == up[n] /\ led[n] # n

-----------------------------------------------------------------------------
(* IsrTracker and QuorumAckGate *)

NoQuorum == -1

MaxOf(a, b) == IF a >= b THEN a ELSE b

MinOf(a, b) == IF a <= b THEN a ELSE b

\* Slip: a new leader takes the followers for caught up.
SlipFreshGate(n, replicas, flushed) ==
    [own |-> flushed, peer |-> [f \in replicas \ {n} |-> flushed],
     pending |-> {}, next |-> 0, through |-> 0]

FreshGate(n, replicas, flushed) ==
    [own |-> flushed, peer |-> [f \in replicas \ {n} |-> 0],
     pending |-> {}, next |-> 0, through |-> 0]

\* classify: the followers that are not evicted for lag.
InSync(g) ==
    {f \in DOMAIN g.peer : MaxLag = 0 \/ g.own - g.peer[f] <= MaxLag}

\* The frontiers that count toward the quorum.
Frontiers(g) == {g.own} \cup {g.peer[f] : f \in InSync(g)}

\* Slip: a follower exactly at the offset does not count.
SlipReplicasAt(g, c) ==
    (IF g.own >= c THEN 1 ELSE 0) + Cardinality({f \in InSync(g) : g.peer[f] > c})

ReplicasAt(g, c) ==
    (IF g.own >= c THEN 1 ELSE 0) + Cardinality({f \in InSync(g) : g.peer[f] >= c})

\* Slip: min_isr followers too few by one.
SlipQuorate(g) == {c \in Frontiers(g) : ReplicasAt(g, c) >= MinIsr - 1}

\* The frontiers min_isr replicas have all reached.
Quorate(g) == {c \in Frontiers(g) : ReplicasAt(g, c) >= MinIsr}

\* The min_isr-th largest frontier, none while the ISR is below min_isr.
QuorumCommit(g) ==
    IF Quorate(g) = {} THEN NoQuorum
    ELSE CHOOSE c \in Quorate(g) : \A d \in Quorate(g) : d <= c

\* release_up_to: the parked acks up to the first, in the order of parking,
\* that is not committed; none at all without a quorum.
Released(g) ==
    {p \in g.pending :
        /\ QuorumCommit(g) # NoQuorum
        /\ \A q \in g.pending : q.token <= p.token =>
              q.off < MaxOf(QuorumCommit(g), g.through)}

AfterRelease(g) ==
    [g EXCEPT !.pending = @ \ Released(g), !.through = MaxOf(QuorumCommit(g), @)]

\* Slip: the cap is checked against the acks already parked, not the next one.
SlipFull(g) == Cardinality(g.pending) > Cap

\* park refuses.
Full(g) == Cardinality(g.pending) >= Cap

\* The frontier the failover inputs report for a node: the follower's high
\* watermark, or the leader's quorum commit.
OwnFrontier(n) ==
    IF Follows(n) THEN MinOf(Len(rlog[n]), seenHw[n])
    ELSE MaxOf(QuorumCommit(gate[n]), 0)

-----------------------------------------------------------------------------
(* Producer connections of a leader *)

NoClient == [sent |-> 0, due |-> << >>, out |-> {}, replied |-> 0]

RecordsOf(n, acks) == {elog[n][p.off + 1] : p \in acks}

\* The engine log takes a record and fsyncs it; if the append has to roll the
\* segment first, everything below the record is sealed.
AppendRecord(n, roll) ==
    /\ Leads(n)
    /\ Len(elog[n]) < MaxRecords
    /\ elog' = [elog EXCEPT ![n] = Append(@, <<n, Len(@) + 1>>)]
    /\ sealed' = IF roll THEN [sealed EXCEPT ![n] = Len(elog[n])] ELSE sealed
    /\ UNCHANGED <<meta, up, led, replica, seenHw, sess, wire, reports, gate, acked,
                   faults>>

\* A connection has one more produce whose reply it owes.
Send(n, c, off) ==
    /\ client[n][c].sent < MaxRequests
    /\ client' = [client EXCEPT ![n][c].sent = @ + 1, ![n][c].due = Append(@, off)]

\* A produce that wants a reply, and one that does not (QoS 0).
Produce(n, c, roll) == AppendRecord(n, roll) /\ Send(n, c, Len(elog[n]))

FireAndForget(n, roll) == AppendRecord(n, roll) /\ UNCHANGED client

\* A retry answered from the dedup index: the original offset, no append.
Retry(n, c, off) ==
    /\ Leads(n)
    /\ Send(n, c, off)
    /\ UNCHANGED <<meta, up, led, logs, seenHw, sess, wire, reports, gate, acked, faults>>

\* write_pub_reply_gated: the connection's next locally durable produce meets
\* the gate.  At the cap it is refused with an error.  Otherwise it is parked,
\* and whatever the current quorum releases is written to this connection.
Present(n, c) ==
    LET off  == Head(client[n][c].due)
        seen == [gate[n] EXCEPT !.own = MaxOf(@, off + 1)]
        ack  == [token |-> seen.next, conn |-> c, off |-> off]
        held == [seen EXCEPT !.pending = @ \cup {ack}, !.next = @ + 1]
    IN  /\ Leads(n)
        /\ client[n][c].due # << >>
        /\ IF Full(seen)
           THEN /\ gate' = [gate EXCEPT ![n] = seen]
                /\ client' = [client EXCEPT ![n][c].due = Tail(@),
                                            ![n][c].replied = @ + 1]
                /\ UNCHANGED acked
           ELSE /\ gate' = [gate EXCEPT ![n] = AfterRelease(held)]
                /\ client' = [client EXCEPT ![n][c].due = Tail(@),
                                            ![n][c].replied = @ + Cardinality(Released(held))]
                /\ acked' = acked \cup RecordsOf(n, Released(held))
        /\ UNCHANGED <<meta, up, led, logs, seenHw, sess, wire, reports, faults>>

\* on_follower_report: a report reaches its leader, and what it releases is
\* deposited in the owners' outboxes.
TakeReport(m) ==
    LET n  == m.to
        g  == IF m.from \in DOMAIN gate[n].peer
              THEN [gate[n] EXCEPT !.peer[m.from] = MaxOf(@, m.off)] ELSE gate[n]
    IN  /\ Leads(n)
        /\ reports' = reports \ {m}
        /\ gate' = [gate EXCEPT ![n] = AfterRelease(g)]
        /\ client' = [client EXCEPT ![n] = [c \in Conn |->
              [client[n][c] EXCEPT !.out = @ \cup {p \in Released(g) : p.conn = c}]]]
        /\ UNCHANGED <<meta, up, led, logs, seenHw, sess, wire, acked, faults>>

\* The end of a pass over bytes the client sent writes what its outbox holds.
DrainReleased(n, c) ==
    /\ Leads(n)
    /\ client[n][c].out # {}
    /\ client' = [client EXCEPT ![n][c].out = {},
                                ![n][c].replied = @ + Cardinality(client[n][c].out)]
    /\ acked' = acked \cup RecordsOf(n, client[n][c].out)
    /\ UNCHANGED <<meta, up, led, logs, seenHw, sess, wire, reports, gate, faults>>

\* drop_connection: a producer disconnects, its parked acks and its outbox go.
DropConnection(n, c) ==
    /\ Leads(n)
    /\ client[n][c] # NoClient
    /\ faults < MaxFaults
    /\ faults' = faults + 1
    /\ client' = [client EXCEPT ![n][c] = NoClient]
    /\ gate' = [gate EXCEPT ![n].pending = {p \in @ : p.conn # c}]
    /\ UNCHANGED <<meta, up, led, logs, seenHw, sess, wire, reports, acked>>

-----------------------------------------------------------------------------
(* Followers *)

Connect(f) ==
    /\ Follows(f)
    /\ sess[f] = "off"
    /\ Leads(led[f])
    /\ sess' = [sess EXCEPT ![f] = "adopt"]
    /\ UNCHANGED <<meta, up, led, logs, seenHw, wire, reports, gate, client, acked, faults>>

\* Slip: the read plane stops one short of the sealed end.
SlipServedShort(n, from, k) ==
    SubSeq(elog[n], from + 1, MinOf(from + k, sealed[n] - 1))

\* The sealed records a fetch from an offset can return, at most k of them.
Served(n, from, k) == SubSeq(elog[n], from + 1, MinOf(from + k, sealed[n]))

\* Slip: the leader's frontier is not consulted.
SlipTailSuspected(f) == Len(rlog[f]) > known[f]

\* suspect_uncommitted_tail: the tail lies above the leader's flushed frontier
\* and above the committed floor.
TailSuspected(f) ==
    Len(rlog[f]) > Len(elog[led[f]]) /\ Len(rlog[f]) > known[f]

\* reconcile_content_mismatch_on_adopt: the leader's sealed run from the floor
\* disagrees with the follower's own records there.
ContentDiffers(f) ==
    LET theirs == Served(led[f], known[f], MaxRecords)
    IN  /\ Len(rlog[f]) > known[f]
        /\ \E i \in DOMAIN theirs :
              known[f] + i <= Len(rlog[f]) /\ rlog[f][known[f] + i] # theirs[i]

\* heal_divergent_follower: truncate to the committed floor, unless no floor is
\* known or the leader does not reach it; truncate_to refuses a frozen log.
MustHeal(f) ==
    /\ known[f] # 0
    /\ f \notin frozen
    /\ TailSuspected(f) \/ ContentDiffers(f)
    /\ Len(elog[led[f]]) >= known[f]

\* reconcile_on_adopt, once per link before the first forward fetch.  A wire
\* failure in it skips the heal and the loop goes on with the same link.
Adopt(f, wireOk) ==
    /\ sess[f] = "adopt"
    /\ wireOk \/ faults < MaxFaults
    /\ faults' = IF wireOk THEN faults ELSE faults + 1
    /\ sess' = [sess EXCEPT ![f] = "steady"]
    /\ IF wireOk /\ MustHeal(f)
       THEN /\ rlog' = [rlog EXCEPT ![f] = SubSeq(@, 1, known[f])]
            /\ synced' = [synced EXCEPT ![f] = known[f]]
            /\ seenHw' = [seenHw EXCEPT ![f] = known[f]]
       ELSE UNCHANGED <<rlog, synced, seenHw>>
    /\ UNCHANGED <<meta, up, led, elog, sealed, frozen, failed, wire, reports, gate,
                   client, acked>>

\* The follower asks from its frontier and the leader's read plane answers
\* with a run of its sealed prefix and its flushed frontier.  Asking again
\* while an answer is under way is a read timeout.
Fetch(f, k) ==
    /\ sess[f] = "steady"
    /\ Len(wire[f]) < MaxWire
    /\ wire[f] = << >> \/ faults < MaxFaults
    /\ faults' = IF wire[f] = << >> THEN faults ELSE faults + 1
    /\ wire' = [wire EXCEPT ![f] = Append(@,
          [hw |-> Len(elog[led[f]]), first |-> Len(rlog[f]),
           run |-> Served(led[f], Len(rlog[f]), k)])]
    /\ UNCHANGED <<meta, up, led, logs, seenHw, sess, reports, gate, client, acked>>

\* report_from_follower: the appended end of the log, whether it is on disk or
\* not.
Report(f, log) == [to |-> led[f], from |-> f, off |-> Len(log)]

\* Slip: a run that overlaps the log is appended.
SlipContinues(f, resp) == resp.run = << >> \/ resp.first <= Len(rlog[f])

\* apply_fetch takes a run that continues the log.
Continues(f, resp) == resp.run = << >> \/ resp.first = Len(rlog[f])

\* apply_fetch_response observes the leader's high watermark before anything
\* can fail; the loop does not call it for an empty run.
ObserveHw(f, resp) ==
    seenHw' = IF resp.run = << >> THEN seenHw
              ELSE [seenHw EXCEPT ![f] = MaxOf(@, resp.hw)]

DropLink(f) ==
    /\ sess' = [sess EXCEPT ![f] = "off"]
    /\ wire' = [wire EXCEPT ![f] = << >>]

\* One round of follower_fetch_loop: apply the run, fsync, report.  A run that
\* does not continue the log, or that meets a frozen writer, is refused and the
\* link is dropped.  An empty one is not applied, and is reported on all the
\* same.
TakeResponse(f) ==
    LET resp == Head(wire[f])
        log  == rlog[f] \o resp.run
    IN  /\ sess[f] = "steady"
        /\ wire[f] # << >>
        /\ Cardinality({m \in reports : m.from = f}) < MaxReports
        /\ ObserveHw(f, resp)
        /\ IF Continues(f, resp) /\ (resp.run = << >> \/ f \notin frozen)
           THEN /\ rlog' = [rlog EXCEPT ![f] = log]
                /\ synced' = [synced EXCEPT ![f] = IF resp.run = << >> THEN @ ELSE Len(log)]
                /\ wire' = [wire EXCEPT ![f] = Tail(@)]
                /\ reports' = reports \cup {Report(f, log)}
                /\ UNCHANGED sess
           ELSE /\ DropLink(f)
                /\ UNCHANGED <<rlog, synced, reports>>
        /\ UNCHANGED <<meta, up, led, elog, sealed, frozen, failed, gate, client, acked,
                       faults>>

\* The same round when a sync fails, that of a roll before the record after the
\* k-th or the one that ends the batch: the writer freezes, the records already
\* appended stay in the log, and the link is dropped.
SyncFails(f, k) ==
    LET resp == Head(wire[f])
    IN  /\ sess[f] = "steady"
        /\ wire[f] # << >>
        /\ resp.run # << >>
        /\ Continues(f, resp)
        /\ f \notin frozen
        /\ k \in 0 .. Len(resp.run)
        /\ faults < MaxFaults
        /\ faults' = faults + 1
        /\ ObserveHw(f, resp)
        /\ rlog' = [rlog EXCEPT ![f] = @ \o SubSeq(resp.run, 1, k)]
        /\ frozen' = frozen \cup {f}
        /\ failed' = failed \cup {f}
        /\ DropLink(f)
        /\ UNCHANGED <<meta, up, led, elog, sealed, synced, reports, gate, client, acked>>

\* A broken link loses what was under way to the follower; a report already
\* sent may still be read by the leader's old reader thread.
BreakLink(f) ==
    /\ sess[f] # "off"
    /\ faults < MaxFaults
    /\ faults' = faults + 1
    /\ DropLink(f)
    /\ UNCHANGED <<meta, up, led, logs, seenHw, reports, gate, client, acked>>

\* A report lost with its connection.
LoseReport(m) ==
    /\ faults < MaxFaults
    /\ faults' = faults + 1
    /\ reports' = reports \ {m}
    /\ UNCHANGED <<meta, up, led, logs, seenHw, sess, wire, gate, client, acked>>

-----------------------------------------------------------------------------
(* The metadata group, crashes and restarts *)

\* The metadata leader, if it leads the partition, raises the committed bar.
CheckpointCommittedHw(n) ==
    /\ up[n]
    /\ placement.leader = n
    /\ OwnFrontier(n) > bar
    /\ bar' = OwnFrontier(n)
    /\ UNCHANGED <<placement, known, up, led, logs, seenHw, sess, wire, reports, gate,
                   client, acked, faults>>

\* The status snapshot catches up; only a follower's adopt check reads it.
LearnBar(n) ==
    /\ Follows(n)
    /\ known[n] < bar
    /\ known' = [known EXCEPT ![n] = bar]
    /\ UNCHANGED <<placement, bar, up, led, logs, seenHw, sess, wire, reports, gate,
                   client, acked, faults>>

\* The process stops, mid-apply perhaps.  What was fsync'd survives; of what
\* was only appended, or was being appended, any prefix does, and the log that
\* is opened over it takes it for durable.
Crash(n, k) ==
    LET links == {f \in Node : f = n \/ led[f] = n}
        batch == IF /\ Follows(n) /\ n \notin frozen
                    /\ sess[n] = "steady" /\ wire[n] # << >>
                    /\ Head(wire[n]).first = Len(rlog[n])
                 THEN Head(wire[n]).run ELSE << >>
        tail  == rlog[n] \o batch
    IN  /\ up[n]
        /\ faults < MaxFaults
        /\ k \in synced[n] .. Len(tail)
        /\ faults' = faults + 1
        /\ up' = [up EXCEPT ![n] = FALSE]
        /\ rlog' = [rlog EXCEPT ![n] = SubSeq(tail, 1, k)]
        /\ synced' = [synced EXCEPT ![n] = k]
        /\ frozen' = frozen \ {n}
        /\ sess' = [f \in Node |-> IF f \in links THEN "off" ELSE sess[f]]
        /\ wire' = [f \in Node |-> IF f \in links THEN << >> ELSE wire[f]]
        /\ reports' = {m \in reports : m.to # n}
        /\ client' = [client EXCEPT ![n] = [c \in Conn |-> NoClient]]
        /\ UNCHANGED <<meta, led, elog, sealed, failed, seenHw, gate, acked>>

\* from_placements: a fresh data plane over the recovered logs, in the role
\* the committed placement gives this node.
Restart(n) ==
    /\ ~up[n]
    /\ n \in placement.replicas
    /\ up' = [up EXCEPT ![n] = TRUE]
    /\ led' = [led EXCEPT ![n] = placement.leader]
    /\ known' = [known EXCEPT ![n] = 0]
    /\ seenHw' = [seenHw EXCEPT ![n] = Len(rlog[n])]
    /\ gate' = [gate EXCEPT ![n] = FreshGate(n, placement.replicas, Len(elog[n]))]
    /\ UNCHANGED <<placement, bar, logs, sess, wire, reports, client, acked, faults>>

Init ==
    /\ placement = [leader |-> Leader, replicas |-> Node]
    /\ bar = 0
    /\ known = [n \in Node |-> 0]
    /\ up = [n \in Node |-> TRUE]
    /\ led = [n \in Node |-> Leader]
    /\ elog = [n \in Node |-> << >>]
    /\ sealed = [n \in Node |-> 0]
    /\ rlog = [n \in Node |-> << >>]
    /\ synced = [n \in Node |-> 0]
    /\ frozen = {}
    /\ failed = {}
    /\ seenHw = [n \in Node |-> 0]
    /\ sess = [n \in Node |-> "off"]
    /\ wire = [n \in Node |-> << >>]
    /\ reports = {}
    /\ gate = [n \in Node |-> FreshGate(n, Node, 0)]
    /\ client = [n \in Node |-> [c \in Conn |-> NoClient]]
    /\ acked = {}
    /\ faults = 0

ClientStep(n, c) ==
    \/ \E roll \in BOOLEAN : Produce(n, c, roll)
    \/ \E off \in 0 .. Len(elog[n]) - 1 : Retry(n, c, off)
    \/ Present(n, c)
    \/ DrainReleased(n, c)
    \/ DropConnection(n, c)

FollowerStep(f) ==
    \/ Connect(f)
    \/ \E wireOk \in BOOLEAN : Adopt(f, wireOk)
    \/ \E k \in 1 .. MaxRecords : Fetch(f, k)
    \/ TakeResponse(f)
    \/ \E k \in 0 .. MaxRecords : SyncFails(f, k)
    \/ BreakLink(f)

NodeStep(n) ==
    \/ \E roll \in BOOLEAN : FireAndForget(n, roll)
    \/ CheckpointCommittedHw(n)
    \/ LearnBar(n)
    \/ \E k \in 0 .. MaxRecords : Crash(n, k)
    \/ Restart(n)

Next ==
    \/ \E n \in Node, c \in Conn : ClientStep(n, c)
    \/ \E f \in Node : FollowerStep(f)
    \/ \E m \in reports : TakeReport(m) \/ LoseReport(m)
    \/ \E n \in Node : NodeStep(n)

Spec == Init /\ [][Next]_vars

\* The fetch thread of a follower: connect, reconcile, then fetch and apply.
FetchThread(f) ==
    \/ Connect(f)
    \/ Adopt(f, TRUE)
    \/ wire[f] = << >> /\ Fetch(f, MaxRecords)
    \/ TakeResponse(f)

\* The threads of a running node keep running: the follower's fetch loop with
\* its reconnect back-off and the leader's report reader of each link.  A stopped
\* node is restarted.  Producers and the metadata group may stand still, and so may a
\* producer's connection: the leader writes to it what its outbox holds only
\* when bytes arrive on it.
FairSpec ==
    /\ Spec
    /\ \A f \in Node \ {Leader} : /\ WF_vars(FetchThread(f))
                                  /\ WF_vars(\E m \in reports : m.from = f /\ TakeReport(m))
    /\ \A n \in Node : WF_vars(Restart(n))

-----------------------------------------------------------------------------
(* Properties *)

\* The part of a node's copy of the partition that is on disk.
OnDisk(n) == IF n = placement.leader THEN elog[n] ELSE SubSeq(rlog[n], 1, synced[n])

HoldersOf(r) ==
    {n \in placement.replicas : r[2] \in DOMAIN OnDisk(n) /\ OnDisk(n)[r[2]] = r}

HoldersUpTo(k) ==
    {n \in placement.replicas : k <= Len(OnDisk(n))
                                /\ SubSeq(OnDisk(n), 1, k) = SubSeq(elog[Leader], 1, k)}

\* Every value the code can hold: a follower's peers are the other replicas and
\* a gate never parks more than its cap.
TypeOK ==
    /\ placement \in [leader : Node, replicas : SUBSET Node]
    /\ {bar} \cup {known[n] : n \in Node} \subseteq 0 .. MaxRecords
    /\ up \in [Node -> BOOLEAN]
    /\ led \in [Node -> Node]
    /\ \A n \in Node : /\ Len(elog[n]) <= MaxRecords
                       /\ Len(rlog[n]) <= MaxRecords
                       /\ synced[n] \in 0 .. Len(rlog[n])
                       /\ sealed[n] \in 0 .. Len(elog[n])
                       /\ seenHw[n] \in 0 .. MaxRecords
                       /\ sess[n] \in {"off", "adopt", "steady"}
                       /\ Len(wire[n]) <= MaxWire
                       /\ gate[n].peer \in [placement.replicas \ {n} -> 0 .. MaxRecords]
                       /\ gate[n].own \in 0 .. Len(elog[n])
                       /\ Cardinality(gate[n].pending) <= Cap
                       /\ gate[n].pending \subseteq
                             [token : 0 .. gate[n].next, conn : Conn, off : 0 .. MaxRecords]
    /\ frozen \subseteq failed /\ failed \subseteq Node
    /\ acked \subseteq Node \X (1 .. MaxRecords)
    /\ faults \in 0 .. MaxFaults

\* A producer is told its record is quorum-durable only if min_isr replicas
\* hold it on disk, whatever reports are late, duplicated or from a crashed
\* follower (IsrTracker::quorum_commit_offset, release_up_to).  A follower whose
\* own fsync failed may have been counted without holding it, and no other.
NoFalseAck == \A r \in acked : Cardinality(HoldersOf(r) \cup failed) >= MinIsr

\* Everything the leader called committed, to its gate or to the metadata
\* group, is held on disk by min_isr replicas, those whose own fsync failed
\* aside (quorum_commit_offset and checkpoint_committed_hw).
CommitIsHeld ==
    \A k \in {bar} \cup {gate[n].through : n \in {m \in Node : Leads(m)}} :
        Cardinality(HoldersUpTo(k) \cup failed) >= MinIsr \/ k = 0

\* What CLUSTER_INVARIANTS.md calls CI2: a released ack implies that min_isr
\* replicas have each fdatasync'd the record.  It does not hold: a follower
\* whose fsync failed reports the end of what it appended (report_from_follower).
AckImpliesQuorumFsync == \A r \in acked : Cardinality(HoldersOf(r)) >= MinIsr

\* A follower's log is a prefix of its leader's sealed log, whatever responses
\* are late, repeated or cut short by a crash (apply_fetch).
FollowerIsPrefix ==
    \A f \in Node \ {Leader} :
        /\ Len(rlog[f]) <= sealed[Leader]
        /\ rlog[f] = SubSeq(elog[Leader], 1, Len(rlog[f]))

ParkedOf(n, c) == {p \in gate[n].pending : p.conn = c}

\* Every request of a connection is in exactly one place: awaiting its fsync,
\* parked, released to the outbox, or answered on that connection.  Clients
\* match replies to requests by position, so one reply too few or too many
\* misleads them (on_local_fsynced_ack_owned, on_follower_report).
RepliesAccounted ==
    \A n \in Node, c \in Conn : Leads(n) =>
        client[n][c].sent = Len(client[n][c].due) + Cardinality(ParkedOf(n, c))
                            + Cardinality(client[n][c].out) + client[n][c].replied

\* While the leader stays, no restart, crash, failed fsync or new link takes
\* from a follower what it has fsync'd: neither adopt check takes a short leader
\* read for a divergence.
FollowerNeverShrinks ==
    [][\A f \in Node : synced'[f] >= synced[f]]_vars

\* No ack parked up to this one is for a record of the leader's open segment.
SealedUpTo(t) ==
    \A p \in gate[Leader].pending : p.token <= t => p.off < sealed[Leader]

Withheld(t) == \E p \in gate[Leader].pending : p.token = t

\* The leader's open segment alone is longer than max_lag_records: no follower
\* can come within the lag bound, however fast it fetches.
OpenSegmentTooLong == MaxLag # 0 /\ gate[Leader].own - sealed[Leader] > MaxLag

\* An ack parked behind sealed records only leaves the gate, to the outbox of
\* its connection or with that connection, although links break, reports get
\* lost and nodes restart (on_follower_report); unless a replica's writer is
\* frozen or the open segment evicts every follower.
ParkedAcksLeave ==
    \A t \in 0 .. MaxRequests * Cardinality(Conn) :
        (Withheld(t) /\ SealedUpTo(t))
            ~> (~Withheld(t) \/ frozen # {} \/ OpenSegmentTooLong)

\* Every follower comes to hold on disk what the leader has sealed, unless its
\* writer is frozen.
FollowersCatchUp ==
    \A k \in 1 .. MaxRecords :
        (sealed[Leader] >= k) ~> \A f \in Node \ {Leader} : synced[f] >= k \/ f \in frozen
=============================================================================
