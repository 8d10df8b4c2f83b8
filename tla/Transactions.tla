---------------------------- MODULE Transactions ----------------------------
(***************************************************************************)
(* Transactional half messages on the default stream: prepare, commit,     *)
(* rollback, the broker's back-check and a restart.  A commit moves the    *)
(* buffered payload into the real log in four steps on two logs and one    *)
(* checkpoint file: A append the record, A2 write the dedup high-waters,   *)
(* A3 sync the log, B write the committed marker.  The engine is a single  *)
(* writer, so nothing else runs between the steps of a commit, but a crash *)
(* or a storage fault can strike at each of them.                          *)
(*                                                                         *)
(* The txn log syncs every record before it returns, so what it holds is   *)
(* durable; a write that fails there may yet be found after a crash, and a *)
(* failed barrier freezes its writer until the restart.  A commit or       *)
(* rollback is a client's verb or its answer to a back-check.              *)
(* A payload is abstracted to its transaction, a back-check's schedule to  *)
(* "due at any time", and the two-slot checkpoint file to the snapshots    *)
(* that a crash could recover from it (module SlotFile).                   *)
(***************************************************************************)
EXTENDS Integers, FiniteSets, Sequences

CONSTANTS
    Txns,          \* transaction ids
    Plain,         \* a record that belongs to no transaction
    MaxPrepared,   \* cap on concurrently prepared transactions
    MaxAttempts,   \* back-check attempts before the terminal default
    Faults,        \* the storage faults that may strike
    MaxPlain,      \* bound: records of other producers
    MaxMishaps     \* bound: crashes and storage faults together

ASSUME TransactionsAssumption ==
    /\ Plain \notin Txns
    /\ {MaxPrepared, MaxAttempts} \subseteq Nat \ {0}
    /\ {MaxPlain, MaxMishaps} \subseteq Nat
    /\ Faults \subseteq {"half", "checkpoint", "barrier", "marker", "back"}

VARIABLES
    table,     \* lifecycle of each transaction, in memory
    book,      \* back-check attempts of the enrolled ones, -1 if not enrolled
    half, op, back,        \* the txn log: half records, markers, attempts
    txnFrozen, \* a failed barrier froze the txn log's writer
    log,       \* the real log's records, in memory and on disk
    written, synced,       \* how many are in the file, how many are durable
    frozen,    \* a failed barrier froze the real log's writer
    seen,      \* offset recorded for each transaction's record, 0 for none
    file,      \* the high-water snapshots a crash could recover
    job,       \* the commit under way
    told,      \* outcomes acknowledged to a client
    asked,     \* back-checks sent to the producer
    listening, \* a connection with a registered listener is open
    plain, mishaps         \* how much of the bounds is used

txnlog == <<half, op, back, txnFrozen>>
reallog == <<log, written, synced, frozen>>
vars == <<table, book, txnlog, reallog, seen, file, job, told, asked,
          listening, plain, mishaps>>

Outcomes == {"committed", "rolledback"}
Idle == [txn |-> Plain, at |-> "idle"]
At(step) == job.at = step
Snapshots == [Txns -> Nat]

Prepared == {t \in Txns : table[t] = "prepared"}

Init ==
    /\ table = [t \in Txns |-> "none"]
    /\ book = [t \in Txns |-> -1]
    /\ half = {}
    /\ op = [t \in Txns |-> "none"]
    /\ back = [t \in Txns |-> 0] /\ txnFrozen = FALSE
    /\ log = <<>> /\ written = 0 /\ synced = 0 /\ frozen = FALSE
    /\ seen = [t \in Txns |-> 0]
    /\ file = {[t \in Txns |-> 0]}
    /\ job = Idle
    /\ told = [t \in Txns |-> {}]
    /\ asked = [t \in Txns |-> 0] /\ listening = FALSE
    /\ plain = 0 /\ mishaps = 0

\* One more crash or fault is allowed; the fault is one of the enabled ones.
Mishap == mishaps < MaxMishaps /\ mishaps' = mishaps + 1
Fault(kind) == kind \in Faults /\ Mishap

\* A write of the txn log fails.  After a failed barrier the record may have
\* reached the disk and the writer is frozen; an append refused before the
\* barrier leaves the writer as it was; a frozen writer refuses every append.
TxnWriteFails(kind, reached) ==
    \/ ~txnFrozen /\ Fault(kind) /\ txnFrozen' \in {TRUE, reached}
    \/ txnFrozen /\ ~reached /\ UNCHANGED <<txnFrozen, mishaps>>

-----------------------------------------------------------------------------
(* Prepare.  A duplicate, a spent id and a prepare over the count or byte  *)
(* cap change nothing.                                                     *)

Prepare(t) ==
    /\ At("idle")
    /\ table[t] = "none"
    /\ Cardinality(Prepared) < MaxPrepared
    /\ ~txnFrozen
    /\ table' = [table EXCEPT ![t] = "prepared"]
    /\ half' = half \cup {t}
    /\ book' = [book EXCEPT ![t] = 0]
    /\ UNCHANGED <<op, back, txnFrozen, reallog, seen, file, job, told, asked,
                   listening, plain, mishaps>>

\* The half record fails: the id is spent in memory, whatever is on disk.
PrepareFails(t) ==
    /\ At("idle")
    /\ table[t] = "none"
    /\ Cardinality(Prepared) < MaxPrepared
    /\ table' = [table EXCEPT ![t] = "rolledback"]
    /\ \E reached \in BOOLEAN :
          /\ TxnWriteFails("half", reached)
          /\ half' = IF reached THEN half \cup {t} ELSE half
    /\ UNCHANGED <<book, op, back, reallog, seen, file, job, told, asked,
                   listening, plain>>

-----------------------------------------------------------------------------
(* Commit.                                                                 *)

\* The fresh resolve and step A: the record is buffered unless the
\* high-water already knows it.  A refused append puts the txn back.
BeginCommit(t) ==
    /\ At("idle")
    /\ table[t] = "prepared"
    /\ seen[t] # 0 \/ ~frozen
    /\ table' = [table EXCEPT ![t] = "committed"]
    /\ IF seen[t] # 0
       THEN UNCHANGED <<log, seen>>
       ELSE /\ log' = Append(log, t)
            /\ seen' = [seen EXCEPT ![t] = Len(log) + 1]
    /\ job' = [txn |-> t, at |-> "dedup"]
    /\ UNCHANGED <<book, txnlog, written, synced, frozen, file, told, asked,
                   listening, plain, mishaps>>

\* A step of the commit failed: the lifecycle goes back to prepared.
RevertToPrepared ==
    /\ table' = [table EXCEPT ![job.txn] = "prepared"]
    /\ job' = Idle

\* A slip: the high-waters wait for the next checkpoint tick.
FlushDedupLater ==
    /\ At("dedup")
    /\ job' = [job EXCEPT !.at = "write"]
    /\ UNCHANGED <<table, book, txnlog, reallog, seen, file, told, asked,
                   listening, plain, mishaps>>

\* Step A2: the dedup high-waters become durable before the record.
FlushDedup ==
    /\ At("dedup")
    /\ file' = {seen}
    /\ job' = [job EXCEPT !.at = "write"]
    /\ UNCHANGED <<table, book, txnlog, reallog, seen, told, asked, listening,
                   plain, mishaps>>

FlushDedupFails ==
    /\ At("dedup")
    /\ Fault("checkpoint")
    /\ file' = file \cup {seen}
    /\ RevertToPrepared
    /\ UNCHANGED <<book, txnlog, reallog, seen, told, asked, listening, plain>>

\* Step A3: the buffered records are written to the file, then synced.
WritePending ==
    /\ At("write")
    /\ ~frozen
    /\ written' = Len(log)
    /\ job' = [job EXCEPT !.at = "sync"]
    /\ UNCHANGED <<table, book, txnlog, log, synced, frozen, seen, file,
                   told, asked, listening, plain, mishaps>>

SyncRecord ==
    /\ At("sync")
    /\ synced' = written
    /\ job' = [job EXCEPT !.at = "mark"]
    /\ UNCHANGED <<table, book, txnlog, log, written, frozen, seen, file,
                   told, asked, listening, plain, mishaps>>

\* A failed barrier freezes the writer; a frozen one refuses the barrier.
SyncFails ==
    /\ \/ At("sync") /\ Fault("barrier") /\ frozen' = TRUE
       \/ At("write") /\ frozen /\ UNCHANGED <<frozen, mishaps>>
    /\ RevertToPrepared
    /\ UNCHANGED <<book, txnlog, log, written, synced, seen, file, told,
                   asked, listening, plain>>

\* The markers after t's resolution was appended to the txn log.
Marked(t, outcome) == [op EXCEPT ![t] = outcome]

\* Step B: the committed marker; only then is the commit acknowledged.
MarkCommitted ==
    /\ At("mark")
    /\ ~txnFrozen
    /\ op' = Marked(job.txn, "committed")
    /\ book' = [book EXCEPT ![job.txn] = -1]
    /\ told' = [told EXCEPT ![job.txn] = @ \cup {"committed"}]
    /\ job' = Idle
    /\ UNCHANGED <<table, half, back, txnFrozen, reallog, seen, file, asked,
                   listening, plain, mishaps>>

\* The marker's write fails; it is in the txn log or it is not.
MarkerLost(t, outcome) ==
    \E reached \in BOOLEAN :
       /\ TxnWriteFails("marker", reached)
       /\ op' = IF reached THEN Marked(t, outcome) ELSE op

\* Memory says committed, the txn log may not.
MarkFails ==
    /\ At("mark")
    /\ MarkerLost(job.txn, "committed")
    /\ job' = Idle
    /\ UNCHANGED <<table, book, half, back, reallog, seen, file, told, asked,
                   listening, plain>>

-----------------------------------------------------------------------------
(* Rollback, and the retried verbs.                                        *)

\* The rolled-back marker is durable and the transaction leaves the book.
Discard(t) ==
    /\ table' = [table EXCEPT ![t] = "rolledback"]
    /\ op' = Marked(t, "rolledback")
    /\ book' = [book EXCEPT ![t] = -1]

Rollback(t) ==
    /\ At("idle")
    /\ table[t] = "prepared"
    /\ ~txnFrozen
    /\ Discard(t)
    /\ told' = [told EXCEPT ![t] = @ \cup {"rolledback"}]
    /\ UNCHANGED <<half, back, txnFrozen, reallog, seen, file, job, asked,
                   listening, plain, mishaps>>

RollbackFails(t) ==
    /\ At("idle")
    /\ table[t] = "prepared"
    /\ table' = [table EXCEPT ![t] = "rolledback"]
    /\ MarkerLost(t, "rolledback")
    /\ UNCHANGED <<book, half, back, reallog, seen, file, job, told, asked,
                   listening, plain>>

\* A retried verb that agrees with the lifecycle is acknowledged without
\* any write; one that disagrees is refused.
Retry(t, outcome) ==
    /\ At("idle")
    /\ table[t] = outcome
    /\ told' = [told EXCEPT ![t] = @ \cup {outcome}]
    /\ UNCHANGED <<table, book, txnlog, reallog, seen, file, job, asked,
                   listening, plain, mishaps>>

-----------------------------------------------------------------------------
(* The back-check of one due transaction, in a pass of a connection with a *)
(* listener: record the attempt durably, then ask the producer if its own  *)
(* listener is registered or, at the cap, roll back.                       *)

Listen ==
    /\ At("idle") /\ ~listening
    /\ listening' = TRUE
    /\ UNCHANGED <<table, book, txnlog, reallog, seen, file, job, told, asked,
                   plain, mishaps>>

HangUp ==
    /\ At("idle") /\ listening
    /\ listening' = FALSE
    /\ UNCHANGED <<table, book, txnlog, reallog, seen, file, job, told, asked,
                   plain, mishaps>>

Attempt(t) ==
    /\ At("idle") /\ listening
    /\ table[t] = "prepared"
    /\ book[t] >= 0

BackCheck(t) ==
    /\ Attempt(t)
    /\ ~txnFrozen
    /\ back' = [back EXCEPT ![t] = book[t] + 1]
    /\ IF book[t] + 1 >= MaxAttempts
       THEN Discard(t) /\ UNCHANGED asked
       ELSE /\ book' = [book EXCEPT ![t] = @ + 1]
            /\ asked' \in {asked, [asked EXCEPT ![t] = @ + 1]}
            /\ UNCHANGED <<table, op>>
    /\ UNCHANGED <<half, txnFrozen, reallog, seen, file, job, told, listening,
                   plain, mishaps>>

\* The attempt's record fails, and the pass ends there.  The count of a book
\* whose log is frozen is bounded by the cap, past which it decides nothing.
AttemptLost(t) ==
    /\ Attempt(t)
    /\ txnFrozen => book[t] < MaxAttempts
    /\ book' = [book EXCEPT ![t] = @ + 1]
    /\ \E reached \in BOOLEAN :
          /\ TxnWriteFails("back", reached)
          /\ back' = IF reached THEN [back EXCEPT ![t] = book[t] + 1] ELSE back
    /\ UNCHANGED <<table, op, half, reallog, seen, file, job, told, asked,
                   listening, plain>>

\* The attempt is recorded and, at the cap, the rolled-back marker fails.
DefaultLost(t) ==
    /\ Attempt(t)
    /\ ~txnFrozen
    /\ book[t] + 1 >= MaxAttempts
    /\ book' = [book EXCEPT ![t] = @ + 1]
    /\ back' = [back EXCEPT ![t] = book[t] + 1]
    /\ table' = [table EXCEPT ![t] = "rolledback"]
    /\ MarkerLost(t, "rolledback")
    /\ UNCHANGED <<half, reallog, seen, file, job, told, asked, listening,
                   plain>>

-----------------------------------------------------------------------------
(* The rest of the engine: other producers, their group commit and the     *)
(* checkpoints that ride on the consumers' progress.                       *)

Produce ==
    /\ At("idle") /\ ~frozen
    /\ plain < MaxPlain
    /\ plain' = plain + 1
    /\ log' = Append(log, Plain)
    /\ UNCHANGED <<table, book, txnlog, written, synced, frozen, seen, file,
                   job, told, asked, listening, mishaps>>

\* A slip: the durable head is raised without writing the pending records.
CommitBatchUnwritten ==
    /\ At("idle") /\ ~frozen
    /\ synced < Len(log)
    /\ synced' = Len(log)
    /\ UNCHANGED <<table, book, txnlog, log, written, frozen, seen, file, job,
                   told, asked, listening, plain, mishaps>>

CommitBatch ==
    /\ At("idle") /\ ~frozen
    /\ synced < Len(log)
    /\ written' = Len(log) /\ synced' = Len(log)
    /\ UNCHANGED <<table, book, txnlog, log, frozen, seen, file, job, told,
                   asked, listening, plain, mishaps>>

Checkpoint ==
    /\ At("idle")
    /\ file # {seen}
    /\ file' = {seen}
    /\ UNCHANGED <<table, book, txnlog, reallog, seen, job, told, asked,
                   listening, plain, mishaps>>

CheckpointFails ==
    /\ At("idle")
    /\ Fault("checkpoint")
    /\ file' = file \cup {seen}
    /\ UNCHANGED <<table, book, txnlog, reallog, seen, job, told, asked,
                   listening, plain>>

-----------------------------------------------------------------------------
(* Restart.                                                                *)

\* A slip: the replay reads the half records and forgets the markers.
ReplayedHalves(t) == IF t \in half THEN "prepared" ELSE "none"

\* The lifecycle is replayed from the txn log.
Replayed(t) ==
    IF op[t] # "none" THEN op[t]
    ELSE IF t \in half THEN "prepared" ELSE "none"

\* Slips: enrolled with no attempts; enrolled only after a first attempt.
ReplayedBookFresh(t) == IF Replayed(t) = "prepared" THEN 0 ELSE -1

ReplayedBookTried(t) ==
    IF Replayed(t) = "prepared" /\ back[t] > 0 THEN back[t] ELSE -1

\* Every transaction still prepared is enrolled, with its recorded attempts.
ReplayedBook(t) == IF Replayed(t) = "prepared" THEN back[t] ELSE -1

\* A slip: a high-water at the durable head is taken for a record.
ClampedPastHead(snapshot, n) ==
    [t \in Txns |-> IF snapshot[t] <= n + 1 THEN snapshot[t] ELSE 0]

\* A high-water past the n recovered records is dropped, in memory only.
Clamped(snapshot, n) ==
    [t \in Txns |-> IF snapshot[t] <= n THEN snapshot[t] ELSE 0]

\* The process or the machine stops; what was written but not synced may
\* survive.  What recovery reads counts as durable.
Crash ==
    /\ Mishap
    /\ \E n \in synced..written, snapshot \in file :
          /\ log' = SubSeq(log, 1, n)
          /\ written' = n /\ synced' = n
          /\ seen' = Clamped(snapshot, n)
          /\ file' \in {F \in SUBSET file : snapshot \in F}
    /\ frozen' = FALSE /\ txnFrozen' = FALSE /\ listening' = FALSE
    /\ table' = [t \in Txns |-> Replayed(t)]
    /\ book' = [t \in Txns |-> ReplayedBook(t)]
    /\ job' = Idle
    /\ UNCHANGED <<half, op, back, told, asked, plain>>

-----------------------------------------------------------------------------

Commit ==
    \/ FlushDedup \/ FlushDedupFails
    \/ WritePending \/ SyncRecord \/ SyncFails
    \/ MarkCommitted \/ MarkFails

Next ==
    \/ \E t \in Txns :
          \/ Prepare(t) \/ PrepareFails(t)
          \/ BeginCommit(t)
          \/ Rollback(t) \/ RollbackFails(t)
          \/ \E o \in Outcomes : Retry(t, o)
          \/ BackCheck(t) \/ AttemptLost(t) \/ DefaultLost(t)
    \/ Listen \/ HangUp
    \/ Commit
    \/ Produce \/ CommitBatch \/ Checkpoint \/ CheckpointFails
    \/ Crash

Spec == Init /\ [][Next]_vars

\* The engine thread finishes the commit it began.  A connection that stays
\* open keeps sending, and each of its passes calls the tick: a quiet one is
\* closed after `CONNECTION_TIMEOUT`, which is a HangUp.
FairSpec ==
    /\ Spec
    /\ WF_vars(Commit)
    /\ \A t \in Txns : SF_vars(BackCheck(t))

-----------------------------------------------------------------------------
\* Types, and that nothing counts as durable that was not written
\* (`SegmentWriter::sync` flushes the pending records before the barrier).
TypeOK ==
    /\ table \in [Txns -> {"none", "prepared"} \cup Outcomes]
    /\ book \in [Txns -> Int]
    /\ half \subseteq Txns
    /\ op \in [Txns -> {"none"} \cup Outcomes]
    /\ back \in [Txns -> Nat]
    /\ log \in Seq(Txns \cup {Plain})
    /\ synced \in 0..written /\ written \in 0..Len(log)
    /\ {frozen, txnFrozen, listening} \subseteq BOOLEAN
    /\ seen \in Snapshots
    /\ file # {} /\ file \subseteq Snapshots
    /\ job.txn \in Txns \cup {Plain}
    /\ job.at \in {"idle", "dedup", "write", "sync", "mark"}
    /\ told \in [Txns -> SUBSET Outcomes]
    /\ asked \in [Txns -> Nat]

\* However often a commit is interrupted and driven again, a transaction has
\* at most one record in the stream (`commit_real_append`: the durable
\* high-water recognises the redrive).
AtMostOnce ==
    \A t \in Txns : Cardinality({i \in DOMAIN log : log[i] = t}) <= 1

\* No committed-but-empty transaction: once the committed marker is in the txn
\* log, which drops the buffered payload, the record itself is durable
\* (`txn_commit`: A3 before B, and the clamp of a lost record's high-water).
NoCommittedEmpty ==
    \A t \in Txns :
       op[t] = "committed" => \E i \in 1..synced : log[i] = t

\* A client that was told an outcome is never told the other one, and the txn
\* log never holds the other one (`TxnTable::resolve` refuses to flip, and the
\* replay of the markers keeps refusing after a restart).
OutcomeNeverFlips ==
    \A t \in Txns : \A o \in told[t] :
       told[t] = {o} /\ op[t] \in {o, "none"}

\* A producer is asked about a transaction fewer times than the attempt cap,
\* restarts included (`txn_back_check_tick` records before it asks).
BackChecksBounded == \A t \in Txns : asked[t] < MaxAttempts

\* As long as some listener stays connected, no half message stays in doubt
\* for ever, whether its own producer is gone or the broker restarted before
\* the first attempt (`TxnStore::replay` enrols every transaction that is still
\* prepared) - unless a failed barrier froze the txn log, which leaves every
\* prepared transaction in doubt until a restart.
Settled ==
    <>[]listening =>
       \A t \in Txns : <>[](table[t] # "prepared" \/ txnFrozen)

=============================================================================
