------------------------- MODULE Transactions_proofs -------------------------
(***************************************************************************)
(* Proofs about transactional half messages, for any number of             *)
(* transactions, other producers' records and back-check attempts.         *)
(***************************************************************************)
EXTENDS Transactions, FiniteSetTheorems, SequenceTheorems, TLAPS

-----------------------------------------------------------------------------
(* Types.                                                                  *)

\* The steps of a commit.
Steps == {"idle", "dedup", "write", "sync", "mark"}

\* The type invariant, with the commit under way as a record.
Typed ==
    /\ TypeOK
    /\ job \in [txn : Txns \cup {Plain}, at : Steps]
    /\ job.at # "idle" => job.txn \in Txns
    /\ mishaps \in Nat


\* The initial state has its types.
LEMMA TypedInit ==
  ASSUME Init
  PROVE  Typed
<1>1. log \in Seq(Txns \cup {Plain}) /\ Len(log) = 0
  BY DEF Init
<1>2. job \in [txn : Txns \cup {Plain}, at : Steps] /\ job.at = "idle" /\ job.txn = Plain
  BY DEF Init, Idle, Steps
<1>3. /\ table \in [Txns -> {"none", "prepared"} \cup Outcomes]
      /\ op \in [Txns -> {"none"} \cup Outcomes] /\ half \subseteq Txns
  BY DEF Init, Outcomes
<1>4. book \in [Txns -> Int] /\ back \in [Txns -> Nat] /\ asked \in [Txns -> Nat]
  BY DEF Init
<1>5. seen \in Snapshots /\ file # {} /\ file \subseteq Snapshots
  BY DEF Init, Snapshots
<1>6. told \in [Txns -> SUBSET Outcomes]
  BY DEF Init
<1>7. synced \in 0 .. written /\ written \in 0 .. Len(log) /\ mishaps \in Nat
  BY <1>1 DEF Init
<1>8. {frozen, txnFrozen, listening} \subseteq BOOLEAN
  BY DEF Init
<1> QED BY <1>1, <1>2, <1>3, <1>4, <1>5, <1>6, <1>7, <1>8 DEF Typed, TypeOK, Steps

\* Appending to the log keeps what is written and what is durable.
LEMMA AppendTyped ==
  ASSUME Typed, NEW x \in Txns \cup {Plain}, log' = Append(log, x),
         written' = written, synced' = synced
  PROVE  /\ log' \in Seq(Txns \cup {Plain}) /\ Len(log') = Len(log) + 1
         /\ synced' \in 0 .. written' /\ written' \in 0 .. Len(log')
         /\ DOMAIN log = 1 .. Len(log) /\ DOMAIN log' = 1 .. Len(log) + 1
         /\ log'[Len(log) + 1] = x
         /\ \A i \in DOMAIN log : log'[i] = log[i]
<1>1. log \in Seq(Txns \cup {Plain}) /\ Len(log) \in Nat
      /\ synced \in 0 .. written /\ written \in 0 .. Len(log)
  BY DEF Typed, TypeOK
<1>2. /\ log' \in Seq(Txns \cup {Plain}) /\ Len(log') = Len(log) + 1
      /\ DOMAIN log = 1 .. Len(log) /\ DOMAIN log' = 1 .. Len(log) + 1
      /\ log'[Len(log) + 1] = x /\ \A i \in 1 .. Len(log) : log'[i] = log[i]
  BY <1>1
<1> QED BY <1>1, <1>2

\* What recovery reads back is a prefix.
LEMMA PrefixTyped ==
  ASSUME Typed, NEW n \in synced .. written, log' = SubSeq(log, 1, n)
  PROVE  /\ log' \in Seq(Txns \cup {Plain}) /\ Len(log') = n /\ n \in Nat
         /\ n <= written /\ synced <= n /\ written <= Len(log)
         /\ DOMAIN log = 1 .. Len(log) /\ DOMAIN log' = 1 .. n
         /\ \A i \in 1 .. n : log'[i] = log[i]
<1>1. log \in Seq(Txns \cup {Plain}) /\ Len(log) \in Nat
      /\ synced \in 0 .. written /\ written \in 0 .. Len(log)
      /\ DOMAIN log = 1 .. Len(log)
  BY DEF Typed, TypeOK
<1>2. n \in Nat /\ n <= written /\ synced <= n /\ n <= Len(log) /\ written <= Len(log)
  BY <1>1
<1>3. \A i \in 1 .. n : log[i] \in Txns \cup {Plain}
  BY <1>1, <1>2
<1>4. /\ log' \in Seq(Txns \cup {Plain}) /\ Len(log') = IF 1 <= n THEN n - 1 + 1 ELSE 0
      /\ \A i \in 1 .. n - 1 + 1 : log'[i] = log[1 + i - 1]
  BY <1>1, <1>2, <1>3, SubSeqProperties
<1>5. Len(log') = n
  BY <1>2, <1>4
<1>6. DOMAIN log' = 1 .. n
  BY <1>4, <1>5
<1>7. ASSUME NEW i \in 1 .. n PROVE log'[i] = log[i]
  <2>1. i \in 1 .. n - 1 + 1 /\ 1 + i - 1 = i
    BY <1>2
  <2> QED BY <1>4, <2>1
<1> QED BY <1>1, <1>2, <1>4, <1>5, <1>6, <1>7

\* The log and what is written of it are left alone.
LEMMA SameLogTyped ==
  ASSUME Typed, log' = log, written' = written, synced' = synced
  PROVE  /\ log' \in Seq(Txns \cup {Plain})
         /\ synced' \in 0 .. written' /\ written' \in 0 .. Len(log')
BY DEF Typed, TypeOK

\* Every step keeps the types.
LEMMA TypedStep ==
  ASSUME Typed, Next
  PROVE  Typed'
<1>0. /\ table \in [Txns -> {"none", "prepared"} \cup Outcomes]
      /\ book \in [Txns -> Int] /\ half \subseteq Txns
      /\ op \in [Txns -> {"none"} \cup Outcomes] /\ back \in [Txns -> Nat]
      /\ {frozen, txnFrozen, listening} \subseteq BOOLEAN
      /\ seen \in Snapshots /\ file # {} /\ file \subseteq Snapshots
      /\ told \in [Txns -> SUBSET Outcomes] /\ asked \in [Txns -> Nat]
      /\ job \in [txn : Txns \cup {Plain}, at : Steps] /\ mishaps \in Nat
      /\ job.at # "idle" => job.txn \in Txns
      /\ written \in Nat /\ Len(log) \in Nat /\ written <= Len(log)
      /\ synced \in Nat /\ synced <= written /\ log \in Seq(Txns \cup {Plain})
  BY DEF Typed, TypeOK
<1> DEFINE LogOK == /\ log \in Seq(Txns \cup {Plain})
                    /\ synced \in 0 .. written /\ written \in 0 .. Len(log)
<1>a. LogOK
  BY DEF Typed, TypeOK
<1>b. UNCHANGED <<log, written, synced>> => LogOK'
  BY SameLogTyped
<1>q. ASSUME /\ table' \in [Txns -> {"none", "prepared"} \cup Outcomes]
             /\ book' \in [Txns -> Int] /\ half' \subseteq Txns
             /\ op' \in [Txns -> {"none"} \cup Outcomes] /\ back' \in [Txns -> Nat]
             /\ {frozen', txnFrozen', listening'} \subseteq BOOLEAN /\ seen' \in Snapshots
             /\ file' # {} /\ file' \subseteq Snapshots
             /\ told' \in [Txns -> SUBSET Outcomes] /\ asked' \in [Txns -> Nat]
             /\ job' \in [txn : Txns \cup {Plain}, at : Steps] /\ mishaps' \in Nat
             /\ job'.at # "idle" => job'.txn \in Txns
             /\ LogOK'
      PROVE  Typed'
  BY <1>q DEF Typed, TypeOK, Steps, Snapshots, Outcomes
<1>m. Mishap => mishaps' \in Nat
  BY <1>0 DEF Mishap
<1>w. ASSUME NEW kind, NEW b \in BOOLEAN, TxnWriteFails(kind, b)
      PROVE  mishaps' \in Nat /\ txnFrozen' \in BOOLEAN
  BY <1>0, <1>m, <1>w DEF TxnWriteFails, Fault
<1>l. ASSUME NEW t \in Txns, NEW o \in Outcomes, MarkerLost(t, o)
      PROVE  /\ mishaps' \in Nat /\ txnFrozen' \in BOOLEAN
             /\ op' = op \/ op' = [op EXCEPT ![t] = o]
  BY <1>w, <1>l DEF MarkerLost, Marked
<1>j. Idle \in [txn : Txns \cup {Plain}, at : Steps] /\ Idle.at = "idle"
  BY DEF Idle, Steps
<1> HIDE DEF LogOK
<1>1. ASSUME NEW t \in Txns, Prepare(t) PROVE Typed'
  BY <1>0, <1>a, <1>b, <1>q, <1>1 DEF Prepare, txnlog, reallog
<1>2. ASSUME NEW t \in Txns, PrepareFails(t) PROVE Typed'
  <2>1. mishaps' \in Nat /\ txnFrozen' \in BOOLEAN /\ half' \subseteq Txns
    BY <1>0, <1>w, <1>2 DEF PrepareFails
  <2> QED BY <1>0, <1>a, <1>b, <1>q, <1>2, <2>1 DEF PrepareFails, reallog, Outcomes
<1>3. ASSUME NEW t \in Txns, BeginCommit(t) PROVE Typed'
  <2>1. LogOK' /\ seen' \in Snapshots
    <3>1. CASE seen[t] # 0
      BY <1>0, <1>3, <1>b, <3>1 DEF BeginCommit
    <3>2. CASE ~(seen[t] # 0)
      <4>1. log' = Append(log, t) /\ seen' = [seen EXCEPT ![t] = Len(log) + 1]
            /\ written' = written /\ synced' = synced
        BY <1>3, <3>2 DEF BeginCommit
      <4>2. LogOK'
        BY <4>1, AppendTyped DEF LogOK
      <4> QED BY <1>0, <4>1, <4>2 DEF Snapshots
    <3> QED BY <3>1, <3>2
  <2>2. /\ job' = [txn |-> t, at |-> "dedup"] /\ table' = [table EXCEPT ![t] = "committed"]
        /\ UNCHANGED <<book, txnlog, frozen, file, told, asked, listening, mishaps>>
    BY <1>3 DEF BeginCommit
  <2>3. job' \in [txn : Txns \cup {Plain}, at : Steps] /\ job'.txn = t
    BY <2>2 DEF Steps
  <2> QED BY <1>0, <1>q, <2>1, <2>2, <2>3 DEF txnlog, Outcomes
<1>4. ASSUME NEW t \in Txns, Rollback(t) PROVE Typed'
  BY <1>0, <1>a, <1>b, <1>q, <1>4 DEF Rollback, Discard, Marked, reallog, Outcomes
<1>5. ASSUME NEW t \in Txns, RollbackFails(t) PROVE Typed'
  <2>1. /\ mishaps' \in Nat /\ txnFrozen' \in BOOLEAN
        /\ op' = op \/ op' = [op EXCEPT ![t] = "rolledback"]
    BY <1>l, <1>5 DEF RollbackFails, Outcomes
  <2> QED BY <1>0, <1>a, <1>b, <1>q, <1>5, <2>1 DEF RollbackFails, reallog, Outcomes
<1>6. ASSUME NEW t \in Txns, NEW o \in Outcomes, Retry(t, o) PROVE Typed'
  BY <1>0, <1>a, <1>b, <1>q, <1>6 DEF Retry, reallog, txnlog
<1>7. ASSUME NEW t \in Txns, BackCheck(t) PROVE Typed'
  <2> DEFINE n == book[t] + 1
  <2>1. n \in Int /\ n \in Nat /\ asked[t] + 1 \in Nat
    BY <1>0, <1>7 DEF BackCheck, Attempt
  <2>2. /\ back' = [back EXCEPT ![t] = n]
        /\ UNCHANGED <<half, txnFrozen, reallog, seen, file, job, told, listening, mishaps>>
    BY <1>7 DEF BackCheck
  <2>3. /\ table' = [table EXCEPT ![t] = "rolledback"] \/ table' = table
        /\ op' = [op EXCEPT ![t] = "rolledback"] \/ op' = op
        /\ book' = [book EXCEPT ![t] = -1] \/ book' = [book EXCEPT ![t] = n]
        /\ asked' = asked \/ asked' = [asked EXCEPT ![t] = asked[t] + 1]
    BY <1>7 DEF BackCheck, Discard, Marked
  <2> HIDE DEF n
  <2>4. back' \in [Txns -> Nat] /\ asked' \in [Txns -> Nat]
    BY <1>0, <2>1, <2>2, <2>3
  <2>5. book' \in [Txns -> Int]
    BY <1>0, <2>1, <2>3
  <2>6. /\ table' \in [Txns -> {"none", "prepared"} \cup Outcomes]
        /\ op' \in [Txns -> {"none"} \cup Outcomes]
    BY <1>0, <2>3 DEF Outcomes
  <2> QED BY <1>0, <1>b, <1>q, <2>2, <2>4, <2>5, <2>6 DEF reallog
<1>8. ASSUME NEW t \in Txns, AttemptLost(t) \/ DefaultLost(t) PROVE Typed'
  <2> DEFINE n == book[t] + 1
  <2>1. n \in Int /\ n \in Nat
    BY <1>0, <1>8 DEF AttemptLost, DefaultLost, Attempt
  <2>2. /\ book' = [book EXCEPT ![t] = n]
        /\ back' = back \/ back' = [back EXCEPT ![t] = n]
        /\ table' = [table EXCEPT ![t] = "rolledback"] \/ table' = table
        /\ op' = [op EXCEPT ![t] = "rolledback"] \/ op' = op
        /\ mishaps' \in Nat /\ txnFrozen' \in BOOLEAN
        /\ UNCHANGED <<half, reallog, seen, file, job, told, asked, listening>>
    <3>1. CASE AttemptLost(t)
      BY <1>w, <3>1 DEF AttemptLost
    <3>2. CASE DefaultLost(t)
      <4>1. MarkerLost(t, "rolledback")
        BY <3>2 DEF DefaultLost
      <4>2. /\ mishaps' \in Nat /\ txnFrozen' \in BOOLEAN
            /\ op' = op \/ op' = [op EXCEPT ![t] = "rolledback"]
        BY <1>l, <4>1 DEF Outcomes
      <4> QED BY <3>2, <4>2 DEF DefaultLost
    <3> QED BY <1>8, <3>1, <3>2
  <2> HIDE DEF n
  <2>3. back' \in [Txns -> Nat]
    BY <1>0, <2>1, <2>2
  <2>4. book' \in [Txns -> Int]
    BY <1>0, <2>1, <2>2
  <2>5. /\ table' \in [Txns -> {"none", "prepared"} \cup Outcomes]
        /\ op' \in [Txns -> {"none"} \cup Outcomes]
    BY <1>0, <2>2 DEF Outcomes
  <2> QED BY <1>0, <1>b, <1>q, <2>2, <2>3, <2>4, <2>5 DEF reallog
<1>9. ASSUME FlushDedup PROVE Typed'
  <2>1. job' \in [txn : Txns \cup {Plain}, at : Steps] /\ job'.txn = job.txn
    BY <1>0, <1>9 DEF FlushDedup, Steps
  <2> QED BY <1>0, <1>a, <1>b, <1>q, <1>9, <2>1 DEF FlushDedup, At, txnlog, reallog
<1>10. ASSUME FlushDedupFails PROVE Typed'
  BY <1>0, <1>a, <1>b, <1>m, <1>j, <1>q, <1>10
     DEF FlushDedupFails, RevertToPrepared, Fault, At, txnlog, reallog
<1>11. ASSUME WritePending PROVE Typed'
  <2>1. job' \in [txn : Txns \cup {Plain}, at : Steps] /\ job'.txn = job.txn
    BY <1>0, <1>11 DEF WritePending, Steps
  <2>2. LogOK'
    BY <1>0, <1>11 DEF WritePending, LogOK
  <2> QED BY <1>0, <1>q, <1>11, <2>1, <2>2 DEF WritePending, At, txnlog
<1>12. ASSUME SyncRecord PROVE Typed'
  <2>1. job' \in [txn : Txns \cup {Plain}, at : Steps] /\ job'.txn = job.txn
    BY <1>0, <1>12 DEF SyncRecord, Steps
  <2>2. LogOK'
    BY <1>0, <1>12 DEF SyncRecord, LogOK
  <2> QED BY <1>0, <1>q, <1>12, <2>1, <2>2 DEF SyncRecord, At, txnlog
<1>13. ASSUME SyncFails PROVE Typed'
  <2>1. frozen' \in BOOLEAN /\ mishaps' \in Nat
    BY <1>0, <1>m, <1>13 DEF SyncFails, Fault
  <2> QED BY <1>0, <1>a, <1>b, <1>j, <1>q, <1>13, <2>1
          DEF SyncFails, RevertToPrepared, At, txnlog
<1>14. ASSUME MarkCommitted PROVE Typed'
  BY <1>0, <1>a, <1>b, <1>j, <1>q, <1>14 DEF MarkCommitted, Marked, At, reallog, Outcomes
<1>15. ASSUME MarkFails PROVE Typed'
  <2>1. job.txn \in Txns /\ MarkerLost(job.txn, "committed")
    BY <1>0, <1>15 DEF MarkFails, At
  <2>2. /\ mishaps' \in Nat /\ txnFrozen' \in BOOLEAN
        /\ op' = op \/ op' = [op EXCEPT ![job.txn] = "committed"]
    BY <1>l, <2>1 DEF Outcomes
  <2>3. op' \in [Txns -> {"none"} \cup Outcomes]
    BY <1>0, <2>1, <2>2 DEF Outcomes
  <2> QED BY <1>0, <1>a, <1>b, <1>j, <1>q, <1>15, <2>2, <2>3 DEF MarkFails, At, reallog
<1>16. ASSUME Produce PROVE Typed'
  <2>1. LogOK'
    BY <1>16, AppendTyped DEF Produce, LogOK
  <2> QED BY <1>0, <1>q, <1>16, <2>1 DEF Produce, txnlog
<1>17. ASSUME CommitBatch PROVE Typed'
  <2>1. LogOK'
    BY <1>0, <1>17 DEF CommitBatch, LogOK
  <2> QED BY <1>0, <1>q, <1>17, <2>1 DEF CommitBatch, txnlog
<1>18. ASSUME Checkpoint PROVE Typed'
  BY <1>0, <1>a, <1>b, <1>q, <1>18 DEF Checkpoint, txnlog, reallog
<1>19. ASSUME CheckpointFails PROVE Typed'
  BY <1>0, <1>a, <1>b, <1>m, <1>q, <1>19 DEF CheckpointFails, Fault, txnlog, reallog
<1>20. ASSUME Crash PROVE Typed'
  <2>1. PICK n \in synced .. written, snapshot \in file :
           /\ log' = SubSeq(log, 1, n) /\ written' = n /\ synced' = n
           /\ seen' = Clamped(snapshot, n)
           /\ file' \in {F \in SUBSET file : snapshot \in F}
    BY <1>20 DEF Crash
  <2>2. LogOK'
    BY <2>1, PrefixTyped DEF LogOK
  <2>3. seen' \in Snapshots /\ file' # {} /\ file' \subseteq Snapshots
    BY <1>0, <2>1 DEF Clamped, Snapshots
  <2>4. /\ table' = [t \in Txns |-> Replayed(t)] /\ book' = [t \in Txns |-> ReplayedBook(t)]
        /\ frozen' = FALSE /\ txnFrozen' = FALSE /\ listening' = FALSE
        /\ job' = Idle /\ mishaps' \in Nat
        /\ UNCHANGED <<half, op, back, told, asked>>
    BY <1>m, <1>20 DEF Crash
  <2>5. table' \in [Txns -> {"none", "prepared"} \cup Outcomes] /\ book' \in [Txns -> Int]
    BY <1>0, <2>4 DEF Replayed, ReplayedBook
  <2> QED BY <1>0, <1>j, <1>q, <2>2, <2>3, <2>4, <2>5
<1>21. ASSUME Listen \/ HangUp PROVE Typed'
  BY <1>0, <1>a, <1>b, <1>q, <1>21 DEF Listen, HangUp, txnlog, reallog
<1> QED BY <1>1, <1>2, <1>3, <1>4, <1>5, <1>6, <1>7, <1>8, <1>9, <1>10, <1>11, <1>12,
           <1>13, <1>14, <1>15, <1>16, <1>17, <1>18, <1>19, <1>20, <1>21 DEF Next, Commit

\* The types hold throughout.
LEMMA TypedAlways == Spec => []Typed
<1>1. Init => Typed
  BY TypedInit
<1>2. Typed /\ [Next]_vars => Typed'
  <2> SUFFICES ASSUME Typed, [Next]_vars PROVE Typed'
    OBVIOUS
  <2>1. CASE Next
    BY <2>1, TypedStep
  <2>2. CASE UNCHANGED vars
    BY <2>2 DEF vars, txnlog, reallog, Typed, TypeOK, Snapshots
  <2> QED BY <2>1, <2>2
<1> QED BY <1>1, <1>2, PTL DEF Spec

\* Type correctness for every number of transactions and mishaps, and that
\* nothing counts as durable that was not written to the file.
THEOREM TransactionsTypeCorrect == Spec => []TypeOK
BY TypedAlways, PTL DEF Typed

-----------------------------------------------------------------------------
(* Back-checks.                                                            *)

\* The attempts in the book and in the txn log are never behind the questions
\* the producer was asked, and only a transaction with a half record is asked.
Tracked(t) ==
    /\ table[t] = "none" => t \notin half
    /\ table[t] \in {"prepared", "committed"} => t \in half
    /\ op[t] = "committed" => t \in half
    /\ book[t] >= 0 => t \in half /\ asked[t] <= book[t]
    /\ asked[t] > 0 => t \in half
    /\ asked[t] <= back[t]
    /\ asked[t] < MaxAttempts

\* The inductive invariant of the back-checks.
BackInv ==
    /\ \A t \in Txns : Tracked(t)
    /\ ~At("idle") => job.txn \in half


\* Nothing is enrolled or asked in the initial state.
LEMMA BackInit ==
  ASSUME Init
  PROVE  BackInv
<1>1. At("idle")
  BY DEF Init, Idle, At
<1>2. MaxAttempts \in Nat \ {0}
  BY TransactionsAssumption
<1> QED BY <1>1, <1>2 DEF Init, BackInv, Tracked

\* Every step keeps the attempts in line with the questions asked.
LEMMA BackStep ==
  ASSUME Typed, BackInv, Next
  PROVE  BackInv'
<1>0. /\ table \in [Txns -> {"none", "prepared"} \cup Outcomes]
      /\ book \in [Txns -> Int] /\ half \subseteq Txns
      /\ op \in [Txns -> {"none"} \cup Outcomes] /\ back \in [Txns -> Nat]
      /\ asked \in [Txns -> Nat] /\ job \in [txn : Txns \cup {Plain}, at : Steps]
      /\ job.at # "idle" => job.txn \in Txns
  BY DEF Typed, TypeOK
<1>1. MaxAttempts \in Nat
  BY TransactionsAssumption
<1>2. /\ \A u \in Txns : Tracked(u)
      /\ job.at # "idle" => job.txn \in half
  BY DEF BackInv, At
<1>s. ASSUME UNCHANGED <<table, book, half, op, back, asked>>,
             job'.at # "idle" => job.at # "idle" /\ job'.txn = job.txn
      PROVE  BackInv'
  BY <1>2, <1>s DEF BackInv, Tracked, At
<1>i. Idle.at = "idle"
  BY DEF Idle
<1>3. ASSUME NEW t \in Txns, Prepare(t) PROVE BackInv'
  BY <1>0, <1>1, <1>2, <1>3 DEF Prepare, BackInv, Tracked, At
<1>4. ASSUME NEW t \in Txns, PrepareFails(t) PROVE BackInv'
  <2>1. /\ table[t] = "none" /\ table' = [table EXCEPT ![t] = "rolledback"]
        /\ half' = half \/ half' = half \cup {t}
        /\ UNCHANGED <<book, op, back, asked, job>>
    BY <1>4 DEF PrepareFails
  <2> QED BY <1>0, <1>1, <1>2, <2>1 DEF BackInv, Tracked, At
<1>5. ASSUME NEW t \in Txns, BeginCommit(t) PROVE BackInv'
  <2>1. /\ table[t] = "prepared" /\ table' = [table EXCEPT ![t] = "committed"]
        /\ job' = [txn |-> t, at |-> "dedup"]
        /\ UNCHANGED <<book, half, op, back, asked>>
    BY <1>5 DEF BeginCommit, txnlog
  <2>2. t \in half /\ job'.txn = t
    BY <1>2, <2>1 DEF Tracked
  <2> QED BY <1>0, <1>1, <1>2, <2>1, <2>2 DEF BackInv, Tracked, At
<1>6. ASSUME NEW t \in Txns, Rollback(t) PROVE BackInv'
  BY <1>0, <1>1, <1>2, <1>6 DEF Rollback, Discard, Marked, BackInv, Tracked, At
<1>7. ASSUME NEW t \in Txns, RollbackFails(t) PROVE BackInv'
  <2>1. /\ table' = [table EXCEPT ![t] = "rolledback"] /\ job.at = "idle"
        /\ op' = op \/ op' = [op EXCEPT ![t] = "rolledback"]
        /\ UNCHANGED <<book, half, back, asked, job>>
    BY <1>7 DEF RollbackFails, MarkerLost, Marked, At
  <2> QED BY <1>0, <1>1, <1>2, <2>1 DEF BackInv, Tracked, At
<1>8. ASSUME NEW t \in Txns, NEW o \in Outcomes, Retry(t, o) PROVE BackInv'
  BY <1>s, <1>8 DEF Retry, txnlog
<1>9. ASSUME NEW t \in Txns, BackCheck(t) PROVE BackInv'
  <2> DEFINE n == book[t] + 1
  <2>1. /\ table[t] = "prepared" /\ book[t] >= 0 /\ job.at = "idle"
        /\ back' = [back EXCEPT ![t] = n] /\ UNCHANGED <<half, job>>
    BY <1>9 DEF BackCheck, Attempt, At
  <2>2. t \in half /\ asked[t] <= book[t] /\ n \in Nat /\ n > asked[t] /\ n > book[t]
    BY <1>0, <1>2, <2>1 DEF Tracked
  <2>3. CASE n >= MaxAttempts
    <3>1. /\ table' = [table EXCEPT ![t] = "rolledback"] /\ op' = [op EXCEPT ![t] = "rolledback"]
          /\ book' = [book EXCEPT ![t] = -1] /\ asked' = asked
      BY <1>9, <2>3 DEF BackCheck, Discard, Marked
    <3> HIDE DEF n
    <3> QED BY <1>0, <1>1, <1>2, <2>1, <2>2, <3>1 DEF BackInv, Tracked, At
  <2>4. CASE ~(n >= MaxAttempts)
    <3>1. /\ UNCHANGED <<table, op>> /\ book' = [book EXCEPT ![t] = n]
          /\ asked' = asked \/ asked' = [asked EXCEPT ![t] = asked[t] + 1]
      BY <1>9, <2>4 DEF BackCheck
    <3>2. asked[t] + 1 <= n /\ asked[t] + 1 < MaxAttempts /\ n \in Nat /\ asked[t] + 1 \in Nat
      BY <1>0, <1>1, <2>2, <2>4
    <3> HIDE DEF n
    <3>3. ASSUME NEW u \in Txns PROVE Tracked(u)'
      <4>1. CASE u = t
        BY <1>0, <1>2, <2>1, <2>2, <3>1, <3>2, <4>1 DEF Tracked
      <4>2. CASE u # t
        BY <1>0, <1>2, <2>1, <3>1, <4>2 DEF Tracked
      <4> QED BY <4>1, <4>2
    <3> QED BY <2>1, <3>3 DEF BackInv, At
  <2> QED BY <2>3, <2>4
<1>10. ASSUME NEW t \in Txns, AttemptLost(t) \/ DefaultLost(t) PROVE BackInv'
  <2> DEFINE n == book[t] + 1
  <2>1. /\ table[t] = "prepared" /\ book[t] >= 0 /\ job.at = "idle"
        /\ book' = [book EXCEPT ![t] = n] /\ UNCHANGED <<half, job, asked>>
        /\ back' = back \/ back' = [back EXCEPT ![t] = n]
        /\ \/ UNCHANGED <<table, op>>
           \/ /\ table' = [table EXCEPT ![t] = "rolledback"]
              /\ op' = op \/ op' = [op EXCEPT ![t] = "rolledback"]
    BY <1>10 DEF AttemptLost, DefaultLost, Attempt, At, MarkerLost, Marked
  <2>2. t \in half /\ asked[t] <= book[t] /\ n \in Nat /\ n > asked[t] /\ n > book[t]
    BY <1>0, <1>2, <2>1 DEF Tracked
  <2> HIDE DEF n
  <2>3. ASSUME NEW u \in Txns PROVE Tracked(u)'
    <3>1. CASE u = t
      BY <1>0, <1>2, <2>1, <2>2, <3>1 DEF Tracked
    <3>2. CASE u # t
      BY <1>0, <1>2, <2>1, <3>2 DEF Tracked
    <3> QED BY <3>1, <3>2
  <2> QED BY <2>1, <2>3 DEF BackInv, At
<1>r. ASSUME job.at # "idle", RevertToPrepared, UNCHANGED <<book, half, op, back, asked>>
      PROVE  BackInv'
  BY <1>0, <1>1, <1>2, <1>i, <1>r DEF RevertToPrepared, BackInv, Tracked, At
<1>11. ASSUME FlushDedup PROVE BackInv'
  BY <1>0, <1>s, <1>11 DEF FlushDedup, At, txnlog
<1>12. ASSUME FlushDedupFails PROVE BackInv'
  BY <1>r, <1>12 DEF FlushDedupFails, At, txnlog
<1>13. ASSUME WritePending PROVE BackInv'
  BY <1>0, <1>s, <1>13 DEF WritePending, At, txnlog
<1>14. ASSUME SyncRecord PROVE BackInv'
  BY <1>0, <1>s, <1>14 DEF SyncRecord, At, txnlog
<1>15. ASSUME SyncFails PROVE BackInv'
  BY <1>r, <1>15 DEF SyncFails, At, txnlog
<1>16. ASSUME MarkCommitted PROVE BackInv'
  BY <1>0, <1>1, <1>2, <1>i, <1>16 DEF MarkCommitted, Marked, BackInv, Tracked, At
<1>17. ASSUME MarkFails PROVE BackInv'
  <2>1. /\ job.at # "idle" /\ job'.at = "idle"
        /\ op' = op \/ op' = [op EXCEPT ![job.txn] = "committed"]
        /\ UNCHANGED <<table, book, half, back, asked>>
    BY <1>i, <1>17 DEF MarkFails, MarkerLost, Marked, At
  <2> QED BY <1>0, <1>1, <1>2, <2>1 DEF BackInv, Tracked, At
<1>18. ASSUME Produce \/ CommitBatch \/ Checkpoint \/ CheckpointFails \/ Listen \/ HangUp
       PROVE  BackInv'
  BY <1>s, <1>18 DEF Produce, CommitBatch, Checkpoint, CheckpointFails, Listen, HangUp, txnlog
<1>19. ASSUME Crash PROVE BackInv'
  <2>1. /\ table' = [t \in Txns |-> Replayed(t)] /\ book' = [t \in Txns |-> ReplayedBook(t)]
        /\ job'.at = "idle" /\ UNCHANGED <<half, op, back, asked>>
    BY <1>i, <1>19 DEF Crash
  <2>2. ASSUME NEW u \in Txns PROVE Tracked(u)'
    <3>1. Tracked(u) /\ op[u] \in {"none"} \cup Outcomes /\ back[u] \in Nat /\ asked[u] \in Nat
      BY <1>0, <1>2
    <3>2. table'[u] = Replayed(u) /\ book'[u] = ReplayedBook(u)
      BY <2>1
    <3> QED BY <2>1, <3>1, <3>2 DEF Tracked, Replayed, ReplayedBook, Outcomes
  <2> QED BY <2>1, <2>2 DEF BackInv, At
<1> QED BY <1>3, <1>4, <1>5, <1>6, <1>7, <1>8, <1>9, <1>10, <1>11, <1>12, <1>13, <1>14,
           <1>15, <1>16, <1>17, <1>18, <1>19 DEF Next, Commit

\* The attempts are in line with the questions throughout.
LEMMA BackAlways == Spec => []BackInv
<1>1. Init => BackInv
  BY BackInit
<1>2. Typed /\ BackInv /\ [Next]_vars => BackInv'
  <2> SUFFICES ASSUME Typed, BackInv, [Next]_vars PROVE BackInv'
    OBVIOUS
  <2>1. CASE Next
    BY <2>1, BackStep
  <2>2. CASE UNCHANGED vars
    BY <2>2 DEF vars, txnlog, BackInv, Tracked, At
  <2> QED BY <2>1, <2>2
<1> QED BY <1>1, <1>2, TypedAlways, PTL DEF Spec

\* However many crashes and failed attempt records there are, a producer is
\* asked fewer times than the cap: `txn_back_check_tick` counts the attempt in
\* the book and in the txn log before it asks, and a restart resumes from the
\* larger of what it may have asked.
THEOREM ProducerAskedWithinCap == Spec => []BackChecksBounded
<1>1. BackInv => BackChecksBounded
  BY DEF BackInv, Tracked, BackChecksBounded
<1> QED BY <1>1, BackAlways, PTL

-----------------------------------------------------------------------------
(* Outcomes.                                                               *)

\* The faults of the txn log.
TxnFaults == {"half", "marker", "back"}

\* No write of the txn log has failed.
MarkersClean == Faults \cap TxnFaults = {} \/ mishaps = 0

\* Where a crash is still to come, no write of the txn log failed before it.
MarkersSafe == Faults \cap TxnFaults = {} \/ MaxMishaps <= 1

\* A durable marker is the lifecycle in memory, a client was told that
\* lifecycle, and as long as no marker failed the txn log knows it.
OutcomeInv ==
    /\ \A t \in Txns :
          /\ op[t] # "none" => table[t] = op[t]
          /\ \A o \in told[t] : table[t] = o
          /\ MarkersClean =>
                /\ \A o \in told[t] : op[t] = o
                /\ table[t] \in Outcomes =>
                      op[t] = table[t] \/ (~At("idle") /\ job.txn = t)
    /\ ~At("idle") =>
          /\ table[job.txn] = "committed" /\ op[job.txn] = "none"
          /\ told[job.txn] = {}
    /\ txnFrozen => ~MarkersClean

\* Nothing is resolved in the initial state.
LEMMA OutcomeInit ==
  ASSUME Init
  PROVE  OutcomeInv
<1>1. At("idle")
  BY DEF Init, Idle, At
<1> QED BY <1>1 DEF Init, OutcomeInv, Outcomes

\* A mishap is counted, so a failed write of the txn log is not forgotten.
LEMMA MishapCounts ==
  ASSUME Typed, Mishap
  PROVE  mishaps' # 0 /\ mishaps < MaxMishaps /\ (MaxMishaps <= 1 => mishaps = 0)
<1>1. mishaps \in Nat /\ MaxMishaps \in Nat
  BY TransactionsAssumption DEF Typed
<1> QED BY <1>1 DEF Mishap

\* Every step keeps the lifecycle, the markers and the answers in agreement.
LEMMA OutcomeStep ==
  ASSUME Typed, OutcomeInv, MarkersSafe, Next
  PROVE  OutcomeInv'
<1>0. /\ table \in [Txns -> {"none", "prepared"} \cup Outcomes]
      /\ op \in [Txns -> {"none"} \cup Outcomes] /\ told \in [Txns -> SUBSET Outcomes]
      /\ job \in [txn : Txns \cup {Plain}, at : Steps]
      /\ job.at # "idle" => job.txn \in Txns
  BY DEF Typed, TypeOK
<1> DEFINE Fine(u) ==
             /\ op[u] # "none" => table[u] = op[u]
             /\ \A o \in told[u] : table[u] = o
             /\ MarkersClean => \A o \in told[u] : op[u] = o
             /\ MarkersClean => (table[u] \in Outcomes =>
                                    op[u] = table[u] \/ (job.at # "idle" /\ job.txn = u))
           Under == job.at # "idle" =>
                       /\ table[job.txn] = "committed" /\ op[job.txn] = "none"
                       /\ told[job.txn] = {}
<1>1. (\A u \in Txns : Fine(u)) /\ Under /\ (txnFrozen => ~MarkersClean)
  BY DEF OutcomeInv, At
<1>q. ASSUME \A u \in Txns : Fine(u)', Under', txnFrozen' => ~MarkersClean' PROVE OutcomeInv'
  BY <1>q DEF OutcomeInv, At
<1>i. Idle.at = "idle"
  BY DEF Idle
<1>m. Mishap => mishaps' # 0
  BY MishapCounts
<1>c. mishaps' = mishaps => MarkersClean' = MarkersClean
  BY DEF MarkersClean
<1>d. Mishap => (MarkersClean' => MarkersClean)
  BY <1>m DEF MarkersClean
<1>e. ASSUME NEW kind \in TxnFaults, NEW b \in BOOLEAN, TxnWriteFails(kind, b)
      PROVE  ~MarkersClean'
  <2>1. CASE txnFrozen /\ mishaps' = mishaps
    BY <1>1, <1>c, <2>1
  <2>2. CASE Fault(kind)
    BY <1>m, <2>2 DEF MarkersClean, Fault
  <2> QED BY <1>e, <2>1, <2>2 DEF TxnWriteFails
\* What a lost marker leaves.
<1>l. ASSUME NEW t \in Txns, NEW o \in Outcomes, MarkerLost(t, o)
      PROVE  ~MarkersClean' /\ (op' = op \/ op' = [op EXCEPT ![t] = o])
  BY <1>e, <1>l DEF MarkerLost, Marked, TxnFaults
<1>s. ASSUME UNCHANGED <<table, op, told>>, MarkersClean' => MarkersClean,
             txnFrozen' = txnFrozen \/ ~MarkersClean',
             \/ job' = job
             \/ job.at # "idle" /\ job'.at # "idle" /\ job'.txn = job.txn
      PROVE  OutcomeInv'
  BY <1>1, <1>q, <1>s
\* A prepared transaction has neither a marker nor an answer.
<1>p. ASSUME NEW t \in Txns, table[t] \in {"none", "prepared"}
      PROVE  op[t] = "none" /\ told[t] = {}
  BY <1>0, <1>1, <1>p DEF Outcomes
<1>2. ASSUME NEW t \in Txns, Prepare(t) PROVE OutcomeInv'
  BY <1>0, <1>1, <1>c, <1>p, <1>q, <1>2 DEF Prepare, At, Outcomes
<1>3. ASSUME NEW t \in Txns, PrepareFails(t) PROVE OutcomeInv'
  <2>1. ~MarkersClean'
    BY <1>e, <1>3 DEF PrepareFails, TxnFaults
  <2> QED BY <1>0, <1>1, <1>p, <1>q, <1>3, <2>1 DEF PrepareFails, At
<1>4. ASSUME NEW t \in Txns, BeginCommit(t) PROVE OutcomeInv'
  <2>1. /\ table[t] = "prepared" /\ table' = [table EXCEPT ![t] = "committed"]
        /\ job' = [txn |-> t, at |-> "dedup"] /\ job.at = "idle"
        /\ UNCHANGED <<op, told, txnFrozen, mishaps>>
    BY <1>4 DEF BeginCommit, txnlog, At
  <2>2. job'.txn = t /\ job'.at # "idle"
    BY <2>1
  <2> QED BY <1>0, <1>1, <1>c, <1>p, <1>q, <2>1, <2>2
<1>5. ASSUME NEW t \in Txns, Rollback(t) PROVE OutcomeInv'
  BY <1>0, <1>1, <1>c, <1>p, <1>q, <1>5 DEF Rollback, Discard, Marked, At
\* The rolled-back marker failed: memory says so, the txn log may.
<1>f. ASSUME NEW t \in Txns, table[t] = "prepared", job.at = "idle",
             table' = [table EXCEPT ![t] = "rolledback"],
             told' = told, job' = job, MarkerLost(t, "rolledback")
      PROVE  OutcomeInv'
  <2>1. ~MarkersClean' /\ (op' = op \/ op' = [op EXCEPT ![t] = "rolledback"])
    BY <1>l, <1>f DEF Outcomes
  <2> QED BY <1>0, <1>1, <1>p, <1>q, <1>f, <2>1
<1>6. ASSUME NEW t \in Txns, RollbackFails(t) PROVE OutcomeInv'
  BY <1>f, <1>6 DEF RollbackFails, At
<1>7. ASSUME NEW t \in Txns, NEW o \in Outcomes, Retry(t, o) PROVE OutcomeInv'
  BY <1>0, <1>1, <1>c, <1>q, <1>7 DEF Retry, At, txnlog
<1>8. ASSUME NEW t \in Txns, BackCheck(t) PROVE OutcomeInv'
  <2>1. /\ table[t] = "prepared" /\ job.at = "idle" /\ UNCHANGED <<job, told, txnFrozen, mishaps>>
        /\ \/ UNCHANGED <<table, op>>
           \/ /\ table' = [table EXCEPT ![t] = "rolledback"]
              /\ op' = [op EXCEPT ![t] = "rolledback"]
    BY <1>8 DEF BackCheck, Attempt, Discard, Marked, At
  <2>2. CASE UNCHANGED <<table, op>>
    BY <1>c, <1>s, <2>1, <2>2
  <2>3. CASE table' = [table EXCEPT ![t] = "rolledback"] /\ op' = [op EXCEPT ![t] = "rolledback"]
    BY <1>0, <1>1, <1>c, <1>p, <1>q, <2>1, <2>3
  <2> QED BY <2>1, <2>2, <2>3
<1>9. ASSUME NEW t \in Txns, AttemptLost(t) PROVE OutcomeInv'
  <2>1. ~MarkersClean'
    BY <1>e, <1>9 DEF AttemptLost, TxnFaults
  <2> QED BY <1>s, <1>9, <2>1 DEF AttemptLost
<1>19. ASSUME NEW t \in Txns, DefaultLost(t) PROVE OutcomeInv'
  BY <1>f, <1>19 DEF DefaultLost, Attempt, At
<1>r. ASSUME job.at # "idle", RevertToPrepared, UNCHANGED <<op, told, txnFrozen>>,
             MarkersClean' => MarkersClean
      PROVE  OutcomeInv'
  BY <1>0, <1>1, <1>i, <1>q, <1>r DEF RevertToPrepared, Outcomes
<1>10. ASSUME FlushDedup PROVE OutcomeInv'
  BY <1>0, <1>c, <1>s, <1>10 DEF FlushDedup, At, txnlog
<1>11. ASSUME FlushDedupFails PROVE OutcomeInv'
  BY <1>d, <1>r, <1>11 DEF FlushDedupFails, At, txnlog, Fault
<1>12. ASSUME WritePending PROVE OutcomeInv'
  BY <1>0, <1>c, <1>s, <1>12 DEF WritePending, At, txnlog
<1>13. ASSUME SyncRecord PROVE OutcomeInv'
  BY <1>0, <1>c, <1>s, <1>13 DEF SyncRecord, At, txnlog
<1>14. ASSUME SyncFails PROVE OutcomeInv'
  BY <1>c, <1>d, <1>r, <1>14 DEF SyncFails, At, txnlog, Fault
<1>15. ASSUME MarkCommitted PROVE OutcomeInv'
  BY <1>0, <1>1, <1>c, <1>i, <1>q, <1>15 DEF MarkCommitted, Marked, At, Outcomes
<1>16. ASSUME MarkFails PROVE OutcomeInv'
  <2>1. /\ job.at # "idle" /\ job'.at = "idle" /\ UNCHANGED <<table, told>>
        /\ op' = op \/ op' = [op EXCEPT ![job.txn] = "committed"]
        /\ ~MarkersClean'
    <3>1. job.txn \in Txns /\ MarkerLost(job.txn, "committed") /\ "committed" \in Outcomes
      BY <1>0, <1>16 DEF MarkFails, At, Outcomes
    <3> QED BY <1>i, <1>l, <1>16, <3>1 DEF MarkFails, At
  <2> QED BY <1>0, <1>1, <1>q, <2>1
<1>17. ASSUME Produce \/ CommitBatch \/ Checkpoint \/ CheckpointFails \/ Listen \/ HangUp
       PROVE  OutcomeInv'
  BY <1>c, <1>d, <1>s, <1>17
     DEF Produce, CommitBatch, Checkpoint, CheckpointFails, Listen, HangUp, txnlog, Fault
<1>18. ASSUME Crash PROVE OutcomeInv'
  <2>1. /\ table' = [t \in Txns |-> Replayed(t)] /\ job'.at = "idle" /\ UNCHANGED <<op, told>>
        /\ Mishap /\ txnFrozen' = FALSE
    BY <1>i, <1>18 DEF Crash
  <2>2. MarkersClean
    BY <2>1, MishapCounts DEF MarkersClean, MarkersSafe
  <2>3. ASSUME NEW u \in Txns PROVE Fine(u)'
    <3>1. /\ op[u] \in {"none"} \cup Outcomes /\ told[u] \subseteq Outcomes
          /\ \A o \in told[u] : op[u] = o
      BY <1>0, <1>1, <2>2
    <3>2. table'[u] = Replayed(u) /\ op'[u] = op[u] /\ told'[u] = told[u]
      BY <2>1
    <3> QED BY <3>1, <3>2 DEF Replayed, Outcomes
  <2> QED BY <1>q, <2>1, <2>3
<1> QED BY <1>2, <1>3, <1>4, <1>5, <1>6, <1>7, <1>8, <1>9, <1>10, <1>11, <1>12, <1>13, <1>14,
           <1>15, <1>16, <1>17, <1>18, <1>19 DEF Next, Commit

\* A client is never told both outcomes and the txn log never holds the other
\* one, for every number of transactions: where no write of the txn log fails,
\* after any number of crashes and other faults; where such a write may fail,
\* as long as no crash follows it.  A crash after a failed marker forgets the
\* resolution that memory already acknowledged to a retried verb.
THEOREM OutcomeStable ==
  ASSUME MarkersSafe
  PROVE  Spec => []OutcomeNeverFlips
<1>1. Init => OutcomeInv
  BY OutcomeInit
<1>2. Typed /\ OutcomeInv /\ [Next]_vars => OutcomeInv'
  <2> SUFFICES ASSUME Typed, OutcomeInv, [Next]_vars PROVE OutcomeInv'
    OBVIOUS
  <2>1. CASE Next
    BY <2>1, MarkersSafe, OutcomeStep
  <2>2. CASE UNCHANGED vars
    BY <2>2 DEF vars, txnlog, OutcomeInv, MarkersClean, TxnFaults, At
  <2> QED BY <2>1, <2>2
<1>3. Typed /\ OutcomeInv => OutcomeNeverFlips
  <2> SUFFICES ASSUME Typed, OutcomeInv, NEW t \in Txns, NEW o \in told[t]
               PROVE  told[t] = {o} /\ op[t] \in {o, "none"}
    BY DEF OutcomeNeverFlips
  <2>1. /\ \A x \in told[t] : table[t] = x
        /\ op[t] # "none" => table[t] = op[t]
    BY DEF OutcomeInv
  <2> QED BY <2>1
<1> QED BY <1>1, <1>2, <1>3, TypedAlways, PTL DEF Spec

-----------------------------------------------------------------------------
(* One record per transaction.                                             *)

\* No checkpoint write has failed.
FileClean == "checkpoint" \notin Faults \/ mishaps = 0

\* Where a crash is still to come, no checkpoint write failed before it.
FileSafe == "checkpoint" \notin Faults \/ MaxMishaps <= 1

\* A transaction's record is where the high-water says, in memory and, as far
\* as a crash could recover the record, in every recoverable snapshot.
RecordInv ==
    /\ \A i \in DOMAIN log : log[i] \in Txns => seen[log[i]] = i
    /\ FileClean =>
          \A s \in file : \A i \in DOMAIN log :
             log[i] \in Txns /\ (At("dedup") => i <= written) => s[log[i]] = i


\* The log is empty in the initial state.
LEMMA RecordInit ==
  ASSUME Init
  PROVE  RecordInv
<1>1. DOMAIN log = {}
  BY DEF Init
<1> QED BY <1>1 DEF RecordInv

\* Every step keeps the high-waters at the transactions' records.
LEMMA RecordStep ==
  ASSUME Typed, RecordInv, FileSafe, Next
  PROVE  RecordInv'
<1>0. /\ log \in Seq(Txns \cup {Plain}) /\ DOMAIN log = 1 .. Len(log) /\ Len(log) \in Nat
      /\ written \in Nat /\ written <= Len(log)
      /\ seen \in [Txns -> Nat] /\ file \subseteq [Txns -> Nat] /\ mishaps \in Nat
      /\ job \in [txn : Txns \cup {Plain}, at : Steps]
  BY DEF Typed, TypeOK, Snapshots
<1>1. \A i \in DOMAIN log : log[i] \in Txns => seen[log[i]] = i
  BY DEF RecordInv
<1>2. FileClean => \A s \in file : \A i \in DOMAIN log :
         log[i] \in Txns /\ (At("dedup") => i <= written) => s[log[i]] = i
  BY DEF RecordInv
<1>i. Idle.at = "idle"
  BY DEF Idle
<1>m. Mishap => mishaps' # 0
  BY MishapCounts
<1>c. mishaps' = mishaps => FileClean' = FileClean
  BY DEF FileClean
<1>d. Mishap => (FileClean' => FileClean)
  BY <1>m DEF FileClean
<1>e. Fault("checkpoint") => ~FileClean'
  BY <1>m DEF FileClean, Fault
<1>s. ASSUME UNCHANGED <<log, seen, file>>, FileClean' => FileClean, ~At("dedup") \/ written' = written,
             At("dedup") => At("dedup")'
      PROVE  RecordInv'
  BY <1>1, <1>2, <1>s DEF RecordInv
<1>3. ASSUME NEW t \in Txns,
             \/ Prepare(t) \/ PrepareFails(t) \/ Rollback(t) \/ RollbackFails(t)
             \/ \E o \in Outcomes : Retry(t, o)
             \/ BackCheck(t) \/ AttemptLost(t) \/ DefaultLost(t)
      PROVE  RecordInv'
  <2>1. UNCHANGED <<log, written, seen, file, job>> /\ (mishaps' = mishaps \/ Mishap)
    BY <1>3 DEF Prepare, PrepareFails, Rollback, RollbackFails, Retry, BackCheck, AttemptLost,
                DefaultLost, MarkerLost, TxnWriteFails, Fault, reallog
  <2> QED BY <1>c, <1>d, <1>s, <2>1 DEF At
<1>4. ASSUME NEW t \in Txns, BeginCommit(t) PROVE RecordInv'
  <2>1. /\ job.at = "idle" /\ job' = [txn |-> t, at |-> "dedup"]
        /\ UNCHANGED <<written, synced, file, mishaps>>
    BY <1>4 DEF BeginCommit, At
  <2>2. CASE seen[t] # 0
    <3>1. UNCHANGED <<log, seen>>
      BY <1>4, <2>2 DEF BeginCommit
    <3> QED BY <1>c, <1>s, <2>1, <3>1 DEF At
  <2>3. CASE seen[t] = 0
    <3>1. log' = Append(log, t) /\ seen' = [seen EXCEPT ![t] = Len(log) + 1]
      BY <1>4, <2>3 DEF BeginCommit
    <3>2. /\ DOMAIN log' = 1 .. Len(log) + 1 /\ log'[Len(log) + 1] = t
          /\ \A i \in DOMAIN log : log'[i] = log[i]
      BY <2>1, <3>1, AppendTyped
    <3>3. \A i \in DOMAIN log : log[i] # t
      BY <1>0, <1>1, <2>3
    <3>4. ASSUME NEW i \in DOMAIN log', log'[i] \in Txns PROVE seen'[log'[i]] = i
      <4>1. CASE i = Len(log) + 1
        BY <1>0, <3>1, <3>2, <4>1
      <4>2. CASE i # Len(log) + 1
        <5>1. i \in DOMAIN log
          BY <1>0, <3>2, <4>2
        <5> QED BY <1>0, <1>1, <3>1, <3>2, <3>3, <3>4, <5>1
      <4> QED BY <4>1, <4>2
    <3>5. ASSUME FileClean', NEW s \in file', NEW i \in DOMAIN log', log'[i] \in Txns,
                 At("dedup")' => i <= written'
          PROVE  s[log'[i]] = i
      <4>1. i <= written
        BY <2>1, <3>5 DEF At
      <4>2. i \in DOMAIN log
        BY <1>0, <3>2, <4>1
      <4>3. ~At("dedup") /\ s \in file /\ FileClean
        BY <1>c, <2>1, <3>5 DEF At
      <4> QED BY <1>2, <3>2, <3>5, <4>2, <4>3
    <3> QED BY <3>4, <3>5 DEF RecordInv
  <2> QED BY <2>2, <2>3
\* A finished write of the snapshot leaves only what memory holds.
<1>w. ASSUME UNCHANGED <<log, seen>>, file' = {seen}
      PROVE  RecordInv'
  BY <1>1, <1>w DEF RecordInv
\* A failed one is remembered.
<1>f. ASSUME UNCHANGED <<log, seen>>, ~FileClean'
      PROVE  RecordInv'
  BY <1>1, <1>f DEF RecordInv
<1>5. ASSUME FlushDedup \/ Checkpoint PROVE RecordInv'
  BY <1>w, <1>5 DEF FlushDedup, Checkpoint, reallog
<1>6. ASSUME FlushDedupFails \/ CheckpointFails PROVE RecordInv'
  BY <1>e, <1>f, <1>6 DEF FlushDedupFails, CheckpointFails, reallog
<1>7. ASSUME WritePending PROVE RecordInv'
  BY <1>c, <1>s, <1>7 DEF WritePending, At
<1>8. ASSUME SyncRecord PROVE RecordInv'
  BY <1>c, <1>s, <1>8 DEF SyncRecord, At
<1>9. ASSUME SyncFails PROVE RecordInv'
  BY <1>c, <1>d, <1>s, <1>9 DEF SyncFails, At, Fault
<1>10. ASSUME MarkCommitted \/ MarkFails PROVE RecordInv'
  <2>1. /\ UNCHANGED <<log, written, seen, file>> /\ ~At("dedup")
        /\ mishaps' = mishaps \/ Mishap
    BY <1>10 DEF MarkCommitted, MarkFails, MarkerLost, TxnWriteFails, At, Fault, reallog
  <2> QED BY <1>c, <1>d, <1>s, <2>1
<1>11. ASSUME CommitBatch \/ Listen \/ HangUp PROVE RecordInv'
  BY <1>c, <1>s, <1>11 DEF CommitBatch, Listen, HangUp, At, reallog
<1>12. ASSUME Produce PROVE RecordInv'
  <2>1. /\ log' = Append(log, Plain) /\ job.at = "idle"
        /\ UNCHANGED <<written, synced, seen, file, job, mishaps>>
    BY <1>12 DEF Produce, At
  <2>2. /\ DOMAIN log' = 1 .. Len(log) + 1 /\ log'[Len(log) + 1] = Plain
        /\ \A i \in DOMAIN log : log'[i] = log[i]
    BY <2>1, AppendTyped
  <2>3. \A i \in DOMAIN log' : log'[i] \in Txns => i \in DOMAIN log /\ log'[i] = log[i]
    BY <1>0, <2>2, TransactionsAssumption
  <2> QED BY <1>1, <1>2, <1>c, <2>1, <2>3 DEF RecordInv, At
<1>13. ASSUME Crash PROVE RecordInv'
  <2>1. PICK n \in synced .. written, snapshot \in file :
           /\ log' = SubSeq(log, 1, n) /\ written' = n
           /\ seen' = Clamped(snapshot, n)
           /\ file' \in {F \in SUBSET file : snapshot \in F}
    BY <1>13 DEF Crash
  <2>2. FileClean
    BY <1>13, MishapCounts DEF Crash, FileClean, FileSafe
  <2>3. /\ DOMAIN log' = 1 .. n /\ n \in Nat /\ n <= written
        /\ \A i \in 1 .. n : log'[i] = log[i]
    BY <2>1, PrefixTyped
  <2>4. ASSUME NEW s \in file, NEW i \in DOMAIN log', log'[i] \in Txns
        PROVE  s[log'[i]] = i
    <3>1. i \in DOMAIN log /\ i <= written /\ log'[i] = log[i]
      BY <1>0, <2>3
    <3> QED BY <1>2, <2>2, <2>4, <3>1
  <2>5. ASSUME NEW i \in DOMAIN log', log'[i] \in Txns PROVE seen'[log'[i]] = i
    <3>1. snapshot[log'[i]] = i /\ i <= n
      BY <2>3, <2>4, <2>5
    <3> QED BY <2>1, <2>5, <3>1 DEF Clamped
  <2> QED BY <2>1, <2>4, <2>5 DEF RecordInv
<1> QED BY <1>3, <1>4, <1>5, <1>6, <1>7, <1>8, <1>9, <1>10, <1>11, <1>12, <1>13 DEF Next, Commit

\* A transaction has at most one record in the stream, however often its
\* commit is interrupted and driven again and however the machine stops in
\* between (`commit_real_append` and the dedup high-waters of step A2): where
\* checkpoint writes do not fail, after any number of crashes and other faults;
\* where one may fail, as long as no crash follows it.  A crash after a failed
\* checkpoint write may recover a snapshot from before the record.
THEOREM RecordAtMostOnce ==
  ASSUME FileSafe
  PROVE  Spec => []AtMostOnce
<1>1. Init => RecordInv
  BY RecordInit
<1>2. Typed /\ RecordInv /\ [Next]_vars => RecordInv'
  <2> SUFFICES ASSUME Typed, RecordInv, [Next]_vars PROVE RecordInv'
    OBVIOUS
  <2>1. CASE Next
    BY <2>1, FileSafe, RecordStep
  <2>2. CASE UNCHANGED vars
    BY <2>2 DEF vars, reallog, RecordInv, FileClean, At
  <2> QED BY <2>1, <2>2
<1>3. RecordInv => AtMostOnce
  <2> SUFFICES ASSUME RecordInv, NEW t \in Txns
               PROVE  Cardinality({i \in DOMAIN log : log[i] = t}) <= 1
    BY DEF AtMostOnce
  <2> DEFINE R == {i \in DOMAIN log : log[i] = t}
  <2>1. R \subseteq {seen[t]}
    BY DEF RecordInv
  <2>2. IsFiniteSet({seen[t]}) /\ Cardinality({seen[t]}) = 1
    BY FS_Singleton
  <2>3. IsFiniteSet(R) /\ Cardinality(R) <= Cardinality({seen[t]})
    BY <2>1, <2>2, FS_Subset
  <2> QED BY <2>2, <2>3
<1> QED BY <1>1, <1>2, <1>3, TypedAlways, PTL DEF Spec

-----------------------------------------------------------------------------
(* No commit without a record.                                             *)

\* A high-water points at the transaction's record.
Points(s) == \A t \in Txns : s[t] # 0 => s[t] \in DOMAIN log /\ log[s[t]] = t

\* Every snapshot that a crash could recover points at the records.
FilePoints == \A s \in file : Points(s)

\* A marker follows a durable record.
EmptyInv ==
    /\ NoCommittedEmpty
    /\ Points(seen)
    /\ ~At("idle") => seen[job.txn] # 0
    /\ At("sync") \/ At("mark") => written = Len(log)
    /\ At("mark") => synced = Len(log)

\* The log is empty and nothing is marked in the initial state.
LEMMA EmptyInit ==
  ASSUME Init
  PROVE  EmptyInv /\ FilePoints
<1>1. job.at = "idle"
  BY DEF Init, Idle
<1>2. \A t \in Txns : op[t] = "none" /\ seen[t] = 0
  BY DEF Init
<1>3. \A s \in file : \A t \in Txns : s[t] = 0
  BY DEF Init
<1> QED BY <1>1, <1>2, <1>3 DEF EmptyInv, NoCommittedEmpty, Points, FilePoints, At

\* A snapshot keeps pointing at the records when the log grows.
LEMMA PointsAppend ==
  ASSUME Typed, NEW x \in Txns \cup {Plain}, log' = Append(log, x),
         written' = written, synced' = synced, NEW s, Points(s)
  PROVE  \A t \in Txns : s[t] # 0 => s[t] \in DOMAIN log' /\ log'[s[t]] = t
<1>1. /\ DOMAIN log = 1 .. Len(log) /\ DOMAIN log' = 1 .. Len(log) + 1
      /\ \A i \in DOMAIN log : log'[i] = log[i]
  BY AppendTyped
<1>2. Len(log) \in Nat
  BY DEF Typed, TypeOK
<1> QED BY <1>1, <1>2 DEF Points

\* Every step keeps a durable record behind each marker, a crash as long as
\* it finds snapshots that point at the records.
LEMMA EmptyStep ==
  ASSUME Typed, EmptyInv, Next, Crash => FilePoints
  PROVE  EmptyInv'
<1>0. /\ log \in Seq(Txns \cup {Plain}) /\ DOMAIN log = 1 .. Len(log) /\ Len(log) \in Nat
      /\ written \in Nat /\ written <= Len(log) /\ synced \in Nat /\ synced <= written
      /\ seen \in [Txns -> Nat] /\ file \subseteq [Txns -> Nat]
      /\ op \in [Txns -> {"none"} \cup Outcomes]
      /\ job \in [txn : Txns \cup {Plain}, at : Steps]
      /\ job.at # "idle" => job.txn \in Txns
  BY DEF Typed, TypeOK, Snapshots
<1>1. \A t \in Txns : op[t] = "committed" => \E i \in 1 .. synced : log[i] = t
  BY DEF EmptyInv, NoCommittedEmpty
<1>2. \A t \in Txns : seen[t] # 0 => seen[t] \in DOMAIN log /\ log[seen[t]] = t
  BY DEF EmptyInv, Points
<1>3. /\ job.at # "idle" => seen[job.txn] # 0
      /\ job.at \in {"sync", "mark"} => written = Len(log)
      /\ job.at = "mark" => synced = Len(log)
  BY DEF EmptyInv, At
<1>q. ASSUME \A t \in Txns : op'[t] = "committed" => \E i \in 1 .. synced' : log'[i] = t,
             \A t \in Txns : seen'[t] # 0 => seen'[t] \in DOMAIN log' /\ log'[seen'[t]] = t,
             job'.at # "idle" => seen'[job'.txn] # 0,
             job'.at \in {"sync", "mark"} => written' = Len(log'),
             job'.at = "mark" => synced' = Len(log')
      PROVE  EmptyInv'
  BY <1>q DEF EmptyInv, NoCommittedEmpty, Points, At
<1>i. Idle.at = "idle"
  BY DEF Idle
\* A step that leaves the log and marks no commit.
<1>s. ASSUME UNCHANGED <<log, written, synced, seen>>,
             \A t \in Txns : op'[t] = "committed" => op[t] = "committed",
             job' = job \/ job'.at = "idle"
      PROVE  EmptyInv'
  BY <1>1, <1>2, <1>3, <1>q, <1>s
<1>4. ASSUME NEW t \in Txns,
             \/ Prepare(t) \/ PrepareFails(t) \/ Rollback(t) \/ RollbackFails(t)
             \/ \E o \in Outcomes : Retry(t, o)
             \/ BackCheck(t) \/ AttemptLost(t) \/ DefaultLost(t)
      PROVE  EmptyInv'
  <2>1. /\ UNCHANGED <<log, written, synced, seen, job>>
        /\ op' = op \/ op' = [op EXCEPT ![t] = "rolledback"]
    BY <1>4 DEF Prepare, PrepareFails, Rollback, RollbackFails, Retry, BackCheck, AttemptLost,
                DefaultLost, MarkerLost, Discard, Marked, txnlog, reallog
  <2> QED BY <1>0, <1>s, <2>1
<1>5. ASSUME NEW t \in Txns, BeginCommit(t) PROVE EmptyInv'
  <2>1. job' = [txn |-> t, at |-> "dedup"] /\ UNCHANGED <<written, synced, op>>
    BY <1>5 DEF BeginCommit, txnlog
  <2>2. CASE seen[t] # 0
    <3>1. UNCHANGED <<log, seen>>
      BY <1>5, <2>2 DEF BeginCommit
    <3> QED BY <1>1, <1>2, <1>q, <2>1, <2>2, <3>1
  <2>3. CASE seen[t] = 0
    <3>1. log' = Append(log, t) /\ seen' = [seen EXCEPT ![t] = Len(log) + 1]
      BY <1>5, <2>3 DEF BeginCommit
    <3>2. /\ DOMAIN log' = 1 .. Len(log) + 1 /\ log'[Len(log) + 1] = t
          /\ \A i \in DOMAIN log : log'[i] = log[i]
      BY <2>1, <3>1, AppendTyped
    <3>3. \A u \in Txns : op'[u] = "committed" => \E i \in 1 .. synced' : log'[i] = u
      <4>1. \A i \in 1 .. synced : i \in DOMAIN log
        BY <1>0
      <4>2. \A i \in 1 .. synced : log'[i] = log[i]
        BY <3>2, <4>1
      <4> QED BY <1>1, <2>1, <4>2
    <3>4. ASSUME NEW u \in Txns, seen'[u] # 0
          PROVE  seen'[u] \in DOMAIN log' /\ log'[seen'[u]] = u
      <4>1. CASE u = t
        BY <1>0, <3>1, <3>2, <4>1
      <4>2. CASE u # t
        BY <1>0, <1>2, <3>1, <3>2, <3>4, <4>2
      <4> QED BY <4>1, <4>2
    <3>5. seen'[job'.txn] # 0
      BY <1>0, <2>1, <3>1
    <3> QED BY <1>q, <2>1, <3>3, <3>4, <3>5
  <2> QED BY <2>2, <2>3
<1>6. ASSUME FlushDedup PROVE EmptyInv'
  <2>1. /\ job'.at = "write" /\ job'.txn = job.txn /\ job.at = "dedup"
        /\ UNCHANGED <<log, written, synced, seen, op>>
    BY <1>0, <1>6 DEF FlushDedup, At, txnlog, reallog
  <2> QED BY <1>1, <1>2, <1>3, <1>q, <2>1
<1>7. ASSUME FlushDedupFails \/ SyncFails PROVE EmptyInv'
  BY <1>i, <1>s, <1>7 DEF FlushDedupFails, SyncFails, RevertToPrepared, txnlog, reallog
<1>8. ASSUME WritePending PROVE EmptyInv'
  <2>1. /\ job'.at = "sync" /\ job'.txn = job.txn /\ job.at = "write" /\ written' = Len(log)
        /\ UNCHANGED <<log, synced, seen, op>>
    BY <1>0, <1>8 DEF WritePending, At, txnlog
  <2> QED BY <1>1, <1>2, <1>3, <1>q, <2>1
<1>9. ASSUME SyncRecord PROVE EmptyInv'
  <2>1. /\ job'.at = "mark" /\ job'.txn = job.txn /\ job.at = "sync" /\ synced' = written
        /\ UNCHANGED <<log, written, seen, op>>
    BY <1>0, <1>9, SMTT(30) DEF SyncRecord, At, txnlog
  <2>2. synced <= synced' /\ synced' \in Nat /\ synced' = Len(log')
    BY <1>0, <1>3, <2>1
  <2>3. \A t \in Txns : op'[t] = "committed" => \E i \in 1 .. synced' : log'[i] = t
    BY <1>0, <1>1, <2>1, <2>2
  <2> QED BY <1>2, <1>3, <1>q, <2>1, <2>2, <2>3
<1>10. ASSUME MarkCommitted \/ MarkFails PROVE EmptyInv'
  <2>1. /\ job.at = "mark" /\ job'.at = "idle"
        /\ op' = op \/ op' = [op EXCEPT ![job.txn] = "committed"]
        /\ UNCHANGED <<log, written, synced, seen>>
    BY <1>i, <1>10 DEF MarkCommitted, MarkFails, MarkerLost, Marked, At, reallog
  <2>2. job.txn \in Txns /\ seen[job.txn] \in 1 .. synced /\ log[seen[job.txn]] = job.txn
    BY <1>0, <1>2, <1>3, <2>1
  <2>3. \A t \in Txns : op'[t] = "committed" => \E i \in 1 .. synced : log[i] = t
    BY <1>0, <1>1, <2>1, <2>2
  <2> QED BY <1>2, <1>q, <2>1, <2>3
<1>11. ASSUME Produce PROVE EmptyInv'
  <2>1. /\ log' = Append(log, Plain) /\ job.at = "idle"
        /\ UNCHANGED <<written, synced, seen, job, op>>
    BY <1>11 DEF Produce, At, txnlog
  <2>2. \A i \in DOMAIN log : log'[i] = log[i]
    BY <2>1, AppendTyped
  <2>3. \A t \in Txns : seen'[t] # 0 => seen'[t] \in DOMAIN log' /\ log'[seen'[t]] = t
    BY <2>1, PointsAppend DEF EmptyInv
  <2>4. \A t \in Txns : op'[t] = "committed" => \E i \in 1 .. synced' : log'[i] = t
    BY <1>0, <1>1, <2>1, <2>2, SMTT(30)
  <2> QED BY <1>q, <2>1, <2>3, <2>4
<1>12. ASSUME CommitBatch PROVE EmptyInv'
  <2>1. /\ job.at = "idle" /\ synced' = Len(log) /\ UNCHANGED <<log, seen, job, op>>
    BY <1>12 DEF CommitBatch, At, txnlog
  <2>2. \A t \in Txns : op'[t] = "committed" => \E i \in 1 .. synced' : log'[i] = t
    BY <1>0, <1>1, <2>1
  <2> QED BY <1>2, <1>q, <2>1, <2>2
<1>13. ASSUME Checkpoint \/ CheckpointFails \/ Listen \/ HangUp PROVE EmptyInv'
  BY <1>s, <1>13 DEF Checkpoint, CheckpointFails, Listen, HangUp, txnlog, reallog
<1>14. ASSUME Crash PROVE EmptyInv'
  <2>1. PICK n \in synced .. written, snapshot \in file :
           /\ log' = SubSeq(log, 1, n) /\ written' = n /\ synced' = n
           /\ seen' = Clamped(snapshot, n)
    BY <1>14 DEF Crash
  <2>2. job'.at = "idle" /\ op' = op
    BY <1>i, <1>14 DEF Crash
  <2>3. /\ DOMAIN log' = 1 .. n /\ n \in Nat /\ synced <= n
        /\ \A i \in 1 .. n : log'[i] = log[i]
    BY <2>1, PrefixTyped
  <2>4. \A t \in Txns : op'[t] = "committed" => \E i \in 1 .. synced' : log'[i] = t
    <3>1. \A i \in 1 .. synced : i \in 1 .. n
      BY <1>0, <2>3
    <3>2. \A i \in 1 .. synced : i \in 1 .. synced' /\ log'[i] = log[i]
      BY <2>1, <2>3, <3>1
    <3> QED BY <1>1, <2>2, <3>2
  <2>5. ASSUME NEW t \in Txns, seen'[t] # 0
        PROVE  seen'[t] \in DOMAIN log' /\ log'[seen'[t]] = t
    <3>1. snapshot \in [Txns -> Nat] /\ Points(snapshot)
      BY <1>0, <1>14, <2>1 DEF FilePoints
    <3>2. seen'[t] = snapshot[t] /\ snapshot[t] <= n /\ snapshot[t] # 0
      BY <2>1, <2>5 DEF Clamped
    <3>3. snapshot[t] \in 1 .. n /\ log[snapshot[t]] = t
      BY <2>3, <3>1, <3>2 DEF Points
    <3> QED BY <2>3, <3>2, <3>3
  <2> QED BY <1>q, <2>2, <2>4, <2>5
<1> QED BY <1>4, <1>5, <1>6, <1>7, <1>8, <1>9, <1>10, <1>11, <1>12, <1>13, <1>14 DEF Next, Commit

\* Until a crash, every snapshot points at the records.
LEMMA FilePointsStep ==
  ASSUME Typed, EmptyInv, FilePoints, Next, ~Crash
  PROVE  FilePoints'
<1>1. Points(seen)
  BY DEF EmptyInv
<1>2. /\ \/ log' = log
         \/ /\ \E x \in Txns \cup {Plain} : log' = Append(log, x)
            /\ UNCHANGED <<written, synced>>
      /\ \/ file' = file
         \/ log' = log /\ file' \subseteq file \cup {seen}
  BY DEF Next, Commit, Prepare, PrepareFails, BeginCommit, Rollback, RollbackFails, Retry,
         BackCheck, AttemptLost, DefaultLost, Listen, HangUp, FlushDedup, FlushDedupFails, WritePending, SyncRecord,
         SyncFails, MarkCommitted, MarkFails, Produce, CommitBatch, Checkpoint,
         CheckpointFails, reallog
<1>3. CASE log' = log
  BY <1>1, <1>2, <1>3 DEF FilePoints, Points
<1>4. CASE \E x \in Txns \cup {Plain} : log' = Append(log, x) /\ UNCHANGED <<written, synced>>
  <2>1. PICK x \in Txns \cup {Plain} : log' = Append(log, x) /\ UNCHANGED <<written, synced>>
    BY <1>4
  <2>2. ASSUME NEW s \in file
        PROVE  \A t \in Txns : s[t] # 0 => s[t] \in DOMAIN log' /\ log'[s[t]] = t
    <3>1. Points(s)
      BY DEF FilePoints
    <3> QED BY <2>1, <3>1, PointsAppend
  <2>3. file' \subseteq file \cup {seen}
    BY <1>2
  <2>4. \A t \in Txns : seen[t] # 0 => seen[t] \in DOMAIN log' /\ log'[seen[t]] = t
    BY <1>1, <2>1, PointsAppend
  <2> QED BY <2>2, <2>3, <2>4 DEF FilePoints, Points
<1> QED BY <1>2, <1>3, <1>4

\* After any number of crashes and faults, a transaction whose committed
\* marker is in the txn log has its record in the durable part of the stream,
\* provided that each crash finds only high-water snapshots that point at the
\* records.  `seed_producer_seq_from_recovered` drops a stale high-water from
\* memory and leaves it in the file, where the log may grow past it: that is the
\* only way to a committed-but-empty transaction.
THEOREM CommittedNeverEmpty ==
  Spec /\ [][Crash => FilePoints]_vars => []NoCommittedEmpty
<1>1. Init => EmptyInv
  BY EmptyInit
<1>2. Typed /\ EmptyInv /\ [Next]_vars /\ [Crash => FilePoints]_vars => EmptyInv'
  <2> SUFFICES ASSUME Typed, EmptyInv, [Next]_vars, [Crash => FilePoints]_vars PROVE EmptyInv'
    OBVIOUS
  <2>1. CASE UNCHANGED vars
    BY <2>1 DEF vars, txnlog, reallog, EmptyInv, NoCommittedEmpty, Points, At
  <2>2. CASE Next /\ (Crash => FilePoints)
    BY <2>2, EmptyStep
  <2> QED BY <2>1, <2>2
<1>3. EmptyInv => NoCommittedEmpty
  BY DEF EmptyInv
<1> QED BY <1>1, <1>2, <1>3, TypedAlways, PTL DEF Spec

\* With one crash or fault, at whatever step of whichever commit, the marker
\* is never durable without the record (`txn_commit`: A3 before B).
THEOREM OneMishapNeverEmpty ==
  ASSUME MaxMishaps <= 1
  PROVE  Spec => []NoCommittedEmpty
<1> DEFINE I == EmptyInv /\ (mishaps = 0 => FilePoints)
<1>1. Init => I
  BY EmptyInit
<1>2. Typed /\ I /\ [Next]_vars => I'
  <2> SUFFICES ASSUME Typed, I, [Next]_vars PROVE I'
    OBVIOUS
  <2>1. CASE UNCHANGED vars
    BY <2>1 DEF vars, txnlog, reallog, EmptyInv, NoCommittedEmpty, FilePoints, Points, At
  <2>2. CASE Next
    <3>1. Crash => FilePoints
      BY MishapCounts DEF Crash
    <3>2. EmptyInv'
      BY <2>2, <3>1, EmptyStep
    <3>3. ASSUME mishaps' = 0 PROVE FilePoints'
      <4>1. ~Crash
        BY <3>3, MishapCounts DEF Crash
      <4>2. mishaps' = mishaps \/ Mishap
        BY <2>2 DEF Next, Commit, Prepare, PrepareFails, BeginCommit, Rollback, RollbackFails,
              Retry, BackCheck, AttemptLost, DefaultLost, Listen, HangUp, MarkerLost,
              TxnWriteFails, FlushDedup, FlushDedupFails, WritePending,
              SyncRecord, SyncFails, MarkCommitted, MarkFails, Produce, CommitBatch,
              Checkpoint, CheckpointFails, Crash, Fault
      <4>3. mishaps = 0
        BY <3>3, <4>2, MishapCounts
      <4> QED BY <2>2, <4>1, <4>3, FilePointsStep
    <3> QED BY <3>2, <3>3
  <2> QED BY <2>1, <2>2
<1>3. I => NoCommittedEmpty
  BY DEF EmptyInv
<1> QED BY <1>1, <1>2, <1>3, TypedAlways, PTL DEF Spec

=============================================================================
