------------------------------ MODULE AckCursor ------------------------------
(***************************************************************************)
(* The work-group commit cursor of ironbus-core/src/cursor.rs: a watermark *)
(* plus a run-length list of the offsets acknowledged ahead of it, kept in *)
(* a two-slot checkpoint file, and the clamped resume of the engine.       *)
(* A range is the pair <<start, end>> of the half-open [start, end).       *)
(***************************************************************************)
EXTENDS OffsetSpace, Integers, Sequences, SequencesExt

CONSTANTS
  MaxRuns,                  \* the run cap the engine passes to ack_bounded
  SlotRuns,                 \* acked-ahead runs that fit one checkpoint slot
  CutAfterKill,             \* see SlotFile
  MaxSeq,                   \* bound: sequence numbers of checkpoint writes
  MaxFaults                 \* bound: failed writes and crashes

ASSUME CursorConstants ==
  /\ MaxRuns \in Nat /\ SlotRuns \in Nat
  /\ MaxSeq \in Nat /\ MaxFaults \in Nat
  /\ CutAfterKill \in BOOLEAN

VARIABLES
  committed, ahead, reply,                        \* the cursor and its answer
  lastCheckpointed,                               \* the watermark last saved
  faults,                                         \* faults so far
  cache, maybe, nextSeq, known, attempted         \* the checkpoint file

fileVars == <<cache, maybe, nextSeq, known, attempted>>

vars == <<committed, ahead, reply, lastCheckpointed, faults, fileVars>>

NoSnapshot == [committed |-> 0, ahead |-> <<>>]

Snapshots == [committed : Offsets, ahead : Seq(Offsets \X Offsets)]

File == INSTANCE SlotFile WITH Payloads <- Snapshots, Fresh <- NoSnapshot

-----------------------------------------------------------------------------

\* The shape resume_with_ahead accepts: non-empty ranges, each starting
\* strictly above the end of the one before (the first above `low').
WellFormed(low, ranges) ==
  \A i \in 1 .. Len(ranges) :
    /\ ranges[i][1] < ranges[i][2]
    /\ ranges[i][1] > (IF i = 1 THEN low ELSE ranges[i - 1][2])

ContainsAhead(o) ==
  \E i \in 1 .. Len(ahead) : ahead[i][1] <= o /\ o < ahead[i][2]

IsAcked(o) == o < committed \/ ContainsAhead(o)

\* partition_point: how many ranges start at or below o.
PartitionPoint(o) ==
  CHOOSE i \in 0 .. Len(ahead) :
    /\ \A j \in 1 .. i : ahead[j][1] <= o
    /\ \A j \in i + 1 .. Len(ahead) : ahead[j][1] > o

MergesLeft(o) == LET i == PartitionPoint(o) IN i > 0 /\ ahead[i][2] = o

MergesRight(o) ==
  LET i == PartitionPoint(o) IN i < Len(ahead) /\ ahead[i + 1][1] = o + 1

\* Slip: a left merge forgets the run it now touches on the right.
InsertNoBridge(o) ==
  LET i == PartitionPoint(o)
  IN IF MergesLeft(o) THEN [ahead EXCEPT ![i][2] = o + 1]
                      ELSE InsertAt(ahead, i + 1, <<o, o + 1>>)

Insert(o) ==
  LET i == PartitionPoint(o)
      L == MergesLeft(o)
      R == MergesRight(o)
  IN CASE L /\ R   -> RemoveAt([ahead EXCEPT ![i][2] = ahead[i + 1][2]], i + 1)
       [] L /\ ~R  -> [ahead EXCEPT ![i][2] = o + 1]
       [] ~L /\ R  -> [ahead EXCEPT ![i + 1][1] = o]
       [] ~L /\ ~R -> InsertAt(ahead, i + 1, <<o, o + 1>>)

\* The watermark jumps over the first range when that range now begins at it.
Advance(low, ranges) ==
  IF ranges # <<>> /\ ranges[1][1] = low
  THEN [committed |-> ranges[1][2], ahead |-> Tail(ranges)]
  ELSE [committed |-> low, ahead |-> ranges]

\* commit_up_to's loop: absorb ranges while they keep touching the watermark.
AbsorbAll(low, ranges) ==
  LET touching == {k \in 0 .. Len(ranges) :
                     \A i \in 1 .. k :
                       ranges[i][1] = (IF i = 1 THEN low ELSE ranges[i - 1][2])}
      n == CHOOSE k \in touching : \A j \in touching : j <= k
  IN [committed |-> IF n = 0 THEN low ELSE ranges[n][2],
      ahead |-> SubSeq(ranges, n + 1, Len(ranges))]

Install(c) == committed' = c.committed /\ ahead' = c.ahead

-----------------------------------------------------------------------------

Init ==
  /\ committed = 0
  /\ ahead = <<>>
  /\ reply = "none"
  /\ lastCheckpointed = 0
  /\ faults = 0
  /\ File!Init

\* Slip: the cap is tested one run late.
ShedsOffByOne(o, cap) ==
  Len(ahead) > cap /\ o # committed /\ ~ MergesLeft(o) /\ ~ MergesRight(o)

\* At the cap an ack that would open a new run is refused and forgotten.
Sheds(o, cap) ==
  /\ Len(ahead) >= cap
  /\ o # committed
  /\ ~ MergesLeft(o)
  /\ ~ MergesRight(o)

AckDuplicate(o) ==
  /\ IsAcked(o) \/ o = MaxOffset
  /\ reply' = "Duplicate"
  /\ UNCHANGED <<committed, ahead, lastCheckpointed, faults, fileVars>>

AckShed(o, cap) ==
  /\ ~ IsAcked(o)
  /\ o # MaxOffset
  /\ Sheds(o, cap)
  /\ reply' = "Shed"
  /\ UNCHANGED <<committed, ahead, lastCheckpointed, faults, fileVars>>

AckRecorded(o, cap) ==
  /\ ~ IsAcked(o)
  /\ o # MaxOffset
  /\ ~ Sheds(o, cap)
  /\ Install(Advance(committed, Insert(o)))
  /\ reply' = "Recorded"
  /\ UNCHANGED <<lastCheckpointed, faults, fileVars>>

\* ack(o) is the same call with no cap (usize::MAX).
AckBounded(o, cap) ==
  AckDuplicate(o) \/ AckShed(o, cap) \/ AckRecorded(o, cap)

\* retain_mut and filter: the ranges at the indices I, in their order.
Retain(ranges, I) ==
  LET n == Cardinality(I)
      pos == CHOOSE f \in [1 .. n -> I] : \A i, j \in 1 .. n : i < j => f[i] < f[j]
  IN [i \in 1 .. n |-> ranges[pos[i]]]

\* Slip: a range that straddles upTo is dropped whole.
ClipDropsStraddler(upTo) ==
  Retain(ahead, {i \in 1 .. Len(ahead) : ahead[i][1] >= upTo})

\* Ranges below upTo are dropped and a straddling one is clipped to start there.
Clip(upTo) ==
  LET kept == Retain(ahead, {i \in 1 .. Len(ahead) : ahead[i][2] > upTo})
  IN [i \in 1 .. Len(kept) |->
        <<IF kept[i][1] < upTo THEN upTo ELSE kept[i][1], kept[i][2]>>]

CommitUpTo(upTo) ==
  /\ \/ /\ upTo > committed
        /\ Install(AbsorbAll(upTo, Clip(upTo)))
        /\ reply' = "Advanced"
     \/ /\ upTo <= committed
        /\ reply' = "Unmoved"
        /\ UNCHANGED <<committed, ahead>>
  /\ UNCHANGED <<lastCheckpointed, faults, fileVars>>

\* The checkpoint payload keeps only the leading runs that fit a slot.
SnapshotPayload ==
  [committed |-> committed,
   ahead |-> SubSeq(ahead, 1, IF Len(ahead) < SlotRuns THEN Len(ahead)
                                                       ELSE SlotRuns)]

\* checkpoint_cursor and checkpoint_group write only when there is news.
CheckpointDue ==
  /\ nextSeq <= MaxSeq
  /\ committed > lastCheckpointed \/ ahead # <<>>

Checkpoint ==
  /\ CheckpointDue
  /\ File!Write(SnapshotPayload)
  /\ lastCheckpointed' = committed
  /\ UNCHANGED <<committed, ahead, reply, faults>>

Fault == faults < MaxFaults /\ faults' = faults + 1

CheckpointFails ==
  /\ CheckpointDue
  /\ Fault
  /\ File!WriteFails(SnapshotPayload)
  /\ UNCHANGED <<committed, ahead, reply, lastCheckpointed>>

\* A restart resumes from what the file recovers, clamped to the durable head
\* `flushed'.
Resume(flushed) ==
  LET low == IF known'.committed < flushed THEN known'.committed ELSE flushed
      saved == known'.ahead
      kept == Retain(saved, {i \in 1 .. Len(saved) :
                               saved[i][1] > low /\ saved[i][2] <= flushed})
  IN /\ committed' = low
     /\ ahead' = IF WellFormed(low, kept) THEN kept ELSE <<>>
     /\ lastCheckpointed' = low
     /\ reply' = "none"

Restart(flushed) ==
  /\ Fault
  /\ File!Kill \/ File!PowerCut
  /\ Resume(flushed)

Next ==
  \/ \E o \in Offsets, cap \in {MaxRuns, MaxOffset} : AckBounded(o, cap)
  \/ \E n \in Offsets : CommitUpTo(n) \/ Restart(n)
  \/ Checkpoint \/ CheckpointFails

Spec == Init /\ [][Next]_vars

-----------------------------------------------------------------------------

\* Every ahead range is non-empty, strictly above the watermark, sorted,
\* disjoint and non-adjacent: the binary searches and the single-range advance
\* of cursor.rs are correct only on lists of this shape.
ShapeOK ==
  /\ committed \in Offsets
  /\ \A i \in 1 .. Len(ahead) : ahead[i][2] \in Offsets
  /\ WellFormed(committed, ahead)
  /\ \A p \in {known} \union attempted : WellFormed(p.committed, p.ahead)

AckedSet == {o \in Offsets : IsAcked(o)}

SavedSet(p) ==
  {o \in Offsets : \/ o < p.committed
                   \/ \E i \in 1 .. Len(p.ahead) :
                        p.ahead[i][1] <= o /\ o < p.ahead[i][2]}

Abs == INSTANCE AckSet
         WITH acked <- AckedSet, watermark <- committed,
              saved <- {SavedSet(p) : p \in {known} \union attempted}

\* The range list behaves as the set of acknowledged offsets with its first
\* gap as watermark, across out-of-order, duplicate, shed and cumulative acks,
\* truncated snapshots, torn and failed checkpoint writes, crashes and clamped
\* resumes: a restart never comes back below the last confirmed checkpoint.
ImplementsAckSet == Abs!Spec

\* What any crash leaves of the checkpoint file is the last confirmed snapshot
\* or a later attempt, and never two corrupt slots.
CrashSafe == File!CrashSafe

\* The run cap bounds the list: a bounded ack at the cap never lengthens it.
CapBoundsRuns ==
  [][\A o \in Offsets :
       AckBounded(o, MaxRuns) /\ Len(ahead) >= MaxRuns
         => Len(ahead') <= Len(ahead)]_vars
=============================================================================
