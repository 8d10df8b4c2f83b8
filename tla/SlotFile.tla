------------------------------ MODULE SlotFile ------------------------------
(***************************************************************************)
(* The two-slot checkpoint file of ironbus-storage/src/checkpoint.rs.  A   *)
(* write goes to the slot its sequence number selects and is then synced;  *)
(* open believes the valid slot with the higher sequence number.  The page *)
(* cache is what a killed process leaves behind; a power cut leaves in     *)
(* each slot any of the contents `maybe' holds for it: the last one synced *)
(* or one written since, whole or torn.                                    *)
(***************************************************************************)
EXTENDS Naturals

CONSTANTS
  Payloads,                 \* what a caller may write
  Fresh,                    \* what a caller starts from when nothing recovers
  CutAfterKill              \* may power fail before a slot that open read
                            \* back from a killed writer's cache was synced?

VARIABLES
  cache,                    \* the two slots as the running system reads them
  maybe,                    \* per slot, the contents a power cut may leave
  nextSeq,                  \* the sequence number of the next write
  known,                    \* what open returned or write last confirmed
  attempted                 \* what failed writes have tried to store since

vars == <<cache, maybe, nextSeq, known, attempted>>

Slots == {0, 1}

Blank == [kind |-> "empty", seq |-> 0, payload |-> Fresh]

Torn == [kind |-> "corrupt", seq |-> 0, payload |-> Fresh]

Written(n, p) == [kind |-> "valid", seq |-> n, payload |-> p]

Target == nextSeq % 2

Sibling == 1 - Target

-----------------------------------------------------------------------------

ValidSlots(file) == {i \in Slots : file[i].kind = "valid"}

Newest(file) ==
  IF ValidSlots(file) = {} THEN Blank
  ELSE file[CHOOSE i \in ValidSlots(file) :
              \A j \in ValidSlots(file) : file[j].seq <= file[i].seq]

\* RecoveredCheckpoint::Damaged: both slots were written and neither is valid.
Damaged(file) == \A i \in Slots : file[i].kind = "corrupt"

Open(file) ==
  /\ cache' = file
  /\ nextSeq' = Newest(file).seq + 1
  /\ known' = Newest(file).payload

Init ==
  /\ cache = [i \in Slots |-> Blank]
  /\ maybe = [i \in Slots |-> {Blank}]
  /\ nextSeq = 1
  /\ known = Fresh
  /\ attempted = {}

Write(p) ==
  /\ cache' = [cache EXCEPT ![Target] = Written(nextSeq, p)]
  /\ maybe' = [i \in Slots |-> {cache'[i]}]
  /\ nextSeq' = nextSeq + 1
  /\ known' = p
  /\ attempted' = {}

\* Slip: the sequence number is spent although the write failed.
WriteFailsAdvanced(p) ==
  /\ \E s \in {Torn, Written(nextSeq, p)} :
       /\ cache' = [cache EXCEPT ![Target] = s]
       /\ maybe' = [maybe EXCEPT ![Target] = @ \union {Torn, s}]
  /\ nextSeq' = nextSeq + 1
  /\ attempted' = attempted \union {p}
  /\ UNCHANGED known

\* write_all_at or sync_all fails, or the process is about to die inside them:
\* the slot holds the new content or a mixture that fails its CRC, and nobody
\* knows what reached the disk.
WriteFails(p) ==
  /\ \E s \in {Torn, Written(nextSeq, p)} :
       /\ cache' = [cache EXCEPT ![Target] = s]
       /\ maybe' = [maybe EXCEPT ![Target] = @ \union {Torn, s}]
  /\ attempted' = attempted \union {p}
  /\ UNCHANGED <<nextSeq, known>>

\* The process dies and the machine stays up: what earlier attempts may have
\* left on the disk is still there.
Kill == Open(cache) /\ UNCHANGED <<maybe, attempted>>

SiblingSynced == maybe[Sibling] = {cache[Sibling]}

\* The files a power cut may leave.
CutFiles == {[i \in Slots |-> IF i = 0 THEN a ELSE b] :
               a \in maybe[0], b \in maybe[1]}

PowerCut ==
  /\ SiblingSynced \/ CutAfterKill
  /\ \E file \in CutFiles :
       Open(file) /\ maybe' = [i \in Slots |-> {file[i]}]
  /\ attempted' = {}

Next ==
  \/ \E p \in Payloads : Write(p) \/ WriteFails(p)
  \/ Kill
  \/ PowerCut

Spec == Init /\ [][Next]_vars

-----------------------------------------------------------------------------

\* What a crash may reveal of the checkpoint: the last confirmed value or one
\* whose write was tried after it, never an older one, never nothing at all.
Recoverable(file) ==
  /\ ~ Damaged(file)
  /\ Newest(file).payload \in {known} \union attempted

\* However many writes failed or were torn, whatever the next crash leaves is
\* read back as the last confirmed checkpoint or a later attempt, and the
\* "both slots corrupt" signature of outside damage never comes from a crash.
CrashSafe ==
  /\ Recoverable(cache)
  /\ SiblingSynced => \A file \in CutFiles : Recoverable(file)
=============================================================================
