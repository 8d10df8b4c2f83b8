------------------------------- MODULE AckSet -------------------------------
(***************************************************************************)
(* What a work-group commit cursor promises, whatever its representation:  *)
(* a SET of acknowledged offsets whose watermark is the first offset not   *)
(* in it.  The set may only lose members at a restart, and then only ones  *)
(* above the watermark of the last snapshot that was confirmed (or above   *)
(* the durable head), so an offset nobody acknowledged is never taken as   *)
(* acknowledged.  A snapshot that could not be confirmed may come back.    *)
(***************************************************************************)
EXTENDS OffsetSpace

VARIABLES
  acked,                    \* the offsets the cursor reports as acknowledged
  watermark,                \* the committed offset
  saved,                    \* the snapshots a restart may resume from
  reply                     \* the outcome of the last operation

vars == <<acked, watermark, saved, reply>>

Ackable == 0 .. MaxOffset - 1

Below(n) == {o \in Offsets : o < n}

\* The first offset outside S: where a consumer must resume.
FirstGap(S) == CHOOSE n \in Offsets : n \notin S /\ Below(n) \subseteq S

Neighbour(o, S) == \E p \in S : p + 1 = o \/ o + 1 = p

Init ==
  /\ acked = {}
  /\ watermark = 0
  /\ saved = {{}}
  /\ reply = "none"

Become(S) == acked' = S /\ watermark' = FirstGap(S)

Record(o) ==
  /\ o \in Ackable \ acked
  /\ Become(acked \union {o})
  /\ reply' = "Recorded"
  /\ UNCHANGED saved

Ignore(o) ==
  /\ o \in acked \union {MaxOffset}
  /\ reply' = "Duplicate"
  /\ UNCHANGED <<acked, watermark, saved>>

\* Only an acknowledgement that would open a new run may be refused, and never
\* the one the watermark is waiting for.
Refuse(o) ==
  /\ o \in Ackable \ acked
  /\ o # watermark
  /\ ~ Neighbour(o, acked \ Below(watermark))
  /\ reply' = "Shed"
  /\ UNCHANGED <<acked, watermark, saved>>

Cumulative(n) ==
  /\ Become(acked \union Below(n))
  /\ reply' = IF n > watermark THEN "Advanced" ELSE "Unmoved"
  /\ UNCHANGED saved

\* A snapshot may leave out acknowledgements ahead of the watermark.
Snapshots == {S \in SUBSET acked : Below(watermark) \subseteq S}

Save ==
  /\ \E S \in Snapshots : saved' = {S}
  /\ UNCHANGED <<acked, watermark, reply>>

SaveFails ==
  /\ \E S \in Snapshots : saved' = saved \union {S}
  /\ UNCHANGED <<acked, watermark, reply>>

Restart(head) ==
  \E S \in saved :
    /\ acked' \in SUBSET (S \intersect Below(head))
    /\ Below(FirstGap(S)) \intersect Below(head) \subseteq acked'
    /\ watermark' = FirstGap(acked')
    /\ reply' = "none"
    /\ S \in saved' /\ saved' \subseteq saved

Next ==
  \/ \E o \in Offsets : Record(o) \/ Ignore(o) \/ Refuse(o)
  \/ \E n \in Offsets : Cumulative(n) \/ Restart(n)
  \/ Save \/ SaveFails

Spec == Init /\ [][Next]_vars

-----------------------------------------------------------------------------

\* The types of the state; the exhausted last offset is never acknowledged, so
\* the watermark always has an offset to stand on.
TypeOK ==
  /\ acked \subseteq Ackable
  /\ saved \subseteq SUBSET Ackable
  /\ watermark \in Offsets
  /\ reply \in {"none", "Recorded", "Duplicate", "Shed", "Advanced", "Unmoved"}

\* Outside a restart the watermark and the acknowledged set only grow.
NeverForgets ==
  [][(\E head \in Offsets : Restart(head))
     \/ (watermark <= watermark' /\ acked \subseteq acked')]_vars
=============================================================================
