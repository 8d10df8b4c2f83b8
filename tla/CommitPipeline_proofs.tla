----------------------- MODULE CommitPipeline_proofs -----------------------
(***************************************************************************)
(* Proofs about the pipelined group commit.  Every helper of the actor is  *)
(* shown to take a good world to a good world (Good: the order of the      *)
(* heads, the byte meter and its ticket, the parked queue, the platter)    *)
(* without taking anything back (Evolves); the actions compose them.       *)
(***************************************************************************)
EXTENDS CommitPipeline, WellFoundedInduction, SequenceTheorems, TLAPS

-----------------------------------------------------------------------------
(* Types of the world the actor owns, and what each primitive does to it.  *)

\* The three states of the log's writer.
Writers == {"live", "deferred", "frozen"}

\* What the Log keeps, typed.
Logs == [next : Nat, file : Nat, flushed : Nat, synced : Nat, meter : Nat,
         base : Nat, fresh : BOOLEAN, writer : Writers]

\* The in-flight slot: empty, at the flusher, or delivered with its outcome.
Flights == [state : {"none", "out", "ok", "err"}, target : Nat, covered : Nat]

\* A parked reply.
Acks == [id : Nat, off : Nat, target : Nat]

\* What a producer that asked for a reply can have been told.
Answers == {"waiting", "acked", "rejected", "failed", "fatal", "closing", "lost"}

\* Every world the actor can own, as far as types go.
Worlds == [log : Logs, disk : SUBSET Nat, dropped : SUBSET Nat,
           flight : Flights, parked : Seq(Acks), timed : BOOLEAN,
           answer : Seq(Answers), acked : SUBSET Nat]

\* A world's fields have their types.
LEMMA WorldFields ==
  ASSUME NEW w \in Worlds
  PROVE  /\ w.log \in Logs /\ w.disk \in SUBSET Nat /\ w.dropped \in SUBSET Nat
         /\ w.flight \in Flights /\ w.parked \in Seq(Acks) /\ w.timed \in BOOLEAN
         /\ w.answer \in Seq(Answers) /\ w.acked \in SUBSET Nat
BY DEF Worlds

\* A log's fields have their types.
LEMMA LogFields ==
  ASSUME NEW l \in Logs
  PROVE  /\ l.next \in Nat /\ l.file \in Nat /\ l.flushed \in Nat
         /\ l.synced \in Nat /\ l.meter \in Nat /\ l.base \in Nat
         /\ l.fresh \in BOOLEAN /\ l.writer \in Writers
BY DEF Logs

\* Everything but the log and the platter is the same in both worlds.
SameReplies(w, v) ==
    /\ v.flight = w.flight /\ v.parked = w.parked /\ v.timed = w.timed
    /\ v.answer = w.answer /\ v.acked = w.acked

\* A failed barrier: the writer freezes over a staged file.
LEMMA FrozenByIs ==
  ASSUME NEW w \in Worlds, NEW n \in Nat, NEW v, v = FrozenBy(w, n)
  PROVE  /\ v \in Worlds
         /\ v.log = [w.log EXCEPT !.writer = "frozen", !.file = n]
         /\ v.disk = w.disk /\ SameReplies(w, v)
<1> DEFINE L == [w.log EXCEPT !.writer = "frozen", !.file = n]
           D == IF DropsPages THEN w.dropped \cup (Offs(n) \ w.disk) ELSE w.dropped
<1>1. L \in Logs
  BY WorldFields DEF Logs, Writers
<1>2. D \in SUBSET Nat
  BY WorldFields DEF Offs
<1>3. v = [w EXCEPT !.log = L, !.dropped = D]
  BY DEF FrozenBy, Worlds, Logs
<1> HIDE DEF L, D
<1>4. v \in Worlds /\ v.log = L
  BY <1>1, <1>2, <1>3 DEF Worlds
<1>5. v.disk = w.disk /\ SameReplies(w, v)
  BY <1>3 DEF Worlds, SameReplies
<1> QED BY <1>4, <1>5 DEF L

\* A returned barrier over everything appended.
LEMMA AllDurableIs ==
  ASSUME NEW w \in Worlds, NEW v, v = AllDurable(w)
  PROVE  /\ v \in Worlds
         /\ v.log = [w.log EXCEPT !.flushed = w.log.next, !.synced = w.log.next,
                                  !.file = w.log.next, !.meter = 0]
         /\ v.disk = w.disk \cup (Offs(w.log.next) \ w.dropped)
         /\ v.dropped = w.dropped /\ SameReplies(w, v)
<1> DEFINE L == [w.log EXCEPT !.flushed = w.log.next, !.synced = w.log.next,
                              !.file = w.log.next, !.meter = 0]
           D == w.disk \cup (Offs(w.log.next) \ w.dropped)
<1>1. L \in Logs
  BY WorldFields DEF Logs
<1>2. D \in SUBSET Nat
  BY WorldFields DEF Offs
<1>3. v = [w EXCEPT !.log = L, !.disk = D]
  BY WorldFields DEF AllDurable, Platter, Worlds, Logs
<1> HIDE DEF L, D
<1>4. v \in Worlds /\ v.log = L /\ v.disk = D
  BY <1>1, <1>2, <1>3 DEF Worlds
<1>5. v.dropped = w.dropped /\ SameReplies(w, v)
  BY <1>3 DEF Worlds, SameReplies
<1> QED BY <1>4, <1>5 DEF L, D

\* A step that only changes the log.
LEMMA LogOnly ==
  ASSUME NEW w \in Worlds, NEW L \in Logs, NEW v, v = [w EXCEPT !.log = L]
  PROVE  /\ v \in Worlds /\ v.log = L
         /\ v.disk = w.disk /\ v.dropped = w.dropped /\ SameReplies(w, v)
<1>1. v \in Worlds /\ v.log = L
  BY DEF Worlds
<1>2. v.disk = w.disk /\ v.dropped = w.dropped /\ SameReplies(w, v)
  BY DEF Worlds, SameReplies
<1> QED BY <1>1, <1>2

\* Creating the next segment only touches the writer and its segment.
LEMMA CreateSegmentIs ==
  ASSUME NEW w \in Worlds, NEW fault, NEW v, v = CreateSegment(w, fault)
  PROVE  /\ v \in Worlds
         /\ \/ v.log.writer = "live" /\ v.log.base = w.log.next
            \/ fault = "create" /\ v.log.writer = "deferred" /\ v.log.base = w.log.base
            \/ v.log.writer = "frozen" /\ v.log.base = w.log.base
         /\ v.log.next = w.log.next /\ v.log.file = w.log.file
         /\ v.log.flushed = w.log.flushed /\ v.log.synced = w.log.synced
         /\ v.log.meter = w.log.meter
         /\ v.disk = w.disk /\ v.dropped = w.dropped /\ SameReplies(w, v)
<1> DEFINE L == IF fault = "create" THEN [w.log EXCEPT !.writer = "deferred"]
                ELSE IF fault = "header" THEN [w.log EXCEPT !.writer = "frozen"]
                ELSE [w.log EXCEPT !.writer = "live", !.base = w.log.next, !.fresh = TRUE]
<1>1. L \in Logs
  BY WorldFields DEF Logs, Writers
<1>2. v = [w EXCEPT !.log = L]
  BY WorldFields DEF CreateSegment, Worlds, Logs
<1>3. /\ \/ L.writer = "live" /\ L.base = w.log.next
         \/ fault = "create" /\ L.writer = "deferred" /\ L.base = w.log.base
         \/ L.writer = "frozen" /\ L.base = w.log.base
      /\ L.next = w.log.next /\ L.file = w.log.file /\ L.flushed = w.log.flushed
      /\ L.synced = w.log.synced /\ L.meter = w.log.meter
  BY WorldFields DEF Logs
<1> HIDE DEF L
<1> QED BY <1>1, <1>2, <1>3, LogOnly

\* An append moves the appended head and the byte meter, together.
LEMMA AppendedIs ==
  ASSUME NEW w \in Worlds, NEW v,
         v = [w EXCEPT !.log.next = @ + 1, !.log.meter = @ + 1]
  PROVE  /\ v \in Worlds
         /\ v.log = [w.log EXCEPT !.next = w.log.next + 1, !.meter = w.log.meter + 1]
         /\ v.disk = w.disk /\ v.dropped = w.dropped /\ SameReplies(w, v)
<1> DEFINE L == [w.log EXCEPT !.next = w.log.next + 1, !.meter = w.log.meter + 1]
<1>0. w.log \in Logs /\ w.log.next + 1 \in Nat /\ w.log.meter + 1 \in Nat
  BY WorldFields, LogFields
<1>1. L \in Logs
  BY <1>0 DEF Logs
<1>2. v = [w EXCEPT !.log = L]
  BY WorldFields DEF Worlds, Logs
<1> HIDE DEF L
<1>3. /\ v \in Worlds /\ v.log = L
      /\ v.disk = w.disk /\ v.dropped = w.dropped /\ SameReplies(w, v)
  BY <1>1, <1>2, LogOnly
<1> QED BY <1>3 DEF L

\* Every non-empty set of naturals has a least element (< is well-founded).
LEMMA LeastNatural ==
  ASSUME NEW T \in SUBSET Nat, T # {}
  PROVE  \E x \in T : \A y \in T : x <= y
<1>1. OpToRel(<, Nat) = {ss \in Nat \X Nat : ss[1] < ss[2]}
  BY DEF OpToRel
<1>2. PICK x \in T : \A y \in T : ~ (<<y, x>> \in OpToRel(<, Nat))
  BY NatLessThanWellFounded, WFMin, Zenon
<1>3. \A y \in T : y \in Nat /\ x \in Nat /\ ~ (y < x)
  BY <1>1, <1>2
<1> QED BY <1>3

\* Max, for the bounded sets of naturals it is applied to.
LEMMA MaxBounded ==
  ASSUME NEW n \in Nat, NEW S \in SUBSET (0 .. n), S # {}
  PROVE  Max(S) \in S /\ \A y \in S : y <= Max(S)
<1> DEFINE T == {n - x : x \in S}
<1>0. ASSUME NEW x \in S PROVE x \in Int /\ n - x \in Nat
  <2>1. x \in 0 .. n
    OBVIOUS
  <2> QED BY <2>1
<1>1. T \in SUBSET Nat /\ T # {}
  BY <1>0
<1>2. PICK t \in T : \A u \in T : t <= u
  BY <1>1, LeastNatural
<1>3. PICK x \in S : t = n - x
  BY <1>2
<1>4. \A y \in S : x >= y
  <2> SUFFICES ASSUME NEW y \in S PROVE x >= y
    OBVIOUS
  <2>1. n - y \in T /\ x \in Int /\ y \in Int
    BY <1>0
  <2>2. n - x <= n - y
    BY <2>1, <1>2, <1>3
  <2> QED BY <2>1, <2>2
<1>5. \E x1 \in S : \A y \in S : x1 >= y
  BY <1>4
<1>6. Max(S) \in S /\ \A y \in S : Max(S) >= y
  BY <1>5 DEF Max
<1>7. Max(S) \in Int /\ \A y \in S : y \in Int
  BY <1>0, <1>6
<1> QED BY <1>6, <1>7

\* The maximum that apply_ticket takes of two heads.
LEMMA MaxOfTwo ==
  ASSUME NEW a \in Nat, NEW b \in Nat
  PROVE  Max({a, b}) = IF a <= b THEN b ELSE a
<1>1. {a, b} \in SUBSET (0 .. a + b) /\ {a, b} # {}
  OBVIOUS
<1>2. Max({a, b}) \in {a, b} /\ \A y \in {a, b} : y <= Max({a, b})
  BY <1>1, MaxBounded
<1> HIDE <1>1
<1> QED BY <1>2

\* A current ticket moves both durable heads to its target.
LEMMA ApplyTicketIs ==
  ASSUME NEW w \in Worlds, NEW v, v = ApplyTicket(w), w.log.flushed = w.log.synced,
         w.log.synced < w.flight.target
  PROVE  /\ v \in Worlds
         /\ v.log = [w.log EXCEPT !.flushed = w.flight.target, !.synced = w.flight.target,
                       !.meter = IF w.log.meter >= w.flight.covered
                                   THEN w.log.meter - w.flight.covered ELSE 0]
         /\ v.disk = w.disk /\ v.dropped = w.dropped /\ SameReplies(w, v)
<1> DEFINE L == [w.log EXCEPT !.flushed = w.flight.target, !.synced = w.flight.target,
                       !.meter = IF w.log.meter >= w.flight.covered
                                   THEN w.log.meter - w.flight.covered ELSE 0]
<1>0. w.log.flushed \in Nat /\ w.flight.target \in Nat /\ w.flight.covered \in Nat
      /\ w.log.meter \in Nat /\ w.log.synced \in Nat
  BY WorldFields, LogFields DEF Flights
<1>m. (IF w.log.meter >= w.flight.covered
        THEN w.log.meter - w.flight.covered ELSE 0) \in Nat
  BY <1>0
<1>1. L \in Logs
  BY <1>0, <1>m, WorldFields DEF Logs
<1>2. Max({w.log.flushed, w.flight.target}) = w.flight.target
  BY <1>0, MaxOfTwo
<1>3. v = [w EXCEPT !.log = L]
  BY <1>2, WorldFields DEF ApplyTicket, Worlds, Logs
<1> HIDE DEF L
<1>4. /\ v \in Worlds /\ v.log = L
      /\ v.disk = w.disk /\ v.dropped = w.dropped /\ SameReplies(w, v)
  BY <1>1, <1>3, LogOnly
<1> QED BY <1>4 DEF L

-----------------------------------------------------------------------------
(* What a step promises about the replies.                                 *)

\* The reply ids in a sequence of parked replies or of commands.
Ids(s) == {s[k].id : k \in DOMAIN s}

\* INV-4: covering targets never decrease along the queue.
Sorted(s) == \A i, j \in DOMAIN s : i <= j => s[i].target <= s[j].target

\* Nobody is made to wait, and who still waits is not dropped from the parked
\* replies.
AnswersKept(w, v) ==
    /\ Len(v.answer) = Len(w.answer)
    /\ \A i \in 1 .. Len(w.answer) : v.answer[i] = "waiting" =>
          /\ w.answer[i] = "waiting"
          /\ i \in Ids(w.parked) => i \in Ids(v.parked)

\* Telling an outcome changes exactly the answers of the ids in s.
LEMMA TellIs ==
  ASSUME NEW a \in Seq(Answers), NEW s, NEW what \in Answers,
         NEW t, t = Tell(a, s, what)
  PROVE  /\ t \in Seq(Answers)
         /\ Len(t) = Len(a)
         /\ \A i \in 1 .. Len(a) : t[i] = IF i \in Ids(s) THEN what ELSE a[i]
<1>1. DOMAIN a = 1 .. Len(a) /\ Len(a) \in Nat /\ a \in [1 .. Len(a) -> Answers]
  OBVIOUS
<1>2. t = [i \in 1 .. Len(a) |-> IF \E k \in DOMAIN s : s[k].id = i THEN what ELSE a[i]]
  BY <1>1 DEF Tell
<1>3. \A i : (\E k \in DOMAIN s : s[k].id = i) <=> i \in Ids(s)
  BY DEF Ids
<1>4. t \in [1 .. Len(a) -> Answers]
  BY <1>1, <1>2
<1>5. t \in Seq(Answers) /\ DOMAIN t = 1 .. Len(a)
  BY <1>1, <1>4, SeqDef
<1>6. Len(t) = Len(a)
  BY <1>1, <1>5
<1>7. \A i \in 1 .. Len(a) : t[i] = IF i \in Ids(s) THEN what ELSE a[i]
  BY <1>2, <1>3
<1> QED BY <1>5, <1>6, <1>7

\* The parts of a world that releasing and refusing leave alone.
SameLog(w, v) ==
    /\ v.log = w.log /\ v.disk = w.disk /\ v.dropped = w.dropped
    /\ v.flight = w.flight /\ v.timed = w.timed

\* The world w with other parked replies, answers and acks.
WithReplies(w, P, A, K) == [w EXCEPT !.parked = P, !.answer = A, !.acked = K]

\* Changing the replies leaves the log and the in-flight slot alone.
LEMMA RepliesOnly ==
  ASSUME NEW w \in Worlds, NEW P \in Seq(Acks), NEW A \in Seq(Answers),
         NEW K \in SUBSET Nat, NEW v,
         v = WithReplies(w, P, A, K)
  PROVE  /\ v \in Worlds /\ SameLog(w, v)
         /\ v.parked = P /\ v.answer = A /\ v.acked = K
<1>1. v \in Worlds /\ v.parked = P /\ v.answer = A /\ v.acked = K
  BY DEF Worlds, WithReplies
<1>2. SameLog(w, v)
  BY DEF Worlds, SameLog, WithReplies
<1> QED BY <1>1, <1>2

\* release_ready: the released prefix is covered, the rest waits for more, and
\* nobody is dropped from the queue without an answer.
LEMMA ReleaseUpToIs ==
  ASSUME NEW w \in Worlds, NEW head \in Nat, Sorted(w.parked),
         NEW v, v = ReleaseUpTo(w, head)
  PROVE  /\ v \in Worlds /\ SameLog(w, v) /\ AnswersKept(w, v)
         /\ Sorted(v.parked)
         /\ \A i \in DOMAIN v.parked :
               /\ v.parked[i].target > head
               /\ \E j \in DOMAIN w.parked : v.parked[i] = w.parked[j]
         /\ \A o \in v.acked : o \in w.acked \/
               \E j \in DOMAIN w.parked : w.parked[j].off = o /\ w.parked[j].target <= head
<1> DEFINE p == w.parked
           S == {k \in 0 .. Len(p) : \A i \in 1 .. k : p[i].target <= head}
           c == Max(S)
           freed == SubSeq(p, 1, c)
           rest == SubSeq(p, c + 1, Len(p))
           A == Tell(w.answer, freed, "acked")
           K == w.acked \cup {freed[k].off : k \in {i \in DOMAIN freed : freed[i].id # 0}}
<1>1. p \in Seq(Acks) /\ Len(p) \in Nat /\ DOMAIN p = 1 .. Len(p)
      /\ w.answer \in Seq(Answers) /\ w.acked \in SUBSET Nat
  BY WorldFields
<1>2. \A i \in 1 .. Len(p) : p[i] \in Acks /\ p[i].id \in Nat /\ p[i].off \in Nat
                              /\ p[i].target \in Nat
  <2> SUFFICES ASSUME NEW i \in 1 .. Len(p)
               PROVE  p[i] \in Acks /\ p[i].id \in Nat /\ p[i].off \in Nat
                      /\ p[i].target \in Nat
    OBVIOUS
  <2> HIDE DEF p
  <2>1. p[i] \in Acks
    BY <1>1
  <2> QED BY <2>1 DEF Acks
<1>3. S \in SUBSET (0 .. Len(p)) /\ 0 \in S
  BY <1>1
<1>4. c \in S /\ \A k \in S : k <= c
  BY <1>1, <1>3, MaxBounded
<1> HIDE DEF c
<1>5. c \in 0 .. Len(p) /\ c \in Nat /\ \A i \in 1 .. c : p[i].target <= head
  BY <1>1, <1>4
<1>6. ASSUME NEW i \in c + 1 .. Len(p) PROVE p[i].target > head
  <2>1. c + 1 \in 0 .. Len(p) /\ c + 1 \notin S
    BY <1>1, <1>4, <1>5
  <2>2. PICK j \in 1 .. c + 1 : ~(p[j].target <= head)
    BY <2>1
  <2>3. j = c + 1
    BY <1>5, <2>2
  <2>4. c + 1 \in DOMAIN p /\ i \in DOMAIN p /\ c + 1 <= i
    BY <1>1, <1>5
  <2>5. p[c + 1].target <= p[i].target
    BY <2>4 DEF Sorted
  <2>6. p[c + 1].target \in Nat /\ p[i].target \in Nat
    BY <1>1, <1>2, <2>4
  <2> QED BY <2>2, <2>3, <2>5, <2>6
<1>7. /\ freed \in Seq(Acks) /\ Len(freed) = c /\ DOMAIN freed = 1 .. c
      /\ \A i \in 1 .. c : freed[i] = p[i]
  <2>1. \A i \in 1 .. c : p[i] \in Acks
    BY <1>1, <1>2, <1>5
  <2>2. /\ freed \in Seq(Acks) /\ Len(freed) = IF 1 <= c THEN c - 1 + 1 ELSE 0
        /\ \A i \in 1 .. c - 1 + 1 : freed[i] = p[1 + i - 1]
    BY <1>1, <1>5, <2>1, SubSeqProperties
  <2>3. Len(freed) = c
    BY <2>2, <1>5
  <2>4. DOMAIN freed = 1 .. c
    BY <2>2, <2>3
  <2>5. ASSUME NEW i \in 1 .. c PROVE freed[i] = p[i]
    <3>1. i \in 1 .. c - 1 + 1 /\ 1 + i - 1 = i
      BY <1>5
    <3> QED BY <2>2, <3>1
  <2> QED BY <2>2, <2>3, <2>4, <2>5
<1>8. /\ rest \in Seq(Acks) /\ DOMAIN rest = 1 .. Len(p) - c
      /\ \A i \in 1 .. Len(p) - c : rest[i] = p[c + i] /\ c + i \in c + 1 .. Len(p)
  <2>1. \A i \in c + 1 .. Len(p) : p[i] \in Acks
    BY <1>1, <1>2, <1>5
  <2>2. /\ rest \in Seq(Acks)
        /\ Len(rest) = IF c + 1 <= Len(p) THEN Len(p) - (c + 1) + 1 ELSE 0
        /\ \A i \in 1 .. Len(p) - (c + 1) + 1 : rest[i] = p[(c + 1) + i - 1]
    <3>1. c + 1 \in Int /\ Len(p) \in Int
      BY <1>1, <1>5
    <3> QED BY <1>1, <3>1, <2>1, SubSeqProperties
  <2>3. Len(rest) = Len(p) - c
    BY <2>2, <1>1, <1>5
  <2>4. DOMAIN rest = 1 .. Len(p) - c
    BY <2>2, <2>3
  <2>5. ASSUME NEW i \in 1 .. Len(p) - c
        PROVE  rest[i] = p[c + i] /\ c + i \in c + 1 .. Len(p)
    <3>1. i \in 1 .. Len(p) - (c + 1) + 1 /\ (c + 1) + i - 1 = c + i
          /\ c + i \in c + 1 .. Len(p)
      BY <1>1, <1>5
    <3> QED BY <2>2, <3>1
  <2> QED BY <2>2, <2>4, <2>5
<1>9. A \in Seq(Answers) /\ Len(A) = Len(w.answer)
      /\ \A i \in 1 .. Len(w.answer) :
            A[i] = IF i \in Ids(freed) THEN "acked" ELSE w.answer[i]
  <2> HIDE DEF freed
  <2>1. A = Tell(w.answer, freed, "acked") /\ "acked" \in Answers
    BY DEF Answers
  <2> HIDE DEF A
  <2> QED BY <1>1, <2>1, TellIs
<1>10. K \in SUBSET Nat
  BY <1>1, <1>2, <1>5, <1>7
<1>11. v = WithReplies(w, rest, A, K)
  BY DEF WithReplies, ReleaseUpTo, c, Worlds
<1> HIDE DEF freed, rest, A, K, S
<1>12. v \in Worlds /\ SameLog(w, v) /\ v.parked = rest /\ v.answer = A /\ v.acked = K
  BY <1>8, <1>9, <1>10, <1>11, RepliesOnly
<1>13. ASSUME NEW i \in DOMAIN rest
       PROVE  /\ rest[i].target > head
              /\ \E j \in DOMAIN p : rest[i] = p[j]
  <2>1. c + i \in c + 1 .. Len(p) /\ rest[i] = p[c + i]
    BY <1>8
  <2>2. c + i \in DOMAIN p
    BY <2>1, <1>1, <1>5
  <2> QED BY <2>1, <2>2, <1>6
<1>14. ASSUME NEW i \in DOMAIN rest, NEW j \in DOMAIN rest, i <= j
       PROVE  rest[i].target <= rest[j].target
  <2>1. c + i \in c + 1 .. Len(p) /\ rest[i] = p[c + i]
    BY <1>8
  <2>2. c + j \in c + 1 .. Len(p) /\ rest[j] = p[c + j]
    BY <1>8
  <2>3. c + i \in DOMAIN p /\ c + j \in DOMAIN p
    BY <2>1, <2>2, <1>1, <1>5
  <2>4. c + i <= c + j
    BY <1>5, <1>8, <1>14
  <2> QED BY <2>1, <2>2, <2>3, <2>4 DEF Sorted
<1>15. ASSUME NEW o \in K, o \notin w.acked
       PROVE  \E j \in DOMAIN p : p[j].off = o /\ p[j].target <= head
  <2>1. PICK k \in DOMAIN freed : o = freed[k].off
    BY <1>15 DEF K
  <2>2. k \in 1 .. c /\ k \in DOMAIN p /\ freed[k] = p[k]
    BY <2>1, <1>1, <1>5, <1>7
  <2> QED BY <2>1, <2>2, <1>5
<1>16. ASSUME NEW i \in 1 .. Len(w.answer), A[i] = "waiting"
       PROVE  w.answer[i] = "waiting" /\ (i \in Ids(p) => i \in Ids(rest))
  <2>1. i \notin Ids(freed) /\ w.answer[i] = "waiting"
    BY <1>9, <1>16
  <2>2. ASSUME i \in Ids(p) PROVE i \in Ids(rest)
    <3>1. PICK k \in DOMAIN p : p[k].id = i
      BY <2>2 DEF Ids
    <3>2. ~(k \in 1 .. c)
      BY <3>1, <2>1, <1>7 DEF Ids
    <3>3. k - c \in 1 .. Len(p) - c /\ c + (k - c) = k
      BY <3>1, <3>2, <1>1, <1>5
    <3>4. k - c \in DOMAIN rest /\ rest[k - c] = p[k]
      BY <3>3, <1>8
    <3> QED BY <3>1, <3>4 DEF Ids
  <2> QED BY <2>1, <2>2
<1>17. AnswersKept(w, v)
  BY <1>9, <1>12, <1>16 DEF AnswersKept
<1>18. Sorted(v.parked)
  BY <1>12, <1>14 DEF Sorted
<1> QED BY <1>12, <1>13, <1>15, <1>17, <1>18

\* A fatal fan-out empties the queue and answers everyone in it.
LEMMA FatalFanIs ==
  ASSUME NEW w \in Worlds, NEW v, v = FatalFan(w)
  PROVE  /\ v \in Worlds /\ SameLog(w, v) /\ AnswersKept(w, v)
         /\ v.parked = <<>> /\ v.acked = w.acked
<1> DEFINE A == Tell(w.answer, w.parked, "fatal")
           P == <<>>
<1>1. w.answer \in Seq(Answers) /\ w.parked \in Seq(Acks) /\ P \in Seq(Acks)
      /\ w.acked \in SUBSET Nat
  BY WorldFields
<1>2. A \in Seq(Answers) /\ Len(A) = Len(w.answer)
      /\ \A i \in 1 .. Len(w.answer) :
            A[i] = IF i \in Ids(w.parked) THEN "fatal" ELSE w.answer[i]
  <2>1. A = Tell(w.answer, w.parked, "fatal") /\ "fatal" \in Answers
    BY DEF Answers
  <2> HIDE DEF A
  <2> QED BY <1>1, <2>1, TellIs
<1>3. v = WithReplies(w, P, A, w.acked)
  BY DEF WithReplies, FatalFan, Worlds
<1> HIDE DEF A, P
<1>4. v \in Worlds /\ SameLog(w, v) /\ v.parked = P /\ v.answer = A /\ v.acked = w.acked
  BY <1>1, <1>2, <1>3, RepliesOnly
<1>5. AnswersKept(w, v)
  BY <1>2, <1>4 DEF AnswersKept
<1> QED BY <1>4, <1>5 DEF P

-----------------------------------------------------------------------------
(* The inductive invariant of the world, and the steps that preserve it.   *)

\* No process is killed, and no failed flusher barrier drops dirty pages: the
\* storage faults after which the code keeps its durability promise.
SafeStorage ==
    /\ MaxKills = 0
    /\ DropsPages => "flusher" \notin Faults

\* The order of the heads, and what may be on the platter.
Heads(w) ==
    /\ w.log.flushed = w.log.synced
    /\ w.log.synced <= w.log.file
    /\ w.log.file <= w.log.next
    /\ w.flight.target <= w.log.file
    /\ w.disk \subseteq Offs(w.log.file)

\* The byte meter and the in-flight ticket account for the open window.
Meter(w) ==
    Writable(w) =>
       /\ w.log.meter = w.log.next - w.log.synced
       /\ w.log.synced < w.flight.target =>
             w.flight.covered = w.flight.target - w.log.synced

\* A deferred roll has sealed everything, and takes a failed create.
Deferral(w) ==
    w.log.writer = "deferred" => w.log.synced = w.log.next /\ "create" \in Faults

\* Parked replies in order, each behind its own record and not past the end.
Queued(w) ==
    /\ Sorted(w.parked)
    /\ \A i \in DOMAIN w.parked :
          w.parked[i].target <= w.log.next /\ w.parked[i].off < w.parked[i].target

\* Everything acked or visible is on the platter, and a delivered barrier has
\* put its window there.
Durable(w) ==
    /\ Offs(w.log.synced) \subseteq w.disk
    /\ w.acked \subseteq Offs(w.log.synced)
    /\ Writable(w) => w.dropped = {}
    /\ Writable(w) /\ w.flight.state = "ok" => Offs(w.flight.target) \subseteq w.disk

\* The invariant of the world.
Good(w) ==
    /\ w \in Worlds
    /\ Heads(w) /\ Meter(w) /\ Deferral(w) /\ Queued(w)
    /\ SafeStorage => Durable(w)

\* What no step of the actor takes back.
Evolves(w, v) ==
    /\ w.log.synced <= v.log.synced
    /\ w.log.next <= v.log.next
    /\ ~Writable(w) => ~Writable(v) /\ v.log.next = w.log.next
    /\ AnswersKept(w, v)

\* A step from w that keeps the invariant and takes nothing back.
Goes(w, v) == Good(v) /\ Evolves(w, v)

\* The numbers of a good world.
LEMMA GoodNumbers ==
  ASSUME NEW w, Good(w)
  PROVE  /\ w.log.next \in Nat /\ w.log.file \in Nat /\ w.log.flushed \in Nat
         /\ w.log.synced \in Nat /\ w.log.meter \in Nat
         /\ w.flight.target \in Nat /\ w.flight.covered \in Nat
         /\ w.log.writer \in Writers
<1>1. w \in Worlds
  BY DEF Good
<1>2. w.log \in Logs /\ w.flight \in Flights
  BY <1>1, WorldFields
<1>3. w.flight.target \in Nat /\ w.flight.covered \in Nat
  BY <1>2 DEF Flights
<1> QED BY <1>2, <1>3, LogFields

\* Offs(n) is the first n offsets.
LEMMA OffsIs ==
  ASSUME NEW n \in Nat
  PROVE  \A o : o \in Offs(n) <=> o \in Nat /\ o < n
BY DEF Offs

\* A longer prefix holds a shorter one.
LEMMA OffsGrow ==
  ASSUME NEW a \in Nat, NEW b \in Nat, a <= b
  PROVE  Offs(a) \subseteq Offs(b)
BY OffsIs

\* Steps of the actor compose.
LEMMA EvolvesTransitive ==
  ASSUME NEW u, NEW w, NEW v, Good(u), Good(w), Good(v), Evolves(u, w), Evolves(w, v)
  PROVE  Evolves(u, v)
<1>1. u.log.synced <= v.log.synced /\ u.log.next <= v.log.next
  BY GoodNumbers DEF Evolves
<1>2. ~Writable(u) => ~Writable(v) /\ v.log.next = u.log.next
  BY DEF Evolves
<1>3. AnswersKept(u, v)
  BY DEF Evolves, AnswersKept
<1> QED BY <1>1, <1>2, <1>3 DEF Evolves

\* Doing nothing takes nothing back.
LEMMA EvolvesReflexive ==
  ASSUME NEW w, Good(w)
  PROVE  Evolves(w, w)
BY GoodNumbers DEF Evolves, AnswersKept

\* Two good steps are one.
LEMMA GoesChain ==
  ASSUME NEW u, NEW w, NEW v, Good(u), Goes(u, w), Goes(w, v)
  PROVE  Goes(u, v)
BY EvolvesTransitive DEF Goes

\* Doing nothing is a good step.
LEMMA GoesNowhere ==
  ASSUME NEW w, Good(w)
  PROVE  Goes(w, w)
BY EvolvesReflexive DEF Goes

\* A step that leaves the replies alone keeps every answer.
LEMMA SameAnswers ==
  ASSUME NEW w, NEW v, SameReplies(w, v)
  PROVE  AnswersKept(w, v)
BY DEF SameReplies, AnswersKept

\* Parked replies stay in order while the appended head grows.
LEMMA QueuedSame ==
  ASSUME NEW w, NEW v, Good(w), v \in Worlds, v.parked = w.parked, w.log.next <= v.log.next
  PROVE  Queued(v)
<1>1. w.log.next \in Nat /\ v.log.next \in Nat /\ w.parked \in Seq(Acks)
  <2>1. w \in Worlds
    BY DEF Good
  <2> QED BY <2>1, WorldFields, LogFields
<1>2. ASSUME NEW i \in DOMAIN w.parked PROVE w.parked[i].target \in Nat
  <2>1. w.parked[i] \in Acks
    BY <1>1
  <2> QED BY <2>1 DEF Acks
<1> QED BY <1>1, <1>2 DEF Good, Queued

\* A failed inline barrier.
LEMMA FreezeGood ==
  ASSUME NEW w, Good(w), NEW v, v = FrozenBy(w, w.log.next)
  PROVE  Goes(w, v) /\ ~Writable(v) /\ SameReplies(w, v)
<1>0. w \in Worlds /\ w.log \in Logs /\ w.log.next \in Nat
  BY GoodNumbers, WorldFields DEF Good
<1>1. /\ v \in Worlds
      /\ v.log = [w.log EXCEPT !.writer = "frozen", !.file = w.log.next]
      /\ v.disk = w.disk /\ SameReplies(w, v)
  BY <1>0, FrozenByIs, ZenonT(60)
<1>2. /\ v.log.next = w.log.next /\ v.log.synced = w.log.synced
      /\ v.log.flushed = w.log.flushed /\ v.log.file = w.log.next
      /\ v.log.writer = "frozen"
  BY <1>0, <1>1 DEF Logs
<1>3. ~Writable(v)
  BY <1>2 DEF Writable
<1>4. Heads(v)
  <2>1. Offs(w.log.file) \subseteq Offs(v.log.file)
    BY <1>2, GoodNumbers, OffsGrow DEF Good, Heads
  <2> QED BY <1>1, <1>2, <2>1, GoodNumbers DEF Good, Heads, SameReplies
<1>5. Queued(v)
  <2>1. w.log.next <= v.log.next /\ v.parked = w.parked
    BY <1>0, <1>1, <1>2 DEF SameReplies
  <2> QED BY <1>1, <2>1, QueuedSame
<1>6. SafeStorage => Durable(v)
  BY <1>1, <1>2, <1>3 DEF Good, Durable, SameReplies
<1>7. Good(v)
  BY <1>1, <1>2, <1>3, <1>4, <1>5, <1>6 DEF Good, Meter, Deferral
<1>8. Evolves(w, v)
  BY <1>1, <1>2, <1>3, GoodNumbers, SameAnswers DEF Evolves
<1> QED BY <1>1, <1>3, <1>7, <1>8 DEF Goes

\* A returned inline barrier or seal.
LEMMA DurableGood ==
  ASSUME NEW w, Good(w), Live(w), NEW v, v = AllDurable(w)
  PROVE  /\ Goes(w, v) /\ Live(v) /\ SameReplies(w, v)
         /\ v.log.synced = v.log.next /\ v.log.next = w.log.next
<1>0. w \in Worlds /\ w.log \in Logs /\ w.log.next \in Nat
  BY GoodNumbers, WorldFields DEF Good
<1>1. /\ v \in Worlds
      /\ v.log = [w.log EXCEPT !.flushed = w.log.next, !.synced = w.log.next,
                               !.file = w.log.next, !.meter = 0]
      /\ v.disk = w.disk \cup (Offs(w.log.next) \ w.dropped)
      /\ v.dropped = w.dropped /\ SameReplies(w, v)
  BY <1>0, AllDurableIs
<1>2. /\ v.log.next = w.log.next /\ v.log.synced = w.log.next
      /\ v.log.flushed = w.log.next /\ v.log.file = w.log.next
      /\ v.log.meter = 0 /\ v.log.writer = w.log.writer
  BY <1>0, <1>1 DEF Logs
<1>3. Live(v) /\ Writable(v) /\ Writable(w)
  BY <1>2 DEF Live, Writable
<1>4. Heads(v)
  <2>1. Offs(w.log.file) \subseteq Offs(v.log.file)
    BY <1>2, GoodNumbers, OffsGrow DEF Good, Heads
  <2> QED BY <1>1, <1>2, <2>1, GoodNumbers DEF Good, Heads, SameReplies
<1>5. Queued(v)
  <2>1. w.log.next <= v.log.next /\ v.parked = w.parked
    BY <1>0, <1>1, <1>2 DEF SameReplies
  <2> QED BY <1>1, <2>1, QueuedSame
<1>6. Meter(v) /\ Deferral(v)
  BY <1>1, <1>2, <1>3, GoodNumbers DEF Good, Heads, Meter, Deferral, SameReplies, Live
<1>7. ASSUME SafeStorage PROVE Durable(v)
  <2>1. Durable(w) /\ w.dropped = {}
    BY <1>3, <1>7 DEF Good, Durable
  <2>2. Offs(v.log.synced) \subseteq v.disk /\ w.disk \subseteq v.disk
    BY <1>1, <1>2, <2>1
  <2>3. Offs(w.log.synced) \subseteq Offs(v.log.synced)
    BY <1>2, GoodNumbers, OffsGrow DEF Good, Heads
  <2> QED BY <1>1, <2>1, <2>2, <2>3, <1>3 DEF Durable, SameReplies
<1>8. Good(v)
  BY <1>1, <1>4, <1>5, <1>6, <1>7 DEF Good
<1>9. Evolves(w, v)
  BY <1>1, <1>2, <1>3, GoodNumbers, SameAnswers DEF Evolves, Good, Heads
<1> QED BY <1>1, <1>2, <1>3, <1>8, <1>9 DEF Goes

\* The writer changes and nothing else that the invariant looks at does.
LEMMA WriterGood ==
  ASSUME NEW w, Good(w), NEW v, v \in Worlds, Writable(v) => Writable(w),
         v.log.next = w.log.next, v.log.file = w.log.file,
         v.log.flushed = w.log.flushed, v.log.synced = w.log.synced,
         v.log.meter = w.log.meter, v.disk = w.disk, v.dropped = w.dropped,
         SameReplies(w, v), Deferral(v)
  PROVE  Goes(w, v)
<1>1. Heads(v)
  BY DEF Good, Heads, SameReplies
<1>2. Meter(v)
  BY DEF Good, Meter, SameReplies
<1>3. Queued(v)
  <2>1. w.log.next <= v.log.next /\ v.parked = w.parked
    BY GoodNumbers DEF SameReplies
  <2> QED BY <2>1, QueuedSame
<1>4. SafeStorage => Durable(v)
  BY DEF Good, Durable, SameReplies
<1>5. Evolves(w, v)
  BY GoodNumbers, SameAnswers DEF Evolves
<1> QED BY <1>1, <1>2, <1>3, <1>4, <1>5 DEF Goes, Good

\* A fresh active segment, once everything before it is sealed.
LEMMA SegmentGood ==
  ASSUME NEW w, Good(w), Writable(w), w.log.synced = w.log.next,
         NEW fault \in Faults \cup {"none"}, NEW v, v = CreateSegment(w, fault)
  PROVE  /\ Goes(w, v) /\ SameReplies(w, v)
         /\ v.log.synced = v.log.next /\ v.log.next = w.log.next
<1>0. w \in Worlds
  BY DEF Good
<1>1. /\ v \in Worlds
      /\ \/ v.log.writer = "live" \/ v.log.writer = "frozen"
         \/ fault = "create" /\ v.log.writer = "deferred"
      /\ v.log.next = w.log.next /\ v.log.file = w.log.file
      /\ v.log.flushed = w.log.flushed /\ v.log.synced = w.log.synced
      /\ v.log.meter = w.log.meter
      /\ v.disk = w.disk /\ v.dropped = w.dropped /\ SameReplies(w, v)
  BY <1>0, CreateSegmentIs
<1>2. Deferral(v)
  BY <1>1 DEF Deferral
<1> QED BY <1>1, <1>2, WriterGood

\* Finish a deferred roll, or leave the world alone.
LEMMA EnsureGood ==
  ASSUME NEW w, Good(w), NEW fault \in Faults \cup {"none"},
         NEW v, v = EnsureWritable(w, fault)
  PROVE  /\ Goes(w, v) /\ SameReplies(w, v)
         /\ v.log.synced = w.log.synced /\ v.log.next = w.log.next
<1>1. CASE w.log.writer = "deferred"
  <2>1. Writable(w) /\ w.log.synced = w.log.next /\ v = CreateSegment(w, fault)
    BY <1>1 DEF Writable, Good, Deferral, EnsureWritable
  <2> QED BY <2>1, SegmentGood
<1>2. CASE w.log.writer # "deferred"
  BY <1>2, GoesNowhere DEF EnsureWritable, SameReplies
<1> QED BY <1>1, <1>2

\* Leaving the replies alone twice.
LEMMA SameRepliesChain ==
  ASSUME NEW u, NEW w, NEW v, SameReplies(u, w), SameReplies(w, v)
  PROVE  SameReplies(u, v)
BY DEF SameReplies

\* Seal and create.
LEMMA RollGood ==
  ASSUME NEW w, Good(w), Live(w), NEW fault \in Faults \cup {"none"},
         NEW v, v = Roll(w, fault)
  PROVE  Goes(w, v) /\ SameReplies(w, v)
<1>1. CASE fault = "barrier"
  BY <1>1, FreezeGood DEF Roll
<1>2. CASE fault # "barrier"
  <2> DEFINE u == AllDurable(w)
  <2>1. v = CreateSegment(u, fault)
    BY <1>2 DEF Roll
  <2>2. Goes(w, u) /\ Live(u) /\ SameReplies(w, u) /\ u.log.synced = u.log.next
    BY DurableGood
  <2> HIDE DEF u
  <2>3. Good(u) /\ Writable(u)
    BY <2>2 DEF Goes, Live, Writable
  <2>4. Goes(u, v) /\ SameReplies(u, v)
    BY <2>1, <2>2, <2>3, SegmentGood
  <2> QED BY <2>2, <2>4, GoesChain, SameRepliesChain
<1> QED BY <1>1, <1>2

\* One record appended to a live writer.
LEMMA AppendedGood ==
  ASSUME NEW w, Good(w), Live(w), NEW v,
         v = [w EXCEPT !.log.next = @ + 1, !.log.meter = @ + 1]
  PROVE  /\ Goes(w, v) /\ SameReplies(w, v) /\ Live(v)
         /\ v.log.synced < v.log.next
<1>0. w \in Worlds /\ w.log \in Logs
  BY WorldFields, SMTT(30) DEF Good
<1>1. /\ v \in Worlds
      /\ v.log = [w.log EXCEPT !.next = w.log.next + 1, !.meter = w.log.meter + 1]
      /\ v.disk = w.disk /\ v.dropped = w.dropped /\ SameReplies(w, v)
  BY <1>0, AppendedIs
<1>2. /\ v.log.next = w.log.next + 1 /\ v.log.synced = w.log.synced
      /\ v.log.flushed = w.log.flushed /\ v.log.file = w.log.file
      /\ v.log.meter = w.log.meter + 1 /\ v.log.writer = w.log.writer
  <2> DEFINE n == w.log.next + 1
             m == w.log.meter + 1
  <2>1. v.log = [w.log EXCEPT !.next = n, !.meter = m]
    BY <1>1
  <2> HIDE DEF n, m
  <2>2. /\ v.log.next = n /\ v.log.synced = w.log.synced
        /\ v.log.flushed = w.log.flushed /\ v.log.file = w.log.file
        /\ v.log.meter = m /\ v.log.writer = w.log.writer
    BY <1>0, <2>1, ZenonT(60) DEF Logs
  <2> QED BY <2>2 DEF n, m
<1>3. Live(v) /\ Writable(v) /\ Writable(w)
  BY <1>2 DEF Live, Writable
<1>4. Heads(v)
  BY <1>1, <1>2, GoodNumbers DEF Good, Heads, SameReplies
<1>5. Queued(v)
  <2>1. w.log.next <= v.log.next /\ v.parked = w.parked
    BY <1>1, <1>2, GoodNumbers DEF SameReplies
  <2> QED BY <1>1, <2>1, QueuedSame
<1>6. Meter(v) /\ Deferral(v)
  BY <1>1, <1>2, <1>3, GoodNumbers DEF Good, Meter, Deferral, SameReplies, Live
<1>7. SafeStorage => Durable(v)
  BY <1>1, <1>2, <1>3 DEF Good, Durable, SameReplies
<1>8. Good(v)
  BY <1>1, <1>4, <1>5, <1>6, <1>7 DEF Good
<1>9. Evolves(w, v)
  BY <1>1, <1>2, <1>3, GoodNumbers, SameAnswers DEF Evolves
<1>10. v.log.synced < v.log.next
  BY <1>2, GoodNumbers DEF Good, Heads
<1> QED BY <1>1, <1>3, <1>8, <1>9, <1>10 DEF Goes

\* Log::append: ready the writer, roll if the segment is full, append.
LEMMA AppendGood ==
  ASSUME NEW w, Good(w), NEW fault \in Faults \cup {"none"},
         NEW v, v = AppendRecord(w, fault)
  PROVE  /\ Goes(w, v) /\ SameReplies(w, v)
         /\ Live(v) => v.log.synced < v.log.next
<1> DEFINE ready == EnsureWritable(w, fault)
           rolled == IF Live(ready) /\ SegmentFull(ready)
                       THEN Roll(ready, fault) ELSE ready
           grown == [rolled EXCEPT !.log.next = @ + 1, !.log.meter = @ + 1]
<1>1. Goes(w, ready) /\ SameReplies(w, ready)
  BY EnsureGood
<1>2. v = IF Live(rolled) THEN grown ELSE rolled
  BY DEF AppendRecord
<1> HIDE DEF ready
<1>3. Goes(ready, rolled) /\ SameReplies(ready, rolled)
  <2>1. Good(ready)
    BY <1>1 DEF Goes
  <2>2. CASE Live(ready) /\ SegmentFull(ready)
    BY <2>1, <2>2, RollGood
  <2>3. CASE ~(Live(ready) /\ SegmentFull(ready))
    BY <2>1, <2>3, GoesNowhere DEF SameReplies
  <2> QED BY <2>2, <2>3
<1> HIDE DEF rolled
<1>4. Goes(w, rolled) /\ SameReplies(w, rolled) /\ Good(rolled)
  BY <1>1, <1>3, GoesChain, SameRepliesChain DEF Goes
<1>5. CASE Live(rolled)
  <2>1. v = grown
    BY <1>2, <1>5
  <2>2. Goes(rolled, v) /\ SameReplies(rolled, v) /\ v.log.synced < v.log.next
    BY <1>4, <1>5, <2>1, AppendedGood
  <2> QED BY <1>4, <2>2, GoesChain, SameRepliesChain
<1>6. CASE ~Live(rolled)
  BY <1>2, <1>4, <1>6
<1> QED BY <1>5, <1>6

\* Log::sync, the inline barrier: a writer that still takes writes is drained.
LEMMA SyncGood ==
  ASSUME NEW w, Good(w), NEW fault \in Faults \cup {"none"},
         NEW v, v = SyncLog(w, fault)
  PROVE  /\ Goes(w, v) /\ SameReplies(w, v)
         /\ Writable(v) => v.log.synced = v.log.next
<1> DEFINE ready == EnsureWritable(w, fault)
<1>1. Goes(w, ready) /\ SameReplies(w, ready)
  BY EnsureGood
<1>2. v = IF ~Live(ready) THEN ready
          ELSE IF fault = "barrier" THEN FrozenBy(ready, ready.log.next)
          ELSE AllDurable(ready)
  BY DEF SyncLog
<1> HIDE DEF ready
<1>3. Good(ready)
  BY <1>1 DEF Goes
<1>4. CASE ~Live(ready)
  <2>1. v = ready
    BY <1>2, <1>4
  <2>2. Writable(ready) => ready.log.writer = "deferred"
    BY <1>3, <1>4, GoodNumbers DEF Writable, Live, Writers
  <2> QED BY <1>1, <1>3, <2>1, <2>2 DEF Good, Deferral
<1>5. CASE Live(ready) /\ fault = "barrier"
  <2>1. Goes(ready, v) /\ ~Writable(v) /\ SameReplies(ready, v)
    BY <1>2, <1>3, <1>5, FreezeGood
  <2> QED BY <1>1, <2>1, GoesChain, SameRepliesChain
<1>6. CASE Live(ready) /\ fault # "barrier"
  <2>1. Goes(ready, v) /\ SameReplies(ready, v) /\ v.log.synced = v.log.next
    BY <1>2, <1>3, <1>6, DurableGood
  <2> QED BY <1>1, <2>1, GoesChain, SameRepliesChain
<1> QED BY <1>4, <1>5, <1>6

\* Log::complete_sync_ticket for a barrier that returned.
LEMMA TicketGood ==
  ASSUME NEW w, Good(w), w.flight.state = "ok", NEW v, v = CompleteTicket(w)
  PROVE  Goes(w, v) /\ SameReplies(w, v)
<1>1. CASE ~Writable(w) \/ w.log.synced >= w.flight.target
  BY <1>1, GoesNowhere DEF CompleteTicket, SameReplies
<1>2. CASE Writable(w) /\ ~(w.log.synced >= w.flight.target)
  <2>0. w \in Worlds /\ w.log \in Logs /\ w.log.flushed = w.log.synced
        /\ w.log.synced < w.flight.target /\ v = ApplyTicket(w)
    BY <1>2, GoodNumbers, WorldFields DEF Good, Heads, CompleteTicket
  <2>1. /\ v \in Worlds
        /\ v.log = [w.log EXCEPT !.flushed = w.flight.target, !.synced = w.flight.target,
                       !.meter = IF w.log.meter >= w.flight.covered
                                   THEN w.log.meter - w.flight.covered ELSE 0]
        /\ v.disk = w.disk /\ v.dropped = w.dropped /\ SameReplies(w, v)
    BY <2>0, ApplyTicketIs
  <2>2. /\ v.log.next = w.log.next /\ v.log.synced = w.flight.target
        /\ v.log.flushed = w.flight.target /\ v.log.file = w.log.file
        /\ v.log.meter = IF w.log.meter >= w.flight.covered
                           THEN w.log.meter - w.flight.covered ELSE 0
        /\ v.log.writer = w.log.writer
    BY <2>0, <2>1 DEF Logs
  <2>3. /\ w.log.meter = w.log.next - w.log.synced
        /\ w.flight.covered = w.flight.target - w.log.synced
        /\ w.flight.target <= w.log.next
    BY <1>2, <2>0, GoodNumbers DEF Good, Meter, Heads
  <2>4. v.log.meter = v.log.next - v.log.synced
    BY <2>2, <2>3, GoodNumbers
  <2>5. Heads(v)
    BY <2>1, <2>2, GoodNumbers DEF Good, Heads, SameReplies
  <2>6. Queued(v)
    <3>1. w.log.next <= v.log.next /\ v.parked = w.parked
      BY <2>1, <2>2, GoodNumbers DEF SameReplies
    <3> QED BY <2>1, <3>1, QueuedSame
  <2>7. Meter(v)
    BY <2>1, <2>2, <2>4, GoodNumbers DEF Meter, SameReplies
  <2>8. Deferral(v)
    BY <2>0, <2>2, <2>3, GoodNumbers DEF Good, Deferral
  <2>9. ASSUME SafeStorage PROVE Durable(v)
    <3>1. Offs(w.flight.target) \subseteq w.disk /\ w.dropped = {}
          /\ w.acked \subseteq Offs(w.log.synced)
      BY <1>2, <2>9 DEF Good, Durable
    <3>2. Offs(w.log.synced) \subseteq Offs(w.flight.target)
      BY <2>0, GoodNumbers, OffsGrow
    <3> QED BY <2>1, <2>2, <3>1, <3>2 DEF Durable, SameReplies
  <2>10. Good(v)
    BY <2>1, <2>5, <2>6, <2>7, <2>8, <2>9 DEF Good
  <2>11. Evolves(w, v)
    BY <1>2, <2>0, <2>1, <2>2, GoodNumbers, SameAnswers DEF Evolves, Writable
  <2> QED BY <2>1, <2>10, <2>11 DEF Goes
<1> QED BY <1>1, <1>2

\* The writer freezes outside a barrier of the log's own.
LEMMA FrozenWriterGood ==
  ASSUME NEW w, Good(w), NEW v, v = [w EXCEPT !.log.writer = "frozen"]
  PROVE  Goes(w, v) /\ SameReplies(w, v) /\ ~Writable(v)
<1> DEFINE L == [w.log EXCEPT !.writer = "frozen"]
<1>0. w \in Worlds /\ w.log \in Logs
  BY WorldFields DEF Good
<1>1. L \in Logs
  BY <1>0 DEF Logs, Writers
<1>2. v = [w EXCEPT !.log = L]
  BY <1>0 DEF Worlds, Logs
<1>3. /\ L.next = w.log.next /\ L.file = w.log.file /\ L.flushed = w.log.flushed
      /\ L.synced = w.log.synced /\ L.meter = w.log.meter /\ L.writer = "frozen"
  BY <1>0 DEF Logs
<1> HIDE DEF L
<1>4. /\ v \in Worlds /\ v.log = L
      /\ v.disk = w.disk /\ v.dropped = w.dropped /\ SameReplies(w, v)
  BY <1>0, <1>1, <1>2, LogOnly
<1>5. ~Writable(v) /\ Deferral(v)
  BY <1>3, <1>4 DEF Writable, Deferral
<1>6. Goes(w, v)
  BY <1>3, <1>4, <1>5, WriterGood
<1> QED BY <1>4, <1>5, <1>6

\* The in-flight slot is emptied, the barrier's cost noted.
LEMMA LandedGood ==
  ASSUME NEW w, Good(w), NEW b \in BOOLEAN, NEW v,
         v = [w EXCEPT !.flight = NoFlight, !.timed = b]
  PROVE  /\ Goes(w, v) /\ v.flight = NoFlight /\ v.log = w.log
         /\ v.parked = w.parked
<1>0. w \in Worlds
  BY DEF Good
<1>1. NoFlight \in Flights /\ NoFlight.state = "none" /\ NoFlight.target = 0
  BY DEF NoFlight, Flights
<1>2. v \in Worlds /\ v.flight = NoFlight
  BY <1>0, <1>1 DEF Worlds
<1>3. /\ v.log = w.log /\ v.disk = w.disk /\ v.dropped = w.dropped
      /\ v.parked = w.parked /\ v.answer = w.answer /\ v.acked = w.acked
  BY <1>0 DEF Worlds
<1>4. Heads(v) /\ Meter(v) /\ Deferral(v)
  BY <1>1, <1>2, <1>3, GoodNumbers DEF Good, Heads, Meter, Deferral, Writable
<1>5. Queued(v)
  BY <1>3 DEF Good, Queued
<1>6. SafeStorage => Durable(v)
  BY <1>1, <1>2, <1>3 DEF Good, Durable, Writable
<1>7. Good(v)
  BY <1>2, <1>4, <1>5, <1>6 DEF Good
<1>8. Evolves(w, v)
  BY <1>3, GoodNumbers DEF Evolves, Writable, AnswersKept
<1> QED BY <1>2, <1>3, <1>7, <1>8 DEF Goes

\* A barrier's cost is noted.
LEMMA TimedGood ==
  ASSUME NEW w, Good(w), NEW v, v = [w EXCEPT !.timed = TRUE]
  PROVE  /\ Goes(w, v) /\ v.flight = w.flight /\ v.log = w.log
         /\ v.parked = w.parked
<1>0. w \in Worlds
  BY DEF Good
<1>2. v \in Worlds
  BY <1>0 DEF Worlds
<1>3. /\ v.log = w.log /\ v.disk = w.disk /\ v.dropped = w.dropped
      /\ v.parked = w.parked /\ v.answer = w.answer /\ v.acked = w.acked
      /\ v.flight = w.flight
  BY <1>0 DEF Worlds
<1>7. Good(v)
  BY <1>2, <1>3 DEF Good, Heads, Meter, Deferral, Queued, Durable, Writable
<1>8. Evolves(w, v)
  BY <1>3, GoodNumbers DEF Evolves, Writable, AnswersKept
<1> QED BY <1>3, <1>7, <1>8 DEF Goes

\* Every parked reply waits for a record that is not durable yet.
Released(w) == \A i \in DOMAIN w.parked : w.parked[i].target > w.log.synced

\* A parked reply's fields have their types.
LEMMA ParkedFields ==
  ASSUME NEW w, w \in Worlds, NEW i \in DOMAIN w.parked
  PROVE  w.parked[i].id \in Nat /\ w.parked[i].off \in Nat /\ w.parked[i].target \in Nat
<1>1. w.parked \in Seq(Acks)
  BY WorldFields
<1>2. w.parked[i] \in Acks
  BY <1>1
<1> QED BY <1>2 DEF Acks

\* release_ready acks only what the durable head covers, and all of it.
LEMMA ReleaseGood ==
  ASSUME NEW w, Good(w), NEW v, v = ReleaseReady(w)
  PROVE  Goes(w, v) /\ SameLog(w, v) /\ Released(v)
<1>0. w \in Worlds /\ w.log.synced \in Nat /\ Sorted(w.parked)
      /\ v = ReleaseUpTo(w, w.log.synced)
  BY GoodNumbers DEF Good, Queued, ReleaseReady
<1>1. /\ v \in Worlds /\ SameLog(w, v) /\ AnswersKept(w, v)
      /\ Sorted(v.parked)
      /\ \A i \in DOMAIN v.parked :
            /\ v.parked[i].target > w.log.synced
            /\ \E j \in DOMAIN w.parked : v.parked[i] = w.parked[j]
      /\ \A o \in v.acked : o \in w.acked \/
            \E j \in DOMAIN w.parked :
               w.parked[j].off = o /\ w.parked[j].target <= w.log.synced
  BY <1>0, ReleaseUpToIs, SMTT(30)
<1>2. Released(v)
  BY <1>1 DEF Released, SameLog
<1>3. Queued(v)
  BY <1>1 DEF Good, Queued, SameLog
<1>4. Heads(v) /\ Meter(v) /\ Deferral(v)
  BY <1>1 DEF Good, Heads, Meter, Deferral, SameLog, Writable
<1>5. ASSUME SafeStorage PROVE Durable(v)
  <2>1. ASSUME NEW o \in v.acked PROVE o \in Offs(w.log.synced)
    <3>1. CASE o \in w.acked
      BY <1>5, <3>1 DEF Good, Durable
    <3>2. CASE o \notin w.acked
      <4>1. PICK j \in DOMAIN w.parked :
               w.parked[j].off = o /\ w.parked[j].target <= w.log.synced
        BY <1>1, <3>2
      <4>2. o \in Nat /\ o < w.parked[j].target /\ w.parked[j].target \in Nat
        BY <1>0, <4>1, ParkedFields DEF Good, Queued
      <4>3. o < w.log.synced
        BY <1>0, <4>1, <4>2
      <4> QED BY <1>0, <4>2, <4>3, OffsIs
    <3> QED BY <3>1, <3>2
  <2> QED BY <1>1, <1>5, <2>1 DEF Good, Durable, SameLog, Writable
<1>6. Evolves(w, v)
  BY <1>1, GoodNumbers DEF Evolves, SameLog, Writable
<1> QED BY <1>1, <1>2, <1>3, <1>4, <1>5, <1>6 DEF Goes, Good

\* With the whole log durable a release leaves nobody parked.
LEMMA NobodyLeft ==
  ASSUME NEW w, Good(w), Released(w), w.log.synced = w.log.next
  PROVE  w.parked = <<>>
<1>1. w \in Worlds /\ w.parked \in Seq(Acks)
  BY WorldFields DEF Good
<1>2. ASSUME w.parked # <<>> PROVE FALSE
  <2>1. 1 \in DOMAIN w.parked
    BY <1>1, <1>2
  <2>2. w.parked[1].target > w.log.synced /\ w.parked[1].target <= w.log.next
    BY <2>1 DEF Released, Good, Queued
  <2>3. w.parked[1].target \in Nat
    BY <1>1, <2>1, ParkedFields
  <2> QED BY <2>2, <2>3, GoodNumbers
<1> QED BY <1>2

\* The fatal fan-out is a good step.
LEMMA FanGood ==
  ASSUME NEW w, Good(w), NEW v, v = FatalFan(w)
  PROVE  Goes(w, v) /\ SameLog(w, v) /\ v.parked = <<>>
<1>0. w \in Worlds
  BY DEF Good
<1>1. /\ v \in Worlds /\ SameLog(w, v) /\ AnswersKept(w, v)
      /\ v.parked = <<>> /\ v.acked = w.acked
  BY <1>0, FatalFanIs
<1>2. Queued(v)
  BY <1>1 DEF Queued, Sorted
<1>3. Heads(v) /\ Meter(v) /\ Deferral(v) /\ (SafeStorage => Durable(v))
  BY <1>1 DEF Good, Heads, Meter, Deferral, Durable, SameLog, Writable
<1>4. Evolves(w, v)
  BY <1>1, GoodNumbers DEF Evolves, SameLog, Writable
<1> QED BY <1>1, <1>2, <1>3, <1>4 DEF Goes, Good

\* Leaving the log alone twice.
LEMMA SameLogChain ==
  ASSUME NEW u, NEW w, NEW v, SameLog(u, w), SameLog(w, v)
  PROVE  SameLog(u, v)
BY DEF SameLog

\* A frozen writer answers everyone.
LEMMA ReconcileGood ==
  ASSUME NEW w, Good(w), NEW v, v = ReconcileFreeze(w)
  PROVE  /\ Goes(w, v) /\ SameLog(w, v)
         /\ Writable(w) => v = w
         /\ ~Writable(v) => v.parked = <<>>
<1>1. CASE Writable(w)
  BY <1>1, GoesNowhere DEF ReconcileFreeze, SameLog
<1>2. CASE ~Writable(w)
  <2> DEFINE r == ReleaseReady(w)
  <2>1. v = FatalFan(r)
    BY <1>2 DEF ReconcileFreeze
  <2>2. Goes(w, r) /\ SameLog(w, r)
    BY ReleaseGood
  <2> HIDE DEF r
  <2>3. Goes(r, v) /\ SameLog(r, v) /\ v.parked = <<>>
    BY <2>1, <2>2, FanGood DEF Goes
  <2> QED BY <1>2, <2>2, <2>3, GoesChain, SameLogChain
<1> QED BY <1>1, <1>2

\* A barrier is staged over everything appended.
LEMMA IssuedGood ==
  ASSUME NEW w, Good(w), Live(w), NEW v,
         v = [w EXCEPT !.log.file = w.log.next,
                       !.flight = [state |-> "out", target |-> w.log.next,
                                   covered |-> w.log.meter]]
  PROVE  /\ Goes(w, v) /\ v.flight # NoFlight /\ v.parked = w.parked
         /\ v.log.synced = w.log.synced /\ v.log.next = w.log.next
<1> DEFINE L == [w.log EXCEPT !.file = w.log.next]
           F == [state |-> "out", target |-> w.log.next, covered |-> w.log.meter]
<1>0. w \in Worlds /\ w.log \in Logs /\ w.log.next \in Nat /\ w.log.meter \in Nat
  BY GoodNumbers, WorldFields DEF Good
<1>1. L \in Logs /\ F \in Flights
  BY <1>0 DEF Logs, Flights
<1>2. /\ L.next = w.log.next /\ L.file = w.log.next /\ L.flushed = w.log.flushed
      /\ L.synced = w.log.synced /\ L.meter = w.log.meter /\ L.writer = w.log.writer
  BY <1>0 DEF Logs
<1>3. F.state = "out" /\ F.target = w.log.next /\ F.covered = w.log.meter /\ F # NoFlight
  BY DEF NoFlight
<1>4. v = [w EXCEPT !.log = L, !.flight = F]
  BY <1>0 DEF Worlds
<1> HIDE DEF L, F
<1>5. v \in Worlds /\ v.log = L /\ v.flight = F
  BY <1>0, <1>1, <1>4 DEF Worlds
<1>6. /\ v.disk = w.disk /\ v.dropped = w.dropped /\ v.parked = w.parked
      /\ v.answer = w.answer /\ v.acked = w.acked
  BY <1>0, <1>4 DEF Worlds
<1>7. Writable(w) /\ Writable(v) /\ Live(v)
  BY <1>2, <1>5 DEF Live, Writable
<1>8. Heads(v) /\ Deferral(v)
  <2>1. Offs(w.log.file) \subseteq Offs(v.log.file)
    BY <1>2, <1>5, GoodNumbers, OffsGrow DEF Good, Heads
  <2> QED BY <1>2, <1>3, <1>5, <1>6, <1>7, <2>1, GoodNumbers DEF Good, Heads, Deferral, Live
<1>9. Meter(v)
  BY <1>2, <1>3, <1>5, <1>7, GoodNumbers DEF Good, Meter
<1>10. Queued(v)
  BY <1>2, <1>5, <1>6 DEF Good, Queued
<1>11. SafeStorage => Durable(v)
  BY <1>2, <1>3, <1>5, <1>6, <1>7 DEF Good, Durable
<1>12. Evolves(w, v)
  BY <1>2, <1>5, <1>6, <1>7, GoodNumbers DEF Evolves, AnswersKept
<1> QED BY <1>2, <1>3, <1>5, <1>6, <1>8, <1>9, <1>10, <1>11, <1>12 DEF Goes, Good

\* maybe_issue: after it either a barrier is out, or a live log is durable, or
\* the writer froze and everyone is answered.
LEMMA IssueGood ==
  ASSUME NEW w, Good(w), NEW fault \in Faults \cup {"none"},
         NEW v, v = MaybeIssue(w, fault)
  PROVE  /\ Goes(w, v)
         /\ v.log.synced = w.log.synced /\ v.log.next = w.log.next
         /\ w.flight # NoFlight => v = w
         /\ Writable(v) => v.parked = w.parked
         /\ w.flight = NoFlight /\ ~Writable(v) => v.parked = <<>> /\ v.flight = NoFlight
         /\ v.flight = NoFlight /\ Writable(v) => v.log.synced = v.log.next
<1>1. CASE w.flight # NoFlight
  BY <1>1, GoesNowhere DEF MaybeIssue
<1>2. CASE w.flight = NoFlight
  <2> DEFINE ready == EnsureWritable(w, fault)
  <2>1. /\ Goes(w, ready) /\ SameReplies(w, ready)
        /\ ready.log.synced = w.log.synced /\ ready.log.next = w.log.next
    BY EnsureGood
  <2>2. v = IF ~Writable(ready) THEN ReconcileFreeze(ready)
            ELSE IF Live(ready) /\ HasUnsynced(ready)
              THEN [ready EXCEPT !.log.file = ready.log.next,
                                 !.flight = [state   |-> "out",
                                             target  |-> ready.log.next,
                                             covered |-> ready.log.meter]]
            ELSE ready
    BY <1>2 DEF MaybeIssue
  <2> HIDE DEF ready
  <2>3. Good(ready) /\ ready.flight = NoFlight /\ ready.parked = w.parked
    BY <1>2, <2>1 DEF Goes, SameReplies
  <2>4. CASE ~Writable(ready)
    <3>1. Goes(ready, v) /\ SameLog(ready, v) /\ (~Writable(v) => v.parked = <<>>)
      BY <2>2, <2>3, <2>4, ReconcileGood
    <3>2. ~Writable(v) /\ v.flight = NoFlight /\ v.log = ready.log
      BY <2>3, <2>4, <3>1 DEF SameLog, Writable
    <3> QED BY <1>2, <2>1, <3>1, <3>2, GoesChain
  <2>5. CASE Writable(ready) /\ Live(ready) /\ HasUnsynced(ready)
    <3>1. v = [ready EXCEPT !.log.file = ready.log.next,
                            !.flight = [state   |-> "out",
                                        target  |-> ready.log.next,
                                        covered |-> ready.log.meter]]
      BY <2>2, <2>5
    <3>2. /\ Goes(ready, v) /\ v.flight # NoFlight /\ v.parked = ready.parked
          /\ v.log.synced = ready.log.synced /\ v.log.next = ready.log.next
      BY <2>3, <2>5, <3>1, IssuedGood
    <3>3. Writable(v)
      <4>1. ready \in Worlds /\ ready.log \in Logs
        BY <2>3, WorldFields DEF Good
      <4>2. v.log.writer = ready.log.writer
        BY <3>1, <4>1 DEF Worlds, Logs
      <4> QED BY <2>5, <4>2 DEF Writable
    <3> QED BY <1>2, <2>1, <2>3, <3>2, <3>3, GoesChain
  <2>6. CASE Writable(ready) /\ ~(Live(ready) /\ HasUnsynced(ready))
    <3>1. v = ready
      BY <2>2, <2>6
    <3>2. ready.log.synced = ready.log.next
      <4>1. ready.log.writer \in Writers
        BY <2>3, GoodNumbers
      <4>2. CASE ready.log.writer = "deferred"
        BY <2>3, <4>2 DEF Good, Deferral
      <4>3. CASE Live(ready)
        BY <2>6, <4>3 DEF HasUnsynced
      <4> QED BY <2>6, <4>1, <4>2, <4>3 DEF Writable, Live, Writers
    <3> QED BY <1>2, <2>1, <2>3, <2>6, <3>1, <3>2
  <2> QED BY <2>4, <2>5, <2>6
<1> QED BY <1>1, <1>2

\* on_completion leaves a barrier in flight or nobody parked.
LEMMA CompletionGood ==
  ASSUME NEW w, Good(w), NEW fault \in Faults \cup {"none"},
         NEW v, v = OnCompletion(w, fault)
  PROVE  Goes(w, v) /\ (v.flight = NoFlight => v.parked = <<>>)
<1>1. CASE w.flight.state = "ok"
  <2> DEFINE done == CompleteTicket(w)
             landed == [done EXCEPT !.flight = NoFlight, !.timed = TRUE]
             issued == MaybeIssue(landed, fault)
             next == ReleaseReady(issued)
             tail == IF fault = "tail" THEN [next EXCEPT !.log.writer = "frozen"]
                                       ELSE next
  <2>1. v = ReconcileFreeze(tail)
    BY <1>1 DEF OnCompletion
  <2>2. Goes(w, done) /\ Good(done)
    BY <1>1, TicketGood DEF Goes
  <2> HIDE DEF done
  <2>3. Goes(done, landed) /\ Good(landed) /\ landed.flight = NoFlight
    BY <2>2, LandedGood DEF Goes
  <2> HIDE DEF landed
  <2>4. /\ Goes(landed, issued) /\ Good(issued)
        /\ ~Writable(issued) => issued.parked = <<>>
        /\ issued.flight = NoFlight /\ Writable(issued) =>
              issued.log.synced = issued.log.next
    BY <2>3, IssueGood DEF Goes
  <2> HIDE DEF issued
  <2>5. Goes(issued, next) /\ Good(next) /\ SameLog(issued, next) /\ Released(next)
    BY <2>4, ReleaseGood DEF Goes
  <2> HIDE DEF next
  <2>6. Goes(next, tail) /\ Good(tail) /\ (Writable(tail) => tail = next)
    <3>1. CASE fault = "tail"
      BY <2>5, <3>1, FrozenWriterGood DEF Goes
    <3>2. CASE fault # "tail"
      BY <2>5, <3>2, GoesNowhere
    <3> QED BY <3>1, <3>2
  <2> HIDE DEF tail
  <2>7. Goes(tail, v) /\ SameLog(tail, v) /\ (Writable(tail) => v = tail)
        /\ (~Writable(v) => v.parked = <<>>)
    BY <2>1, <2>6, ReconcileGood
  <2>8. Goes(w, v)
    <3>1. Goes(w, landed)
      BY <2>2, <2>3, GoesChain
    <3>2. Goes(w, issued)
      BY <2>4, <3>1, GoesChain
    <3>3. Goes(w, next)
      BY <2>5, <3>2, GoesChain
    <3>4. Goes(w, tail)
      BY <2>6, <3>3, GoesChain
    <3> QED BY <2>7, <3>4, GoesChain
  <2>9. ASSUME v.flight = NoFlight, Writable(v) PROVE v.parked = <<>>
    <3>1. v = next
      BY <2>6, <2>7, <2>9 DEF SameLog, Writable
    <3>2. issued.flight = NoFlight /\ Writable(issued) /\ issued.log = next.log
      BY <2>5, <2>9, <3>1 DEF SameLog, Writable
    <3>3. next.log.synced = next.log.next
      BY <2>4, <3>2
    <3> QED BY <2>5, <3>1, <3>3, NobodyLeft
  <2> QED BY <2>7, <2>8, <2>9
<1>2. CASE w.flight.state # "ok"
  <2> DEFINE landed == [w EXCEPT !.flight = NoFlight]
             frozen == [landed EXCEPT !.log.writer = "frozen"]
  <2>1. v = ReconcileFreeze(frozen)
    BY <1>2 DEF OnCompletion
  <2>2. landed = [w EXCEPT !.flight = NoFlight, !.timed = w.timed]
        /\ w.timed \in BOOLEAN
    <3>1. w \in Worlds
      BY DEF Good
    <3> QED BY <3>1 DEF Worlds
  <2> HIDE DEF landed
  <2>3. Goes(w, landed) /\ Good(landed)
    BY <2>2, LandedGood DEF Goes
  <2>4. Goes(landed, frozen) /\ Good(frozen) /\ ~Writable(frozen)
    BY <2>3, FrozenWriterGood DEF Goes
  <2> HIDE DEF frozen
  <2>5. Goes(frozen, v) /\ SameLog(frozen, v) /\ (~Writable(v) => v.parked = <<>>)
    BY <2>1, <2>4, ReconcileGood
  <2>6. v.parked = <<>>
    BY <2>4, <2>5 DEF SameLog, Writable
  <2> QED BY <2>3, <2>4, <2>5, <2>6, GoesChain
<1> QED BY <1>1, <1>2

\* Folding in a completion, if there is one.
LEMMA PollGood ==
  ASSUME NEW w, Good(w), NEW fault \in Faults \cup {"none"},
         NEW v, v = PollCompletions(w, fault)
  PROVE  Goes(w, v)
<1>1. CASE Delivered(w)
  BY <1>1, CompletionGood DEF PollCompletions
<1>2. CASE ~Delivered(w)
  BY <1>2, GoesNowhere DEF PollCompletions
<1> QED BY <1>1, <1>2

\* The inline covering barrier drains a writer that survives it.
LEMMA InlineGood ==
  ASSUME NEW w, Good(w), NEW fault \in Faults \cup {"none"},
         NEW v, v = CommitInline(w, fault)
  PROVE  /\ Goes(w, v) /\ v.flight = w.flight
         /\ Writable(v) => v.parked = <<>> /\ v.log.synced = v.log.next
<1> DEFINE synced == SyncLog(w, fault)
           noted == [synced EXCEPT !.timed = TRUE]
           u == IF HasUnsynced(w) THEN ReconcileFreeze(noted) ELSE w
<1>1. v = ReleaseReady(u)
  BY DEF CommitInline
<1>2. Goes(w, u) /\ Good(u) /\ u.flight = w.flight
      /\ (Writable(u) => u.log.synced = u.log.next)
  <2>1. CASE HasUnsynced(w)
    <3>1. u = ReconcileFreeze(noted)
      BY <2>1
    <3>2. /\ Goes(w, synced) /\ Good(synced) /\ synced.flight = w.flight
          /\ Writable(synced) => synced.log.synced = synced.log.next
      BY SyncGood DEF Goes, SameReplies
    <3> HIDE DEF synced, u
    <3>3. Goes(synced, noted) /\ Good(noted) /\ noted.flight = synced.flight
          /\ noted.log = synced.log
      BY <3>2, TimedGood DEF Goes
    <3> HIDE DEF noted
    <3>4. Goes(noted, u) /\ SameLog(noted, u)
      BY <3>1, <3>3, ReconcileGood
    <3>5. Goes(w, u)
      BY <3>2, <3>3, <3>4, GoesChain
    <3> QED BY <3>2, <3>3, <3>4, <3>5 DEF SameLog, Writable, Goes
  <2>2. CASE ~HasUnsynced(w)
    BY <2>2, GoesNowhere DEF HasUnsynced
  <2> QED BY <2>1, <2>2
<1> HIDE DEF u
<1>3. Goes(u, v) /\ SameLog(u, v) /\ Released(v)
  BY <1>1, <1>2, ReleaseGood
<1>4. Goes(w, v)
  BY <1>2, <1>3, GoesChain
<1>5. ASSUME Writable(v) PROVE v.parked = <<>> /\ v.log.synced = v.log.next
  <2>1. v.log.synced = v.log.next
    BY <1>2, <1>3, <1>5 DEF SameLog, Writable
  <2> QED BY <1>3, <2>1, NobodyLeft DEF Goes
<1> QED BY <1>2, <1>3, <1>4, <1>5 DEF SameLog

\* A quiesce answers everyone, whatever becomes of the writer.
LEMMA QuiesceGood ==
  ASSUME NEW w, Good(w), NEW fault \in Faults \cup {"none"},
         NEW v, v = Quiesce(w, fault)
  PROVE  /\ Goes(w, v) /\ v.flight = w.flight /\ v.parked = <<>>
         /\ Writable(v) => v.log.synced = v.log.next
<1> DEFINE u == CommitInline(w, fault)
<1>1. v = ReconcileFreeze(u)
  BY DEF Quiesce
<1>2. /\ Goes(w, u) /\ Good(u) /\ u.flight = w.flight
      /\ Writable(u) => u.parked = <<>> /\ u.log.synced = u.log.next
  BY InlineGood DEF Goes
<1> HIDE DEF u
<1>3. Goes(u, v) /\ SameLog(u, v) /\ (Writable(u) => v = u)
      /\ (~Writable(v) => v.parked = <<>>)
  BY <1>1, <1>2, ReconcileGood
<1>4. Goes(w, v)
  BY <1>2, <1>3, GoesChain
<1> QED BY <1>2, <1>3, <1>4 DEF SameLog, Writable

\* The produce with this id was answered or is parked.
Settled(v, id) ==
    \A i \in 1 .. Len(v.answer) :
       i = id /\ v.answer[i] = "waiting" => i \in Ids(v.parked)

\* The producers in s are told how their produce ended.
Told(w, s, how) == [w EXCEPT !.answer = Tell(@, s, how)]

\* Nothing but the answers to s changes.
LEMMA ToldGood ==
  ASSUME NEW w, Good(w), NEW s, NEW how \in Answers \ {"waiting"},
         NEW v, v = Told(w, s, how)
  PROVE  /\ Goes(w, v) /\ SameLog(w, v) /\ v.parked = w.parked
         /\ \A i \in 1 .. Len(v.answer) : i \in Ids(s) => v.answer[i] # "waiting"
<1> DEFINE A == Tell(w.answer, s, how)
           P == w.parked
           K == w.acked
<1>0. w \in Worlds /\ w.answer \in Seq(Answers) /\ P \in Seq(Acks)
      /\ K \in SUBSET Nat
  BY WorldFields DEF Good
<1>1. A \in Seq(Answers) /\ Len(A) = Len(w.answer)
      /\ \A i \in 1 .. Len(w.answer) : A[i] = IF i \in Ids(s) THEN how ELSE w.answer[i]
  <2>1. how \in Answers /\ A = Tell(w.answer, s, how)
    OBVIOUS
  <2> HIDE DEF A
  <2> QED BY <1>0, <2>1, TellIs
<1>2. v = WithReplies(w, P, A, K)
  BY <1>0 DEF WithReplies, Worlds, Told
<1> HIDE DEF A, P, K
<1>3. v \in Worlds /\ SameLog(w, v) /\ v.parked = P /\ v.answer = A /\ v.acked = K
  BY <1>0, <1>1, <1>2, RepliesOnly
<1>4. v.parked = w.parked /\ v.acked = w.acked
  BY <1>3 DEF P, K
<1>5. AnswersKept(w, v)
  BY <1>1, <1>3, <1>4 DEF AnswersKept
<1>6. Good(v)
  BY <1>3, <1>4 DEF Good, Heads, Meter, Deferral, Queued, Durable, SameLog, Writable
<1>7. Evolves(w, v)
  BY <1>3, <1>5, GoodNumbers DEF Evolves, SameLog, Writable
<1>8. \A i \in 1 .. Len(v.answer) : i \in Ids(s) => v.answer[i] # "waiting"
  BY <1>1, <1>3
<1> QED BY <1>3, <1>4, <1>6, <1>7, <1>8 DEF Goes

\* One command has one id.
LEMMA IdsOne ==
  ASSUME NEW c
  PROVE  Ids(<<c>>) = {c.id}
BY DEF Ids

\* park_or_reply.
LEMMA ParkGood ==
  ASSUME NEW w, Good(w), NEW id \in Nat, NEW off \in Nat, off < w.log.next,
         NEW v, v = Park(w, id, off)
  PROVE  /\ Goes(w, v) /\ SameLog(w, v) /\ Settled(v, id)
         /\ v.parked # w.parked => w.log.synced < w.log.next
<1> DEFINE ack == [id |-> id, off |-> off, target |-> w.log.next]
<1>0. w \in Worlds /\ w.answer \in Seq(Answers) /\ w.parked \in Seq(Acks)
      /\ w.acked \in SUBSET Nat /\ w.log.next \in Nat
  BY WorldFields, GoodNumbers DEF Good
<1>1. ack \in Acks /\ ack.id = id /\ ack.off = off /\ ack.target = w.log.next
  BY <1>0 DEF Acks
<1>2. CASE w.log.next <= w.log.synced
  <2> DEFINE A == Tell(w.answer, <<ack>>, "acked")
             P == w.parked
             K == IF id # 0 THEN w.acked \cup {off} ELSE w.acked
             s == <<ack>>
  <2>1. P \in Seq(Acks) /\ K \in SUBSET Nat
    BY <1>0
  <2>2. A \in Seq(Answers) /\ Len(A) = Len(w.answer)
        /\ \A i \in 1 .. Len(w.answer) :
              A[i] = IF i \in Ids(s) THEN "acked" ELSE w.answer[i]
    <3>1. "acked" \in Answers /\ A = Tell(w.answer, s, "acked")
      BY DEF Answers
    <3> HIDE DEF A, s
    <3> QED BY <1>0, <3>1, TellIs
  <2>3. v = WithReplies(w, P, A, K)
    BY <1>0, <1>2 DEF WithReplies, Worlds, Park
  <2>4. id \in Ids(s)
    BY <1>1, IdsOne
  <2> HIDE DEF A, P, K, s, ack
  <2>5. v \in Worlds /\ SameLog(w, v) /\ v.parked = P /\ v.answer = A /\ v.acked = K
    BY <1>0, <2>1, <2>2, <2>3, RepliesOnly
  <2>6. v.parked = w.parked /\ v.acked \subseteq w.acked \cup {off}
    BY <2>5 DEF P, K
  <2>7. AnswersKept(w, v)
    BY <2>2, <2>5, <2>6 DEF AnswersKept
  <2>8. SafeStorage => Durable(v)
    <3>1. off \in Offs(w.log.synced)
      BY <1>2, GoodNumbers, OffsIs
    <3> QED BY <2>5, <2>6, <3>1 DEF Good, Durable, SameLog, Writable
  <2>9. Good(v)
    BY <2>5, <2>6, <2>8 DEF Good, Heads, Meter, Deferral, Queued, SameLog, Writable
  <2>10. Evolves(w, v)
    BY <2>5, <2>7, GoodNumbers DEF Evolves, SameLog, Writable
  <2>11. Settled(v, id)
    BY <2>2, <2>4, <2>5 DEF Settled
  <2> QED BY <2>5, <2>6, <2>9, <2>10, <2>11 DEF Goes
<1>3. CASE ~(w.log.next <= w.log.synced)
  <2> DEFINE P == Append(w.parked, ack)
             A == w.answer
             K == w.acked
             n == Len(w.parked)
  <2>1. P \in Seq(Acks) /\ n \in Nat /\ DOMAIN P = 1 .. n + 1 /\ P[n + 1] = ack
        /\ DOMAIN w.parked = 1 .. n /\ \A i \in 1 .. n : P[i] = w.parked[i]
    <3> HIDE DEF ack
    <3> QED BY <1>0, <1>1
  <2>2. v = WithReplies(w, P, A, K)
    BY <1>0, <1>3 DEF WithReplies, Worlds, Park
  <2>3. A \in Seq(Answers) /\ K \in SUBSET Nat
    BY <1>0
  <2> HIDE DEF A, P, K, n, ack
  <2>4. v \in Worlds /\ SameLog(w, v) /\ v.parked = P /\ v.answer = A /\ v.acked = K
    BY <1>0, <2>1, <2>2, <2>3, RepliesOnly
  <2>5. v.answer = w.answer /\ v.acked = w.acked
    BY <2>4 DEF A, K
  <2>6. ASSUME NEW i \in DOMAIN P
        PROVE  P[i].target \in Nat /\ P[i].target <= w.log.next /\ P[i].off < P[i].target
    <3>1. CASE i \in 1 .. n
      <4>1. i \in DOMAIN w.parked /\ P[i] = w.parked[i]
        BY <2>1, <3>1
      <4> QED BY <1>0, <4>1, ParkedFields DEF Good, Queued
    <3>2. CASE i = n + 1
      BY <1>0, <1>1, <2>1, <3>2
    <3> QED BY <2>1, <3>1, <3>2
  <2>7. ASSUME NEW i \in DOMAIN P, NEW j \in DOMAIN P, i <= j
        PROVE  P[i].target <= P[j].target
    <3>1. CASE j \in 1 .. n
      <4>1. i \in 1 .. n
        BY <2>1, <2>7, <3>1
      <4>2. i \in DOMAIN w.parked /\ j \in DOMAIN w.parked
            /\ P[i] = w.parked[i] /\ P[j] = w.parked[j]
        BY <2>1, <3>1, <4>1
      <4> QED BY <2>7, <4>2 DEF Good, Queued, Sorted
    <3>2. CASE j = n + 1
      <4>1. P[j].target = w.log.next
        BY <1>1, <2>1, <3>2
      <4> QED BY <2>6, <4>1
    <3> QED BY <2>1, <3>1, <3>2
  <2>8. Queued(v)
    BY <2>4, <2>6, <2>7 DEF Queued, Sorted, SameLog
  <2>9. Good(v)
    BY <2>4, <2>5, <2>8 DEF Good, Heads, Meter, Deferral, Durable, SameLog, Writable
  <2>10. Ids(w.parked) \subseteq Ids(v.parked) /\ id \in Ids(v.parked)
    <3>1. ASSUME NEW x \in Ids(w.parked) PROVE x \in Ids(P)
      <4>1. PICK k \in 1 .. n : x = w.parked[k].id
        BY <2>1 DEF Ids
      <4>2. k \in DOMAIN P /\ P[k].id = x
        BY <2>1, <4>1
      <4> QED BY <4>2 DEF Ids
    <3>2. n + 1 \in DOMAIN P /\ P[n + 1].id = id
      BY <1>1, <2>1
    <3> QED BY <2>4, <3>1, <3>2 DEF Ids
  <2>11. AnswersKept(w, v) /\ Settled(v, id)
    BY <2>5, <2>10 DEF AnswersKept, Settled
  <2>12. Evolves(w, v)
    BY <2>4, <2>11, GoodNumbers DEF Evolves, SameLog, Writable
  <2> QED BY <1>3, <2>4, <2>9, <2>11, <2>12, GoodNumbers DEF Goes
<1> QED BY <1>2, <1>3

\* A lingering window in which somebody waits has something to sync.
Pending(w) ==
    Writable(w) /\ w.flight = NoFlight /\ w.parked # <<>> => w.log.synced < w.log.next

\* process_produce after admission.
LEMMA ProduceGood ==
  ASSUME NEW w, Good(w), NEW fault \in Faults \cup {"none"},
         NEW c, c.id \in Nat, NEW v, v = Produce(w, c, fault)
  PROVE  /\ Goes(w, v) /\ Settled(v, c.id)
         /\ "create" \notin Faults /\ Pending(w) => Pending(v)
<1> DEFINE u == AppendRecord(w, fault)
           refused == IF c.kind = "shed" THEN "rejected"
                      ELSE IF Writable(u) THEN "failed" ELSE "fatal"
<1>0. /\ Goes(w, u) /\ SameReplies(w, u)
      /\ Live(u) => u.log.synced < u.log.next
  BY AppendGood
<1>1. refused \in Answers \ {"waiting"}
  BY DEF Answers
<1>2. v = IF c.kind = "dup" /\ w.log.next > 0
            THEN Park(w, c.id, w.log.next - 1)
          ELSE IF c.kind # "shed" /\ Live(u)
            THEN Park(u, c.id, u.log.next - 1)
          ELSE Refuse(IF c.kind = "shed" THEN w ELSE u, c, refused)
  BY DEF Produce
<1> HIDE DEF u, refused
<1>3. CASE c.kind = "dup" /\ w.log.next > 0
  <2>1. v = Park(w, c.id, w.log.next - 1)
    BY <1>2, <1>3
  <2>2. w.log.next - 1 \in Nat /\ w.log.next - 1 < w.log.next
    BY <1>3, GoodNumbers
  <2>3. /\ Goes(w, v) /\ SameLog(w, v) /\ Settled(v, c.id)
        /\ v.parked # w.parked => w.log.synced < w.log.next
    BY <2>1, <2>2, ParkGood
  <2> QED BY <2>3 DEF Pending, SameLog, Writable
<1>4. CASE ~(c.kind = "dup" /\ w.log.next > 0) /\ c.kind # "shed" /\ Live(u)
  <2>1. v = Park(u, c.id, u.log.next - 1)
    BY <1>2, <1>4
  <2>2. u.log.synced < u.log.next /\ Good(u)
    BY <1>0, <1>4 DEF Goes
  <2>3. u.log.next - 1 \in Nat /\ u.log.next - 1 < u.log.next
    BY <2>2, GoodNumbers
  <2>4. Goes(u, v) /\ SameLog(u, v) /\ Settled(v, c.id)
    BY <2>1, <2>2, <2>3, ParkGood
  <2> QED BY <1>0, <2>2, <2>4, GoesChain DEF Pending, SameLog
<1>5. CASE ~(c.kind = "dup" /\ w.log.next > 0) /\ ~(c.kind # "shed" /\ Live(u))
  <2> DEFINE r == IF c.kind = "shed" THEN w ELSE u
             s == <<c>>
  <2>1. v = Told(r, s, refused)
    BY <1>2, <1>5 DEF Refuse, Told
  <2>2. Good(r) /\ Goes(w, r)
    BY <1>0, GoesNowhere DEF Goes
  <2>3. "create" \notin Faults /\ Pending(w) => Pending(r)
    <3>1. CASE c.kind = "shed"
      BY <3>1
    <3>2. CASE c.kind # "shed"
      <4>1. r = u /\ ~Live(u) /\ Good(u)
        BY <1>0, <1>5, <3>2 DEF Goes
      <4>2. Writable(u) => "create" \in Faults
        BY <4>1, GoodNumbers DEF Good, Deferral, Writable, Live, Writers
      <4> QED BY <4>1, <4>2 DEF Pending
    <3> QED BY <3>1, <3>2
  <2>4. c.id \in Ids(s)
    BY IdsOne
  <2> HIDE DEF r, s
  <2>5. /\ Goes(r, v) /\ SameLog(r, v) /\ v.parked = r.parked
        /\ \A i \in 1 .. Len(v.answer) : i \in Ids(s) => v.answer[i] # "waiting"
    BY <1>1, <2>1, <2>2, ToldGood
  <2>6. Settled(v, c.id)
    BY <2>4, <2>5 DEF Settled
  <2>7. Pending(r) => Pending(v)
    BY <2>5 DEF Pending, SameLog, Writable
  <2> QED BY <2>2, <2>3, <2>5, <2>6, <2>7, GoesChain
<1> QED BY <1>3, <1>4, <1>5

-----------------------------------------------------------------------------
(* The specification: the invariant and one lemma per action.              *)

\* A command of the channel; only a produce carries a reply id.
Commands ==
    {c \in [kind : ProduceKinds \cup {"job", "shutdown"}, id : Nat] :
       c.kind \in {"job", "shutdown"} => c.id = 0}

\* Where the actor is while it holds a first dispatch back.
Lingering == {"linger", "late", "latedrain"}

\* The channel, the drained batch, and where the actor is with them.
Flow ==
    /\ queue \in Seq(Commands)
    /\ batch \in Seq(Commands)
    /\ used \in [commands : Nat, faults : Nat, kills : Nat, cuts : Nat]
    /\ pc \in {"idle", "poll", "command", "drain", "end", "linger", "late",
               "latedrain", "stopped"}
    /\ pc \in {"idle", "end", "linger", "stopped"} => batch = <<>>
    /\ pc \in {"command", "drain", "late", "latedrain"} => batch # <<>>
    /\ pc \in {"late", "latedrain"} => Len(batch) = 1

\* Whoever still waits is parked, in the batch or in the channel.
Waiters ==
    \A i \in 1 .. Len(answer) : answer[i] = "waiting" =>
       i \in Ids(parked) \cup Ids(batch) \cup Ids(queue)

\* An exited actor left nothing behind it.
Stopped ==
    pc = "stopped" =>
       /\ queue = <<>> /\ parked = <<>>
       /\ Writable(World) => log.synced = log.next

\* No deferred roll can strand a lingering window.
RollsInLinger == ~Linger \/ "create" \notin Faults

\* The no-wedge lemma, with what a lingering window owes it.
Unwedged ==
    /\ pc \in Lingering => Linger /\ Pending(World)
    /\ NoWedge

\* The inductive invariant of the specification.
Inv ==
    /\ Good(World)
    /\ Flow /\ Waiters /\ Stopped
    /\ RollsInLinger => Unwedged

\* The restarts are the only steps that may take a head back.
Restarts == used'.kills + used'.cuts # used.kills + used.cuts

\* What a step that is no restart does to the heads and the writer.
Moves ==
    /\ log'.synced >= log.synced
    /\ log.writer = "frozen" => log'.writer = "frozen" /\ log'.next = log.next

\* The world, variable by variable.
LEMMA WorldIs ==
  /\ World.log = log /\ World.disk = disk /\ World.dropped = dropped
  /\ World.flight = flight /\ World.parked = parked /\ World.timed = timed
  /\ World.answer = answer /\ World.acked = acked
BY DEF World

\* The actor's helpers leave exactly the world they computed.
LEMMA BecomeIs ==
  ASSUME NEW w \in Worlds, Become(w)
  PROVE  World' = w
<1>1. /\ log' = w.log /\ disk' = w.disk /\ dropped' = w.dropped /\ flight' = w.flight
      /\ parked' = w.parked /\ timed' = w.timed /\ answer' = w.answer /\ acked' = w.acked
  BY DEF Become
<1>2. w = [log |-> w.log, disk |-> w.disk, dropped |-> w.dropped, flight |-> w.flight,
           parked |-> w.parked, timed |-> w.timed, answer |-> w.answer,
           acked |-> w.acked]
  BY DEF Worlds
<1> QED BY <1>1, <1>2 DEF World

\* A step of the actor that leaves the world at v.
LEMMA ActorStep ==
  ASSUME NEW v, Good(World), Become(v), Goes(World, v)
  PROVE  /\ World' = v /\ Good(World)' /\ Moves
         /\ Len(answer') = Len(answer)
         /\ \A i \in 1 .. Len(answer) : answer'[i] = "waiting" =>
               answer[i] = "waiting" /\ (i \in Ids(parked) => i \in Ids(parked'))
         /\ flight' = v.flight /\ parked' = v.parked /\ log' = v.log /\ answer' = v.answer
<1>1. Good(v) /\ v \in Worlds /\ Evolves(World, v)
  BY DEF Goes, Good
<1>2. World' = v
  BY <1>1, BecomeIs
<1>3. flight' = v.flight /\ parked' = v.parked /\ log' = v.log /\ answer' = v.answer
  BY DEF Become
<1>4. Good(World)'
  BY <1>1, <1>2 DEF Good, Heads, Meter, Deferral, Queued, Durable, SafeStorage, Writable
<1>5. log.synced \in Nat /\ v.log.synced \in Nat
  BY <1>1, GoodNumbers, WorldIs
<1>6. Moves
  BY <1>1, <1>3, <1>5, WorldIs DEF Evolves, Moves, Writable
<1> QED BY <1>1, <1>2, <1>3, <1>4, <1>6, WorldIs DEF Evolves, AnswersKept

\* Sequences of commands and their ids.
LEMMA IdsEmpty == Ids(<<>>) = {}
BY DEF Ids

\* Taking the head off a sequence removes one id at most.
LEMMA TailIds ==
  ASSUME NEW T, NEW s \in Seq(T), s # <<>>
  PROVE  /\ Head(s) \in T /\ Tail(s) \in Seq(T)
         /\ Len(Tail(s)) = Len(s) - 1
         /\ Ids(s) \subseteq {Head(s).id} \cup Ids(Tail(s))
<1>1. /\ Tail(s) \in Seq(T) /\ Len(s) \in Nat /\ Len(s) >= 1
      /\ Len(Tail(s)) = Len(s) - 1 /\ Head(s) = s[1] /\ Head(s) \in T
      /\ \A k \in 1 .. Len(s) - 1 : Tail(s)[k] = s[k + 1]
  OBVIOUS
<1>2. DOMAIN s = 1 .. Len(s) /\ DOMAIN Tail(s) = 1 .. Len(s) - 1
  BY <1>1
<1>3. ASSUME NEW x \in Ids(s), x # Head(s).id PROVE x \in Ids(Tail(s))
  <2>1. PICK k \in DOMAIN s : x = s[k].id
    BY DEF Ids
  <2>2. k # 1
    BY <1>1, <1>3, <2>1
  <2>3. k - 1 \in 1 .. Len(s) - 1 /\ (k - 1) + 1 = k
    BY <1>1, <1>2, <2>1, <2>2
  <2>4. k - 1 \in DOMAIN Tail(s) /\ Tail(s)[k - 1] = s[k]
    BY <1>1, <1>2, <2>3
  <2> QED BY <2>1, <2>4 DEF Ids
<1> QED BY <1>1, <1>3

\* Appending keeps the ids and adds one.
LEMMA AppendIds ==
  ASSUME NEW T, NEW s \in Seq(T), NEW c \in T
  PROVE  Append(s, c) \in Seq(T) /\ Ids(s) \cup {c.id} \subseteq Ids(Append(s, c))
<1> DEFINE a == Append(s, c)
<1>1. /\ a \in Seq(T) /\ Len(s) \in Nat /\ DOMAIN a = 1 .. Len(s) + 1
      /\ DOMAIN s = 1 .. Len(s) /\ a[Len(s) + 1] = c
      /\ \A k \in 1 .. Len(s) : a[k] = s[k]
  OBVIOUS
<1> HIDE DEF a
<1>2. Len(s) + 1 \in DOMAIN a
  BY <1>1
<1>3. \A k \in DOMAIN s : k \in DOMAIN a /\ a[k] = s[k]
  BY <1>1
<1>4. c.id \in Ids(a)
  BY <1>1, <1>2 DEF Ids
<1>5. Ids(s) \subseteq Ids(a)
  BY <1>3 DEF Ids
<1> QED BY <1>1, <1>4, <1>5 DEF a

\* A concatenation has the ids of both parts.
LEMMA ConcatIds ==
  ASSUME NEW T, NEW s \in Seq(T), NEW t \in Seq(T)
  PROVE  Ids(s) \cup Ids(t) \subseteq Ids(s \o t)
<1> DEFINE a == s \o t
<1>1. /\ a \in Seq(T) /\ Len(s) \in Nat /\ Len(t) \in Nat
      /\ DOMAIN a = 1 .. Len(s) + Len(t) /\ DOMAIN s = 1 .. Len(s) /\ DOMAIN t = 1 .. Len(t)
      /\ \A k \in 1 .. Len(s) + Len(t) :
            a[k] = IF k <= Len(s) THEN s[k] ELSE t[k - Len(s)]
  OBVIOUS
<1> HIDE DEF a
<1>2. ASSUME NEW k \in DOMAIN s PROVE k \in DOMAIN a /\ a[k] = s[k]
  BY <1>1
<1>3. ASSUME NEW k \in DOMAIN t PROVE k + Len(s) \in DOMAIN a /\ a[k + Len(s)] = t[k]
  <2>1. k + Len(s) \in 1 .. Len(s) + Len(t) /\ ~(k + Len(s) <= Len(s))
        /\ (k + Len(s)) - Len(s) = k
    BY <1>1
  <2> QED BY <1>1, <2>1
<1>4. Ids(s) \subseteq Ids(a)
  BY <1>2 DEF Ids
<1>5. Ids(t) \subseteq Ids(a)
  BY <1>3 DEF Ids
<1> QED BY <1>4, <1>5 DEF a

\* Who waits after a step of the actor waited before it, and is still found.
LEMMA WaitersKept ==
  ASSUME Waiters, Len(answer') = Len(answer),
         \A i \in 1 .. Len(answer) : answer'[i] = "waiting" =>
            answer[i] = "waiting" /\ (i \in Ids(parked) => i \in Ids(parked')),
         \A i \in 1 .. Len(answer) :
            answer'[i] = "waiting" /\ i \in Ids(batch) \cup Ids(queue) =>
               i \in Ids(parked') \cup Ids(batch') \cup Ids(queue')
  PROVE  Waiters'
BY DEF Waiters, Ids

\* A storage fault only counts itself.
LEMMA StrikesIs ==
  ASSUME NEW fault, Strikes(fault), Flow
  PROVE  used' \in [commands : Nat, faults : Nat, kills : Nat, cuts : Nat]
<1>1. CASE UNCHANGED used
  BY <1>1 DEF Flow
<1>2. CASE used' = [used EXCEPT !.faults = @ + 1]
  BY <1>2 DEF Flow
<1> QED BY <1>1, <1>2 DEF Strikes

\* The world after the step, variable by variable.
LEMMA WorldIsNext ==
  /\ World'.log = log' /\ World'.disk = disk' /\ World'.dropped = dropped'
  /\ World'.flight = flight' /\ World'.parked = parked' /\ World'.timed = timed'
  /\ World'.answer = answer' /\ World'.acked = acked'
BY DEF World

\* The variables of a good world have their types.
LEMMA VariablesTyped ==
  ASSUME Good(World)
  PROVE  /\ log \in Logs /\ disk \in SUBSET Nat /\ dropped \in SUBSET Nat
         /\ flight \in Flights /\ parked \in Seq(Acks) /\ timed \in BOOLEAN
         /\ answer \in Seq(Answers) /\ acked \in SUBSET Nat
<1>1. World \in Worlds
  BY DEF Good
<1> QED BY <1>1, WorldFields, WorldIs

\* The variables after the step make a world.
LEMMA NextTyped ==
  ASSUME /\ log' \in Logs /\ disk' \in SUBSET Nat /\ dropped' \in SUBSET Nat
         /\ flight' \in Flights /\ parked' \in Seq(Acks) /\ timed' \in BOOLEAN
         /\ answer' \in Seq(Answers) /\ acked' \in SUBSET Nat
  PROVE  World' \in Worlds
BY DEF World, Worlds

\* The world is left alone.
LEMMA SameWorld ==
  ASSUME Good(World),
         UNCHANGED <<log, disk, dropped, flight, parked, timed, answer, acked>>
  PROVE  World' = World /\ Good(World)' /\ Moves
<1>1. World' = World
  BY DEF World
<1>2. Good(World)'
  BY <1>1 DEF Good, Heads, Meter, Deferral, Queued, Durable, SafeStorage, Writable
<1>3. log.synced \in Nat
  BY GoodNumbers, WorldIs
<1> QED BY <1>1, <1>2, <1>3 DEF Moves

\* The fresh log and the empty pipeline are a good start.
LEMMA InitInv ==
  ASSUME Init
  PROVE  Inv
<1>1. /\ log = [next |-> 0, file |-> 0, flushed |-> 0, synced |-> 0,
                meter |-> 0, base |-> 0, fresh |-> TRUE, writer |-> "live"]
      /\ disk = {} /\ dropped = {} /\ flight = NoFlight /\ parked = <<>>
      /\ timed = FALSE /\ answer = <<>> /\ acked = {}
      /\ queue = <<>> /\ batch = <<>> /\ pc = "idle"
      /\ used = [commands |-> 0, faults |-> 0, kills |-> 0, cuts |-> 0]
  BY DEF Init
<1>2. World \in Worlds
  <2>1. log \in Logs /\ flight \in Flights
    BY <1>1 DEF Logs, Flights, NoFlight, Writers
  <2>2. disk \in SUBSET Nat /\ dropped \in SUBSET Nat /\ acked \in SUBSET Nat
    BY <1>1
  <2>3. timed \in BOOLEAN
    BY <1>1
  <2>4. parked \in Seq(Acks) /\ answer \in Seq(Answers)
    BY <1>1
  <2> QED BY <2>1, <2>2, <2>3, <2>4 DEF World, Worlds
<1>3. /\ log.next = 0 /\ log.file = 0 /\ log.flushed = 0 /\ log.synced = 0
      /\ log.meter = 0 /\ log.writer = "live" /\ flight.target = 0 /\ flight.state = "none"
  BY <1>1 DEF NoFlight
<1>4. Heads(World) /\ Meter(World) /\ Deferral(World)
  BY <1>1, <1>3, WorldIs DEF Heads, Meter, Deferral
<1>5. Queued(World)
  BY <1>1, WorldIs DEF Queued, Sorted
<1>6. Durable(World)
  <2>1. Offs(0) = {}
    BY DEF Offs
  <2> QED BY <1>1, <1>3, <2>1, WorldIs DEF Durable
<1>7. Flow /\ Waiters /\ Stopped
  BY <1>1 DEF Flow, Waiters, Stopped
<1>8. Unwedged
  BY <1>1 DEF Unwedged, NoWedge, Lingering
<1> QED BY <1>2, <1>4, <1>5, <1>6, <1>7, <1>8 DEF Inv, Good

\* A client sends a command: one more may wait, and it is in the channel.
LEMMA SubmitStep ==
  ASSUME Inv, NEW kind \in Kinds \ {"drop"}, Submit(kind)
  PROVE  Inv' /\ Moves
<1> DEFINE asks == kind \in ProduceKinds \ {"quiet"}
           c == [kind |-> kind, id |-> IF asks THEN Len(answer) + 1 ELSE 0]
<1>0. Good(World) /\ Flow /\ Waiters /\ Stopped /\ pc # "stopped"
  BY DEF Inv, Submit
<1>1. /\ queue' = Append(queue, c)
      /\ answer' = IF asks THEN Append(answer, "waiting") ELSE answer
      /\ UNCHANGED <<log, disk, dropped, flight, parked, timed, acked, batch, pc>>
      /\ used' = [used EXCEPT !.commands = @ + 1]
  BY DEF Submit
<1>2. answer \in Seq(Answers) /\ Len(answer) \in Nat
  BY <1>0, VariablesTyped
<1>3. c \in Commands
  <2>1. kind \in ProduceKinds \cup {"job", "shutdown"}
    BY PipelineConstants
  <2>2. c.id \in Nat /\ c.kind = kind /\ c \in [kind : ProduceKinds \cup {"job", "shutdown"}, id : Nat]
    BY <1>2, <2>1
  <2>3. kind \in {"job", "shutdown"} => ~asks
    BY DEF ProduceKinds
  <2>4. c.kind \in {"job", "shutdown"} => c.id = 0
    BY <2>2, <2>3
  <2> QED BY <2>2, <2>4 DEF Commands
<1>4. answer' \in Seq(Answers)
  <2>1. "waiting" \in Answers
    BY DEF Answers
  <2> QED BY <1>1, <1>2, <2>1
<1>5. World' \in Worlds
  BY <1>0, <1>1, <1>4, VariablesTyped, NextTyped
<1>6. Good(World)'
  <2>1. Heads(World)' /\ Meter(World)' /\ Deferral(World)' /\ Queued(World)'
    BY <1>0, <1>1, WorldIs, WorldIsNext DEF Good, Heads, Meter, Deferral, Queued, Writable
  <2>2. (SafeStorage => Durable(World))'
    BY <1>0, <1>1, WorldIs, WorldIsNext DEF Good, Durable, SafeStorage, Writable
  <2> QED BY <1>5, <2>1, <2>2 DEF Good, Worlds, Logs, Flights, Acks, Answers, Writers
<1>7. Flow'
  <2>1. queue' \in Seq(Commands)
    BY <1>0, <1>1, <1>3, AppendIds DEF Flow
  <2>2. used' \in [commands : Nat, faults : Nat, kills : Nat, cuts : Nat]
    BY <1>0, <1>1 DEF Flow
  <2> QED BY <1>0, <1>1, <2>1, <2>2 DEF Flow, Commands
<1>8. Waiters'
  <2>0. Ids(queue) \cup {c.id} \subseteq Ids(queue')
    BY <1>0, <1>1, <1>3, AppendIds DEF Flow
  <2>1. CASE ~asks
    BY <1>0, <1>1, <2>0, <2>1 DEF Waiters, Ids
  <2>2. CASE asks
    <3>1. c.id = Len(answer) + 1
      BY <2>2
    <3>2. /\ answer' = Append(answer, "waiting") /\ Len(answer') = Len(answer) + 1
          /\ \A i \in 1 .. Len(answer) : answer'[i] = answer[i]
      BY <1>1, <1>2, <2>2
    <3> HIDE DEF c, asks
    <3> SUFFICES ASSUME NEW i \in 1 .. Len(answer'), answer'[i] = "waiting"
                 PROVE  i \in Ids(parked)' \cup Ids(batch)' \cup Ids(queue)'
      BY DEF Waiters
    <3>3. CASE i \in 1 .. Len(answer)
      BY <1>0, <1>1, <2>0, <3>2, <3>3, SMTT(30) DEF Waiters, Ids
    <3>4. CASE i = Len(answer) + 1
      BY <2>0, <3>1, <3>4 DEF Ids
    <3> QED BY <1>2, <3>2, <3>3, <3>4
  <2> QED BY <2>1, <2>2
<1>9. Stopped' /\ (RollsInLinger => Unwedged)'
  BY <1>0, <1>1, WorldIs, WorldIsNext
     DEF Inv, Stopped, RollsInLinger, Unwedged, NoWedge, Pending, Writable, NoFlight, Lingering
<1>10. Moves
  BY <1>0, <1>1, GoodNumbers, WorldIs DEF Moves
<1> QED BY <1>6, <1>7, <1>8, <1>9, <1>10 DEF Inv

-----------------------------------------------------------------------------
(* The flusher thread and the restarts.                                    *)

\* The barrier returned, or failed: the ticket waits for the actor.
LEMMA FlusherStep ==
  ASSUME Inv, FlusherReturns
  PROVE  Inv' /\ Moves
<1>0. Good(World) /\ Flow /\ Waiters /\ Stopped /\ flight.state = "out"
      /\ UNCHANGED <<log, parked, timed, answer, acked, queue, batch, pc>>
  BY DEF Inv, FlusherReturns
<1>1. /\ log \in Logs /\ disk \in SUBSET Nat /\ dropped \in SUBSET Nat
      /\ flight \in Flights /\ parked \in Seq(Acks) /\ timed \in BOOLEAN
      /\ answer \in Seq(Answers) /\ acked \in SUBSET Nat
  BY <1>0, VariablesTyped
<1>2. /\ log.next \in Nat /\ log.file \in Nat /\ log.synced \in Nat
      /\ flight.target \in Nat /\ flight.target <= log.file
      /\ disk \subseteq Offs(log.file)
  BY <1>0, GoodNumbers, WorldIs DEF Good, Heads
<1>3. \/ /\ flight' = [flight EXCEPT !.state = "ok"]
         /\ disk' = disk \cup (Offs(flight.target) \ dropped)
         /\ dropped' = dropped /\ used' = used
      \/ /\ flight' = [flight EXCEPT !.state = "err"]
         /\ disk' = disk /\ "flusher" \in Faults
         /\ dropped' = (IF DropsPages THEN dropped \cup (Offs(log.file) \ disk)
                                      ELSE dropped)
         /\ used' = [used EXCEPT !.faults = @ + 1]
  BY WorldIs DEF FlusherReturns, Platter
<1>4. /\ flight' \in Flights /\ flight'.target = flight.target
      /\ flight'.covered = flight.covered /\ flight'.state \in {"ok", "err"}
      /\ flight' # NoFlight
  BY <1>1, <1>3 DEF Flights, NoFlight
<1>5. Offs(flight.target) \subseteq Offs(log.file)
  BY <1>2, OffsGrow
<1>6. disk' \in SUBSET Nat /\ dropped' \in SUBSET Nat /\ disk' \subseteq Offs(log.file)
      /\ disk \subseteq disk'
  <2>1. Offs(log.file) \subseteq Nat
    BY <1>2, OffsIs
  <2> QED BY <1>1, <1>2, <1>3, <1>5, <2>1
<1>7. World' \in Worlds
  BY <1>0, <1>1, <1>4, <1>6, NextTyped
<1>8. Heads(World)' /\ Meter(World)' /\ Deferral(World)' /\ Queued(World)'
  BY <1>0, <1>4, <1>6, WorldIs, WorldIsNext
     DEF Good, Heads, Meter, Deferral, Queued, Writable
<1>9. ASSUME SafeStorage PROVE Durable(World)'
  <2>1. Durable(World)
    BY <1>0, <1>9 DEF Good
  <2>2. dropped' = dropped
    BY <1>3, <1>9, PipelineConstants DEF SafeStorage
  <2>3. Writable(World) /\ flight'.state = "ok" => Offs(flight.target) \subseteq disk'
    <3>1. Writable(World) => dropped = {}
      BY <2>1, WorldIs DEF Durable
    <3>2. flight'.state = "ok" => disk' = disk \cup (Offs(flight.target) \ dropped)
      BY <1>1, <1>3 DEF Flights
    <3> QED BY <3>1, <3>2
  <2> QED BY <1>0, <1>4, <1>6, <2>1, <2>2, <2>3, WorldIs, WorldIsNext DEF Durable, Writable
<1>10. Good(World)'
  BY <1>7, <1>8, <1>9 DEF Good, Worlds, Logs, Flights, Acks, Answers, Writers, SafeStorage
<1>11. Flow'
  <2>1. used' \in [commands : Nat, faults : Nat, kills : Nat, cuts : Nat]
    <3>1. used \in [commands : Nat, faults : Nat, kills : Nat, cuts : Nat]
      BY <1>0 DEF Flow
    <3>2. CASE used' = used
      BY <3>1, <3>2
    <3>3. CASE used' = [used EXCEPT !.faults = @ + 1]
      BY <3>1, <3>3
    <3> QED BY <1>3, <3>2, <3>3
  <2> QED BY <1>0, <2>1 DEF Flow, Commands
<1>12. Waiters' /\ Stopped'
  BY <1>0, WorldIs, WorldIsNext DEF Waiters, Stopped, Ids, Writable
<1>13. (RollsInLinger => Unwedged)'
  BY <1>0, <1>4, WorldIsNext
     DEF Inv, RollsInLinger, Unwedged, NoWedge, Pending, NoFlight, Lingering
<1>14. Moves
  BY <1>0, <1>2 DEF Moves
<1> QED BY <1>10, <1>11, <1>12, <1>13, <1>14 DEF Inv

\* The segment base that recovery derives is a number.
LEMMA MinOfTwo ==
  ASSUME NEW a \in Nat, NEW b \in Nat
  PROVE  Min({a, b}) \in Nat
<1>1. PICK x \in {a, b} : \A y \in {a, b} : x <= y
  BY LeastNatural
<1>2. Min({a, b}) \in {a, b}
  BY <1>1 DEF Min
<1> QED BY <1>2

\* A restart reopens the log on n records and answers nobody.
LEMMA RecoverIs ==
  ASSUME Good(World), NEW n \in Nat, Recover(n),
         disk' \in SUBSET Nat, disk' \subseteq Offs(n), dropped' \in SUBSET Nat,
         used' \in [commands : Nat, faults : Nat, kills : Nat, cuts : Nat],
         SafeStorage => Durable(World)'
  PROVE  Inv'
<1>1. /\ log \in Logs /\ answer \in Seq(Answers) /\ acked \in SUBSET Nat
  BY VariablesTyped
<1> DEFINE b == IF log.writer = "deferred" THEN n ELSE Min({log.base, n})
           d == log.writer = "deferred"
<1>2. /\ log' = [next |-> n, file |-> n, flushed |-> n, synced |-> n, meter |-> 0,
                 base |-> b, fresh |-> d, writer |-> "live"]
      /\ flight' = NoFlight /\ parked' = <<>> /\ queue' = <<>> /\ batch' = <<>>
      /\ timed' = FALSE /\ pc' = "idle" /\ acked' = acked
      /\ answer' = [i \in DOMAIN answer |->
                      IF answer[i] = "waiting" THEN "lost" ELSE answer[i]]
  BY DEF Recover
<1>3. b \in Nat /\ d \in BOOLEAN
  <2>1. log.base \in Nat
    BY <1>1, LogFields
  <2>2. Min({log.base, n}) \in Nat
    BY <2>1, MinOfTwo
  <2> QED BY <2>2
<1> HIDE DEF b, d
<1>4. log' \in Logs /\ flight' \in Flights
  BY <1>2, <1>3 DEF Logs, Flights, NoFlight, Writers
<1>5. /\ log'.next = n /\ log'.file = n /\ log'.flushed = n /\ log'.synced = n
      /\ log'.meter = 0 /\ log'.writer = "live"
      /\ flight'.target = 0 /\ flight'.state = "none"
  BY <1>2 DEF NoFlight
<1>6. answer' \in Seq(Answers) /\ Len(answer') = Len(answer)
      /\ \A i \in 1 .. Len(answer) : answer'[i] # "waiting"
  <2>1. DOMAIN answer = 1 .. Len(answer) /\ Len(answer) \in Nat
        /\ answer \in [1 .. Len(answer) -> Answers]
    BY <1>1
  <2>2. answer' \in [1 .. Len(answer) -> Answers]
    BY <1>2, <2>1 DEF Answers
  <2>3. answer' \in Seq(Answers) /\ DOMAIN answer' = 1 .. Len(answer)
    BY <2>1, <2>2, SeqDef
  <2>4. Len(answer') = Len(answer)
    BY <2>1, <2>3
  <2> QED BY <1>2, <2>1, <2>3, <2>4
<1>7. World' \in Worlds
  <2>1. parked' \in Seq(Acks)
    BY <1>2
  <2>2. timed' \in BOOLEAN
    BY <1>2
  <2>3. acked' \in SUBSET Nat
    BY <1>1, <1>2
  <2> QED BY <1>4, <1>6, <2>1, <2>2, <2>3, NextTyped
<1>8. Heads(World)' /\ Meter(World)' /\ Deferral(World)'
  BY <1>2, <1>5, WorldIsNext DEF Heads, Meter, Deferral, Writable
<1>9. Queued(World)'
  BY <1>2, WorldIsNext DEF Queued, Sorted
<1>10. Good(World)'
  BY <1>7, <1>8, <1>9 DEF Good, Worlds, Logs, Flights, Acks, Answers, Writers, SafeStorage
<1>11. Flow'
  BY <1>2 DEF Flow, Commands
<1>12. Waiters' /\ Stopped'
  BY <1>2, <1>6 DEF Waiters, Stopped
<1>13. Unwedged'
  BY <1>2 DEF Unwedged, NoWedge, Lingering
<1> QED BY <1>10, <1>11, <1>12, <1>13 DEF Inv

\* The process is killed: what reached the file survives.
LEMMA KillStep ==
  ASSUME Inv, Kill
  PROVE  Inv' /\ Restarts
<1>0. Good(World) /\ Flow
  BY DEF Inv
<1>1. /\ log.file \in Nat /\ log.next \in Nat /\ disk \subseteq Offs(log.file)
      /\ disk \in SUBSET Nat /\ dropped \in SUBSET Nat
  BY <1>0, GoodNumbers, VariablesTyped, WorldIs DEF Good, Heads
<1>2. PICK n \in log.file .. log.next :
         /\ Recover(n)
         /\ disk' = IF Slack(n) THEN Platter(World, n) ELSE disk
  BY DEF Kill
<1>3. n \in Nat /\ log.file <= n
  BY <1>1
<1>4. disk' \in SUBSET Nat /\ disk' \subseteq Offs(n)
  <2>1. Offs(log.file) \subseteq Offs(n) /\ Offs(n) \subseteq Nat
    BY <1>1, <1>3, OffsGrow, OffsIs
  <2> QED BY <1>1, <1>2, <2>1, WorldIs DEF Platter
<1>5. used \in [commands : Nat, faults : Nat, kills : Nat, cuts : Nat]
      /\ used' = [used EXCEPT !.kills = @ + 1] /\ used.kills < MaxKills
  BY <1>0 DEF Flow, Kill
<1>6. used' \in [commands : Nat, faults : Nat, kills : Nat, cuts : Nat]
  BY <1>5
<1>7. ~SafeStorage
  <2>1. used.kills \in Nat
    BY <1>5
  <2> QED BY <1>5, <2>1 DEF SafeStorage
<1>8. dropped' = dropped
  BY DEF Kill
<1>9. Inv'
  BY <1>0, <1>1, <1>2, <1>3, <1>4, <1>6, <1>7, <1>8, RecoverIs
<1>10. Restarts
  <2>1. used'.kills = used.kills + 1 /\ used'.cuts = used.cuts
        /\ used.kills \in Nat /\ used.cuts \in Nat
    BY <1>5
  <2> QED BY <2>1 DEF Restarts
<1> QED BY <1>9, <1>10

\* Power fails: every record on the platter behind its predecessors survives.
LEMMA PowerCutStep ==
  ASSUME Inv, PowerCut
  PROVE  Inv' /\ Restarts
<1>0. Good(World) /\ Flow
  BY DEF Inv
<1>1. log.next \in Nat /\ log.synced \in Nat
  BY <1>0, GoodNumbers, WorldIs
<1>2. PICK n \in 0 .. log.next :
         /\ \A o \in disk : (\A p \in Offs(o) : p \in disk) => o < n
         /\ Recover(n)
         /\ disk' = Offs(n)
  BY DEF PowerCut
<1>3. n \in Nat
  BY <1>1
<1>4. disk' \in SUBSET Nat /\ disk' \subseteq Offs(n)
  BY <1>2, <1>3, OffsIs
<1>5. used \in [commands : Nat, faults : Nat, kills : Nat, cuts : Nat]
      /\ used' = [used EXCEPT !.cuts = @ + 1] /\ dropped' = {}
  BY <1>0 DEF Flow, PowerCut
<1>6. used' \in [commands : Nat, faults : Nat, kills : Nat, cuts : Nat]
  BY <1>5
<1>7. ASSUME SafeStorage PROVE Durable(World)'
  <2>1. Offs(log.synced) \subseteq disk /\ acked \subseteq Offs(log.synced)
    BY <1>0, <1>7, WorldIs DEF Good, Durable
  <2>2. ASSUME NEW o \in Offs(log.synced) PROVE o \in Offs(n)
    <3>1. o \in Nat /\ o < log.synced
      BY <1>1, OffsIs
    <3>2. \A p \in Offs(o) : p \in Offs(log.synced)
      BY <1>1, <3>1, OffsGrow
    <3>3. o < n
      BY <1>2, <2>1, <3>2
    <3> QED BY <1>3, <3>1, <3>3, OffsIs
  <2>3. log'.synced = n /\ flight'.state = "none" /\ acked' = acked
    BY <1>2 DEF Recover, NoFlight
  <2> QED BY <1>2, <1>5, <2>1, <2>2, <2>3, WorldIsNext DEF Durable
<1>8. Inv'
  <2>1. dropped' \in SUBSET Nat
    BY <1>5
  <2> QED BY <1>0, <1>2, <1>3, <1>4, <1>6, <1>7, <2>1, RecoverIs
<1>9. Restarts
  <2>1. used'.cuts = used.cuts + 1 /\ used'.kills = used.kills
        /\ used.kills \in Nat /\ used.cuts \in Nat
    BY <1>5
  <2> QED BY <2>1 DEF Restarts
<1> QED BY <1>8, <1>9

-----------------------------------------------------------------------------
(* The steps of the actor thread.                                          *)

\* The channel is drained into the batch.
LEMMA StartPassStep ==
  ASSUME Inv, StartPass
  PROVE  Inv' /\ Moves
<1>0. Good(World) /\ Flow /\ Waiters /\ pc = "idle" /\ queue # <<>> /\ batch = <<>>
  BY DEF Inv, StartPass, Flow
<1>1. /\ batch' = queue /\ queue' = <<>> /\ pc' = "poll"
      /\ UNCHANGED <<log, disk, dropped, flight, parked, timed, answer, acked, used>>
  BY DEF StartPass
<1>2. Good(World)' /\ Moves
  BY <1>0, <1>1, SameWorld
<1>3. Flow'
  BY <1>0, <1>1 DEF Flow, Commands
<1>4. Waiters'
  BY <1>0, <1>1, IdsEmpty DEF Waiters, Ids
<1>5. Stopped' /\ Unwedged'
  BY <1>1 DEF Stopped, Unwedged, NoWedge, Lingering
<1> QED BY <1>2, <1>3, <1>4, <1>5 DEF Inv

\* A completion wakes the idle actor.
LEMMA IdleCompletionStep ==
  ASSUME Inv, IdleCompletion
  PROVE  Inv' /\ Moves
<1>0. Good(World) /\ Flow /\ Waiters /\ pc = "idle"
      /\ UNCHANGED <<queue, batch, pc>>
  BY DEF Inv, IdleCompletion
<1>1. PICK fault \in Faults \cup {"none"} :
         Strikes(fault) /\ Become(OnCompletion(World, fault))
  BY DEF IdleCompletion
<1> DEFINE v == OnCompletion(World, fault)
<1>2. Goes(World, v) /\ (v.flight = NoFlight => v.parked = <<>>)
  BY <1>0, CompletionGood
<1>3. Become(v)
  BY <1>1
<1> HIDE DEF v
<1>4. /\ Good(World)' /\ Moves /\ Len(answer') = Len(answer)
      /\ \A i \in 1 .. Len(answer) : answer'[i] = "waiting" =>
            answer[i] = "waiting" /\ (i \in Ids(parked) => i \in Ids(parked'))
      /\ flight' = v.flight /\ parked' = v.parked
  BY <1>0, <1>2, <1>3, ActorStep
<1>5. Flow'
  BY <1>0, <1>1, StrikesIs DEF Flow, Commands
<1>6. Waiters'
  BY <1>0, <1>4, WaitersKept
<1>7. Stopped' /\ Unwedged'
  BY <1>0, <1>2, <1>4 DEF Stopped, Unwedged, NoWedge, Lingering, NoFlight
<1> QED BY <1>4, <1>5, <1>6, <1>7 DEF Inv

\* A completion is folded in before a command.
LEMMA PollStep ==
  ASSUME Inv, Poll
  PROVE  Inv' /\ Moves
<1>0. Good(World) /\ Flow /\ Waiters /\ UNCHANGED <<queue, batch>>
      /\ pc' = IF batch = <<>> THEN "end" ELSE "command"
  BY DEF Inv, Poll
<1>1. PICK fault \in Faults \cup {"none"} :
         Strikes(fault) /\ Become(PollCompletions(World, fault))
  BY DEF Poll
<1> DEFINE v == PollCompletions(World, fault)
<1>2. Goes(World, v)
  BY <1>0, PollGood
<1>3. Become(v)
  BY <1>1
<1> HIDE DEF v
<1>4. /\ Good(World)' /\ Moves /\ Len(answer') = Len(answer)
      /\ \A i \in 1 .. Len(answer) : answer'[i] = "waiting" =>
            answer[i] = "waiting" /\ (i \in Ids(parked) => i \in Ids(parked'))
  BY <1>0, <1>2, <1>3, ActorStep
<1>5. Flow'
  BY <1>0, <1>1, StrikesIs DEF Flow, Commands
<1>6. Waiters'
  BY <1>0, <1>4, WaitersKept
<1>7. Stopped' /\ Unwedged'
  BY <1>0 DEF Stopped, Unwedged, NoWedge, Lingering
<1> QED BY <1>4, <1>5, <1>6, <1>7 DEF Inv

\* The throttle lets a produce through with the window still accounted for.
LEMMA AdmittedGood ==
  ASSUME Good(World), NEW fault \in Faults \cup {"none"}, NEW w \in Admitted(fault)
  PROVE  Goes(World, w) /\ (Pending(World) => Pending(w))
<1>1. CASE w = World
  BY <1>1, GoesNowhere
<1>2. CASE flight = NoFlight /\ w = MaybeIssue(World, fault) /\ w.flight = NoFlight
  <2>1. /\ Goes(World, w)
        /\ w.log.synced = World.log.synced /\ w.log.next = World.log.next
        /\ Writable(w) => w.parked = World.parked
        /\ w.flight = NoFlight /\ Writable(w) => w.log.synced = w.log.next
    BY <1>2, IssueGood
  <2>2. Writable(w) => Writable(World)
    BY <2>1 DEF Goes, Evolves
  <2>3. w.log.synced \in Nat
    BY <2>1, GoodNumbers DEF Goes
  <2>4. World.flight = NoFlight
    BY <1>2, WorldIs
  <2> QED BY <1>2, <2>1, <2>2, <2>3, <2>4 DEF Pending
<1> QED BY <1>1, <1>2 DEF Admitted

\* A command is taken off the batch once its produce is settled.
LEMMA TakenStep ==
  ASSUME Inv, NEW v, Become(v), Goes(World, v), batch # <<>>,
         Settled(v, Head(batch).id), batch' = Tail(batch), queue' = queue,
         used' \in [commands : Nat, faults : Nat, kills : Nat, cuts : Nat],
         \/ pc' = "poll"
         \/ pc' = "linger" /\ Len(batch) = 1 /\ (RollsInLinger => Linger /\ Pending(v))
  PROVE  Inv' /\ Moves
<1>0. Good(World) /\ Flow /\ Waiters /\ batch \in Seq(Commands) /\ queue \in Seq(Commands)
  BY DEF Inv, Flow
<1>1. /\ World' = v /\ Good(World)' /\ Moves /\ Len(answer') = Len(answer)
      /\ \A i \in 1 .. Len(answer) : answer'[i] = "waiting" =>
            answer[i] = "waiting" /\ (i \in Ids(parked) => i \in Ids(parked'))
      /\ parked' = v.parked /\ answer' = v.answer
  BY <1>0, ActorStep
<1>2. /\ Tail(batch) \in Seq(Commands) /\ Len(Tail(batch)) = Len(batch) - 1
      /\ Ids(batch) \subseteq {Head(batch).id} \cup Ids(Tail(batch))
  BY <1>0, TailIds
<1>3. Flow'
  <2>1. pc' = "linger" => batch' = <<>>
    <3>1. ASSUME Len(batch) = 1 PROVE Tail(batch) = <<>>
      <4>1. Len(Tail(batch)) = 0
        BY <1>2, <3>1
      <4> QED BY <1>2, <4>1
    <3> QED BY <3>1
  <2> QED BY <1>0, <1>2, <2>1 DEF Flow, Commands
<1>4. Waiters'
  <2>1. ASSUME NEW i \in 1 .. Len(answer), answer'[i] = "waiting",
               i \in Ids(batch) \cup Ids(queue)
        PROVE  i \in Ids(parked') \cup Ids(batch') \cup Ids(queue')
    <3>1. CASE i = Head(batch).id
      BY <1>1, <2>1, <3>1 DEF Settled
    <3>2. CASE i # Head(batch).id
      BY <1>2, <2>1, <3>2
    <3> QED BY <3>1, <3>2
  <2> QED BY <1>0, <1>1, <2>1, WaitersKept
<1>5. Stopped' /\ (RollsInLinger => Unwedged)'
  BY <1>1 DEF Stopped, RollsInLinger, Unwedged, NoWedge, Lingering, Pending, Writable, NoFlight
<1> QED BY <1>1, <1>3, <1>4, <1>5 DEF Inv

\* The actor waits, or goes on, with the same batch.
LEMMA WaitStep ==
  ASSUME Inv, NEW v, Become(v), Goes(World, v),
         batch' = batch, queue' = queue,
         used' \in [commands : Nat, faults : Nat, kills : Nat, cuts : Nat],
         \/ pc' = pc /\ pc \in {"command", "drain"}
         \/ pc' = pc /\ pc \in {"late", "latedrain"} /\ (RollsInLinger => Pending(v))
         \/ pc = "command" /\ pc' = "drain"
         \/ pc = "late" /\ pc' = "latedrain" /\ (RollsInLinger => Pending(v))
  PROVE  Inv' /\ Moves
<1>0. Good(World) /\ Flow /\ Waiters
  BY DEF Inv
<1>1. /\ World' = v /\ Good(World)' /\ Moves /\ Len(answer') = Len(answer)
      /\ \A i \in 1 .. Len(answer) : answer'[i] = "waiting" =>
            answer[i] = "waiting" /\ (i \in Ids(parked) => i \in Ids(parked'))
  BY <1>0, ActorStep
<1>2. Flow'
  BY <1>0 DEF Flow, Commands
<1>3. Waiters'
  BY <1>0, <1>1, WaitersKept
<1>4. Stopped'
  BY DEF Stopped
<1>5. (RollsInLinger => Unwedged)'
  BY <1>1 DEF Inv, RollsInLinger, Unwedged, NoWedge, Lingering, Pending, Writable, NoFlight
<1> QED BY <1>1, <1>2, <1>3, <1>4, <1>5 DEF Inv

\* A produce is throttled, taken, or sent to the headroom drain.
LEMMA ProduceCommandStep ==
  ASSUME Inv, ProduceCommand
  PROVE  Inv' /\ Moves
<1>0. /\ Good(World) /\ Flow /\ pc \in {"command", "late"} /\ queue' = queue
      /\ batch # <<>> /\ (pc = "late" => Len(batch) = 1)
      /\ pc = "late" /\ RollsInLinger => Linger /\ Pending(World)
  BY DEF Inv, ProduceCommand, Flow, Unwedged, Lingering
<1>1. PICK fault \in Faults \cup {"none"} :
         /\ Strikes(fault)
         /\ \/ ThrottleWait(fault) /\ UNCHANGED <<batch, pc>>
            \/ \E w \in Admitted(fault) :
                  IF HasHeadroom(w) \/ Head(batch).kind = "shed"
                    THEN /\ Become(Produce(w, Head(batch), fault))
                         /\ batch' = Tail(batch)
                         /\ pc' = Resume(pc)
                    ELSE /\ Become(w)
                         /\ pc' = IF pc = "late" THEN "latedrain" ELSE "drain"
                         /\ UNCHANGED batch
  BY DEF ProduceCommand
<1>2. used' \in [commands : Nat, faults : Nat, kills : Nat, cuts : Nat]
  BY <1>0, <1>1, StrikesIs
<1>3. CASE ThrottleWait(fault) /\ UNCHANGED <<batch, pc>>
  <2>1. PICK v : Become(v) /\ (v = OnCompletion(World, fault) \/
                    (v = MaybeIssue(World, fault) /\ v.flight # NoFlight))
    BY <1>3 DEF ThrottleWait
  <2>2. Goes(World, v) /\ Pending(v)
    <3>1. CASE v = OnCompletion(World, fault)
      BY <1>0, <3>1, CompletionGood DEF Pending
    <3>2. CASE v = MaybeIssue(World, fault) /\ v.flight # NoFlight
      BY <1>0, <3>2, IssueGood DEF Pending
    <3> QED BY <2>1, <3>1, <3>2
  <2> QED BY <1>0, <1>2, <1>3, <2>1, <2>2, WaitStep
<1>4. ASSUME NEW w \in Admitted(fault), Become(Produce(w, Head(batch), fault)),
             batch' = Tail(batch), pc' = Resume(pc)
      PROVE  Inv' /\ Moves
  <2> DEFINE c == Head(batch)
             v == Produce(w, c, fault)
  <2>1. Goes(World, w) /\ Good(w) /\ (Pending(World) => Pending(w))
    BY <1>0, AdmittedGood DEF Goes
  <2>2. c.id \in Nat
    <3>1. batch \in Seq(Commands)
      BY <1>0 DEF Flow
    <3>2. c \in Commands
      BY <1>0, <3>1, TailIds
    <3> QED BY <3>2 DEF Commands
  <2> HIDE DEF c
  <2>3. /\ Goes(w, v) /\ Settled(v, c.id)
        /\ "create" \notin Faults /\ Pending(w) => Pending(v)
    BY <2>1, <2>2, ProduceGood
  <2>4. Become(v) /\ c = Head(batch)
    BY <1>4 DEF c
  <2> HIDE DEF v
  <2>5. Goes(World, v)
    BY <1>0, <2>1, <2>3, GoesChain
  <2>6. pc' = (IF pc = "late" THEN "linger" ELSE "poll")
    BY <1>0, <1>4 DEF Resume
  <2>7. pc' = "linger" /\ RollsInLinger => Linger /\ Pending(v)
    BY <1>0, <2>1, <2>3, <2>6 DEF RollsInLinger
  <2> QED BY <1>0, <1>2, <1>4, <2>3, <2>4, <2>5, <2>6, <2>7, TakenStep
<1>5. ASSUME NEW w \in Admitted(fault), Become(w), batch' = batch,
             pc' = IF pc = "late" THEN "latedrain" ELSE "drain"
      PROVE  Inv' /\ Moves
  <2>1. Goes(World, w) /\ (Pending(World) => Pending(w))
    BY <1>0, AdmittedGood
  <2> QED BY <1>0, <1>2, <1>5, <2>1, WaitStep
<1> QED BY <1>1, <1>3, <1>4, <1>5

\* The headroom drain waits, then takes or sheds its produce.
LEMMA HeadroomDrainStep ==
  ASSUME Inv, HeadroomDrain
  PROVE  Inv' /\ Moves
<1>0. /\ Good(World) /\ Flow /\ pc \in {"drain", "latedrain"} /\ queue' = queue
      /\ batch # <<>> /\ (pc = "latedrain" => Len(batch) = 1)
      /\ pc = "latedrain" /\ RollsInLinger => Linger
  BY DEF Inv, HeadroomDrain, Flow, Unwedged, Lingering
<1>1. PICK fault \in Faults \cup {"none"} :
         /\ Strikes(fault)
         /\ \/ Become(OnCompletion(World, fault)) /\ UNCHANGED <<batch, pc>>
            \/ /\ LET w == Quiesce(World, fault)
                  IN  Become(IF HasHeadroom(w)
                               THEN Produce(w, Head(batch), fault)
                               ELSE Refuse(w, Head(batch), "rejected"))
               /\ batch' = Tail(batch)
               /\ pc' = Resume(pc)
  BY DEF HeadroomDrain
<1>2. used' \in [commands : Nat, faults : Nat, kills : Nat, cuts : Nat]
  BY <1>0, <1>1, StrikesIs
<1>3. CASE Become(OnCompletion(World, fault)) /\ UNCHANGED <<batch, pc>>
  <2> DEFINE v == OnCompletion(World, fault)
  <2>1. Become(v)
    BY <1>3
  <2>2. Goes(World, v) /\ Pending(v)
    BY <1>0, CompletionGood DEF Pending
  <2> HIDE DEF v
  <2> QED BY <1>0, <1>2, <1>3, <2>1, <2>2, WaitStep
<1>4. CASE /\ LET w == Quiesce(World, fault)
              IN  Become(IF HasHeadroom(w)
                           THEN Produce(w, Head(batch), fault)
                           ELSE Refuse(w, Head(batch), "rejected"))
           /\ batch' = Tail(batch)
           /\ pc' = Resume(pc)
  <2> DEFINE w == Quiesce(World, fault)
             c == Head(batch)
             s == <<c>>
             v == IF HasHeadroom(w) THEN Produce(w, c, fault) ELSE Refuse(w, c, "rejected")
  <2>1. Become(v)
    BY <1>4
  <2>2. Goes(World, w) /\ Good(w) /\ Pending(w)
    BY <1>0, QuiesceGood DEF Goes, Pending
  <2> HIDE DEF w
  <2>3. c.id \in Nat
    <3>1. batch \in Seq(Commands)
      BY <1>0 DEF Flow
    <3>2. c \in Commands
      BY <1>0, <3>1, TailIds
    <3> QED BY <3>2 DEF Commands
  <2>4. c = Head(batch) /\ c.id \in Ids(s)
    BY IdsOne
  <2>5. v = IF HasHeadroom(w) THEN Produce(w, c, fault) ELSE Told(w, s, "rejected")
    BY DEF Refuse, Told
  <2> HIDE DEF c, s, v
  <2>6. Goes(w, v) /\ Settled(v, c.id) /\ ("create" \notin Faults => Pending(v))
    <3>1. CASE HasHeadroom(w)
      BY <2>2, <2>3, <2>5, <3>1, ProduceGood
    <3>2. CASE ~HasHeadroom(w)
      <4>1. "rejected" \in Answers \ {"waiting"} /\ v = Told(w, s, "rejected")
        BY <2>5, <3>2 DEF Answers
      <4>2. /\ Goes(w, v) /\ SameLog(w, v) /\ v.parked = w.parked
            /\ \A i \in 1 .. Len(v.answer) : i \in Ids(s) => v.answer[i] # "waiting"
        BY <2>2, <4>1, ToldGood
      <4> QED BY <2>2, <2>4, <4>2 DEF Pending, SameLog, Writable, Settled
    <3> QED BY <3>1, <3>2
  <2>7. Goes(World, v)
    BY <1>0, <2>2, <2>6, GoesChain
  <2>8. pc' = (IF pc = "latedrain" THEN "linger" ELSE "poll")
    BY <1>0, <1>4 DEF Resume
  <2>9. pc' = "linger" /\ RollsInLinger => Linger /\ Pending(v)
    BY <1>0, <2>6, <2>8 DEF RollsInLinger
  <2> QED BY <1>0, <1>2, <1>4, <2>1, <2>4, <2>6, <2>7, <2>8, <2>9, TakenStep
<1> QED BY <1>1, <1>3, <1>4

\* A Run job, with or without its own barrier.
LEMMA JobCommandStep ==
  ASSUME Inv, JobCommand
  PROVE  Inv' /\ Moves
<1>0. /\ Good(World) /\ Flow /\ pc = "command" /\ queue' = queue /\ batch # <<>>
      /\ batch' = Tail(batch) /\ pc' = "poll" /\ Head(batch).kind = "job"
  BY DEF Inv, JobCommand, Flow
<1>1. PICK fault \in Faults \cup {"none"} :
         /\ Strikes(fault)
         /\ \E ran \in {World, SyncLog(World, fault)} :
               Become(ReconcileFreeze(ReleaseReady(PollCompletions(ran, fault))))
  BY DEF JobCommand
<1>2. PICK ran \in {World, SyncLog(World, fault)} :
         Become(ReconcileFreeze(ReleaseReady(PollCompletions(ran, fault))))
  BY <1>1
<1>3. Goes(World, ran) /\ Good(ran)
  BY <1>0, SyncGood, GoesNowhere DEF Goes
<1> DEFINE p == PollCompletions(ran, fault)
           r == ReleaseReady(p)
           v == ReconcileFreeze(r)
<1>4. Goes(ran, p) /\ Good(p)
  BY <1>3, PollGood DEF Goes
<1>5. Become(v)
  BY <1>2
<1> HIDE DEF p
<1>6. Goes(p, r) /\ Good(r)
  BY <1>4, ReleaseGood DEF Goes
<1> HIDE DEF r
<1>7. Goes(r, v)
  BY <1>6, ReconcileGood
<1> HIDE DEF v
<1>8. Goes(World, v)
  BY <1>0, <1>3, <1>4, <1>6, <1>7, GoesChain
<1>9. Settled(v, Head(batch).id)
  <2>1. batch \in Seq(Commands)
    BY <1>0 DEF Flow
  <2>2. Head(batch) \in Commands
    BY <1>0, <2>1, TailIds
  <2>3. Head(batch).id = 0
    BY <1>0, <2>2 DEF Commands
  <2> QED BY <2>3 DEF Settled
<1>10. used' \in [commands : Nat, faults : Nat, kills : Nat, cuts : Nat]
  BY <1>0, <1>1, StrikesIs
<1> QED BY <1>0, <1>5, <1>8, <1>9, <1>10, TakenStep

\* The actor leaves its loop with nothing parked, queued or drained.
LEMMA StopStep ==
  ASSUME Inv, NEW v, Become(v), Goes(World, v), v.parked = <<>>,
         Writable(v) => v.log.synced = v.log.next,
         batch' = <<>>, queue' = <<>>, pc' = "stopped",
         used' \in [commands : Nat, faults : Nat, kills : Nat, cuts : Nat],
         \A i \in 1 .. Len(v.answer) :
            i \in Ids(batch) \cup Ids(queue) => v.answer[i] # "waiting"
  PROVE  Inv' /\ Moves
<1>0. Good(World) /\ Waiters
  BY DEF Inv
<1>1. /\ World' = v /\ Good(World)' /\ Moves /\ Len(answer') = Len(answer)
      /\ \A i \in 1 .. Len(answer) : answer'[i] = "waiting" =>
            answer[i] = "waiting" /\ (i \in Ids(parked) => i \in Ids(parked'))
      /\ parked' = v.parked /\ answer' = v.answer /\ log' = v.log
  BY <1>0, ActorStep
<1>2. Flow'
  BY DEF Flow, Commands
<1>3. Waiters'
  BY <1>0, <1>1, WaitersKept
<1>4. Stopped' /\ Unwedged'
  BY <1>1 DEF Stopped, Unwedged, NoWedge, Lingering, Writable
<1> QED BY <1>1, <1>2, <1>3, <1>4 DEF Inv

\* A shutdown waits for the barrier, then syncs and answers everybody.
LEMMA ShutdownCommandStep ==
  ASSUME Inv, ShutdownCommand
  PROVE  Inv' /\ Moves
<1>0. /\ Good(World) /\ Flow /\ pc = "command" /\ batch # <<>>
      /\ Head(batch).kind = "shutdown"
      /\ batch \in Seq(Commands) /\ queue \in Seq(Commands)
  BY DEF Inv, ShutdownCommand, Flow
<1>1. PICK fault \in Faults \cup {"none"} :
         /\ Strikes(fault)
         /\ \/ Become(OnCompletion(World, fault)) /\ UNCHANGED <<queue, batch, pc>>
            \/ /\ Become(Closing(SyncLog(Quiesce(World, fault), fault),
                                 Tail(batch) \o queue))
               /\ queue' = <<>> /\ batch' = <<>> /\ pc' = "stopped"
  BY DEF ShutdownCommand
<1>2. used' \in [commands : Nat, faults : Nat, kills : Nat, cuts : Nat]
  BY <1>0, <1>1, StrikesIs
<1>3. CASE Become(OnCompletion(World, fault)) /\ UNCHANGED <<queue, batch, pc>>
  <2> DEFINE v == OnCompletion(World, fault)
  <2>1. Become(v)
    BY <1>3
  <2>2. Goes(World, v)
    BY <1>0, CompletionGood
  <2> HIDE DEF v
  <2> QED BY <1>0, <1>2, <1>3, <2>1, <2>2, WaitStep
<1>4. CASE /\ Become(Closing(SyncLog(Quiesce(World, fault), fault), Tail(batch) \o queue))
           /\ queue' = <<>> /\ batch' = <<>> /\ pc' = "stopped"
  <2> DEFINE q == Quiesce(World, fault)
             s == SyncLog(q, fault)
             rest == Tail(batch) \o queue
             v == Closing(s, rest)
  <2>1. Become(v)
    BY <1>4
  <2>2. v = Told(s, rest, "closing") /\ "closing" \in Answers \ {"waiting"}
    BY DEF Closing, Told, Answers
  <2>3. Goes(World, q) /\ Good(q) /\ q.parked = <<>>
    BY <1>0, QuiesceGood DEF Goes
  <2> HIDE DEF q
  <2>4. /\ Goes(q, s) /\ Good(s) /\ s.parked = <<>>
        /\ Writable(s) => s.log.synced = s.log.next
    BY <2>3, SyncGood DEF Goes, SameReplies
  <2>5. Ids(batch) \cup Ids(queue) \subseteq {0} \cup Ids(rest)
    <3>1. /\ Head(batch) \in Commands /\ Tail(batch) \in Seq(Commands)
          /\ Ids(batch) \subseteq {Head(batch).id} \cup Ids(Tail(batch))
      BY <1>0, TailIds
    <3>2. Head(batch).id = 0
      BY <1>0, <3>1 DEF Commands
    <3>3. Ids(Tail(batch)) \cup Ids(queue) \subseteq Ids(rest)
      BY <1>0, <3>1, ConcatIds
    <3> QED BY <3>1, <3>2, <3>3
  <2> HIDE DEF s, rest, v
  <2>6. /\ Goes(s, v) /\ SameLog(s, v) /\ v.parked = s.parked
        /\ \A i \in 1 .. Len(v.answer) : i \in Ids(rest) => v.answer[i] # "waiting"
    BY <2>2, <2>4, ToldGood
  <2>7. Goes(World, v)
    BY <1>0, <2>3, <2>4, <2>6, GoesChain
  <2>8. v.parked = <<>> /\ (Writable(v) => v.log.synced = v.log.next)
    BY <2>4, <2>6 DEF SameLog, Writable
  <2>9. \A i \in 1 .. Len(v.answer) :
           i \in Ids(batch) \cup Ids(queue) => v.answer[i] # "waiting"
    BY <2>5, <2>6
  <2> QED BY <1>2, <1>4, <2>1, <2>7, <2>8, <2>9, StopStep
<1> QED BY <1>1, <1>3, <1>4

\* The last handle is dropped: the same drain, with nobody queued.
LEMMA HandlesDroppedStep ==
  ASSUME Inv, HandlesDropped
  PROVE  Inv' /\ Moves
<1>0. /\ Good(World) /\ Flow /\ pc' = "stopped" /\ UNCHANGED <<queue, batch>>
      /\ queue = <<>> /\ batch = <<>>
  BY DEF Inv, HandlesDropped, Flow
<1>1. PICK fault \in Faults \cup {"none"} :
         Strikes(fault) /\ Become(Quiesce(World, fault))
  BY DEF HandlesDropped
<1>2. used' \in [commands : Nat, faults : Nat, kills : Nat, cuts : Nat]
  BY <1>0, <1>1, StrikesIs
<1> DEFINE v == Quiesce(World, fault)
<1>3. Become(v)
  BY <1>1
<1>4. /\ Goes(World, v) /\ v.parked = <<>>
      /\ Writable(v) => v.log.synced = v.log.next
  BY <1>0, QuiesceGood
<1> HIDE DEF v
<1>5. Ids(batch) \cup Ids(queue) = {}
  BY <1>0, IdsEmpty
<1>6. batch' = <<>> /\ queue' = <<>>
  BY <1>0
<1> QED BY <1>0, <1>2, <1>3, <1>4, <1>5, <1>6, StopStep

\* The actor goes back to its idle wait.
LEMMA IdleStep ==
  ASSUME Inv, NEW v, Become(v), Goes(World, v), batch = <<>>,
         batch' = batch, queue' = queue, pc' = "idle",
         used' \in [commands : Nat, faults : Nat, kills : Nat, cuts : Nat],
         RollsInLinger /\ v.flight = NoFlight => v.parked = <<>>
  PROVE  Inv' /\ Moves
<1>0. Good(World) /\ Flow /\ Waiters
  BY DEF Inv
<1>1. /\ World' = v /\ Good(World)' /\ Moves /\ Len(answer') = Len(answer)
      /\ \A i \in 1 .. Len(answer) : answer'[i] = "waiting" =>
            answer[i] = "waiting" /\ (i \in Ids(parked) => i \in Ids(parked'))
      /\ parked' = v.parked /\ flight' = v.flight
  BY <1>0, ActorStep
<1>2. Flow'
  BY <1>0 DEF Flow, Commands
<1>3. Waiters'
  BY <1>0, <1>1, WaitersKept
<1>4. Stopped' /\ (RollsInLinger => Unwedged)'
  BY <1>1 DEF Stopped, RollsInLinger, Unwedged, NoWedge, Lingering, NoFlight
<1> QED BY <1>1, <1>2, <1>3, <1>4 DEF Inv

\* The dispatch decision covers whoever the release left parked.
LEMMA FinishGood ==
  ASSUME NEW w, Good(w), Released(w), NEW fault \in Faults \cup {"none"},
         NEW v, v = ReconcileFreeze(FinishPass(w, fault))
  PROVE  Goes(w, v) /\ (v.flight = NoFlight => v.parked = <<>>)
<1> DEFINE f == FinishPass(w, fault)
<1>1. Goes(w, f) /\ Good(f) /\ (f.flight = NoFlight /\ Writable(f) => f.parked = <<>>)
  <2>1. CASE w.flight # NoFlight
    BY <2>1, GoesNowhere DEF FinishPass
  <2>2. CASE w.flight = NoFlight /\ Len(w.parked) = 1 /\ queue = <<>>
    <3>1. f = CommitInline(w, fault)
      BY <2>2 DEF FinishPass
    <3> HIDE DEF f
    <3> QED BY <3>1, InlineGood DEF Goes
  <2>3. CASE w.flight = NoFlight /\ ~(Len(w.parked) = 1 /\ queue = <<>>)
    <3>1. f = MaybeIssue(w, fault)
      BY <2>3 DEF FinishPass
    <3> HIDE DEF f
    <3>2. /\ Goes(w, f)
          /\ f.log.synced = w.log.synced /\ f.log.next = w.log.next
          /\ Writable(f) => f.parked = w.parked
          /\ f.flight = NoFlight /\ Writable(f) => f.log.synced = f.log.next
      BY <3>1, IssueGood
    <3>3. f.flight = NoFlight /\ Writable(f) => w.parked = <<>>
      BY <3>2, NobodyLeft
    <3> QED BY <3>2, <3>3 DEF Goes
  <2> QED BY <2>1, <2>2, <2>3
<1>2. v = ReconcileFreeze(f)
  OBVIOUS
<1> HIDE DEF f
<1>3. /\ Goes(f, v) /\ SameLog(f, v) /\ (Writable(f) => v = f)
      /\ ~Writable(v) => v.parked = <<>>
  BY <1>1, <1>2, ReconcileGood
<1> QED BY <1>1, <1>3, GoesChain DEF SameLog, Writable

\* The pass ends: release, then cover, issue or linger.
LEMMA EndPassStep ==
  ASSUME Inv, EndPass
  PROVE  Inv' /\ Moves
<1>0. Good(World) /\ Flow /\ Waiters /\ batch = <<>> /\ UNCHANGED <<queue, batch>>
  BY DEF Inv, EndPass, Flow
<1> DEFINE w == ReleaseReady(World)
<1>1. PICK fault \in Faults \cup {"none"} :
         /\ Strikes(fault)
         /\ \/ Become(ReconcileFreeze(FinishPass(w, fault))) /\ pc' = "idle"
            \/ Linger /\ Become(w) /\ pc' = "linger" /\ Len(w.parked) >= 2
  BY DEF EndPass
<1>2. used' \in [commands : Nat, faults : Nat, kills : Nat, cuts : Nat]
  BY <1>0, <1>1, StrikesIs
<1>3. Goes(World, w) /\ Good(w) /\ Released(w)
  BY <1>0, ReleaseGood DEF Goes
<1> HIDE DEF w
<1>4. CASE Become(ReconcileFreeze(FinishPass(w, fault))) /\ pc' = "idle"
  <2> DEFINE v == ReconcileFreeze(FinishPass(w, fault))
  <2>1. Become(v)
    BY <1>4
  <2>2. Goes(w, v) /\ (v.flight = NoFlight => v.parked = <<>>)
    BY <1>3, FinishGood
  <2> HIDE DEF v
  <2>3. Goes(World, v)
    BY <1>0, <1>3, <2>2, GoesChain
  <2> QED BY <1>0, <1>2, <1>4, <2>1, <2>2, <2>3, IdleStep
<1>5. CASE Linger /\ Become(w) /\ pc' = "linger"
  <2>1. /\ World' = w /\ Good(World)' /\ Moves /\ Len(answer') = Len(answer)
        /\ \A i \in 1 .. Len(answer) : answer'[i] = "waiting" =>
              answer[i] = "waiting" /\ (i \in Ids(parked) => i \in Ids(parked'))
    BY <1>0, <1>3, <1>5, ActorStep
  <2>2. Flow'
    BY <1>0, <1>2, <1>5 DEF Flow, Commands
  <2>3. Waiters'
    BY <1>0, <2>1, WaitersKept
  <2>4. Pending(w)
    <3>1. ASSUME ~(w.log.synced < w.log.next) PROVE w.parked = <<>>
      <4>1. w.log.synced = w.log.next
        BY <1>3, <3>1, GoodNumbers DEF Good, Heads
      <4> QED BY <1>3, <4>1, NobodyLeft
    <3> QED BY <3>1 DEF Pending
  <2>5. Stopped' /\ Unwedged'
    BY <1>5, <2>1, <2>4
       DEF Stopped, Unwedged, NoWedge, Lingering, Pending, Writable, NoFlight
  <2> QED BY <2>1, <2>2, <2>3, <2>5 DEF Inv
<1> QED BY <1>1, <1>4, <1>5

\* A late produce joins the lingering window.
LEMMA LingerProduceStep ==
  ASSUME Inv, LingerProduce
  PROVE  Inv' /\ Moves
<1>0. /\ Good(World) /\ Flow /\ Waiters /\ pc = "linger" /\ queue # <<>> /\ batch = <<>>
      /\ queue \in Seq(Commands)
  BY DEF Inv, LingerProduce, Flow
<1>1. /\ batch' = <<Head(queue)>> /\ queue' = Tail(queue) /\ pc' = "late"
      /\ UNCHANGED <<log, disk, dropped, flight, parked, timed, answer, acked, used>>
  BY DEF LingerProduce
<1>2. World' = World /\ Good(World)' /\ Moves
  BY <1>0, <1>1, SameWorld
<1>3. /\ Head(queue) \in Commands /\ Tail(queue) \in Seq(Commands)
      /\ Ids(queue) \subseteq {Head(queue).id} \cup Ids(Tail(queue))
  BY <1>0, TailIds
<1>4. Flow'
  <2>1. batch' \in Seq(Commands) /\ Len(batch') = 1 /\ batch' # <<>>
    BY <1>1, <1>3
  <2> QED BY <1>0, <1>1, <1>3, <2>1 DEF Flow, Commands
<1>5. Waiters'
  <2>1. Ids(batch') = {Head(queue).id}
    BY <1>1, IdsOne
  <2>2. Ids(batch) = {}
    BY <1>0, IdsEmpty
  <2>3. Ids(queue') = Ids(Tail(queue)) /\ Ids(parked') = Ids(parked)
    BY <1>1
  <2>4. \A i \in 1 .. Len(answer) : answer[i] = "waiting" =>
           i \in Ids(parked') \cup Ids(batch') \cup Ids(queue')
    BY <1>0, <1>3, <2>1, <2>2, <2>3 DEF Waiters
  <2>5. answer' = answer
    BY <1>1
  <2> HIDE <1>1
  <2> QED BY <2>4, <2>5 DEF Waiters, Ids
<1>6. Stopped' /\ (RollsInLinger => Unwedged)'
  BY <1>0, <1>1, <1>2
     DEF Inv, Stopped, RollsInLinger, Unwedged, NoWedge, Lingering, Pending, Writable, NoFlight
<1> QED BY <1>2, <1>4, <1>5, <1>6 DEF Inv

\* The linger ends and the held dispatch goes out.
LEMMA LingerEndStep ==
  ASSUME Inv, LingerEnd
  PROVE  Inv' /\ Moves
<1>0. /\ Good(World) /\ Flow /\ pc' = "idle" /\ UNCHANGED <<queue, batch>>
      /\ batch = <<>> /\ (RollsInLinger => Pending(World))
  BY DEF Inv, LingerEnd, Flow, Unwedged, Lingering
<1>1. PICK fault \in Faults \cup {"none"} :
         Strikes(fault) /\ Become(ReconcileFreeze(MaybeIssue(World, fault)))
  BY DEF LingerEnd
<1>2. used' \in [commands : Nat, faults : Nat, kills : Nat, cuts : Nat]
  BY <1>0, <1>1, StrikesIs
<1> DEFINE m == MaybeIssue(World, fault)
           v == ReconcileFreeze(m)
<1>3. Become(v)
  BY <1>1
<1>4. /\ Goes(World, m) /\ Good(m)
      /\ m.log.synced = World.log.synced /\ m.log.next = World.log.next
      /\ World.flight # NoFlight => m = World
      /\ Writable(m) => m.parked = World.parked
      /\ m.flight = NoFlight /\ Writable(m) => m.log.synced = m.log.next
  BY <1>0, IssueGood DEF Goes
<1> HIDE DEF m
<1>5. /\ Goes(m, v) /\ SameLog(m, v) /\ (Writable(m) => v = m)
      /\ ~Writable(v) => v.parked = <<>>
  BY <1>4, ReconcileGood
<1> HIDE DEF v
<1>6. Goes(World, v)
  BY <1>0, <1>4, <1>5, GoesChain
<1>7. ASSUME RollsInLinger, v.flight = NoFlight PROVE v.parked = <<>>
  <2>1. CASE ~Writable(v)
    BY <1>5, <2>1
  <2>2. CASE Writable(v)
    <3>1. v = m /\ m.flight = NoFlight /\ Writable(m)
      BY <1>5, <1>7, <2>2 DEF SameLog, Writable
    <3>2. World.flight = NoFlight /\ Writable(World)
      BY <1>4, <3>1 DEF Goes, Evolves
    <3>3. World.log.synced = World.log.next /\ World.log.synced \in Nat
      BY <1>0, <1>4, <3>1, GoodNumbers
    <3>4. World.parked = <<>>
      BY <1>0, <1>7, <3>2, <3>3 DEF Pending
    <3> QED BY <1>4, <3>1, <3>4
  <2> QED BY <2>1, <2>2
<1> QED BY <1>0, <1>2, <1>3, <1>6, <1>7, IdleStep

-----------------------------------------------------------------------------
(* The theorems.                                                           *)

\* Every step keeps the invariant, and only a restart takes a head back.
LEMMA NextStep ==
  ASSUME Inv, Next
  PROVE  Inv' /\ (Moves \/ Restarts)
<1>1. CASE \E kind \in Kinds \ {"drop"} : Submit(kind)
  BY <1>1, SubmitStep
<1>2. CASE Actor
  BY <1>2, StartPassStep, IdleCompletionStep, PollStep, ProduceCommandStep,
     HeadroomDrainStep, JobCommandStep, ShutdownCommandStep, EndPassStep,
     LingerProduceStep, LingerEndStep DEF Actor
<1>3. CASE HandlesDropped
  BY <1>3, HandlesDroppedStep
<1>4. CASE FlusherReturns
  BY <1>4, FlusherStep
<1>5. CASE Kill
  BY <1>5, KillStep
<1>6. CASE PowerCut
  BY <1>6, PowerCutStep
<1> QED BY <1>1, <1>2, <1>3, <1>4, <1>5, <1>6 DEF Next

\* A step that changes nothing keeps the invariant.
LEMMA StutterStep ==
  ASSUME Inv, UNCHANGED vars
  PROVE  Inv'
<1>0. Good(World) /\ UNCHANGED <<log, disk, dropped, flight, parked, timed, answer, acked>>
      /\ UNCHANGED <<queue, batch, pc, used>>
  BY DEF Inv, vars
<1>1. World' = World /\ Good(World)'
  BY <1>0, SameWorld
<1>2. Flow' /\ Waiters'
  BY <1>0 DEF Inv, Flow, Waiters, Commands, Ids
<1>3. Stopped' /\ (RollsInLinger => Unwedged)'
  BY <1>0, <1>1
     DEF Inv, Stopped, RollsInLinger, Unwedged, NoWedge, Lingering, Pending, Writable, NoFlight
<1> QED BY <1>1, <1>2, <1>3 DEF Inv

\* The inductive invariant holds throughout.
LEMMA InvAlways == Spec => []Inv
<1>1. Init => Inv
  BY InitInv
<1>2. Inv /\ [Next]_vars => Inv'
  BY NextStep, StutterStep
<1> QED BY <1>1, <1>2, PTL DEF Spec

\* The heads of the pipelined tier stay ordered, the ticket stays below the
\* appended head and the parked targets stay sorted (INV-4), for every batch
\* size, segment size, throttle, fault and crash.
THEOREM PipelineTypeOK == Spec => []TypeOK
<1>1. Inv => TypeOK
  <2> SUFFICES ASSUME Inv PROVE TypeOK
    OBVIOUS
  <2>0. Good(World) /\ Flow
    BY DEF Inv
  <2>1. /\ log.next \in Nat /\ log.file \in Nat /\ log.synced \in Nat
        /\ flight.target \in Nat /\ log.writer \in Writers /\ flight \in Flights
    BY <2>0, GoodNumbers, VariablesTyped, WorldIs
  <2>2. /\ log.flushed = log.synced /\ log.synced <= log.file /\ log.file <= log.next
        /\ flight.target <= log.file /\ disk \subseteq Offs(log.file)
    BY <2>0, WorldIs DEF Good, Heads
  <2>3. Offs(log.file) \subseteq Offs(log.next)
    BY <2>1, <2>2, OffsGrow
  <2>4. \A i, j \in DOMAIN parked : i <= j => parked[i].target <= parked[j].target
    BY <2>0, WorldIs DEF Good, Queued, Sorted
  <2>5. flight.state \in {"none", "out", "ok", "err"}
    BY <2>1 DEF Flights
  <2>6. log.synced <= log.next /\ flight.target <= log.next
    BY <2>1, <2>2
  <2> QED BY <2>0, <2>1, <2>2, <2>3, <2>4, <2>5, <2>6 DEF TypeOK, Flow, Writers
<1> QED BY <1>1, InvAlways, PTL

\* INV-6 for every instance: a ticket made stale by a roll, a job's barrier or a
\* quiesce never corrupts the unsynced byte meter (complete_sync_ticket).
THEOREM PipelineMeterExact == Spec => []MeterExact
<1>1. Inv => MeterExact
  BY WorldIs DEF Inv, Good, Meter, MeterExact
<1> QED BY <1>1, InvAlways, PTL

\* I2 for every instance in which no process is killed and no failed flusher
\* barrier drops dirty pages, across any number of power cuts and inline
\* storage faults: an acked record is on the platter.
THEOREM PipelineAckImpliesDurable ==
  ASSUME SafeStorage
  PROVE  Spec => []AckImpliesDurable
<1>1. Inv => AckImpliesDurable
  BY WorldIs DEF Inv, Good, Durable, AckImpliesDurable
<1> QED BY <1>1, InvAlways, PTL

\* INV-2 under the same storage: whatever readers are shown is on the platter.
THEOREM PipelineVisibleIsDurable ==
  ASSUME SafeStorage
  PROVE  Spec => []VisibleIsDurable
<1>1. Inv => VisibleIsDurable
  BY WorldIs DEF Inv, Good, Heads, Durable, VisibleIsDurable
<1> QED BY <1>1, InvAlways, PTL

\* The no-wedge lemma of struct Pipeline, for every instance in which a create
\* fault cannot meet a lingering dispatch: an idle actor with nothing in flight
\* has nobody parked.
THEOREM PipelineNoWedge ==
  ASSUME RollsInLinger
  PROVE  Spec => []NoWedge
<1>1. Inv => NoWedge
  BY DEF Inv, Unwedged
<1> QED BY <1>1, InvAlways, PTL

\* When the actor exits everyone has an answer, and a writer that did not freeze
\* has everything behind its durable head (shutdown, #802).
StopAnswers ==
    pc = "stopped" =>
       /\ \A i \in DOMAIN answer : answer[i] # "waiting"
       /\ Writable(World) => log.synced = log.next

\* An exited actor has no batch, no channel and no queue to wait in.
LEMMA StopAnswersIs ==
  ASSUME Inv
  PROVE  StopAnswers
<1> SUFFICES ASSUME pc = "stopped" PROVE StopAnswers
  BY DEF StopAnswers
<1>1. batch = <<>> /\ queue = <<>> /\ parked = <<>>
      /\ (Writable(World) => log.synced = log.next)
  BY DEF Inv, Flow, Stopped
<1>2. Ids(parked) \cup Ids(batch) \cup Ids(queue) = {}
  BY <1>1, IdsEmpty
<1>3. answer \in Seq(Answers)
  BY VariablesTyped DEF Inv
<1>4. DOMAIN answer = 1 .. Len(answer)
  BY <1>3
<1>5. \A i \in DOMAIN answer : answer[i] # "waiting"
  BY <1>2, <1>4 DEF Inv, Waiters
<1> QED BY <1>1, <1>5 DEF StopAnswers

\* The shutdown drain answers everybody and syncs the tail, for every instance:
\* crashes, dropped pages and failed barriers included.
THEOREM PipelineStopAnswers == Spec => []StopAnswers
BY InvAlways, StopAnswersIs, PTL

\* #802 in full, under the storage that keeps I2: after the exit nobody waits and
\* every appended record is on the platter unless the writer froze.
THEOREM PipelineStopLeavesNothing ==
  ASSUME SafeStorage
  PROVE  Spec => []StopLeavesNothing
<1>1. Inv => StopLeavesNothing
  BY StopAnswersIs, WorldIs DEF Inv, Good, Durable, StopAnswers, StopLeavesNothing
<1> QED BY <1>1, InvAlways, PTL

\* The durable head moves back only at a restart, for every instance.
THEOREM PipelineDurableHeadMonotone == Spec => DurableHeadMonotone
<1>1. Inv /\ [Next]_vars =>
        [log'.synced >= log.synced \/ used'.kills + used'.cuts #
                                      used.kills + used.cuts]_vars
  BY NextStep DEF Moves, Restarts
<1> QED BY <1>1, InvAlways, PTL DEF Spec, DurableHeadMonotone

\* A frozen writer appends nothing and is not revived by a completion, a job, a
\* deferred roll or a quiesce, for every instance.
THEOREM PipelineFreezeIsFinal == Spec => FreezeIsFinal
<1>1. Inv /\ [Next]_vars =>
        [log.writer = "frozen" =>
           \/ log'.writer = "frozen" /\ log'.next = log.next
           \/ used'.kills + used'.cuts # used.kills + used.cuts]_vars
  BY NextStep DEF Moves, Restarts
<1> QED BY <1>1, InvAlways, PTL DEF Spec, FreezeIsFinal

=============================================================================
