-------------------------- MODULE Replication_proofs --------------------------
(***************************************************************************)
(* What the quorum gate promises, for every cluster size, min_isr, lag     *)
(* bound and number of faults.  The committed placement never changes in   *)
(* Replication, so the leader's log is the only one records enter through. *)
(***************************************************************************)
EXTENDS Replication, WellFoundedInduction, FiniteSetTheorems, SequenceTheorems, TLAPS

Followers == Node \ {Leader}

\* How far a copy reaches on disk; one whose own fsync failed is given credit for
\* everything, since what it reports of itself means nothing.
Width(n) ==
    IF n = Leader \/ n \in failed THEN Len(elog[Leader]) ELSE synced[n]

\* min_isr copies reach the offset.
Held(k) == Cardinality({n \in Node : k <= Width(n)}) >= MinIsr

Numbered(log) == \A i \in 1 .. Len(log) : log[i] = <<Leader, i>>

LogInv ==
    /\ elog \in [Node -> Seq(Records)]
    /\ rlog \in [Node -> Seq(Records)]
    /\ sealed \in [Node -> Nat]
    /\ synced \in [Node -> Nat]
    /\ failed \subseteq Followers /\ frozen \subseteq failed
    /\ \A n \in Node : synced[n] <= Len(rlog[n])
    /\ \A f \in Followers \ failed : synced[f] = Len(rlog[f])
    /\ sealed[Leader] <= Len(elog[Leader])
    /\ Numbered(elog[Leader])
    /\ \A f \in Followers : Numbered(rlog[f]) /\ Len(rlog[f]) <= sealed[Leader]

MetaInv ==
    /\ placement = [leader |-> Leader, replicas |-> Node]
    /\ led = [n \in Node |-> Leader]
    /\ sess \in [Node -> {"off", "adopt", "steady"}]
    /\ sess[Leader] = "off"
    /\ seenHw \in [Node -> Nat]
    /\ known \in [Node -> Nat]
    /\ bar \in Nat
    /\ bar = 0 \/ Held(bar)

\* A response under way is a run of the leader's sealed log.
RunOK(resp) ==
    /\ resp.first + Len(resp.run) <= sealed[Leader]
    /\ \A i \in 1 .. Len(resp.run) : resp.run[i] = <<Leader, resp.first + i>>

LinkInv ==
    /\ wire \in [Node -> Seq(Responses)]
    /\ \A f \in Node : \A j \in 1 .. Len(wire[f]) : RunOK(wire[f][j])
    /\ reports \subseteq [to : {Leader}, from : Followers, off : Nat]
    /\ \A m \in reports : m.off <= Width(m.from)

Gates == [own : Nat, peer : UNION {[S -> Nat] : S \in SUBSET Node},
          pending : SUBSET ParkedAcks, next : Nat, through : Nat]

\* The frontiers a gate counts are not ahead of the disks.
GateOK(g) ==
    /\ g \in Gates
    /\ g.own <= Len(elog[Leader])
    /\ g.peer \in [Followers -> Nat]
    /\ \A f \in Followers : g.peer[f] <= Width(f)
    /\ g.through = 0 \/ Held(g.through)
    /\ IsFiniteSet(g.pending)
    /\ \A p \in g.pending : p.off < Len(elog[Leader])

GateInv ==
    /\ gate \in [Node -> Gates]
    /\ GateOK(gate[Leader])

Clients == [sent : Nat, due : Seq(Nat), out : SUBSET ParkedAcks, replied : Nat]

ClientInv ==
    /\ client \in [Node -> [Conn -> Clients]]
    /\ \A c \in Conn :
        /\ \A i \in 1 .. Len(client[Leader][c].due) :
              client[Leader][c].due[i] < Len(elog[Leader])
        /\ IsFiniteSet(client[Leader][c].out)
        /\ \A p \in client[Leader][c].out :
              p.off < Len(elog[Leader]) /\ Held(p.off + 1)

AckInv == \A r \in acked : \E k \in 1 .. Len(elog[Leader]) : r = <<Leader, k>> /\ Held(k)

RepInv == LogInv /\ MetaInv /\ LinkInv /\ GateInv /\ ClientInv /\ AckInv

\* No disk loses records, and a failed fsync is not forgotten.
Grows ==
    /\ Len(elog[Leader]) <= Len(elog'[Leader])
    /\ sealed[Leader] <= sealed'[Leader]
    /\ \A f \in Node : synced[f] <= synced'[f]
    /\ failed \subseteq failed'

-----------------------------------------------------------------------------
(* Copies *)

\* A width is within the leader's log, and a follower's log within its width.
LEMMA WidthType ==
  ASSUME LogInv
  PROVE  /\ \A n \in Node : Width(n) \in Nat /\ Width(n) <= Len(elog[Leader])
         /\ \A f \in Followers : Len(rlog[f]) <= Width(f)
<1>1. Leader \in Node /\ Len(elog[Leader]) \in Nat /\ sealed[Leader] \in Nat
  BY ReplicationConstants DEF LogInv
<1>2. \A n \in Node : Len(rlog[n]) \in Nat /\ synced[n] \in Nat
  BY DEF LogInv
<1>3. \A f \in Followers : Len(rlog[f]) <= Len(elog[Leader])
  BY <1>1, <1>2 DEF LogInv, Followers
<1>4. ASSUME NEW n \in Node PROVE Width(n) \in Nat /\ Width(n) <= Len(elog[Leader])
  <2>1. CASE n = Leader \/ n \in failed
    BY <1>1, <2>1 DEF Width
  <2>2. CASE ~ (n = Leader \/ n \in failed)
    <3>1. n \in Followers \ failed /\ Width(n) = synced[n]
      BY <2>2 DEF Width, Followers
    <3> QED BY <1>2, <1>3, <3>1 DEF LogInv, Followers
  <2> QED BY <2>1, <2>2
<1>5. ASSUME NEW f \in Followers PROVE Len(rlog[f]) <= Width(f)
  <2>1. f \in Node /\ f # Leader
    BY DEF Followers
  <2>2. CASE f \in failed
    BY <1>3, <2>2 DEF Width
  <2>3. CASE f \notin failed
    BY <1>2, <2>1, <2>3 DEF Width, LogInv
  <2> QED BY <2>2, <2>3
<1> QED BY <1>4, <1>5

\* Widths only grow with the disks.
LEMMA WidthGrows ==
  ASSUME LogInv, LogInv', Grows, NEW n \in Node
  PROVE  /\ Width(n) \in Nat /\ Width(n)' \in Nat /\ Width(n) <= Width(n)'
         /\ n \in Followers => Len(rlog'[n]) <= Width(n)'
<1>1. Width(n) \in Nat /\ Width(n) <= Len(elog[Leader])
  BY WidthType
<1>2. Width(n)' \in Nat
  <2>1. /\ Leader \in Node /\ Len(elog'[Leader]) \in Nat /\ synced'[n] \in Nat
    BY ReplicationConstants DEF LogInv
  <2> QED BY <2>1 DEF Width
<1>3. Len(elog[Leader]) <= Len(elog'[Leader]) /\ Len(elog[Leader]) \in Nat
      /\ Len(elog'[Leader]) \in Nat
  <2>1. Leader \in Node /\ elog \in [Node -> Seq(Records)] /\ elog' \in [Node -> Seq(Records)]
    BY ReplicationConstants DEF LogInv
  <2>2. Len(elog[Leader]) \in Nat /\ Len(elog'[Leader]) \in Nat
    BY <2>1
  <2> QED BY <2>2 DEF Grows
<1>4. ASSUME n = Leader \/ n \in failed' PROVE Width(n) <= Width(n)'
  <2>1. Width(n)' = Len(elog'[Leader])
    BY <1>4 DEF Width
  <2> QED BY <1>1, <1>2, <1>3, <2>1
<1>5. ASSUME ~ (n = Leader \/ n \in failed') PROVE Width(n) <= Width(n)'
  <2>1. Width(n)' = synced'[n] /\ Width(n) = synced[n]
    BY <1>5 DEF Width, Grows
  <2> QED BY <1>1, <1>2, <2>1 DEF Grows
<1>6. ASSUME n \in Followers PROVE Len(rlog'[n]) <= Width(n)'
  <2>1. /\ Len(rlog'[n]) \in Nat /\ Len(rlog'[n]) <= sealed'[Leader]
        /\ sealed'[Leader] \in Nat /\ sealed'[Leader] <= Len(elog'[Leader])
    BY <1>6, ReplicationConstants DEF LogInv, Followers
  <2>2. CASE n \in failed'
    <3>1. Width(n)' = Len(elog'[Leader])
      BY <2>2 DEF Width
    <3> QED BY <1>3, <2>1, <3>1
  <2>3. CASE n \notin failed'
    <3>1. Width(n)' = synced'[n] /\ synced'[n] = Len(rlog'[n])
      BY <1>6, <2>3 DEF Width, LogInv, Followers
    <3> QED BY <2>1, <3>1
  <2> QED BY <2>2, <2>3
<1> QED BY <1>1, <1>2, <1>4, <1>5, <1>6

\* What reaches an offset reaches every lower one.
LEMMA HeldBelow ==
  ASSUME LogInv, NEW k \in Nat, NEW j \in Nat, j <= k, Held(k)
  PROVE  Held(j)
<1> DEFINE A == {n \in Node : k <= Width(n)}
<1> DEFINE B == {n \in Node : j <= Width(n)}
<1>1. \A n \in Node : Width(n) \in Nat
  BY WidthType
<1>2. A \subseteq B
  BY <1>1
<1>3. IsFiniteSet(B)
  BY ReplicationConstants, FS_Subset
<1>4. Cardinality(A) <= Cardinality(B) /\ Cardinality(A) \in Nat /\ Cardinality(B) \in Nat
  BY <1>2, <1>3, FS_Subset, FS_CardinalityType
<1>5. Cardinality(A) >= MinIsr
  BY DEF Held
<1>6. Cardinality(B) >= MinIsr
  BY <1>4, <1>5, ReplicationConstants
<1> QED BY <1>6 DEF Held

\* What is held stays held while the logs only grow.
LEMMA HeldStays ==
  ASSUME LogInv, LogInv', Grows, NEW k \in Nat, Held(k)
  PROVE  Held(k)'
<1> DEFINE A == {n \in Node : k <= Width(n)}
<1> DEFINE B == {n \in Node : k <= Width(n)'}
<1>1. \A n \in Node : Width(n) \in Nat /\ Width(n)' \in Nat /\ Width(n) <= Width(n)'
  BY WidthGrows
<1>2. A \subseteq B
  BY <1>1
<1>3. IsFiniteSet(B)
  BY ReplicationConstants, FS_Subset
<1>4. Cardinality(A) <= Cardinality(B) /\ Cardinality(A) \in Nat /\ Cardinality(B) \in Nat
  BY <1>2, <1>3, FS_Subset, FS_CardinalityType
<1>5. Cardinality(A) >= MinIsr
  BY DEF Held
<1>6. Cardinality(B) >= MinIsr
  BY <1>4, <1>5, ReplicationConstants
<1> QED BY <1>6 DEF Held

-----------------------------------------------------------------------------
(* The commit rule *)

\* Every non-empty set of naturals has a least element (< is well-founded).
LEMMA LeastNatural ==
  ASSUME NEW T \in SUBSET Nat, T # {}
  PROVE  \E x \in T : \A y \in T : x <= y
<1>1. OpToRel(<, Nat) = {ss \in Nat \X Nat : ss[1] < ss[2]}
  BY DEF OpToRel
<1>2. PICK x \in T : \A y \in T : ~ (<<y, x>> \in OpToRel(<, Nat))
  BY NatLessThanWellFounded, WFMin, Zenon
<1>3. \A y \in T : y \in Nat /\ x \in Nat /\ ~ (y < x)
  BY <1>1, <1>2
<1> QED BY <1>3

\* A non-empty bounded set of naturals has a greatest element.
LEMMA Greatest ==
  ASSUME NEW b \in Nat, NEW S \in SUBSET (0 .. b), S # {}
  PROVE  \E c \in S : \A d \in S : d <= c
<1> DEFINE T == {t \in 0 .. b : b - t \in S}
<1>1. T \in SUBSET Nat
  OBVIOUS
<1>2. T # {}
  <2>1. PICK s \in S : TRUE
    OBVIOUS
  <2>2. s \in 0 .. b /\ b - (b - s) = s /\ b - s \in 0 .. b
    BY <2>1
  <2>3. b - s \in T
    BY <2>1, <2>2
  <2> QED BY <2>3
<1> HIDE DEF T
<1>3. PICK x \in T : \A y \in T : x <= y
  BY <1>1, <1>2, LeastNatural
<1>4. x \in 0 .. b /\ b - x \in S
  BY <1>3 DEF T
<1>5. ASSUME NEW d \in S PROVE d <= b - x
  <2>1. d \in 0 .. b /\ b - d \in 0 .. b /\ b - (b - d) = d
    BY <1>5
  <2>2. b - d \in T
    BY <1>5, <2>1 DEF T
  <2>3. x <= b - d
    BY <1>3, <2>2
  <2> QED BY <2>1, <2>3, <1>4
<1> QED BY <1>4, <1>5

\* The replicas a gate counts at an offset hold it.
LEMMA CountedHold ==
  ASSUME LogInv, NEW g, GateOK(g), NEW c \in Nat, ReplicasAt(g, c) >= MinIsr
  PROVE  Held(c)
<1> DEFINE P == {f \in InSync(g) : g.peer[f] >= c}
<1> DEFINE W == {n \in Node : c <= Width(n)}
<1>1. InSync(g) \subseteq Followers
  BY DEF GateOK, InSync
<1>2. P \subseteq W /\ Leader \notin P
  <2>1. \A f \in Followers : g.peer[f] \in Nat /\ g.peer[f] <= Width(f)
    BY DEF GateOK
  <2>2. \A f \in Followers : f \in Node /\ f # Leader /\ Width(f) \in Nat
    BY WidthType DEF Followers
  <2> QED BY <1>1, <2>1, <2>2
<1>3. IsFiniteSet(W) /\ IsFiniteSet(P)
  <2>1. IsFiniteSet(W)
    BY ReplicationConstants, FS_Subset
  <2> QED BY <2>1, <1>2, FS_Subset
<1>4. /\ Cardinality(P) \in Nat /\ Cardinality(W) \in Nat
      /\ Cardinality(P) <= Cardinality(W)
  BY <1>2, <1>3, FS_Subset, FS_CardinalityType
<1>5. g.own \in Nat /\ MinIsr \in Nat
  BY ReplicationConstants DEF GateOK, Gates
<1> HIDE DEF P
<1>6. CASE g.own >= c
  <2>1. Leader \in W
    BY <1>5, <1>6, ReplicationConstants DEF GateOK, Width, LogInv
  <2>2. P \cup {Leader} \subseteq W
    BY <1>2, <2>1
  <2>3. Cardinality(P \cup {Leader}) = Cardinality(P) + 1
    BY <1>2, <1>3, FS_AddElement
  <2>4. Cardinality(P \cup {Leader}) <= Cardinality(W)
    BY <2>2, <1>3, FS_Subset
  <2>5. ReplicasAt(g, c) = 1 + Cardinality(P)
    BY <1>6 DEF ReplicasAt, P
  <2>6. Cardinality(W) >= MinIsr
    BY <2>3, <2>4, <2>5, <1>4, <1>5
  <2> QED BY <2>6 DEF Held
<1>7. CASE ~ (g.own >= c)
  <2>1. ReplicasAt(g, c) = 0 + Cardinality(P)
    BY <1>7 DEF ReplicasAt, P
  <2>2. Cardinality(W) >= MinIsr
    BY <2>1, <1>4, <1>5
  <2> QED BY <2>2 DEF Held
<1> QED BY <1>6, <1>7

\* A quorum commit is a natural number that min_isr copies reach.
LEMMA QuorumIsHeld ==
  ASSUME LogInv, NEW g, GateOK(g), QuorumCommit(g) # NoQuorum
  PROVE  QuorumCommit(g) \in Nat /\ Held(QuorumCommit(g))
<1>1. Quorate(g) # {}
  BY DEF QuorumCommit
<1>2. Quorate(g) \in SUBSET (0 .. Len(elog[Leader]))
  <2>1. Len(elog[Leader]) \in Nat /\ g.own \in 0 .. Len(elog[Leader])
    BY ReplicationConstants DEF GateOK, Gates, LogInv
  <2>2. \A f \in Followers : g.peer[f] \in 0 .. Len(elog[Leader])
    <3>1. \A f \in Followers : Width(f) \in Nat /\ Width(f) <= Len(elog[Leader])
      BY WidthType DEF Followers
    <3> QED BY <2>1, <3>1 DEF GateOK
  <2>3. InSync(g) \subseteq Followers
    BY DEF GateOK, InSync
  <2> QED BY <2>1, <2>2, <2>3 DEF Quorate, Frontiers
<1>3. Len(elog[Leader]) \in Nat
  BY ReplicationConstants DEF LogInv
<1>4. \E c \in Quorate(g) : \A d \in Quorate(g) : d <= c
  BY <1>1, <1>2, <1>3, Greatest
<1>5. QuorumCommit(g) \in Quorate(g)
  BY <1>1, <1>4 DEF QuorumCommit
<1>6. QuorumCommit(g) \in Nat
  BY <1>2, <1>5, <1>3
<1>7. ReplicasAt(g, QuorumCommit(g)) >= MinIsr
  BY <1>5 DEF Quorate
<1> QED BY <1>6, <1>7, CountedHold

\* What a release lets go is held, and so is what the gate remembers of it.
LEMMA ReleasedIsHeld ==
  ASSUME LogInv, NEW g, GateOK(g)
  PROVE  /\ Released(g) \subseteq g.pending
         /\ \A p \in Released(g) : Held(p.off + 1)
         /\ GateOK(AfterRelease(g))
<1>1. Released(g) \subseteq g.pending
  BY DEF Released
<1>2. g.through \in Nat
  BY DEF GateOK, Gates
<1> DEFINE top == MaxOf(QuorumCommit(g), g.through)
<1>3. top \in Nat /\ (top = 0 \/ Held(top))
  <2>1. CASE QuorumCommit(g) = NoQuorum
    <3>1. top = g.through
      BY <2>1, <1>2 DEF MaxOf, NoQuorum
    <3> QED BY <3>1, <1>2 DEF GateOK
  <2>2. CASE QuorumCommit(g) # NoQuorum
    <3>1. QuorumCommit(g) \in Nat /\ Held(QuorumCommit(g))
      BY <2>2, QuorumIsHeld
    <3>2. top = QuorumCommit(g) \/ top = g.through
      BY DEF MaxOf
    <3> QED BY <3>1, <3>2, <1>2 DEF GateOK
  <2> QED BY <2>1, <2>2
<1> HIDE DEF top
<1>4. ASSUME NEW p \in Released(g) PROVE Held(p.off + 1)
  <2>1. p \in g.pending /\ p.off \in Nat /\ p.token \in Nat
    BY <1>1 DEF GateOK, Gates, ParkedAcks
  <2>2. p.off < top
    BY <2>1 DEF Released, top
  <2>3. p.off + 1 \in Nat /\ p.off + 1 <= top /\ Held(top)
    BY <2>1, <2>2, <1>3
  <2> QED BY <2>3, <1>3, HeldBelow
<1>5. AfterRelease(g) = [g EXCEPT !.pending = g.pending \ Released(g), !.through = top]
  BY DEF AfterRelease, top
<1>6. g \in Gates
  BY DEF GateOK
<1>7. /\ AfterRelease(g) \in Gates
      /\ AfterRelease(g).own = g.own
      /\ AfterRelease(g).peer = g.peer
      /\ AfterRelease(g).through = top
      /\ AfterRelease(g).pending = g.pending \ Released(g)
  BY <1>3, <1>5, <1>6 DEF Gates
<1>8. IsFiniteSet(AfterRelease(g).pending)
  BY <1>7, FS_Subset DEF GateOK
<1>9. GateOK(AfterRelease(g))
  BY <1>3, <1>7, <1>8 DEF GateOK
<1> QED BY <1>1, <1>4, <1>9

-----------------------------------------------------------------------------
(* What a step that leaves a part alone keeps of it *)

LEMMA GateStays ==
  ASSUME LogInv, LogInv', Grows, NEW g, GateOK(g)
  PROVE  GateOK(g)'
<1>1. g \in Gates /\ g.own \in Nat /\ g.through \in Nat
  BY DEF GateOK, Gates
<1>2. g.own <= Len(elog'[Leader]) /\ \A p \in g.pending : p.off < Len(elog'[Leader])
  BY <1>1, ReplicationConstants, SMTT(30) DEF GateOK, Grows, LogInv, Gates, ParkedAcks
<1>3. \A f \in Followers : g.peer[f] <= Width(f)'
  <2>1. \A f \in Followers : /\ Width(f) \in Nat /\ Width(f)' \in Nat
                             /\ Width(f) <= Width(f)'
    BY WidthGrows DEF Followers
  <2>2. \A f \in Followers : g.peer[f] \in Nat /\ g.peer[f] <= Width(f)
    BY DEF GateOK
  <2> QED BY <2>1, <2>2
<1>4. g.through = 0 \/ Held(g.through)'
  BY <1>1, HeldStays DEF GateOK
<1> QED BY <1>1, <1>2, <1>3, <1>4 DEF GateOK

LEMMA ClientStays ==
  ASSUME LogInv, LogInv', Grows, ClientInv, client' = client
  PROVE  ClientInv'
<1> SUFFICES ASSUME NEW c \in Conn
             PROVE  /\ \A i \in 1 .. Len(client[Leader][c].due) :
                          client[Leader][c].due[i] < Len(elog'[Leader])
                    /\ \A p \in client[Leader][c].out :
                          p.off < Len(elog'[Leader]) /\ Held(p.off + 1)'
  BY DEF ClientInv
<1>1. client[Leader][c] \in Clients
  BY ReplicationConstants DEF ClientInv
<1>2. Len(elog[Leader]) \in Nat /\ Len(elog'[Leader]) \in Nat
  BY ReplicationConstants DEF LogInv
<1>3. \A i \in 1 .. Len(client[Leader][c].due) :
        client[Leader][c].due[i] < Len(elog'[Leader])
  <2>1. client[Leader][c].due \in Seq(Nat)
    BY <1>1 DEF Clients
  <2>2. \A i \in 1 .. Len(client[Leader][c].due) : client[Leader][c].due[i] \in Nat
    BY <2>1
  <2>3. \A i \in 1 .. Len(client[Leader][c].due) :
          client[Leader][c].due[i] < Len(elog[Leader])
    BY DEF ClientInv
  <2>4. Len(elog[Leader]) <= Len(elog'[Leader])
    BY DEF Grows
  <2> QED BY <2>2, <2>3, <2>4, <1>2, SMTT(30)
<1>4. ASSUME NEW p \in client[Leader][c].out
      PROVE  p.off < Len(elog'[Leader]) /\ Held(p.off + 1)'
  <2>1. p.off \in Nat /\ p.off + 1 \in Nat /\ p.off < Len(elog[Leader]) /\ Held(p.off + 1)
    BY <1>1 DEF ClientInv, Clients, ParkedAcks
  <2>2. Held(p.off + 1)'
    BY <2>1, HeldStays
  <2> QED BY <2>1, <2>2, <1>2 DEF Grows
<1> QED BY <1>3, <1>4

LEMMA AckStays ==
  ASSUME LogInv, LogInv', Grows, AckInv, acked' = acked
  PROVE  AckInv'
<1> SUFFICES ASSUME NEW r \in acked
             PROVE  \E k \in 1 .. Len(elog'[Leader]) : r = <<Leader, k>> /\ Held(k)'
  BY DEF AckInv
<1>1. PICK k \in 1 .. Len(elog[Leader]) : r = <<Leader, k>> /\ Held(k)
  BY DEF AckInv
<1>2. Held(k)'
  BY <1>1, HeldStays
<1>3. k \in 1 .. Len(elog'[Leader])
  BY <1>1, ReplicationConstants DEF Grows, LogInv
<1> QED BY <1>1, <1>2, <1>3

LEMMA RunStays ==
  ASSUME LogInv, LogInv', Grows, NEW resp \in Responses, RunOK(resp)
  PROVE  RunOK(resp)'
<1>1. resp.first + Len(resp.run) \in Nat
  BY DEF Responses
<1>2. sealed[Leader] \in Nat /\ sealed'[Leader] \in Nat
  BY ReplicationConstants DEF LogInv
<1>3. resp.first + Len(resp.run) <= sealed[Leader] /\ sealed[Leader] <= sealed'[Leader]
  BY DEF RunOK, Grows
<1>4. resp.first + Len(resp.run) <= sealed'[Leader]
  BY <1>1, <1>2, <1>3
<1> QED BY <1>4 DEF RunOK

\* A report under way stays within its sender's width.
LEMMA ReportsStay ==
  ASSUME LogInv, LogInv', Grows, LinkInv
  PROVE  \A m \in reports : m.off <= Width(m.from)'
<1> SUFFICES ASSUME NEW m \in reports PROVE m.off <= Width(m.from)'
  OBVIOUS
<1>1. m.from \in Node /\ m.off \in Nat /\ m.off <= Width(m.from)
  BY DEF LinkInv, Followers
<1> DEFINE f == m.from
<1>2. Width(f) \in Nat /\ Width(f)' \in Nat /\ Width(f) <= Width(f)'
  BY <1>1, WidthGrows
<1> QED BY <1>1, <1>2

LEMMA LinkStays ==
  ASSUME LogInv, LogInv', Grows, LinkInv, wire' = wire, reports' = reports
  PROVE  LinkInv'
<1>1. \A f \in Node : \A j \in 1 .. Len(wire[f]) : wire[f][j] \in Responses
  BY DEF LinkInv
<1>2. \A f \in Node : \A j \in 1 .. Len(wire'[f]) : RunOK(wire[f][j])'
  BY <1>1, RunStays DEF LinkInv
<1>3. \A m \in reports : m.off <= Width(m.from)'
  BY ReportsStay
<1> QED BY <1>2, <1>3 DEF LinkInv

LEMMA MetaStays ==
  ASSUME LogInv, LogInv', Grows, MetaInv, UNCHANGED meta, UNCHANGED led,
         seenHw' \in [Node -> Nat], sess' \in [Node -> {"off", "adopt", "steady"}],
         sess'[Leader] = "off"
  PROVE  MetaInv'
<1>1. UNCHANGED <<placement, bar, known>>
  BY DEF meta
<1>2. bar = 0 \/ Held(bar)'
  BY <1>1, HeldStays DEF MetaInv
<1> QED BY <1>1, <1>2 DEF MetaInv

\* A step that keeps the logs.
LEMMA LogsStay ==
  ASSUME LogInv, UNCHANGED logs
  PROVE  LogInv' /\ Grows /\ (\A k : Held(k)' <=> Held(k))
<1>1. /\ elog' = elog /\ rlog' = rlog /\ sealed' = sealed
      /\ synced' = synced /\ failed' = failed /\ frozen' = frozen
  BY DEF logs, replica
<1>2. LogInv'
  BY <1>1 DEF LogInv, Numbered
<1>3. Grows
  BY <1>1, ReplicationConstants DEF Grows, LogInv, Followers
<1>4. \A k : Held(k)' <=> Held(k)
  BY <1>1 DEF Held, Width
<1> QED BY <1>2, <1>3, <1>4

\* Only the leader leads, only the others follow.
LEMMA Roles ==
  ASSUME MetaInv, NEW n \in Node
  PROVE  /\ Leads(n) => n = Leader
         /\ Follows(n) => n \in Followers
         /\ sess[n] # "off" => n \in Followers
         /\ led[n] = Leader
BY DEF MetaInv, Leads, Follows, Followers

-----------------------------------------------------------------------------
(* Producer connections *)

LEMMA AppendGrows ==
  ASSUME RepInv, NEW n \in Node, NEW roll \in BOOLEAN, AppendRecord(n, roll)
  PROVE  /\ LogInv' /\ Grows /\ n = Leader
         /\ Len(elog'[Leader]) = Len(elog[Leader]) + 1
<1>1. n = Leader /\ LogInv
  BY Roles DEF RepInv, AppendRecord
<1>2. elog[Leader] \in Seq(Records) /\ Len(elog[Leader]) \in Nat /\ Leader \in Node
  BY <1>1, ReplicationConstants DEF LogInv
<1>3. <<Leader, Len(elog[Leader]) + 1>> \in Records
  BY <1>2 DEF Records
<1>4. /\ elog' = [elog EXCEPT ![Leader] = Append(elog[Leader], <<Leader, Len(elog[Leader]) + 1>>)]
      /\ sealed' = IF roll THEN [sealed EXCEPT ![Leader] = Len(elog[Leader])] ELSE sealed
      /\ UNCHANGED <<rlog, synced, frozen, failed>>
  BY <1>1 DEF AppendRecord, replica
<1>5. /\ elog' \in [Node -> Seq(Records)]
      /\ elog'[Leader] = Append(elog[Leader], <<Leader, Len(elog[Leader]) + 1>>)
  BY <1>1, <1>2, <1>3, <1>4, AppendProperties DEF LogInv
<1>6. Len(elog'[Leader]) = Len(elog[Leader]) + 1 /\ Numbered(elog'[Leader])
  BY <1>1, <1>2, <1>3, <1>5, AppendProperties DEF LogInv, Numbered
<1>7. /\ sealed' \in [Node -> Nat]
      /\ sealed'[Leader] <= Len(elog'[Leader])
      /\ sealed[Leader] <= sealed'[Leader]
  BY <1>1, <1>2, <1>4, <1>6 DEF LogInv
<1>8. \A f \in Followers : Numbered(rlog'[f]) /\ Len(rlog'[f]) <= sealed'[Leader]
  BY <1>1, <1>2, <1>4, <1>7 DEF LogInv, Followers
<1>9. LogInv'
  BY <1>1, <1>4, <1>5, <1>6, <1>7, <1>8 DEF LogInv, Numbered
<1>10. Grows
  BY <1>1, <1>2, <1>4, <1>6, <1>7 DEF Grows, LogInv, Followers
<1> QED BY <1>1, <1>6, <1>9, <1>10

\* Sending adds one produce that waits for its reply.
LEMMA SendKeeps ==
  ASSUME LogInv, LogInv', Grows, ClientInv, NEW c \in Conn, NEW off \in Nat,
         off < Len(elog'[Leader]), Send(Leader, c, off)
  PROVE  ClientInv'
<1> DEFINE old == client[Leader][c]
<1>1. old \in Clients /\ client \in [Node -> [Conn -> Clients]] /\ Leader \in Node
  BY ReplicationConstants DEF ClientInv
<1>2. client' = [client EXCEPT ![Leader] = [client[Leader] EXCEPT ![c] =
                   [old EXCEPT !.sent = old.sent + 1, !.due = Append(old.due, off)]]]
  BY <1>1 DEF Send
<1> DEFINE new == [old EXCEPT !.sent = old.sent + 1, !.due = Append(old.due, off)]
<1>3. new \in Clients /\ new.out = old.out /\ new.due = Append(old.due, off)
  <2>1. old.due \in Seq(Nat) /\ old.sent \in Nat
    BY <1>1 DEF Clients
  <2>2. Append(old.due, off) \in Seq(Nat) /\ old.sent + 1 \in Nat
    BY <2>1, AppendProperties
  <2> HIDE DEF old
  <2> QED BY <1>1, <2>2 DEF Clients
<1> HIDE DEF new, old
<1>4. /\ client' \in [Node -> [Conn -> Clients]]
      /\ client'[Leader][c] = new
      /\ \A d \in Conn \ {c} : client'[Leader][d] = client[Leader][d]
  BY <1>1, <1>2, <1>3 DEF new
<1>5. Len(elog[Leader]) \in Nat /\ Len(elog'[Leader]) \in Nat
      /\ Len(elog[Leader]) <= Len(elog'[Leader])
  BY <1>1 DEF LogInv, Grows
<1>6. \A d \in Conn : \A p \in client[Leader][d].out :
        p.off < Len(elog'[Leader]) /\ Held(p.off + 1)'
  <2> SUFFICES ASSUME NEW d \in Conn, NEW p \in client[Leader][d].out
               PROVE  p.off < Len(elog'[Leader]) /\ Held(p.off + 1)'
    OBVIOUS
  <2>1. p.off \in Nat /\ p.off + 1 \in Nat /\ p.off < Len(elog[Leader]) /\ Held(p.off + 1)
    BY <1>1, SMTT(30) DEF ClientInv, Clients, ParkedAcks
  <2> QED BY <2>1, <1>5, HeldStays
<1>7. \A i \in 1 .. Len(new.due) : new.due[i] < Len(elog'[Leader])
  <2>1. old.due \in Seq(Nat)
    BY <1>1 DEF Clients
  <2>2. \A i \in 1 .. Len(old.due) : old.due[i] < Len(elog[Leader])
    BY DEF ClientInv, old
  <2> QED BY <2>1, <2>2, <1>3, <1>5, AppendProperties, SMTT(30)
<1>8. \A d \in Conn \ {c} : \A i \in 1 .. Len(client[Leader][d].due) :
        client[Leader][d].due[i] < Len(elog'[Leader])
  <2> SUFFICES ASSUME NEW d \in Conn, NEW i \in 1 .. Len(client[Leader][d].due)
               PROVE  client[Leader][d].due[i] < Len(elog'[Leader])
    OBVIOUS
  <2>1. client[Leader][d].due[i] < Len(elog[Leader])
    BY DEF ClientInv
  <2>2. client[Leader][d].due \in Seq(Nat)
    BY <1>1 DEF Clients
  <2>3. client[Leader][d].due[i] \in Nat
    BY <2>2, SMTT(30)
  <2> QED BY <2>1, <2>3, <1>5
<1> QED BY <1>3, <1>4, <1>6, <1>7, <1>8 DEF ClientInv, old

LEMMA ProduceKeeps ==
  ASSUME RepInv, NEW n \in Node, NEW c \in Conn, NEW roll \in BOOLEAN, Produce(n, c, roll)
  PROVE  RepInv' /\ Grows
<1>1. AppendRecord(n, roll) /\ Send(n, c, Len(elog[n]))
  BY DEF Produce
<1>2. /\ LogInv' /\ Grows /\ n = Leader
      /\ Len(elog'[Leader]) = Len(elog[Leader]) + 1
  BY <1>1, AppendGrows
<1>3. Len(elog[Leader]) \in Nat /\ Len(elog[Leader]) < Len(elog'[Leader])
  BY <1>2, ReplicationConstants DEF RepInv, LogInv
<1>4. ClientInv'
  BY <1>1, <1>2, <1>3, SendKeeps DEF RepInv
<1>5. UNCHANGED <<meta, led, seenHw, sess, wire, reports, gate, acked>>
  BY <1>1 DEF AppendRecord
<1>6. MetaInv'
  BY <1>2, <1>5, MetaStays DEF RepInv, MetaInv
<1>7. GateInv'
  BY <1>2, <1>5, GateStays DEF RepInv, GateInv
<1> QED BY <1>2, <1>4, <1>5, <1>6, <1>7, LinkStays, AckStays DEF RepInv

LEMMA FireAndForgetKeeps ==
  ASSUME RepInv, NEW n \in Node, NEW roll \in BOOLEAN, FireAndForget(n, roll)
  PROVE  RepInv' /\ Grows
<1>1. AppendRecord(n, roll) /\ client' = client
  BY DEF FireAndForget
<1>2. LogInv' /\ Grows
  BY <1>1, AppendGrows
<1>3. UNCHANGED <<meta, led, seenHw, sess, wire, reports, gate, acked>>
  BY <1>1 DEF AppendRecord
<1>4. MetaInv'
  BY <1>2, <1>3, MetaStays DEF RepInv, MetaInv
<1>5. GateInv'
  BY <1>2, <1>3, GateStays DEF RepInv, GateInv
<1> QED BY <1>1, <1>2, <1>3, <1>4, <1>5, LinkStays, AckStays, ClientStays DEF RepInv

LEMMA RetryKeeps ==
  ASSUME RepInv, NEW n \in Node, NEW c \in Conn, NEW off \in 0 .. Len(elog[n]) - 1,
         Retry(n, c, off)
  PROVE  RepInv' /\ Grows
<1>1. /\ UNCHANGED logs
      /\ UNCHANGED <<meta, led, seenHw, sess, wire, reports, gate, acked>>
      /\ Send(n, c, off) /\ n = Leader
  BY Roles DEF Retry, RepInv
<1>2. LogInv' /\ Grows
  BY <1>1, LogsStay DEF RepInv
<1>3. off \in Nat /\ off < Len(elog'[Leader])
  BY <1>1, ReplicationConstants DEF RepInv, LogInv, logs
<1>4. ClientInv'
  BY <1>1, <1>2, <1>3, SendKeeps DEF RepInv
<1>5. MetaInv'
  BY <1>1, <1>2, MetaStays DEF RepInv, MetaInv
<1>6. GateInv'
  BY <1>1, <1>2, GateStays DEF RepInv, GateInv
<1> QED BY <1>1, <1>2, <1>4, <1>5, <1>6, LinkStays, AckStays DEF RepInv

\* Telling a producer about parked acks that are held.
LEMMA TellingIsTrue ==
  ASSUME LogInv, AckInv, UNCHANGED logs, NEW S,
         \A p \in S : p.off \in Nat /\ p.off < Len(elog[Leader]) /\ Held(p.off + 1),
         acked' = acked \cup RecordsOf(Leader, S)
  PROVE  AckInv'
<1>1. LogInv' /\ Grows /\ (\A k : Held(k)' <=> Held(k)) /\ elog' = elog
  BY LogsStay DEF logs
<1> SUFFICES ASSUME NEW r \in acked'
             PROVE  \E k \in 1 .. Len(elog[Leader]) : r = <<Leader, k>> /\ Held(k)
  BY <1>1 DEF AckInv
<1>2. CASE r \in acked
  BY <1>2 DEF AckInv
<1>3. CASE r \in RecordsOf(Leader, S)
  <2>1. PICK p \in S : r = elog[Leader][p.off + 1]
    BY <1>3 DEF RecordsOf
  <2>2. p.off + 1 \in 1 .. Len(elog[Leader])
    BY <2>1, ReplicationConstants, SMTT(30) DEF LogInv
  <2>3. r = <<Leader, p.off + 1>>
    BY <2>1, <2>2 DEF LogInv, Numbered
  <2> QED BY <2>1, <2>2, <2>3
<1> QED BY <1>2, <1>3

\* A gate that takes one more locally durable offset.
LEMMA SeenIsOK ==
  ASSUME LogInv, NEW g, GateOK(g), NEW off \in Nat, off < Len(elog[Leader]), NEW c \in Conn
  PROVE  LET seen == [g EXCEPT !.own = MaxOf(@, off + 1)]
             ack  == [token |-> seen.next, conn |-> c, off |-> off]
         IN  /\ GateOK(seen)
             /\ GateOK([seen EXCEPT !.pending = @ \cup {ack}, !.next = @ + 1])
<1> DEFINE seen == [g EXCEPT !.own = MaxOf(g.own, off + 1)]
<1> DEFINE ack  == [token |-> seen.next, conn |-> c, off |-> off]
<1> DEFINE held == [seen EXCEPT !.pending = seen.pending \cup {ack}, !.next = seen.next + 1]
<1>1. g \in Gates /\ Len(elog[Leader]) \in Nat
  BY ReplicationConstants DEF GateOK, LogInv
<1>2. MaxOf(g.own, off + 1) \in Nat /\ MaxOf(g.own, off + 1) <= Len(elog[Leader])
  BY <1>1 DEF GateOK, MaxOf, Gates
<1>3. /\ seen \in Gates /\ seen.own = MaxOf(g.own, off + 1) /\ seen.peer = g.peer
      /\ seen.pending = g.pending /\ seen.through = g.through
  BY <1>1, <1>2 DEF Gates
<1>4. GateOK(seen)
  <2> HIDE DEF seen
  <2> QED BY <1>2, <1>3 DEF GateOK
<1>5. ack \in ParkedAcks /\ ack.off = off
  BY <1>3 DEF Gates, ParkedAcks
<1> HIDE DEF seen, ack
<1>6. /\ held \in Gates /\ held.own = seen.own /\ held.peer = seen.peer
      /\ held.pending = seen.pending \cup {ack} /\ held.through = seen.through
  <2>1. seen.pending \cup {ack} \in SUBSET ParkedAcks /\ seen.next + 1 \in Nat
    BY <1>3, <1>5 DEF Gates
  <2> DEFINE more == seen.pending \cup {ack}
  <2> HIDE DEF more
  <2>2. held = [seen EXCEPT !.pending = more, !.next = seen.next + 1]
    BY DEF more
  <2>3. more \in SUBSET ParkedAcks
    BY <2>1 DEF more
  <2> HIDE DEF held
  <2>4. /\ held \in Gates /\ held.own = seen.own /\ held.peer = seen.peer
        /\ held.pending = more /\ held.through = seen.through
    BY <1>3, <2>1, <2>2, <2>3 DEF Gates
  <2> QED BY <2>4 DEF more
<1>7. IsFiniteSet(seen.pending \cup {ack})
  BY <1>4, FS_AddElement DEF GateOK
<1> HIDE DEF held
<1>8. GateOK(held)
  BY <1>4, <1>5, <1>6, <1>7 DEF GateOK
<1> QED BY <1>4, <1>8 DEF held, seen, ack

\* One connection's state is replaced by a sound one.
LEMMA ClientReplaced ==
  ASSUME LogInv, UNCHANGED logs, ClientInv, NEW c \in Conn, NEW rec \in Clients,
         client' = [client EXCEPT ![Leader] = [client[Leader] EXCEPT ![c] = rec]],
         \A i \in 1 .. Len(rec.due) : rec.due[i] < Len(elog[Leader]),
         IsFiniteSet(rec.out),
         \A p \in rec.out : p.off < Len(elog[Leader]) /\ Held(p.off + 1)
  PROVE  ClientInv'
<1>1. client \in [Node -> [Conn -> Clients]] /\ Leader \in Node
  BY ReplicationConstants DEF ClientInv
<1>2. /\ client' \in [Node -> [Conn -> Clients]]
      /\ client'[Leader][c] = rec
      /\ \A d \in Conn \ {c} : client'[Leader][d] = client[Leader][d]
  BY <1>1
<1>3. elog' = elog /\ \A k : Held(k)' <=> Held(k)
  BY LogsStay DEF logs
<1> SUFFICES ASSUME NEW d \in Conn
             PROVE  /\ \A i \in 1 .. Len(client'[Leader][d].due) :
                          client'[Leader][d].due[i] < Len(elog[Leader])
                    /\ IsFiniteSet(client'[Leader][d].out)
                    /\ \A p \in client'[Leader][d].out :
                          p.off < Len(elog[Leader]) /\ Held(p.off + 1)
  BY <1>2, <1>3 DEF ClientInv
<1>4. CASE d = c
  BY <1>2, <1>4
<1>5. CASE d # c
  BY <1>2, <1>5 DEF ClientInv
<1> QED BY <1>4, <1>5

LEMMA PresentKeeps ==
  ASSUME RepInv, NEW n \in Node, NEW c \in Conn, Present(n, c)
  PROVE  RepInv' /\ Grows
<1> DEFINE old  == client[Leader][c]
<1> DEFINE off  == Head(old.due)
<1> DEFINE seen == [gate[Leader] EXCEPT !.own = MaxOf(@, off + 1)]
<1> DEFINE ack  == [token |-> seen.next, conn |-> c, off |-> off]
<1> DEFINE held == [seen EXCEPT !.pending = @ \cup {ack}, !.next = @ + 1]
<1>1. n = Leader
  BY Roles DEF Present, RepInv
<1>2. /\ UNCHANGED logs
      /\ UNCHANGED <<meta, led, seenHw, sess, wire, reports>>
      /\ old.due # << >>
  BY <1>1 DEF Present
<1>3. LogInv /\ LogInv' /\ Grows /\ \A k : Held(k)' <=> Held(k)
  BY <1>2, LogsStay DEF RepInv
<1>4. old \in Clients /\ old.due \in Seq(Nat) /\ old.replied \in Nat
  BY ReplicationConstants DEF RepInv, ClientInv, Clients
<1>5. \A i \in 1 .. Len(old.due) : old.due[i] < Len(elog[Leader])
  BY DEF RepInv, ClientInv
<1>6. off \in Nat /\ off < Len(elog[Leader])
  <2>1. 1 \in 1 .. Len(old.due) /\ Head(old.due) = old.due[1] /\ old.due[1] \in Nat
    BY <1>2, <1>4
  <2> QED BY <2>1, <1>5
<1>7. /\ Tail(old.due) \in Seq(Nat)
      /\ \A i \in 1 .. Len(Tail(old.due)) : Tail(old.due)[i] < Len(elog[Leader])
  BY <1>2, <1>4, <1>5, HeadTailProperties
<1>8. GateOK(gate[Leader]) /\ gate \in [Node -> Gates]
  BY DEF RepInv, GateInv
<1>9. GateOK(seen) /\ GateOK(held)
  BY <1>3, <1>6, <1>8, SeenIsOK
<1>10. /\ IsFiniteSet(old.out)
       /\ \A p \in old.out : p.off < Len(elog[Leader]) /\ Held(p.off + 1)
  BY DEF RepInv, ClientInv
<1>11. /\ Released(held) \subseteq held.pending
       /\ \A p \in Released(held) : Held(p.off + 1)
       /\ GateOK(AfterRelease(held))
  BY <1>3, <1>9, ReleasedIsHeld
<1>12. \A p \in Released(held) : p.off \in Nat /\ p.off < Len(elog[Leader])
  <2>1. held \in Gates /\ held.pending \in SUBSET ParkedAcks
    BY <1>9 DEF GateOK, Gates
  <2>2. \A p \in held.pending : p.off < Len(elog[Leader])
    BY <1>9 DEF GateOK
  <2> HIDE DEF held
  <2> QED BY <2>1, <2>2, <1>11 DEF ParkedAcks
<1>13. Cardinality(Released(held)) \in Nat
  <2>1. IsFiniteSet(held.pending)
    BY <1>9 DEF GateOK
  <2> HIDE DEF held
  <2> QED BY <2>1, <1>11, FS_Subset, FS_CardinalityType
<1>14. \/ /\ gate' = [gate EXCEPT ![Leader] = seen]
          /\ client' = [client EXCEPT ![Leader][c].due = Tail(@), ![Leader][c].replied = @ + 1]
          /\ acked' = acked
       \/ /\ gate' = [gate EXCEPT ![Leader] = AfterRelease(held)]
          /\ client' = [client EXCEPT ![Leader][c].due = Tail(@),
                                      ![Leader][c].replied = @ + Cardinality(Released(held))]
          /\ acked' = acked \cup RecordsOf(Leader, Released(held))
  BY <1>1 DEF Present
<1> HIDE DEF off, seen, ack, held
<1>15. GateInv'
  <2>1. PICK g : gate' = [gate EXCEPT ![Leader] = g] /\ GateOK(g)
    BY <1>9, <1>11, <1>14
  <2>2. g \in Gates /\ GateOK(g)'
    BY <2>1, <1>3, GateStays DEF GateOK
  <2>3. gate' \in [Node -> Gates] /\ gate'[Leader] = g
    BY <2>1, <2>2, <1>8, ReplicationConstants
  <2> QED BY <2>2, <2>3 DEF GateInv
<1>16. ClientInv'
  <2>1. PICK k \in Nat : client' = [client EXCEPT ![Leader][c].due = Tail(@),
                                                  ![Leader][c].replied = @ + k]
    BY <1>13, <1>14
  <2> DEFINE rec == [old EXCEPT !.due = Tail(old.due), !.replied = old.replied + k]
  <2>2. rec \in Clients /\ rec.due = Tail(old.due) /\ rec.out = old.out
    <3>1. old.replied + k \in Nat
      BY <2>1, <1>4
    <3> HIDE DEF old
    <3> QED BY <3>1, <1>4, <1>7 DEF Clients
  <2>3. client \in [Node -> [Conn -> Clients]] /\ Leader \in Node
    BY ReplicationConstants DEF RepInv, ClientInv
  <2>4. client' = [client EXCEPT ![Leader] = [client[Leader] EXCEPT ![c] = rec]]
    BY <2>1, <2>3
  <2> HIDE DEF rec
  <2>5. ClientInv
    BY DEF RepInv
  <2> QED BY <2>2, <2>4, <2>5, <1>2, <1>3, <1>7, <1>10, ClientReplaced
<1>17. AckInv'
  <2>1. CASE acked' = acked
    BY <2>1, <1>3, AckStays DEF RepInv
  <2>2. CASE acked' = acked \cup RecordsOf(Leader, Released(held))
    BY <2>2, <1>2, <1>3, <1>11, <1>12, TellingIsTrue DEF RepInv
  <2> QED BY <2>1, <2>2, <1>14
<1>18. MetaInv'
  BY <1>2, <1>3, MetaStays DEF RepInv, MetaInv
<1> QED BY <1>2, <1>3, <1>15, <1>16, <1>17, <1>18, LinkStays DEF RepInv

\* A report is not ahead of its follower's width, so it may raise the frontier.
LEMMA ReportedIsOK ==
  ASSUME LogInv, NEW g, GateOK(g), NEW f \in Followers, NEW off \in Nat, off <= Width(f)
  PROVE  GateOK([g EXCEPT !.peer[f] = MaxOf(@, off)])
<1> DEFINE peer == [g.peer EXCEPT ![f] = MaxOf(g.peer[f], off)]
<1> DEFINE new == [g EXCEPT !.peer = peer]
<1>1. g \in Gates /\ g.peer \in [Followers -> Nat] /\ Followers \in SUBSET Node
  BY DEF GateOK, Followers
<1>2. MaxOf(g.peer[f], off) \in Nat /\ MaxOf(g.peer[f], off) <= Width(f)
  BY <1>1 DEF GateOK, MaxOf
<1>3. peer \in [Followers -> Nat] /\ \A h \in Followers : peer[h] <= Width(h)
  BY <1>1, <1>2 DEF GateOK
<1> HIDE DEF peer
<1>4. /\ new \in Gates /\ new.own = g.own /\ new.peer = peer
      /\ new.pending = g.pending /\ new.through = g.through
  BY <1>1, <1>3 DEF Gates
<1>5. new = [g EXCEPT !.peer[f] = MaxOf(@, off)]
  BY DEF peer
<1> HIDE DEF new
<1>6. GateOK(new)
  BY <1>3, <1>4 DEF GateOK
<1> QED BY <1>5, <1>6

LEMMA TakeReportKeeps ==
  ASSUME RepInv, NEW m \in reports, TakeReport(m)
  PROVE  RepInv' /\ Grows
<1> DEFINE g == IF m.from \in DOMAIN gate[Leader].peer
                THEN [gate[Leader] EXCEPT !.peer[m.from] = MaxOf(@, m.off)] ELSE gate[Leader]
<1>1. m.to = Leader /\ m.from \in Followers /\ m.off \in Nat /\ m.off <= Width(m.from)
  BY DEF RepInv, LinkInv
<1>2. /\ UNCHANGED logs
      /\ UNCHANGED <<meta, led, seenHw, sess, wire, acked>>
      /\ reports' = reports \ {m}
      /\ gate' = [gate EXCEPT ![Leader] = AfterRelease(g)]
      /\ client' = [client EXCEPT ![Leader] = [c \in Conn |->
            [client[Leader][c] EXCEPT !.out = @ \cup {p \in Released(g) : p.conn = c}]]]
  <2>1. /\ UNCHANGED logs
        /\ UNCHANGED <<meta, led, seenHw, sess, wire, acked>>
        /\ reports' = reports \ {m}
        /\ gate' = [gate EXCEPT ![Leader] = AfterRelease(g)]
    BY <1>1 DEF TakeReport
  <2>2. client' = [client EXCEPT ![Leader] = [c \in Conn |->
            [client[Leader][c] EXCEPT !.out = @ \cup {p \in Released(g) : p.conn = c}]]]
    <3> DEFINE n == m.to
    <3> DEFINE h == IF m.from \in DOMAIN gate[n].peer
                    THEN [gate[n] EXCEPT !.peer[m.from] = MaxOf(@, m.off)] ELSE gate[n]
    <3>1. client' = [client EXCEPT ![n] = [c \in Conn |->
              [client[n][c] EXCEPT !.out = @ \cup {p \in Released(h) : p.conn = c}]]]
      BY DEF TakeReport
    <3>2. n = Leader /\ g = h
      BY <1>1
    <3> HIDE DEF n, h, g
    <3> QED BY <3>1, <3>2
  <2> QED BY <2>1, <2>2
<1>3. LogInv /\ LogInv' /\ Grows /\ (\A k : Held(k)' <=> Held(k)) /\ elog' = elog
  BY <1>2, LogsStay DEF RepInv, logs
<1>4. GateOK(gate[Leader]) /\ gate \in [Node -> Gates]
  BY DEF RepInv, GateInv
<1>5. GateOK(g)
  BY <1>1, <1>3, <1>4, ReportedIsOK
<1>6. /\ Released(g) \subseteq g.pending
      /\ \A p \in Released(g) : Held(p.off + 1)
      /\ GateOK(AfterRelease(g))
  BY <1>3, <1>5, ReleasedIsHeld
<1>7. /\ g.pending \in SUBSET ParkedAcks /\ IsFiniteSet(g.pending)
      /\ \A p \in g.pending : p.off < Len(elog[Leader])
  BY <1>5 DEF GateOK, Gates
<1> HIDE DEF g
<1>8. GateInv'
  <2>1. PICK h : h = AfterRelease(g)
    OBVIOUS
  <2>2. GateOK(h) /\ h \in Gates
    BY <2>1, <1>6 DEF GateOK
  <2>3. GateOK(h)'
    BY <2>2, <1>3, GateStays
  <2>4. gate' \in [Node -> Gates] /\ gate'[Leader] = h
    BY <2>1, <2>2, <1>2, <1>4, ReplicationConstants
  <2> QED BY <2>3, <2>4 DEF GateInv
<1>9. ClientInv'
  <2> DEFINE mine(c) == {p \in Released(g) : p.conn = c}
  <2> DEFINE rec(c) == [client[Leader][c] EXCEPT !.out = client[Leader][c].out \cup mine(c)]
  <2>1. client \in [Node -> [Conn -> Clients]] /\ Leader \in Node
    BY ReplicationConstants DEF RepInv, ClientInv
  <2>2. ASSUME NEW c \in Conn
        PROVE  /\ rec(c) \in Clients
               /\ rec(c).due = client[Leader][c].due
               /\ rec(c).out = client[Leader][c].out \cup mine(c)
               /\ IsFiniteSet(rec(c).out)
               /\ \A p \in rec(c).out : p.off < Len(elog[Leader]) /\ Held(p.off + 1)
    <3>1. client[Leader][c] \in Clients
      BY <2>1
    <3>2. mine(c) \in SUBSET ParkedAcks /\ IsFiniteSet(mine(c))
      BY <1>6, <1>7, FS_Subset
    <3>3. /\ IsFiniteSet(client[Leader][c].out)
          /\ \A p \in client[Leader][c].out : p.off < Len(elog[Leader]) /\ Held(p.off + 1)
      BY DEF RepInv, ClientInv
    <3>4. \A p \in mine(c) : p.off < Len(elog[Leader]) /\ Held(p.off + 1)
      BY <1>6, <1>7
    <3> HIDE DEF mine
    <3>5. client[Leader][c].out \cup mine(c) \in SUBSET ParkedAcks
      BY <3>1, <3>2 DEF Clients
    <3>6. IsFiniteSet(client[Leader][c].out \cup mine(c))
      BY <3>2, <3>3, FS_Union
    <3> DEFINE o == client[Leader][c].out \cup mine(c)
    <3>7. rec(c) = [client[Leader][c] EXCEPT !.out = o]
      OBVIOUS
    <3> HIDE DEF o
    <3>8. rec(c) \in Clients /\ rec(c).due = client[Leader][c].due /\ rec(c).out = o
      BY <3>1, <3>5, <3>7 DEF Clients, o
    <3> QED BY <3>3, <3>4, <3>6, <3>8 DEF o
  <2>3. client' = [client EXCEPT ![Leader] = [c \in Conn |-> rec(c)]]
    BY <1>2
  <2> HIDE DEF rec, mine
  <2>4. /\ client' \in [Node -> [Conn -> Clients]]
        /\ \A c \in Conn : client'[Leader][c] = rec(c)
    BY <2>1, <2>2, <2>3
  <2>5. \A c \in Conn : \A i \in 1 .. Len(client[Leader][c].due) :
          client[Leader][c].due[i] < Len(elog[Leader])
    BY DEF RepInv, ClientInv
  <2> QED BY <2>2, <2>4, <2>5, <1>3 DEF ClientInv
<1>10. LinkInv'
  <2>1. \A k \in reports' : k \in reports /\ k.off <= Width(k.from)'
    BY <1>2, <1>3, ReportsStay DEF RepInv
  <2>2. \A f \in Node : \A j \in 1 .. Len(wire[f]) : RunOK(wire[f][j])'
    BY <1>2 DEF RepInv, LinkInv, RunOK, logs
  <2> QED BY <1>2, <2>1, <2>2 DEF RepInv, LinkInv
<1>11. MetaInv'
  BY <1>2, <1>3, MetaStays DEF RepInv, MetaInv
<1> QED BY <1>2, <1>3, <1>8, <1>9, <1>10, <1>11, AckStays DEF RepInv

LEMMA LoseReportKeeps ==
  ASSUME RepInv, NEW m \in reports, LoseReport(m)
  PROVE  RepInv' /\ Grows
<1>1. /\ UNCHANGED logs
      /\ UNCHANGED <<meta, led, seenHw, sess, wire, gate, client, acked>>
      /\ reports' = reports \ {m}
  BY DEF LoseReport
<1>2. LogInv' /\ Grows
  BY <1>1, LogsStay DEF RepInv
<1>3. LinkInv'
  <2>1. \A k \in reports' : k \in reports /\ k.off <= Width(k.from)'
    BY <1>1, <1>2, ReportsStay DEF RepInv
  <2>2. \A f \in Node : \A j \in 1 .. Len(wire[f]) : RunOK(wire[f][j])'
    BY <1>1 DEF RepInv, LinkInv, RunOK, logs
  <2> QED BY <1>1, <2>1, <2>2 DEF RepInv, LinkInv
<1>4. MetaInv'
  BY <1>1, <1>2, MetaStays DEF RepInv, MetaInv
<1>5. GateInv'
  BY <1>1, <1>2, GateStays DEF RepInv, GateInv
<1> QED BY <1>1, <1>2, <1>3, <1>4, <1>5, ClientStays, AckStays DEF RepInv

LEMMA DrainKeeps ==
  ASSUME RepInv, NEW n \in Node, NEW c \in Conn, DrainReleased(n, c)
  PROVE  RepInv' /\ Grows
<1> DEFINE old == client[Leader][c]
<1>1. n = Leader
  BY Roles DEF DrainReleased, RepInv
<1>2. /\ UNCHANGED logs
      /\ UNCHANGED <<meta, led, seenHw, sess, wire, reports, gate>>
      /\ client' = [client EXCEPT ![Leader][c].out = {},
                                  ![Leader][c].replied = @ + Cardinality(old.out)]
      /\ acked' = acked \cup RecordsOf(Leader, old.out)
  BY <1>1 DEF DrainReleased
<1>3. LogInv /\ LogInv' /\ Grows
  BY <1>2, LogsStay DEF RepInv
<1>4. /\ old \in Clients /\ IsFiniteSet(old.out)
      /\ client \in [Node -> [Conn -> Clients]] /\ Leader \in Node
      /\ \A p \in old.out : p.off < Len(elog[Leader]) /\ Held(p.off + 1)
      /\ \A i \in 1 .. Len(old.due) : old.due[i] < Len(elog[Leader])
  BY ReplicationConstants DEF RepInv, ClientInv
<1>5. \A p \in old.out : p.off \in Nat
  BY <1>4 DEF Clients, ParkedAcks
<1>6. AckInv'
  BY <1>2, <1>3, <1>4, <1>5, TellingIsTrue DEF RepInv
<1> DEFINE rec == [old EXCEPT !.out = {}, !.replied = old.replied + Cardinality(old.out)]
<1>7. rec \in Clients /\ rec.due = old.due /\ rec.out = {}
  <2>1. old.replied + Cardinality(old.out) \in Nat
    BY <1>4, FS_CardinalityType DEF Clients
  <2> HIDE DEF old
  <2> QED BY <2>1, <1>4 DEF Clients
<1>8. client' = [client EXCEPT ![Leader] = [client[Leader] EXCEPT ![c] = rec]]
  BY <1>2, <1>4
<1> HIDE DEF rec
<1>9. ClientInv'
  <2>1. ClientInv /\ UNCHANGED logs /\ IsFiniteSet(rec.out)
    BY <1>2, <1>7, FS_EmptySet DEF RepInv
  <2>2. \A i \in 1 .. Len(rec.due) : rec.due[i] < Len(elog[Leader])
    BY <1>4, <1>7
  <2>3. \A p \in rec.out : p.off < Len(elog[Leader]) /\ Held(p.off + 1)
    BY <1>7
  <2> QED BY <2>1, <2>2, <2>3, <1>3, <1>7, <1>8, ClientReplaced
<1>10. MetaInv'
  BY <1>2, <1>3, MetaStays DEF RepInv, MetaInv
<1>11. GateInv'
  BY <1>2, <1>3, GateStays DEF RepInv, GateInv
<1> QED BY <1>2, <1>3, <1>6, <1>9, <1>10, <1>11, LinkStays DEF RepInv

LEMMA DropKeeps ==
  ASSUME RepInv, NEW n \in Node, NEW c \in Conn, DropConnection(n, c)
  PROVE  RepInv' /\ Grows
<1>1. n = Leader
  BY Roles DEF DropConnection, RepInv
<1>2. /\ UNCHANGED logs
      /\ UNCHANGED <<meta, led, seenHw, sess, wire, reports, acked>>
      /\ client' = [client EXCEPT ![Leader][c] = NoClient]
      /\ gate' = [gate EXCEPT ![Leader].pending = {p \in @ : p.conn # c}]
  BY <1>1 DEF DropConnection
<1>3. LogInv /\ LogInv' /\ Grows
  BY <1>2, LogsStay DEF RepInv
<1>4. NoClient \in Clients /\ NoClient.due = << >> /\ NoClient.out = {}
  BY DEF NoClient, Clients
<1>5. client' = [client EXCEPT ![Leader] = [client[Leader] EXCEPT ![c] = NoClient]]
  BY <1>2
<1>6. ClientInv'
  <2>1. ClientInv /\ UNCHANGED logs /\ IsFiniteSet(NoClient.out)
    BY <1>2, <1>4, FS_EmptySet DEF RepInv
  <2>2. \A i \in 1 .. Len(NoClient.due) : NoClient.due[i] < Len(elog[Leader])
    BY <1>4
  <2>3. \A p \in NoClient.out : p.off < Len(elog[Leader]) /\ Held(p.off + 1)
    BY <1>4
  <2> QED BY <2>1, <2>2, <2>3, <1>3, <1>4, <1>5, ClientReplaced
<1> DEFINE g == gate[Leader]
<1> DEFINE rest == {p \in g.pending : p.conn # c}
<1> DEFINE new == [g EXCEPT !.pending = rest]
<1>7. GateOK(g) /\ g \in Gates /\ gate \in [Node -> Gates] /\ Leader \in Node
  BY ReplicationConstants DEF RepInv, GateInv, GateOK
<1>8. gate' = [gate EXCEPT ![Leader] = new]
  BY <1>2, <1>7
<1>9. rest \subseteq g.pending /\ rest \in SUBSET ParkedAcks /\ IsFiniteSet(rest)
  BY <1>7, FS_Subset DEF GateOK, Gates
<1> HIDE DEF rest, g
<1>10. /\ new \in Gates /\ new.own = g.own /\ new.peer = g.peer
       /\ new.pending = rest /\ new.through = g.through
  BY <1>7, <1>9 DEF Gates
<1> HIDE DEF new
<1>11. GateOK(new)
  BY <1>7, <1>9, <1>10 DEF GateOK
<1>12. GateInv'
  BY <1>3, <1>7, <1>8, <1>10, <1>11, GateStays DEF GateInv
<1>13. MetaInv'
  BY <1>2, <1>3, MetaStays DEF RepInv, MetaInv
<1> QED BY <1>2, <1>3, <1>6, <1>12, <1>13, LinkStays, AckStays DEF RepInv

-----------------------------------------------------------------------------
(* Followers *)

LEMMA ConnectKeeps ==
  ASSUME RepInv, NEW f \in Node, Connect(f)
  PROVE  RepInv' /\ Grows
<1>1. /\ UNCHANGED logs
      /\ UNCHANGED <<meta, led, seenHw, wire, reports, gate, client, acked>>
      /\ sess' = [sess EXCEPT ![f] = "adopt"] /\ f # Leader
  BY Roles DEF Connect, RepInv, Followers
<1>2. LogInv' /\ Grows
  BY <1>1, LogsStay DEF RepInv
<1>3. MetaInv'
  BY <1>1, <1>2, MetaStays, ReplicationConstants DEF RepInv, MetaInv
<1>4. GateInv'
  BY <1>1, <1>2, GateStays DEF RepInv, GateInv
<1> QED BY <1>1, <1>2, <1>3, <1>4, ClientStays, AckStays, LinkStays DEF RepInv

\* A follower of the only leader has no divergent tail.
LEMMA NothingToHeal ==
  ASSUME RepInv, NEW f \in Followers
  PROVE  ~MustHeal(f)
<1>1. led[f] = Leader /\ known[f] \in Nat
  BY DEF RepInv, MetaInv, Followers
<1>2. /\ elog[Leader] \in Seq(Records) /\ rlog[f] \in Seq(Records)
      /\ Len(rlog[f]) \in Nat /\ Len(elog[Leader]) \in Nat /\ sealed[Leader] \in Nat
      /\ sealed[Leader] <= Len(elog[Leader]) /\ Len(rlog[f]) <= sealed[Leader]
      /\ Numbered(elog[Leader]) /\ Numbered(rlog[f])
  BY ReplicationConstants DEF RepInv, LogInv, Followers
<1>3. ~TailSuspected(f)
  BY <1>1, <1>2 DEF TailSuspected
<1>4. ~ContentDiffers(f)
  <2> DEFINE top == MinOf(known[f] + MaxRecords, sealed[Leader])
  <2> DEFINE theirs == SubSeq(elog[Leader], known[f] + 1, top)
  <2> SUFFICES ASSUME NEW i \in DOMAIN theirs, known[f] + i <= Len(rlog[f])
               PROVE  rlog[f][known[f] + i] = theirs[i]
    BY <1>1 DEF ContentDiffers, Served
  <2>1. top \in Nat /\ top <= Len(elog[Leader])
    <3>1. MaxRecords \in Nat
      BY ReplicationConstants
    <3> QED BY <3>1, <1>1, <1>2 DEF MinOf
  <2> HIDE DEF top
  <2>2. \A j \in known[f] + 1 .. top : elog[Leader][j] \in Records
    BY <2>1, <1>1, <1>2
  <2>3. /\ theirs \in Seq(Records)
        /\ Len(theirs) = IF known[f] + 1 <= top THEN top - (known[f] + 1) + 1 ELSE 0
        /\ \A j \in 1 .. top - (known[f] + 1) + 1 :
              theirs[j] = elog[Leader][(known[f] + 1) + j - 1]
    <3> DEFINE lo == known[f] + 1
    <3>1. lo \in Int /\ top \in Int
      BY <2>1, <1>1
    <3> HIDE DEF lo
    <3>2. /\ SubSeq(elog[Leader], lo, top) \in Seq(Records)
          /\ Len(SubSeq(elog[Leader], lo, top)) = IF lo <= top THEN top - lo + 1 ELSE 0
          /\ \A j \in 1 .. top - lo + 1 :
                SubSeq(elog[Leader], lo, top)[j] = elog[Leader][lo + j - 1]
      BY <3>1, <2>2, SubSeqProperties, SMTT(30) DEF lo
    <3> QED BY <3>2 DEF lo
  <2>4. i \in 1 .. Len(theirs)
    BY <2>3
  <2> HIDE DEF theirs
  <2>5. /\ known[f] + i \in 1 .. Len(elog[Leader]) /\ known[f] + i \in 1 .. Len(rlog[f])
        /\ theirs[i] = elog[Leader][known[f] + i]
    <3>1. i \in Int /\ 1 <= i /\ known[f] + 1 <= top /\ i <= top - (known[f] + 1) + 1
      BY <2>1, <2>3, <2>4, <1>1
    <3>2. (known[f] + 1) + i - 1 = known[f] + i
      BY <3>1, <1>1
    <3>3. theirs[i] = elog[Leader][known[f] + i]
      BY <3>1, <3>2, <2>3, <1>1, <2>1, SMTT(30)
    <3> QED BY <3>1, <3>3, <2>1, <1>1, <1>2
  <2>6. theirs[i] = <<Leader, known[f] + i>> /\ rlog[f][known[f] + i] = <<Leader, known[f] + i>>
    BY <2>5, <1>2 DEF Numbered
  <2> QED BY <2>6
<1> QED BY <1>3, <1>4 DEF MustHeal

LEMMA AdoptKeeps ==
  ASSUME RepInv, NEW f \in Node, NEW wireOk \in BOOLEAN, Adopt(f, wireOk)
  PROVE  RepInv' /\ Grows
<1>1. f \in Followers
  BY Roles DEF RepInv, Adopt
<1>2. ~MustHeal(f)
  BY <1>1, NothingToHeal
<1>3. /\ UNCHANGED logs
      /\ UNCHANGED <<meta, led, seenHw, wire, reports, gate, client, acked>>
      /\ sess' = [sess EXCEPT ![f] = "steady"] /\ f # Leader
  BY <1>1, <1>2 DEF Adopt, logs, replica, Followers
<1>4. LogInv' /\ Grows
  BY <1>3, LogsStay DEF RepInv
<1>5. MetaInv'
  BY <1>3, <1>4, MetaStays, ReplicationConstants DEF RepInv, MetaInv
<1>6. GateInv'
  BY <1>3, <1>4, GateStays DEF RepInv, GateInv
<1> QED BY <1>3, <1>4, <1>5, <1>6, ClientStays, AckStays, LinkStays DEF RepInv

\* What the read plane answers is a run of the sealed log.
LEMMA ServedIsRun ==
  ASSUME RepInv, NEW f \in Followers, NEW k \in Nat, NEW hw \in Nat
  PROVE  LET resp == [hw |-> hw, first |-> Len(rlog[f]), run |-> Served(led[f], Len(rlog[f]), k)]
         IN  resp \in Responses /\ RunOK(resp)
<1> DEFINE from == Len(rlog[f])
<1> DEFINE top == MinOf(from + k, sealed[Leader])
<1> DEFINE run == SubSeq(elog[Leader], from + 1, top)
<1>1. led[f] = Leader
  BY DEF RepInv, MetaInv, Followers
<1>2. /\ elog[Leader] \in Seq(Records) /\ from \in Nat
      /\ Len(elog[Leader]) \in Nat /\ sealed[Leader] \in Nat
      /\ sealed[Leader] <= Len(elog[Leader]) /\ from <= sealed[Leader]
      /\ Numbered(elog[Leader])
  BY ReplicationConstants DEF RepInv, LogInv, Followers
<1>3. top \in Nat /\ from <= top /\ top <= sealed[Leader]
  BY <1>2 DEF MinOf
<1> HIDE DEF from, top
<1>4. /\ run \in Seq(Records) /\ Len(run) = top - from
      /\ \A i \in 1 .. Len(run) : run[i] = elog[Leader][from + i]
  BY <1>2, <1>3, SubSeqProperties
<1> HIDE DEF run
<1>5. \A i \in 1 .. Len(run) : run[i] = <<Leader, from + i>>
  <2>1. \A i \in 1 .. Len(run) : from + i \in 1 .. Len(elog[Leader])
    BY <1>2, <1>3, <1>4
  <2> QED BY <2>1, <1>2, <1>4 DEF Numbered
<1> DEFINE resp == [hw |-> hw, first |-> from, run |-> run]
<1>6. resp \in Responses /\ resp.first = from /\ resp.run = run
  BY <1>2, <1>4 DEF Responses
<1> HIDE DEF resp
<1>7. RunOK(resp)
  <2>1. from + Len(run) <= sealed[Leader]
    BY <1>2, <1>3, <1>4
  <2> QED BY <1>5, <1>6, <2>1 DEF RunOK
<1>8. resp = [hw |-> hw, first |-> Len(rlog[f]), run |-> Served(led[f], Len(rlog[f]), k)]
  BY <1>1 DEF resp, run, top, from, Served
<1> QED BY <1>6, <1>7, <1>8

LEMMA FetchKeeps ==
  ASSUME RepInv, NEW f \in Node, NEW k \in 1 .. MaxRecords, Fetch(f, k)
  PROVE  RepInv' /\ Grows
<1> DEFINE resp == [hw |-> Len(elog[led[f]]), first |-> Len(rlog[f]),
                    run |-> Served(led[f], Len(rlog[f]), k)]
<1>1. f \in Followers /\ led[f] = Leader
  BY Roles DEF RepInv, Fetch
<1>2. /\ UNCHANGED logs
      /\ UNCHANGED <<meta, led, seenHw, sess, reports, gate, client, acked>>
      /\ wire' = [wire EXCEPT ![f] = Append(wire[f], resp)]
  BY DEF Fetch
<1>3. LogInv' /\ Grows
  BY <1>2, LogsStay DEF RepInv
<1>4. Len(elog[led[f]]) \in Nat /\ k \in Nat
  BY <1>1, ReplicationConstants DEF RepInv, LogInv
<1>5. resp \in Responses /\ RunOK(resp)
  BY <1>1, <1>4, ServedIsRun
<1> HIDE DEF resp
<1>6. LinkInv'
  <2>1. /\ wire \in [Node -> Seq(Responses)]
        /\ \A h \in Node : \A j \in 1 .. Len(wire[h]) : RunOK(wire[h][j])
    BY DEF RepInv, LinkInv
  <2>2. wire' \in [Node -> Seq(Responses)]
    BY <2>1, <1>2, <1>5, AppendProperties
  <2>3. \A h \in Node : \A j \in 1 .. Len(wire'[h]) : RunOK(wire'[h][j])
    <3>1. \A j \in 1 .. Len(wire'[f]) : wire'[f][j] = resp \/ RunOK(wire'[f][j])
      BY <2>1, <1>2, <1>5, AppendProperties
    <3> QED BY <3>1, <2>1, <1>2, <1>5
  <2>4. \A h \in Node : \A j \in 1 .. Len(wire'[h]) : RunOK(wire[h][j])'
    BY <2>3, <1>2 DEF RunOK, logs
  <2>5. \A m \in reports : m.off <= Width(m.from)'
    BY <1>3, ReportsStay DEF RepInv
  <2> QED BY <2>2, <2>4, <2>5, <1>2 DEF RepInv, LinkInv
<1>7. MetaInv'
  BY <1>2, <1>3, MetaStays DEF RepInv, MetaInv
<1>8. GateInv'
  BY <1>2, <1>3, GateStays DEF RepInv, GateInv
<1> QED BY <1>2, <1>3, <1>6, <1>7, <1>8, ClientStays, AckStays DEF RepInv

\* A follower's log with a run that continues it is numbered like the leader's.
LEMMA JoinedRun ==
  ASSUME LogInv, NEW f \in Followers, NEW run \in Seq(Records),
         \A i \in 1 .. Len(run) : run[i] = <<Leader, Len(rlog[f]) + i>>
  PROVE  /\ rlog[f] \o run \in Seq(Records)
         /\ Len(rlog[f] \o run) = Len(rlog[f]) + Len(run)
         /\ Numbered(rlog[f] \o run)
<1>1. /\ rlog[f] \in Seq(Records) /\ Len(rlog[f]) \in Nat /\ Len(run) \in Nat /\ f \in Node
      /\ Numbered(rlog[f])
  BY DEF LogInv, Followers
<1> DEFINE new == rlog[f] \o run
<1>2. /\ new \in Seq(Records) /\ Len(new) = Len(rlog[f]) + Len(run)
      /\ \A i \in 1 .. Len(rlog[f]) + Len(run) :
            new[i] = IF i <= Len(rlog[f]) THEN rlog[f][i] ELSE run[i - Len(rlog[f])]
  BY <1>1, ConcatProperties
<1> HIDE DEF new
<1>3. Numbered(new)
  <2> SUFFICES ASSUME NEW i \in 1 .. Len(new) PROVE new[i] = <<Leader, i>>
    BY DEF Numbered
  <2>1. CASE i <= Len(rlog[f])
    <3>1. i \in 1 .. Len(rlog[f]) /\ i \in 1 .. Len(rlog[f]) + Len(run)
      BY <2>1, <1>1, <1>2
    <3>2. rlog[f][i] = <<Leader, i>>
      BY <3>1, <1>1 DEF Numbered
    <3> QED BY <3>1, <3>2, <2>1, <1>2
  <2>2. CASE ~ (i <= Len(rlog[f]))
    <3>1. i - Len(rlog[f]) \in 1 .. Len(run) /\ Len(rlog[f]) + (i - Len(rlog[f])) = i
      BY <2>2, <1>1, <1>2
    <3>2. run[i - Len(rlog[f])] = <<Leader, Len(rlog[f]) + (i - Len(rlog[f]))>>
      BY <3>1
    <3> QED BY <3>1, <3>2, <2>2, <1>1, <1>2
  <2> QED BY <2>1, <2>2
<1> QED BY <1>2, <1>3 DEF new

\* A prefix of a numbered log is one.
LEMMA PrefixNumbered ==
  ASSUME NEW log \in Seq(Records), Numbered(log), NEW k \in 0 .. Len(log)
  PROVE  /\ SubSeq(log, 1, k) \in Seq(Records)
         /\ Len(SubSeq(log, 1, k)) = k
         /\ Numbered(SubSeq(log, 1, k))
<1> DEFINE b == SubSeq(log, 1, k)
<1>1. Len(log) \in Nat /\ k \in Nat /\ \A i \in 1 .. k : log[i] \in Records
  OBVIOUS
<1>2. b \in Seq(Records) /\ Len(b) = k /\ \A i \in 1 .. k : b[i] = log[i]
  BY <1>1, SubSeqProperties
<1> HIDE DEF b
<1>3. Numbered(b)
  BY <1>1, <1>2 DEF Numbered
<1> QED BY <1>2, <1>3 DEF b

\* One replica log is replaced by another prefix of the leader's sealed log that
\* is no shorter on disk, and whole on disk unless a sync failed.
LEMMA ReplacedKeepsLogs ==
  ASSUME LogInv, NEW n \in Node, NEW new \in Seq(Records), NEW s \in Nat,
         n \in Followers => Numbered(new) /\ Len(new) <= sealed[Leader],
         synced[n] <= s, s <= Len(new),
         rlog' = [rlog EXCEPT ![n] = new], synced' = [synced EXCEPT ![n] = s],
         elog' = elog, sealed' = sealed,
         failed \subseteq failed', failed' \subseteq Followers, frozen' \subseteq failed',
         n \notin failed' => s = Len(new)
  PROVE  LogInv' /\ Grows
<1>1. /\ rlog' \in [Node -> Seq(Records)] /\ rlog'[n] = new
      /\ synced' \in [Node -> Nat] /\ synced'[n] = s
      /\ \A h \in Node \ {n} : rlog'[h] = rlog[h] /\ synced'[h] = synced[h]
  BY DEF LogInv
<1>2. \A h \in Followers : Numbered(rlog'[h]) /\ Len(rlog'[h]) <= sealed[Leader]
  <2> SUFFICES ASSUME NEW h \in Followers
               PROVE  Numbered(rlog'[h]) /\ Len(rlog'[h]) <= sealed[Leader]
    OBVIOUS
  <2>1. CASE h = n
    BY <1>1, <2>1
  <2>2. CASE h # n
    BY <1>1, <2>2 DEF LogInv, Followers
  <2> QED BY <2>1, <2>2
<1>3. \A h \in Node : synced'[h] <= Len(rlog'[h]) /\ synced[h] <= synced'[h]
  <2> SUFFICES ASSUME NEW h \in Node
               PROVE  synced'[h] <= Len(rlog'[h]) /\ synced[h] <= synced'[h]
    OBVIOUS
  <2>1. CASE h = n
    BY <1>1, <2>1
  <2>2. CASE h # n
    BY <1>1, <2>2 DEF LogInv
  <2> QED BY <2>1, <2>2
<1>4. \A h \in Followers \ failed' : synced'[h] = Len(rlog'[h])
  <2> SUFFICES ASSUME NEW h \in Followers, h \notin failed' PROVE synced'[h] = Len(rlog'[h])
    OBVIOUS
  <2>1. CASE h = n
    BY <1>1, <2>1
  <2>2. CASE h # n
    BY <1>1, <2>2 DEF LogInv, Followers
  <2> QED BY <2>1, <2>2
<1>5. LogInv'
  BY <1>1, <1>2, <1>3, <1>4 DEF LogInv, Numbered
<1>6. Grows
  <2>1. Len(elog[Leader]) \in Nat /\ sealed[Leader] \in Nat
    BY ReplicationConstants DEF LogInv
  <2>2. Len(elog[Leader]) <= Len(elog'[Leader]) /\ sealed[Leader] <= sealed'[Leader]
    BY <2>1
  <2> QED BY <1>3, <2>2 DEF Grows
<1> QED BY <1>5, <1>6

\* The first response of a link.
LEMMA HeadOfWire ==
  ASSUME RepInv, NEW f \in Node, wire[f] # << >>
  PROVE  LET resp == Head(wire[f])
         IN  /\ resp \in Responses /\ RunOK(resp)
             /\ resp.run \in Seq(Records) /\ resp.first \in Nat /\ resp.hw \in Nat
             /\ Len(resp.run) \in Nat
<1>1. /\ wire[f] \in Seq(Responses)
      /\ \A j \in 1 .. Len(wire[f]) : RunOK(wire[f][j])
  BY DEF RepInv, LinkInv
<1> DEFINE resp == Head(wire[f])
<1>2. resp \in Responses /\ RunOK(resp)
  <2>1. 1 \in 1 .. Len(wire[f]) /\ resp = wire[f][1] /\ wire[f][1] \in Responses
    BY <1>1
  <2> QED BY <2>1, <1>1
<1>3. resp.run \in Seq(Records) /\ resp.first \in Nat /\ resp.hw \in Nat /\ Len(resp.run) \in Nat
  BY <1>2 DEF Responses
<1> QED BY <1>2, <1>3

\* A response that continues the follower's log.
LEMMA ContinuingRun ==
  ASSUME RepInv, NEW f \in Followers, NEW resp \in Responses, RunOK(resp), Continues(f, resp)
  PROVE  /\ Len(rlog[f]) + Len(resp.run) <= sealed[Leader]
         /\ \A i \in 1 .. Len(resp.run) : resp.run[i] = <<Leader, Len(rlog[f]) + i>>
<1>1. CASE resp.run = << >>
  <2>1. Len(resp.run) = 0 /\ Len(rlog[f]) \in Nat /\ Len(rlog[f]) <= sealed[Leader]
    BY <1>1 DEF RepInv, LogInv, Followers
  <2> QED BY <2>1
<1>2. CASE resp.first = Len(rlog[f])
  BY <1>2 DEF RunOK
<1> QED BY <1>1, <1>2 DEF Continues

\* Observing a high watermark.
LEMMA ObserveKeeps ==
  ASSUME RepInv, NEW f \in Node, NEW resp \in Responses, ObserveHw(f, resp)
  PROVE  seenHw' \in [Node -> Nat]
<1>1. resp.hw \in Nat /\ seenHw \in [Node -> Nat]
  BY DEF Responses, RepInv, MetaInv
<1> QED BY <1>1 DEF ObserveHw, MaxOf

\* A follower that drops its link after its logs have changed.
LEMMA DropLinkKeeps ==
  ASSUME RepInv, NEW f \in Followers, DropLink(f), LogInv', Grows,
         seenHw' \in [Node -> Nat],
         UNCHANGED <<meta, led, elog, sealed, reports, gate, client, acked>>
  PROVE  RepInv'
<1>1. wire' = [wire EXCEPT ![f] = << >>] /\ sess' = [sess EXCEPT ![f] = "off"]
  BY DEF DropLink
<1>2. f \in Node /\ f # Leader /\ LogInv
  BY DEF Followers, RepInv
<1>3. LinkInv'
  <2>1. /\ wire \in [Node -> Seq(Responses)]
        /\ \A h \in Node : \A j \in 1 .. Len(wire[h]) : RunOK(wire[h][j])
    BY DEF RepInv, LinkInv
  <2>2. wire' \in [Node -> Seq(Responses)]
    BY <2>1, <1>1, <1>2
  <2>3. \A h \in Node : \A j \in 1 .. Len(wire'[h]) : RunOK(wire'[h][j])
    BY <2>1, <1>1, <1>2
  <2>4. \A h \in Node : \A j \in 1 .. Len(wire'[h]) : RunOK(wire[h][j])'
    BY <2>3 DEF RunOK
  <2>5. \A m \in reports : m.off <= Width(m.from)'
    BY <1>2, ReportsStay DEF RepInv
  <2> QED BY <2>2, <2>4, <2>5 DEF RepInv, LinkInv
<1>4. MetaInv'
  BY <1>1, <1>2, MetaStays, ReplicationConstants DEF RepInv, MetaInv
<1>5. GateInv'
  BY <1>2, GateStays DEF RepInv, GateInv
<1> QED BY <1>2, <1>3, <1>4, <1>5, ClientStays, AckStays DEF RepInv

LEMMA TakeResponseKeeps ==
  ASSUME RepInv, NEW f \in Node, TakeResponse(f)
  PROVE  RepInv' /\ Grows
<1> DEFINE resp == Head(wire[f])
           log == rlog[f] \o resp.run
<1>1. f \in Followers /\ led[f] = Leader /\ f # Leader
  BY Roles DEF RepInv, TakeResponse, Followers
<1>2. /\ UNCHANGED <<meta, led, elog, sealed, frozen, failed, gate, client, acked>>
      /\ wire[f] # << >> /\ ObserveHw(f, resp)
  BY DEF TakeResponse
<1>3. /\ wire \in [Node -> Seq(Responses)] /\ wire[f] \in Seq(Responses)
      /\ \A h \in Node : \A j \in 1 .. Len(wire[h]) : RunOK(wire[h][j])
  BY DEF RepInv, LinkInv
<1>4. /\ resp \in Responses /\ RunOK(resp)
      /\ resp.run \in Seq(Records) /\ Len(resp.run) \in Nat
  BY <1>2, HeadOfWire
<1>5. seenHw' \in [Node -> Nat]
  BY <1>2, <1>4, ObserveKeeps
<1>6. /\ Tail(wire[f]) \in Seq(Responses)
      /\ \A j \in 1 .. Len(Tail(wire[f])) : RunOK(Tail(wire[f])[j])
  <2>1. /\ Tail(wire[f]) \in Seq(Responses)
        /\ \A j \in 1 .. Len(Tail(wire[f])) :
              Tail(wire[f])[j] = wire[f][j + 1] /\ j + 1 \in 1 .. Len(wire[f])
    BY <1>2, <1>3, HeadTailProperties
  <2> QED BY <2>1, <1>3
<1>7. LogInv /\ rlog \in [Node -> Seq(Records)] /\ synced \in [Node -> Nat]
      /\ Len(rlog[f]) \in Nat /\ rlog[f] \in Seq(Records)
  BY DEF RepInv, LogInv
<1>8. \/ /\ Continues(f, resp)
         /\ rlog' = [rlog EXCEPT ![f] = log]
         /\ synced' = [synced EXCEPT ![f] = IF resp.run = << >> THEN @ ELSE Len(log)]
         /\ wire' = [wire EXCEPT ![f] = Tail(wire[f])]
         /\ reports' = reports \cup {Report(f, log)}
         /\ sess' = sess
      \/ DropLink(f) /\ UNCHANGED <<rlog, synced, reports>>
  BY DEF TakeResponse
<1> HIDE DEF resp
<1>9. CASE /\ Continues(f, resp)
           /\ rlog' = [rlog EXCEPT ![f] = log]
           /\ synced' = [synced EXCEPT ![f] = IF resp.run = << >> THEN @ ELSE Len(log)]
           /\ wire' = [wire EXCEPT ![f] = Tail(wire[f])]
           /\ reports' = reports \cup {Report(f, log)}
           /\ sess' = sess
  <2>1. /\ Len(rlog[f]) + Len(resp.run) <= sealed[Leader]
        /\ \A i \in 1 .. Len(resp.run) : resp.run[i] = <<Leader, Len(rlog[f]) + i>>
    BY <1>1, <1>4, <1>9, ContinuingRun
  <2>2. /\ log \in Seq(Records) /\ Len(log) = Len(rlog[f]) + Len(resp.run) /\ Numbered(log)
    BY <2>1, <1>1, <1>4, <1>7, JoinedRun
  <2>3. rlog'[f] = log /\ Len(log) \in Nat
    BY <2>2, <1>7, <1>9
  <2>4. LogInv' /\ Grows
    <3>1. CASE resp.run = << >>
      <4>1. log = rlog[f]
        BY <3>1, <1>7, ConcatEmptySeq
      <4>2. rlog' = rlog /\ synced' = synced
        BY <4>1, <3>1, <1>7, <1>9
      <4> QED BY <4>2, <1>2, <1>7, LogsStay DEF logs, replica
    <3>2. CASE resp.run # << >>
      <4> DEFINE s == Len(log)
      <4>1. synced' = [synced EXCEPT ![f] = s] /\ rlog' = [rlog EXCEPT ![f] = log]
        BY <3>2, <1>9
      <4>2. synced[f] \in Nat /\ synced[f] <= Len(rlog[f])
        BY <1>7 DEF LogInv
      <4>3. synced[f] <= s /\ s \in Nat
        BY <4>2, <2>2, <2>3, <1>4, <1>7
      <4>4. /\ failed \subseteq failed' /\ failed' \subseteq Followers
            /\ frozen' \subseteq failed' /\ elog' = elog /\ sealed' = sealed
        BY <1>2, <1>7 DEF LogInv
      <4>5. Len(log) <= sealed[Leader]
        BY <2>1, <2>2
      <4>6. s = Len(log) /\ s <= Len(log)
        BY <4>3
      <4>7. log \in Seq(Records) /\ Numbered(log)
        BY <2>2
      <4> HIDE DEF log, s
      <4> QED BY <4>1, <4>3, <4>4, <4>5, <4>6, <4>7, <1>7, ReplacedKeepsLogs
    <3> QED BY <3>1, <3>2
  <2> DEFINE new == Report(f, log)
  <2>5. new = [to |-> Leader, from |-> f, off |-> Len(log)]
    BY <1>1 DEF Report
  <2>6. /\ new \in [to : {Leader}, from : Followers, off : Nat]
        /\ new.off = Len(log) /\ new.from = f
    <3> HIDE DEF log
    <3> QED BY <2>3, <2>5, <1>1
  <2>7. new.off <= Width(f)'
    <3>1. Len(rlog'[f]) <= Width(f)'
      BY <2>4, <1>1, <1>7, WidthGrows
    <3> QED BY <3>1, <2>3, <2>6
  <2> HIDE DEF new, log
  <2>8. LinkInv'
    <3>1. wire' \in [Node -> Seq(Responses)]
      BY <1>3, <1>6, <1>9
    <3>2. \A h \in Node : \A j \in 1 .. Len(wire'[h]) : RunOK(wire'[h][j])
      BY <1>3, <1>6, <1>9
    <3>3. \A h \in Node : \A j \in 1 .. Len(wire'[h]) : RunOK(wire[h][j])'
      BY <3>2, <1>2 DEF RunOK
    <3>4. reports' = reports \cup {new}
      BY <1>9 DEF new
    <3>5. reports' \subseteq [to : {Leader}, from : Followers, off : Nat]
      BY <3>4, <2>6 DEF RepInv, LinkInv
    <3>6. \A m \in reports : m.off <= Width(m.from)'
      BY <2>4, <1>7, ReportsStay DEF RepInv
    <3>7. \A m \in reports' : m.off <= Width(m.from)'
      BY <3>4, <3>6, <2>6, <2>7
    <3> QED BY <3>1, <3>3, <3>5, <3>7 DEF LinkInv
  <2>9. MetaInv'
    BY <2>4, <1>2, <1>5, <1>9, MetaStays DEF RepInv, MetaInv
  <2>10. GateInv'
    BY <2>4, <1>2, GateStays DEF RepInv, GateInv
  <2> QED BY <2>4, <2>8, <2>9, <2>10, <1>2, ClientStays, AckStays DEF RepInv
<1>10. CASE DropLink(f) /\ UNCHANGED <<rlog, synced, reports>>
  <2>1. UNCHANGED logs
    BY <1>2, <1>10 DEF logs, replica
  <2>2. LogInv' /\ Grows
    BY <2>1, <1>7, LogsStay
  <2> QED BY <2>2, <1>1, <1>2, <1>5, <1>10, DropLinkKeeps
<1> QED BY <1>8, <1>9, <1>10

\* A failed sync leaves a longer log, no more of it on disk, and is remembered.
LEMMA SyncFailsKeeps ==
  ASSUME RepInv, NEW f \in Node, NEW k \in Nat, SyncFails(f, k)
  PROVE  RepInv' /\ Grows
<1> DEFINE resp == Head(wire[f])
           run == SubSeq(resp.run, 1, k)
           new == rlog[f] \o run
<1>1. f \in Followers
  BY Roles DEF RepInv, SyncFails
<1>2. /\ UNCHANGED <<meta, led, elog, sealed, synced, reports, gate, client, acked>>
      /\ wire[f] # << >> /\ ObserveHw(f, resp) /\ Continues(f, resp)
      /\ k \in 0 .. Len(resp.run)
      /\ rlog' = [rlog EXCEPT ![f] = new]
      /\ frozen' = frozen \cup {f} /\ failed' = failed \cup {f}
      /\ DropLink(f)
  BY DEF SyncFails
<1>3. /\ resp \in Responses /\ RunOK(resp)
      /\ resp.run \in Seq(Records) /\ Len(resp.run) \in Nat
  BY <1>2, HeadOfWire
<1>4. seenHw' \in [Node -> Nat]
  BY <1>2, <1>3, ObserveKeeps
<1>5. LogInv /\ Len(rlog[f]) \in Nat /\ synced \in [Node -> Nat] /\ sealed[Leader] \in Nat
      /\ synced[f] \in Nat /\ synced[f] <= Len(rlog[f])
  <2>1. LogInv /\ Leader \in Node
    BY ReplicationConstants DEF RepInv
  <2>2. /\ rlog \in [Node -> Seq(Records)] /\ synced \in [Node -> Nat]
        /\ sealed \in [Node -> Nat] /\ synced[f] <= Len(rlog[f])
    BY <2>1 DEF LogInv
  <2> QED BY <2>1, <2>2
<1>6. /\ Len(rlog[f]) + Len(resp.run) <= sealed[Leader]
      /\ \A i \in 1 .. Len(resp.run) : resp.run[i] = <<Leader, Len(rlog[f]) + i>>
  BY <1>1, <1>2, <1>3, ContinuingRun
<1> HIDE DEF resp
<1>7. run \in Seq(Records) /\ Len(run) = k /\ \A i \in 1 .. k : run[i] = resp.run[i]
  <2>1. \A i \in 1 .. k : resp.run[i] \in Records
    BY <1>2, <1>3
  <2> QED BY <2>1, SubSeqProperties
<1> HIDE DEF run
<1>8. \A i \in 1 .. Len(run) : run[i] = <<Leader, Len(rlog[f]) + i>>
  <2>1. \A i \in 1 .. Len(run) : i \in 1 .. Len(resp.run) /\ run[i] = resp.run[i]
    BY <1>2, <1>3, <1>7
  <2> QED BY <2>1, <1>6
<1>9. new \in Seq(Records) /\ Len(new) = Len(rlog[f]) + Len(run) /\ Numbered(new)
  BY <1>1, <1>5, <1>7, <1>8, JoinedRun
<1>10. synced[f] <= Len(new) /\ Len(new) <= sealed[Leader]
  <2>1. k \in Nat /\ k <= Len(resp.run) /\ Len(new) = Len(rlog[f]) + k
    BY <1>2, <1>3, <1>7, <1>9
  <2>2. \A a, b, c, d, e \in Nat :
          e <= a /\ a + b <= c /\ d <= b => e <= a + d /\ a + d <= c
    OBVIOUS
  <2>3. synced[f] <= Len(rlog[f]) + k /\ Len(rlog[f]) + k <= sealed[Leader]
    BY <2>1, <2>2, <1>3, <1>5, <1>6
  <2> QED BY <2>1, <2>3
<1> HIDE DEF new
<1>11. LogInv' /\ Grows
  <2>1. synced' = [synced EXCEPT ![f] = synced[f]]
    BY <1>2, <1>5
  <2>2. /\ failed \subseteq failed' /\ failed' \subseteq Followers /\ frozen' \subseteq failed'
        /\ f \in failed'
    BY <1>1, <1>2, <1>5 DEF LogInv
  <2>3. elog' = elog /\ sealed' = sealed /\ rlog' = [rlog EXCEPT ![f] = new]
    BY <1>2
  <2>4. synced[f] <= synced[f]
    BY <1>5
  <2> DEFINE s == synced[f]
  <2>5. s \in Nat /\ synced[f] <= s /\ s <= Len(new) /\ synced' = [synced EXCEPT ![f] = s]
    BY <2>1, <2>4, <1>5, <1>10
  <2> HIDE DEF s
  <2> QED BY <2>2, <2>3, <2>5, <1>5, <1>9, <1>10, ReplacedKeepsLogs
<1> QED BY <1>1, <1>2, <1>4, <1>11, DropLinkKeeps

LEMMA BreakLinkKeeps ==
  ASSUME RepInv, NEW f \in Node, BreakLink(f)
  PROVE  RepInv' /\ Grows
<1>1. /\ UNCHANGED logs
      /\ UNCHANGED <<meta, led, seenHw, reports, gate, client, acked>>
      /\ wire' = [wire EXCEPT ![f] = << >>]
      /\ sess' = [sess EXCEPT ![f] = "off"]
  BY DEF BreakLink, DropLink
<1>2. LogInv' /\ Grows
  BY <1>1, LogsStay DEF RepInv
<1>3. LinkInv'
  <2>1. /\ wire \in [Node -> Seq(Responses)]
        /\ \A h \in Node : \A j \in 1 .. Len(wire[h]) : RunOK(wire[h][j])
    BY DEF RepInv, LinkInv
  <2>2. wire' \in [Node -> Seq(Responses)]
    BY <2>1, <1>1
  <2>3. \A h \in Node : \A j \in 1 .. Len(wire'[h]) : RunOK(wire'[h][j])
    BY <2>1, <1>1
  <2>4. \A h \in Node : \A j \in 1 .. Len(wire'[h]) : RunOK(wire[h][j])'
    BY <2>3, <1>1 DEF RunOK, logs
  <2>5. \A m \in reports : m.off <= Width(m.from)'
    BY <1>2, ReportsStay DEF RepInv
  <2> QED BY <2>2, <2>4, <2>5, <1>1 DEF RepInv, LinkInv
<1>4. MetaInv'
  BY <1>1, <1>2, MetaStays, ReplicationConstants DEF RepInv, MetaInv
<1>5. GateInv'
  BY <1>1, <1>2, GateStays DEF RepInv, GateInv
<1> QED BY <1>1, <1>2, <1>3, <1>4, <1>5, ClientStays, AckStays DEF RepInv

-----------------------------------------------------------------------------
(* The metadata group, crashes and restarts *)

LEMMA CheckpointKeeps ==
  ASSUME RepInv, NEW n \in Node, CheckpointCommittedHw(n)
  PROVE  RepInv' /\ Grows
<1>1. /\ UNCHANGED logs
      /\ UNCHANGED <<placement, known, led, seenHw, sess, wire, reports, gate, client, acked>>
      /\ n = Leader /\ OwnFrontier(n) > bar /\ bar' = OwnFrontier(n)
  BY DEF CheckpointCommittedHw, RepInv, MetaInv
<1>2. LogInv /\ LogInv' /\ Grows /\ (\A k : Held(k)' <=> Held(k))
  BY <1>1, LogsStay DEF RepInv
<1>3. OwnFrontier(n) = MaxOf(QuorumCommit(gate[Leader]), 0)
  BY <1>1 DEF OwnFrontier, Follows, RepInv, MetaInv
<1>4. bar \in Nat
  BY DEF RepInv, MetaInv
<1>5. bar' \in Nat /\ (bar' = 0 \/ Held(bar'))
  <2>1. CASE QuorumCommit(gate[Leader]) = NoQuorum
    BY <2>1, <1>1, <1>3, <1>4 DEF MaxOf, NoQuorum
  <2>2. CASE QuorumCommit(gate[Leader]) # NoQuorum
    <3>1. QuorumCommit(gate[Leader]) \in Nat /\ Held(QuorumCommit(gate[Leader]))
      BY <2>2, <1>2, QuorumIsHeld DEF RepInv, GateInv
    <3>2. bar' = QuorumCommit(gate[Leader])
      BY <3>1, <1>1, <1>3 DEF MaxOf
    <3> QED BY <3>1, <3>2
  <2> QED BY <2>1, <2>2
<1>6. MetaInv'
  <2>1. bar' = 0 \/ Held(bar)'
    <3>1. PICK b : b = bar'
      OBVIOUS
    <3>2. b = 0 \/ Held(b)'
      BY <3>1, <1>2, <1>5
    <3> QED BY <3>1, <3>2 DEF Held, Width
  <2> QED BY <2>1, <1>1, <1>5 DEF RepInv, MetaInv
<1>7. GateInv'
  BY <1>1, <1>2, GateStays DEF RepInv, GateInv
<1> QED BY <1>1, <1>2, <1>6, <1>7, ClientStays, AckStays, LinkStays DEF RepInv

LEMMA LearnKeeps ==
  ASSUME RepInv, NEW n \in Node, LearnBar(n)
  PROVE  RepInv' /\ Grows
<1>1. /\ UNCHANGED logs
      /\ UNCHANGED <<placement, bar, led, seenHw, sess, wire, reports, gate, client, acked>>
      /\ known' = [known EXCEPT ![n] = bar]
  BY DEF LearnBar
<1>2. LogInv /\ LogInv' /\ Grows /\ (\A k : Held(k)' <=> Held(k))
  BY <1>1, LogsStay DEF RepInv
<1>3. bar = 0 \/ Held(bar)'
  BY <1>1, <1>2, HeldStays DEF RepInv, MetaInv
<1>4. MetaInv'
  BY <1>1, <1>3 DEF RepInv, MetaInv
<1>5. GateInv'
  BY <1>1, <1>2, GateStays DEF RepInv, GateInv
<1> QED BY <1>1, <1>2, <1>4, <1>5, ClientStays, AckStays, LinkStays DEF RepInv

LEMMA RestartKeeps ==
  ASSUME RepInv, NEW n \in Node, Restart(n)
  PROVE  RepInv' /\ Grows
<1> DEFINE fresh == FreshGate(n, Node, Len(elog[n]))
<1>1. /\ UNCHANGED logs
      /\ UNCHANGED <<placement, bar, sess, wire, reports, client, acked>>
      /\ led' = [led EXCEPT ![n] = Leader]
      /\ known' = [known EXCEPT ![n] = 0]
      /\ seenHw' = [seenHw EXCEPT ![n] = Len(rlog[n])]
      /\ gate' = [gate EXCEPT ![n] = fresh]
  BY DEF Restart, RepInv, MetaInv
<1>2. LogInv /\ LogInv' /\ Grows /\ (\A k : Held(k)' <=> Held(k))
  BY <1>1, LogsStay DEF RepInv
<1>3. Len(elog[n]) \in Nat /\ Len(rlog[n]) \in Nat
  BY <1>2 DEF LogInv
<1>4. bar = 0 \/ Held(bar)'
  BY <1>1, <1>2, HeldStays DEF RepInv, MetaInv
<1>5. MetaInv'
  BY <1>1, <1>3, <1>4 DEF RepInv, MetaInv
<1>6. /\ fresh \in Gates /\ fresh.own = Len(elog[n]) /\ fresh.pending = {} /\ fresh.through = 0
      /\ fresh.peer = [f \in Node \ {n} |-> 0]
  <2> DEFINE zero == [f \in Node \ {n} |-> 0]
  <2>1. zero \in [Node \ {n} -> Nat] /\ Node \ {n} \in SUBSET Node
    OBVIOUS
  <2>2. zero \in UNION {[S -> Nat] : S \in SUBSET Node}
    BY <2>1
  <2>3. fresh = [own |-> Len(elog[n]), peer |-> zero, pending |-> {}, next |-> 0, through |-> 0]
    BY DEF FreshGate
  <2> HIDE DEF zero, fresh
  <2>4. /\ fresh \in Gates /\ fresh.own = Len(elog[n]) /\ fresh.pending = {}
        /\ fresh.through = 0 /\ fresh.peer = zero
    BY <2>2, <2>3, <1>3 DEF Gates
  <2> QED BY <2>4 DEF zero
<1>7. n = Leader => GateOK(fresh)
  <2> SUFFICES ASSUME n = Leader PROVE GateOK(fresh)
    OBVIOUS
  <2>1. fresh.peer \in [Followers -> Nat] /\ \A f \in Followers : fresh.peer[f] = 0
    BY <1>6 DEF Followers
  <2>2. \A f \in Followers : fresh.peer[f] <= Width(f)
    BY <2>1, <1>2, WidthType DEF Followers
  <2>3. IsFiniteSet(fresh.pending)
    BY <1>6, FS_EmptySet
  <2> HIDE DEF fresh
  <2> QED BY <1>3, <1>6, <2>1, <2>2, <2>3 DEF GateOK
<1> HIDE DEF fresh
<1>8. GateInv'
  <2>1. PICK h : h = fresh
    OBVIOUS
  <2>2. gate \in [Node -> Gates] /\ GateOK(gate[Leader])
    BY DEF RepInv, GateInv
  <2>3. gate' \in [Node -> Gates]
    BY <2>2, <1>1, <1>6
  <2>4. CASE n = Leader
    <3>1. GateOK(h)'
      BY <2>1, <2>4, <1>2, <1>7, GateStays
    <3>2. gate'[Leader] = h
      BY <2>1, <2>2, <2>4, <1>1
    <3> QED BY <3>1, <3>2, <2>3 DEF GateInv
  <2>5. CASE n # Leader
    <3>1. gate'[Leader] = gate[Leader]
      BY <2>2, <2>5, <1>1, ReplicationConstants
    <3>2. PICK j : j = gate[Leader]
      OBVIOUS
    <3>3. GateOK(j)'
      BY <3>2, <2>2, <1>2, GateStays
    <3> QED BY <3>1, <3>2, <3>3, <2>3 DEF GateInv
  <2> QED BY <2>4, <2>5
<1> QED BY <1>1, <1>2, <1>5, <1>8, ClientStays, AckStays, LinkStays DEF RepInv

LEMMA CrashKeeps ==
  ASSUME RepInv, NEW n \in Node, NEW k \in Nat, Crash(n, k)
  PROVE  RepInv' /\ Grows
<1> DEFINE resp == Head(wire[n])
<1> DEFINE goes == Follows(n) /\ n \notin frozen /\ sess[n] = "steady" /\ wire[n] # << >>
                   /\ resp.first = Len(rlog[n])
<1> DEFINE batch == IF goes THEN resp.run ELSE << >>
<1> DEFINE tail == rlog[n] \o batch
<1> DEFINE links == {f \in Node : f = n \/ led[f] = n}
<1>1. /\ UNCHANGED <<meta, led, elog, sealed, failed, seenHw, gate, acked>>
      /\ k \in synced[n] .. Len(tail)
      /\ rlog' = [rlog EXCEPT ![n] = SubSeq(tail, 1, k)]
      /\ synced' = [synced EXCEPT ![n] = k]
      /\ frozen' = frozen \ {n}
      /\ sess' = [f \in Node |-> IF f \in links THEN "off" ELSE sess[f]]
      /\ wire' = [f \in Node |-> IF f \in links THEN << >> ELSE wire[f]]
      /\ reports' = {m \in reports : m.to # n}
      /\ client' = [client EXCEPT ![n] = [c \in Conn |-> NoClient]]
  BY DEF Crash
<1>2. /\ wire \in [Node -> Seq(Responses)] /\ LogInv /\ rlog[n] \in Seq(Records)
      /\ \A h \in Node : \A j \in 1 .. Len(wire[h]) : RunOK(wire[h][j])
  BY DEF RepInv, LinkInv, LogInv
<1>3. LogInv' /\ Grows
  <2>1. /\ tail \in Seq(Records)
        /\ n \in Followers => Numbered(tail) /\ Len(tail) <= sealed[Leader]
    <3>1. CASE goes
      <4>1. n \in Followers
        BY <3>1, Roles DEF RepInv
      <4>2. resp \in Responses /\ RunOK(resp) /\ resp.run \in Seq(Records)
        BY <3>1, HeadOfWire
      <4>3. batch = resp.run /\ resp.first = Len(rlog[n])
        BY <3>1
      <4>4. Continues(n, resp)
        BY <4>3 DEF Continues
      <4> HIDE DEF resp
      <4>5. /\ Len(rlog[n]) + Len(resp.run) <= sealed[Leader]
            /\ \A i \in 1 .. Len(resp.run) : resp.run[i] = <<Leader, Len(rlog[n]) + i>>
        BY <4>1, <4>2, <4>4, ContinuingRun
      <4>6. /\ rlog[n] \o resp.run \in Seq(Records) /\ Numbered(rlog[n] \o resp.run)
            /\ Len(rlog[n] \o resp.run) = Len(rlog[n]) + Len(resp.run)
        BY <4>1, <4>2, <4>5, <1>2, JoinedRun
      <4>7. tail = rlog[n] \o resp.run
        BY <4>3
      <4> HIDE DEF tail
      <4> QED BY <4>5, <4>6, <4>7
    <3>2. CASE ~goes
      <4>1. batch = << >>
        BY <3>2
      <4>2. tail = rlog[n]
        BY <4>1, <1>2, ConcatEmptySeq
      <4> HIDE DEF tail
      <4> QED BY <4>2, <1>2 DEF LogInv
    <3> QED BY <3>1, <3>2
  <2> DEFINE new == SubSeq(tail, 1, k)
  <2>2. Len(tail) \in Nat /\ synced[n] \in Nat
    BY <2>1, <1>2 DEF LogInv
  <2>3. k \in 0 .. Len(tail) /\ synced[n] <= k
    <3>1. k \in synced[n] .. Len(tail)
      BY <1>1
    <3> HIDE DEF tail
    <3> QED BY <2>2, <3>1
  <2> HIDE DEF tail
  <2>4. new \in Seq(Records) /\ Len(new) = k
    <3>1. \A i \in 1 .. k : tail[i] \in Records
      BY <2>1, <2>2, <2>3
    <3> QED BY <3>1, SubSeqProperties
  <2>5. n \in Followers => Numbered(new) /\ Len(new) <= sealed[Leader]
    <3> SUFFICES ASSUME n \in Followers PROVE Numbered(new) /\ Len(new) <= sealed[Leader]
      OBVIOUS
    <3>1. Numbered(new)
      BY <2>1, <2>3, PrefixNumbered
    <3>2. sealed[Leader] \in Nat
      BY <1>2, ReplicationConstants DEF LogInv
    <3> HIDE DEF new
    <3> QED BY <3>1, <3>2, <2>1, <2>2, <2>3, <2>4
  <2>6. /\ failed \subseteq failed' /\ failed' \subseteq Followers /\ frozen' \subseteq failed'
        /\ elog' = elog /\ sealed' = sealed
    BY <1>1, <1>2 DEF LogInv
  <2>7. rlog' = [rlog EXCEPT ![n] = new] /\ synced' = [synced EXCEPT ![n] = k]
    BY <1>1
  <2> HIDE DEF new
  <2>8. k <= Len(new) /\ k = Len(new)
    BY <2>4
  <2> QED BY <2>3, <2>4, <2>5, <2>6, <2>7, <2>8, <1>2, ReplacedKeepsLogs
<1>4. LinkInv'
  <2>1. wire' \in [Node -> Seq(Responses)]
    BY <1>1, <1>2
  <2>2. \A h \in Node : \A j \in 1 .. Len(wire'[h]) : RunOK(wire'[h][j])
    BY <1>1, <1>2
  <2>3. \A h \in Node : \A j \in 1 .. Len(wire'[h]) : RunOK(wire[h][j])'
    BY <2>2, <1>1 DEF RunOK
  <2>4. \A m \in reports : m.off <= Width(m.from)'
    BY <1>2, <1>3, ReportsStay DEF RepInv
  <2> QED BY <2>1, <2>3, <2>4, <1>1 DEF RepInv, LinkInv
<1>5. ClientInv'
  <2>1. NoClient \in Clients /\ NoClient.due = << >> /\ NoClient.out = {}
    BY DEF NoClient, Clients
  <2>2. CASE n # Leader
    <3>2. client \in [Node -> [Conn -> Clients]]
      BY DEF RepInv, ClientInv
    <3>3. client' \in [Node -> [Conn -> Clients]] /\ client'[Leader] = client[Leader]
      BY <3>2, <2>1, <2>2, <1>1, ReplicationConstants
    <3>4. ASSUME NEW c \in Conn
          PROVE  /\ \A i \in 1 .. Len(client[Leader][c].due) :
                       client[Leader][c].due[i] < Len(elog'[Leader])
                 /\ IsFiniteSet(client[Leader][c].out)
                 /\ \A p \in client[Leader][c].out :
                       p.off < Len(elog'[Leader]) /\ Held(p.off + 1)'
      <4>1. client[Leader][c] \in Clients
        BY <3>2, ReplicationConstants
      <4>2. \A p \in client[Leader][c].out : p.off \in Nat /\ p.off + 1 \in Nat
        BY <4>1 DEF Clients, ParkedAcks
      <4>3. elog' = elog
        BY <1>1
      <4>4. \A p \in client[Leader][c].out : Held(p.off + 1)'
        BY <4>2, <1>2, <1>3, HeldStays DEF RepInv, ClientInv
      <4> QED BY <4>3, <4>4 DEF RepInv, ClientInv
    <3> QED BY <3>3, <3>4 DEF ClientInv
  <2>3. CASE n = Leader
    <3>1. client \in [Node -> [Conn -> Clients]]
      BY DEF RepInv, ClientInv
    <3>2. client' \in [Node -> [Conn -> Clients]] /\ \A c \in Conn : client'[Leader][c] = NoClient
      BY <3>1, <2>1, <2>3, <1>1
    <3>3. Len(NoClient.due) = 0 /\ IsFiniteSet(NoClient.out)
      BY <2>1, FS_EmptySet
    <3>4. \A c \in Conn : /\ Len(client'[Leader][c].due) = 0
                          /\ IsFiniteSet(client'[Leader][c].out)
                          /\ client'[Leader][c].out = {}
      BY <2>1, <3>2, <3>3
    <3> QED BY <3>2, <3>4 DEF ClientInv
  <2> QED BY <2>2, <2>3
<1>6. MetaInv'
  <2>1. sess' \in [Node -> {"off", "adopt", "steady"}] /\ sess'[Leader] = "off"
    BY <1>1, ReplicationConstants DEF RepInv, MetaInv
  <2> QED BY <2>1, <1>1, <1>2, <1>3, MetaStays DEF RepInv, MetaInv
<1>7. GateInv'
  BY <1>1, <1>2, <1>3, GateStays DEF RepInv, GateInv
<1> QED BY <1>1, <1>2, <1>3, <1>4, <1>5, <1>6, <1>7, AckStays DEF RepInv

-----------------------------------------------------------------------------
(* The theorems *)

LEMMA InitHolds == Init => RepInv
<1> SUFFICES ASSUME Init PROVE RepInv
  OBVIOUS
<1>1. /\ elog = [n \in Node |-> << >>] /\ rlog = [n \in Node |-> << >>]
      /\ sealed = [n \in Node |-> 0] /\ Leader \in Node
      /\ synced = [n \in Node |-> 0] /\ frozen = {} /\ failed = {}
  BY ReplicationConstants DEF Init
<1>2. \A n \in Node : elog[n] = << >> /\ rlog[n] = << >> /\ sealed[n] = 0 /\ synced[n] = 0
  BY <1>1
<1>3. LogInv
  BY <1>1, <1>2 DEF LogInv, Numbered, Followers
<1>4. MetaInv
  BY ReplicationConstants DEF Init, MetaInv
<1>5. LinkInv
  <2>1. wire = [n \in Node |-> << >>] /\ reports = {}
    BY DEF Init
  <2>2. \A f \in Node : Len(wire[f]) = 0
    BY <2>1
  <2> QED BY <2>1, <2>2 DEF LinkInv
<1>6. GateInv
  <2>1. gate = [n \in Node |-> FreshGate(n, Node, 0)]
    BY DEF Init
  <2>2. ASSUME NEW n \in Node
        PROVE  /\ gate[n] \in Gates /\ gate[n].own = 0 /\ gate[n].pending = {}
               /\ gate[n].through = 0 /\ gate[n].peer = [f \in Node \ {n} |-> 0]
    <3> DEFINE zero == [f \in Node \ {n} |-> 0]
    <3>1. zero \in [Node \ {n} -> Nat] /\ Node \ {n} \in SUBSET Node
      OBVIOUS
    <3>2. zero \in UNION {[S -> Nat] : S \in SUBSET Node}
      BY <3>1
    <3>3. gate[n] = [own |-> 0, peer |-> zero, pending |-> {}, next |-> 0, through |-> 0]
      BY <2>1 DEF FreshGate
    <3> HIDE DEF zero
    <3>4. /\ gate[n] \in Gates /\ gate[n].own = 0 /\ gate[n].pending = {}
          /\ gate[n].through = 0 /\ gate[n].peer = zero
      BY <3>2, <3>3 DEF Gates
    <3> QED BY <3>4 DEF zero
  <2>3. gate \in [Node -> Gates]
    BY <2>1, <2>2
  <2>4. /\ gate[Leader].peer \in [Followers -> Nat]
        /\ \A f \in Followers : gate[Leader].peer[f] = 0
    <3>1. gate[Leader].peer = [f \in Followers |-> 0]
      BY <1>1, <2>2 DEF Followers
    <3> QED BY <3>1
  <2>5. Len(elog[Leader]) = 0 /\ \A f \in Followers : Width(f) \in Nat
    BY <1>1, <1>2, <1>3, WidthType DEF Followers
  <2>6. IsFiniteSet(gate[Leader].pending)
    BY <1>1, <2>2, FS_EmptySet
  <2>7. GateOK(gate[Leader])
    <3>1. /\ gate[Leader] \in Gates /\ gate[Leader].own = 0
          /\ gate[Leader].pending = {} /\ gate[Leader].through = 0
      BY <1>1, <2>2
    <3>2. gate[Leader].own <= Len(elog[Leader])
      BY <3>1, <2>5
    <3>3. \A f \in Followers : gate[Leader].peer[f] <= Width(f)
      BY <2>4, <2>5
    <3> QED BY <3>1, <3>2, <3>3, <2>4, <2>6 DEF GateOK
  <2> QED BY <2>3, <2>7 DEF GateInv
<1>7. ClientInv
  <2>1. NoClient \in Clients /\ NoClient.due = << >> /\ NoClient.out = {}
    BY DEF NoClient, Clients
  <2>2. client = [n \in Node |-> [c \in Conn |-> NoClient]]
    BY DEF Init
  <2>3. client \in [Node -> [Conn -> Clients]] /\ \A c \in Conn : client[Leader][c] = NoClient
    BY <1>1, <2>1, <2>2
  <2>4. Len(NoClient.due) = 0 /\ IsFiniteSet(NoClient.out)
    BY <2>1, FS_EmptySet
  <2>5. \A c \in Conn : /\ Len(client[Leader][c].due) = 0
                        /\ IsFiniteSet(client[Leader][c].out)
                        /\ client[Leader][c].out = {}
    BY <2>1, <2>3, <2>4
  <2> QED BY <2>3, <2>5 DEF ClientInv
<1>8. AckInv
  BY DEF Init, AckInv
<1> QED BY <1>3, <1>4, <1>5, <1>6, <1>7, <1>8 DEF RepInv

LEMMA StepKeeps == RepInv /\ [Next]_vars => RepInv' /\ Grows
<1> SUFFICES ASSUME RepInv, [Next]_vars PROVE RepInv' /\ Grows
  OBVIOUS
<1>1. CASE UNCHANGED vars
  <2>1. UNCHANGED logs /\ UNCHANGED meta /\ UNCHANGED led /\ seenHw' = seenHw /\ sess' = sess
        /\ wire' = wire /\ reports' = reports /\ gate' = gate /\ client' = client /\ acked' = acked
    BY <1>1 DEF vars, logs, replica, meta
  <2>2. LogInv' /\ Grows
    BY <2>1, LogsStay DEF RepInv
  <2>3. MetaInv'
    BY <2>1, <2>2, MetaStays DEF RepInv, MetaInv
  <2>4. GateInv'
    BY <2>1, <2>2, GateStays DEF RepInv, GateInv
  <2> QED BY <2>1, <2>2, <2>3, <2>4, ClientStays, AckStays, LinkStays DEF RepInv
<1>2. ASSUME NEW n \in Node, NEW c \in Conn, ClientStep(n, c) PROVE RepInv' /\ Grows
  BY <1>2, ProduceKeeps, RetryKeeps, PresentKeeps, DrainKeeps, DropKeeps DEF ClientStep
<1>3. ASSUME NEW f \in Node, FollowerStep(f) PROVE RepInv' /\ Grows
  BY <1>3, ConnectKeeps, AdoptKeeps, FetchKeeps, TakeResponseKeeps, SyncFailsKeeps,
     BreakLinkKeeps DEF FollowerStep
<1>4. ASSUME NEW m \in reports, TakeReport(m) \/ LoseReport(m) PROVE RepInv' /\ Grows
  BY <1>4, TakeReportKeeps, LoseReportKeeps
<1>5. ASSUME NEW n \in Node, NodeStep(n) PROVE RepInv' /\ Grows
  <2>1. \A k \in 0 .. MaxRecords : k \in Nat
    BY ReplicationConstants
  <2> QED BY <2>1, <1>5, FireAndForgetKeeps, CheckpointKeeps, LearnKeeps, CrashKeeps, RestartKeeps
         DEF NodeStep
<1> QED BY <1>1, <1>2, <1>3, <1>4, <1>5 DEF Next

\* Every copy that reaches an offset holds the leader's records up to it on
\* disk, or failed an fsync.
LEMMA ReachingIsHolding ==
  ASSUME RepInv, NEW k \in Nat, Held(k)
  PROVE  /\ Cardinality(HoldersUpTo(k) \cup failed) >= MinIsr
         /\ k # 0 => Cardinality(HoldersOf(<<Leader, k>>) \cup failed) >= MinIsr
<1> DEFINE W == {n \in Node : k <= Width(n)}
<1>1. Cardinality(W) >= MinIsr
  BY DEF Held
<1>2. /\ placement.replicas = Node /\ placement.leader = Leader /\ LogInv
      /\ failed \subseteq Node
  BY DEF RepInv, MetaInv, LogInv, Followers
<1>3. ASSUME NEW n \in W, n \notin failed
      PROVE  /\ OnDisk(n) \in Seq(Records) /\ k <= Len(OnDisk(n)) /\ Len(OnDisk(n)) \in Nat
             /\ \A i \in 1 .. k : OnDisk(n)[i] = <<Leader, i>>
  <2>1. CASE n = Leader
    <3>1. OnDisk(n) = elog[Leader] /\ k <= Len(elog[Leader])
      BY <2>1, <1>2 DEF OnDisk, Width
    <3>2. /\ elog[Leader] \in Seq(Records) /\ Len(elog[Leader]) \in Nat
          /\ Numbered(elog[Leader])
      BY <1>2, ReplicationConstants DEF LogInv
    <3>3. \A i \in 1 .. k : i \in 1 .. Len(elog[Leader])
      BY <3>1, <3>2
    <3>4. \A i \in 1 .. k : elog[Leader][i] = <<Leader, i>>
      BY <3>2, <3>3 DEF Numbered
    <3> QED BY <3>1, <3>2, <3>4
  <2>2. CASE n # Leader
    <3>1. n \in Followers /\ k <= synced[n]
      BY <2>2, <1>3 DEF Width, Followers
    <3>2. /\ rlog[n] \in Seq(Records) /\ Numbered(rlog[n]) /\ Len(rlog[n]) \in Nat
          /\ synced[n] \in 0 .. Len(rlog[n]) /\ synced[n] \in Nat
      BY <3>1, <1>2 DEF LogInv, Followers
    <3> DEFINE b == SubSeq(rlog[n], 1, synced[n])
    <3>3. b \in Seq(Records) /\ Len(b) = synced[n] /\ Numbered(b)
      BY <3>2, PrefixNumbered
    <3>4. OnDisk(n) = b
      BY <2>2, <1>2 DEF OnDisk
    <3> HIDE DEF b
    <3>5. \A i \in 1 .. k : i \in 1 .. Len(b)
      BY <3>1, <3>2, <3>3
    <3>6. \A i \in 1 .. k : b[i] = <<Leader, i>>
      BY <3>3, <3>5 DEF Numbered
    <3> QED BY <3>1, <3>2, <3>3, <3>4, <3>6
  <2> QED BY <2>1, <2>2
<1>4. k <= Len(elog[Leader]) \/ W = {}
  <2>1. Len(elog[Leader]) \in Nat
    BY <1>2, ReplicationConstants DEF LogInv
  <2>2. \A n \in Node : Width(n) \in Nat /\ Width(n) <= Len(elog[Leader])
    BY <1>2, WidthType
  <2> QED BY <2>1, <2>2
<1>5. W \subseteq HoldersUpTo(k) \cup failed
  <2> SUFFICES ASSUME NEW n \in W, n \notin failed PROVE n \in HoldersUpTo(k)
    OBVIOUS
  <2>1. elog[Leader] \in Seq(Records) /\ Len(elog[Leader]) \in Nat /\ k <= Len(elog[Leader])
        /\ \A i \in 1 .. k : elog[Leader][i] = <<Leader, i>>
    <3>1. /\ elog[Leader] \in Seq(Records) /\ Len(elog[Leader]) \in Nat
          /\ Numbered(elog[Leader])
      BY <1>2, ReplicationConstants DEF LogInv
    <3>2. k <= Len(elog[Leader])
      BY <1>4
    <3>3. \A i \in 1 .. k : i \in 1 .. Len(elog[Leader])
      BY <3>1, <3>2
    <3>4. \A i \in 1 .. k : elog[Leader][i] = <<Leader, i>>
      BY <3>1, <3>3 DEF Numbered
    <3> QED BY <3>1, <3>2, <3>4
  <2>2. SubSeq(OnDisk(n), 1, k) = SubSeq(elog[Leader], 1, k)
    <3> DEFINE a == SubSeq(OnDisk(n), 1, k)
    <3> DEFINE b == SubSeq(elog[Leader], 1, k)
    <3>1. \A i \in 1 .. k : OnDisk(n)[i] \in Records /\ elog[Leader][i] \in Records
      BY <2>1, <1>3
    <3>2. /\ a \in Seq(Records) /\ Len(a) = k /\ \A i \in 1 .. k : a[i] = OnDisk(n)[i]
      BY <3>1, SubSeqProperties
    <3>3. /\ b \in Seq(Records) /\ Len(b) = k /\ \A i \in 1 .. k : b[i] = elog[Leader][i]
      BY <3>1, SubSeqProperties
    <3> HIDE DEF a, b
    <3>4. \A i \in 1 .. k : a[i] = b[i]
      BY <3>2, <3>3, <2>1, <1>3
    <3>5. a = b
      BY <3>2, <3>3, <3>4, SeqEqual
    <3> QED BY <3>5 DEF a, b
  <2> QED BY <2>2, <1>2, <1>3 DEF HoldersUpTo
<1>6. k # 0 => W \subseteq HoldersOf(<<Leader, k>>) \cup failed
  <2> SUFFICES ASSUME k # 0, NEW n \in W, n \notin failed
               PROVE  n \in HoldersOf(<<Leader, k>>)
    OBVIOUS
  <2> QED BY <1>2, <1>3 DEF HoldersOf
<1>7. MinIsr \in Nat /\ IsFiniteSet(Node)
  BY ReplicationConstants
<1>8. ASSUME NEW S \in SUBSET Node, W \subseteq S PROVE Cardinality(S) >= MinIsr
  <2>1. IsFiniteSet(S) /\ IsFiniteSet(W)
    BY <1>7, FS_Subset
  <2>2. Cardinality(W) <= Cardinality(S) /\ Cardinality(W) \in Nat /\ Cardinality(S) \in Nat
    BY <1>8, <2>1, FS_Subset, FS_CardinalityType
  <2> QED BY <2>2, <1>1, <1>7
<1>9. /\ HoldersUpTo(k) \cup failed \in SUBSET Node
      /\ HoldersOf(<<Leader, k>>) \cup failed \in SUBSET Node
  BY <1>2 DEF HoldersUpTo, HoldersOf
<1> QED BY <1>5, <1>6, <1>8, <1>9

\* A producer is told its record is quorum-durable only if min_isr replicas hold
\* it on disk, those that failed an fsync aside, in every cluster and whatever
\* the number of faults.
THEOREM NoFalseAckHolds == Spec => []NoFalseAck
<1>1. RepInv => NoFalseAck
  <2> SUFFICES ASSUME RepInv, NEW r \in acked
               PROVE  Cardinality(HoldersOf(r) \cup failed) >= MinIsr
    BY DEF NoFalseAck
  <2>1. PICK k \in 1 .. Len(elog[Leader]) : r = <<Leader, k>> /\ Held(k)
    BY DEF RepInv, AckInv
  <2>2. k \in Nat /\ k # 0
    BY <2>1
  <2> QED BY <2>1, <2>2, ReachingIsHolding
<1> QED BY <1>1, InitHolds, StepKeeps, PTL DEF Spec

\* What the leader calls committed, min_isr replicas hold on disk, those that
\* failed an fsync aside.
THEOREM CommitIsHeldHolds == Spec => []CommitIsHeld
<1>1. RepInv => CommitIsHeld
  <2> SUFFICES ASSUME RepInv,
                      NEW k \in {bar} \cup {gate[n].through : n \in {m \in Node : Leads(m)}},
                      k # 0
               PROVE  Cardinality(HoldersUpTo(k) \cup failed) >= MinIsr
    BY DEF CommitIsHeld
  <2>1. k = bar \/ k = gate[Leader].through
    BY Roles DEF RepInv
  <2>2. k \in Nat /\ Held(k)
    BY <2>1 DEF RepInv, MetaInv, GateInv, GateOK, Gates
  <2> QED BY <2>2, ReachingIsHolding
<1> QED BY <1>1, InitHolds, StepKeeps, PTL DEF Spec

\* While no replica has failed an fsync, a released ack is what
\* CLUSTER_INVARIANTS.md promises: min_isr replicas have the record on disk.
THEOREM QuorumFsyncUnlessFailed == Spec => [](failed = {} => AckImpliesQuorumFsync)
<1>1. NoFalseAck => (failed = {} => AckImpliesQuorumFsync)
  <2> SUFFICES ASSUME NoFalseAck, failed = {}, NEW r \in acked
               PROVE  Cardinality(HoldersOf(r)) >= MinIsr
    BY DEF AckImpliesQuorumFsync
  <2>1. HoldersOf(r) \cup failed = HoldersOf(r)
    OBVIOUS
  <2> QED BY <2>1 DEF NoFalseAck
<1> QED BY <1>1, NoFalseAckHolds, PTL

\* A follower's log is always a prefix of what its leader has sealed.
THEOREM FollowerIsPrefixHolds == Spec => []FollowerIsPrefix
<1>1. RepInv => FollowerIsPrefix
  <2> SUFFICES ASSUME RepInv, NEW f \in Followers
               PROVE  /\ Len(rlog[f]) <= sealed[Leader]
                      /\ rlog[f] = SubSeq(elog[Leader], 1, Len(rlog[f]))
    BY DEF FollowerIsPrefix, Followers
  <2> DEFINE k == Len(rlog[f])
  <2>1. /\ rlog[f] \in Seq(Records) /\ elog[Leader] \in Seq(Records) /\ k \in Nat
        /\ k <= sealed[Leader] /\ sealed[Leader] \in Nat /\ Len(elog[Leader]) \in Nat
        /\ sealed[Leader] <= Len(elog[Leader])
        /\ Numbered(rlog[f]) /\ Numbered(elog[Leader])
    BY ReplicationConstants DEF RepInv, LogInv, Followers
  <2>2. \A i \in 1 .. k : elog[Leader][i] \in Records /\ elog[Leader][i] = rlog[f][i]
    <3> SUFFICES ASSUME NEW i \in 1 .. k
                 PROVE  elog[Leader][i] \in Records /\ elog[Leader][i] = rlog[f][i]
      OBVIOUS
    <3>1. i \in 1 .. Len(elog[Leader]) /\ i \in 1 .. Len(rlog[f])
      BY <2>1
    <3>2. elog[Leader][i] = <<Leader, i>> /\ rlog[f][i] = <<Leader, i>>
      BY <3>1, <2>1 DEF Numbered
    <3>3. elog[Leader][i] \in Records
      BY <3>1, <2>1
    <3> QED BY <3>2, <3>3
  <2> DEFINE b == SubSeq(elog[Leader], 1, k)
  <2>3. b \in Seq(Records) /\ Len(b) = k /\ \A i \in 1 .. k : b[i] = elog[Leader][i]
    BY <2>1, <2>2, SubSeqProperties
  <2> HIDE DEF b
  <2>4. rlog[f] = b
    BY <2>1, <2>2, <2>3, SeqEqual
  <2> QED BY <2>1, <2>4 DEF b
<1> QED BY <1>1, InitHolds, StepKeeps, PTL DEF Spec

\* While the leader stays no adopt check, restart or late response makes a
\* follower give up a record it has fsync'd.
THEOREM FollowerNeverShrinksHolds == Spec => FollowerNeverShrinks
<1>1. RepInv /\ [Next]_vars => [\A f \in Node : synced'[f] >= synced[f]]_vars
  <2> SUFFICES ASSUME RepInv, [Next]_vars, NEW f \in Node
               PROVE  synced'[f] >= synced[f]
    OBVIOUS
  <2>1. Grows /\ LogInv /\ LogInv'
    BY StepKeeps DEF RepInv
  <2>2. synced[f] \in Nat /\ synced'[f] \in Nat
    BY <2>1 DEF LogInv
  <2> QED BY <2>1, <2>2 DEF Grows
<1> QED BY <1>1, InitHolds, StepKeeps, PTL DEF Spec, FollowerNeverShrinks

-----------------------------------------------------------------------------
(* The bounds *)

\* The bounds that the safety proofs do not need.
LogsSmall ==
    /\ Len(elog[Leader]) <= MaxRecords
    /\ Len(rlog[Leader]) = 0
    /\ \A f \in Followers : Len(elog[f]) = 0 /\ sealed[f] = 0

SeenSmall == \A n \in Node : known[n] <= MaxRecords /\ seenHw[n] <= MaxRecords

WiresSmall ==
    \A n \in Node : /\ Len(wire[n]) <= MaxWire
                    /\ \A j \in 1 .. Len(wire[n]) : wire[n][j].hw <= MaxRecords

\* A gate parks at most Cap acks, under tokens it has given out.
Parks(g) == Cardinality(g.pending) <= Cap /\ \A p \in g.pending : p.token <= g.next

GatesSmall ==
    /\ \A f \in Followers : gate[f] = FreshGate(f, Node, 0)
    /\ Parks(gate[Leader])

RestSmall == up \in [Node -> BOOLEAN] /\ faults \in 0 .. MaxFaults

SizeInv == LogsSmall /\ SeenSmall /\ WiresSmall /\ GatesSmall /\ RestSmall

\* The bounds are numbers.
LEMMA Bounds ==
  /\ MaxLag \in Nat /\ Cap \in Nat /\ MaxRecords \in Nat /\ MaxWire \in Nat
  /\ MaxFaults \in Nat /\ Leader \in Node /\ MinIsr \in Nat /\ MinIsr >= 1
BY ReplicationConstants

\* A step that leaves a group of variables alone keeps what is said of it.
LEMMA SizeFrames ==
  ASSUME SizeInv
  PROVE  /\ UNCHANGED logs => LogsSmall'
         /\ UNCHANGED <<known, seenHw>> => SeenSmall'
         /\ UNCHANGED wire => WiresSmall'
         /\ UNCHANGED gate => GatesSmall'
         /\ UNCHANGED <<up, faults>> => RestSmall'
<1> USE DEF SizeInv
<1>1. UNCHANGED logs => LogsSmall'
  BY DEF LogsSmall, logs, replica
<1>2. UNCHANGED <<known, seenHw>> => SeenSmall'
  BY DEF SeenSmall
<1>3. UNCHANGED wire => WiresSmall'
  BY DEF WiresSmall
<1>4. UNCHANGED gate => GatesSmall'
  BY DEF GatesSmall
<1>5. UNCHANGED <<up, faults>> => RestSmall'
  BY DEF RestSmall
<1> QED BY <1>1, <1>2, <1>3, <1>4, <1>5

\* A fault is counted within its bound.
LEMMA FaultKeeps ==
  ASSUME SizeInv, up' = up, faults' = faults \/ (faults < MaxFaults /\ faults' = faults + 1)
  PROVE  RestSmall'
BY Bounds DEF SizeInv, RestSmall

\* Every log is within the records an engine log takes.
LEMMA Widths ==
  ASSUME LogInv, LogsSmall, NEW n \in Node
  PROVE  /\ Len(elog[n]) \in 0 .. MaxRecords /\ Len(rlog[n]) \in 0 .. MaxRecords
         /\ sealed[n] \in 0 .. Len(elog[n])
<1>1. /\ Len(elog[n]) \in Nat /\ Len(rlog[n]) \in Nat /\ sealed[n] \in Nat
      /\ Len(elog[Leader]) \in Nat /\ sealed[Leader] \in Nat
  BY Bounds DEF LogInv
<1>2. CASE n = Leader
  BY <1>1, <1>2, Bounds DEF LogInv, LogsSmall
<1>3. CASE n # Leader
  <2>1. n \in Followers
    BY <1>3 DEF Followers
  <2> QED BY <1>1, <2>1, Bounds DEF LogInv, LogsSmall
<1> QED BY <1>2, <1>3

\* What is held is within the longest log.
LEMMA HeldIsSmall ==
  ASSUME LogInv, LogsSmall, NEW k \in Nat, Held(k)
  PROVE  k <= MaxRecords
<1> DEFINE S == {n \in Node : k <= Width(n)}
<1>1. S # {}
  <2>1. Cardinality(S) >= MinIsr
    BY DEF Held
  <2> QED BY <2>1, Bounds, FS_EmptySet
<1>2. PICK n \in Node : k <= Width(n)
  BY <1>1
<1>3. Width(n) \in Nat /\ Width(n) <= Len(elog[Leader])
  BY <1>2, WidthType
<1>4. Len(elog[Leader]) \in 0 .. MaxRecords
  BY Widths, Bounds
<1> QED BY <1>2, <1>3, <1>4, Bounds

\* The conclusion the bounds are for.
LEMMA SizesGiveType ==
  ASSUME RepInv, SizeInv
  PROVE  TypeOK
<1> USE DEF RepInv, SizeInv
<1>0. /\ placement \in [leader : Node, replicas : SUBSET Node] /\ placement.replicas = Node
      /\ led \in [Node -> Node]
  BY Bounds DEF MetaInv
<1>1. {bar} \cup {known[n] : n \in Node} \subseteq 0 .. MaxRecords
  <2>1. bar \in 0 .. MaxRecords
    BY HeldIsSmall, Bounds DEF MetaInv
  <2>2. \A n \in Node : known[n] \in 0 .. MaxRecords
    BY Bounds DEF MetaInv, SeenSmall
  <2> QED BY <2>1, <2>2
<1>2. acked \subseteq Node \X (1 .. MaxRecords)
  <2> SUFFICES ASSUME NEW r \in acked PROVE r \in Node \X (1 .. MaxRecords)
    OBVIOUS
  <2>1. PICK k \in 1 .. Len(elog[Leader]) : r = <<Leader, k>>
    BY DEF AckInv
  <2>2. Len(elog[Leader]) \in 0 .. MaxRecords
    BY Widths, Bounds
  <2>3. k \in 1 .. MaxRecords
    BY <2>1, <2>2, Bounds
  <2> QED BY <2>1, <2>3, Bounds
<1>3. ASSUME NEW n \in Node
      PROVE  /\ gate[n].peer \in [Node \ {n} -> 0 .. MaxRecords]
             /\ gate[n].own \in 0 .. Len(elog[n])
             /\ Cardinality(gate[n].pending) <= Cap
             /\ gate[n].pending \subseteq
                   [token : 0 .. gate[n].next, conn : Conn, off : 0 .. MaxRecords]
  <2>1. CASE n = Leader
    <3> DEFINE g == gate[Leader]
    <3>1. GateOK(g) /\ Parks(g)
      BY DEF GateInv, GatesSmall
    <3> HIDE DEF g
    <3>2. /\ g.own \in Nat /\ g.own <= Len(elog[Leader]) /\ g.next \in Nat
          /\ g.peer \in [Followers -> Nat] /\ g.pending \in SUBSET ParkedAcks
          /\ \A f \in Followers : g.peer[f] <= Width(f)
          /\ \A p \in g.pending : p.off < Len(elog[Leader])
      BY <3>1 DEF GateOK, Gates
    <3>3. /\ Len(elog[Leader]) \in 0 .. MaxRecords
          /\ \A f \in Followers : Width(f) \in 0 .. MaxRecords
      <4>1. Len(elog[Leader]) \in 0 .. MaxRecords
        BY Widths, Bounds
      <4>2. \A f \in Followers : Width(f) \in Nat /\ Width(f) <= Len(elog[Leader])
        BY WidthType DEF Followers
      <4> QED BY <4>1, <4>2, Bounds
    <3>4. \A f \in Followers : g.peer[f] \in 0 .. MaxRecords
      BY <3>2, <3>3, Bounds
    <3>5. g.peer \in [Followers -> 0 .. MaxRecords]
      BY <3>2, <3>4
    <3>6. ASSUME NEW p \in g.pending
          PROVE  p \in [token : 0 .. g.next, conn : Conn, off : 0 .. MaxRecords]
      <4>1. p \in [token : Nat, conn : Conn, off : Nat] /\ p.off < Len(elog[Leader])
            /\ p.token <= g.next
        BY <3>1, <3>2 DEF Parks, ParkedAcks
      <4>2. p.token \in 0 .. g.next /\ p.off \in 0 .. MaxRecords
        BY <3>2, <3>3, <4>1, Bounds
      <4> QED BY <4>1, <4>2
    <3>7. g.own \in 0 .. Len(elog[Leader]) /\ Cardinality(g.pending) <= Cap
      BY <3>1, <3>2, <3>3 DEF Parks
    <3>8. /\ g.peer \in [Followers -> 0 .. MaxRecords]
          /\ g.own \in 0 .. Len(elog[Leader])
          /\ Cardinality(g.pending) <= Cap
          /\ g.pending \subseteq [token : 0 .. g.next, conn : Conn, off : 0 .. MaxRecords]
      BY <3>5, <3>6, <3>7
    <3> QED BY <2>1, <3>8 DEF g, Followers
  <2>2. CASE n # Leader
    <3> DEFINE g == FreshGate(n, Node, 0)
               zero == [f \in Node \ {n} |-> 0]
    <3>1. gate[n] = g /\ Len(elog[n]) = 0
      BY <2>2 DEF GatesSmall, LogsSmall, Followers
    <3>2. zero \in [Node \ {n} -> 0 .. MaxRecords]
      BY Bounds
    <3>3. g = [own |-> 0, peer |-> zero, pending |-> {}, next |-> 0, through |-> 0]
      BY DEF FreshGate
    <3> HIDE DEF zero, g
    <3>4. g.own = 0 /\ g.peer = zero /\ g.pending = {}
      BY <3>3
    <3>5. Cardinality(g.pending) <= Cap
      BY <3>4, FS_EmptySet, Bounds
    <3> QED BY <3>1, <3>2, <3>4, <3>5
  <2> QED BY <2>1, <2>2
<1>4. \A n \in Node : /\ Len(elog[n]) <= MaxRecords /\ Len(rlog[n]) <= MaxRecords
                      /\ sealed[n] \in 0 .. Len(elog[n])
  BY Widths, Bounds
<1>6. /\ \A n \in Node : synced[n] \in 0 .. Len(rlog[n])
      /\ frozen \subseteq failed /\ failed \subseteq Node
  <2>1. \A n \in Node : /\ synced[n] \in Nat /\ Len(rlog[n]) \in Nat
                        /\ synced[n] <= Len(rlog[n])
    BY DEF LogInv
  <2> QED BY <2>1 DEF LogInv, Followers
<1>5. \A n \in Node : /\ seenHw[n] \in 0 .. MaxRecords
                      /\ sess[n] \in {"off", "adopt", "steady"}
                      /\ Len(wire[n]) <= MaxWire
  BY Bounds DEF MetaInv, SeenSmall, WiresSmall
<1> QED BY <1>0, <1>1, <1>2, <1>3, <1>4, <1>5, <1>6 DEF TypeOK, RestSmall

LEMMA InitIsSmall == Init => SizeInv
<1> SUFFICES ASSUME Init PROVE SizeInv
  OBVIOUS
<1>1. \A n \in Node : /\ Len(elog[n]) = 0 /\ Len(rlog[n]) = 0 /\ sealed[n] = 0
                      /\ known[n] = 0 /\ seenHw[n] = 0 /\ Len(wire[n]) = 0
                      /\ gate[n] = FreshGate(n, Node, 0)
  BY DEF Init
<1>2. LogsSmall /\ SeenSmall /\ WiresSmall /\ RestSmall
  BY <1>1, Bounds DEF LogsSmall, SeenSmall, WiresSmall, RestSmall, Followers, Init
<1>3. Parks(FreshGate(Leader, Node, 0))
  BY FS_EmptySet, Bounds DEF Parks, FreshGate
<1>4. GatesSmall
  <2>1. gate[Leader] = FreshGate(Leader, Node, 0)
    BY <1>1, Bounds
  <2>2. \A f \in Followers : gate[f] = FreshGate(f, Node, 0)
    BY <1>1 DEF Followers
  <2> QED BY <1>3, <2>1, <2>2 DEF GatesSmall
<1> QED BY <1>2, <1>4 DEF SizeInv

\* An append stays within the records an engine log takes.
LEMMA AppendIsSmall ==
  ASSUME RepInv, RepInv', SizeInv, NEW n \in Node, NEW roll, AppendRecord(n, roll)
  PROVE  SizeInv'
<1>1. n = Leader
  BY Roles DEF RepInv, AppendRecord
<1>2. /\ Len(elog[Leader]) < MaxRecords /\ rlog' = rlog
      /\ elog' = [elog EXCEPT ![Leader] = Append(@, <<Leader, Len(@) + 1>>)]
      /\ sealed' = IF roll THEN [sealed EXCEPT ![Leader] = Len(elog[Leader])] ELSE sealed
      /\ UNCHANGED <<known, seenHw>> /\ UNCHANGED <<up, faults>>
      /\ UNCHANGED wire /\ UNCHANGED gate
  BY <1>1 DEF AppendRecord, meta, replica
<1>3. elog \in [Node -> Seq(Records)] /\ sealed \in [Node -> Nat]
  BY DEF RepInv, LogInv
<1>4. elog'[Leader] = Append(elog[Leader], <<Leader, Len(elog[Leader]) + 1>>)
  BY <1>2, <1>3, Bounds
<1>5. elog[Leader] \in Seq(Records) /\ <<Leader, Len(elog[Leader]) + 1>> \in Records
  BY <1>3, Bounds DEF Records
<1>6. Len(elog'[Leader]) = Len(elog[Leader]) + 1 /\ Len(elog[Leader]) \in Nat
  BY <1>4, <1>5
<1>7. \A f \in Followers : elog'[f] = elog[f] /\ sealed'[f] = sealed[f]
  BY <1>2, <1>3 DEF Followers
<1>8. LogsSmall'
  <2>1. /\ Len(rlog[Leader]) = 0
        /\ \A f \in Followers : Len(elog[f]) = 0 /\ sealed[f] = 0
    BY DEF SizeInv, LogsSmall
  <2>2. Len(elog'[Leader]) <= MaxRecords
    BY <1>2, <1>6, Bounds
  <2>3. \A f \in Followers : Len(elog'[f]) = 0 /\ sealed'[f] = 0
    BY <1>7, <2>1
  <2> QED BY <1>2, <2>1, <2>2, <2>3 DEF LogsSmall
<1> QED BY <1>2, <1>8, SizeFrames DEF SizeInv

\* Releasing parked acks leaves fewer.
LEMMA ReleaseParks ==
  ASSUME NEW g, GateOK(g), Parks(g)
  PROVE  Parks(AfterRelease(g))
<1> DEFINE h == AfterRelease(g)
           rest == g.pending \ Released(g)
           through == MaxOf(QuorumCommit(g), g.through)
<1>1. g \in Gates /\ IsFiniteSet(g.pending)
  BY DEF GateOK
<1>2. h = [g EXCEPT !.pending = rest, !.through = through]
  BY DEF AfterRelease
<1> HIDE DEF h, through
<1>3. rest \subseteq g.pending
  OBVIOUS
<1>4. IsFiniteSet(rest) /\ Cardinality(rest) <= Cardinality(g.pending)
      /\ Cardinality(rest) \in Nat /\ Cardinality(g.pending) \in Nat
  BY <1>1, <1>3, FS_Subset, FS_CardinalityType
<1> HIDE DEF rest
<1>5. h.pending = rest /\ h.next = g.next
  BY <1>1, <1>2 DEF Gates
<1>6. Cardinality(rest) <= Cap
  BY <1>4, Bounds DEF Parks
<1>7. Parks(h)
  BY <1>3, <1>5, <1>6 DEF Parks
<1> QED BY <1>7 DEF h

\* The gate of the leader is replaced by one that parks within the cap.
LEMMA GateReplaced ==
  ASSUME RepInv, SizeInv, NEW g, Parks(g), gate' = [gate EXCEPT ![Leader] = g]
  PROVE  GatesSmall'
<1>1. gate \in [Node -> Gates]
  BY DEF RepInv, GateInv
<1>2. gate'[Leader] = g /\ \A f \in Followers : gate'[f] = gate[f]
  BY <1>1, Bounds DEF Followers
<1> QED BY <1>2 DEF SizeInv, GatesSmall, Parks

\* At the cap nothing is parked; below it one more fits.
LEMMA PresentIsSmall ==
  ASSUME RepInv, SizeInv, NEW n \in Node, NEW c \in Conn, Present(n, c)
  PROVE  SizeInv'
<1> DEFINE off  == Head(client[Leader][c].due)
           g    == gate[Leader]
           seen == [g EXCEPT !.own = MaxOf(@, off + 1)]
           ack  == [token |-> seen.next, conn |-> c, off |-> off]
           held == [seen EXCEPT !.pending = @ \cup {ack}, !.next = @ + 1]
<1>1. n = Leader
  BY Roles DEF Present, RepInv
<1>2. /\ UNCHANGED logs /\ UNCHANGED <<known, seenHw>> /\ UNCHANGED <<up, faults>>
      /\ UNCHANGED wire /\ client[Leader][c].due # << >>
  BY <1>1 DEF Present, meta
<1>3. \/ gate' = [gate EXCEPT ![Leader] = seen]
      \/ ~ Full(seen) /\ gate' = [gate EXCEPT ![Leader] = AfterRelease(held)]
  BY <1>1 DEF Present
<1>4. GateOK(g) /\ Parks(g) /\ g \in Gates
  BY DEF RepInv, GateInv, SizeInv, GatesSmall, GateOK
<1>5. off \in Nat /\ off < Len(elog[Leader])
  <2>1. /\ client[Leader][c].due \in Seq(Nat)
        /\ \A i \in 1 .. Len(client[Leader][c].due) : client[Leader][c].due[i] < Len(elog[Leader])
    BY Bounds DEF RepInv, ClientInv, Clients
  <2>2. 1 \in 1 .. Len(client[Leader][c].due) /\ off = client[Leader][c].due[1] /\ off \in Nat
    BY <1>2, <2>1
  <2> QED BY <2>1, <2>2
<1>6. LogInv
  BY DEF RepInv
<1> HIDE DEF g, off
<1>7. GateOK(held)
  BY <1>4, <1>5, <1>6, SeenIsOK
<1>8. seen.pending = g.pending /\ seen.next = g.next /\ g.next \in Nat /\ seen \in Gates
  <2>1. MaxOf(g.own, off + 1) \in Nat
    BY <1>4, <1>5 DEF MaxOf, Gates
  <2> QED BY <1>4, <2>1 DEF Gates
<1>9. Parks(seen)
  BY <1>4, <1>8 DEF Parks
<1> HIDE DEF seen
<1>10. ASSUME ~ Full(seen) PROVE Parks(held)
  <2> DEFINE more == seen.pending \cup {ack}
  <2>1. ack.token = g.next
    BY <1>8
  <2> HIDE DEF ack
  <2>2. held.pending = more /\ held.next = g.next + 1
    BY <1>8 DEF Gates
  <2>3. IsFiniteSet(seen.pending)
    BY <1>4, <1>8 DEF GateOK
  <2>4. Cardinality(more) <= Cardinality(seen.pending) + 1 /\ Cardinality(seen.pending) \in Nat
        /\ Cardinality(more) \in Nat
    <3>1. /\ IsFiniteSet(more)
          /\ Cardinality(more) = IF ack \in seen.pending THEN Cardinality(seen.pending)
                                 ELSE Cardinality(seen.pending) + 1
      BY <2>3, FS_AddElement
    <3>2. Cardinality(seen.pending) \in Nat /\ Cardinality(more) \in Nat
      BY <2>3, <3>1, FS_CardinalityType
    <3> HIDE DEF more
    <3> QED BY <3>1, <3>2
  <2>5. Cardinality(more) <= Cap
    BY <1>10, <2>4, Bounds DEF Full
  <2>6. \A p \in g.pending : p.token \in Nat /\ p.token <= g.next
    BY <1>4 DEF Parks, Gates, ParkedAcks
  <2>7. \A p \in more : p.token <= g.next + 1
    BY <1>8, <2>1, <2>6
  <2> HIDE DEF held, more
  <2> QED BY <2>2, <2>5, <2>7 DEF Parks
<1> HIDE DEF held
<1>11. GatesSmall'
  <2>1. CASE gate' = [gate EXCEPT ![Leader] = seen]
    BY <1>9, <2>1, GateReplaced
  <2>2. CASE ~ Full(seen) /\ gate' = [gate EXCEPT ![Leader] = AfterRelease(held)]
    BY <1>7, <1>10, <2>2, ReleaseParks, GateReplaced
  <2> QED BY <1>3, <2>1, <2>2
<1> QED BY <1>2, <1>11, SizeFrames DEF SizeInv

\* A report raises a frontier and parks nothing.
LEMMA TakeReportIsSmall ==
  ASSUME RepInv, SizeInv, NEW m \in reports, TakeReport(m)
  PROVE  SizeInv'
<1> DEFINE old == gate[Leader]
           g == IF m.from \in DOMAIN old.peer
                THEN [old EXCEPT !.peer[m.from] = MaxOf(@, m.off)] ELSE old
<1>1. m.to = Leader /\ m.from \in Followers /\ m.off \in Nat /\ m.off <= Width(m.from)
  BY DEF RepInv, LinkInv
<1>2. /\ UNCHANGED logs /\ UNCHANGED <<known, seenHw>> /\ UNCHANGED <<up, faults>>
      /\ UNCHANGED wire
      /\ gate' = [gate EXCEPT ![Leader] = AfterRelease(g)]
  BY <1>1 DEF TakeReport, meta
<1>3. GateOK(old) /\ Parks(old) /\ LogInv /\ old \in Gates
  BY DEF RepInv, GateInv, SizeInv, GatesSmall, GateOK
<1> HIDE DEF old
<1>4. GateOK([old EXCEPT !.peer[m.from] = MaxOf(@, m.off)])
  BY <1>1, <1>3, ReportedIsOK
<1>5. GateOK(g)
  BY <1>3, <1>4
<1>6. g.pending = old.pending /\ g.next = old.next
  BY <1>3 DEF Gates
<1>7. Parks(g)
  BY <1>3, <1>6 DEF Parks
<1> HIDE DEF g
<1>8. GatesSmall'
  BY <1>2, <1>5, <1>7, ReleaseParks, GateReplaced
<1> QED BY <1>2, <1>8, SizeFrames DEF SizeInv

LEMMA DropIsSmall ==
  ASSUME RepInv, SizeInv, NEW n \in Node, NEW c \in Conn, DropConnection(n, c)
  PROVE  SizeInv'
<1> DEFINE old == gate[Leader]
           rest == {p \in old.pending : p.conn # c}
           g == [old EXCEPT !.pending = rest]
<1>1. n = Leader
  BY Roles DEF DropConnection, RepInv
<1>2. /\ UNCHANGED logs /\ UNCHANGED <<known, seenHw>> /\ UNCHANGED wire
      /\ up' = up /\ faults < MaxFaults /\ faults' = faults + 1
      /\ gate' = [gate EXCEPT ![Leader].pending = {p \in @ : p.conn # c}]
  BY <1>1 DEF DropConnection, meta
<1>3. gate' = [gate EXCEPT ![Leader] = g]
  BY <1>2
<1>4. GateOK(old) /\ Parks(old) /\ old \in Gates
  BY DEF RepInv, GateInv, SizeInv, GatesSmall, GateOK
<1> HIDE DEF old
<1>5. rest \subseteq old.pending
  OBVIOUS
<1>6. Cardinality(rest) <= Cardinality(old.pending)
      /\ Cardinality(rest) \in Nat /\ Cardinality(old.pending) \in Nat
  BY <1>4, <1>5, FS_Subset, FS_CardinalityType DEF GateOK
<1> HIDE DEF rest
<1>7. g.pending = rest /\ g.next = old.next
  BY <1>4 DEF Gates
<1> HIDE DEF g
<1>8. Parks(g)
  BY <1>4, <1>5, <1>6, <1>7, Bounds DEF Parks
<1>9. GatesSmall' /\ RestSmall'
  BY <1>2, <1>3, <1>8, GateReplaced, FaultKeeps
<1> QED BY <1>2, <1>9, SizeFrames DEF SizeInv

\* The bounds on the wires, of one that grows by a response or shrinks.
LEMMA WireReplaced ==
  ASSUME RepInv, SizeInv, NEW f \in Node, NEW w, wire' = [wire EXCEPT ![f] = w],
         Len(w) <= MaxWire, \A j \in 1 .. Len(w) : w[j].hw <= MaxRecords
  PROVE  WiresSmall'
<1>1. wire \in [Node -> Seq(Responses)]
  BY DEF RepInv, LinkInv
<1>2. wire'[f] = w /\ \A n \in Node \ {f} : wire'[n] = wire[n]
  BY <1>1
<1> SUFFICES ASSUME NEW n \in Node
             PROVE  /\ Len(wire'[n]) <= MaxWire
                    /\ \A j \in 1 .. Len(wire'[n]) : wire'[n][j].hw <= MaxRecords
  BY DEF WiresSmall
<1>3. CASE n = f
  BY <1>2, <1>3
<1>4. CASE n # f
  BY <1>2, <1>4 DEF SizeInv, WiresSmall
<1> QED BY <1>3, <1>4

\* A link that is dropped carries nothing.
LEMMA NothingIsSmall ==
  LET e == << >>
  IN  Len(e) <= MaxWire /\ \A j \in 1 .. Len(e) : e[j].hw <= MaxRecords
BY Bounds

\* Adopting a link cuts nothing, so it moves no frontier.
LEMMA AdoptIsSmall ==
  ASSUME RepInv, SizeInv, NEW f \in Node, NEW wireOk \in BOOLEAN, Adopt(f, wireOk)
  PROVE  SizeInv'
<1>1. f \in Followers
  BY Roles DEF RepInv, Adopt
<1>2. ~MustHeal(f)
  BY <1>1, NothingToHeal
<1>3. /\ UNCHANGED logs /\ UNCHANGED <<known, seenHw>> /\ UNCHANGED wire /\ UNCHANGED gate
      /\ up' = up
  BY <1>2 DEF Adopt, logs, replica, meta
<1>4. faults' = faults \/ (faults < MaxFaults /\ faults' = faults + 1)
  BY DEF Adopt
<1>5. RestSmall'
  BY <1>3, <1>4, FaultKeeps
<1> QED BY <1>3, <1>5, SizeFrames DEF SizeInv

\* A response carries the leader's frontier, on a wire with room for it.
LEMMA FetchIsSmall ==
  ASSUME RepInv, SizeInv, NEW f \in Node, NEW k \in 1 .. MaxRecords, Fetch(f, k)
  PROVE  SizeInv'
<1> DEFINE resp == [hw |-> Len(elog[led[f]]), first |-> Len(rlog[f]),
                    run |-> Served(led[f], Len(rlog[f]), k)]
           w == Append(wire[f], resp)
<1>1. f \in Followers /\ led[f] = Leader
  BY Roles DEF RepInv, Fetch
<1>2. /\ UNCHANGED logs /\ UNCHANGED <<known, seenHw>> /\ UNCHANGED gate /\ up' = up
      /\ wire' = [wire EXCEPT ![f] = w] /\ Len(wire[f]) < MaxWire
  BY DEF Fetch, meta
<1>3. faults' = faults \/ (faults < MaxFaults /\ faults' = faults + 1)
  BY DEF Fetch
<1>4. Len(elog[led[f]]) \in 0 .. MaxRecords /\ k \in Nat
  BY <1>1, Widths, Bounds DEF RepInv, SizeInv
<1>5. resp \in Responses
  BY <1>1, <1>4, ServedIsRun
<1>6. resp.hw <= MaxRecords
  BY <1>4, Bounds
<1> HIDE DEF resp
<1>7. /\ wire[f] \in Seq(Responses) /\ Len(wire[f]) \in Nat
      /\ \A j \in 1 .. Len(wire[f]) : wire[f][j].hw <= MaxRecords
  BY DEF RepInv, LinkInv, SizeInv, WiresSmall
<1>8. /\ Len(w) = Len(wire[f]) + 1 /\ w[Len(wire[f]) + 1] = resp
      /\ \A j \in 1 .. Len(wire[f]) : w[j] = wire[f][j]
  BY <1>5, <1>7, AppendProperties
<1> HIDE DEF w
<1>9. Len(w) <= MaxWire
  BY <1>2, <1>7, <1>8, Bounds
<1>10. ASSUME NEW j \in 1 .. Len(w) PROVE w[j].hw <= MaxRecords
  <2>1. j \in 1 .. Len(wire[f]) \/ j = Len(wire[f]) + 1
    BY <1>7, <1>8
  <2> QED BY <1>6, <1>7, <1>8, <2>1
<1>11. WiresSmall' /\ RestSmall'
  BY <1>2, <1>3, <1>9, <1>10, WireReplaced, FaultKeeps
<1> QED BY <1>2, <1>11, SizeFrames DEF SizeInv

\* The observed high watermark is raised to one a leader had.
LEMMA ObserveIsSmall ==
  ASSUME RepInv, SizeInv, NEW f \in Node, NEW resp, resp.hw \in Nat, resp.hw <= MaxRecords,
         ObserveHw(f, resp), known' = known
  PROVE  SeenSmall'
<1>1. seenHw \in [Node -> Nat] /\ \A n \in Node : seenHw[n] <= MaxRecords /\ known[n] <= MaxRecords
  BY DEF RepInv, MetaInv, SizeInv, SeenSmall
<1>2. MaxOf(seenHw[f], resp.hw) <= MaxRecords
  BY <1>1 DEF MaxOf
<1>3. seenHw' = seenHw \/ seenHw' = [seenHw EXCEPT ![f] = MaxOf(seenHw[f], resp.hw)]
  BY DEF ObserveHw
<1>4. \A n \in Node : seenHw'[n] <= MaxRecords
  BY <1>1, <1>2, <1>3
<1> QED BY <1>1, <1>4 DEF SeenSmall

\* The high watermark of the first response of a link.
LEMMA HeadIsSmall ==
  ASSUME RepInv, SizeInv, NEW f \in Node, wire[f] # << >>
  PROVE  /\ Head(wire[f]).hw \in Nat /\ Head(wire[f]).hw <= MaxRecords
         /\ wire[f] \in Seq(Responses) /\ Len(wire[f]) \in Nat /\ Len(wire[f]) <= MaxWire
         /\ \A j \in 1 .. Len(wire[f]) : wire[f][j].hw <= MaxRecords
<1>1. /\ wire[f] \in Seq(Responses) /\ Len(wire[f]) \in Nat /\ Len(wire[f]) <= MaxWire
      /\ \A j \in 1 .. Len(wire[f]) : wire[f][j].hw <= MaxRecords
  BY DEF RepInv, LinkInv, SizeInv, WiresSmall
<1>2. 1 \in 1 .. Len(wire[f]) /\ Head(wire[f]) = wire[f][1] /\ wire[f][1] \in Responses
  BY <1>1
<1> QED BY <1>1, <1>2 DEF Responses

\* A follower's log grows; the leader's replica log stays empty.
LEMMA FollowerLogsSmall ==
  ASSUME RepInv, SizeInv, NEW f \in Followers, NEW new, UNCHANGED <<elog, sealed>>,
         rlog' = rlog \/ rlog' = [rlog EXCEPT ![f] = new]
  PROVE  LogsSmall'
<1>1. rlog \in [Node -> Seq(Records)] /\ LogsSmall
  BY DEF RepInv, LogInv, SizeInv
<1>2. rlog'[Leader] = rlog[Leader]
  BY <1>1, Bounds DEF Followers
<1> QED BY <1>1, <1>2 DEF LogsSmall

LEMMA TakeResponseIsSmall ==
  ASSUME RepInv, SizeInv, NEW f \in Node, TakeResponse(f)
  PROVE  SizeInv'
<1> DEFINE resp == Head(wire[f])
           log == rlog[f] \o resp.run
<1>1. f \in Followers /\ f # Leader
  BY Roles DEF RepInv, TakeResponse, Followers
<1>2. /\ UNCHANGED <<elog, sealed, known>> /\ UNCHANGED gate /\ UNCHANGED <<up, faults>>
      /\ wire[f] # << >> /\ ObserveHw(f, resp)
      /\ rlog' = rlog \/ rlog' = [rlog EXCEPT ![f] = log]
      /\ wire' = [wire EXCEPT ![f] = Tail(wire[f])] \/ wire' = [wire EXCEPT ![f] = << >>]
  BY DEF TakeResponse, DropLink, meta
<1>3. /\ resp.hw \in Nat /\ resp.hw <= MaxRecords
      /\ wire[f] \in Seq(Responses) /\ Len(wire[f]) \in Nat /\ Len(wire[f]) <= MaxWire
      /\ \A j \in 1 .. Len(wire[f]) : wire[f][j].hw <= MaxRecords
  BY <1>2, HeadIsSmall
<1> HIDE DEF resp, log
<1>4. LogsSmall'
  BY <1>1, <1>2, FollowerLogsSmall
<1>5. SeenSmall'
  BY <1>2, <1>3, ObserveIsSmall
<1>6. WiresSmall'
  <2>1. CASE wire' = [wire EXCEPT ![f] = << >>]
    BY <2>1, NothingIsSmall, WireReplaced
  <2>2. CASE wire' = [wire EXCEPT ![f] = Tail(wire[f])]
    <3> DEFINE w == Tail(wire[f])
    <3>1. /\ Len(w) = Len(wire[f]) - 1
          /\ \A j \in 1 .. Len(w) : w[j] = wire[f][j + 1] /\ j + 1 \in 1 .. Len(wire[f])
      BY <1>2, <1>3, HeadTailProperties
    <3> HIDE DEF w
    <3>2. Len(w) <= MaxWire
      BY <1>3, <3>1, Bounds
    <3>3. \A j \in 1 .. Len(w) : w[j].hw <= MaxRecords
      BY <1>3, <3>1
    <3> QED BY <2>2, <3>2, <3>3, WireReplaced DEF w
  <2> QED BY <1>2, <2>1, <2>2
<1> QED BY <1>2, <1>4, <1>5, <1>6, SizeFrames DEF SizeInv

LEMMA SyncFailsIsSmall ==
  ASSUME RepInv, SizeInv, NEW f \in Node, NEW k, SyncFails(f, k)
  PROVE  SizeInv'
<1> DEFINE resp == Head(wire[f])
           log == rlog[f] \o SubSeq(resp.run, 1, k)
<1>1. f \in Followers
  BY Roles DEF RepInv, SyncFails
<1>2. /\ UNCHANGED <<elog, sealed, known>> /\ UNCHANGED gate /\ up' = up
      /\ faults < MaxFaults /\ faults' = faults + 1
      /\ wire[f] # << >> /\ ObserveHw(f, resp)
      /\ rlog' = [rlog EXCEPT ![f] = log]
      /\ wire' = [wire EXCEPT ![f] = << >>]
  BY DEF SyncFails, DropLink, meta
<1>3. resp.hw \in Nat /\ resp.hw <= MaxRecords
  BY <1>2, HeadIsSmall
<1> HIDE DEF resp, log
<1>4. LogsSmall'
  BY <1>1, <1>2, FollowerLogsSmall
<1>5. SeenSmall'
  BY <1>2, <1>3, ObserveIsSmall
<1>6. WiresSmall' /\ RestSmall'
  BY <1>2, NothingIsSmall, WireReplaced, FaultKeeps
<1> QED BY <1>2, <1>4, <1>5, <1>6, SizeFrames DEF SizeInv

LEMMA BreakLinkIsSmall ==
  ASSUME RepInv, SizeInv, NEW f \in Node, BreakLink(f)
  PROVE  SizeInv'
<1>1. /\ UNCHANGED logs /\ UNCHANGED <<known, seenHw>> /\ UNCHANGED gate /\ up' = up
      /\ faults < MaxFaults /\ faults' = faults + 1
      /\ wire' = [wire EXCEPT ![f] = << >>]
  BY DEF BreakLink, DropLink, meta
<1>2. WiresSmall' /\ RestSmall'
  BY <1>1, NothingIsSmall, WireReplaced, FaultKeeps
<1> QED BY <1>1, <1>2, SizeFrames DEF SizeInv

\* The bar a node learns is held by some log, so it is within the records written.
LEMMA LearnIsSmall ==
  ASSUME RepInv, SizeInv, NEW n \in Node, LearnBar(n)
  PROVE  SizeInv'
<1>1. /\ UNCHANGED logs /\ UNCHANGED gate /\ UNCHANGED <<up, faults>> /\ UNCHANGED wire
      /\ known' = [known EXCEPT ![n] = bar] /\ seenHw' = seenHw
  BY DEF LearnBar
<1>2. bar <= MaxRecords
  BY HeldIsSmall, Bounds DEF RepInv, MetaInv, SizeInv
<1>3. SeenSmall'
  BY <1>1, <1>2 DEF RepInv, MetaInv, SizeInv, SeenSmall
<1> QED BY <1>1, <1>3, SizeFrames DEF SizeInv

\* A crash keeps a prefix of a follower's log and batch, and drops the links.
LEMMA CrashIsSmall ==
  ASSUME RepInv, SizeInv, NEW n \in Node, NEW k \in Nat, Crash(n, k)
  PROVE  SizeInv'
<1> DEFINE goes == Follows(n) /\ n \notin frozen /\ sess[n] = "steady" /\ wire[n] # << >>
                   /\ Head(wire[n]).first = Len(rlog[n])
           batch == IF goes THEN Head(wire[n]).run ELSE << >>
           tail == rlog[n] \o batch
           links == {f \in Node : f = n \/ led[f] = n}
<1>1. /\ UNCHANGED <<elog, sealed>> /\ UNCHANGED <<known, seenHw>> /\ UNCHANGED gate
      /\ faults < MaxFaults /\ faults' = faults + 1
      /\ up' = [up EXCEPT ![n] = FALSE]
      /\ k \in synced[n] .. Len(tail)
      /\ rlog' = [rlog EXCEPT ![n] = SubSeq(tail, 1, k)]
      /\ wire' = [f \in Node |-> IF f \in links THEN << >> ELSE wire[f]]
  BY DEF Crash, meta
<1>2. rlog \in [Node -> Seq(Records)]
  BY DEF RepInv, LogInv
<1>3. Len(rlog'[Leader]) = 0
  <2>1. Len(rlog[Leader]) = 0 /\ rlog[Leader] \in Seq(Records)
    BY <1>2, Bounds DEF SizeInv, LogsSmall
  <2>2. CASE n # Leader
    <3>1. rlog'[Leader] = rlog[Leader]
      BY <1>1, <1>2, <2>2, Bounds
    <3> QED BY <2>1, <3>1
  <2>3. CASE n = Leader
    <3>1. ~ goes
      BY <2>3 DEF RepInv, MetaInv
    <3>2. batch = << >> /\ tail = rlog[Leader]
      BY <2>1, <2>3, <3>1, ConcatEmptySeq
    <3>3. synced[n] \in Nat /\ k \in Nat /\ k <= Len(tail)
      BY <1>1 DEF RepInv, LogInv
    <3> HIDE DEF tail
    <3>4. k = 0
      BY <2>1, <3>2, <3>3
    <3>5. rlog'[Leader] = SubSeq(tail, 1, 0)
      BY <1>1, <1>2, <2>3, <3>4
    <3> QED BY <3>5
  <2> QED BY <2>2, <2>3
<1>4. LogsSmall'
  BY <1>1, <1>3 DEF SizeInv, LogsSmall
<1>5. WiresSmall'
  <2> HIDE DEF links
  <2> SUFFICES ASSUME NEW f \in Node
               PROVE  /\ Len(wire'[f]) <= MaxWire
                      /\ \A j \in 1 .. Len(wire'[f]) : wire'[f][j].hw <= MaxRecords
    BY DEF WiresSmall
  <2>1. wire'[f] = << >> \/ wire'[f] = wire[f]
    BY <1>1
  <2>2. CASE wire'[f] = << >>
    BY <2>2, NothingIsSmall
  <2>3. CASE wire'[f] = wire[f]
    BY <2>3 DEF SizeInv, WiresSmall
  <2> QED BY <2>1, <2>2, <2>3
<1>6. RestSmall'
  <2>1. faults' \in 0 .. MaxFaults
    BY <1>1, Bounds DEF SizeInv, RestSmall
  <2>2. up' \in [Node -> BOOLEAN]
    BY <1>1 DEF SizeInv, RestSmall
  <2> QED BY <2>1, <2>2 DEF RestSmall
<1> QED BY <1>1, <1>4, <1>5, <1>6, SizeFrames DEF SizeInv

\* A fresh data plane starts from the lengths of the recovered logs.
LEMMA RestartIsSmall ==
  ASSUME RepInv, SizeInv, NEW n \in Node, Restart(n)
  PROVE  SizeInv'
<1> DEFINE fresh == FreshGate(n, Node, Len(elog[n]))
<1>1. /\ UNCHANGED logs /\ UNCHANGED wire /\ faults' = faults
      /\ up' = [up EXCEPT ![n] = TRUE]
      /\ known' = [known EXCEPT ![n] = 0]
      /\ seenHw' = [seenHw EXCEPT ![n] = Len(rlog[n])]
      /\ gate' = [gate EXCEPT ![n] = fresh]
  BY DEF Restart, RepInv, MetaInv
<1>2. SeenSmall'
  <2>1. Len(rlog[n]) <= MaxRecords
    BY Widths, Bounds DEF RepInv, SizeInv
  <2> QED BY <1>1, <2>1, Bounds DEF RepInv, MetaInv, SizeInv, SeenSmall
<1>3. Parks(fresh)
  BY FS_EmptySet, Bounds DEF Parks, FreshGate
<1>4. n \in Followers => fresh = FreshGate(n, Node, 0)
  BY DEF SizeInv, LogsSmall
<1> HIDE DEF fresh
<1>5. GatesSmall'
  <2>1. CASE n = Leader
    BY <1>1, <1>3, <2>1, GateReplaced
  <2>2. CASE n # Leader
    <3>1. gate \in [Node -> Gates] /\ n \in Followers
      BY <2>2 DEF RepInv, GateInv, Followers
    <3>2. gate'[Leader] = gate[Leader]
      BY <1>1, <2>2, <3>1, Bounds
    <3>3. ASSUME NEW f \in Followers PROVE gate'[f] = FreshGate(f, Node, 0)
      <4>1. CASE f = n
        BY <1>1, <1>4, <3>1, <4>1
      <4>2. CASE f # n
        <5>1. gate'[f] = gate[f]
          BY <1>1, <3>1, <4>2 DEF Followers
        <5> QED BY <5>1 DEF SizeInv, GatesSmall
      <4> QED BY <4>1, <4>2
    <3> QED BY <3>2, <3>3 DEF SizeInv, GatesSmall, Parks
  <2> QED BY <2>1, <2>2
<1>6. RestSmall'
  <2>1. up' \in [Node -> BOOLEAN]
    BY <1>1 DEF SizeInv, RestSmall
  <2> QED BY <1>1, <2>1 DEF SizeInv, RestSmall
<1> QED BY <1>1, <1>2, <1>5, <1>6, SizeFrames DEF SizeInv

\* The steps that move none of the bounded state, or only count a fault.
LEMMA OthersAreSmall ==
  ASSUME SizeInv, UNCHANGED logs, UNCHANGED <<known, seenHw>>, UNCHANGED wire, UNCHANGED gate,
         up' = up, faults' = faults \/ (faults < MaxFaults /\ faults' = faults + 1)
  PROVE  SizeInv'
BY FaultKeeps, SizeFrames DEF SizeInv

LEMMA SizesKeep == RepInv /\ RepInv' /\ SizeInv /\ [Next]_vars => SizeInv'
<1> SUFFICES ASSUME RepInv, RepInv', SizeInv, [Next]_vars PROVE SizeInv'
  OBVIOUS
<1>1. CASE UNCHANGED vars
  <2>1. /\ UNCHANGED logs /\ UNCHANGED <<known, seenHw>> /\ UNCHANGED wire /\ UNCHANGED gate
        /\ up' = up /\ faults' = faults
    BY <1>1 DEF vars, logs, replica
  <2> QED BY <2>1, OthersAreSmall
<1>2. ASSUME NEW n \in Node, NEW c \in Conn, ClientStep(n, c) PROVE SizeInv'
  <2>1. ASSUME NEW roll \in BOOLEAN, Produce(n, c, roll) PROVE SizeInv'
    BY <2>1, AppendIsSmall DEF Produce
  <2>2. ASSUME NEW off \in 0 .. Len(elog[n]) - 1, Retry(n, c, off) PROVE SizeInv'
    <3>1. /\ UNCHANGED logs /\ UNCHANGED <<known, seenHw>> /\ UNCHANGED wire
          /\ UNCHANGED gate /\ up' = up /\ faults' = faults
      BY <2>2 DEF Retry, meta
    <3> QED BY <3>1, OthersAreSmall
  <2>3. ASSUME DrainReleased(n, c) PROVE SizeInv'
    <3>1. /\ UNCHANGED logs /\ UNCHANGED <<known, seenHw>> /\ UNCHANGED wire
          /\ UNCHANGED gate /\ up' = up /\ faults' = faults
      BY <2>3 DEF DrainReleased, meta
    <3> QED BY <3>1, OthersAreSmall
  <2> QED BY <1>2, <2>1, <2>2, <2>3, PresentIsSmall, DropIsSmall DEF ClientStep
<1>3. ASSUME NEW f \in Node, FollowerStep(f) PROVE SizeInv'
  <2>1. ASSUME Connect(f) PROVE SizeInv'
    <3>1. /\ UNCHANGED logs /\ UNCHANGED <<known, seenHw>> /\ UNCHANGED wire
          /\ UNCHANGED gate /\ up' = up /\ faults' = faults
      BY <2>1 DEF Connect, meta
    <3> QED BY <3>1, OthersAreSmall
  <2> QED BY <1>3, <2>1, AdoptIsSmall, FetchIsSmall, TakeResponseIsSmall, SyncFailsIsSmall,
          BreakLinkIsSmall DEF FollowerStep
<1>4. ASSUME NEW m \in reports, TakeReport(m) \/ LoseReport(m) PROVE SizeInv'
  <2>1. ASSUME LoseReport(m) PROVE SizeInv'
    <3>1. /\ UNCHANGED logs /\ UNCHANGED <<known, seenHw>> /\ UNCHANGED wire
          /\ UNCHANGED gate /\ up' = up /\ faults < MaxFaults /\ faults' = faults + 1
      BY <2>1 DEF LoseReport, meta
    <3> QED BY <3>1, OthersAreSmall
  <2> QED BY <1>4, <2>1, TakeReportIsSmall
<1>5. ASSUME NEW n \in Node, NodeStep(n) PROVE SizeInv'
  <2>1. ASSUME NEW roll \in BOOLEAN, FireAndForget(n, roll) PROVE SizeInv'
    BY <2>1, AppendIsSmall DEF FireAndForget
  <2>2. ASSUME CheckpointCommittedHw(n) PROVE SizeInv'
    <3>1. /\ UNCHANGED logs /\ UNCHANGED <<known, seenHw>> /\ UNCHANGED wire
          /\ UNCHANGED gate /\ up' = up /\ faults' = faults
      BY <2>2 DEF CheckpointCommittedHw
    <3> QED BY <3>1, OthersAreSmall
  <2>3. \A k \in 0 .. MaxRecords : k \in Nat
    BY Bounds
  <2> QED BY <1>5, <2>1, <2>2, <2>3, LearnIsSmall, CrashIsSmall, RestartIsSmall DEF NodeStep
<1> QED BY <1>1, <1>2, <1>3, <1>4, <1>5 DEF Next

\* Every bound of the code holds whatever the cluster's size: a gate never
\* parks more acks than its cap, and no frontier, high watermark or bar is
\* ahead of the records written.
THEOREM ReplicationTypeOK == Spec => []TypeOK
<1>1. RepInv /\ SizeInv => TypeOK
  BY SizesGiveType
<1> QED BY <1>1, InitHolds, StepKeeps, InitIsSmall, SizesKeep, PTL DEF Spec

=============================================================================
