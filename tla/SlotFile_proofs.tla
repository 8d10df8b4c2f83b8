-------------------------- MODULE SlotFile_proofs --------------------------
(***************************************************************************)
(* The two-slot checkpoint file survives every crash, for any payloads and *)
(* any number of writes, failures, kills and power cuts.  The argument:    *)
(* the slot the next write does NOT go to holds the last confirmed value   *)
(* under the sequence number just below the next one, and every valid      *)
(* content of the other slot is older than that or a later attempt.        *)
(***************************************************************************)
EXTENDS SlotFile, TLAPS

Content == [kind : {"empty", "corrupt", "valid"}, seq : Nat,
            payload : Payloads \union {Fresh}]

TypeInv ==
  /\ nextSeq \in Nat \ {0}
  /\ known \in Payloads \union {Fresh}
  /\ attempted \subseteq Payloads
  /\ cache \in [Slots -> Content]
  /\ maybe \in [Slots -> SUBSET Content]

\* The sibling of the next write's slot holds what is known.
SiblingInv ==
  \/ nextSeq = 1 /\ cache[Sibling] = Blank /\ known = Fresh
  \/ nextSeq > 1 /\ cache[Sibling] = Written(nextSeq - 1, known)

\* A valid content of the slot written next is stale or a later attempt.
Harmless(s) ==
  s.kind = "valid" => \/ s.seq + 1 < nextSeq
                      \/ s.seq = nextSeq /\ s.payload \in attempted

TargetInv == Harmless(cache[Target]) /\ \A s \in maybe[Target] : Harmless(s)

\* Nothing that may surface in the sibling is newer than the sibling.
NotNewer == \A s \in maybe[Sibling] : s.kind = "valid" => s.seq < nextSeq

FileInv == TypeInv /\ SiblingInv /\ TargetInv /\ NotNewer

\* The two slots are the target and its sibling, and a write swaps them.
LEMMA Parity ==
  ASSUME NEW n \in Nat
  PROVE  /\ n % 2 \in Slots /\ 1 - (n % 2) \in Slots /\ n % 2 # 1 - (n % 2)
         /\ (n + 1) % 2 = 1 - (n % 2) /\ 1 - ((n + 1) % 2) = n % 2
         /\ Slots = {n % 2, 1 - (n % 2)}
BY DEF Slots

\* In a file whose sibling slot s holds the value below the next sequence
\* number and whose other slot is harmless, open finds the sibling's value or
\* a later attempt.
LEMMA NewestIs ==
  ASSUME TypeInv, NEW file \in [Slots -> Content],
         \/ nextSeq = 1 /\ file[Sibling] = Blank /\ known = Fresh
         \/ nextSeq > 1 /\ file[Sibling] = Written(nextSeq - 1, known),
         Harmless(file[Target])
  PROVE  /\ ~ Damaged(file)
         /\ \/ /\ file[Target].kind = "valid" /\ file[Target].seq = nextSeq
               /\ Newest(file) = file[Target]
               /\ file[Target].payload \in attempted
            \/ /\ Newest(file).seq = nextSeq - 1
               /\ Newest(file).payload = known
               /\ ~ (file[Target].kind = "valid" /\ file[Target].seq = nextSeq)
<1>1. /\ Target \in Slots /\ Sibling \in Slots /\ Target # Sibling
      /\ Slots = {Target, Sibling}
  BY Parity DEF TypeInv, Target, Sibling
<1>2. ~ Damaged(file)
  BY <1>1 DEF Damaged, Blank, Written
<1>3. CASE file[Target].kind = "valid" /\ file[Target].seq = nextSeq
  <2>1. file[Target].payload \in attempted
    BY <1>3 DEF Harmless, TypeInv
  <2>2. Target \in ValidSlots(file)
    BY <1>1, <1>3 DEF ValidSlots
  <2>3. ASSUME NEW j \in ValidSlots(file)
        PROVE  file[j].seq <= nextSeq /\ (file[j].seq = nextSeq => j = Target)
    BY <1>1, <1>3, <2>3 DEF ValidSlots, Written, Blank, TypeInv
  <2>4. Newest(file) = file[Target]
    <3> DEFINE P(i) == \A j \in ValidSlots(file) : file[j].seq <= file[i].seq
    <3>1. P(Target)
      BY <1>3, <2>3
    <3>2. ASSUME NEW i \in ValidSlots(file), P(i) PROVE i = Target
      <4>1. file[Target].seq <= file[i].seq
        BY <2>2, <3>2
      <4>2. file[i].seq \in Nat /\ nextSeq \in Nat
        BY <1>1 DEF ValidSlots, Content, TypeInv
      <4> QED BY <4>1, <4>2, <1>3, <2>3
    <3> HIDE DEF P
    <3>3. (CHOOSE i \in ValidSlots(file) : P(i)) = Target
      BY <2>2, <3>1, <3>2
    <3> QED BY <2>2, <3>3 DEF Newest, P
  <2> QED BY <1>2, <1>3, <2>1, <2>4
<1>4. CASE ~ (file[Target].kind = "valid" /\ file[Target].seq = nextSeq)
  <2>1. file[Target].kind = "valid" => file[Target].seq + 1 < nextSeq
    BY <1>4 DEF Harmless
  <2>2. CASE nextSeq = 1
    <3>1. ValidSlots(file) = {}
      BY <1>1, <2>1, <2>2 DEF ValidSlots, Blank, Written, Content
    <3> QED BY <1>2, <1>4, <2>2, <3>1 DEF Newest, Blank, Written
  <2>3. CASE nextSeq > 1
    <3>1. file[Sibling] = Written(nextSeq - 1, known)
      BY <2>3 DEF TypeInv
    <3>2. Sibling \in ValidSlots(file) /\ file[Sibling].seq = nextSeq - 1
      BY <1>1, <3>1 DEF ValidSlots, Written
    <3>3. ASSUME NEW j \in ValidSlots(file)
          PROVE  /\ file[j].seq \in Nat /\ file[j].seq <= nextSeq - 1
                 /\ file[j].seq = nextSeq - 1 => j = Sibling
      BY <1>1, <2>1, <3>2 DEF ValidSlots, Content, TypeInv
    <3> DEFINE P(i) == \A j \in ValidSlots(file) : file[j].seq <= file[i].seq
    <3>4. P(Sibling)
      BY <3>2, <3>3
    <3>5. ASSUME NEW i \in ValidSlots(file), P(i) PROVE i = Sibling
      <4>1. file[Sibling].seq <= file[i].seq
        BY <3>2, <3>5
      <4> QED BY <4>1, <3>2, <3>3 DEF TypeInv
    <3> HIDE DEF P
    <3>6. (CHOOSE i \in ValidSlots(file) : P(i)) = Sibling
      BY <3>2, <3>4, <3>5
    <3>7. Newest(file) = file[Sibling]
      BY <3>2, <3>6 DEF Newest, P
    <3> QED BY <1>2, <1>4, <3>1, <3>2, <3>7 DEF Written
  <2> QED BY <2>2, <2>3 DEF TypeInv
<1> QED BY <1>3, <1>4

\* The empty file has the invariant.
LEMMA InitInv == Init => FileInv
<1> SUFFICES ASSUME Init PROVE FileInv
  OBVIOUS
<1>1. Target = 1 /\ Sibling = 0 /\ Slots = {0, 1}
  BY DEF Init, Target, Sibling, Slots
<1>2. Blank \in Content
  BY DEF Blank, Content
<1>3. TypeInv
  BY <1>2 DEF Init, TypeInv
<1>4. SiblingInv /\ TargetInv /\ NotNewer
  BY <1>1 DEF Init, SiblingInv, TargetInv, NotNewer, Harmless, Blank
<1> QED BY <1>3, <1>4 DEF FileInv

\* A confirmed write makes its slot the sibling of the next one.
LEMMA WriteKeeps ==
  ASSUME FileInv, NEW p \in Payloads, Write(p)
  PROVE  FileInv'
<1>1. /\ Target \in Slots /\ Sibling \in Slots /\ Target # Sibling
      /\ Target' = Sibling /\ Sibling' = Target
  BY Parity DEF FileInv, TypeInv, Target, Sibling, Write
<1>2. Written(nextSeq, p) \in Content
  BY DEF FileInv, TypeInv, Written, Content
<1>3. TypeInv'
  BY <1>1, <1>2 DEF FileInv, TypeInv, Write
<1>4. /\ cache'[Target] = Written(nextSeq, p)
      /\ cache'[Sibling] = cache[Sibling]
  BY <1>1 DEF FileInv, TypeInv, Write
<1>5. SiblingInv'
  BY <1>1, <1>4 DEF FileInv, TypeInv, SiblingInv, Write
<1>6. /\ maybe'[Target] = {Written(nextSeq, p)}
      /\ maybe'[Sibling] = {cache[Sibling]}
  BY <1>1, <1>4 DEF Write
<1>7. cache[Sibling].kind = "valid" => cache[Sibling].seq + 1 < nextSeq'
  BY DEF FileInv, TypeInv, SiblingInv, Write, Blank, Written
<1>8. TargetInv'
  BY <1>1, <1>4, <1>6, <1>7 DEF TargetInv, Harmless
<1>9. NotNewer'
  BY <1>1, <1>6 DEF FileInv, TypeInv, NotNewer, Written, Write
<1> QED BY <1>3, <1>5, <1>8, <1>9 DEF FileInv

\* A failed write touches only the slot it was meant for and keeps its turn.
LEMMA WriteFailsKeeps ==
  ASSUME FileInv, NEW p \in Payloads, WriteFails(p)
  PROVE  FileInv'
<1>1. /\ Target \in Slots /\ Sibling \in Slots /\ Target # Sibling
      /\ Target' = Target /\ Sibling' = Sibling
  BY Parity DEF FileInv, TypeInv, Target, Sibling, WriteFails
<1>2. PICK s \in {Torn, Written(nextSeq, p)} :
        /\ cache' = [cache EXCEPT ![Target] = s]
        /\ maybe' = [maybe EXCEPT ![Target] = @ \union {Torn, s}]
  BY DEF WriteFails
<1>3. Torn \in Content /\ s \in Content
  BY DEF FileInv, TypeInv, Torn, Written, Content
<1>4. TypeInv'
  BY <1>1, <1>2, <1>3 DEF FileInv, TypeInv, WriteFails
<1>5. /\ cache'[Target] = s /\ cache'[Sibling] = cache[Sibling]
      /\ maybe'[Target] = maybe[Target] \union {Torn, s}
      /\ maybe'[Sibling] = maybe[Sibling]
  BY <1>1, <1>2 DEF FileInv, TypeInv
<1>6. SiblingInv' /\ NotNewer'
  BY <1>1, <1>5 DEF FileInv, SiblingInv, NotNewer, WriteFails
<1>7. ASSUME NEW c, Harmless(c) PROVE Harmless(c)'
  BY <1>7 DEF Harmless, WriteFails
<1>8. Harmless(s)' /\ Harmless(Torn)'
  BY DEF Harmless, Torn, Written, WriteFails
<1>9. TargetInv'
  BY <1>1, <1>5, <1>7, <1>8 DEF FileInv, TargetInv
<1> QED BY <1>4, <1>6, <1>9 DEF FileInv

\* Reading back what a killed process left: its last value, or the attempt it
\* had already written whole, whose slot then becomes the sibling.
LEMMA KillKeeps ==
  ASSUME FileInv, Kill
  PROVE  FileInv'
<1>1. /\ Target \in Slots /\ Sibling \in Slots /\ Target # Sibling
  BY Parity DEF FileInv, TypeInv, Target, Sibling
<1>2. cache \in [Slots -> Content] /\ nextSeq \in Nat \ {0}
  BY DEF FileInv, TypeInv
<1>3. \/ /\ cache[Target].kind = "valid" /\ cache[Target].seq = nextSeq
         /\ Newest(cache) = cache[Target]
         /\ cache[Target].payload \in attempted
      \/ /\ Newest(cache).seq = nextSeq - 1
         /\ Newest(cache).payload = known
  BY <1>2, NewestIs DEF FileInv, SiblingInv, TargetInv
<1>4. /\ cache' = cache /\ maybe' = maybe /\ attempted' = attempted
      /\ nextSeq' = Newest(cache).seq + 1 /\ known' = Newest(cache).payload
  BY DEF Kill, Open
<1>5. CASE Newest(cache).seq = nextSeq - 1 /\ Newest(cache).payload = known
  <2>1. nextSeq' = nextSeq /\ known' = known
    BY <1>2, <1>4, <1>5
  <2>2. Target' = Target /\ Sibling' = Sibling
    BY <2>1 DEF Target, Sibling
  <2>3. ASSUME NEW c, Harmless(c) PROVE Harmless(c)'
    BY <1>4, <2>1, <2>3 DEF Harmless
  <2> QED BY <1>4, <2>1, <2>2, <2>3
          DEF FileInv, TypeInv, SiblingInv, TargetInv, NotNewer
<1>6. CASE /\ cache[Target].kind = "valid" /\ cache[Target].seq = nextSeq
           /\ Newest(cache) = cache[Target]
           /\ cache[Target].payload \in attempted
  <2>1. nextSeq' = nextSeq + 1 /\ known' = cache[Target].payload
    BY <1>4, <1>6
  <2>2. Target' = Sibling /\ Sibling' = Target
    BY <1>2, <2>1, Parity DEF Target, Sibling
  <2>3. cache[Target] = Written(nextSeq, known')
    BY <1>1, <1>2, <1>6, <2>1 DEF Content, Written
  <2>4. TypeInv'
    BY <1>4, <1>6, <2>1 DEF FileInv, TypeInv
  <2>5. SiblingInv'
    BY <1>2, <1>4, <2>1, <2>2, <2>3 DEF SiblingInv
  <2>6. ASSUME NEW c \in Content, c.kind = "valid" => c.seq < nextSeq
        PROVE  Harmless(c)'
    BY <1>2, <2>1, <2>6 DEF Harmless, Content
  <2>7. cache[Sibling].kind = "valid" => cache[Sibling].seq < nextSeq
    BY <1>2 DEF FileInv, SiblingInv, Blank, Written
  <2>8. TargetInv'
    BY <1>1, <1>2, <1>4, <2>2, <2>6, <2>7
    DEF FileInv, TypeInv, TargetInv, NotNewer
  <2>9. ASSUME NEW c \in maybe[Target], c.kind = "valid"
        PROVE  c.seq < nextSeq + 1
    <3>1. c \in Content /\ Harmless(c)
      BY <1>1 DEF FileInv, TypeInv, TargetInv
    <3> QED BY <1>2, <2>9, <3>1 DEF Harmless, Content
  <2>10. NotNewer'
    BY <1>4, <2>1, <2>2, <2>9 DEF NotNewer
  <2> QED BY <2>4, <2>5, <2>8, <2>10 DEF FileInv
<1> QED BY <1>3, <1>5, <1>6

\* The files a power cut may leave, slot by slot.
LEMMA CutFile ==
  ASSUME FileInv, SiblingSynced, NEW file \in CutFiles
  PROVE  /\ file \in [Slots -> Content]
         /\ file[Sibling] = cache[Sibling]
         /\ Harmless(file[Target])
<1>1. Target \in Slots /\ Sibling \in Slots /\ Slots = {0, 1}
  BY Parity DEF FileInv, TypeInv, Target, Sibling, Slots
<1>2. PICK a \in maybe[0], b \in maybe[1] :
        file = [i \in Slots |-> IF i = 0 THEN a ELSE b]
  BY DEF CutFiles
<1>3. \A i \in Slots : file[i] \in maybe[i]
  BY <1>1, <1>2
<1>4. file \in [Slots -> Content]
  BY <1>1, <1>2 DEF FileInv, TypeInv
<1> QED BY <1>1, <1>3, <1>4 DEF FileInv, TargetInv, SiblingSynced

\* After a power cut the file on the disk is the only one.
LEMMA CutKeeps ==
  ASSUME FileInv, SiblingSynced, PowerCut
  PROVE  FileInv'
<1>1. Target \in Slots /\ Sibling \in Slots /\ Target # Sibling
  BY Parity DEF FileInv, TypeInv, Target, Sibling
<1>2. PICK file \in CutFiles :
        Open(file) /\ maybe' = [i \in Slots |-> {file[i]}]
  BY DEF PowerCut
<1>3. /\ file \in [Slots -> Content] /\ nextSeq \in Nat \ {0}
      /\ file[Sibling] = cache[Sibling] /\ Harmless(file[Target])
  BY CutFile DEF FileInv, TypeInv
<1>4. /\ cache' = file /\ attempted' = {}
      /\ nextSeq' = Newest(file).seq + 1 /\ known' = Newest(file).payload
      /\ maybe'[Target] = {file[Target]} /\ maybe'[Sibling] = {file[Sibling]}
      /\ maybe' \in [Slots -> SUBSET Content]
  BY <1>1, <1>2, <1>3 DEF PowerCut, Open
<1>5. \/ /\ file[Target].kind = "valid" /\ file[Target].seq = nextSeq
         /\ Newest(file) = file[Target]
         /\ file[Target].payload \in attempted
      \/ /\ Newest(file).seq = nextSeq - 1
         /\ Newest(file).payload = known
         /\ ~ (file[Target].kind = "valid" /\ file[Target].seq = nextSeq)
  BY <1>3, NewestIs DEF FileInv, SiblingInv
<1>6. file[Sibling].kind = "valid" => file[Sibling].seq + 1 <= nextSeq
  BY <1>3 DEF FileInv, SiblingInv, Blank, Written
<1>7. CASE /\ Newest(file).seq = nextSeq - 1
           /\ Newest(file).payload = known
           /\ ~ (file[Target].kind = "valid" /\ file[Target].seq = nextSeq)
  <2>1. nextSeq' = nextSeq /\ known' = known
    BY <1>3, <1>4, <1>7
  <2>2. Target' = Target /\ Sibling' = Sibling
    BY <2>1 DEF Target, Sibling
  <2>3. TypeInv'
    BY <1>3, <1>4, <2>1 DEF FileInv, TypeInv
  <2>4. SiblingInv'
    BY <1>3, <1>4, <2>1, <2>2 DEF FileInv, SiblingInv
  <2>5. TargetInv'
    BY <1>3, <1>4, <1>7, <2>1, <2>2 DEF TargetInv, Harmless
  <2>6. NotNewer'
    BY <1>1, <1>3, <1>4, <1>6, <2>1, <2>2 DEF NotNewer, Content
  <2> QED BY <2>3, <2>4, <2>5, <2>6 DEF FileInv
<1>8. CASE /\ file[Target].kind = "valid" /\ file[Target].seq = nextSeq
           /\ Newest(file) = file[Target]
           /\ file[Target].payload \in attempted
  <2>1. nextSeq' = nextSeq + 1 /\ known' = file[Target].payload
    BY <1>4, <1>8
  <2>2. Target' = Sibling /\ Sibling' = Target
    BY <1>3, <2>1, Parity DEF Target, Sibling
  <2>3. file[Target] = Written(nextSeq, known')
    BY <1>1, <1>3, <1>8, <2>1 DEF Content, Written
  <2>4. TypeInv'
    BY <1>3, <1>4, <1>8, <2>1 DEF FileInv, TypeInv
  <2>5. SiblingInv'
    BY <1>3, <1>4, <2>1, <2>2, <2>3 DEF SiblingInv
  <2>6. TargetInv'
    BY <1>1, <1>3, <1>4, <1>6, <2>1, <2>2 DEF TargetInv, Harmless, Content
  <2>7. NotNewer'
    BY <1>3, <1>4, <1>8, <2>1, <2>2 DEF NotNewer
  <2> QED BY <2>4, <2>5, <2>6, <2>7 DEF FileInv
<1> QED BY <1>5, <1>7, <1>8

\* As long as no power cut meets a slot that open trusted from a killed
\* writer's cache, every step keeps the invariant.
LEMMA StepKeeps ==
  ASSUME ~ CutAfterKill
  PROVE  FileInv /\ [Next]_vars => FileInv'
<1> SUFFICES ASSUME FileInv, [Next]_vars PROVE FileInv'
  OBVIOUS
<1>1. ASSUME NEW p \in Payloads, Write(p) \/ WriteFails(p) PROVE FileInv'
  BY <1>1, WriteKeeps, WriteFailsKeeps
<1>2. CASE Kill
  BY <1>2, KillKeeps
<1>3. CASE PowerCut
  BY <1>3, CutKeeps DEF PowerCut
<1>4. CASE UNCHANGED vars
  BY <1>4 DEF vars, FileInv, TypeInv, SiblingInv, TargetInv, NotNewer,
              Harmless, Target, Sibling
<1> QED BY <1>1, <1>2, <1>3, <1>4 DEF Next

\* In a state with the invariant every crash is recoverable.
LEMMA SafeByInv == FileInv => CrashSafe
<1> SUFFICES ASSUME FileInv PROVE CrashSafe
  OBVIOUS
<1>1. Recoverable(cache)
  BY NewestIs DEF FileInv, TypeInv, SiblingInv, TargetInv, Recoverable
<1>2. ASSUME SiblingSynced, NEW file \in CutFiles PROVE Recoverable(file)
  BY <1>2, CutFile, NewestIs DEF FileInv, SiblingInv, Recoverable
<1> QED BY <1>1, <1>2 DEF CrashSafe

\* Whatever open finds, it is a content of the file's type.
LEMMA NewestTyped ==
  ASSUME NEW file \in [Slots -> Content]
  PROVE  Newest(file) \in Content
<1> DEFINE P(i) == \A j \in ValidSlots(file) : file[j].seq <= file[i].seq
<1>1. CASE ValidSlots(file) = {}
  BY <1>1 DEF Newest, Blank, Content
<1>2. CASE ValidSlots(file) # {}
  <2>1. \E i \in ValidSlots(file) : P(i)
    <3>1. \A i \in Slots : file[i].seq \in Nat
      BY DEF Content
    <3>2. ValidSlots(file) \in {{0}, {1}, {0, 1}}
      BY <1>2 DEF ValidSlots, Slots
    <3> QED BY <3>1, <3>2 DEF Slots
  <2> HIDE DEF P
  <2>2. (CHOOSE i \in ValidSlots(file) : P(i)) \in Slots
    BY <2>1 DEF ValidSlots
  <2>3. Newest(file) = file[CHOOSE i \in ValidSlots(file) : P(i)]
    BY <1>2 DEF Newest, P
  <2> QED BY <2>2, <2>3
<1> QED BY <1>1, <1>2

\* The types need no assumption on power cuts.
LEMMA TypeKeeps == TypeInv /\ [Next]_vars => TypeInv'
<1> SUFFICES ASSUME TypeInv, [Next]_vars PROVE TypeInv'
  OBVIOUS
<1>0. Target \in Slots
  BY Parity DEF TypeInv, Target
<1>1. ASSUME NEW p \in Payloads PROVE Torn \in Content /\ Written(nextSeq, p) \in Content
  BY DEF TypeInv, Torn, Written, Content
<1>2. ASSUME NEW p \in Payloads, Write(p) PROVE TypeInv'
  BY <1>0, <1>1, <1>2 DEF TypeInv, Write
<1>3. ASSUME NEW p \in Payloads, WriteFails(p) PROVE TypeInv'
  <2>1. PICK s \in {Torn, Written(nextSeq, p)} :
          /\ cache' = [cache EXCEPT ![Target] = s]
          /\ maybe' = [maybe EXCEPT ![Target] = @ \union {Torn, s}]
    BY <1>3 DEF WriteFails
  <2>2. Torn \in Content /\ s \in Content
    BY <1>1
  <2>3. cache' \in [Slots -> Content]
    BY <1>0, <2>1, <2>2 DEF TypeInv
  <2>4. maybe' \in [Slots -> SUBSET Content]
    BY <1>0, <2>1, <2>2 DEF TypeInv
  <2> QED BY <1>3, <2>3, <2>4 DEF TypeInv, WriteFails
<1>4. ASSUME NEW file \in [Slots -> Content], Open(file)
      PROVE  /\ nextSeq' \in Nat \ {0} /\ known' \in Payloads \union {Fresh}
             /\ cache' \in [Slots -> Content]
  <2>1. Newest(file).seq \in Nat /\ Newest(file).payload \in Payloads \union {Fresh}
    BY NewestTyped DEF Content
  <2> QED BY <1>4, <2>1 DEF Open
<1>5. CASE Kill
  <2>1. cache \in [Slots -> Content] /\ Open(cache)
    BY <1>5 DEF Kill, TypeInv
  <2>2. /\ nextSeq' \in Nat \ {0} /\ known' \in Payloads \union {Fresh}
        /\ cache' \in [Slots -> Content]
    BY <1>4, <2>1
  <2> QED BY <1>5, <2>2 DEF Kill, TypeInv
<1>6. CASE PowerCut
  <2>1. PICK file \in CutFiles :
          Open(file) /\ maybe' = [i \in Slots |-> {file[i]}]
    BY <1>6 DEF PowerCut
  <2>2. PICK a \in maybe[0], b \in maybe[1] :
          file = [i \in Slots |-> IF i = 0 THEN a ELSE b]
    BY DEF CutFiles
  <2>3. file \in [Slots -> Content]
    BY <2>2 DEF TypeInv, Slots
  <2>4. /\ nextSeq' \in Nat \ {0} /\ known' \in Payloads \union {Fresh}
        /\ cache' \in [Slots -> Content]
    BY <1>4, <2>1, <2>3
  <2>5. maybe' \in [Slots -> SUBSET Content] /\ attempted' = {}
    BY <1>6, <2>1, <2>3 DEF PowerCut
  <2> QED BY <2>4, <2>5 DEF TypeInv
<1>7. CASE UNCHANGED vars
  BY <1>7 DEF vars, TypeInv
<1> QED BY <1>2, <1>3, <1>5, <1>6, <1>7 DEF Next

\* For any payloads and any number of writes, failed or torn writes, kills and
\* power cuts, SlotCheckpoint::open recovers the last value write confirmed or
\* one that was tried later, and never finds both slots corrupt.
THEOREM CrashSafeHolds ==
  ASSUME ~ CutAfterKill
  PROVE  Spec => []CrashSafe
<1>1. FileInv => CrashSafe
  BY SafeByInv
<1>2. FileInv /\ [Next]_vars => FileInv'
  BY StepKeeps
<1> QED BY <1>1, <1>2, InitInv, PTL DEF Spec
=============================================================================
