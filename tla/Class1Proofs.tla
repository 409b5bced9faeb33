---------------------------- MODULE Class1Proofs ----------------------------
(***************************************************************************)
(* Proofs about the CFDP class 1 receiver, for any PDUs, sizes and         *)
(* timeouts: its table is bounded, and what it makes of the segments and   *)
(* the end-of-file of a correct sender.                                    *)
(***************************************************************************)
EXTENDS Class1Link, BasicLemmas

Symbols == STRING \cup {Zero}

\* The table keeps its bound, and is finite.
TableInv == IsFiniteSet(DOMAIN active) /\ TableBounded

LEMMA OpenedKeeps ==
  ASSUME TableInv, NEW id, HasRoom(id)
  PROVE  /\ IsFiniteSet(DOMAIN Opened(id)) /\ Cardinality(DOMAIN Opened(id)) <= MaxActive
         /\ DOMAIN Opened(id) = DOMAIN active \cup {id}
<1> DEFINE D == DOMAIN active
<1>1. IsFiniteSet(D) /\ Cardinality(D) <= MaxActive /\ Cardinality(D) \in Nat
  BY FS_CardinalityType DEF TableInv, TableBounded
<1>2. CASE id \in D
  BY <1>1, <1>2 DEF Opened
<1>3. CASE id \notin D
  <2>1. DOMAIN Opened(id) = D \cup {id}
    BY <1>3 DEF Opened, With
  <2>2. IsFiniteSet(D \cup {id}) /\ Cardinality(D \cup {id}) = Cardinality(D) + 1
    BY <1>1, <1>3, FS_AddElement
  <2>3. Cardinality(D) < MaxActive
    BY <1>3 DEF HasRoom
  <2>4. QED
    BY <1>1, <2>1, <2>2, <2>3, BoundAssumption
<1>4. QED
  BY <1>2, <1>3

LEMMA PartKeeps ==
  ASSUME TableInv, NEW T, T \subseteq DOMAIN active
  PROVE  IsFiniteSet(T) /\ Cardinality(T) <= MaxActive
<1>1. /\ IsFiniteSet(DOMAIN active) /\ Cardinality(DOMAIN active) <= MaxActive
      /\ Cardinality(DOMAIN active) \in Nat
  BY FS_CardinalityType DEF TableInv, TableBounded
<1>2. IsFiniteSet(T) /\ Cardinality(T) <= Cardinality(DOMAIN active) /\ Cardinality(T) \in Nat
  BY <1>1, FS_Subset, FS_CardinalityType
<1>3. QED
  BY <1>1, <1>2, BoundAssumption

LEMMA WithoutIs ==
  ASSUME NEW f, NEW T
  PROVE  /\ DOMAIN Without(f, T) = DOMAIN f \ T
         /\ \A z \in DOMAIN f \ T : Without(f, T)[z] = f[z]
BY DEF Without, Restrict

LEMMA TableStep ==
  ASSUME TableInv, [Next]_cvars
  PROVE  TableInv'
<1>1. ASSUME NEW p \in Pdus, FileData(p) \/ Metadata(p)
      PROVE  TableInv'
  <2>1. HasRoom(p.tx) /\ DOMAIN active' = DOMAIN Opened(p.tx)
    BY <1>1 DEF FileData, Metadata
  <2>2. QED
    BY <2>1, OpenedKeeps DEF TableInv, TableBounded
<1>2. ASSUME NEW p \in Pdus, Eof(p)
      PROVE  TableInv'
  <2>1. DOMAIN active' = DOMAIN active
    BY <1>2 DEF Eof
  <2>2. QED
    BY <2>1 DEF TableInv, TableBounded
<1>3. ASSUME NEW p \in Pdus, TableFull(p) \/ Ignored(p)
      PROVE  TableInv'
  BY <1>3 DEF TableFull, Ignored, TableInv, TableBounded
<1>4. ASSUME NEW T, active' = Without(active, T)
      PROVE  TableInv'
  <2>1. DOMAIN active' \subseteq DOMAIN active
    BY <1>4 DEF Without, Restrict
  <2>2. QED
    BY <2>1, PartKeeps DEF TableInv, TableBounded
<1>5. ASSUME NEW id \in TxIds, FinalizeTransaction(id) \/ Cancel(id)
      PROVE  TableInv'
  BY <1>4, <1>5 DEF FinalizeTransaction, Cancel
<1>6. CASE Poll
  BY <1>4, <1>6 DEF Poll
<1>7. CASE SendFile \/ Elapse \/ UNCHANGED cvars
  BY <1>7 DEF SendFile, Elapse, cvars, TableInv, TableBounded
<1>8. QED
  BY <1>1, <1>2, <1>3, <1>5, <1>6, <1>7 DEF Next, OnPdu

\* TableBounded: the table never holds more than CFDP_MAX_TRANSACTIONS.
THEOREM AlwaysTableBounded == Spec => []TableBounded
<1>1. Init => TableInv
  <2>1. DOMAIN <<>> = {}
    <3>1. <<>> \in Seq({}) /\ Len(<<>>) = 0
      BY EmptySeq
    <3>2. QED
      BY <3>1
  <2>2. QED
    BY <2>1, FS_EmptySet, BoundAssumption DEF Init, TableInv, TableBounded
<1>2. TableInv /\ [Next]_cvars => TableInv'
  BY TableStep
<1>3. TableInv => TableBounded
  BY DEF TableInv
<1>4. QED
  BY <1>1, <1>2, <1>3, PTL DEF Spec
-----------------------------------------------------------------------------
(* What is written of a correct sender's file                              *)

\* A partial file of a correct sender: none, or no longer than the file
OnDisk(id) ==
  partial[id] = None \/ (partial[id] \in Seq(Symbols) /\ Len(partial[id]) <= Len(File[id]))

StateSound(id, t) ==
  /\ DOMAIN t = {"meta", "bytes", "crc", "lastPduTai"}
  /\ t.meta \in {None, Dest[id]} /\ t.crc \in {None, File[id]}

\* What has been written of the file since it was opened is there.
WrittenSound(id) ==
  \A k \in written[id] : /\ partial[id] # None /\ k \in 1..Len(partial[id])
                         /\ partial[id][k] = File[id][k]

\* The inductive invariant
LinkInv ==
  /\ DOMAIN written = DOMAIN active
  /\ DOMAIN partial = TxIds /\ DOMAIN files = Paths
  /\ \A id \in Correct : OnDisk(id)
  /\ \A id \in DOMAIN active \cap Correct : StateSound(id, active[id]) /\ WrittenSound(id)

LEMMA FileIs ==
  ASSUME NEW id \in Correct
  PROVE  /\ id \in TxIds /\ File[id] \in Seq(Symbols) /\ Len(File[id]) \in Nat
         /\ Len(File[id]) > 0 /\ Dest[id] \in Names /\ File[id] # None
         /\ \A k \in 1..Len(File[id]) : File[id][k] \in Symbols
<1>1. File[id] \in Seq(Symbols) /\ File[id] # <<>>
  BY SenderAssumption DEF Contents, Symbols
<1>2. Len(File[id]) \in Nat /\ (Len(File[id]) = 0 => File[id] = <<>>)
  BY <1>1, LenProperties, EmptySeq
<1>3. QED
  BY <1>1, <1>2, SenderAssumption, NoneAssumption, ElementOfSeq DEF Contents, Symbols

\* A PDU of a correct sender
LEMMA SentIs ==
  ASSUME NEW p \in Pdus, p.tx \in Correct
  PROVE  LET id == p.tx IN
         /\ p.kind = "FileData" =>
              /\ p.data \in Seq(Symbols) /\ p.offset \in Nat
              /\ p.data = <<>> \/ p.offset + Len(p.data) <= Len(File[id])
              /\ \A j \in 1..Len(p.data) : p.data[j] = File[id][p.offset + j]
         /\ p.kind = "Metadata" => p.dest = Dest[id]
         /\ p.kind = "Eof" => ~p.error /\ p.crc = File[id]
<1>1. PICK id \in Correct : p \in SentPdus(id)
  BY SenderAssumption
<1>2. CASE \E k \in 0..((Len(File[id]) - 1) \div Segment) : p = SegmentPdu(id, k)
  <2>1. PICK k \in 0..((Len(File[id]) - 1) \div Segment) : p = SegmentPdu(id, k)
    BY <1>2
  <2> DEFINE L == Len(File[id])
             o == k * Segment
             e == IF (k + 1) * Segment <= L THEN (k + 1) * Segment ELSE L
             d == SubSeq(File[id], o + 1, e)
  <2>2. p.kind = "FileData" /\ p.tx = id /\ p.offset = o /\ p.data = d
    BY <2>1 DEF SegmentPdu
  <2>3. k \in Nat /\ L \in Nat /\ Segment \in Nat
    BY FileIs, SenderAssumption
  <2>4. o \in Nat /\ e \in Nat /\ e <= L
    BY <2>3
  <2> HIDE DEF o, e
  <2>5. \A i \in (o + 1)..e : File[id][i] \in Symbols
    BY <2>3, <2>4, FileIs
  <2>6. /\ d \in Seq(Symbols) /\ Len(d) = IF o + 1 <= e THEN e - (o + 1) + 1 ELSE 0
        /\ \A i \in 1..(e - (o + 1) + 1) : d[i] = File[id][(o + 1) + i - 1]
    BY <2>4, <2>5, SubSeqProperties
  <2> HIDE DEF d, L
  <2>7. d = <<>> \/ o + Len(d) <= L
    BY <2>3, <2>4, <2>6, EmptySeq
  <2>8. \A j \in 1..Len(d) : d[j] = File[id][o + j]
    BY SMTT(30), <2>3, <2>4, <2>6
  <2>9. QED
    BY <2>2, <2>4, <2>6, <2>7, <2>8 DEF L
<1>3. CASE p = [kind |-> "Metadata", tx |-> id, ok |-> TRUE, dest |-> Dest[id]]
  BY <1>3
<1>4. CASE p = [kind |-> "Eof", tx |-> id, ok |-> TRUE, error |-> FALSE, crc |-> File[id]]
  BY <1>4
<1>5. QED
  BY <1>1, <1>2, <1>3, <1>4 DEF SentPdus

LEMMA OpenedIs ==
  ASSUME NEW x
  PROVE  /\ DOMAIN Opened(x) = DOMAIN active \cup {x}
         /\ \A j \in DOMAIN active : Opened(x)[j] = active[j]
         /\ x \notin DOMAIN active => Opened(x)[x] = NewState
BY DEF Opened, With

LEMMA OpenedSound ==
  ASSUME LinkInv, NEW x \in Correct
  PROVE  StateSound(x, Opened(x)[x])
<1>1. CASE x \in DOMAIN active
  BY <1>1, OpenedIs DEF LinkInv
<1>2. CASE x \notin DOMAIN active
  <2>1. StateSound(x, NewState)
    BY DEF StateSound, NewState
  <2>2. QED
    BY <1>2, <2>1, OpenedIs
<1>3. QED
  BY <1>1, <1>2

\* A step that opens or changes x in the table and writes nothing
LEMMA TouchedSound ==
  ASSUME LinkInv, NEW x, DOMAIN active' = DOMAIN active \cup {x},
         \A j \in DOMAIN active : j # x => active'[j] = active[j],
         x \in Correct => StateSound(x, active'[x]),
         Heard(x, {}), UNCHANGED <<partial, files>>
  PROVE  LinkInv'
<1>1. /\ DOMAIN written' = DOMAIN active'
      /\ \A j \in DOMAIN active' : written'[j] = IF j \in DOMAIN active THEN written[j] ELSE {}
  BY DEF Heard
<1>2. DOMAIN partial' = TxIds /\ DOMAIN files' = Paths /\ \A id \in Correct : OnDisk(id)'
  BY DEF LinkInv, OnDisk
<1>3. ASSUME NEW id \in DOMAIN active' \cap Correct
      PROVE  StateSound(id, active'[id]) /\ WrittenSound(id)'
  <2>1. StateSound(id, active'[id])
    BY DEF LinkInv
  <2>2. WrittenSound(id)'
    BY <1>1 DEF LinkInv, WrittenSound
  <2>3. QED
    BY <2>1, <2>2
<1>4. QED
  BY <1>1, <1>2, <1>3 DEF LinkInv, StateSound

\* A step that ends the transactions of T
LEMMA EndedSound ==
  ASSUME LinkInv, NEW T, active' = Without(active, T), Forgotten,
         DOMAIN partial' = TxIds, DOMAIN files' = Paths,
         \A id \in Correct : partial'[id] = partial[id] \/ (id \in T /\ partial'[id] = None)
  PROVE  LinkInv'
<1>1. /\ DOMAIN active' = DOMAIN active \ T
      /\ \A j \in DOMAIN active \ T : active'[j] = active[j]
  BY DEF Without, Restrict
<1>2. /\ DOMAIN written' = DOMAIN active'
      /\ \A j \in DOMAIN active' : written'[j] = written[j]
  BY <1>1 DEF Forgotten, Restrict, LinkInv
<1>3. ASSUME NEW id \in Correct
      PROVE  OnDisk(id)'
  BY DEF LinkInv, OnDisk
<1>4. ASSUME NEW id \in DOMAIN active' \cap Correct
      PROVE  StateSound(id, active'[id]) /\ WrittenSound(id)'
  BY <1>1, <1>2 DEF LinkInv, WrittenSound
<1>5. QED
  BY <1>2, <1>3, <1>4 DEF LinkInv, StateSound

\* w is c with d laid over it at offset o, and d is what f has there.
Lays(w, c, o, d, f) ==
  /\ w \in Seq(Symbols) /\ Len(w) <= Len(f)
  /\ \A k \in 1..Len(c) : k \notin (o + 1)..(o + Len(d)) => k \in 1..Len(w) /\ w[k] = c[k]
  /\ \A k \in (o + 1)..(o + Len(d)) : k \in 1..Len(w) /\ w[k] = f[k]

\* d is what f has at offset o.
PartOf(d, o, f) ==
  /\ o \in Nat /\ d \in Seq(Symbols) /\ (d = <<>> \/ o + Len(d) <= Len(f))
  /\ \A j \in 1..Len(d) : d[j] = f[o + j]

\* What a segment, or the part of it that was written, leaves on disk
LEMMA SegmentWritten ==
  ASSUME LinkInv, NEW x \in Correct, NEW o, NEW d, PartOf(d, o, File[x]),
         NEW w, w = WriteAt(FileOf(partial[x]), o, d)
  PROVE  Lays(w, FileOf(partial[x]), o, d, File[x])
<1> DEFINE c == FileOf(partial[x])
           f == File[x]
           n == Len(f)
<1>1. /\ d \in Seq(Symbols) /\ o \in Nat /\ (d = <<>> \/ o + Len(d) <= n)
      /\ \A j \in 1..Len(d) : d[j] = f[o + j]
  BY DEF PartOf
<1>2. n \in Nat
  BY FileIs
<1>3. c \in Seq(Symbols) /\ Len(c) <= n
  BY <1>2, EmptySeq DEF LinkInv, OnDisk, FileOf
<1>4. w = WriteAt(c, o, d)
  OBVIOUS
<1> HIDE DEF c, f, n
<1>5. /\ w \in Seq(Symbols) /\ Len(w) <= n
      /\ \A k \in 1..Len(c) : k \notin (o + 1)..(o + Len(d)) => k \in 1..Len(w) /\ w[k] = c[k]
      /\ \A k \in (o + 1)..(o + Len(d)) : k \in 1..Len(w) /\ w[k] = f[k]
  <2> DEFINE l == IF Len(c) > o + Len(d) THEN Len(c) ELSE o + Len(d)
             W(k) == CASE k \in (o + 1)..(o + Len(d)) -> d[k - o]
                       [] k \notin (o + 1)..(o + Len(d)) /\ k <= Len(c) -> c[k]
                       [] OTHER -> Zero
  <2>1. /\ Len(c) \in Nat /\ Len(d) \in Nat
        /\ \A j \in 1..Len(d) : d[j] = f[o + j]
    BY <1>1, <1>3, LenProperties
  <2>2. CASE d = <<>>
    <3>1. Len(d) = 0 /\ w = c
      BY <1>4, <2>2, EmptySeq DEF WriteAt
    <3>2. QED
      BY <1>1, <1>3, <2>1, <3>1
  <2>3. CASE d # <<>>
    <3>1. w = [k \in 1..l |-> W(k)]
      BY <1>4, <2>3 DEF WriteAt
    <3>2. l \in Nat /\ l <= n /\ Len(c) <= l /\ o + Len(d) <= l
      BY <1>1, <1>3, <2>1, <2>3
    <3>3. \A k \in (o + 1)..(o + Len(d)) : k - o \in 1..Len(d) /\ o + (k - o) = k /\ k \in 1..l
      BY <1>1, <2>1, <3>2
    <3>4. \A k \in (o + 1)..(o + Len(d)) : W(k) = d[k - o] /\ d[k - o] = f[k] /\ d[k - o] \in Symbols
      <4>1. \A j \in 1..Len(d) : d[j] \in Symbols
        BY <1>1, ElementOfSeq
      <4>2. QED
        BY <2>1, <3>3, <4>1
    <3>5. \A k \in 1..Len(c) : k \notin (o + 1)..(o + Len(d)) => W(k) = c[k] /\ c[k] \in Symbols
      BY <1>3, <2>1, ElementOfSeq
    <3>6. \A k \in 1..l : k \notin (o + 1)..(o + Len(d)) /\ k \notin 1..Len(c) => W(k) = Zero
      BY <1>1, <2>1, <3>2
    <3>7. Zero \in Symbols
      BY DEF Symbols
    <3> HIDE DEF W, l
    <3>8. \A k \in 1..l : W(k) \in Symbols
      BY <3>4, <3>5, <3>6, <3>7
    <3>9. w \in Seq(Symbols) /\ Len(w) = l /\ \A k \in 1..l : w[k] = W(k)
      <4>1. [k \in 1..l |-> W(k)] \in [1..l -> Symbols]
        BY <3>8
      <4>2. w \in [1..l -> Symbols]
        BY <3>1, <4>1
      <4>3. w \in Seq(Symbols)
        BY <3>2, <4>2
      <4>4. Len(w) = l
        BY <3>2, <4>2, <4>3, LenProperties
      <4>5. QED
        BY <3>1, <4>3, <4>4
    <3>10. \A k \in 1..Len(c) : k \in 1..l
      BY <2>1, <3>2
    <3>11. QED
      BY <3>2, <3>3, <3>4, <3>5, <3>9, <3>10
  <2>4. QED
    BY <2>2, <2>3
<1>6. QED
  BY <1>5 DEF c, f, n, Lays

\* The first n symbols of a segment that was sent
LEMMA PartIs ==
  ASSUME NEW p \in Pdus, p.kind = "FileData", p.tx \in Correct, NEW n \in Nat,
         n <= Len(p.data), NEW d, d = SubSeq(p.data, 1, n)
  PROVE  PartOf(d, p.offset, File[p.tx]) /\ Len(d) = n
<1> DEFINE c == p.data
           o == p.offset
           f == File[p.tx]
<1>1. /\ c \in Seq(Symbols) /\ o \in Nat /\ (c = <<>> \/ o + Len(c) <= Len(f))
      /\ \A j \in 1..Len(c) : c[j] = f[o + j]
  BY SentIs
<1>2. Len(c) \in Nat /\ Len(f) \in Nat /\ n <= Len(c) /\ d = SubSeq(c, 1, n)
  BY <1>1, FileIs, LenProperties
<1> HIDE DEF c, o, f
<1>3. \A i \in 1..n : c[i] \in Symbols
  BY <1>1, <1>2, ElementOfSeq
<1>4. /\ d \in Seq(Symbols) /\ Len(d) = IF 1 <= n THEN n - 1 + 1 ELSE 0
      /\ \A i \in 1..(n - 1 + 1) : d[i] = c[1 + i - 1]
  BY <1>2, <1>3, SubSeqProperties
<1>5. Len(d) = n /\ \A j \in 1..n : d[j] = c[j] /\ j \in 1..Len(c)
  BY <1>2, <1>4
<1>6. d = <<>> \/ o + n <= Len(f)
  <2>1. CASE n = 0
    BY <1>4, <1>5, <2>1, EmptySeq
  <2>2. CASE n # 0
    BY <1>1, <1>2, <2>2, EmptySeq
  <2>3. QED
    BY <2>1, <2>2
<1>7. QED
  BY <1>1, <1>4, <1>5, <1>6 DEF c, o, f, PartOf

\* A step that writes d at offset o, and counts it or not
LEMMA WrittenStep ==
  ASSUME LinkInv, NEW x, NEW o, NEW d, NEW n,
         DOMAIN active' = DOMAIN active \cup {x},
         \A j \in DOMAIN active : j # x => active'[j] = active[j],
         x \in Correct => /\ StateSound(x, active'[x])
                          /\ PartOf(d, o, File[x]) /\ Len(d) = n,
         partial' = [partial EXCEPT ![x] = WriteAt(FileOf(@), o, d)],
         Heard(x, (o + 1)..(o + n)), UNCHANGED files
  PROVE  LinkInv'
<1> DEFINE ps == (o + 1)..(o + n)
           w == WriteAt(FileOf(partial[x]), o, d)
<1>2. /\ DOMAIN written' = DOMAIN active'
      /\ \A j \in DOMAIN active' :
           written'[j] = (IF j \in DOMAIN active THEN written[j] ELSE {})
                            \cup (IF j = x THEN ps ELSE {})
  BY DEF Heard
<1>3. /\ DOMAIN partial' = TxIds /\ DOMAIN files' = Paths
      /\ \A j \in TxIds : j # x => partial'[j] = partial[j]
      /\ x \in TxIds => partial'[x] = w
  BY DEF LinkInv
<1> HIDE DEF w
<1>4. ASSUME NEW id \in Correct, id # x
      PROVE  /\ OnDisk(id)'
             /\ id \in DOMAIN active' => StateSound(id, active'[id]) /\ WrittenSound(id)'
  <2>1. partial'[id] = partial[id]
    BY <1>3, <1>4, FileIs
  <2>2. OnDisk(id)'
    BY <2>1 DEF LinkInv, OnDisk
  <2>3. ASSUME id \in DOMAIN active'
        PROVE  StateSound(id, active'[id]) /\ WrittenSound(id)'
    <3>1. id \in DOMAIN active /\ active'[id] = active[id] /\ written'[id] = written[id]
      <4>1. id \in DOMAIN active /\ active'[id] = active[id]
        BY <1>4, <2>3
      <4>2. written'[id] = written[id] \cup {}
        BY <1>2, <1>4, <2>3, <4>1
      <4>3. QED
        BY <4>1, <4>2
    <3>2. QED
      BY <2>1, <3>1 DEF LinkInv, WrittenSound
  <2>4. QED
    BY <2>2, <2>3
<1>5. ASSUME x \in Correct
      PROVE  OnDisk(x)' /\ StateSound(x, active'[x]) /\ WrittenSound(x)'
  <2> DEFINE c == FileOf(partial[x])
             f == File[x]
  <2>1. x \in TxIds
    BY <1>5, FileIs
  <2>2. /\ w \in Seq(Symbols) /\ Len(w) <= Len(f)
        /\ \A k \in 1..Len(c) : k \notin ps => k \in 1..Len(w) /\ w[k] = c[k]
        /\ \A k \in ps : k \in 1..Len(w) /\ w[k] = f[k]
    <3>1. Lays(w, c, o, d, f)
      BY <1>5, SegmentWritten DEF w
    <3>2. ps = (o + 1)..(o + Len(d))
      BY <1>5
    <3> HIDE DEF ps, c, f
    <3>3. QED
      BY <3>1, <3>2 DEF Lays
  <2> HIDE DEF c, f, ps
  <2>3. partial'[x] = w /\ w # None
    BY <1>3, <2>1, <2>2, NoneAssumption DEF Contents, Symbols
  <2>4. OnDisk(x)'
    BY <2>2, <2>3 DEF OnDisk, f
  <2>5. StateSound(x, active'[x])
    BY <1>5
  <2>6. ASSUME NEW k \in written'[x]
        PROVE  k \in 1..Len(w) /\ w[k] = f[k]
    <3>1. CASE k \in ps
      BY <2>2, <3>1
    <3>2. CASE k \notin ps
      <4>1. x \in DOMAIN active /\ k \in written[x]
        BY <1>2, <2>6, <3>2
      <4>2. partial[x] # None /\ k \in 1..Len(partial[x]) /\ partial[x][k] = f[k]
        BY <1>5, <4>1 DEF LinkInv, WrittenSound, f
      <4>3. c = partial[x]
        BY <4>2 DEF c, FileOf
      <4>4. QED
        BY <2>2, <3>2, <4>2, <4>3
    <3>3. QED
      BY <3>1, <3>2
  <2>7. WrittenSound(x)'
    BY <2>3, <2>6 DEF WrittenSound, f
  <2>8. QED
    BY <2>4, <2>5, <2>7
<1>6. QED
  BY <1>2, <1>3, <1>4, <1>5 DEF LinkInv, StateSound

LEMMA LinkStep ==
  ASSUME LinkInv, [Next]_cvars
  PROVE  LinkInv'
<1>1. ASSUME NEW p \in Pdus, FileData(p)
      PROVE  LinkInv'
  <2>1. CASE UNCHANGED partial /\ active' = Opened(p.tx) /\ Heard(p.tx, {})
    <3> DEFINE x == p.tx
    <3>1. /\ DOMAIN active' = DOMAIN active \cup {x}
          /\ \A j \in DOMAIN active : j # x => active'[j] = active[j]
      BY <2>1, OpenedIs
    <3>2. x \in Correct => StateSound(x, active'[x])
      BY <2>1, OpenedSound
    <3>3. Heard(x, {}) /\ UNCHANGED <<partial, files>>
      BY <1>1, <2>1 DEF FileData
    <3> HIDE DEF x
    <3>4. QED
      BY <3>1, <3>2, <3>3, TouchedSound
  <2>2. CASE /\ active' = [Opened(p.tx) EXCEPT ![p.tx].bytes = @ + Len(p.data)]
             /\ partial' = [partial EXCEPT ![p.tx] = WriteAt(FileOf(@), p.offset, p.data)]
             /\ Heard(p.tx, (p.offset + 1)..(p.offset + Len(p.data)))
    <3> DEFINE x == p.tx
    <3>1. /\ DOMAIN active' = DOMAIN active \cup {x}
          /\ \A j \in DOMAIN active : j # x => active'[j] = active[j]
      BY <2>2, OpenedIs
    <3>2. x \in Correct => StateSound(x, active'[x])
      <4>1. x \in Correct => StateSound(x, Opened(x)[x])
        BY OpenedSound
      <4>2. active'[x] = [Opened(x)[x] EXCEPT !.bytes = @ + Len(p.data)]
        BY <2>2, OpenedIs
      <4>3. QED
        BY <4>1, <4>2 DEF StateSound
    <3>3. x \in Correct => PartOf(p.data, p.offset, File[x])
      BY <1>1, SentIs DEF FileData, PartOf
    <3>4. UNCHANGED files
      BY <1>1 DEF FileData
    <3> DEFINE d == p.data
               o == p.offset
               n == Len(d)
    <3>5. /\ partial' = [partial EXCEPT ![x] = WriteAt(FileOf(@), o, d)]
          /\ Heard(x, (o + 1)..(o + n)) /\ Len(d) = n
      BY <2>2
    <3> HIDE DEF x, d, o
    <3>6. x \in Correct => /\ StateSound(x, active'[x])
                           /\ PartOf(d, o, File[x]) /\ Len(d) = n
      BY <3>2, <3>3, <3>5 DEF d, o
    <3> HIDE DEF n
    <3>7. QED
      BY <3>1, <3>4, <3>5, <3>6, WrittenStep
  <2>3. ASSUME active' = Opened(p.tx), NEW n \in {0} \cup (1..(Len(p.data) - 1)),
               partial' = [partial EXCEPT ![p.tx] =
                             WriteAt(FileOf(@), p.offset, SubSeq(p.data, 1, n))],
               Heard(p.tx, (p.offset + 1)..(p.offset + n))
        PROVE  LinkInv'
    <3> DEFINE x == p.tx
               d == SubSeq(p.data, 1, n)
    <3>1. /\ DOMAIN active' = DOMAIN active \cup {x}
          /\ \A j \in DOMAIN active : j # x => active'[j] = active[j]
      BY <2>3, OpenedIs
    <3>2. x \in Correct => StateSound(x, active'[x])
      BY <2>3, OpenedSound
    <3>3. x \in Correct => PartOf(d, p.offset, File[x]) /\ Len(d) = n
      <4> SUFFICES ASSUME x \in Correct
                   PROVE  PartOf(d, p.offset, File[x]) /\ Len(d) = n
        OBVIOUS
      <4>1. p.kind = "FileData"
        BY <1>1 DEF FileData
      <4>2. p.data \in Seq(Symbols)
        BY <4>1, SentIs
      <4>3. n \in Nat /\ n <= Len(p.data)
        BY <4>2, LenProperties
      <4> HIDE DEF d
      <4>4. QED
        BY <4>1, <4>3, PartIs DEF d
    <3>4. UNCHANGED files
      BY <1>1 DEF FileData
    <3>5. partial' = [partial EXCEPT ![x] = WriteAt(FileOf(@), p.offset, d)]
      BY <2>3
    <3>6. Heard(x, (p.offset + 1)..(p.offset + n))
      BY <2>3
    <3> DEFINE o == p.offset
    <3> HIDE DEF x, d, o
    <3>7. /\ partial' = [partial EXCEPT ![x] = WriteAt(FileOf(@), o, d)]
          /\ Heard(x, (o + 1)..(o + n))
          /\ x \in Correct => /\ StateSound(x, active'[x])
                              /\ PartOf(d, o, File[x]) /\ Len(d) = n
      BY <3>2, <3>3, <3>5, <3>6 DEF o
    <3>8. QED
      BY <3>1, <3>4, <3>7, WrittenStep
  <2>4. QED
    BY <1>1, <2>1, <2>2, <2>3 DEF FileData
<1>2. ASSUME NEW p \in Pdus, Metadata(p)
      PROVE  LinkInv'
  <2> DEFINE x == p.tx
  <2>1. CASE active' = Opened(x)
    <3>1. /\ DOMAIN active' = DOMAIN active \cup {x}
          /\ \A j \in DOMAIN active : j # x => active'[j] = active[j]
      BY <2>1, OpenedIs
    <3>2. x \in Correct => StateSound(x, active'[x])
      BY <2>1, OpenedSound
    <3>3. Heard(x, {}) /\ UNCHANGED <<partial, files>>
      BY <1>2, <2>1 DEF Metadata
    <3> HIDE DEF x
    <3>4. QED
      BY <3>1, <3>2, <3>3, TouchedSound
  <2>2. CASE active' = [Opened(x) EXCEPT ![x].meta = p.dest]
    <3>1. /\ DOMAIN active' = DOMAIN active \cup {x}
          /\ \A j \in DOMAIN active : j # x => active'[j] = active[j]
          /\ active'[x] = [Opened(x)[x] EXCEPT !.meta = p.dest]
      BY <2>2, OpenedIs
    <3>2. x \in Correct => StateSound(x, active'[x])
      BY <1>2, <3>1, OpenedSound, SentIs DEF StateSound, Metadata
    <3>3. QED
      BY <1>2, <3>1, <3>2, TouchedSound DEF Metadata
  <2>3. QED
    BY <1>2, <2>1, <2>2 DEF Metadata
<1>3. ASSUME NEW p \in Pdus, Eof(p)
      PROVE  LinkInv'
  <2> DEFINE x == p.tx
  <2>1. CASE UNCHANGED <<active, written>>
    BY <1>3, <2>1 DEF Eof, LinkInv, OnDisk, StateSound, WrittenSound
  <2>2. CASE /\ x \in DOMAIN active
             /\ active' = [active EXCEPT ![x].crc = IF p.error THEN None ELSE p.crc]
             /\ Heard(x, {})
    <3>1. /\ DOMAIN active' = DOMAIN active \cup {x}
          /\ \A j \in DOMAIN active : j # x => active'[j] = active[j]
          /\ active'[x] = [active[x] EXCEPT !.crc = IF p.error THEN None ELSE p.crc]
      BY <2>2
    <3>2. x \in Correct => StateSound(x, active'[x])
      <4> SUFFICES ASSUME x \in Correct PROVE StateSound(x, active'[x])
        OBVIOUS
      <4>1. p.crc = File[x] /\ StateSound(x, active[x])
        BY <1>3, <2>2, SentIs DEF LinkInv, Eof
      <4>2. (IF p.error THEN None ELSE p.crc) \in {None, File[x]}
        BY <4>1
      <4>3. QED
        BY <3>1, <4>1, <4>2 DEF StateSound
    <3>3. QED
      BY <1>3, <2>2, <3>1, <3>2, TouchedSound DEF Eof
  <2>3. QED
    BY <1>3, <2>1, <2>2 DEF Eof
<1>4. ASSUME NEW p \in Pdus, TableFull(p) \/ Ignored(p)
      PROVE  LinkInv'
  BY <1>4 DEF TableFull, Ignored, LinkInv, OnDisk, StateSound, WrittenSound
<1>5. ASSUME NEW x \in TxIds, FinalizeTransaction(x)
      PROVE  LinkInv'
  <2> DEFINE T == {x}
  <2>1. /\ active' = Without(active, T) /\ Forgotten
        /\ DOMAIN partial' = TxIds /\ DOMAIN files' = Paths
        /\ \A id \in Correct : partial'[id] = partial[id] \/ (id \in T /\ partial'[id] = None)
    BY <1>5, FileIs DEF FinalizeTransaction, LinkInv
  <2> HIDE DEF T
  <2>2. QED
    BY <2>1, EndedSound
<1>6. ASSUME NEW T, active' = Without(active, T), Forgotten, UNCHANGED <<partial, files>>
      PROVE  LinkInv'
  <2>1. DOMAIN partial' = TxIds /\ DOMAIN files' = Paths
    BY <1>6 DEF LinkInv
  <2>2. QED
    BY <1>6, <2>1, EndedSound
<1>7. ASSUME NEW id \in TxIds, Cancel(id)
      PROVE  LinkInv'
  BY <1>6, <1>7 DEF Cancel
<1>8. CASE Poll
  BY <1>6, <1>8 DEF Poll
<1>9. CASE SendFile \/ Elapse \/ UNCHANGED cvars
  BY <1>9 DEF SendFile, Elapse, cvars, LinkInv, OnDisk, StateSound, WrittenSound
<1>10. QED
  BY <1>1, <1>2, <1>3, <1>4, <1>5, <1>7, <1>8, <1>9 DEF Next, OnPdu

LEMMA LinkStarts ==
  ASSUME Init
  PROVE  LinkInv
<1>1. DOMAIN <<>> = {}
  <2>1. <<>> \in Seq({}) /\ Len(<<>>) = 0
    BY EmptySeq
  <2>2. QED
    BY <2>1
<1>2. QED
  BY <1>1, SenderAssumption DEF Init, LinkInv, OnDisk

\* Every part of a correct sender's file that was written since its transaction
\* was opened is on disk, in every state.
THEOREM LinkSound == Spec => []LinkInv
<1>1. Init => LinkInv
  BY LinkStarts
<1>2. LinkInv /\ [Next]_cvars => LinkInv'
  BY LinkStep
<1>3. QED
  BY <1>1, <1>2, PTL DEF Spec

\* SegmentsMakeFile: segments that all came make the file.
THEOREM AlwaysSegmentsMakeFile == Spec => []SegmentsMakeFile
<1>1. ASSUME LinkInv, NEW id \in DOMAIN active \cap Correct, written[id] = 1..Len(File[id])
      PROVE  partial[id] = File[id]
  <2> DEFINE f == File[id]
             c == partial[id]
  <2>1. f \in Seq(Symbols) /\ Len(f) \in Nat /\ Len(f) > 0
    BY FileIs
  <2>2. \A k \in 1..Len(f) : c # None /\ k \in 1..Len(c) /\ c[k] = f[k]
    BY <1>1 DEF LinkInv, WrittenSound
  <2>3. 1 \in 1..Len(f) /\ Len(f) \in 1..Len(f)
    BY <2>1
  <2>4. c # None /\ Len(f) \in 1..Len(c)
    BY <2>2, <2>3
  <2>5. c \in Seq(Symbols) /\ Len(c) <= Len(f)
    BY <1>1, <2>4 DEF LinkInv, OnDisk
  <2> HIDE DEF c, f
  <2>6. Len(c) = Len(f)
    BY <2>1, <2>4, <2>5, LenProperties
  <2>7. QED
    BY <2>1, <2>2, <2>5, <2>6, SeqEqual DEF c, f
<1>2. LinkInv => SegmentsMakeFile
  BY <1>1 DEF SegmentsMakeFile
<1>3. QED
  BY <1>2, LinkSound, PTL

\* NoGapAfterEof: after its EOF a transaction completes with the file only.
THEOREM AlwaysNoGapAfterEof == Spec => NoGapAfterEof
<1>1. ASSUME LinkInv, NEW id \in Correct, NEW r \in results', FinalizeTransaction(id),
             r.kind = "Completed", id \in DOMAIN active, active[id].crc # None
      PROVE  files'[r.path] = File[id]
  <2> DEFINE p == FinalPath(id, active[id])
  <2>1. /\ partial[id] # None /\ ~CrcFails(id, active[id])
        /\ files' = [files EXCEPT ![p] = partial[id]] /\ r.path = p
    <3>1. ASSUME NEW k, k # "Completed", r \in {Result(k, id)}
          PROVE  FALSE
      BY <1>1, <3>1 DEF Result
    <3>2. /\ results' # {Result("UnknownTransaction", id)} /\ results' # {Result("Io", id)}
          /\ results' # {Result("CrcMismatch", id)}
      BY <1>1, <3>1
    <3>3. /\ partial[id] # None /\ ~CrcFails(id, active[id])
          /\ files' = [files EXCEPT ![p] = partial[id]]
          /\ results' = {[Result("Completed", id) EXCEPT !.path = p, !.bytes = active[id].bytes]}
      BY <1>1, <3>2 DEF FinalizeTransaction
    <3> HIDE DEF p
    <3>4. [Result("Completed", id) EXCEPT !.path = p, !.bytes = active[id].bytes].path = p
      BY DEF Result
    <3>5. QED
      BY <3>3, <3>4 DEF p
  <2>2. active[id].crc = File[id] /\ active[id].meta \in {None, Dest[id]} /\ DOMAIN files = Paths
    BY <1>1 DEF LinkInv, StateSound
  <2>3. p \in Paths
    BY <2>2, FileIs DEF FinalPath, Paths
  <2>4. partial[id] = File[id]
    BY <1>1, <2>1, <2>2 DEF CrcFails, FileOf
  <2>5. QED
    BY <2>1, <2>2, <2>3, <2>4
<1>2. LinkInv /\ [Next]_cvars =>
        [\A id \in Correct : \A r \in results' :
           /\ FinalizeTransaction(id) /\ r.kind = "Completed"
           /\ id \in DOMAIN active /\ active[id].crc # None
           => files'[r.path] = File[id]]_cvars
  BY <1>1
<1>3. QED
  BY <1>2, LinkSound, PTL DEF Spec, NoGapAfterEof
=============================================================================
