----------------------------- MODULE MFileProofs -----------------------------
(***************************************************************************)
(* Proofs about the M-File assembler, for any frames, caps and timeouts:   *)
(* its RAM figure, that no transaction waits in the table when it is full, *)
(* that a first arrival is kept, and what it makes of a correct sender's   *)
(* chunks.                                                                 *)
(***************************************************************************)
EXTENDS MFileLink, BasicLemmas

FiniteSubsets(S) == {D \in SUBSET S : IsFiniteSet(D)}

Maps == UNION {[D -> Payload] : D \in FiniteSubsets(Nat)}
Txs == [chunks : Maps, total : Nat, file : Payload, vast : BOOLEAN, timeout : Nat, bytes : Nat]
Tables == UNION {[D -> Txs] : D \in FiniteSubsets(TxIds)}
Asms == [active : Tables, ram : Nat, dups : [ok : Nat, mismatch : Nat]]

\* What the frames of a transaction are: anything, or its correct sender's.
Fits(id, t) ==
  id \in Correct =>
    /\ t.total = Len(File[id]) /\ t.file = Whole(id)
    /\ \A i \in Received(t) : i + 1 \in 1..Len(File[id]) /\ t.chunks[i] = File[id][i + 1]

Bytes(active) == [id \in DOMAIN active |-> active[id].bytes]
RamOf(a) == SumFunctionOnSet(Bytes(a.active), DOMAIN a.active)

\* An assembler that counts its bytes and mixes up no file
Sound(a) ==
  /\ a \in Asms
  /\ a.ram = RamOf(a)
  /\ \A id \in DOMAIN a.active : /\ a.active[id].bytes = BytesOf(a.active[id])
                                 /\ Fits(id, a.active[id])
-----------------------------------------------------------------------------
(* The table and the chunk maps                                            *)

LEMMA TableIs ==
  ASSUME NEW f \in Tables
  PROVE  /\ DOMAIN f \in SUBSET TxIds /\ IsFiniteSet(DOMAIN f)
         /\ \A x \in DOMAIN f : f[x] \in Txs
BY DEF Tables, FiniteSubsets

LEMMA TableWith ==
  ASSUME NEW f \in Tables, NEW x \in TxIds, NEW y \in Txs
  PROVE  /\ With(f, x, y) \in Tables
         /\ DOMAIN With(f, x, y) = DOMAIN f \cup {x} /\ With(f, x, y)[x] = y
         /\ \A z \in DOMAIN f : z # x => With(f, x, y)[z] = f[z]
<1> DEFINE D == DOMAIN f \cup {x}
<1>1. D \in FiniteSubsets(TxIds)
  BY TableIs, FS_AddElement DEF FiniteSubsets
<1>2. With(f, x, y) \in [D -> Txs]
  BY TableIs DEF With
<1>3. With(f, x, y) \in Tables
  BY <1>1, <1>2 DEF Tables
<1>4. QED
  BY <1>3 DEF With

LEMMA TablePart ==
  ASSUME NEW f \in Tables, NEW T \in SUBSET DOMAIN f
  PROVE  /\ Restrict(f, T) \in Tables /\ DOMAIN Restrict(f, T) = T
         /\ \A z \in T : Restrict(f, T)[z] = f[z]
<1>1. T \in FiniteSubsets(TxIds)
  BY TableIs, FS_Subset DEF FiniteSubsets
<1>2. Restrict(f, T) \in [T -> Txs]
  BY TableIs DEF Restrict
<1>3. Restrict(f, T) \in Tables
  BY <1>1, <1>2 DEF Tables
<1>4. QED
  BY <1>3 DEF Restrict

LEMMA MapWith ==
  ASSUME NEW m \in Maps, NEW i \in Nat, NEW d \in Payload
  PROVE  /\ With(m, i, d) \in Maps
         /\ DOMAIN With(m, i, d) = DOMAIN m \cup {i} /\ With(m, i, d)[i] = d
         /\ \A j \in DOMAIN m : j # i => With(m, i, d)[j] = m[j]
<1> DEFINE D == DOMAIN m \cup {i}
<1>1. D \in FiniteSubsets(Nat) /\ \A j \in DOMAIN m : m[j] \in Payload
  <2>1. PICK E \in FiniteSubsets(Nat) : m \in [E -> Payload]
    BY DEF Maps
  <2>2. QED
    BY <2>1, FS_AddElement DEF FiniteSubsets
<1>2. With(m, i, d) \in [D -> Payload]
  BY <1>1 DEF With
<1>3. With(m, i, d) \in Maps
  BY <1>1, <1>2 DEF Maps
<1>4. QED
  BY <1>3 DEF With

LEMMA AsmIs ==
  ASSUME NEW a \in Asms
  PROVE  /\ a.active \in Tables
         /\ a.ram \in Nat /\ a.dups \in [ok : Nat, mismatch : Nat]
         /\ a = [active |-> a.active, ram |-> a.ram, dups |-> a.dups]
BY DEF Asms

LEMMA AsmMade ==
  ASSUME NEW active \in Tables, NEW ram \in Nat, NEW dups \in [ok : Nat, mismatch : Nat]
  PROVE  [active |-> active, ram |-> ram, dups |-> dups] \in Asms
BY DEF Asms

LEMMA TxIs ==
  ASSUME NEW t \in Txs
  PROVE  /\ Received(t) \in FiniteSubsets(Nat)
         /\ Received(t) \in SUBSET Nat /\ IsFiniteSet(Received(t))
         /\ t.chunks \in [Received(t) -> Payload]
         /\ t.total \in Nat /\ t.file \in Payload /\ t.timeout \in Nat /\ t.bytes \in Nat
         /\ Cardinality(Received(t)) \in Nat
<1>1. t.chunks \in Maps
  BY DEF Txs
<1>2. /\ Received(t) \in FiniteSubsets(Nat)
      /\ t.chunks \in [Received(t) -> Payload]
  BY <1>1 DEF Maps, Received
<1>3. IsFiniteSet(Received(t)) /\ Received(t) \in SUBSET Nat
  BY <1>2 DEF FiniteSubsets
<1>4. Cardinality(Received(t)) \in Nat
  BY <1>3, FS_CardinalityType
<1>5. QED
  BY <1>2, <1>3, <1>4 DEF Txs

LEMMA FrameIs ==
  ASSUME NEW f \in Frames
  PROVE  f.tx \in TxIds /\ f.total \in Nat /\ f.index \in Nat /\ f.data \in Payload
         /\ f.file \in Payload /\ f.intact \in BOOLEAN /\ f.vast \in BOOLEAN
BY FrameAssumption

\* A transaction that has just been opened
LEMMA OpenIs ==
  ASSUME NEW f \in Frames
  PROVE  /\ OpenTx(f) \in Txs /\ Received(OpenTx(f)) = {}
         /\ OpenTx(f).bytes = 0 /\ OpenTx(f).total = f.total /\ OpenTx(f).file = f.file
         /\ BytesOf(OpenTx(f)) = 0
<1>1. DOMAIN <<>> = {} /\ {} \in FiniteSubsets(Nat) /\ <<>> \in [{} -> Payload]
  <2>1. <<>> \in Seq(Payload) /\ Len(<<>>) = 0
    BY EmptySeq
  <2>2. DOMAIN <<>> = {}
    BY <2>1
  <2>3. QED
    BY <2>2, FS_EmptySet DEF FiniteSubsets
<1>2. <<>> \in Maps
  BY <1>1 DEF Maps
<1>3. OpenTx(f) \in Txs
  BY <1>2, FrameIs, BoundAssumption DEF OpenTx, Txs
<1>4. Received(OpenTx(f)) = {}
  BY <1>1 DEF Received, OpenTx
<1>5. BytesOf(OpenTx(f)) = 0
  BY <1>4, SumTakes, FS_EmptySet DEF BytesOf
<1>6. QED
  BY <1>3, <1>4, <1>5 DEF OpenTx

\* What stays of a transaction's account when others leave the table
Dropped(a, T, b) == [a EXCEPT !.active = Restrict(@, DOMAIN @ \ T),
                              !.ram = IF b <= @ THEN @ - b ELSE 0]

LEMMA Drops ==
  ASSUME NEW a, Sound(a), NEW T \in SUBSET DOMAIN a.active,
         NEW b, b = SumFunctionOnSet(Bytes(a.active), T), NEW c, c = Dropped(a, T, b)
  PROVE  /\ Sound(c) /\ DOMAIN c.active = DOMAIN a.active \ T
         /\ \A id \in DOMAIN a.active \ T : c.active[id] = a.active[id]
         /\ c.dups = a.dups
<1> DEFINE D == DOMAIN a.active
           R == D \ T
           h == Bytes(a.active)
           k == Bytes(c.active)
<1>1. a \in Asms /\ a.ram = RamOf(a)
  BY DEF Sound
<1>2. /\ a.active \in Tables /\ D \in SUBSET TxIds /\ IsFiniteSet(D) /\ a.ram \in Nat
      /\ \A id \in D : a.active[id] \in Txs
  BY <1>1, AsmIs, TableIs
<1>3. /\ Restrict(a.active, R) \in Tables /\ DOMAIN Restrict(a.active, R) = R
      /\ \A id \in R : Restrict(a.active, R)[id] = a.active[id]
  <2>1. R \in SUBSET D
    OBVIOUS
  <2> HIDE DEF R
  <2>2. QED
    BY <1>2, <2>1, TablePart
<1>4. \A id \in D : h[id] \in Nat /\ h[id] = a.active[id].bytes
  BY <1>2, TxIs DEF Bytes
<1>5. RamOf(a) = b + SumFunctionOnSet(h, R)
  <2>1. RamOf(a) = SumFunctionOnSet(h, D)
    BY DEF RamOf
  <2> HIDE DEF h, D
  <2>2. QED
    BY <1>2, <1>4, <2>1, SumSplits DEF h, D
<1>6. b \in Nat /\ SumFunctionOnSet(h, R) \in Nat
  <2>1. IsFiniteSet(T) /\ IsFiniteSet(R)
    BY <1>2, FS_Subset
  <2>2. \A id \in T : h[id] \in Nat
    BY <1>4
  <2>3. \A id \in R : h[id] \in Nat
    BY <1>4
  <2> HIDE DEF h, R
  <2>4. QED
    BY <2>1, <2>2, <2>3, SumTakes DEF h
<1>7. /\ c.active = Restrict(a.active, R) /\ c.dups = a.dups
      /\ c.ram = SumFunctionOnSet(h, R) /\ c \in Asms
  <2> DEFINE u == Restrict(a.active, R)
             v == IF b <= a.ram THEN a.ram - b ELSE 0
  <2>1. v = SumFunctionOnSet(h, R) /\ v \in Nat /\ u \in Tables
    <3> HIDE DEF h, R, u
    <3>1. QED
      BY <1>1, <1>3, <1>5, <1>6 DEF u
  <2>2. c = [a EXCEPT !.active = u, !.ram = v]
    BY DEF Dropped
  <2> HIDE DEF u, v, R, h
  <2>3. c.active = u /\ c.ram = v /\ c.dups = a.dups /\ c \in Asms
    BY <1>1, <2>1, <2>2 DEF Asms
  <2>4. QED
    BY <2>1, <2>3 DEF u
<1>8. RamOf(c) = SumFunctionOnSet(h, R)
  <2>1. DOMAIN c.active = R /\ \A id \in R : c.active[id] = a.active[id]
    BY <1>3, <1>7
  <2>2. RamOf(c) = SumFunctionOnSet(k, R)
    BY <2>1 DEF RamOf
  <2>3. \A id \in R : h[id] = k[id] /\ h[id] \in Nat
    BY <1>4, <2>1 DEF Bytes
  <2>4. IsFiniteSet(R)
    BY <1>2, FS_Subset
  <2> HIDE DEF h, k, R
  <2>5. QED
    BY <2>2, <2>3, <2>4, SumSame
<1>9. \A id \in DOMAIN c.active : c.active[id] = a.active[id] /\ id \in D
  BY <1>3, <1>7
<1>10. Sound(c)
  BY <1>7, <1>8, <1>9 DEF Sound
<1>11. QED
  BY <1>3, <1>7, <1>9, <1>10

LEMMA RemoveIs ==
  ASSUME NEW a, Sound(a), NEW id \in DOMAIN a.active
  PROVE  /\ Sound(Remove(a, id)) /\ DOMAIN Remove(a, id).active = DOMAIN a.active \ {id}
         /\ \A j \in DOMAIN a.active \ {id} : Remove(a, id).active[j] = a.active[j]
<1> DEFINE h == Bytes(a.active)
           b == a.active[id].bytes
<1>1. b = SumFunctionOnSet(h, {id})
  <2>1. a.active[id] \in Txs
    BY AsmIs, TableIs DEF Sound
  <2>2. h[id] = b /\ b \in Nat
    BY <2>1, TxIs DEF Bytes
  <2>3. IsFiniteSet({id}) /\ IsFiniteSet({}) /\ {id} \ {id} = {}
    BY FS_Singleton, FS_EmptySet
  <2> HIDE DEF h, b
  <2>4. SumFunctionOnSet(h, {id}) = h[id] + SumFunctionOnSet(h, {})
    BY <2>2, <2>3, SumTakes
  <2>5. SumFunctionOnSet(h, {}) = 0
    BY <2>3, SumTakes
  <2>6. QED
    BY <2>2, <2>4, <2>5
<1> DEFINE c == Remove(a, id)
<1>2. c = Dropped(a, {id}, b)
  BY DEF Remove, Without, Dropped
<1> HIDE DEF b, c
<1>3. {id} \in SUBSET DOMAIN a.active
  OBVIOUS
<1>4. /\ Sound(c) /\ DOMAIN c.active = DOMAIN a.active \ {id}
      /\ \A j \in DOMAIN a.active \ {id} : c.active[j] = a.active[j]
      /\ c.dups = a.dups
  <2> DEFINE T == {id}
  <2>1. T \in SUBSET DOMAIN a.active /\ b = SumFunctionOnSet(h, T) /\ c = Dropped(a, T, b)
    BY <1>1, <1>2, <1>3
  <2> HIDE DEF T
  <2>2. /\ Sound(c) /\ DOMAIN c.active = DOMAIN a.active \ T
        /\ \A j \in DOMAIN a.active \ T : c.active[j] = a.active[j]
        /\ c.dups = a.dups
    BY <2>1, Drops
  <2>3. QED
    BY <2>2 DEF T
<1>5. QED
  BY <1>4 DEF c

\* Of the first frame of a transaction: the table with it
WithOpened(a, f) == [a EXCEPT !.active = With(@, f.tx, OpenTx(f))]

LEMMA OpenedIs ==
  ASSUME NEW a, Sound(a), NEW f \in Frames, f.tx \notin DOMAIN a.active,
         f.tx \in Correct => f.total = Len(File[f.tx]) /\ f.file = Whole(f.tx)
  PROVE  LET c == WithOpened(a, f) IN
         /\ Sound(c) /\ DOMAIN c.active = DOMAIN a.active \cup {f.tx}
         /\ c.active[f.tx] = OpenTx(f)
         /\ \A id \in DOMAIN a.active : c.active[id] = a.active[id]
         /\ c.dups = a.dups
<1> DEFINE c == WithOpened(a, f)
           D == DOMAIN a.active
           E == D \cup {f.tx}
           h == Bytes(a.active)
           k == Bytes(c.active)
           t == OpenTx(f)
<1> HIDE DEF c
<1>1. a \in Asms /\ a.ram = RamOf(a)
  BY DEF Sound
<1>2. /\ a.active \in Tables /\ D \in SUBSET TxIds /\ IsFiniteSet(D) /\ a.ram \in Nat
      /\ \A id \in D : a.active[id] \in Txs
  BY <1>1, AsmIs, TableIs
<1>3. /\ t \in Txs /\ Received(t) = {} /\ t.bytes = 0 /\ t.total = f.total /\ t.file = f.file
      /\ BytesOf(t) = 0
  BY OpenIs
<1>4. f.tx \in TxIds
  BY FrameIs
<1> HIDE DEF t
<1>5. /\ With(a.active, f.tx, t) \in Tables
      /\ DOMAIN With(a.active, f.tx, t) = E
      /\ With(a.active, f.tx, t)[f.tx] = t
      /\ \A id \in D : With(a.active, f.tx, t)[id] = a.active[id]
  <2>1. \A id \in D : id # f.tx
    OBVIOUS
  <2>2. a.active \in Tables
    BY <1>2
  <2> DEFINE m == a.active x == f.tx
  <2>3. m \in Tables /\ x \in TxIds /\ t \in Txs
    BY <1>2, <1>3, <1>4
  <2> HIDE DEF m, x
  <2>4. /\ With(m, x, t) \in Tables
        /\ DOMAIN With(m, x, t) = DOMAIN m \cup {x} /\ With(m, x, t)[x] = t
        /\ \A z \in DOMAIN m : z # x => With(m, x, t)[z] = m[z]
    BY <2>3, TableWith
  <2>5. QED
    BY <2>1, <2>4 DEF m, x
<1>6. /\ c.active = With(a.active, f.tx, t) /\ c.dups = a.dups /\ c.ram = a.ram
      /\ c = [active |-> c.active, ram |-> c.ram, dups |-> c.dups]
  <2>1. a = [active |-> a.active, ram |-> a.ram, dups |-> a.dups]
    BY <1>1, AsmIs
  <2>2. QED
    BY <2>1 DEF t, c, WithOpened
<1>7. DOMAIN c.active = E /\ c.active[f.tx] = t /\ \A id \in D : c.active[id] = a.active[id]
  BY <1>5, <1>6
<1>8. RamOf(c) = RamOf(a)
  <2>1. k[f.tx] = 0 /\ \A id \in D : h[id] \in Nat /\ h[id] = k[id]
    BY <1>2, <1>3, <1>7, TxIs DEF Bytes
  <2>2. RamOf(c) = SumFunctionOnSet(k, E) /\ RamOf(a) = SumFunctionOnSet(h, D)
    BY <1>7 DEF RamOf
  <2>3. IsFiniteSet(E) /\ f.tx \in E /\ E \ {f.tx} = D
    BY <1>2, FS_AddElement
  <2>4. \A id \in E : k[id] \in Nat
    BY <2>1
  <2> HIDE DEF k, h, D, E
  <2>5. SumFunctionOnSet(k, E) = k[f.tx] + SumFunctionOnSet(k, D)
    BY <2>3, <2>4, SumTakes
  <2>6. SumFunctionOnSet(k, D) = SumFunctionOnSet(h, D) /\ SumFunctionOnSet(h, D) \in Nat
    BY <1>2, <2>1, SumSame, SumTakes
  <2>7. QED
    BY <2>1, <2>2, <2>5, <2>6
<1>9. c \in Asms
  <2>1. c.dups \in [ok : Nat, mismatch : Nat] /\ c.ram \in Nat
    BY <1>1, <1>6, AsmIs
  <2> HIDE DEF E
  <2>2. QED
    BY <1>5, <1>6, <2>1, AsmMade
<1>10. Fits(f.tx, t)
  BY <1>3 DEF Fits
<1>11. ASSUME NEW id \in DOMAIN c.active
       PROVE  c.active[id].bytes = BytesOf(c.active[id]) /\ Fits(id, c.active[id])
  BY <1>3, <1>7, <1>10 DEF Sound
<1>12. Sound(c)
  BY <1>1, <1>6, <1>8, <1>9, <1>11 DEF Sound
<1>13. QED
  BY <1>6, <1>7, <1>12 DEF t, c
-----------------------------------------------------------------------------
(* A file is its chunks, joined in the order of their indices.             *)
First(s) == CHOOSE i \in s : \A j \in s : i <= j
Joined(h, S) == MapThenFoldSet(\o, <<>>, LAMBDA i : h[i], First, S)

\* g holds the payloads of every subset of S, joined in the order of the indices.
IsJoin(h, S, g) ==
  \A s \in SUBSET S : g[s] = IF s = {} THEN <<>> ELSE h[First(s)] \o g[s \ {First(s)}]

Shifted(s) == {i + 1 : i \in s}

LEMMA FirstIs ==
  ASSUME NEW s \in SUBSET Nat, s # {}
  PROVE  First(s) \in s /\ \A j \in s : First(s) <= j
BY LeastNatural DEF First

LEMMA FirstShifts ==
  ASSUME NEW s \in SUBSET Nat, s # {}
  PROVE  First(Shifted(s)) = First(s) + 1
<1> DEFINE r == Shifted(s)
<1>1. r \in SUBSET Nat /\ r # {}
  <2>1. PICK i \in s : TRUE
    OBVIOUS
  <2>2. i + 1 \in r
    BY DEF Shifted
  <2>3. \A j \in s : j + 1 \in Nat
    OBVIOUS
  <2>4. QED
    BY <2>2, <2>3 DEF Shifted
<1>2. First(r) \in r /\ \A j \in r : First(r) <= j
  <2> HIDE DEF r
  <2>1. QED
    BY <1>1, FirstIs
<1>3. First(s) \in s /\ \A j \in s : First(s) <= j
  BY FirstIs
<1>4. First(s) + 1 \in r
  BY <1>3 DEF Shifted
<1>5. PICK i \in s : First(r) = i + 1
  BY <1>2 DEF Shifted
<1>6. First(s) <= i /\ i + 1 <= First(s) + 1 /\ i \in Nat /\ First(s) \in Nat
  BY <1>2, <1>3, <1>4, <1>5
<1>7. QED
  BY <1>5, <1>6

LEMMA JoinsAgree ==
  ASSUME NEW S \in SUBSET Nat, IsFiniteSet(S), NEW T, Shifted(S) \subseteq T,
         NEW h, NEW k, \A i \in S : h[i] = k[i + 1],
         NEW g, NEW e, IsJoin(h, S, g), IsJoin(k, T, e)
  PROVE  g[S] = e[Shifted(S)]
<1> DEFINE Q == {s \in SUBSET S : g[s] = e[Shifted(s)]}
<1>1. ASSUME NEW s \in SUBSET S, \A r \in SUBSET s : r # s => r \in Q
      PROVE  s \in Q
  <2>1. Shifted(s) \in SUBSET T
    BY DEF Shifted
  <2>2. CASE s = {}
    BY <2>1, <2>2 DEF IsJoin, Shifted
  <2>3. CASE s # {}
    <3> DEFINE x == First(s)
    <3>1. x \in s /\ First(Shifted(s)) = x + 1
      BY <2>3, FirstIs, FirstShifts
    <3> HIDE DEF x
    <3>2. Shifted(s) \ {x + 1} = Shifted(s \ {x})
      BY <3>1 DEF Shifted
    <3>3. g[s \ {x}] = e[Shifted(s \ {x})]
      BY <1>1, <3>1
    <3>4. Shifted(s) # {}
      BY <2>3 DEF Shifted
    <3>5. g[s] = h[x] \o g[s \ {x}]
      BY <2>3 DEF IsJoin, x
    <3>6. e[Shifted(s)] = k[x + 1] \o e[Shifted(s) \ {x + 1}]
      BY <2>1, <3>1, <3>4 DEF IsJoin
    <3>7. h[x] = k[x + 1]
      BY <3>1
    <3>8. QED
      BY <3>2, <3>3, <3>5, <3>6, <3>7
  <2>4. QED
    BY <2>2, <2>3
<1> HIDE DEF Q
<1>2. S \in Q
  BY <1>1, SubsetInduction
<1>3. QED
  BY <1>2 DEF Q

LEMMA JoinFolds ==
  ASSUME NEW S \in SUBSET Nat, IsFiniteSet(S), NEW h, \A x \in S : h[x] \in Payload
  PROVE  \E g : IsJoin(h, S, g) /\ Joined(h, S) = g[S]
<1> DEFINE Eq(g) == g = [s \in SUBSET S |-> IF s = {} THEN <<>>
                                            ELSE h[First(s)] \o g[s \ {First(s)}]]
           c == [s \in SUBSET S |-> First(s)]
           step == [s \in SUBSET S |-> [v \in Payload |-> h[First(s)] \o v]]
<1>1. Joined(h, S) = (CHOOSE g : Eq(g))[S]
  BY DEF Joined, MapThenFoldSet
<1>2. \A s \in SUBSET S : s # {} => First(s) \in s
  BY FirstIs
<1>3. PICK g \in [SUBSET S -> Payload] : FoldsBy(g, S, <<>>, step, c)
  <2>1. /\ \A s \in SUBSET S : s # {} => c[s] \in s
        /\ \A s \in SUBSET S, v \in Payload : s # {} => step[s][v] \in Payload
    <3>1. ASSUME NEW s \in SUBSET S, NEW v \in Payload, s # {}
          PROVE  h[First(s)] \o v \in Payload
      <4>1. h[First(s)] \in Payload
        BY <1>2, <3>1
      <4>2. QED
        BY <4>1, ConcatProperties DEF Payload
    <3>2. QED
      BY <1>2, <3>1
  <2>2. <<>> \in Payload
    BY EmptySeq DEF Payload
  <2> HIDE DEF c, step
  <2>3. QED
    BY <2>1, <2>2, FoldExists
<1>4. ASSUME NEW s \in SUBSET S
      PROVE  g[s] = IF s = {} THEN <<>> ELSE h[First(s)] \o g[s \ {First(s)}]
  <2>1. c[s] = First(s) /\ g[s \ {First(s)}] \in Payload
    OBVIOUS
  <2>2. g[s] = IF s = {} THEN <<>> ELSE step[s][g[s \ {c[s]}]]
    BY <1>3 DEF FoldsBy
  <2>3. step[s][g[s \ {First(s)}]] = h[First(s)] \o g[s \ {First(s)}]
    BY <2>1
  <2>4. QED
    BY <2>1, <2>2, <2>3
<1>5. Eq(g)
  BY <1>4
<1> DEFINE e == CHOOSE f : Eq(f)
<1>6. Eq(e)
  BY <1>5
<1> HIDE DEF e
<1>7. IsJoin(h, S, e)
  BY <1>6 DEF IsJoin
<1>8. QED
  BY <1>1, <1>7 DEF e


\* A correct sender's file is whole when no chunk of it is missing.
LEMMA WholeData ==
  ASSUME NEW id \in Correct, NEW t \in Txs, Fits(id, t), Gaps(t) = 0
  PROVE  Data(t) = t.file
<1> DEFINE n == Len(File[id])
           r == Received(t)
           k == File[id]
<1>1. /\ n \in Nat /\ \A i \in 1..n : k[i] \in Payload
      /\ DOMAIN k = 1..n
  BY SenderAssumption, LenProperties, ElementOfSeq DEF Payload
<1>2. r \in SUBSET Nat /\ IsFiniteSet(r) /\ t.chunks \in [r -> Payload] /\ Cardinality(r) \in Nat
  BY TxIs
<1>3. t.total = n /\ t.file = Whole(id) /\ \A i \in r : i + 1 \in 1..n /\ t.chunks[i] = k[i + 1]
  BY DEF Fits
<1>4. Data(t) = Joined(t.chunks, r) /\ Whole(id) = Joined(k, 1..n)
  BY DEF Data, Whole, Joined, MapThenFoldSet, First
<1>5. Cardinality(r) = n
  BY <1>1, <1>2, <1>3 DEF Gaps
<1> HIDE DEF r, n, k
<1>6. r = 0..(n - 1)
  <2>1. r \subseteq 0..(n - 1)
    BY <1>1, <1>2, <1>3
  <2>2. IsFiniteSet(0..(n - 1)) /\ Cardinality(0..(n - 1)) = n
    BY <1>1, FS_Interval
  <2>3. QED
    BY <1>5, <2>1, <2>2, FS_Subset
<1>7. Shifted(r) = 1..n
  <2>1. \A i \in 1..n : i - 1 \in 0..(n - 1) /\ (i - 1) + 1 = i
    BY <1>1
  <2>2. \A i \in 0..(n - 1) : i + 1 \in 1..n
    BY <1>1
  <2>3. QED
    BY <1>6, <2>1, <2>2 DEF Shifted
<1>8. PICK g : IsJoin(t.chunks, r, g) /\ Joined(t.chunks, r) = g[r]
  BY <1>2, JoinFolds
<1>9. PICK e : IsJoin(k, 1..n, e) /\ Joined(k, 1..n) = e[1..n]
  <2> DEFINE S == 1..n
  <2>1. S \in SUBSET Nat /\ IsFiniteSet(S) /\ \A i \in S : k[i] \in Payload
    BY <1>1, FS_Interval
  <2> HIDE DEF S
  <2>2. \E e : IsJoin(k, S, e) /\ Joined(k, S) = e[S]
    BY <2>1, JoinFolds
  <2>3. QED
    BY <2>2 DEF S
<1>10. g[r] = e[Shifted(r)]
  <2>1. Shifted(r) \subseteq 1..n
    BY <1>7
  <2>2. \A i \in r : t.chunks[i] = k[i + 1]
    BY <1>3
  <2> DEFINE T == 1..n
             h == t.chunks
  <2>3. /\ r \in SUBSET Nat /\ IsFiniteSet(r) /\ Shifted(r) \subseteq T
        /\ \A i \in r : h[i] = k[i + 1]
        /\ IsJoin(h, r, g) /\ IsJoin(k, T, e)
    BY <1>2, <1>8, <1>9, <2>1, <2>2
  <2> HIDE DEF T, h
  <2>4. QED
    BY <2>3, JoinsAgree
<1>11. QED
  BY <1>3, <1>4, <1>7, <1>8, <1>9, <1>10
-----------------------------------------------------------------------------
(* What a call leaves of the table it found.                               *)
\* A frame of a correct sender that came through is one it sent.
LEMMA IntactIs ==
  ASSUME NEW f \in Frames, f.intact, f.tx \in Correct
  PROVE  /\ f.total = Len(File[f.tx]) /\ f.file = Whole(f.tx)
         /\ f.index + 1 \in 1..Len(File[f.tx]) /\ f.data = File[f.tx][f.index + 1]
<1>1. f \in Genuine \cup {Damaged(g) : g \in Genuine}
  BY SenderAssumption
<1>2. \A g \in Genuine : DOMAIN g = {"tx", "total", "file", "vast", "index", "data", "intact"}
  BY DEF Genuine, Sent
<1>3. ASSUME NEW g \in Genuine, f = Damaged(g)
      PROVE  f.intact = FALSE
  BY <1>2, <1>3 DEF Damaged
<1>4. f \in Genuine
  BY <1>1, <1>3
<1>5. PICK id \in Correct : \E i \in 1..Len(File[id]) : f = Sent(id, i)
  BY <1>4 DEF Genuine
<1>6. PICK i \in 1..Len(File[id]) : f = Sent(id, i)
  BY <1>5
<1>7. /\ f.tx = id /\ f.total = Len(File[id]) /\ f.file = Whole(id)
      /\ f.index = i - 1 /\ f.data = File[id][i]
  BY <1>6 DEF Sent
<1>8. Len(File[id]) \in Nat
  BY SenderAssumption, LenProperties
<1>9. (i - 1) + 1 = i
  BY <1>8
<1>10. QED
  BY <1>7, <1>9

\* enforce_ram_cap has a transaction to evict.
LEMMA OldestIs ==
  ASSUME NEW m \in Tables, DOMAIN m # {}
  PROVE  Oldest(m) \in DOMAIN m
<1> DEFINE D == DOMAIN m
           T == {m[id].timeout : id \in D}
<1>1. D \in SUBSET Nat /\ \A id \in D : m[id].timeout \in Nat
  BY TableIs, TxIs, FrameAssumption
<1>2. PICK x \in T : \A y \in T : x <= y
  <2>1. T \subseteq Nat /\ T # {}
    BY <1>1
  <2> HIDE DEF T
  <2>2. QED
    BY <2>1, LeastNatural
<1> DEFINE E == {id \in D : m[id].timeout = x}
<1>3. PICK id \in E : \A j \in E : id <= j
  <2>1. E \subseteq Nat /\ E # {}
    BY <1>1, <1>2
  <2> HIDE DEF E
  <2>2. QED
    BY <2>1, LeastNatural
<1>4. id \in D /\ m[id].timeout = x
  BY <1>3
<1>5. ASSUME NEW j \in D
      PROVE  \/ m[id].timeout < m[j].timeout
             \/ (m[id].timeout = m[j].timeout /\ id <= j)
  <2>1. x <= m[j].timeout /\ m[j].timeout \in Nat /\ x \in Nat
    BY <1>1, <1>2
  <2>2. m[j].timeout = x => id <= j
    BY <1>3
  <2>3. QED
    BY <1>4, <2>1, <2>2
<1>6. QED
  BY <1>4, <1>5 DEF Oldest

\* What OnChunk works on is the table it found, without what was evicted and
\* with what was opened.
From(a, b, f) ==
  \A id \in DOMAIN b.active :
    \/ id \in DOMAIN a.active /\ b.active[id] = a.active[id]
    \/ (id = f.tx /\ id \notin DOMAIN a.active /\ b.active[id] = OpenTx(f))

LEMMA UpsertIs ==
  ASSUME Sound(asm), NEW f \in Frames, f.intact, NEW w,
         DOMAIN disk = {"bin", "partial"}
  PROVE  LET u == Upsert(f, w)
         IN  /\ Sound(u.asm) /\ From(asm, u.asm, f)
             /\ f.tx \in DOMAIN asm.active => u.asm = asm
             /\ DOMAIN u.disk = {"bin", "partial"} /\ u.disk.bin = disk.bin
<1> DEFINE u == Upsert(f, w)
           c == WithOpened(asm, f)
<1>1. CASE f.tx \in DOMAIN asm.active
  BY <1>1 DEF Upsert, From
<1>2. CASE f.tx \notin DOMAIN asm.active
  <2>1. /\ Sound(c) /\ DOMAIN c.active = DOMAIN asm.active \cup {f.tx}
        /\ c.active[f.tx] = OpenTx(f)
        /\ \A id \in DOMAIN asm.active : c.active[id] = asm.active[id]
    <3>1. f.tx \in Correct => f.total = Len(File[f.tx]) /\ f.file = Whole(f.tx)
      BY IntactIs
    <3>2. QED
      BY <1>2, <3>1, OpenedIs
  <2>2. u = EnforceRamCap(c, disk, w)
    BY <1>2 DEF Upsert, WithOpened
  <2>3. From(asm, c, f)
    BY <1>2, <2>1 DEF From
  <2> HIDE DEF c
  <2>4. CASE c.ram <= MaxRam
    BY <1>2, <2>1, <2>2, <2>3, <2>4 DEF EnforceRamCap
  <2>5. CASE ~(c.ram <= MaxRam)
    <3> DEFINE id == Oldest(c.active)
               r == Remove(c, id)
               d == [disk EXCEPT !.partial[id] = Stored(@, Data(c.active[id]), w)]
    <3>1. u = [asm |-> r, disk |-> d]
      BY <2>2, <2>5 DEF EnforceRamCap
    <3>2. DOMAIN d = {"bin", "partial"} /\ d.bin = disk.bin
      OBVIOUS
    <3>3. c.active \in Tables /\ DOMAIN c.active # {}
      BY <2>1, AsmIs DEF Sound
    <3>4. id \in DOMAIN c.active
      BY <3>3, OldestIs
    <3> HIDE DEF id
    <3>5. /\ Sound(r) /\ DOMAIN r.active = DOMAIN c.active \ {id}
          /\ \A j \in DOMAIN c.active \ {id} : r.active[j] = c.active[j]
      BY <2>1, <3>4, RemoveIs
    <3> HIDE DEF r, d
    <3>6. From(asm, r, f)
      BY <2>3, <3>5 DEF From
    <3>7. u.asm = r /\ u.disk = d
      BY <3>1
    <3>8. QED
      BY <1>2, <3>2, <3>5, <3>6, <3>7
  <2>6. QED
    BY <2>4, <2>5
<1>3. QED
  BY <1>1, <1>2

\* A transaction with one more chunk
Longer(t, m, n) == [t EXCEPT !.chunks = m, !.bytes = @ + n]

LEMMA TxAdds ==
  ASSUME NEW t \in Txs, NEW m \in Maps, NEW n \in Nat, NEW s, s = Longer(t, m, n)
  PROVE  /\ s \in Txs /\ s.chunks = m /\ s.total = t.total /\ s.file = t.file
         /\ s.bytes = t.bytes + n
<1> DEFINE b == t.bytes + n
<1>1. b \in Nat
  BY DEF Txs
<1>2. s = [t EXCEPT !.chunks = m, !.bytes = b]
  BY DEF Longer
<1> HIDE DEF b
<1>3. s \in Txs /\ s.chunks = m /\ s.total = t.total /\ s.file = t.file /\ s.bytes = b
  BY <1>1, <1>2 DEF Txs
<1>4. QED
  BY <1>3 DEF b

LEMMA AddIs ==
  ASSUME NEW a, Sound(a), NEW f \in Frames, f.intact, f.tx \in DOMAIN a.active,
         f.index \notin Received(a.active[f.tx]), NEW c, c = AddChunk(a, f)
  PROVE  /\ Sound(c) /\ DOMAIN c.active = DOMAIN a.active
         /\ \A id \in DOMAIN a.active : id # f.tx => c.active[id] = a.active[id]
         /\ Received(c.active[f.tx]) = Received(a.active[f.tx]) \cup {f.index}
         /\ \A i \in Received(a.active[f.tx]) :
              c.active[f.tx].chunks[i] = a.active[f.tx].chunks[i]
         /\ c.active[f.tx].file = a.active[f.tx].file
         /\ Gaps(c.active[f.tx]) = Gaps(a.active[f.tx]) - 1
<1> DEFINE D == DOMAIN a.active
           t == a.active[f.tx]
           m == With(t.chunks, f.index, f.data)
           s == Longer(t, m, Len(f.data))
           R == Received(t)
           h == [i \in R |-> Len(t.chunks[i])]
           k == [i \in R \cup {f.index} |-> Len(m[i])]
<1>1. a \in Asms /\ a.ram = RamOf(a) /\ t.bytes = BytesOf(t) /\ Fits(f.tx, t)
  BY DEF Sound
<1>2. /\ a.active \in Tables /\ D \in SUBSET TxIds /\ IsFiniteSet(D) /\ a.ram \in Nat
      /\ \A id \in D : a.active[id] \in Txs
  BY <1>1, AsmIs, TableIs
<1>3. /\ t \in Txs /\ R \in SUBSET Nat /\ IsFiniteSet(R)
      /\ \A i \in R : t.chunks[i] \in Payload
  BY <1>2, TxIs
<1>4. f.index \in Nat /\ f.data \in Payload /\ Len(f.data) \in Nat
  BY FrameIs, LenProperties DEF Payload
<1>5. /\ m \in Maps /\ DOMAIN m = R \cup {f.index} /\ m[f.index] = f.data
      /\ \A i \in R : m[i] = t.chunks[i]
  <2>1. t.chunks \in Maps
    BY <1>3 DEF Txs
  <2> DEFINE q == t.chunks
             x == f.index
             d == f.data
  <2>2. q \in Maps /\ DOMAIN q = R /\ x \in Nat /\ d \in Payload
    BY <1>4, <2>1 DEF Received
  <2> HIDE DEF q, x, d, R, t, m, s, h, k
  <2>3. /\ With(q, x, d) \in Maps
        /\ DOMAIN With(q, x, d) = DOMAIN q \cup {x} /\ With(q, x, d)[x] = d
        /\ \A j \in DOMAIN q : j # x => With(q, x, d)[j] = q[j]
    BY <2>2, MapWith
  <2>4. f.index \notin R
    BY DEF R, t
  <2>5. QED
    BY <2>2, <2>3, <2>4 DEF q, x, d, m
<1> HIDE DEF m
<1>6. /\ s \in Txs /\ s.chunks = m /\ s.total = t.total /\ s.file = t.file
      /\ s.bytes = t.bytes + Len(f.data) /\ Received(s) = R \cup {f.index}
  <2> DEFINE n == Len(f.data)
  <2>1. n \in Nat /\ t \in Txs /\ m \in Maps /\ s = Longer(t, m, n)
    BY <1>3, <1>4, <1>5
  <2> HIDE DEF t, s, n, R
  <2>2. s \in Txs /\ s.chunks = m /\ s.total = t.total /\ s.file = t.file
        /\ s.bytes = t.bytes + n
    BY <2>1, TxAdds
  <2>3. QED
    BY <1>5, <2>2 DEF Received, n
<1>7. /\ c.active = [a.active EXCEPT ![f.tx] = s]
      /\ c.ram = a.ram + Len(f.data) /\ c.dups = a.dups /\ DOMAIN c = {"active", "ram", "dups"}
  <2>1. DOMAIN a = {"active", "ram", "dups"}
    BY <1>1 DEF Asms
  <2>2. DOMAIN t = {"chunks", "total", "file", "vast", "timeout", "bytes"}
    BY <1>3 DEF Txs
  <2>3. QED
    BY <2>1, <2>2 DEF AddChunk, Longer, m
<1> HIDE DEF s
<1>8. /\ DOMAIN c.active = D /\ c.active[f.tx] = s
      /\ \A id \in D : id # f.tx => c.active[id] = a.active[id]
  BY <1>7
<1>9. c \in Asms
  <2>1. c.active \in [D -> Txs] /\ D \in FiniteSubsets(TxIds)
    BY <1>2, <1>6, <1>7 DEF FiniteSubsets
  <2>2. c.active \in Tables
    BY <2>1 DEF Tables
  <2>3. c.ram \in Nat /\ c.dups \in [ok : Nat, mismatch : Nat]
    BY <1>1, <1>2, <1>4, <1>7, AsmIs
  <2>4. c = [active |-> c.active, ram |-> c.ram, dups |-> c.dups]
    BY <1>1, <1>7 DEF Asms, AddChunk
  <2>5. QED
    BY <2>2, <2>3, <2>4, AsmMade
<1>10. BytesOf(s) = BytesOf(t) + Len(f.data)
  <2> DEFINE E == R \cup {f.index}
  <2>1. BytesOf(s) = SumFunctionOnSet(k, E) /\ BytesOf(t) = SumFunctionOnSet(h, R)
    BY <1>6 DEF BytesOf
  <2>2. /\ k[f.index] = Len(f.data) /\ \A i \in R : h[i] \in Nat /\ h[i] = k[i]
        /\ \A i \in E : k[i] \in Nat
    <3>1. \A i \in R : Len(t.chunks[i]) \in Nat
      BY <1>3, LenProperties DEF Payload
    <3> HIDE DEF t, R
    <3>2. QED
      BY <1>4, <1>5, <3>1
  <2>3. IsFiniteSet(E) /\ f.index \in E /\ E \ {f.index} = R
    BY <1>3, FS_AddElement
  <2> HIDE DEF h, k, R, E, t
  <2>4. SumFunctionOnSet(k, E) = k[f.index] + SumFunctionOnSet(k, R)
    BY <2>2, <2>3, SumTakes
  <2>5. SumFunctionOnSet(h, R) = SumFunctionOnSet(k, R) /\ SumFunctionOnSet(h, R) \in Nat
    BY <1>3, <2>2, SumSame, SumTakes
  <2>6. QED
    BY <1>4, <2>1, <2>2, <2>4, <2>5
<1>11. RamOf(c) = RamOf(a) + Len(f.data)
  <2> DEFINE x == f.tx
             T == D \ {x}
             p == Bytes(a.active)
             q == Bytes(c.active)
  <2>1. /\ RamOf(a) = SumFunctionOnSet(p, D) /\ RamOf(c) = SumFunctionOnSet(q, D)
        /\ p[x] = t.bytes /\ q[x] = s.bytes
        /\ \A id \in T : p[id] = q[id]
        /\ \A id \in D : p[id] \in Nat /\ q[id] \in Nat
    <3>1. \A id \in D : a.active[id].bytes \in Nat /\ c.active[id].bytes \in Nat
      BY <1>2, <1>6, <1>8, TxIs
    <3>2. QED
      BY <1>8, <3>1 DEF RamOf, Bytes
  <2>2. IsFiniteSet(T) /\ T \subseteq D /\ x \in D
    BY <1>2, FS_Subset
  <2>3. t.bytes \in Nat
    BY <1>3, TxIs
  <2> HIDE DEF D, t, x, p, q
  <2>4. /\ SumFunctionOnSet(p, D) = p[x] + SumFunctionOnSet(p, T)
        /\ SumFunctionOnSet(q, D) = q[x] + SumFunctionOnSet(q, T)
    BY <1>2, <2>1, <2>2, SumTakes
  <2> HIDE DEF T
  <2>5. SumFunctionOnSet(p, T) = SumFunctionOnSet(q, T) /\ SumFunctionOnSet(p, T) \in Nat
    BY <2>1, <2>2, SumSame, SumTakes
  <2>6. QED
    BY <1>4, <1>6, <2>1, <2>3, <2>4, <2>5
<1>12. Fits(f.tx, s)
  <2> SUFFICES ASSUME f.tx \in Correct
               PROVE  /\ s.total = Len(File[f.tx]) /\ s.file = Whole(f.tx)
                      /\ \A i \in Received(s) : i + 1 \in 1..Len(File[f.tx])
                                                /\ s.chunks[i] = File[f.tx][i + 1]
    BY DEF Fits
  <2>1. /\ f.index + 1 \in 1..Len(File[f.tx]) /\ f.data = File[f.tx][f.index + 1]
    BY IntactIs
  <2>2. /\ t.total = Len(File[f.tx]) /\ t.file = Whole(f.tx)
        /\ \A i \in R : i + 1 \in 1..Len(File[f.tx])
                        /\ t.chunks[i] = File[f.tx][i + 1]
    BY <1>1 DEF Fits
  <2> HIDE DEF t, R
  <2>3. QED
    BY <1>5, <1>6, <2>1, <2>2
<1>13. Gaps(s) = Gaps(t) - 1
  <2>1. f.index \notin R /\ t.total \in Nat /\ Cardinality(R) \in Nat
    BY <1>3, TxIs
  <2>2. Cardinality(R \cup {f.index}) = Cardinality(R) + 1
    BY <1>3, <2>1, FS_AddElement
  <2> HIDE DEF R, t
  <2>3. Gaps(s) = t.total - (Cardinality(R) + 1) /\ Gaps(t) = t.total - Cardinality(R)
    BY <1>6, <2>2 DEF Gaps, R
  <2>4. QED
    BY <2>1, <2>3
<1>14. Sound(c)
  <2>1. c.ram = RamOf(c)
    BY <1>1, <1>7, <1>11
  <2>2. ASSUME NEW id \in DOMAIN c.active
        PROVE  c.active[id].bytes = BytesOf(c.active[id]) /\ Fits(id, c.active[id])
    <3>1. CASE id = f.tx
      BY <1>1, <1>6, <1>8, <1>10, <1>12, <3>1
    <3>2. CASE id # f.tx
      BY <1>8, <3>2 DEF Sound
    <3>3. QED
      BY <3>1, <3>2
  <2>3. QED
    BY <1>9, <2>1, <2>2 DEF Sound
<1>15. QED
  <2>1. s.file = t.file /\ \A i \in R : s.chunks[i] = t.chunks[i]
    BY <1>5, <1>6
  <2>2. QED
    BY <1>6, <1>8, <1>13, <1>14, <2>1
-----------------------------------------------------------------------------
(* The invariant, call by call                                             *)
NotFull(a) == \A id \in DOMAIN a.active : Gaps(a.active[id]) > 0

\* A sequence and its first parts
Parts(s) == {SubSeq(s, 1, n) : n \in 0..Len(s)}

DiskSound(d) ==
  /\ DOMAIN d = {"bin", "partial"} /\ DOMAIN d.bin = TxIds
  /\ \A id \in Correct : d.bin[id] = None \/ d.bin[id] \in Parts(Whole(id))

ReportSound(d, r) ==
  \A o \in r : o.tx \in Correct => /\ o.kind = "Complete" => d.bin[o.tx] = Whole(o.tx)
                                   /\ o.kind = "Abandoned" => o.gaps > 0

\* The inductive invariant
MInv ==
  /\ Sound(asm)
  /\ ~panicked => NotFull(asm)
  /\ DiskSound(disk)
  /\ ReportSound(disk, report)

\* The step keeps every chunk and every header of what stays in the table.
Kept ==
  \A id \in DOMAIN asm.active \cap DOMAIN asm'.active :
    /\ \A i \in Received(asm.active[id]) :
         /\ i \in Received(asm'.active[id])
         /\ asm'.active[id].chunks[i] = asm.active[id].chunks[i]
    /\ asm'.active[id].file = asm.active[id].file

\* What fs::write leaves: the old file, or a part of the new one.
LEMMA StoredIs ==
  ASSUME NEW old, NEW data \in Payload, NEW w \in Writes
  PROVE  /\ Stored(old, data, w) \in {old} \cup Parts(data)
         /\ Done(w) => Stored(old, data, w) = data
<1>1. Len(data) \in Nat /\ SubSeq(data, 1, Len(data)) = data
  BY LenProperties, SubSeqFull DEF Payload
<1>2. data \in Parts(data) /\ SubSeq(data, 1, 0) \in Parts(data)
  <2>1. Len(data) \in 0..Len(data) /\ 0 \in 0..Len(data)
    BY <1>1
  <2>2. SubSeq(data, 1, Len(data)) \in Parts(data)
    BY <2>1 DEF Parts
  <2>3. SubSeq(data, 1, 0) \in Parts(data)
    BY <2>1 DEF Parts
  <2>4. QED
    BY <1>1, <2>2, <2>3
<1>3. CASE w \in {"cut"} \X (0..MaxCut)
  <2>1. w[1] = "cut" /\ w[2] \in Nat
    BY <1>3, BoundAssumption
  <2>2. w[2] < Len(data) => SubSeq(data, 1, w[2]) \in Parts(data)
    BY <1>1, <2>1 DEF Parts
  <2>3. QED
    BY <1>2, <2>1, <2>2 DEF Stored, Done
<1>4. CASE w \in {<<"written", 0>>, <<"untouched", 0>>}
  BY <1>2, <1>4 DEF Stored, Done
<1>5. QED
  BY <1>3, <1>4 DEF Writes

LEMMA FinalizeSound ==
  ASSUME NEW a, Sound(a), NEW d, DiskSound(d), NEW w \in Writes, NEW id \in DOMAIN a.active,
         Gaps(a.active[id]) = 0, Finalize(a, d, id, w)
  PROVE  /\ DiskSound(disk') /\ ReportSound(disk', report')
<1> DEFINE t == a.active[id]
<1>1. t \in Txs /\ Fits(id, t) /\ id \in TxIds
  BY AsmIs, TableIs DEF Sound
<1>2. id \in Correct => Data(t) = t.file /\ t.file = Whole(id)
  BY <1>1, WholeData DEF Fits
<1>3. t.file \in Payload
  BY <1>1, TxIs
<1> HIDE DEF t
<1>4. CASE disk' = d /\ report' = {}
  BY <1>4 DEF ReportSound
<1>5. CASE Data(t) = t.file /\ ~t.vast
  <2> DEFINE v == Stored(d.bin[id], Data(t), w)
  <2>1. /\ disk' = [d EXCEPT !.bin[id] = v]
        /\ report' = IF Done(w) THEN {Complete(id)} ELSE {}
    BY <1>5 DEF Finalize, t
  <2>2. v \in {d.bin[id]} \cup Parts(t.file) /\ (Done(w) => v = t.file)
    BY <1>3, <1>5, StoredIs
  <2>3. /\ DOMAIN disk' = {"bin", "partial"} /\ DOMAIN disk'.bin = TxIds
        /\ disk'.bin[id] = v /\ \A j \in TxIds : j # id => disk'.bin[j] = d.bin[j]
    BY <1>1, <2>1 DEF DiskSound
  <2> HIDE DEF v
  <2>4. DiskSound(disk')
    BY <1>2, <2>2, <2>3, SenderAssumption DEF DiskSound
  <2>5. ASSUME NEW o \in report', o.tx \in Correct
        PROVE  /\ o.kind = "Complete" => disk'.bin[o.tx] = Whole(o.tx)
               /\ o.kind = "Abandoned" => o.gaps > 0
    <3>1. Done(w) /\ o = Complete(id)
      BY <2>1, <2>5
    <3>2. o.tx = id /\ o.kind = "Complete"
      BY <3>1 DEF Complete
    <3>3. QED
      BY <1>2, <2>2, <2>3, <2>5, <3>1, <3>2
  <2>6. QED
    BY <2>4, <2>5 DEF ReportSound
<1>6. CASE Data(t) # t.file /\ ~t.vast
  <2>1. /\ disk' = [d EXCEPT !.partial[id] = Stored(@, Data(t), w)]
        /\ report' = IF Done(w) THEN {Abandoned(id, 0)} ELSE {}
    BY <1>6 DEF Finalize, t
  <2>2. DOMAIN disk' = {"bin", "partial"} /\ disk'.bin = d.bin
    BY <2>1 DEF DiskSound
  <2>3. DiskSound(disk')
    BY <2>2 DEF DiskSound
  <2>4. \A o \in report' : o.tx = id
    BY <2>1 DEF Abandoned
  <2>5. QED
    BY <1>2, <1>6, <2>3, <2>4 DEF ReportSound
<1>7. QED
  BY <1>4, <1>5, <1>6 DEF Finalize, t

\* on_chunk, by its exits
LEMMA OnChunkSound ==
  ASSUME MInv, NEW f \in Frames, OnChunk(f)
  PROVE  MInv' /\ Kept
<1>1. ~panicked /\ Sound(asm) /\ NotFull(asm) /\ DiskSound(disk)
  BY DEF MInv, OnChunk
<1>2. CASE RefuseChunk(f)
  <2>1. asm' = asm /\ disk' = disk /\ report' = {}
    BY <1>2 DEF RefuseChunk
  <2>2. QED
    BY <1>1, <2>1 DEF MInv, Kept, ReportSound, NotFull
<1>3. CASE f.intact /\ \E w1, w2 \in Writes :
             LET u == Upsert(f, w1)
             IN  \/ EvictedAtOnce(f, u) \/ OutOfBounds(f, u)
                 \/ Duplicate(f, u) \/ NewChunk(f, u, w2)
  <2>1. PICK w1 \in Writes : \E w2 \in Writes :
             LET u == Upsert(f, w1)
             IN  \/ EvictedAtOnce(f, u) \/ OutOfBounds(f, u)
                 \/ Duplicate(f, u) \/ NewChunk(f, u, w2)
    BY <1>3
  <2> DEFINE u == Upsert(f, w1)
             b == u.asm
             d == u.disk
             t == b.active[f.tx]
  <2>2. PICK w2 \in Writes : \/ EvictedAtOnce(f, u) \/ OutOfBounds(f, u)
                             \/ Duplicate(f, u) \/ NewChunk(f, u, w2)
    BY <2>1
  <2>3. /\ Sound(b) /\ From(asm, b, f) /\ (f.tx \in DOMAIN asm.active => b = asm)
        /\ DOMAIN d = {"bin", "partial"} /\ d.bin = disk.bin
    BY <1>1, <1>3, UpsertIs DEF DiskSound
  <2> HIDE DEF u
  <2>4. DiskSound(d)
    BY <1>1, <2>3 DEF DiskSound
  <2>5. f.index \in Nat /\ f.total \in Nat
    BY FrameIs
  <2>6. ASSUME NEW id \in DOMAIN b.active, f.tx \in DOMAIN b.active => Received(t) # {} \/ id # f.tx
        PROVE  Gaps(b.active[id]) > 0
    <3>1. id \in DOMAIN asm.active /\ b.active[id] = asm.active[id]
      BY <2>3, <2>6, OpenIs DEF From
    <3>2. QED
      BY <1>1, <3>1 DEF NotFull
  <2>7. \A id \in DOMAIN asm.active \cap DOMAIN b.active : b.active[id] = asm.active[id]
    BY <2>3 DEF From
  <2>8. CASE EvictedAtOnce(f, u)
    <3>1. asm' = b /\ disk' = d /\ report' = {} /\ f.tx \notin DOMAIN b.active
      BY <2>8 DEF EvictedAtOnce
    <3>2. NotFull(b)
      BY <2>6, <3>1 DEF NotFull
    <3>3. Kept
      BY <2>7, <3>1 DEF Kept
    <3>4. QED
      BY <2>3, <2>4, <3>1, <3>2, <3>3 DEF MInv, NotFull, ReportSound
  <2>9. CASE OutOfBounds(f, u)
    <3>1. asm' = b /\ disk' = d /\ report' = {} /\ panicked'
      BY <2>9 DEF OutOfBounds
    <3>2. Kept
      BY <2>7, <3>1 DEF Kept
    <3>3. QED
      BY <2>3, <2>4, <3>1, <3>2 DEF MInv, ReportSound
  <2>10. CASE Duplicate(f, u)
    <3>1. /\ asm' = IF t.chunks[f.index] = f.data
                    THEN [b EXCEPT !.dups.ok = @ + 1]
                    ELSE [b EXCEPT !.dups.mismatch = @ + 1]
          /\ disk' = d /\ report' = {} /\ f.tx \in DOMAIN b.active /\ f.index \in Received(t)
      BY <2>10 DEF Duplicate
    <3>2. Sound(asm') /\ asm'.active = b.active
      <4>1. b \in Asms
        BY <2>3 DEF Sound
      <4>2. asm' \in Asms /\ asm'.active = b.active /\ asm'.ram = b.ram
        BY <3>1, <4>1 DEF Asms
      <4>3. QED
        BY <2>3, <4>2 DEF Sound, RamOf
    <3>3. NotFull(b)
      BY <2>6, <3>1 DEF NotFull
    <3>4. Kept
      BY <2>7, <3>2 DEF Kept
    <3>5. QED
      BY <2>4, <3>1, <3>2, <3>3, <3>4 DEF MInv, NotFull, ReportSound
  <2>11. CASE NewChunk(f, u, w2)
    <3> DEFINE c == AddChunk(b, f)
    <3>1. /\ f.tx \in DOMAIN b.active /\ f.index < Slots(t.total) /\ f.index \notin Received(t)
          /\ IF Gaps(c.active[f.tx]) = 0
             THEN Finalize(c, d, f.tx, w2)
             ELSE asm' = c /\ disk' = d /\ report' = {} /\ UNCHANGED panicked
      BY <2>11 DEF NewChunk
    <3>2. /\ Sound(c) /\ DOMAIN c.active = DOMAIN b.active
          /\ \A id \in DOMAIN b.active : id # f.tx => c.active[id] = b.active[id]
          /\ Received(c.active[f.tx]) = Received(t) \cup {f.index}
          /\ \A i \in Received(t) : c.active[f.tx].chunks[i] = t.chunks[i]
          /\ c.active[f.tx].file = t.file
          /\ Gaps(c.active[f.tx]) = Gaps(t) - 1
      <4> DEFINE e == AddChunk(b, f)
      <4> HIDE DEF b, e
      <4>1. QED
        BY <1>3, <2>3, <3>1, AddIs DEF e
    <3> HIDE DEF c
    <3>3. Gaps(t) > 0
      <4>1. CASE f.tx \in DOMAIN asm.active
        BY <1>1, <2>3, <4>1 DEF NotFull
      <4>2. CASE f.tx \notin DOMAIN asm.active
        <5>1. t = OpenTx(f)
          BY <2>3, <3>1, <4>2 DEF From
        <5>2. Received(t) = {} /\ t.total = f.total
          BY <5>1, OpenIs
        <5>3. f.total # 0
          <6>1. Slots(0) <= 0
            BY BoundAssumption DEF Slots
          <6>2. f.index < Slots(f.total)
            <7> HIDE DEF t
            <7>1. QED
              BY <3>1, <5>2
          <6>3. Slots(0) \in Int
            BY BoundAssumption DEF Slots
          <6>4. ~(f.index < Slots(0))
            BY <2>5, <6>1, <6>3
          <6>5. QED
            BY <6>2, <6>4
        <5>4. Cardinality({}) = 0
          BY FS_EmptySet
        <5>5. QED
          BY <2>5, <5>2, <5>3, <5>4 DEF Gaps
      <4>3. QED
        BY <4>1, <4>2
    <3>4. Gaps(t) \in Int
      <4>1. t \in Txs
        BY <2>3, <3>1, AsmIs, TableIs DEF Sound
      <4>2. QED
        BY <4>1, TxIs DEF Gaps
    <3>5. ASSUME NEW id \in DOMAIN c.active, id # f.tx
          PROVE  Gaps(c.active[id]) > 0
      BY <2>6, <3>2, <3>5
    <3>6. ASSUME NEW id \in DOMAIN asm.active \cap DOMAIN c.active
          PROVE  /\ \A i \in Received(asm.active[id]) :
                      /\ i \in Received(c.active[id])
                      /\ c.active[id].chunks[i] = asm.active[id].chunks[i]
                 /\ c.active[id].file = asm.active[id].file
      BY <2>7, <3>2
    <3>7. CASE Gaps(c.active[f.tx]) = 0
      <4>1. asm' = Remove(c, f.tx) /\ DiskSound(disk') /\ ReportSound(disk', report')
        <5> DEFINE x == f.tx
        <5>1. Finalize(c, d, x, w2) /\ x \in DOMAIN c.active /\ Gaps(c.active[x]) = 0
          BY <3>1, <3>2, <3>7
        <5> HIDE DEF x, d, t, b
        <5>2. DiskSound(disk') /\ ReportSound(disk', report')
          BY <2>4, <3>2, <5>1, FinalizeSound
        <5>3. QED
          BY <5>1, <5>2 DEF Finalize, x
      <4>2. /\ Sound(Remove(c, f.tx))
            /\ DOMAIN Remove(c, f.tx).active = DOMAIN c.active \ {f.tx}
            /\ \A j \in DOMAIN c.active \ {f.tx} : Remove(c, f.tx).active[j] = c.active[j]
        BY <3>1, <3>2, RemoveIs
      <4>3. NotFull(asm')
        BY <3>5, <4>1, <4>2 DEF NotFull
      <4>4. Kept
        BY <3>6, <4>1, <4>2 DEF Kept
      <4>5. QED
        BY <4>1, <4>2, <4>3, <4>4 DEF MInv, NotFull
    <3>8. CASE Gaps(c.active[f.tx]) # 0
      <4>1. asm' = c /\ disk' = d /\ report' = {}
        BY <3>1, <3>8
      <4>2. Gaps(c.active[f.tx]) > 0
        BY <3>2, <3>3, <3>4, <3>8
      <4>3. NotFull(asm')
        BY <3>5, <4>1, <4>2 DEF NotFull
      <4>4. Kept
        BY <3>6, <4>1 DEF Kept
      <4>5. QED
        BY <2>4, <3>2, <4>1, <4>3, <4>4 DEF MInv, NotFull, ReportSound
    <3>9. QED
      BY <3>7, <3>8
  <2>12. QED
    BY <2>2, <2>8, <2>9, <2>10, <2>11
<1>4. QED
  BY <1>2, <1>3 DEF OnChunk

LEMMA PollSound ==
  ASSUME MInv, Poll
  PROVE  MInv' /\ Kept
<1> DEFINE b == SumFunctionOnSet(Bytes(asm.active), TimedOut)
           c == Dropped(asm, TimedOut, b)
<1>1. ~panicked /\ Sound(asm) /\ NotFull(asm) /\ DiskSound(disk)
  BY DEF MInv, Poll
<1>2. PICK w \in [TimedOut -> Writes] :
        /\ asm' = c
        /\ disk' = [disk EXCEPT !.partial = [id \in TxIds |->
                     IF id \in TimedOut
                     THEN Stored(@[id], Data(asm.active[id]), w[id]) ELSE @[id]]]
        /\ report' = {Abandoned(id, Gaps(asm.active[id])) :
                       id \in {i \in TimedOut : Done(w[i])}}
  BY DEF Poll, Dropped, Bytes
<1>3. TimedOut \in SUBSET DOMAIN asm.active
  BY DEF TimedOut
<1>4. /\ Sound(c) /\ DOMAIN c.active = DOMAIN asm.active \ TimedOut
      /\ \A id \in DOMAIN asm.active \ TimedOut : c.active[id] = asm.active[id]
  <2> HIDE DEF b, c
  <2>1. QED
    BY <1>1, <1>3, Drops DEF b, c
<1> HIDE DEF c
<1>5. NotFull(asm') /\ Kept
  BY <1>1, <1>2, <1>4 DEF NotFull, Kept
<1>6. DOMAIN disk' = {"bin", "partial"} /\ disk'.bin = disk.bin
  BY <1>1, <1>2 DEF DiskSound
<1>7. DiskSound(disk')
  BY <1>1, <1>6 DEF DiskSound
<1>8. ReportSound(disk', report')
  <2>1. ASSUME NEW o \in report'
        PROVE  o.kind = "Abandoned" /\ o.gaps > 0
    <3>1. PICK id \in TimedOut : o = Abandoned(id, Gaps(asm.active[id]))
      BY <1>2
    <3>2. Gaps(asm.active[id]) > 0
      BY <1>1, <1>3 DEF NotFull
    <3>3. QED
      BY <3>1, <3>2 DEF Abandoned
  <2>2. QED
    BY <2>1 DEF ReportSound
<1>9. QED
  BY <1>2, <1>4, <1>5, <1>7, <1>8 DEF MInv, NotFull

LEMMA Starts ==
  ASSUME Init
  PROVE  MInv
<1> DEFINE z == [ok |-> 0, mismatch |-> 0]
           m == asm.active
<1>1. m = <<>> /\ asm.ram = 0 /\ asm.dups = z /\ asm = [active |-> <<>>, ram |-> 0, dups |-> z]
  BY DEF Init
<1>2. DOMAIN m = {} /\ m \in Tables
  <2>1. <<>> \in Seq(Txs) /\ Len(<<>>) = 0
    BY EmptySeq
  <2>2. DOMAIN <<>> = {}
    BY <2>1
  <2>3. {} \in FiniteSubsets(TxIds) /\ <<>> \in [{} -> Txs]
    BY <2>2, FS_EmptySet DEF FiniteSubsets
  <2>4. QED
    BY <1>1, <2>2, <2>3 DEF Tables
<1>3. asm \in Asms
  <2> HIDE DEF m
  <2>1. <<>> \in Tables /\ z \in [ok : Nat, mismatch : Nat] /\ 0 \in Nat
    BY <1>1, <1>2
  <2> HIDE DEF z
  <2>2. QED
    BY <1>1, <2>1, AsmMade
<1>4. RamOf(asm) = 0
  BY <1>2, SumTakes, FS_EmptySet DEF RamOf
<1>5. Sound(asm) /\ NotFull(asm)
  BY <1>1, <1>2, <1>3, <1>4 DEF Sound, NotFull
<1>6. DiskSound(disk) /\ ReportSound(disk, report)
  BY SenderAssumption DEF Init, DiskSound, ReportSound
<1>7. QED
  BY <1>5, <1>6 DEF MInv

LEMMA StepSound ==
  ASSUME MInv, [Next]_mvars
  PROVE  MInv' /\ Kept
<1>1. CASE \E f \in Frames : OnChunk(f)
  BY <1>1, OnChunkSound
<1>2. CASE Poll
  BY <1>2, PollSound
<1>3. CASE UNCHANGED <<asm, disk, report, panicked>>
  BY <1>3 DEF MInv, Kept, NotFull, ReportSound
<1>4. QED
  BY <1>1, <1>2, <1>3 DEF Next, Elapse, mvars

\* The assembler counts its bytes, waits for no full file and mixes up none, in
\* every state it reaches.
THEOREM MFileSound == Spec => []MInv
<1>1. Init => MInv
  BY Starts
<1>2. MInv /\ [Next]_mvars => MInv'
  BY StepSound
<1>3. QED
  BY <1>1, <1>2, PTL DEF Spec

\* RamExact: the RAM figure is what the stored chunks hold.
THEOREM AlwaysRamExact == Spec => []RamExact
<1>1. MInv => RamExact
  BY DEF MInv, Sound, RamExact, RamOf, Bytes
<1>2. QED
  BY <1>1, MFileSound, PTL

\* NeverIdleFull: a transaction in the table always lacks a chunk.
THEOREM AlwaysNeverIdleFull == Spec => []NeverIdleFull
<1>1. MInv => NeverIdleFull
  BY DEF MInv, NotFull, NeverIdleFull
<1>2. QED
  BY <1>1, MFileSound, PTL

\* FirstArrivalWins: a stored chunk is neither replaced nor dropped while its
\* transaction is open.
THEOREM AlwaysFirstArrivalWins == Spec => FirstArrivalWins
<1>1. MInv /\ [Next]_mvars =>
        [\A id \in DOMAIN asm.active \cap DOMAIN asm'.active :
           /\ \A i \in Received(asm.active[id]) :
                /\ i \in Received(asm'.active[id])
                /\ asm'.active[id].chunks[i] = asm.active[id].chunks[i]
           /\ asm'.active[id].file = asm.active[id].file]_mvars
  BY StepSound DEF Kept
<1>2. QED
  BY <1>1, MFileSound, PTL DEF Spec, FirstArrivalWins

\* BinIsFile: what lies under the name of a completed file of a correct sender
\* is that file or, after a failing write, a first part of it; all of it when
\* completion is reported.
THEOREM AlwaysBinIsFile == Spec => []BinIsFile
<1>1. MInv => BinIsFile
  BY DEF MInv, DiskSound, ReportSound, BinIsFile, Parts
<1>2. QED
  BY <1>1, MFileSound, PTL

\* NoMismatch: the chunks of a correct sender never fail the check of the file.
THEOREM AlwaysNoMismatch == Spec => []NoMismatch
<1>1. MInv => NoMismatch
  BY DEF MInv, ReportSound, NoMismatch
<1>2. QED
  BY <1>1, MFileSound, PTL
=============================================================================
