---------------------------- MODULE BasicLemmas ----------------------------
(* Facts of arithmetic, sequences and sums the component proofs share.     *)
EXTENDS Integers, Functions, WellFoundedInduction, SequenceTheorems,
        FiniteSetTheorems, TLAPS

\* A non-empty set of naturals has a least element.
LEMMA LeastNatural ==
  ASSUME NEW T, T \subseteq Nat, T # {}
  PROVE  \E x \in T : \A y \in T : x <= y
<1>1. PICK x \in T : \A y \in T : ~(<<y, x>> \in OpToRel(<, Nat))
  BY NatLessThanWellFounded, WFMin
<1>2. \A y \in T : ~(y < x)
  BY <1>1 DEF OpToRel
<1>3. QED
  BY <1>2

\* What holds of 0 and goes from one number to the next, up to n
LEMMA UpToInduction ==
  ASSUME NEW n \in Nat, NEW Q, 0 \in Q,
         \A k \in 0..n : k < n /\ k \in Q => k + 1 \in Q
  PROVE  \A k \in 0..n : k \in Q
<1> DEFINE Bad == {k \in 0..n : k \notin Q}
<1> SUFFICES ASSUME Bad # {} PROVE FALSE
  OBVIOUS
<1>1. Bad \subseteq Nat
  OBVIOUS
<1>2. PICK m \in Bad : \A k \in Bad : m <= k
  <2> HIDE DEF Bad
  <2>1. QED
    BY <1>1, LeastNatural
<1>3. m \in 0..n /\ m \notin Q /\ m # 0
  OBVIOUS
<1>4. m - 1 \in 0..n /\ m - 1 < n /\ (m - 1) + 1 = m /\ ~(m <= m - 1)
  BY <1>3
<1>5. m - 1 \in Q
  BY <1>2, <1>4
<1>6. QED
  BY <1>3, <1>4, <1>5

StaysIn(V, n, step) == \A k \in 1..n, v \in V : step[k][v] \in V

Recurs(g, n, base, step) == g[0] = base /\ \A k \in 1..n : g[k] = step[k][g[k - 1]]

\* A function of 0..n that is defined by what it was one number before exists.
LEMMA RecursionExists ==
  ASSUME NEW n \in Nat, NEW V, NEW base \in V, NEW step, StaysIn(V, n, step)
  PROVE  \E g \in [0..n -> V] : Recurs(g, n, base, step)
<1> USE DEF StaysIn, Recurs
<1> DEFINE Upto(m, g) == g[0] = base /\ \A k \in 1..m : g[k] = step[k][g[k - 1]]
           Q == {m \in 0..n : \E g \in [0..m -> V] : Upto(m, g)}
<1>1. 0 \in Q
  <2> DEFINE g == [k \in 0..0 |-> base]
  <2>1. g \in [0..0 -> V] /\ g[0] = base /\ 1..0 = {} /\ 0 \in 0..n
    OBVIOUS
  <2> HIDE DEF g
  <2>2. QED
    BY <2>1
<1>2. ASSUME NEW m \in 0..n, m < n, m \in Q
      PROVE  m + 1 \in Q
  <2>1. PICK g \in [0..m -> V] : Upto(m, g)
    BY <1>2
  <2> DEFINE l == m + 1
             e == [k \in 0..l |-> IF k <= m THEN g[k] ELSE step[l][g[m]]]
  <2>2. /\ l \in 1..n /\ l \in 0..l /\ ~(l <= m) /\ l - 1 = m /\ m \in 0..m
        /\ 0..l = 0..m \cup {l} /\ 1..l = 1..m \cup {l} /\ l \in 0..n
        /\ \A k \in 0..m : k <= m /\ k \in 0..l
        /\ \A k \in 1..m : k \in 0..m /\ k - 1 \in 0..m
        /\ 0 \in 0..m
    BY <1>2
  <2>3. step[l][g[m]] \in V
    BY <2>2
  <2>4. e \in [0..l -> V]
    BY <2>2, <2>3
  <2>5. (\A k \in 0..m : e[k] = g[k]) /\ e[l] = step[l][g[m]]
    BY <2>2
  <2> HIDE DEF e, l
  <2>6. e[0] = base
    BY <2>1, <2>2, <2>5
  <2>7. ASSUME NEW k \in 1..l PROVE e[k] = step[k][e[k - 1]]
    <3>1. CASE k = l
      BY <2>2, <2>5, <3>1
    <3>2. CASE k # l
      BY <2>1, <2>2, <2>5, <3>2
    <3>3. QED
      BY <3>1, <3>2
  <2>8. l \in Q
    BY <2>2, <2>4, <2>6, <2>7
  <2>9. QED
    BY <2>8 DEF l
<1> HIDE DEF Q
<1>3. n \in Q
  BY <1>1, <1>2, UpToInduction
<1>4. QED
  BY <1>3 DEF Q

\* A sequence without its first k elements.
LEMMA SuffixIs ==
  ASSUME NEW S, NEW q \in Seq(S), NEW k \in 0..Len(q)
  PROVE  LET w == SubSeq(q, k + 1, Len(q))
         IN  /\ w \in Seq(S) /\ Len(w) = Len(q) - k
             /\ \A i \in 1..Len(w) : w[i] = q[i + k] /\ i + k \in 1..Len(q)
<1>1. Len(q) \in Nat
  BY LenProperties
<1>2. QED
  BY <1>1, ElementOfSeq, SubSeqProperties

\* Two elements appended, one after the other
LEMMA TwoAppended ==
  ASSUME NEW S, NEW t \in Seq(S), NEW x \in S, NEW y \in S
  PROVE  Append(Append(t, x), y) = t \o <<x, y>>
<1>1. <<x>> \in Seq(S) /\ <<y>> \in Seq(S) /\ <<x, y>> = <<x>> \o <<y>>
  <2> DEFINE a == <<x>>  b == <<y>>  c == <<x, y>>
  <2>1. /\ a \in Seq(S) /\ b \in Seq(S) /\ Len(a) = 1 /\ Len(b) = 1
        /\ a[1] = x /\ b[1] = y
    OBVIOUS
  <2>2. c \in Seq(S) /\ Len(c) = 2 /\ c[1] = x /\ c[2] = y
    OBVIOUS
  <2> HIDE DEF a, b, c
  <2> DEFINE d == a \o b
  <2>3. /\ d \in Seq(S) /\ Len(d) = Len(a) + Len(b)
        /\ \A i \in 1..(Len(a) + Len(b)) : d[i] = IF i <= Len(a) THEN a[i] ELSE b[i - Len(a)]
    BY <2>1, ConcatProperties
  <2> HIDE DEF d
  <2>4. Len(d) = 2 /\ d[1] = x /\ d[2] = y
    BY <2>1, <2>3
  <2>5. c = d
    BY <2>2, <2>3, <2>4, SeqEqual
  <2>6. QED
    BY <2>1, <2>5 DEF a, b, c, d
<1>2. /\ Append(t, x) \in Seq(S) /\ Append(t, x) = t \o <<x>>
      /\ Append(Append(t, x), y) = Append(t, x) \o <<y>>
  BY AppendProperties, AppendIsConcat
<1>3. (t \o <<x>>) \o <<y>> = t \o (<<x>> \o <<y>>)
  BY <1>1, ConcatAssociative
<1>4. QED
  BY Zenon, <1>1, <1>2, <1>3

\* A pair behind a sequence
LEMMA PairBehind ==
  ASSUME NEW S, NEW p \in Seq(S), NEW c \in Seq(S), Len(c) = 2
  PROVE  /\ p \o c \in Seq(S) /\ Len(p \o c) = Len(p) + 2
         /\ \A i \in 1..(Len(p) + 2) :
              (p \o c)[i] = IF i <= Len(p) THEN p[i] ELSE c[i - Len(p)]
<1> DEFINE q == p \o c
<1>1. /\ q \in Seq(S) /\ Len(q) = Len(p) + Len(c)
      /\ \A i \in 1..(Len(p) + Len(c)) :
           q[i] = IF i <= Len(p) THEN p[i] ELSE c[i - Len(p)]
  BY ConcatProperties
<1> HIDE DEF q
<1>2. QED
  BY <1>1 DEF q

\* The remainder is the only one.
LEMMA ModUnique ==
  ASSUME NEW M \in Nat \ {0}, NEW a \in Nat, NEW q \in Int, NEW r \in 0..(M - 1),
         a = M * q + r
  PROVE  a % M = r
<1> DEFINE p == a \div M
           s == a % M
<1>1. p \in Int /\ s \in 0..(M - 1) /\ a = M * p + s
  OBVIOUS
<1> HIDE DEF p, s
<1>2. M * (q - p) = s - r
  BY <1>1
<1>3. CASE q = p
  BY <1>1, <1>3 DEF s
<1>4. CASE q >= p + 1
  <2>1. PICK d \in Nat : q - p = d + 1
    BY <1>1, <1>4
  <2>2. M * (d + 1) = M * d + M /\ M * d >= 0
    OBVIOUS
  <2>3. QED
    BY <1>1, <1>2, <2>1, <2>2
<1>5. CASE p >= q + 1
  <2>1. PICK d \in Nat : p - q = d + 1
    BY <1>1, <1>5
  <2>2. M * (d + 1) = M * d + M /\ M * d >= 0
    OBVIOUS
  <2>3. M * (p - q) = r - s
    BY <1>1
  <2>4. QED
    BY <1>1, <2>1, <2>2, <2>3
<1>6. QED
  BY <1>1, <1>3, <1>4, <1>5

\* A counter that wraps counts modulo what it wraps at.
LEMMA ModNext ==
  ASSUME NEW M \in Nat \ {0}, NEW n \in Nat
  PROVE  (n + 1) % M = ((n % M) + 1) % M
<1> DEFINE q == n \div M
           r == n % M
<1>1. q \in Int /\ r \in 0..(M - 1) /\ n = M * q + r
  OBVIOUS
<1> HIDE DEF q, r
<1>2. CASE r + 1 < M
  <2>1. n + 1 = M * q + (r + 1) /\ r + 1 \in 0..(M - 1)
    BY <1>1, <1>2
  <2>2. (n + 1) % M = r + 1
    BY <1>1, <2>1, ModUnique
  <2>3. r + 1 = M * 0 + (r + 1)
    BY <1>1
  <2>4. (r + 1) % M = r + 1
    BY <1>1, <2>1, <2>3, ModUnique
  <2>5. QED
    BY <2>2, <2>4 DEF r
<1>3. CASE r + 1 = M
  <2>1. n + 1 = M * (q + 1) + 0 /\ 0 \in 0..(M - 1)
    BY <1>1, <1>3
  <2>2. (n + 1) % M = 0
    BY <1>1, <2>1, ModUnique
  <2>3. r + 1 = M * 1 + 0
    BY <1>1, <1>3
  <2>4. (r + 1) % M = 0
    BY <1>1, <2>1, <2>3, ModUnique
  <2>5. QED
    BY <2>2, <2>4 DEF r
<1>4. QED
  BY <1>1, <1>2, <1>3
-----------------------------------------------------------------------------
(* Folds over a finite set: the recursive function of Folds exists, and a   *)
(* sum does not depend on the order in which it is taken.                   *)

\* g folds every subset of S: c[s] is the element of s that is taken first,
\* step[s][v] what comes of it when the rest of s folds to v.
FoldsBy(g, S, base, step, c) ==
  \A s \in SUBSET S : g[s] = IF s = {} THEN base ELSE step[s][g[s \ {c[s]}]]

LEMMA SmallerBy ==
  ASSUME NEW S, IsFiniteSet(S), NEW x \in S
  PROVE  /\ Cardinality(S) \in Nat /\ IsFiniteSet(S \ {x})
         /\ Cardinality(S \ {x}) \in Nat
         /\ Cardinality(S) = Cardinality(S \ {x}) + 1
<1> DEFINE r == S \ {x}
<1>1. IsFiniteSet(r) /\ Cardinality(r) = Cardinality(S) - 1
  BY FS_RemoveElement
<1>2. Cardinality(S) \in Nat /\ Cardinality(r) \in Nat
  BY <1>1, FS_CardinalityType
<1> HIDE DEF r
<1>3. Cardinality(S) = Cardinality(r) + 1
  BY <1>1, <1>2
<1>4. QED
  BY <1>1, <1>2, <1>3 DEF r

LEMMA FoldExists ==
  ASSUME NEW S, IsFiniteSet(S), NEW V, NEW base \in V, NEW step, NEW c,
         \A s \in SUBSET S : s # {} => c[s] \in s,
         \A s \in SUBSET S, v \in V : s # {} => step[s][v] \in V
  PROVE  \E g \in [SUBSET S -> V] : FoldsBy(g, S, base, step, c)
<1> DEFINE UpTo(n, g) == \A s \in SUBSET S : Cardinality(s) <= n =>
                           g[s] = IF s = {} THEN base ELSE step[s][g[s \ {c[s]}]]
           Bad == {n \in Nat : ~ \E g \in [SUBSET S -> V] : UpTo(n, g)}
<1>1. \A s \in SUBSET S : IsFiniteSet(s) /\ Cardinality(s) \in Nat
  BY FS_Subset, FS_CardinalityType
<1>2. 0 \notin Bad
  <2> DEFINE g == [s \in SUBSET S |-> base]
  <2>1. g \in [SUBSET S -> V] /\ \A s \in SUBSET S : g[s] = base
    OBVIOUS
  <2> HIDE DEF g
  <2>2. UpTo(0, g)
    <3>1. ASSUME NEW s \in SUBSET S, Cardinality(s) <= 0
          PROVE  s = {}
      <4>1. Cardinality(s) \in Nat /\ IsFiniteSet(s)
        BY <1>1
      <4>2. Cardinality(s) = 0
        BY <3>1, <4>1
      <4>3. QED
        BY <4>1, <4>2, FS_EmptySet
    <3>2. QED
      BY <2>1, <3>1
  <2>3. QED
    BY <2>1, <2>2
<1>3. ASSUME NEW n \in Nat, n \notin Bad
      PROVE  n + 1 \notin Bad
  <2>1. PICK g \in [SUBSET S -> V] : UpTo(n, g)
    BY <1>3
  <2> DEFINE e == [s \in SUBSET S |-> IF Cardinality(s) <= n THEN g[s]
                                     ELSE step[s][g[s \ {c[s]}]]]
  <2>2. ASSUME NEW s \in SUBSET S, s # {}
        PROVE  /\ s \ {c[s]} \in SUBSET S /\ g[s \ {c[s]}] \in V
               /\ step[s][g[s \ {c[s]}]] \in V
               /\ Cardinality(s) = Cardinality(s \ {c[s]}) + 1
    BY <1>1, <2>2, SmallerBy
  <2>3. e \in [SUBSET S -> V]
    <3>1. ASSUME NEW s \in SUBSET S, ~(Cardinality(s) <= n)
          PROVE  step[s][g[s \ {c[s]}]] \in V
      <4>1. Cardinality({}) <= n
        BY FS_EmptySet
      <4>2. s # {}
        BY <3>1, <4>1
      <4>3. QED
        BY <2>2, <4>2
    <3>2. QED
      BY <3>1
  <2>4. /\ \A s \in SUBSET S : Cardinality(s) <= n => e[s] = g[s]
        /\ \A s \in SUBSET S : ~(Cardinality(s) <= n) => e[s] = step[s][g[s \ {c[s]}]]
    OBVIOUS
  <2> HIDE DEF e
  <2>5. UpTo(n + 1, e)
    <3> SUFFICES ASSUME NEW s \in SUBSET S, Cardinality(s) <= n + 1
                 PROVE  e[s] = IF s = {} THEN base ELSE step[s][e[s \ {c[s]}]]
      OBVIOUS
    <3>1. CASE s = {}
      <4>1. Cardinality({}) <= n
        BY FS_EmptySet
      <4>2. QED
        BY <2>1, <2>4, <3>1, <4>1
    <3>2. CASE s # {}
      <4> DEFINE r == s \ {c[s]}
      <4>1. /\ r \in SUBSET S /\ Cardinality(s) = Cardinality(r) + 1
            /\ Cardinality(r) \in Nat
        BY <1>1, <2>2, <3>2
      <4>2. e[r] = g[r]
        <5> DEFINE k == Cardinality(r)
        <5>1. k \in Nat /\ k + 1 <= n + 1
          BY <4>1
        <5> HIDE DEF k
        <5>2. k <= n
          BY <5>1
        <5>3. QED
          BY <2>4, <4>1, <5>2 DEF k
      <4>3. e[s] = step[s][g[r]]
        BY <2>1, <2>4, <3>2
      <4>4. QED
        BY <3>2, <4>2, <4>3
    <3>3. QED
      BY <3>1, <3>2
  <2>6. QED
    BY <2>3, <2>5
<1> HIDE DEF Bad
<1>4. Bad = {}
  <2> SUFFICES ASSUME Bad # {} PROVE FALSE
    OBVIOUS
  <2>1. Bad \subseteq Nat
    BY DEF Bad
  <2>2. PICK m \in Bad : \A k \in Bad : m <= k
    BY <2>1, LeastNatural
  <2>3. m \in Nat \ {0}
    BY <1>2, <2>1
  <2>4. m - 1 \in Nat /\ ~(m <= m - 1) /\ (m - 1) + 1 = m
    BY <2>3
  <2>5. m - 1 \notin Bad
    BY <2>2, <2>4
  <2>6. QED
    BY <1>3, <2>4, <2>5
<1>5. PICK g \in [SUBSET S -> V] : UpTo(Cardinality(S), g)
  BY <1>1, <1>4 DEF Bad
<1>6. \A s \in SUBSET S : Cardinality(s) <= Cardinality(S)
  BY FS_Subset
<1>7. QED
  BY <1>5, <1>6 DEF FoldsBy

\* What holds of a finite set when it holds of every smaller one.
LEMMA SubsetInduction ==
  ASSUME NEW S, IsFiniteSet(S), NEW Q,
         \A s \in SUBSET S : (\A r \in SUBSET s : r # s => r \in Q) => s \in Q
  PROVE  \A s \in SUBSET S : s \in Q
<1> DEFINE Bad == {n \in Nat : \E s \in SUBSET S : s \notin Q /\ Cardinality(s) = n}
<1>1. \A s \in SUBSET S : IsFiniteSet(s) /\ Cardinality(s) \in Nat
  BY FS_Subset, FS_CardinalityType
<1>2. Bad = {}
  <2> SUFFICES ASSUME Bad # {} PROVE FALSE
    OBVIOUS
  <2>1. PICK m \in Bad : \A k \in Bad : m <= k
    <3>1. Bad \subseteq Nat
      OBVIOUS
    <3> HIDE DEF Bad
    <3>2. QED
      BY <3>1, LeastNatural
  <2>2. PICK s \in SUBSET S : s \notin Q /\ Cardinality(s) = m
    OBVIOUS
  <2>3. PICK r \in SUBSET s : r # s /\ r \notin Q
    BY <2>2
  <2>4. r \in SUBSET S /\ Cardinality(r) \in Bad
    BY <1>1, <2>3
  <2>5. m <= Cardinality(r) /\ m \in Nat /\ Cardinality(r) \in Nat
    BY <1>1, <2>1, <2>4
  <2>6. Cardinality(r) <= Cardinality(s) /\ Cardinality(r) # Cardinality(s)
    BY <1>1, <2>3, FS_Subset
  <2> HIDE DEF Bad
  <2>7. QED
    BY <2>2, <2>5, <2>6
<1>3. QED
  BY <1>1, <1>2

TakenFirst(s) == CHOOSE x \in s : TRUE

\* g holds the sum of h over every subset of S.
IsSum(h, S, g) ==
  \A s \in SUBSET S : g[s] = IF s = {} THEN 0 ELSE h[TakenFirst(s)] + g[s \ {TakenFirst(s)}]

LEMMA SumsAgree ==
  ASSUME NEW S, NEW T, NEW U, IsFiniteSet(U), U \subseteq S, U \subseteq T,
         NEW h, NEW k, \A x \in U : h[x] = k[x],
         NEW g, NEW e, IsSum(h, S, g), IsSum(k, T, e)
  PROVE  g[U] = e[U]
<1> DEFINE Q == {s \in SUBSET U : g[s] = e[s]}
<1>1. ASSUME NEW s \in SUBSET U, \A r \in SUBSET s : r # s => r \in Q
      PROVE  s \in Q
  <2>1. CASE s = {}
    BY <2>1 DEF IsSum
  <2>2. CASE s # {}
    <3>1. TakenFirst(s) \in s
      BY <2>2 DEF TakenFirst
    <3>2. g[s \ {TakenFirst(s)}] = e[s \ {TakenFirst(s)}]
      BY <1>1, <3>1
    <3>3. h[TakenFirst(s)] = k[TakenFirst(s)]
      BY <3>1
    <3>4. g[s] = h[TakenFirst(s)] + g[s \ {TakenFirst(s)}] /\ e[s] = k[TakenFirst(s)] + e[s \ {TakenFirst(s)}]
      BY <2>2 DEF IsSum
    <3>5. QED
      BY <3>2, <3>3, <3>4
  <2>3. QED
    BY <2>1, <2>2
<1> HIDE DEF Q
<1>2. U \in Q
  BY <1>1, SubsetInduction
<1>3. QED
  BY <1>2 DEF Q

LEMMA SumOrder ==
  ASSUME NEW S, IsFiniteSet(S), NEW h, \A x \in S : h[x] \in Nat,
         NEW g \in [SUBSET S -> Nat], IsSum(h, S, g)
  PROVE  \A x \in S : g[S] = h[x] + g[S \ {x}]
<1> DEFINE Q == {s \in SUBSET S : \A x \in s : g[s] = h[x] + g[s \ {x}]}
<1>1. ASSUME NEW s \in SUBSET S, \A r \in SUBSET s : r # s => r \in Q,
             NEW x \in s
      PROVE  g[s] = h[x] + g[s \ {x}]
  <2> DEFINE c == TakenFirst(s)
  <2>1. c \in s
    BY DEF TakenFirst
  <2>2. g[s] = h[c] + g[s \ {c}]
    BY DEF IsSum
  <2> HIDE DEF c
  <2>3. CASE x = c
    BY <2>2, <2>3
  <2>4. CASE x # c
    <3> DEFINE b == s \ {c, x}
    <3>1. s \ {c} \in Q /\ s \ {x} \in Q
      BY <1>1, <2>1
    <3>2. x \in s \ {c} /\ c \in s \ {x} /\ (s \ {c}) \ {x} = b /\ (s \ {x}) \ {c} = b
      BY <2>1, <2>4
    <3>3. g[s \ {c}] = h[x] + g[b] /\ g[s \ {x}] = h[c] + g[b]
      BY <3>1, <3>2
    <3>4. h[x] \in Nat /\ h[c] \in Nat /\ g[b] \in Nat
      BY <2>1
    <3> HIDE DEF b
    <3>5. QED
      BY <2>2, <3>3, <3>4
  <2>5. QED
    BY <2>3, <2>4
<1>2. ASSUME NEW s \in SUBSET S, \A r \in SUBSET s : r # s => r \in Q
      PROVE  s \in Q
  BY <1>1, <1>2
<1> HIDE DEF Q
<1>3. S \in Q
  BY <1>2, SubsetInduction
<1>4. QED
  BY <1>3 DEF Q

\* The sum the community module defines
LEMMA SumFolds ==
  ASSUME NEW S, IsFiniteSet(S), NEW h, \A x \in S : h[x] \in Nat
  PROVE  \E g \in [SUBSET S -> Nat] : IsSum(h, S, g) /\ SumFunctionOnSet(h, S) = g[S]
<1> DEFINE Eq(g) == g = [s \in SUBSET S |-> IF s = {} THEN 0
                                            ELSE h[TakenFirst(s)] + g[s \ {TakenFirst(s)}]]
           c == [s \in SUBSET S |-> TakenFirst(s)]
           step == [s \in SUBSET S |-> [v \in Nat |-> h[TakenFirst(s)] + v]]
<1>1. SumFunctionOnSet(h, S) = (CHOOSE g : Eq(g))[S]
  BY DEF SumFunctionOnSet, FoldFunctionOnSet, MapThenFoldSet, TakenFirst
<1>2. \A s \in SUBSET S : s # {} => TakenFirst(s) \in s
  BY DEF TakenFirst
<1>3. PICK g \in [SUBSET S -> Nat] : FoldsBy(g, S, 0, step, c)
  <2>1. /\ \A s \in SUBSET S : s # {} => c[s] \in s
        /\ \A s \in SUBSET S, v \in Nat : s # {} => step[s][v] \in Nat
    BY <1>2
  <2>2. 0 \in Nat
    OBVIOUS
  <2> HIDE DEF c, step
  <2>3. QED
    BY <2>1, <2>2, FoldExists
<1>4. IsSum(h, S, g)
  <2>1. ASSUME NEW s \in SUBSET S
        PROVE  g[s] = IF s = {} THEN 0 ELSE h[TakenFirst(s)] + g[s \ {TakenFirst(s)}]
    <3>1. c[s] = TakenFirst(s) /\ g[s \ {TakenFirst(s)}] \in Nat
      OBVIOUS
    <3>2. g[s] = IF s = {} THEN 0 ELSE step[s][g[s \ {c[s]}]]
      BY <1>3 DEF FoldsBy
    <3>3. step[s][g[s \ {TakenFirst(s)}]] = h[TakenFirst(s)] + g[s \ {TakenFirst(s)}]
      BY <3>1
    <3>4. QED
      BY <3>1, <3>2, <3>3
  <2>2. QED
    BY <2>1 DEF IsSum
<1>5. Eq(g)
  BY <1>4 DEF IsSum
<1> DEFINE e == CHOOSE f : Eq(f)
<1>6. Eq(e)
  BY <1>5
<1> HIDE DEF e
<1>7. IsSum(h, S, e)
  BY <1>6 DEF IsSum
<1>8. e[S] = g[S]
  BY <1>4, <1>7, SumsAgree
<1>9. QED
  BY <1>1, <1>4, <1>8 DEF e

\* The sum over a set: of the empty set, and with one element taken out
LEMMA SumTakes ==
  ASSUME NEW S, IsFiniteSet(S), NEW h, \A x \in S : h[x] \in Nat
  PROVE  /\ SumFunctionOnSet(h, S) \in Nat
         /\ S = {} => SumFunctionOnSet(h, S) = 0
         /\ \A x \in S : SumFunctionOnSet(h, S) = h[x] + SumFunctionOnSet(h, S \ {x})
<1>1. PICK g \in [SUBSET S -> Nat] : IsSum(h, S, g) /\ SumFunctionOnSet(h, S) = g[S]
  BY SumFolds
<1>2. g[S] \in Nat /\ (S = {} => g[S] = 0)
  BY <1>1 DEF IsSum
<1>3. \A y \in S : g[S] = h[y] + g[S \ {y}]
  BY <1>1, SumOrder
<1>4. ASSUME NEW x \in S
      PROVE  SumFunctionOnSet(h, S) = h[x] + SumFunctionOnSet(h, S \ {x})
  <2> DEFINE T == S \ {x}
  <2>1. IsFiniteSet(T) /\ \A y \in T : h[y] \in Nat
    BY FS_RemoveElement
  <2>2. PICK e \in [SUBSET T -> Nat] : IsSum(h, T, e) /\ SumFunctionOnSet(h, T) = e[T]
    <3> HIDE DEF T
    <3>1. QED
      BY <2>1, SumFolds
  <2>3. T \subseteq S /\ T \subseteq T
    OBVIOUS
  <2>4. g[T] = e[T]
    <3> HIDE DEF T
    <3>1. QED
      BY <1>1, <2>1, <2>2, <2>3, SumsAgree
  <2>5. g[S] = h[x] + g[T]
    BY <1>3
  <2>6. QED
    BY <1>1, <2>2, <2>4, <2>5
<1>5. QED
  BY <1>1, <1>2, <1>4

\* The sum depends on the values over the set only.
LEMMA SumSame ==
  ASSUME NEW S, IsFiniteSet(S), NEW h, NEW k, \A x \in S : h[x] \in Nat /\ h[x] = k[x]
  PROVE  SumFunctionOnSet(h, S) = SumFunctionOnSet(k, S)
<1>1. PICK g \in [SUBSET S -> Nat] : IsSum(h, S, g) /\ SumFunctionOnSet(h, S) = g[S]
  BY SumFolds
<1>2. PICK e \in [SUBSET S -> Nat] : IsSum(k, S, e) /\ SumFunctionOnSet(k, S) = e[S]
  BY SumFolds
<1>3. g[S] = e[S]
  BY <1>1, <1>2, SumsAgree
<1>4. QED
  BY <1>1, <1>2, <1>3

\* The sum over a part and over the rest
LEMMA SumSplits ==
  ASSUME NEW S, IsFiniteSet(S), NEW h, \A x \in S : h[x] \in Nat, NEW T \in SUBSET S
  PROVE  SumFunctionOnSet(h, S) = SumFunctionOnSet(h, T) + SumFunctionOnSet(h, S \ T)
<1> DEFINE Q == {s \in SUBSET S : SumFunctionOnSet(h, S) =
                    SumFunctionOnSet(h, s) + SumFunctionOnSet(h, S \ s)}
           Sum(s) == SumFunctionOnSet(h, s)
<1>1. ASSUME NEW s \in SUBSET S
      PROVE  /\ Sum(s) \in Nat /\ (s = {} => Sum(s) = 0)
             /\ \A x \in s : Sum(s) = h[x] + Sum(s \ {x})
  <2>1. IsFiniteSet(s) /\ \A x \in s : h[x] \in Nat
    BY FS_Subset
  <2>2. QED
    BY <2>1, SumTakes
<1> HIDE DEF Sum
<1>2. ASSUME NEW s \in SUBSET S, \A r \in SUBSET s : r # s => Sum(S) = Sum(r) + Sum(S \ r)
      PROVE  Sum(S) = Sum(s) + Sum(S \ s)
  <2>1. CASE s = {}
    <3>1. S \ s = S /\ Sum(s) = 0 /\ Sum(S) \in Nat
      BY <1>1, <2>1
    <3>2. QED
      BY <3>1
  <2>2. CASE s # {}
    <3>1. PICK x \in s : TRUE
      BY <2>2
    <3> DEFINE r == s \ {x}
    <3>2. Sum(S) = Sum(r) + Sum(S \ r)
      BY <1>2
    <3>3. Sum(s) = h[x] + Sum(r)
      BY <1>1
    <3>4. S \ r \in SUBSET S /\ x \in S \ r /\ (S \ r) \ {x} = S \ s
      OBVIOUS
    <3>5. Sum(S \ r) = h[x] + Sum(S \ s)
      BY <1>1, <3>4
    <3>6. Sum(r) \in Nat /\ h[x] \in Nat /\ Sum(S \ s) \in Nat
      BY <1>1
    <3> HIDE DEF r
    <3>7. QED
      BY <3>2, <3>3, <3>5, <3>6
  <2>3. QED
    BY <2>1, <2>2
<1>3. ASSUME NEW s \in SUBSET S, \A r \in SUBSET s : r # s => r \in Q
      PROVE  s \in Q
  BY <1>2, <1>3 DEF Sum
<1> HIDE DEF Q
<1>4. T \in Q
  BY <1>3, SubsetInduction
<1>5. QED
  BY <1>4 DEF Q
=============================================================================
