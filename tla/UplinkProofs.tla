---------------------------- MODULE UplinkProofs ----------------------------
(***************************************************************************)
(* Proofs about the uplink: the queue behind POST /api/tc, the way of an   *)
(* intent to a frame on the wire, and the FOP-1 engine with the link it    *)
(* drives.                                                                 *)
(*                                                                         *)
(* The queue, for every capacity, width of the time format, leap second    *)
(* count and set of deadlines, as long as the light time is not zero: with *)
(* no light time a deadline the time format cannot hold, which becomes     *)
(* zero, would pass the validity window.  The invariant looks at what was  *)
(* dispatched and what waits as one line, which only grows at its end.  A  *)
(* command that is told to be accepted and is not in the line found the    *)
(* queue full, so that the first QueueCap of the line came before it, and  *)
(* stay first.                                                             *)
(*                                                                         *)
(* The stages, for every set of intents and every engine: the words of a   *)
(* command read back from its user data, its packet parses (WireProofs),   *)
(* and the header of a frame that fits reads as the frame.  The invariant  *)
(* is that the engine holds nothing but packets of intents that were asked *)
(* for, each with the number it was asked with.                            *)
(*                                                                         *)
(* The engine, for every window size, sequence space, retry limit and T1.  *)
(* It is a record, and each step of tick maps an engine to an engine, so   *)
(* the inductive invariant is a predicate EngInv of an engine, shown to be *)
(* kept by each step once.                                                 *)
(***************************************************************************)
EXTENDS Cop1Link, TcQueue, TcUplink, WireProofs

Entry == [n : Nat, target : {OrStub(t) : t \in Targets}, until : 0..MaxCoarse]
Told == [n : Nat, utc : Deadlines, at : Int, target : Targets]

\* Rising in order, up to r
Rising(s, r) ==
  /\ \A i \in 1..Len(s) : s[i].n <= r
  /\ \A i, j \in 1..Len(s) : i < j => s[i].n < s[j].n

\* An entry says what the operator asked.
Says(e, t) ==
  e.n = t.n /\ TaiToUtc(e.until) = t.utc /\ e.target = OrStub(t.target)

\* Every entry of the line was asked for, and what was asked for and is not in
\* the line came after QueueCap others.
Faithful(line, orders) ==
  /\ \A i \in 1..Len(line) : \E j \in 1..Len(orders) : Says(line[i], orders[j])
  /\ \A j \in 1..Len(orders) :
       \/ \E i \in 1..Len(line) : line[i].n = orders[j].n
       \/ QueueCap <= Len(line) /\ \A i \in 1..QueueCap : line[i].n < orders[j].n

Line == dispatched \o queue

QInv ==
  /\ nowTai = 0 /\ requests \in Nat /\ clock \in Int
  /\ dispatched \in Seq(Entry) /\ queue \in Seq(Entry) /\ told \in Seq(Told)
  /\ Rising(Line, requests) /\ Rising(told, requests)
  /\ Faithful(Line, told)
-----------------------------------------------------------------------------
\* A deadline that is accepted reads as it was given.
LEMMA DeadlineReads ==
  ASSUME NEW utc \in Deadlines, nowTai = 0, ~WindowExpired(UtcToTai(utc))
  PROVE  UtcToTai(utc) \in 0..MaxCoarse /\ TaiToUtc(UtcToTai(utc)) = utc
BY TimeAssumption DEF WindowExpired, UtcToTai, TaiToUtc

LEMMA NumberedAppend ==
  ASSUME NEW S, NEW s \in Seq(S), NEW e \in S, NEW r \in Nat,
         \A x \in S : x.n \in Nat, Rising(s, r), e.n = r + 1
  PROVE  Rising(Append(s, e), r + 1)
<1> DEFINE a == Append(s, e)
<1>1. /\ a \in Seq(S) /\ Len(a) = Len(s) + 1 /\ Len(s) \in Nat
      /\ \A i \in 1..Len(s) : a[i] = s[i]
      /\ a[Len(s) + 1] = e
  BY AppendProperties, LenProperties
<1> HIDE DEF a
<1>2. \A i \in 1..Len(s) : s[i].n \in Nat /\ s[i].n <= r
  BY ElementOfSeq DEF Rising
<1>3. ASSUME NEW i \in 1..Len(a) PROVE a[i].n <= r + 1
  <2>1. CASE i = Len(s) + 1
    BY <1>1, <2>1
  <2>2. CASE i # Len(s) + 1
    <3>1. i \in 1..Len(s)
      BY <1>1, <2>2
    <3>2. QED
      BY <1>1, <1>2, <3>1
  <2>3. QED
    BY <2>1, <2>2
<1>4. ASSUME NEW i \in 1..Len(a), NEW j \in 1..Len(a), i < j
      PROVE  a[i].n < a[j].n
  <2>1. i \in 1..Len(s)
    BY <1>1, <1>4
  <2>2. CASE j = Len(s) + 1
    <3>1. a[i].n \in Nat /\ a[i].n <= r /\ a[j].n = r + 1
      BY <1>1, <1>2, <2>1, <2>2
    <3>2. QED
      BY <3>1
  <2>3. CASE j # Len(s) + 1
    <3>1. j \in 1..Len(s)
      BY <1>1, <2>3
    <3>2. QED
      BY <1>1, <1>4, <2>1, <3>1 DEF Rising
  <2>4. QED
    BY <2>2, <2>3
<1>5. QED
  BY <1>3, <1>4 DEF Rising, a

LEMMA NumberedLater ==
  ASSUME NEW S, NEW s \in Seq(S), NEW r \in Nat, \A x \in S : x.n \in Nat, Rising(s, r)
  PROVE  Rising(s, r + 1)
<1>1. \A i \in 1..Len(s) : s[i].n \in Nat /\ s[i].n <= r
  BY ElementOfSeq DEF Rising
<1>2. \A i \in 1..Len(s) : s[i].n <= r + 1
  BY <1>1
<1>3. QED
  BY <1>2 DEF Rising

\* What was told is never taken back.
LEMMA FaithfulQueued ==
  ASSUME NEW line \in Seq(Entry), NEW orders \in Seq(Told), Faithful(line, orders),
         NEW e \in Entry, NEW t \in Told, Says(e, t), QueueCap \in Nat
  PROVE  Faithful(Append(line, e), Append(orders, t))
<1> DEFINE l == Append(line, e)
           a == Append(orders, t)
<1>1. /\ Len(l) = Len(line) + 1 /\ Len(line) \in Nat
      /\ \A i \in 1..Len(line) : l[i] = line[i]
      /\ l[Len(line) + 1] = e
  BY AppendProperties, LenProperties
<1>2. /\ Len(a) = Len(orders) + 1 /\ Len(orders) \in Nat
      /\ \A i \in 1..Len(orders) : a[i] = orders[i]
      /\ a[Len(orders) + 1] = t
  BY AppendProperties, LenProperties
<1> HIDE DEF l, a
<1>3. ASSUME NEW i \in 1..Len(l) PROVE \E j \in 1..Len(a) : Says(l[i], a[j])
  <2>1. CASE i = Len(line) + 1
    <3>1. Len(orders) + 1 \in 1..Len(a)
      BY <1>2
    <3>2. QED
      BY <1>1, <1>2, <2>1, <3>1
  <2>2. CASE i # Len(line) + 1
    <3>1. i \in 1..Len(line)
      BY <1>1, <2>2
    <3>2. PICK j \in 1..Len(orders) : Says(line[i], orders[j])
      BY <3>1 DEF Faithful
    <3>3. j \in 1..Len(a) /\ a[j] = orders[j] /\ l[i] = line[i]
      BY <1>1, <1>2, <3>1
    <3>4. QED
      BY <3>2, <3>3
  <2>3. QED
    BY <2>1, <2>2
<1>4. ASSUME NEW j \in 1..Len(a)
      PROVE  \/ \E i \in 1..Len(l) : l[i].n = a[j].n
             \/ QueueCap <= Len(l) /\ \A i \in 1..QueueCap : l[i].n < a[j].n
  <2>1. CASE j = Len(orders) + 1
    <3>1. Len(line) + 1 \in 1..Len(l) /\ l[Len(line) + 1].n = a[j].n
      BY <1>1, <1>2, <2>1 DEF Says
    <3>2. QED
      BY <3>1
  <2>2. CASE j # Len(orders) + 1
    <3>1. j \in 1..Len(orders) /\ a[j] = orders[j]
      BY <1>2, <2>2
    <3>2. CASE \E i \in 1..Len(line) : line[i].n = orders[j].n
      <4>1. PICK i \in 1..Len(line) : line[i].n = orders[j].n
        BY <3>2
      <4>2. i \in 1..Len(l) /\ l[i] = line[i]
        BY <1>1
      <4>3. QED
        BY <3>1, <4>1, <4>2
    <3>3. CASE QueueCap <= Len(line) /\ \A i \in 1..QueueCap : line[i].n < orders[j].n
      <4>1. QueueCap <= Len(l) /\ \A i \in 1..QueueCap : i \in 1..Len(line)
        BY <1>1, <3>3
      <4>2. QED
        BY <1>1, <3>1, <3>3, <4>1
    <3>4. QED
      BY <3>1, <3>2, <3>3 DEF Faithful
  <2>3. QED
    BY <2>1, <2>2
<1>5. QED
  BY <1>3, <1>4 DEF Faithful, l, a

\* A queue that is full: QueueCap commands came before.
LEMMA FaithfulRefused ==
  ASSUME NEW line \in Seq(Entry), NEW orders \in Seq(Told), Faithful(line, orders),
         NEW t \in Told, QueueCap \in Nat, QueueCap <= Len(line),
         \A i \in 1..Len(line) : line[i].n < t.n
  PROVE  Faithful(line, Append(orders, t))
<1> DEFINE a == Append(orders, t)
<1>1. /\ Len(a) = Len(orders) + 1 /\ Len(orders) \in Nat /\ Len(line) \in Nat
      /\ \A i \in 1..Len(orders) : a[i] = orders[i]
      /\ a[Len(orders) + 1] = t
  BY AppendProperties, LenProperties
<1> HIDE DEF a
<1>2. ASSUME NEW i \in 1..Len(line) PROVE \E j \in 1..Len(a) : Says(line[i], a[j])
  <2>1. PICK j \in 1..Len(orders) : Says(line[i], orders[j])
    BY DEF Faithful
  <2>2. j \in 1..Len(a) /\ a[j] = orders[j]
    BY <1>1
  <2>3. QED
    BY <2>1, <2>2
<1>3. ASSUME NEW j \in 1..Len(a)
      PROVE  \/ \E i \in 1..Len(line) : line[i].n = a[j].n
             \/ QueueCap <= Len(line) /\ \A i \in 1..QueueCap : line[i].n < a[j].n
  <2>1. CASE j = Len(orders) + 1
    <3>1. \A i \in 1..QueueCap : i \in 1..Len(line)
      BY <1>1
    <3>2. QED
      BY <1>1, <2>1, <3>1
  <2>2. CASE j # Len(orders) + 1
    <3>1. j \in 1..Len(orders) /\ a[j] = orders[j]
      BY <1>1, <2>2
    <3>2. QED
      BY <3>1 DEF Faithful
  <2>3. QED
    BY <2>1, <2>2
<1>4. QED
  BY <1>2, <1>3 DEF Faithful, a
-----------------------------------------------------------------------------
LEMMA QueueInitInv == QueueInit => QInv
<1> SUFFICES ASSUME QueueInit PROVE QInv
  OBVIOUS
<1>1. dispatched = <<>> /\ queue = <<>> /\ told = <<>>
  BY DEF QueueInit
<1>2. Line = <<>> /\ Len(Line) = 0 /\ Len(told) = 0
  <2>1. <<>> \in Seq(Entry) /\ Len(<<>>) = 0
    OBVIOUS
  <2>2. QED
    BY <1>1, <2>1, ConcatEmptySeq DEF Line
<1>3. QED
  BY <1>1, <1>2, TimeAssumption DEF QueueInit, QInv, Rising, Faithful

LEMMA PostTcInv ==
  ASSUME QInv, PostTc
  PROVE  QInv'
<1>1. PICK utc \in Deadlines, target \in Targets :
         LET until == UtcToTai(utc)
             entry == [n |-> requests', target |-> OrStub(target), until |-> until]
         IN  \/ WindowExpired(until) /\ UNCHANGED <<queue, told>>
             \/ /\ ~WindowExpired(until)
                /\ Enqueue(entry)
                /\ told' = Append(told, [n |-> requests', utc |-> utc, at |-> clock,
                                         target |-> target])
  BY DEF PostTc
<1> DEFINE e == [n |-> requests', target |-> OrStub(target), until |-> UtcToTai(utc)]
           t == [n |-> requests', utc |-> utc, at |-> clock, target |-> target]
<1>2. /\ requests' = requests + 1 /\ nowTai' = nowTai /\ dispatched' = dispatched
      /\ clock' = clock
  BY DEF PostTc
<1>3. /\ nowTai = 0 /\ requests \in Nat /\ clock \in Int
      /\ dispatched \in Seq(Entry) /\ queue \in Seq(Entry) /\ told \in Seq(Told)
      /\ Rising(Line, requests) /\ Rising(told, requests) /\ Faithful(Line, told)
  BY DEF QInv
<1>4. /\ Line \in Seq(Entry) /\ Len(Line) = Len(dispatched) + Len(queue)
      /\ Len(dispatched) \in Nat /\ Len(queue) \in Nat
  BY <1>3, ConcatProperties, LenProperties DEF Line
<1>5. (\A x \in Entry : x.n \in Nat) /\ (\A x \in Told : x.n \in Nat) /\ QueueCap \in Nat
  BY TimeAssumption DEF Entry, Told
<1>6. CASE queue' = queue /\ told' = told
  <2>1. Line' = Line
    BY <1>2, <1>6 DEF Line
  <2>2. Rising(Line, requests + 1) /\ Rising(told, requests + 1)
    BY <1>3, <1>4, <1>5, NumberedLater
  <2>3. QED
    BY <1>2, <1>3, <1>6, <2>1, <2>2 DEF QInv
<1>7. CASE ~WindowExpired(UtcToTai(utc)) /\ Enqueue(e) /\ told' = Append(told, t)
  <2>1. UtcToTai(utc) \in 0..MaxCoarse /\ TaiToUtc(UtcToTai(utc)) = utc
    BY <1>3, <1>7, DeadlineReads
  <2>2. e \in Entry /\ t \in Told /\ Says(e, t) /\ e.n = requests + 1 /\ t.n = requests + 1
    BY <1>2, <1>3, <2>1 DEF Entry, Told, Says
  <2>3. queue' = (IF Len(queue) < QueueCap THEN Append(queue, e) ELSE queue)
    BY <1>7 DEF Enqueue
  <2> HIDE DEF e, t
  <2>4. told' \in Seq(Told) /\ Rising(told', requests')
    BY <1>2, <1>3, <1>5, <1>7, <2>2, NumberedAppend, AppendProperties
  <2>5. CASE Len(queue) < QueueCap
    <3>1. queue' = Append(queue, e) /\ queue' \in Seq(Entry)
      BY <1>3, <2>2, <2>3, <2>5, AppendProperties
    <3>2. Line' = Append(Line, e)
      <4>1. Line' = dispatched \o Append(queue, e)
        BY <1>2, <3>1 DEF Line
      <4>2. dispatched \o Append(queue, e) = Append(dispatched \o queue, e)
        BY <1>3, <2>2
      <4>3. QED
        BY <4>1, <4>2 DEF Line
    <3>3. Rising(Line', requests')
      BY <1>2, <1>3, <1>4, <1>5, <2>2, <3>2, NumberedAppend
    <3>4. Faithful(Line', told')
      BY <1>3, <1>4, <1>5, <1>7, <2>2, <3>2, FaithfulQueued
    <3>5. QED
      BY <1>2, <1>3, <2>4, <3>1, <3>3, <3>4 DEF QInv
  <2>6. CASE ~(Len(queue) < QueueCap)
    <3>1. queue' = queue /\ Line' = Line /\ QueueCap <= Len(Line)
      BY <1>2, <1>4, <1>5, <2>3, <2>6 DEF Line
    <3>2. \A i \in 1..Len(Line) : Line[i].n < t.n
      <4>1. \A i \in 1..Len(Line) : Line[i].n \in Nat /\ Line[i].n <= requests
        BY <1>3, <1>4, <1>5, ElementOfSeq DEF Rising
      <4>2. QED
        BY <1>3, <2>2, <4>1
    <3>3. Faithful(Line', told')
      BY <1>3, <1>4, <1>5, <1>7, <2>2, <3>1, <3>2, FaithfulRefused
    <3>4. Rising(Line', requests')
      BY <1>2, <1>3, <1>4, <1>5, <3>1, NumberedLater
    <3>5. QED
      BY <1>2, <1>3, <2>4, <3>1, <3>3, <3>4 DEF QInv
  <2>7. QED
    BY <2>5, <2>6
<1>8. QED
  BY <1>1, <1>6, <1>7

LEMMA DispatchInv ==
  ASSUME QInv, Dispatch
  PROVE  QInv'
<1>1. /\ dispatched' = Append(dispatched, Head(queue)) /\ queue' = Tail(queue)
      /\ queue # <<>> /\ dispatched \in Seq(Entry) /\ queue \in Seq(Entry)
      /\ nowTai' = nowTai /\ clock' = clock /\ requests' = requests /\ told' = told
  BY DEF Dispatch, QInv
<1>2. /\ Head(queue) \in Entry /\ Tail(queue) \in Seq(Entry)
      /\ Head(queue) = queue[1]
      /\ Len(queue) \in Nat /\ Len(queue) # 0 /\ Len(Tail(queue)) = Len(queue) - 1
      /\ \A i \in 1..Len(Tail(queue)) : Tail(queue)[i] = queue[i + 1]
  BY <1>1, HeadTailProperties, LenProperties
<1>3. /\ dispatched' \in Seq(Entry) /\ queue' \in Seq(Entry)
      /\ Len(dispatched') = Len(dispatched) + 1 /\ Len(dispatched) \in Nat
      /\ \A i \in 1..Len(dispatched) : dispatched'[i] = dispatched[i]
      /\ dispatched'[Len(dispatched) + 1] = queue[1]
  BY <1>1, <1>2, AppendProperties, LenProperties
<1>4. /\ Line' \in Seq(Entry) /\ Line \in Seq(Entry)
      /\ Len(Line') = Len(dispatched') + Len(queue')
      /\ Len(Line) = Len(dispatched) + Len(queue)
      /\ \A i \in 1..(Len(dispatched') + Len(queue')) : Line'[i] =
           IF i <= Len(dispatched') THEN dispatched'[i] ELSE queue'[i - Len(dispatched')]
      /\ \A i \in 1..(Len(dispatched) + Len(queue)) : Line[i] =
           IF i <= Len(dispatched) THEN dispatched[i] ELSE queue[i - Len(dispatched)]
  BY <1>1, <1>3, ConcatProperties DEF Line
<1>5. Len(Line') = Len(Line)
  BY <1>1, <1>2, <1>3, <1>4
<1>6. ASSUME NEW i \in 1..Len(Line')
      PROVE  Line'[i] = Line[i]
  <2> DEFINE d == Len(dispatched)
  <2>1. d \in Nat /\ i \in Nat /\ i \in 1..(d + Len(queue)) /\ Len(dispatched') = d + 1
    BY <1>2, <1>3, <1>4, <1>5
  <2>2. CASE i <= d
    BY <1>3, <1>4, <2>1, <2>2
  <2>3. CASE i = d + 1
    <3>1. Line'[i] = dispatched'[i] /\ Line[i] = queue[1]
      BY <1>4, <1>6, <2>1, <2>3
    <3>2. QED
      BY <1>3, <2>3, <3>1
  <2>4. CASE i > d + 1
    <3>1. Line'[i] = queue'[i - (d + 1)] /\ Line[i] = queue[i - d]
      BY <1>4, <1>6, <2>1, <2>4
    <3>2. i - (d + 1) \in 1..Len(Tail(queue)) /\ (i - (d + 1)) + 1 = i - d
      BY <1>2, <2>1, <2>4
    <3>3. QED
      BY <1>1, <1>2, <3>1, <3>2
  <2>5. QED
    BY <2>1, <2>2, <2>3, <2>4
<1>7. Line' = Line
  BY <1>4, <1>5, <1>6, SeqEqual
<1>8. QED
  BY <1>1, <1>3, <1>7 DEF QInv

LEMMA QueueNextInv == QInv /\ [QueueNext]_qvars => QInv'
<1> SUFFICES ASSUME QInv, [QueueNext]_qvars PROVE QInv'
  OBVIOUS
<1>1. CASE PostTc
  BY <1>1, PostTcInv
<1>2. CASE Dispatch
  BY <1>2, DispatchInv
<1>3. CASE Second
  BY <1>3 DEF Second, QInv, Line
<1>4. CASE UNCHANGED qvars
  BY <1>4 DEF qvars, QInv, Line
<1>5. QED
  BY <1>1, <1>2, <1>3, <1>4 DEF QueueNext

LEMMA Kept ==
  ASSUME QInv
  PROVE  QueuedAsAsked
<1> DEFINE taken == dispatched \o queue
           kept == {taken[i].n : i \in DOMAIN taken}
<1>1. /\ taken \in Seq(Entry) /\ told \in Seq(Told) /\ DOMAIN taken = 1..Len(taken)
      /\ Rising(taken, requests) /\ Rising(told, requests) /\ Faithful(taken, told)
      /\ Len(taken) \in Nat /\ Len(told) \in Nat /\ requests \in Nat /\ QueueCap \in Nat
  BY ConcatProperties, LenProperties, TimeAssumption DEF QInv, Line
<1> HIDE DEF taken
<1>2. /\ \A i \in 1..Len(taken) : taken[i].n \in Nat
      /\ \A i \in 1..Len(told) : told[i].n \in Nat
  <2>1. (\A x \in Entry : x.n \in Nat) /\ (\A x \in Told : x.n \in Nat)
    BY DEF Entry, Told
  <2>2. QED
    BY <1>1, <2>1, ElementOfSeq
<1>3. Range(told) = {told[i] : i \in 1..Len(told)}
  BY <1>1 DEF Range
<1>4. Range(taken) = {taken[i] : i \in 1..Len(taken)}
  BY <1>1 DEF Range
<1>5. \A i, j \in DOMAIN taken : i < j => taken[i].n < taken[j].n
  BY <1>1 DEF Rising
<1>6. kept \subseteq {t.n : t \in Range(told)}
  <2>1. ASSUME NEW i \in 1..Len(taken)
        PROVE  \E t \in Range(told) : t.n = taken[i].n
    BY <1>1, <1>3 DEF Faithful, Says
  <2>2. QED
    BY <1>1, <2>1
<1>7. ASSUME NEW e \in Range(taken)
      PROVE  TaiToUtc(e.until) = Asked(e).utc /\ e.target = OrStub(Asked(e).target)
  <2>1. PICK i \in 1..Len(taken) : e = taken[i]
    BY <1>4
  <2>2. PICK j \in 1..Len(told) : Says(e, told[j])
    BY <1>1, <2>1 DEF Faithful
  <2>3. ASSUME NEW k \in 1..Len(told), told[k].n = e.n
        PROVE  told[k] = told[j]
    <3>1. told[k].n = told[j].n /\ told[k].n \in Nat
      BY <1>2, <2>2, <2>3 DEF Says
    <3>2. ~(k < j) /\ ~(j < k)
      BY <1>1, <1>2, <3>1 DEF Rising
    <3>3. QED
      BY <1>1, <3>2
  <2>4. Asked(e) = told[j]
    <3>1. told[j] \in Range(told) /\ told[j].n = e.n
      BY <1>3, <2>2 DEF Says
    <3>2. \A t \in Range(told) : t.n = e.n => t = told[j]
      BY <1>3, <2>3
    <3>3. QED
      BY <3>1, <3>2 DEF Asked
  <2>5. QED
    BY <2>2, <2>4 DEF Says
<1>8. ASSUME NEW t \in Range(told), t.n \notin kept
      PROVE  Cardinality({n \in kept : n < t.n}) >= QueueCap
  <2>1. PICK j \in 1..Len(told) : t = told[j]
    BY <1>3
  <2>2. QueueCap <= Len(taken) /\ \A i \in 1..QueueCap : taken[i].n < t.n
    BY <1>1, <1>8, <2>1 DEF Faithful
  <2> DEFINE T == {n \in kept : n < t.n}
             f == [i \in 1..QueueCap |-> taken[i].n]
  <2>3. t.n \in Nat /\ T \in SUBSET Nat
    BY <1>1, <1>2, <2>1
  <2>4. IsFiniteSet(T) /\ Cardinality(T) \in Nat
    <3>1. \A s \in T : s <= t.n
      BY <2>3
    <3> HIDE DEF T
    <3>2. IsFiniteSet(T)
      BY <2>3, <3>1, FS_BoundedSetOfNaturals
    <3>3. QED
      BY <3>2, FS_CardinalityType
  <2>5. f \in Injection(1..QueueCap, T)
    <3>1. \A i \in 1..QueueCap : i \in 1..Len(taken)
      BY <1>1, <2>2
    <3>2. \A i \in 1..QueueCap : f[i] \in T
      BY <1>1, <2>2, <3>1
    <3>3. ASSUME NEW i \in 1..QueueCap, NEW k \in 1..QueueCap, f[i] = f[k]
          PROVE  i = k
      <4>1. taken[i].n = taken[k].n /\ taken[i].n \in Nat
        BY <1>2, <3>1, <3>3
      <4>2. ~(i < k) /\ ~(k < i)
        BY <1>1, <1>2, <3>1, <4>1 DEF Rising
      <4>3. QED
        BY <1>1, <4>2
    <3> HIDE DEF T
    <3>4. QED
      BY <3>2, <3>3 DEF Injection, IsInjective
  <2> HIDE DEF T, f
  <2>6. Cardinality(1..QueueCap) <= Cardinality(T)
    BY <2>4, <2>5, FS_Injection
  <2>7. Cardinality(1..QueueCap) = QueueCap
    BY <1>1, FS_Interval
  <2>8. QED
    BY <1>1, <2>4, <2>6, <2>7 DEF T
<1>9. QED
  BY <1>5, <1>6, <1>7, <1>8 DEF QueuedAsAsked, taken
-----------------------------------------------------------------------------
\* What is queued and dispatched is what operators were told is accepted, in
\* that order, with its target and with a deadline that reads as the one given,
\* and only what found QueueCap commands before it is missing
\* (ui/mod.rs:459-483, ui/time.rs:56-104, uplink/dispatcher.rs:24-47).
THEOREM AlwaysQueuedAsAsked == QueueSpec => []QueuedAsAsked
<1>1. QueueInit => QInv
  BY QueueInitInv
<1>2. QInv /\ [QueueNext]_qvars => QInv'
  BY QueueNextInv
<1>3. QInv => QueuedAsAsked
  BY Kept
<1>4. QED
  BY <1>1, <1>2, <1>3, PTL DEF QueueSpec
-----------------------------------------------------------------------------
LEMMA HalfIs ==
  ASSUME NEW n \in U16
  PROVE  256 * (n \div 256) + (n % 256) = n
<1>1. n \in Nat /\ n < 65536
  BY WordIs
<1> QED BY <1>1

\* The command is carried by user data of its own that reads as the intent.
Carries(i, apid, func, size) ==
  /\ Decompose(i).apid = apid /\ Decompose(i).func = func
  /\ Len(Decompose(i).user) = size

LEMMA SetModeReads ==
  ASSUME NEW i \in [cmd : {"OrbiterSetMode"}, mode : Byte, reason : Byte], NEW j
  PROVE  /\ Carries(i, 385, 256, 2)
         /\ Reads(j, 385, 256, Decompose(i).user) <=> j = i
<1> DEFINE c == Decompose(i)  u == c.user
<1>1. c = Cmd(385, 256, <<i.mode, i.reason>>)
  BY DEF Decompose
<1>2. Len(u) = 2 /\ u[1] = i.mode /\ u[2] = i.reason /\ c.apid = 385 /\ c.func = 256
  BY <1>1 DEF Cmd
<1> HIDE DEF c
<1>3. Reads(j, 385, 256, u) <=>
        j = [cmd |-> "OrbiterSetMode", mode |-> u[1], reason |-> u[2]]
  BY <1>2 DEF Reads
<1>4. i = [cmd |-> "OrbiterSetMode", mode |-> i.mode, reason |-> i.reason]
  OBVIOUS
<1> QED BY <1>2, <1>3, <1>4 DEF c, Carries

LEMMA EventFilterReads ==
  ASSUME NEW i \in [cmd : {"OrbiterEventFilter"}, app : Byte, min : Byte, mask : Pairs],
         NEW j
  PROVE  /\ Carries(i, 385, 512, 6)
         /\ Reads(j, 385, 512, Decompose(i).user) <=> j = i
<1> DEFINE c == Decompose(i)  u == c.user
<1>1. c = Cmd(385, 512, <<i.app, i.min>> \o Be32(i.mask))
  BY DEF Decompose
<1>2. /\ Len(u) = 6 /\ u[1] = i.app /\ u[2] = i.min
      /\ u[3] = i.mask.hi \div 256 /\ u[4] = i.mask.hi % 256
      /\ u[5] = i.mask.lo \div 256 /\ u[6] = i.mask.lo % 256
      /\ c.apid = 385 /\ c.func = 512
  BY <1>1 DEF Cmd, Be32, Be16
<1> HIDE DEF c
<1>3. Reads(j, 385, 512, u) <=>
        j = [cmd |-> "OrbiterEventFilter", app |-> u[1], min |-> u[2], mask |-> Long(u, 2)]
  BY <1>2 DEF Reads
<1>4. /\ i = [cmd |-> "OrbiterEventFilter", app |-> i.app, min |-> i.min, mask |-> i.mask]
      /\ i.mask = [hi |-> i.mask.hi, lo |-> i.mask.lo]
      /\ i.mask.hi \in U16 /\ i.mask.lo \in U16
  BY DEF Pairs
<1>5. Long(u, 2) = i.mask
  BY <1>2, <1>4, HalfIs DEF Long, Word
<1> QED BY <1>2, <1>3, <1>4, <1>5 DEF c, Carries

\* Four double words and a byte, in front of one more
QuadBytes(u, a, b, c, d, s) ==
  /\ Len(u) = 18 /\ u[17] = s
  /\ u[1] = a.hi \div 256 /\ u[2] = a.hi % 256
  /\ u[3] = a.lo \div 256 /\ u[4] = a.lo % 256
  /\ u[5] = b.hi \div 256 /\ u[6] = b.hi % 256
  /\ u[7] = b.lo \div 256 /\ u[8] = b.lo % 256
  /\ u[9] = c.hi \div 256 /\ u[10] = c.hi % 256
  /\ u[11] = c.lo \div 256 /\ u[12] = c.lo % 256
  /\ u[13] = d.hi \div 256 /\ u[14] = d.hi % 256
  /\ u[15] = d.lo \div 256 /\ u[16] = d.lo % 256

LEMMA QuadIs ==
  ASSUME NEW a, NEW b, NEW c, NEW d, NEW s, NEW t, NEW u,
         u = Be32(a) \o Be32(b) \o Be32(c) \o Be32(d) \o <<s, t>>
  PROVE  QuadBytes(u, a, b, c, d, s)
<1> DEFINE ah == a.hi \div 256  ai == a.hi % 256  al == a.lo \div 256  am == a.lo % 256
           bh == b.hi \div 256  bi == b.hi % 256  bl == b.lo \div 256  bm == b.lo % 256
           ch == c.hi \div 256  ci == c.hi % 256  cl == c.lo \div 256  cm == c.lo % 256
           dh == d.hi \div 256  di == d.hi % 256  dl == d.lo \div 256  dm == d.lo % 256
<1>1. u = (<<ah, ai>> \o <<al, am>>) \o (<<bh, bi>> \o <<bl, bm>>)
          \o (<<ch, ci>> \o <<cl, cm>>) \o (<<dh, di>> \o <<dl, dm>>) \o <<s, t>>
  BY Zenon DEF Be32, Be16
<1>2. QuadBytes(u, a, b, c, d, s) <=>
        /\ Len(u) = 18 /\ u[17] = s
        /\ u[1] = ah /\ u[2] = ai /\ u[3] = al /\ u[4] = am
        /\ u[5] = bh /\ u[6] = bi /\ u[7] = bl /\ u[8] = bm
        /\ u[9] = ch /\ u[10] = ci /\ u[11] = cl /\ u[12] = cm
        /\ u[13] = dh /\ u[14] = di /\ u[15] = dl /\ u[16] = dm
  BY Zenon DEF QuadBytes
<1> HIDE DEF ah, ai, al, am, bh, bi, bl, bm, ch, ci, cl, cm, dh, di, dl, dm
<1>3. /\ Len(u) = 18 /\ u[17] = s
      /\ u[1] = ah /\ u[2] = ai /\ u[3] = al /\ u[4] = am
      /\ u[5] = bh /\ u[6] = bi /\ u[7] = bl /\ u[8] = bm
      /\ u[9] = ch /\ u[10] = ci /\ u[11] = cl /\ u[12] = cm
      /\ u[13] = dh /\ u[14] = di /\ u[15] = dl /\ u[16] = dm
  BY ONLY <1>1
<1> QED BY Zenon, <1>2, <1>3

LEMMA TargetQReads ==
  ASSUME NEW i \in [cmd : {"OrbiterAdcsTargetQ"}, q : [1..4 -> Pairs], slew : Byte],
         NEW j
  PROVE  /\ Carries(i, 386, 256, 18)
         /\ Reads(j, 386, 256, Decompose(i).user) <=> j = i
<1> DEFINE c == Decompose(i)  u == c.user
<1>1. c = Cmd(386, 256, Be32(i.q[1]) \o Be32(i.q[2]) \o Be32(i.q[3])
                        \o Be32(i.q[4]) \o <<i.slew, 0>>)
  BY DEF Decompose
<1>2. /\ Len(u) = 18 /\ u[17] = i.slew /\ c.apid = 386 /\ c.func = 256
      /\ u[1] = i.q[1].hi \div 256 /\ u[2] = i.q[1].hi % 256
      /\ u[3] = i.q[1].lo \div 256 /\ u[4] = i.q[1].lo % 256
      /\ u[5] = i.q[2].hi \div 256 /\ u[6] = i.q[2].hi % 256
      /\ u[7] = i.q[2].lo \div 256 /\ u[8] = i.q[2].lo % 256
      /\ u[9] = i.q[3].hi \div 256 /\ u[10] = i.q[3].hi % 256
      /\ u[11] = i.q[3].lo \div 256 /\ u[12] = i.q[3].lo % 256
      /\ u[13] = i.q[4].hi \div 256 /\ u[14] = i.q[4].hi % 256
      /\ u[15] = i.q[4].lo \div 256 /\ u[16] = i.q[4].lo % 256
  <2> DEFINE q == i.q
  <2>1. c.apid = 386 /\ c.func = 256
    BY <1>1 DEF Cmd
  <2>2. u = Be32(q[1]) \o Be32(q[2]) \o Be32(q[3]) \o Be32(q[4]) \o <<i.slew, 0>>
    BY <1>1 DEF Cmd
  <2> HIDE DEF c, q
  <2>3. QuadBytes(u, q[1], q[2], q[3], q[4], i.slew)
    BY Zenon, <2>2, QuadIs
  <2> QED BY <2>1, <2>3 DEF QuadBytes, q
<1> HIDE DEF c
<1> DEFINE r == [k \in 1..4 |-> Long(u, 4 * (k - 1))]
<1>3. Reads(j, 386, 256, u) <=> j = [cmd |-> "OrbiterAdcsTargetQ", q |-> r, slew |-> u[17]]
  BY <1>2 DEF Reads
<1>4. /\ i = [cmd |-> "OrbiterAdcsTargetQ", q |-> i.q, slew |-> i.slew]
      /\ i.q \in [1..4 -> Pairs]
  OBVIOUS
<1>5. ASSUME NEW k \in 1..4
      PROVE  /\ i.q[k] = [hi |-> i.q[k].hi, lo |-> i.q[k].lo]
             /\ i.q[k].hi \in U16 /\ i.q[k].lo \in U16
  BY <1>4 DEF Pairs
<1>6. ASSUME NEW k \in 1..4 PROVE Long(u, 4 * (k - 1)) = i.q[k]
  <2>1. /\ Word(u, 4 * (k - 1)) = 256 * (i.q[k].hi \div 256) + (i.q[k].hi % 256)
        /\ Word(u, 4 * (k - 1) + 2) = 256 * (i.q[k].lo \div 256) + (i.q[k].lo % 256)
    <3>1. k = 1 \/ k = 2 \/ k = 3 \/ k = 4
      OBVIOUS
    <3> QED BY <1>2, <3>1 DEF Word
  <2>2. Word(u, 4 * (k - 1)) = i.q[k].hi /\ Word(u, 4 * (k - 1) + 2) = i.q[k].lo
    BY <1>5, <2>1, HalfIs
  <2> QED BY <1>5, <2>2 DEF Long
<1>7. r = i.q
  BY <1>4, <1>6
<1> QED BY <1>2, <1>3, <1>4, <1>7 DEF c, Carries

LEMMA PowerSwitchReads ==
  ASSUME NEW i \in [cmd : {"OrbiterPowerSwitch"}, switch : Byte, on : BOOLEAN, magic : U16],
         NEW j
  PROVE  /\ Carries(i, 388, 33024, 4)
         /\ Reads(j, 388, 33024, Decompose(i).user) <=> j = i
<1> DEFINE c == Decompose(i)  u == c.user
<1>1. c = Cmd(388, 33024, <<i.switch, Bool8(i.on)>> \o Be16(i.magic))
  BY DEF Decompose
<1>2. /\ Len(u) = 4 /\ u[1] = i.switch /\ u[2] = Bool8(i.on)
      /\ u[3] = i.magic \div 256 /\ u[4] = i.magic % 256
      /\ c.apid = 388 /\ c.func = 33024
  BY <1>1 DEF Cmd, Be16
<1> HIDE DEF c
<1> DEFINE on == u[2] = 1
<1>3. Reads(j, 388, 33024, u) <=>
        j = [cmd |-> "OrbiterPowerSwitch", switch |-> u[1], on |-> on, magic |-> Word(u, 2)]
  BY <1>2 DEF Reads
<1>4. /\ i = [cmd |-> "OrbiterPowerSwitch", switch |-> i.switch, on |-> i.on,
              magic |-> i.magic]
      /\ i.on \in BOOLEAN /\ i.magic \in U16
  OBVIOUS
<1>5. on = i.on /\ Word(u, 2) = i.magic
  BY <1>2, <1>4, HalfIs DEF Bool8, Word
<1> QED BY <1>2, <1>3, <1>4, <1>5 DEF c, Carries
LEMMA PowerArmReads ==
  ASSUME NEW i \in [cmd : {"OrbiterPowerArm"}, switch : Byte, magic : U16], NEW j
  PROVE  /\ Carries(i, 388, 32768, 3)
         /\ Reads(j, 388, 32768, Decompose(i).user) <=> j = i
<1> DEFINE c == Decompose(i)  u == c.user
<1>1. c = Cmd(388, 32768, <<i.switch>> \o Be16(i.magic))
  BY DEF Decompose
<1>2. /\ Len(u) = 3 /\ u[1] = i.switch
      /\ u[2] = i.magic \div 256 /\ u[3] = i.magic % 256
      /\ c.apid = 388 /\ c.func = 32768
  BY <1>1 DEF Cmd, Be16
<1> HIDE DEF c
<1>3. Reads(j, 388, 32768, u) <=>
        j = [cmd |-> "OrbiterPowerArm", switch |-> u[1], magic |-> Word(u, 1)]
  BY <1>2 DEF Reads
<1>4. /\ i = [cmd |-> "OrbiterPowerArm", switch |-> i.switch, magic |-> i.magic]
      /\ i.magic \in U16
  OBVIOUS
<1>5. Word(u, 1) = i.magic
  BY <1>2, <1>4, HalfIs DEF Word
<1> QED BY <1>2, <1>3, <1>4, <1>5 DEF c, Carries

LEMMA CryobotModeReads ==
  ASSUME NEW i \in [cmd : {"CryobotSetMode"}, mode : Byte, magic : U16], NEW j
  PROVE  /\ Carries(i, 1088, 256, 4)
         /\ Reads(j, 1088, 256, Decompose(i).user) <=> j = i
<1> DEFINE c == Decompose(i)  u == c.user
<1>1. c = Cmd(1088, 256, <<i.mode, 0>> \o Be16(i.magic))
  BY DEF Decompose
<1>2. /\ Len(u) = 4 /\ u[1] = i.mode
      /\ u[3] = i.magic \div 256 /\ u[4] = i.magic % 256
      /\ c.apid = 1088 /\ c.func = 256
  BY <1>1 DEF Cmd, Be16
<1> HIDE DEF c
<1>3. Reads(j, 1088, 256, u) <=>
        j = [cmd |-> "CryobotSetMode", mode |-> u[1], magic |-> Word(u, 2)]
  BY <1>2 DEF Reads
<1>4. /\ i = [cmd |-> "CryobotSetMode", mode |-> i.mode, magic |-> i.magic]
      /\ i.magic \in U16
  OBVIOUS
<1>5. Word(u, 2) = i.magic
  BY <1>2, <1>4, HalfIs DEF Word
<1> QED BY <1>2, <1>3, <1>4, <1>5 DEF c, Carries

LEMMA BwCollapseReads ==
  ASSUME NEW i \in [cmd : {"CryobotBwCollapse"}, enable : BOOLEAN, duration : U16], NEW j
  PROVE  /\ Carries(i, 1088, 768, 4)
         /\ Reads(j, 1088, 768, Decompose(i).user) <=> j = i
<1> DEFINE c == Decompose(i)  u == c.user
<1>1. c = Cmd(1088, 768, <<Bool8(i.enable), 0>> \o Be16(i.duration))
  BY DEF Decompose
<1>2. /\ Len(u) = 4 /\ u[1] = Bool8(i.enable)
      /\ u[3] = i.duration \div 256 /\ u[4] = i.duration % 256
      /\ c.apid = 1088 /\ c.func = 768
  BY <1>1 DEF Cmd, Be16
<1> HIDE DEF c
<1> DEFINE on == u[1] = 1
<1>3. Reads(j, 1088, 768, u) <=>
        j = [cmd |-> "CryobotBwCollapse", enable |-> on, duration |-> Word(u, 2)]
  BY <1>2 DEF Reads
<1>4. /\ i = [cmd |-> "CryobotBwCollapse", enable |-> i.enable, duration |-> i.duration]
      /\ i.enable \in BOOLEAN /\ i.duration \in U16
  OBVIOUS
<1>5. on = i.enable /\ Word(u, 2) = i.duration
  BY <1>2, <1>4, HalfIs DEF Bool8, Word
<1> QED BY <1>2, <1>3, <1>4, <1>5 DEF c, Carries

LEMMA CryobotArmReads ==
  ASSUME NEW i \in [cmd : {"CryobotArm"}, magic : U16], NEW j
  PROVE  /\ Carries(i, 1088, 32768, 2)
         /\ Reads(j, 1088, 32768, Decompose(i).user) <=> j = i
<1> DEFINE c == Decompose(i)  u == c.user
<1>1. c = Cmd(1088, 32768, Be16(i.magic))
  BY DEF Decompose
<1>2. /\ Len(u) = 2 /\ u[1] = i.magic \div 256 /\ u[2] = i.magic % 256
      /\ c.apid = 1088 /\ c.func = 32768
  BY <1>1 DEF Cmd, Be16
<1> HIDE DEF c
<1>3. Reads(j, 1088, 32768, u) <=> j = [cmd |-> "CryobotArm", magic |-> Word(u, 0)]
  BY <1>2 DEF Reads
<1>4. i = [cmd |-> "CryobotArm", magic |-> i.magic] /\ i.magic \in U16
  OBVIOUS
<1>5. Word(u, 0) = i.magic
  BY <1>2, <1>4, HalfIs DEF Word
<1> QED BY <1>2, <1>3, <1>4, <1>5 DEF c, Carries

LEMMA SignedReads ==
  ASSUME NEW r \in I16
  PROVE  r % 65536 \in Nat /\ r % 65536 < 65536 /\ Signed(r % 65536) = r
<1>0. MaxI16 \in Nat
  BY DEF MaxI16
<1>1. MaxI16 = 32767
  BY DEF MaxI16
<1>2. r \in Int /\ -MaxI16 - 1 <= r /\ r <= MaxI16
  BY SMTT(30), <1>0 DEF I16
<1>3. r \in Int /\ -32768 <= r /\ r <= 32767
  BY <1>1, <1>2
<1>4. /\ r % 65536 \in Nat /\ r % 65536 < 65536
      /\ r % 65536 = IF r < 0 THEN r + 65536 ELSE r
  BY <1>3
<1> QED BY <1>3, <1>4 DEF Signed

LEMMA DrillRpmReads ==
  ASSUME NEW i \in [cmd : {"CryobotSetDrillRpm"}, rpm : I16, current : U16,
                    magic : U16],
         NEW j
  PROVE  /\ Carries(i, 1088, 33280, 8)
         /\ Reads(j, 1088, 33280, Decompose(i).user) <=> j = i
<1> DEFINE c == Decompose(i)  u == c.user
           n == i.rpm % 65536
<1>1. c = Cmd(1088, 33280, Be16(n) \o Be16(i.current) \o Be16(i.magic) \o <<0, 0>>)
  BY DEF Decompose
<1>2. i.rpm \in I16
  OBVIOUS
<1>3. n \in Nat /\ n < 65536 /\ Signed(n) = i.rpm
  BY <1>2, SignedReads
<1> HIDE DEF n
<1>4. /\ Len(u) = 8 /\ u[1] = n \div 256 /\ u[2] = n % 256
      /\ u[3] = i.current \div 256 /\ u[4] = i.current % 256
      /\ u[5] = i.magic \div 256 /\ u[6] = i.magic % 256
      /\ c.apid = 1088 /\ c.func = 33280
  BY <1>1 DEF Cmd, Be16
<1> HIDE DEF c
<1>5. Reads(j, 1088, 33280, u) <=>
        j = [cmd |-> "CryobotSetDrillRpm", rpm |-> Signed(Word(u, 0)),
             current |-> Word(u, 2), magic |-> Word(u, 4)]
  BY <1>4 DEF Reads
<1>6. /\ i = [cmd |-> "CryobotSetDrillRpm", rpm |-> i.rpm, current |-> i.current,
              magic |-> i.magic]
      /\ i.current \in U16 /\ i.magic \in U16 
  OBVIOUS
<1>7. n \in U16
  BY <1>3, IsWord
<1>8. Word(u, 0) = n /\ Word(u, 2) = i.current /\ Word(u, 4) = i.magic
  BY <1>4, <1>6, <1>7, HalfIs DEF Word
<1> QED BY <1>3, <1>4, <1>5, <1>6, <1>8 DEF c, Carries
LEMMA IntentReads ==
  ASSUME NEW i \in TcIntent, NEW j
  PROVE  LET c == Decompose(i)
         IN  /\ c.apid \in Apids /\ c.func \in FuncCodes
             /\ Len(c.user) \in Nat /\ Len(c.user) <= 18
             /\ Reads(j, c.apid, c.func, c.user) <=> j = i
<1> DEFINE c == Decompose(i)
           ReadsAs(a, f, n) == Carries(i, a, f, n) /\ (Reads(j, a, f, c.user) <=> j = i)
<1>1. \/ ReadsAs(385, 256, 2) \/ ReadsAs(385, 512, 6) \/ ReadsAs(386, 256, 18)
      \/ ReadsAs(388, 33024, 4) \/ ReadsAs(388, 32768, 3) \/ ReadsAs(1088, 256, 4)
      \/ ReadsAs(1088, 33280, 8) \/ ReadsAs(1088, 768, 4) \/ ReadsAs(1088, 32768, 2)
  <2>1. CASE i \in [cmd : {"OrbiterSetMode"}, mode : Byte, reason : Byte]
    BY <2>1, SetModeReads
  <2>2. CASE i \in [cmd : {"OrbiterEventFilter"}, app : Byte, min : Byte, mask : Pairs]
    BY <2>2, EventFilterReads
  <2>3. CASE i \in [cmd : {"OrbiterAdcsTargetQ"}, q : [1..4 -> Pairs], slew : Byte]
    BY <2>3, TargetQReads
  <2>4. CASE i \in [cmd : {"OrbiterPowerArm"}, switch : Byte, magic : U16]
    BY <2>4, PowerArmReads
  <2>5. CASE i \in [cmd : {"OrbiterPowerSwitch"}, switch : Byte, on : BOOLEAN, magic : U16]
    BY <2>5, PowerSwitchReads
  <2>6. CASE i \in [cmd : {"CryobotSetMode"}, mode : Byte, magic : U16]
    BY <2>6, CryobotModeReads
  <2>7. CASE i \in [cmd : {"CryobotBwCollapse"}, enable : BOOLEAN, duration : U16]
    BY <2>7, BwCollapseReads
  <2>8. CASE i \in [cmd : {"CryobotArm"}, magic : U16]
    BY <2>8, CryobotArmReads
  <2>9. CASE i \in [cmd : {"CryobotSetDrillRpm"}, rpm : I16, current : U16, magic : U16]
    BY <2>9, DrillRpmReads
  <2> QED BY <2>1, <2>2, <2>3, <2>4, <2>5, <2>6, <2>7, <2>8, <2>9 DEF TcIntent
<1>2. ASSUME NEW a \in Nat, NEW f \in Nat, NEW n \in Nat, n <= 18, ReadsAs(a, f, n),
             a <= 2047, f <= 65535, f # 0
      PROVE  /\ c.apid \in Apids /\ c.func \in FuncCodes
             /\ Len(c.user) \in Nat /\ Len(c.user) <= 18
             /\ Reads(j, c.apid, c.func, c.user) <=> j = i
  <2>1. c.apid = a /\ c.func = f /\ Len(c.user) = n /\ (Reads(j, a, f, c.user) <=> j = i)
    BY <1>2 DEF Carries
  <2>2. a \in Apids /\ f \in FuncCodes
    BY <1>2, IsCount, IsWord DEF FuncCodes
  <2> HIDE DEF c
  <2> QED BY <1>2, <2>1, <2>2
<1> HIDE DEF c, ReadsAs
<1>3. /\ c.apid \in Apids /\ c.func \in FuncCodes
      /\ Len(c.user) \in Nat /\ Len(c.user) <= 18
      /\ Reads(j, c.apid, c.func, c.user) <=> j = i
  BY <1>1, <1>2
<1> QED BY <1>3 DEF c

\* The packet of an intent parses, and its parts are those of the intent.
PacketReads(p, i, n) ==
  /\ Len(p.head) = 16 /\ ParseRefusal(p) = "none" /\ Parsed(p).seq = n
  /\ Parsed(p).apid = Decompose(i).apid /\ Parsed(p).func = Decompose(i).func
  /\ p.user = Decompose(i).user
  /\ TotalLen(p) = 16 + Len(Decompose(i).user)

LEMMA PacketIs ==
  ASSUME NEW i \in TcIntent, NEW n \in SequenceCounts
  PROVE  PacketReads(Packet(i, n), i, n)
<1> DEFINE c == Decompose(i)
           t == [hi |-> 27, lo |-> 30528, fine |-> 0]
           d == [EmptyDraft("TC", c.apid) EXCEPT
                   !.func = c.func, !.instance = 1, !.seq = n, !.time = t,
                   !.data = Len(c.user)]
           b == Built(d)  p == Packet(i, n)
<1>1. /\ c.apid \in Apids /\ c.func \in FuncCodes
      /\ Len(c.user) \in Nat /\ Len(c.user) <= 18
  BY IntentReads
<1>2. p = [head |-> b.head, data |-> b.data, user |-> c.user]
  BY DEF Packet
<1> HIDE DEF c
<1>3. t \in CucTimes
  <2>1. 27 \in U16 /\ 30528 \in U16 /\ 0 \in U16
    BY IsWord
  <2> QED BY <2>1 DEF CucTimes
<1> HIDE DEF t
<1>4. d = [type |-> "TC", apid |-> c.apid, seq |-> n, func |-> c.func, instance |-> 1,
           time |-> t, data |-> Len(c.user)]
  <2>1. ASSUME NEW e,
               e = [EmptyDraft("TC", c.apid) EXCEPT !.func = c.func, !.instance = 1,
                      !.seq = n, !.time = t, !.data = Len(c.user)]
        PROVE  e = [type |-> "TC", apid |-> c.apid, seq |-> n, func |-> c.func,
                    instance |-> 1, time |-> t, data |-> Len(c.user)]
    BY <2>1 DEF EmptyDraft
  <2> QED BY <2>1
<1> HIDE DEF d
<1>5. d \in DraftType
  <2>1. 1 \in InstanceIds /\ "TC" \in PacketTypes
    BY DEF InstanceIds, PacketTypes
  <2> QED BY <1>1, <1>3, <1>4, <2>1 DEF DraftType
<1>6. BuildRefusal(d) = "none"
  <2>1. c.func # Unset /\ 1 # Unset
    <3>1. c.func \in Nat
      BY <1>1, WordIs DEF FuncCodes
    <3> QED BY <3>1 DEF Unset
  <2>2. 9 + Len(c.user) \in DataLengths
    BY <1>1, IsWord DEF DataLengths
  <2> QED BY <1>4, <2>1, <2>2 DEF BuildRefusal, RawLength
<1>7. /\ IsHeader(b.head, Described(d)) /\ b.data = d.data
      /\ ReadIn(b.head) = Described(d) /\ Parses(b.head, d.data)
  BY Zenon, <1>5, <1>6, BuiltIs
<1>8. b.head \in Seq(Byte) /\ Len(b.head) = 16
  BY Zenon, <1>7 DEF IsHeader
<1> HIDE DEF b
<1>9. p.head = b.head /\ p.data = Len(c.user) /\ p.user = c.user
  BY <1>2, <1>4, <1>7
<1>10. ParseRefusal(p) = "none"
  <2>1. p.head \in Seq(Byte) /\ Len(p.head) = 16 /\ p.data \in Nat /\ Parses(p.head, p.data)
    BY <1>1, <1>4, <1>7, <1>8, <1>9
  <2> QED BY Zenon, <2>1, ParsesIff
<1>11. Parsed(p) = Described(d)
  BY Zenon, <1>7, <1>9, ParsedIs
<1>12. n # Unset
  BY CountIs DEF Unset
<1>13. Parsed(p).seq = n /\ Parsed(p).apid = c.apid /\ Parsed(p).func = c.func
  BY <1>4, <1>11, <1>12 DEF Described
<1>14. TotalLen(p) = 16 + Len(c.user)
  BY <1>8, <1>9 DEF TotalLen
<1> QED BY <1>8, <1>9, <1>10, <1>13, <1>14 DEF PacketReads, c

\* The header of a frame that fits reads as the frame.
LEMMA FrameReads ==
  ASSUME NEW f, f.type \in {"AD", "BC", "BD"}, PayloadLen(f) \in Nat, ~TooLarge(f)
  PROVE  LET h == ReadHeader(FrameHeader(f))
         IN  /\ h.type = f.type /\ h.scid = SpacecraftId /\ h.seq = f.seq
             /\ h.vc = (IF f.type = "BD" THEN BdVc ELSE AdVc)
             /\ h.length = 7 + PayloadLen(f) /\ h.length <= TcFrameMaxBytes
<1> DEFINE n == PayloadLen(f)  len == 6 + n
           bypass == IF f.type = "AD" THEN 0 ELSE 1
           cc == IF f.type = "BC" THEN 1 ELSE 0
           vc == IF f.type = "BD" THEN 7 ELSE 0
           g == FrameHeader(f)
<1>1. n \in Nat /\ n <= 505
  BY DEF TooLarge, FrameLen, TcFrameMaxBytes
<1>2. /\ g[1] = 32 * bypass + 16 * cc /\ g[2] = 42
      /\ g[3] = 4 * vc + ((len \div 256) % 4) /\ g[4] = len % 256 /\ g[5] = f.seq
  BY <1>1 DEF FrameHeader, FrameLen, SpacecraftId, BdVc, AdVc
<1> HIDE DEF g
<1>3. /\ (len \div 256) % 4 \in 0..3 /\ 256 * ((len \div 256) % 4) + (len % 256) = len
  <2> HIDE DEF n
  <2> QED BY <1>1
<1> DEFINE top == (len \div 256) % 4  low == len % 256
<1>4. top \in 0..3 /\ 256 * top + low = len
  BY <1>3
<1>5. g[3] = 4 * vc + top /\ g[4] = low
  BY <1>2
<1> HIDE DEF top, low
<1>6. g[3] \div 4 = vc /\ 256 * (g[3] % 4) + g[4] + 1 = 7 + n
  <2>1. g[3] \div 4 = vc /\ g[3] % 4 = top
    BY <1>4, <1>5
  <2>2. 256 * top + low + 1 = 7 + n
    <3> HIDE DEF n
    <3> QED BY <1>1, <1>4
  <2> QED BY <1>5, <2>1, <2>2
<1>7. /\ ReadHeader(g).type = f.type /\ ReadHeader(g).scid = 42 /\ ReadHeader(g).seq = f.seq
  BY <1>2 DEF ReadHeader
<1>8. ReadHeader(g).vc = vc /\ ReadHeader(g).length = 7 + n
  BY <1>6 DEF ReadHeader
<1> QED BY <1>1, <1>7, <1>8 DEF g, SpacecraftId, BdVc, AdVc, TcFrameMaxBytes
-----------------------------------------------------------------------------
\* The intents that may be asked, and the packets of those that were
Allowed == {i \in Intents : ~ForbiddenParam(i)}
AskedPackets == {Packet(asked[n], n - 1) : n \in 1..Len(asked)}
HeldFrames == [type : {"AD"}, seq : Nat, spp : AskedPackets]

EngineHolds(e, S) ==
  /\ "vs" \in DOMAIN e /\ "window" \in DOMAIN e
  /\ e.vs \in Nat /\ e.window \in Seq(S)

\* A frame that the engine gives out: Set V(R), one that it holds, or a bypass
\* frame with a packet of an intent or a bulk payload
Sendable(f) ==
  \/ f = Fop!BcFrame
  \/ \E j \in DOMAIN engine.window : f = engine.window[j]
  \/ \E p \in AskedPackets \cup {Bulk(n) : n \in BulkSizes} : f = Fop!BdFrame(p)

Gives == \A k \in DOMAIN issued : Sendable(issued[k])

StageInv ==
  /\ asked \in Seq(Allowed) /\ Len(asked) <= MaxAsked
  /\ EngineHolds(engine, HeldFrames)
  /\ \A x \in air : \E f : x = Framed(f) /\ ~TooLarge(f) /\ Sendable(f)
-----------------------------------------------------------------------------
(* The engine's steps: what tick gives out it holds afterwards.            *)

ResultHolds(r, S) ==
  /\ EngineHolds(r.eng, S)
  /\ \A k \in DOMAIN r.frames : \E j \in DOMAIN r.eng.window : r.frames[k] = r.eng.window[j]

LEMMA ContinueHolds ==
  ASSUME NEW S, NEW e, EngineHolds(e, S)
  PROVE  ResultHolds(Fop!Continue(e), S)
BY DEF ResultHolds, Fop!Continue

LEMMA FopAcknowledged ==
  ASSUME NEW S, NEW w \in Seq(S), NEW nr
  PROVE  Fop!Acknowledged(w, nr) \in 0..Len(w)
<1> DEFINE Before(s) == Fop!SeqBefore(s, nr)
           Stops == {k \in 0..Len(w) : k = Len(w) \/ ~Before(w[k + 1].seq)}
<1>1. Len(w) \in Nat /\ Len(w) \in Stops
  BY LenProperties
<1>2. Stops \subseteq Nat /\ Stops # {}
  BY <1>1
<1>3. PICK k \in Stops : \A j \in Stops : k <= j
  <2> HIDE DEF Stops
  <2> QED BY <1>2, LeastNatural
<1>4. ASSUME NEW i \in 1..k PROVE Before(w[i].seq)
  <2>1. SUFFICES ASSUME ~Before(w[i].seq) PROVE FALSE
    OBVIOUS
  <2>2. i - 1 \in 0..Len(w) /\ (i - 1) + 1 = i
    BY <1>1, <1>3
  <2>3. i - 1 \in Stops
    <3> HIDE DEF Before
    <3> QED BY <2>1, <2>2
  <2>4. k <= i - 1
    BY <1>3, <2>3
  <2>5. k \in Nat /\ i <= k /\ i \in Nat
    BY <1>1, <1>3
  <2> QED BY <2>4, <2>5
<1> QED BY <1>3, <1>4 DEF Fop!Acknowledged

LEMMA SlideHolds ==
  ASSUME NEW S, NEW e, EngineHolds(e, S), NEW nr
  PROVE  EngineHolds(Fop!Slide(e, nr), S)
<1> DEFINE k == Fop!Acknowledged(e.window, nr)
           w == SubSeq(e.window, k + 1, Len(e.window))
<1>1. k \in 0..Len(e.window)
  BY FopAcknowledged DEF EngineHolds
<1> HIDE DEF k
<1>2. w \in Seq(S)
  BY <1>1, SuffixIs DEF EngineHolds
<1>3. /\ Fop!Slide(e, nr).window = w /\ Fop!Slide(e, nr).vs = e.vs
      /\ DOMAIN Fop!Slide(e, nr) = DOMAIN e
  BY DEF Fop!Slide, EngineHolds, k
<1> QED BY <1>2, <1>3 DEF EngineHolds

LEMMA RetryHolds ==
  ASSUME NEW S, NEW e, EngineHolds(e, S), NEW s, NEW t
  PROVE  ResultHolds(Fop!Retry(e, s, t), S)
<1> DEFINE a == Fop!Aborted(e)
           g == [e EXCEPT !.state = s, !.count = @ + 1, !.t1 = t]
           o == Fop!Oldest(e)
<1>1. a.window = <<>> /\ a.vs = e.vs /\ DOMAIN a = DOMAIN e
  BY DEF Fop!Aborted, EngineHolds
<1>2. g.window = e.window /\ g.vs = e.vs /\ DOMAIN g = DOMAIN e
  BY DEF EngineHolds
<1>3. ASSUME NEW k \in DOMAIN o
      PROVE  \E j \in DOMAIN e.window : o[k] = e.window[j]
  <2>1. e.window # <<>> /\ o = <<Head(e.window)>>
    BY <1>3 DEF Fop!Oldest
  <2>2. 1 \in DOMAIN e.window /\ Head(e.window) = e.window[1]
    BY <2>1 DEF EngineHolds
  <2> HIDE DEF o
  <2>3. o[k] = Head(e.window)
    BY <1>3, <2>1
  <2> QED BY <2>2, <2>3
<1>4. Fop!Retry(e, s, t) = Fop!Return(a, <<>>) \/ Fop!Retry(e, s, t) = Fop!Return(g, o)
  BY DEF Fop!Retry
<1> HIDE DEF a, g, o
<1>5. ResultHolds(Fop!Return(a, <<>>), S)
  <2>1. EngineHolds(a, S)
    <3>1. <<>> \in Seq(S)
      OBVIOUS
    <3> QED BY <1>1, <3>1 DEF EngineHolds
  <2>2. Fop!Return(a, <<>>).eng = a /\ Fop!Return(a, <<>>).frames = <<>>
    BY DEF Fop!Return
  <2> QED BY <2>1, <2>2 DEF ResultHolds
<1>6. ResultHolds(Fop!Return(g, o), S)
  BY <1>2, <1>3 DEF ResultHolds, EngineHolds, Fop!Return
<1> QED BY <1>4, <1>5, <1>6

LEMMA OnClcwHolds ==
  ASSUME NEW S, NEW e, EngineHolds(e, S), NEW c
  PROVE  ResultHolds(Fop!OnClcw(e, c), S)
<1> DEFINE a == [e EXCEPT !.age = 0]
           s == Fop!Slide(a, c.nr)
<1>1. EngineHolds(a, S)
  BY DEF EngineHolds
<1> HIDE DEF a
<1>2. EngineHolds(s, S)
  BY <1>1, SlideHolds
<1>3. Fop!OnClcw(e, c) =
        IF c.lockout \/ s.state = "Initial" THEN Fop!Continue(s)
        ELSE IF c.retransmit
        THEN IF s.state = "Initializing" THEN Fop!Continue(s)
             ELSE Fop!Retry(s, IF s.state = "Active" THEN "RetransmitWithoutWait"
                                                     ELSE s.state, s.t1)
        ELSE Fop!Continue([s EXCEPT !.state = "Active",
                             !.count = IF s.state \in Fop!Retransmitting THEN 0 ELSE @])
  BY DEF Fop!OnClcw, a
<1> HIDE DEF s
<1>4. EngineHolds([s EXCEPT !.state = "Active",
                     !.count = IF s.state \in Fop!Retransmitting THEN 0 ELSE @], S)
  BY <1>2 DEF EngineHolds
<1> QED BY <1>2, <1>3, <1>4, ContinueHolds, RetryHolds

LEMMA OnTimerHolds ==
  ASSUME NEW S, NEW e, EngineHolds(e, S)
  PROVE  ResultHolds(Fop!OnTimer(e), S)
BY ContinueHolds, RetryHolds DEF Fop!OnTimer

LEMMA OnStaleHolds ==
  ASSUME NEW S, NEW e, EngineHolds(e, S)
  PROVE  ResultHolds(Fop!OnStale(e), S)
<1>1. EngineHolds([e EXCEPT !.state = "RetransmitWithWait"], S)
  BY DEF EngineHolds
<1> QED BY <1>1, ContinueHolds DEF Fop!OnStale

LEMMA TickHolds ==
  ASSUME NEW S, EngineHolds(engine, S)
  PROVE  ResultHolds(Fop!TickResult, S)
<1> DEFINE r == IF Fop!HasNew THEN Fop!OnClcw(engine, clcws.value)
                              ELSE Fop!Continue(engine)
           t == IF r.return THEN r ELSE Fop!OnTimer(r.eng)
<1>1. Fop!TickResult = IF t.return THEN t ELSE Fop!OnStale(t.eng)
  BY DEF Fop!TickResult, Fop!Then
<1>2. ResultHolds(r, S)
  BY OnClcwHolds, ContinueHolds
<1> HIDE DEF r
<1>3. ResultHolds(t, S)
  BY <1>2, OnTimerHolds DEF ResultHolds
<1> HIDE DEF t
<1> QED BY <1>1, <1>3, OnStaleHolds DEF ResultHolds
-----------------------------------------------------------------------------
LEMMA HoldsMore ==
  ASSUME NEW S, NEW T, S \subseteq T, NEW e, EngineHolds(e, S)
  PROVE  EngineHolds(e, T)
<1>1. e.window \in Seq(T)
  <2>1. e.window \in Seq(S)
    BY DEF EngineHolds
  <2> QED BY <2>1
<1> QED BY <1>1 DEF EngineHolds

LEMMA AirFollows ==
  ASSUME Sent, Gives'
  PROVE  \A x \in air' : \E f : x = Framed(f) /\ ~TooLarge(f) /\ Sendable(f)'
BY DEF Sent, Gives

LEMMA AirStays ==
  ASSUME StageInv, engine'.window = engine.window, UNCHANGED <<asked, air>>
  PROVE  \A x \in air' : \E f : x = Framed(f) /\ ~TooLarge(f) /\ Sendable(f)'
BY DEF StageInv, Sendable, AskedPackets

LEMMA AskedGrows ==
  ASSUME asked \in Seq(Allowed), NEW i \in Intents, ~ForbiddenParam(i),
         asked' = Append(asked, i)
  PROVE  /\ asked' \in Seq(Allowed) /\ Len(asked') = Len(asked) + 1
         /\ AskedPackets \subseteq AskedPackets' /\ HeldFrames \subseteq HeldFrames'
         /\ Packet(i, Len(asked)) \in AskedPackets'
<1>1. i \in Allowed
  BY DEF Allowed
<1>2. /\ asked' \in Seq(Allowed) /\ Len(asked') = Len(asked) + 1 /\ Len(asked) \in Nat
      /\ \A n \in 1..Len(asked) : asked'[n] = asked[n]
      /\ asked'[Len(asked) + 1] = i
  BY <1>1
<1>3. AskedPackets \subseteq AskedPackets'
  <2>1. ASSUME NEW n \in 1..Len(asked) PROVE Packet(asked[n], n - 1) \in AskedPackets'
    <3>1. n \in 1..Len(asked') /\ asked'[n] = asked[n]
      BY <1>2
    <3> QED BY <3>1 DEF AskedPackets
  <2> QED BY <2>1 DEF AskedPackets
<1>4. Packet(i, Len(asked)) \in AskedPackets'
  <2>1. Len(asked) + 1 \in 1..Len(asked') /\ (Len(asked) + 1) - 1 = Len(asked)
    BY <1>2
  <2> QED BY <1>2, <2>1 DEF AskedPackets
<1> QED BY <1>2, <1>3, <1>4 DEF HeldFrames

LEMMA StageStart == StagesInit => StageInv
<1> SUFFICES ASSUME StagesInit PROVE StageInv
  OBVIOUS
<1>1. asked = <<>> /\ air = {} /\ engine = Fop!NewEngine
  BY DEF StagesInit, Fop!Init
<1>2. EngineHolds(engine, HeldFrames)
  BY <1>1 DEF EngineHolds, Fop!NewEngine
<1>3. asked \in Seq(Allowed) /\ Len(asked) = 0 /\ 0 <= MaxAsked
  BY <1>1, StageAssumption, MaxIs
<1> QED BY <1>1, <1>2, <1>3 DEF StageInv

LEMMA OpenInv == StageInv /\ Open => StageInv'
<1> SUFFICES ASSUME StageInv, Open PROVE StageInv'
  OBVIOUS
<1>1. /\ asked' = asked /\ Sent /\ issued' = <<Fop!BcFrame>>
      /\ engine' = [engine EXCEPT !.state = "Initializing", !.vs = 0, !.window = <<>>,
                                  !.count = 0, !.t1 = FopNone]
  BY DEF Open, Fop!Initialize
<1>2. EngineHolds(engine', HeldFrames)
  BY <1>1 DEF StageInv, EngineHolds
<1>3. Gives'
  BY <1>1 DEF Gives, Sendable
<1> QED BY <1>1, <1>2, <1>3, AirFollows DEF StageInv, HeldFrames, AskedPackets

LEMMA CommandInv == StageInv /\ Command => StageInv'
<1> SUFFICES ASSUME StageInv, Command PROVE StageInv'
  OBVIOUS
<1>1. PICK i \in Intents :
        /\ ~ForbiddenParam(i) /\ asked' = Append(asked, i)
        /\ \/ Fop!Submit(Packet(i, Len(asked)))
           \/ Refused /\ issued' = <<>> /\ UNCHANGED <<engine, clcws>>
  BY DEF Command
<1>2. /\ asked \in Seq(Allowed) /\ Len(asked) < MaxAsked /\ Sent
      /\ EngineHolds(engine, HeldFrames)
  BY DEF StageInv, Command
<1>3. /\ asked' \in Seq(Allowed) /\ Len(asked') = Len(asked) + 1 /\ Len(asked) \in Nat
      /\ AskedPackets \subseteq AskedPackets' /\ HeldFrames \subseteq HeldFrames'
      /\ Packet(i, Len(asked)) \in AskedPackets'
  BY <1>1, <1>2, AskedGrows
<1>4. EngineHolds(engine, HeldFrames')
  BY <1>2, <1>3, HoldsMore
<1> DEFINE p == Packet(i, Len(asked))
<1>5. CASE Fop!Submit(p)
  <2>a. PICK f : f = [type |-> "AD", seq |-> engine.vs, spp |-> p]
    OBVIOUS
  <2>1. /\ issued' = <<f>> /\ DOMAIN engine' = DOMAIN engine
        /\ engine'.window = Append(engine.window, f) /\ engine'.vs = Fop!Succ(engine.vs)
    BY <1>4, <1>5, <2>a DEF Fop!Submit, EngineHolds
  <2>2. f \in HeldFrames'
    BY <1>3, <1>4, <2>a DEF HeldFrames, EngineHolds
  <2>3. engine'.vs \in Nat
    BY <1>4, <2>1 DEF EngineHolds, Fop!Succ
  <2>4. /\ engine'.window \in Seq(HeldFrames') /\ Len(engine.window) + 1 \in DOMAIN engine'.window
        /\ engine'.window[Len(engine.window) + 1] = f
    BY <1>4, <2>1, <2>2 DEF EngineHolds
  <2>5. EngineHolds(engine', HeldFrames')
    BY <1>4, <2>1, <2>3, <2>4 DEF EngineHolds
  <2>6. Sendable(f)'
    BY <2>4 DEF Sendable
  <2>7. Gives'
    BY <2>1, <2>6 DEF Gives
  <2> QED BY <1>2, <1>3, <2>5, <2>7, AirFollows, StageAssumption DEF StageInv
<1>6. CASE issued' = <<>> /\ engine' = engine
  <2>1. Gives'
    BY <1>6 DEF Gives
  <2>2. EngineHolds(engine', HeldFrames')
    BY <1>4, <1>6
  <2> QED BY <1>2, <1>3, <2>1, <2>2, AirFollows, StageAssumption DEF StageInv
<1> QED BY <1>1, <1>5, <1>6

LEMMA EmergencyInv == StageInv /\ Emergency => StageInv'
<1> SUFFICES ASSUME StageInv, Emergency PROVE StageInv'
  OBVIOUS
<1>1. Sent /\ asked \in Seq(Allowed) /\ Len(asked) <= MaxAsked /\ EngineHolds(engine, HeldFrames)
  BY DEF Emergency, StageInv
<1>2. ASSUME NEW p \in (AskedPackets \cup {Bulk(n) : n \in BulkSizes})', Fop!EmergencyBd(p)
      PROVE  Gives' /\ engine' = engine
  <2>1. issued' = <<Fop!BdFrame(p)>> /\ engine' = engine
    BY <1>2 DEF Fop!EmergencyBd
  <2>2. Sendable(Fop!BdFrame(p))'
    BY DEF Sendable
  <2> HIDE <1>2
  <2> QED BY <2>1, <2>2 DEF Gives
<1>3. CASE \E i \in Intents : /\ ~ForbiddenParam(i) /\ Len(asked) < MaxAsked
                              /\ Fop!EmergencyBd(Packet(i, Len(asked)))
                              /\ asked' = Append(asked, i)
  <2>1. PICK i \in Intents : /\ ~ForbiddenParam(i) /\ Len(asked) < MaxAsked
                             /\ Fop!EmergencyBd(Packet(i, Len(asked)))
                             /\ asked' = Append(asked, i)
    BY <1>3
  <2>2. /\ asked' \in Seq(Allowed) /\ Len(asked') = Len(asked) + 1 /\ Len(asked) \in Nat
        /\ HeldFrames \subseteq HeldFrames' /\ Packet(i, Len(asked)) \in AskedPackets'
    BY <1>1, <2>1, AskedGrows
  <2>3. Gives' /\ engine' = engine
    BY <1>2, <2>1, <2>2
  <2>4. EngineHolds(engine', HeldFrames')
    BY <1>1, <2>2, <2>3, HoldsMore
  <2> QED BY <2>1, <2>2, <2>3, <2>4, AirFollows, <1>1, StageAssumption DEF StageInv
<1>4. CASE \E n \in BulkSizes : Fop!EmergencyBd(Bulk(n)) /\ UNCHANGED asked
  <2>1. PICK n \in BulkSizes : Fop!EmergencyBd(Bulk(n)) /\ UNCHANGED asked
    BY <1>4
  <2>2. Gives' /\ engine' = engine
    BY <1>2, <2>1
  <2>3. HeldFrames' = HeldFrames
    BY <2>1 DEF HeldFrames, AskedPackets
  <2> QED BY <1>1, <2>1, <2>2, <2>3, AirFollows DEF StageInv
<1> QED BY <1>3, <1>4 DEF Emergency

LEMMA RunTickInv == StageInv /\ RunTick => StageInv'
<1> SUFFICES ASSUME StageInv, RunTick PROVE StageInv'
  OBVIOUS
<1>1. /\ engine' = Fop!TickResult.eng /\ issued' = Fop!TickResult.frames
      /\ Sent /\ asked' = asked
  BY DEF RunTick, Fop!Tick
<1>2. ResultHolds(Fop!TickResult, HeldFrames)
  BY TickHolds DEF StageInv
<1>3. HeldFrames' = HeldFrames
  BY <1>1 DEF HeldFrames, AskedPackets
<1>4. EngineHolds(engine', HeldFrames')
  BY <1>1, <1>2, <1>3 DEF ResultHolds
<1>5. Gives'
  BY <1>1, <1>2 DEF ResultHolds, Gives, Sendable
<1> QED BY <1>1, <1>4, <1>5, AirFollows DEF StageInv

LEMMA QuietInv == StageInv /\ (Report \/ Wait \/ UNCHANGED uvars) => StageInv'
<1> SUFFICES ASSUME StageInv, Report \/ Wait \/ UNCHANGED uvars PROVE StageInv'
  OBVIOUS
<1>1. /\ asked' = asked /\ air' = air /\ DOMAIN engine' = DOMAIN engine
      /\ engine'.window = engine.window /\ engine'.vs = engine.vs
  <2>1. CASE Report \/ UNCHANGED uvars
    BY <2>1 DEF Report, Fop!Publish, uvars
  <2>2. CASE Wait
    BY <2>2 DEF Wait, Fop!Elapse, StageInv, EngineHolds
  <2> QED BY <2>1, <2>2
<1>2. HeldFrames' = HeldFrames
  BY <1>1 DEF HeldFrames, AskedPackets
<1>3. EngineHolds(engine', HeldFrames')
  BY <1>1, <1>2 DEF StageInv, EngineHolds
<1> QED BY <1>1, <1>3, AirStays DEF StageInv

LEMMA StageStep == StageInv /\ [StagesNext]_uvars => StageInv'
BY OpenInv, CommandInv, EmergencyInv, RunTickInv, QuietInv DEF StagesNext
-----------------------------------------------------------------------------
\* What the catalogue makes of a packet that was asked for
Answers(p) ==
  /\ TotalLen(p) \in Nat /\ ParseRefusal(p) = "none"
  /\ Parsed(p).seq < Len(asked)
  /\ Understood(p) = {asked[Parsed(p).seq + 1]}
  /\ \A i \in Understood(p) : ~ForbiddenParam(i)

LEMMA AskedAnswers ==
  ASSUME StageInv, NEW p \in AskedPackets
  PROVE  Answers(p)
<1>1. asked \in Seq(Allowed) /\ Len(asked) <= MaxAsked /\ Len(asked) \in Nat
  BY DEF StageInv
<1>2. PICK n \in 1..Len(asked) : p = Packet(asked[n], n - 1)
  BY DEF AskedPackets
<1> DEFINE i == asked[n]  c == Decompose(i)
<1>3. i \in Intents /\ ~ForbiddenParam(i) /\ i \in TcIntent
  BY <1>1, StageAssumption DEF Allowed
<1>4. n - 1 \in SequenceCounts
  <2>1. MaxAsked \in Nat /\ MaxAsked <= 16384
    <3>1. MaxCount \in Nat
      BY MaxIs
    <3>2. MaxAsked \in Nat /\ MaxAsked <= MaxCount + 1
      BY <3>1, StageAssumption
    <3> QED BY <3>2, MaxIs
  <2>2. n - 1 \in Nat /\ n - 1 <= 16383
    BY <1>1, <2>1
  <2> QED BY <2>2, IsCount
<1>5. PacketReads(p, i, n - 1)
  BY <1>2, <1>3, <1>4, PacketIs
<1>6. Len(c.user) \in Nat
  BY <1>3, IntentReads
<1> HIDE DEF c
<1>7. /\ TotalLen(p) \in Nat /\ ParseRefusal(p) = "none" /\ Parsed(p).seq = n - 1
      /\ Parsed(p).apid = c.apid /\ Parsed(p).func = c.func /\ p.user = c.user
  BY <1>5, <1>6 DEF PacketReads, c
<1>8. Understood(p) = {j \in Intents : Reads(j, c.apid, c.func, c.user)}
  BY <1>7 DEF Understood, Reads
<1>9. \A j : Reads(j, c.apid, c.func, c.user) <=> j = i
  BY <1>3, IntentReads DEF c
<1> HIDE DEF i
<1>10. Understood(p) = {i}
  BY <1>3, <1>8, <1>9
<1>11. Parsed(p).seq + 1 = n /\ Parsed(p).seq < Len(asked)
  BY <1>1, <1>7
<1> QED BY <1>3, <1>7, <1>10, <1>11 DEF Answers, i

\* Whatever the operator asks for, in whatever order, and however often the
\* engine repeats it: what is read in a frame on the wire is the command that
\* was asked for, once, and no forbidden one (builder.rs:103-222,
\* framer.rs:65-105, cop1.rs:182-206).
THEOREM AlwaysCommandComesThrough == StagesSpec => []CommandComesThrough
<1>1. StageInv => CommandComesThrough
  <2> SUFFICES ASSUME StageInv, NEW x \in air
               PROVE  LET h == ReadHeader(x.header)
                          p == x.payload
                      IN  /\ h.scid = SpacecraftId /\ h.length <= TcFrameMaxBytes
                          /\ h.type = "BC" => h.length = 8 /\ h.vc = AdVc
                          /\ h.type # "BC" => h.length = 7 + TotalLen(p)
                          /\ h.type = "AD" =>
                               /\ h.vc = AdVc
                               /\ \E j \in DOMAIN engine.window :
                                    engine.window[j].seq = h.seq /\ engine.window[j].spp = p
                          /\ h.type = "BD" => h.vc = BdVc
                          /\ h.type # "BC" /\ p.head # <<>> =>
                               /\ ParseRefusal(p) = "none"
                               /\ Parsed(p).seq < Len(asked)
                               /\ Understood(p) = {asked[Parsed(p).seq + 1]}
                               /\ \A i \in Understood(p) : ~ForbiddenParam(i)
    BY DEF CommandComesThrough
  <2>1. PICK f : x = Framed(f) /\ ~TooLarge(f) /\ Sendable(f)
    BY DEF StageInv
  <2> DEFINE h == ReadHeader(x.header)  p == x.payload
  <2>2. x.header = FrameHeader(f) /\ p = f.spp
    BY <2>1 DEF Framed
  <2>3. \/ f.type = "BC"
        \/ /\ f.type = "AD" /\ f.spp \in AskedPackets
           /\ \E j \in DOMAIN engine.window : f = engine.window[j]
        \/ f.type = "BD" /\ f.spp \in AskedPackets \cup {Bulk(n) : n \in BulkSizes}
    <3>1. CASE f = Fop!BcFrame
      BY <3>1 DEF Fop!BcFrame
    <3>2. CASE \E j \in DOMAIN engine.window : f = engine.window[j]
      <4>1. f \in HeldFrames
        BY <3>2 DEF StageInv, EngineHolds
      <4> QED BY <3>2, <4>1 DEF HeldFrames
    <3>3. CASE \E q \in AskedPackets \cup {Bulk(n) : n \in BulkSizes} : f = Fop!BdFrame(q)
      BY <3>3 DEF Fop!BdFrame
    <3> QED BY <2>1, <3>1, <3>2, <3>3 DEF Sendable
  <2>4. ASSUME NEW n \in BulkSizes PROVE TotalLen(Bulk(n)) \in Nat /\ Bulk(n).head = <<>>
    BY StageAssumption DEF TotalLen, Bulk
  <2>5. f.type # "BC" => TotalLen(p) \in Nat /\ (p.head = <<>> \/ Answers(p))
    BY <2>2, <2>3, <2>4, AskedAnswers DEF Answers
  <2>6. PayloadLen(f) \in Nat /\ PayloadLen(f) = (IF f.type = "BC" THEN 1 ELSE TotalLen(p))
    BY <2>2, <2>5 DEF PayloadLen
  <2>7. /\ h.type = f.type /\ h.scid = SpacecraftId /\ h.seq = f.seq
        /\ h.vc = (IF f.type = "BD" THEN BdVc ELSE AdVc)
        /\ h.length = 7 + PayloadLen(f) /\ h.length <= TcFrameMaxBytes
    BY <2>1, <2>2, <2>3, <2>6, FrameReads
  <2> HIDE DEF h, p
  <2>8. h.type = "AD" => \E j \in DOMAIN engine.window :
                           engine.window[j].seq = h.seq /\ engine.window[j].spp = p
    BY <2>2, <2>3, <2>7
  <2> QED BY <2>3, <2>5, <2>6, <2>7, <2>8 DEF Answers, h, p
<1> QED BY <1>1, StageStart, StageStep, PTL DEF StagesSpec
-----------------------------------------------------------------------------
EngInv(e) == e \in Engine /\ Numbered(e) /\ Timed(e) /\ Clean(e)

ResultInv(r) == EngInv(r.eng) /\ r.frames \in Seq(AdFrame)

IInv == EngInv(fop) /\ TypeOK

USE WindowAssumption, RetryAssumption, TimerAssumption, NoneAssumption
-----------------------------------------------------------------------------
LEMMA StaleAbortType == StaleAbort \in Nat
BY DEF StaleAbort

\* V(S) moves one place away from every number of the window.
LEMMA SuccDist ==
  ASSUME NEW s \in Seqs, NEW t \in Seqs, Dist(s, t) < SeqMod - 1
  PROVE  /\ Succ(t) \in Seqs
         /\ Dist(s, Succ(t)) = Dist(s, t) + 1
BY DEF Seqs, Succ, Dist

LEMMA SuccSelf ==
  ASSUME NEW t \in Seqs
  PROVE  Succ(t) \in Seqs /\ Dist(t, Succ(t)) = 1
BY DEF Seqs, Succ, Dist

\* The acknowledgement loop stops at a frame that is not acknowledged, or at
\* the end of the window.
LEMMA AcknowledgedIs ==
  ASSUME NEW w \in Seq(AdFrame), NEW nr \in Seqs
  PROVE  LET k == Acknowledged(w, nr)
         IN  /\ k \in 0..Len(w)
             /\ \A i \in 1..k : SeqBefore(w[i].seq, nr)
             /\ k = Len(w) \/ ~SeqBefore(w[k + 1].seq, nr)
<1> DEFINE Stops == {k \in 0..Len(w) : k = Len(w) \/ ~SeqBefore(w[k + 1].seq, nr)}
<1>1. Len(w) \in Nat /\ Len(w) \in Stops
  BY LenProperties
<1>a. Stops \subseteq Nat /\ Stops # {}
  BY <1>1
<1>b. \E k \in Stops : \A j \in Stops : k <= j
  <2> HIDE DEF Stops
  <2>1. QED
    BY <1>a, LeastNatural
<1>2. PICK k \in Stops : \A j \in Stops : k <= j
  BY <1>b
<1>3. \A i \in 1..k : SeqBefore(w[i].seq, nr)
  <2>1. SUFFICES ASSUME NEW i \in 1..k, ~SeqBefore(w[i].seq, nr)
                 PROVE  FALSE
    OBVIOUS
  <2>2. i - 1 \in 0..Len(w) /\ (i - 1) + 1 = i
    BY <1>1, <1>2
  <2>3. i - 1 \in Stops
    BY <2>1, <2>2
  <2>a. k <= i - 1
    BY <1>2, <2>3
  <2>b. k \in Nat /\ i <= k /\ i \in Nat
    BY <1>1, <1>2
  <2>4. QED
    BY <2>a, <2>b
<1>4. QED
  BY <1>2, <1>3 DEF Acknowledged
-----------------------------------------------------------------------------
LEMMA OldestType ==
  ASSUME NEW e \in Engine
  PROVE  Oldest(e) \in Seq(AdFrame)
BY DEF Engine, Oldest

LEMMA SlideInv ==
  ASSUME NEW e, EngInv(e), NEW nr \in Seqs
  PROVE  /\ EngInv(Slide(e, nr))
         /\ Slide(e, nr).state = e.state /\ Slide(e, nr).vs = e.vs
<1> DEFINE k == Acknowledged(e.window, nr)
           w == SubSeq(e.window, k + 1, Len(e.window))
           s == Slide(e, nr)
<1>1. e \in Engine /\ e.window \in Seq(AdFrame) /\ Len(e.window) \in Nat
  BY LenProperties DEF EngInv, Engine
<1>2. k \in 0..Len(e.window)
  BY <1>1, AcknowledgedIs
<1> HIDE DEF k
<1>3. /\ w \in Seq(AdFrame)
      /\ Len(w) = Len(e.window) - k
      /\ \A i \in 1..Len(w) : w[i] = e.window[i + k]
  BY <1>1, <1>2, ElementOfSeq, SubSeqProperties
<1>4. w = <<>> <=> Len(w) = 0
  BY <1>3, EmptySeq
<1>5. e.window = <<>> <=> Len(e.window) = 0
  BY <1>1, EmptySeq
<1> HIDE DEF w
<1> DEFINE ct == IF k > 0 THEN 0 ELSE e.count
           tm == IF k > 0 /\ w = <<>> THEN None ELSE e.t1
<1>a. ct \in 0..(MaxRetransmit - 1)
  BY <1>1 DEF Engine
<1>b. tm \in {None} \cup 0..T1
  BY <1>1 DEF Engine
<1>6. s = [e EXCEPT !.window = w, !.count = ct, !.t1 = tm]
  BY DEF Slide, k, w
<1> HIDE DEF ct, tm, s
<1>7. /\ s \in Engine /\ s.state = e.state /\ s.vs = e.vs /\ s.window = w
      /\ s.count = ct /\ s.t1 = tm
  BY <1>1, <1>3, <1>6, <1>a, <1>b DEF Engine
<1>8. Numbered(s)
  <2>1. Len(w) <= WindowSize
    BY <1>1, <1>2, <1>3 DEF EngInv, Numbered, Engine
  <2>2. ASSUME NEW i \in 1..Len(w)
        PROVE  Dist(w[i].seq, e.vs) = Len(w) - i + 1
    <3>1. i + k \in 1..Len(e.window)
      BY <1>1, <1>2, <1>3
    <3>2. Dist(e.window[i + k].seq, e.vs) = Len(e.window) - (i + k) + 1
      BY <3>1 DEF EngInv, Numbered
    <3>3. w[i] = e.window[i + k] /\ Len(w) = Len(e.window) - k
      BY <1>3
    <3>4. Len(e.window) - (i + k) + 1 = Len(w) - i + 1
      BY <1>1, <1>2, <3>3
    <3>5. QED
      BY <3>2, <3>3, <3>4
  <2>3. QED
    BY <1>7, <2>1, <2>2 DEF Numbered
<1>9. Timed(s)
  <2>1. CASE k > 0
    BY <1>2, <1>3, <1>4, <1>5, <1>7, <2>1 DEF EngInv, Timed, tm
  <2>2. CASE k = 0
    BY <1>1, <1>3, <1>4, <1>5, <1>7, <2>2 DEF EngInv, Timed, tm
  <2>3. QED
    BY <1>2, <2>1, <2>2
<1>10. Clean(s)
  BY <1>1, <1>2, <1>3, <1>4, <1>5, <1>7 DEF EngInv, Clean, ct
<1>11. QED
  BY <1>7, <1>8, <1>9, <1>10 DEF EngInv, s

LEMMA AbortedInv ==
  ASSUME NEW e, EngInv(e)
  PROVE  EngInv(Aborted(e)) /\ Aborted(e).state = "Initial"
<1> DEFINE st == "Initial"
           w  == <<>>
           ct == 0
           a  == Aborted(e)
<1>1. st \in FopStates /\ w \in Seq(AdFrame) /\ ct \in 0..(MaxRetransmit - 1)
  BY DEF FopStates
<1>2. a = [e EXCEPT !.state = st, !.window = w, !.count = ct, !.t1 = None]
  BY DEF Aborted
<1> HIDE DEF st, w, ct, a
<1>3. /\ a \in Engine /\ a.state = st /\ a.window = w /\ a.count = ct
      /\ a.t1 = None
  BY <1>1, <1>2 DEF EngInv, Engine
<1>4. Numbered(a) /\ Timed(a) /\ Clean(a)
  BY <1>3 DEF Numbered, Timed, Clean, w, ct
<1>5. QED
  BY <1>3, <1>4 DEF EngInv, a, st

LEMMA RetryInv ==
  ASSUME NEW e, EngInv(e), NEW s \in Retransmitting, NEW t \in {None} \cup 0..T1,
         t # None <=> e.window # <<>>
  PROVE  ResultInv(Retry(e, s, t))
<1> DEFINE ct == e.count + 1
           f  == [e EXCEPT !.state = s, !.count = ct, !.t1 = t]
<1>1. CASE e.count + 1 >= MaxRetransmit
  BY <1>1, AbortedInv DEF Retry, Return, ResultInv
<1>2. CASE ~(e.count + 1 >= MaxRetransmit)
  <2>a. ct \in 0..(MaxRetransmit - 1) /\ s \in FopStates
    BY <1>2 DEF EngInv, Engine, FopStates, Retransmitting
  <2>1. /\ f \in Engine /\ f.state = s /\ f.window = e.window /\ f.vs = e.vs
        /\ f.t1 = t
    <3> HIDE DEF ct
    <3>1. QED
      BY <2>a DEF EngInv, Engine
  <2>2. Numbered(f) /\ Timed(f) /\ Clean(f)
    <3> HIDE DEF f
    <3>1. QED
      BY <2>1 DEF EngInv, Numbered, Timed, Clean, Retransmitting
  <2>3. Oldest(e) \in Seq(AdFrame)
    BY OldestType DEF EngInv
  <2>4. QED
    BY <1>2, <2>1, <2>2, <2>3 DEF Retry, Return, ResultInv, EngInv
<1>3. QED
  BY <1>1, <1>2

LEMMA ContinueInv ==
  ASSUME NEW e, EngInv(e)
  PROVE  ResultInv(Continue(e))
BY DEF Continue, ResultInv

LEMMA AgeReset ==
  ASSUME NEW e, EngInv(e)
  PROVE  LET f == [e EXCEPT !.age = 0]
         IN  EngInv(f) /\ f.state = e.state /\ f.vs = e.vs /\ f.window = e.window
<1> DEFINE z == 0
           h == [e EXCEPT !.age = z]
<1>1. z \in {None} \cup 0..StaleAbort
  BY StaleAbortType
<1> HIDE DEF z
<1>2. /\ h \in Engine /\ h.state = e.state /\ h.vs = e.vs /\ h.count = e.count
      /\ h.window = e.window /\ h.t1 = e.t1
  BY <1>1 DEF EngInv, Engine
<1> HIDE DEF h
<1>3. EngInv(h)
  BY <1>2 DEF EngInv, Numbered, Timed, Clean
<1>4. QED
  BY <1>2, <1>3 DEF h, z

LEMMA OnClcwInv ==
  ASSUME NEW e, EngInv(e), NEW c \in Clcw
  PROVE  ResultInv(OnClcw(e, c))
<1> DEFINE f == [e EXCEPT !.age = 0]
           s == Slide(f, c.nr)
<1>1. EngInv(f)
  BY AgeReset
<1>2. EngInv(s)
  BY <1>1, SlideInv DEF Clcw
<1> HIDE DEF s
<1>3. CASE c.lockout \/ s.state = "Initial"
  BY <1>2, <1>3, ContinueInv DEF OnClcw, s
<1>4. CASE /\ ~(c.lockout \/ s.state = "Initial")
           /\ c.retransmit
           /\ s.state = "Initializing"
  BY <1>2, <1>4, ContinueInv DEF OnClcw, s
<1>5. CASE /\ ~(c.lockout \/ s.state = "Initial")
           /\ c.retransmit
           /\ s.state # "Initializing"
  <2> DEFINE r == IF s.state = "Active" THEN "RetransmitWithoutWait" ELSE s.state
  <2>1. r \in Retransmitting /\ s.t1 \in {None} \cup 0..T1
    BY <1>2, <1>5 DEF EngInv, Engine, FopStates, Retransmitting
  <2>2. ResultInv(Retry(s, r, s.t1))
    BY <1>2, <2>1, RetryInv DEF EngInv, Timed
  <2>3. QED
    BY <1>5, <2>2 DEF OnClcw, s
<1>6. CASE /\ ~(c.lockout \/ s.state = "Initial")
           /\ ~c.retransmit
  <2> DEFINE st == "Active"
             ct == IF s.state \in Retransmitting THEN 0 ELSE s.count
             g  == [s EXCEPT !.state = st, !.count = ct]
  <2>1. st \in FopStates /\ ct \in 0..(MaxRetransmit - 1) /\ ct = 0
    BY <1>2 DEF EngInv, Engine, FopStates, Clean
  <2> HIDE DEF st, ct
  <2>2. /\ g \in Engine /\ g.state = st /\ g.window = s.window
        /\ g.vs = s.vs /\ g.t1 = s.t1 /\ g.count = ct
    BY <1>2, <2>1 DEF EngInv, Engine
  <2> HIDE DEF g
  <2>3. EngInv(g)
    BY <1>2, <2>1, <2>2 DEF EngInv, Numbered, Timed, Clean, st
  <2>4. OnClcw(e, c) = Continue(g)
    BY <1>6 DEF OnClcw, s, g, st, ct
  <2>5. QED
    BY <2>3, <2>4, ContinueInv
<1>7. QED
  BY <1>3, <1>4, <1>5, <1>6

LEMMA OnTimerInv ==
  ASSUME NEW e, EngInv(e)
  PROVE  ResultInv(OnTimer(e))
<1>1. CASE e.t1 = 0 /\ e.state \in {"Active", "RetransmitWithWait"}
  <2>1. e.window # <<>> /\ T1 \in 0..T1 /\ T1 # None
    BY <1>1 DEF EngInv, Timed
  <2>2. ResultInv(Retry(e, "RetransmitWithWait", T1))
    BY <2>1, RetryInv DEF Retransmitting
  <2>3. QED
    BY <1>1, <2>2 DEF OnTimer
<1>2. CASE ~(e.t1 = 0 /\ e.state \in {"Active", "RetransmitWithWait"})
  BY <1>2, ContinueInv DEF OnTimer
<1>3. QED
  BY <1>1, <1>2

LEMMA OnStaleInv ==
  ASSUME NEW e, EngInv(e)
  PROVE  ResultInv(OnStale(e))
<1> DEFINE f == [e EXCEPT !.state = "RetransmitWithWait"]
<1>1. EngInv(f)
  BY DEF EngInv, Engine, FopStates, Numbered, Timed, Clean, Retransmitting
<1>2. QED
  BY <1>1, ContinueInv DEF OnStale

\* A whole call of tick keeps the invariant.
LEMMA TickInv ==
  ASSUME IInv
  PROVE  ResultInv(TickResult)
<1> DEFINE r1 == IF HasNew THEN OnClcw(fop, watch.value) ELSE Continue(fop)
           r2 == Then(r1, OnTimer)
<1>1. ResultInv(r1)
  <2>1. CASE HasNew
    <3>1. watch.value \in Clcw
      BY <2>1 DEF IInv, TypeOK, HasNew
    <3>2. QED
      BY <2>1, <3>1, OnClcwInv DEF IInv
  <2>2. CASE ~HasNew
    BY <2>2, ContinueInv DEF IInv
  <2>3. QED
    BY <2>1, <2>2
<1>2. ResultInv(r2)
  BY <1>1, OnTimerInv DEF Then, ResultInv
<1>3. ResultInv(Then(r2, OnStale))
  BY <1>2, OnStaleInv DEF Then, ResultInv
<1>4. QED
  BY <1>3 DEF TickResult
-----------------------------------------------------------------------------
LEMMA InitInv == Init => IInv
<1> SUFFICES ASSUME Init PROVE IInv
  OBVIOUS
<1>1. fop \in Engine /\ out \in Seq(AdFrame \cup {BcFrame} \cup {BdFrame(s) : s \in Spp})
  BY DEF Init, NewEngine, Engine, FopStates, Seqs
<1>2. watch \in [value : {None} \cup Clcw, changed : BOOLEAN, open : BOOLEAN]
  BY DEF Init
<1>3. Numbered(fop) /\ Timed(fop) /\ Clean(fop)
  BY DEF Init, NewEngine, Numbered, Timed, Clean
<1>4. QED
  BY <1>1, <1>2, <1>3 DEF IInv, EngInv, TypeOK

LEMMA InitializeInv ==
  ASSUME IInv, Initialize
  PROVE  IInv'
<1> DEFINE st == "Initializing"
           z  == 0
           w  == <<>>
<1>1. st \in FopStates /\ z \in Seqs /\ z \in 0..(MaxRetransmit - 1) /\ w \in Seq(AdFrame)
  BY DEF FopStates, Seqs
<1>2. fop' = [fop EXCEPT !.state = st, !.vs = z, !.window = w, !.count = z,
                         !.t1 = None]
  BY DEF Initialize
<1> HIDE DEF st, z, w
<1>3. /\ fop' \in Engine /\ fop'.state = st /\ fop'.window = w /\ fop'.count = z
      /\ fop'.t1 = None
  BY <1>1, <1>2 DEF IInv, EngInv, Engine
<1>4. EngInv(fop')
  BY <1>3 DEF EngInv, Numbered, Timed, Clean, w, z
<1>5. out' \in Seq(AdFrame \cup {BcFrame} \cup {BdFrame(s) : s \in Spp}) /\ watch' = watch
  BY DEF Initialize
<1>6. QED
  BY <1>3, <1>4, <1>5 DEF IInv, TypeOK, EngInv

\* Submitting appends a frame numbered V(S) and moves V(S) on.
LEMMA SubmitInv ==
  ASSUME IInv, NEW s \in Spp, Submit(s)
  PROVE  IInv'
<1> DEFINE f  == [type |-> "AD", seq |-> fop.vs, spp |-> s]
           v  == Succ(fop.vs)
           w  == Append(fop.window, f)
           tm == IF fop.t1 = None THEN T1 ELSE fop.t1
<1>1. /\ fop \in Engine /\ fop.window \in Seq(AdFrame)
      /\ Len(fop.window) \in Nat /\ fop.vs \in Seqs
  BY LenProperties DEF IInv, EngInv, Engine
<1>2. f \in AdFrame
  BY <1>1 DEF AdFrame
<1>3. /\ w \in Seq(AdFrame) /\ Len(w) = Len(fop.window) + 1
      /\ \A i \in 1..Len(fop.window) : w[i] = fop.window[i]
      /\ w[Len(w)] = f
  BY <1>1, <1>2
<1>4. v \in Seqs /\ Dist(fop.vs, v) = 1
  BY <1>1, SuccSelf
<1>5. tm \in {None} \cup 0..T1 /\ tm # None
  BY <1>1 DEF Engine
<1>6. fop' = [fop EXCEPT !.vs = v, !.window = w, !.t1 = tm]
  BY DEF Submit
<1>7. w # <<>>
  BY <1>1, <1>3, EmptySeq
<1>8. out' = <<f>> /\ watch' = watch /\ Len(fop.window) < WindowSize
      /\ fop.state = "Active"
  BY DEF Submit
<1> HIDE DEF v, w, tm, f
<1>9. /\ fop' \in Engine /\ fop'.state = fop.state /\ fop'.window = w
      /\ fop'.count = fop.count /\ fop'.t1 = tm /\ fop'.vs = v
  BY <1>1, <1>3, <1>4, <1>5, <1>6 DEF Engine
<1>10. Numbered(fop')
  <2>1. Len(w) <= WindowSize
    BY <1>1, <1>3, <1>8
  <2>2. ASSUME NEW i \in 1..Len(w)
        PROVE  Dist(w[i].seq, v) = Len(w) - i + 1
    <3>1. CASE i = Len(w)
      BY <1>1, <1>3, <1>4, <3>1 DEF f
    <3>2. CASE i # Len(w)
      <4>1. i \in 1..Len(fop.window)
        BY <1>1, <1>3, <3>2
      <4>2. w[i] = fop.window[i] /\ fop.window[i] \in AdFrame
        BY <1>1, <1>3, <4>1, ElementOfSeq
      <4>3. w[i].seq \in Seqs
        BY <4>2 DEF AdFrame
      <4>4. Dist(w[i].seq, fop.vs) = Len(fop.window) - i + 1
        BY <4>1, <4>2 DEF IInv, EngInv, Numbered
      <4>5. Dist(w[i].seq, fop.vs) < SeqMod - 1
        BY <1>1, <1>8, <4>1, <4>4
      <4>6. Dist(w[i].seq, v) = Dist(w[i].seq, fop.vs) + 1
        BY <1>1, <4>3, <4>5, SuccDist DEF v
      <4>7. QED
        BY <1>1, <1>3, <4>1, <4>4, <4>6
    <3>3. QED
      BY <3>1, <3>2
  <2>3. QED
    BY <1>9, <2>1, <2>2 DEF Numbered
<1>11. Timed(fop') /\ Clean(fop')
  BY <1>5, <1>7, <1>8, <1>9 DEF IInv, EngInv, Timed, Clean, Retransmitting
<1>12. out' \in Seq(AdFrame \cup {BcFrame} \cup {BdFrame(x) : x \in Spp})
  BY <1>2, <1>8
<1>13. QED
  BY <1>8, <1>9, <1>10, <1>11, <1>12 DEF IInv, EngInv, TypeOK

LEMMA ElapseInv ==
  ASSUME IInv, Elapse
  PROVE  IInv'
<1> DEFINE tm == IF fop.t1 \in {None, 0} THEN fop.t1 ELSE fop.t1 - 1
           ag == IF fop.age \in {None, StaleAbort} THEN fop.age ELSE fop.age + 1
<1>1. fop \in Engine
  BY DEF IInv, EngInv
<1>2. tm \in {None} \cup 0..T1 /\ (tm # None <=> fop.t1 # None)
  BY <1>1 DEF Engine
<1>3. ag \in {None} \cup 0..StaleAbort
  BY <1>1, StaleAbortType DEF Engine
<1>4. fop' = [fop EXCEPT !.t1 = tm, !.age = ag] /\ UNCHANGED <<watch, out>>
  BY DEF Elapse
<1> HIDE DEF tm, ag
<1>5. /\ fop' \in Engine /\ fop'.state = fop.state /\ fop'.window = fop.window
      /\ fop'.count = fop.count /\ fop'.t1 = tm /\ fop'.vs = fop.vs
  BY <1>1, <1>2, <1>3, <1>4 DEF Engine
<1>6. Numbered(fop') /\ Timed(fop') /\ Clean(fop')
  BY <1>2, <1>5 DEF IInv, EngInv, Numbered, Timed, Clean
<1>7. QED
  BY <1>4, <1>5, <1>6 DEF IInv, EngInv, TypeOK

LEMMA NextInv == IInv /\ [Next]_vars => IInv'
<1> SUFFICES ASSUME IInv, [Next]_vars PROVE IInv'
  OBVIOUS
<1>1. CASE Initialize
  BY <1>1, InitializeInv
<1>2. ASSUME NEW s \in Spp, Submit(s) PROVE IInv'
  BY <1>2, SubmitInv
<1>3. CASE Tick
  <2>1. EngInv(fop') /\ out' \in Seq(AdFrame)
    BY <1>3, TickInv DEF Tick, ResultInv
  <2>2. out' \in Seq(AdFrame \cup {BcFrame} \cup {BdFrame(s) : s \in Spp})
    BY <2>1, SeqMonotonic
  <2>3. watch' \in [value : {None} \cup Clcw, changed : BOOLEAN, open : BOOLEAN]
    BY <1>3 DEF Tick, IInv, TypeOK
  <2>4. QED
    BY <2>1, <2>2, <2>3 DEF IInv, TypeOK, EngInv
<1>4. ASSUME NEW s \in Spp, EmergencyBd(s) PROVE IInv'
  <2>1. out' \in Seq(AdFrame \cup {BcFrame} \cup {BdFrame(x) : x \in Spp})
    BY <1>4 DEF EmergencyBd
  <2>2. QED
    BY <1>4, <2>1 DEF EmergencyBd, IInv, TypeOK
<1>5. ASSUME NEW c \in Clcw, Publish(c) PROVE IInv'
  BY <1>5 DEF Publish, IInv, TypeOK
<1>6. CASE CloseWatch
  BY <1>6 DEF CloseWatch, IInv, TypeOK
<1>7. CASE Elapse
  BY <1>7, ElapseInv
<1>8. CASE UNCHANGED vars
  BY <1>8 DEF vars, IInv, TypeOK
<1>9. QED
  BY <1>1, <1>2, <1>3, <1>4, <1>5, <1>6, <1>7, <1>8 DEF Next

LEMMA Invariance == Spec => []IInv
BY InitInv, NextInv, PTL DEF Spec

\* The fields of the engine, the watch channel and the returned frames always
\* have their types; in particular retransmit_count stays below the limit.
THEOREM TypeCorrect == Spec => []TypeOK
<1>1. IInv => TypeOK
  BY DEF IInv
<1>2. QED
  BY <1>1, Invariance, PTL

\* The window is always numbered consecutively up to V(S) and never overfull.
THEOREM WindowAlwaysConsecutive == Spec => []WindowConsecutive
<1>1. IInv => WindowConsecutive
  BY DEF IInv, EngInv, WindowConsecutive
<1>2. QED
  BY <1>1, Invariance, PTL

\* T1 always runs exactly while a frame is unacknowledged.
THEOREM TimerAlwaysTracks == Spec => []TimerTracksWindow
<1>1. IInv => TimerTracksWindow
  BY DEF IInv, EngInv, TimerTracksWindow
<1>2. QED
  BY <1>1, Invariance, PTL

\* No retry is on record outside the retransmit states, no frame is held
\* outside a session.
THEOREM SessionAlwaysClean == Spec => []SessionClean
<1>1. IInv => SessionClean
  BY DEF IInv, EngInv, SessionClean
<1>2. QED
  BY <1>1, Invariance, PTL
-----------------------------------------------------------------------------
(* Why frames leave the window.  A step of tick that goes on has dropped at *)
(* most what a new CLCW acknowledges, and has cleared the retry count if it *)
(* dropped anything; so a step that gives up has had no progress.           *)

Slid(f) ==
  \E k \in 0..Len(fop.window) :
    /\ f.window = SubSeq(fop.window, k + 1, Len(fop.window))
    /\ \A i \in 1..k : HasNew /\ SeqBefore(fop.window[i].seq, watch.value.nr)
    /\ f.count # 0 => k = 0 /\ f.count = fop.count

GaveUp(f) ==
  f.window = <<>> /\ f.state = "Initial" /\ fop.count = MaxRetransmit - 1

\* Slid without the count, which a retransmission raises
SlidWindow(f) ==
  \E k \in 0..Len(fop.window) :
    /\ f.window = SubSeq(fop.window, k + 1, Len(fop.window))
    /\ \A i \in 1..k : HasNew /\ SeqBefore(fop.window[i].seq, watch.value.nr)

ResultReason(r) ==
  IF r.return THEN SlidWindow(r.eng) \/ GaveUp(r.eng) ELSE Slid(r.eng)

LEMMA WholeWindow ==
  ASSUME NEW w \in Seq(AdFrame)
  PROVE  SubSeq(w, 1, Len(w)) = w /\ SubSeq(w, Len(w) + 1, Len(w)) = <<>>
<1>1. Len(w) \in Nat
  BY LenProperties
<1>2. SubSeq(w, 1, Len(w)) = w
  BY <1>1, SubSeqProperties, ElementOfSeq, SeqEqual
<1>3. SubSeq(w, Len(w) + 1, Len(w)) \in Seq(AdFrame) /\ Len(SubSeq(w, Len(w) + 1, Len(w))) = 0
  BY <1>1, SubSeqProperties, ElementOfSeq
<1>4. QED
  BY <1>2, <1>3, EmptySeq

LEMMA SlideReason ==
  ASSUME IInv, HasNew
  PROVE  Slid(Slide([fop EXCEPT !.age = 0], watch.value.nr))
<1> DEFINE e == [fop EXCEPT !.age = 0]
           k == Acknowledged(fop.window, watch.value.nr)
           w == SubSeq(fop.window, k + 1, Len(fop.window))
           s == Slide(e, watch.value.nr)
<1>1. fop \in Engine /\ fop.window \in Seq(AdFrame) /\ watch.value.nr \in Seqs
  BY DEF IInv, EngInv, Engine, TypeOK, HasNew, Clcw
<1>2. e.window = fop.window /\ e.count = fop.count
  BY <1>1 DEF Engine
<1>3. /\ k \in 0..Len(fop.window)
      /\ \A i \in 1..k : SeqBefore(fop.window[i].seq, watch.value.nr)
  BY <1>1, AcknowledgedIs
<1>4. s.window = w /\ s.count = IF k > 0 THEN 0 ELSE fop.count
  <2> HIDE DEF k
  <2>1. k = Acknowledged(e.window, watch.value.nr)
    BY <1>2 DEF k
  <2> DEFINE ct == IF k > 0 THEN 0 ELSE fop.count
             tm == IF k > 0 /\ w = <<>> THEN None ELSE e.t1
  <2>2. s = [e EXCEPT !.window = w, !.count = ct, !.t1 = tm]
    BY <2>1, <1>2 DEF Slide
  <2> HIDE DEF w, ct, tm, s
  <2>3. s.window = w /\ s.count = ct
    BY <1>1, <2>2 DEF Engine
  <2>4. QED
    BY <2>3 DEF ct
<1>5. Len(fop.window) \in Nat
  BY <1>1, LenProperties
<1> HIDE DEF k, s
<1>6. Slid(s)
  <2>1. s.count # 0 => k = 0 /\ s.count = fop.count
    BY <1>3, <1>4, <1>5
  <2>2. s.window = SubSeq(fop.window, k + 1, Len(fop.window))
    BY <1>4
  <2> QED BY ZenonT(30), <1>3, <2>1, <2>2 DEF Slid
<1>7. QED
  BY <1>6 DEF s

LEMMA RetryReason ==
  ASSUME IInv, NEW e, e \in Engine, Slid(e), NEW s, NEW t
  PROVE  ResultReason(Retry(e, s, t))
<1>1. CASE e.count + 1 >= MaxRetransmit
  <2>1. e.count = MaxRetransmit - 1 /\ e.count # 0
    BY <1>1 DEF Engine
  <2>2. fop.count = MaxRetransmit - 1
    BY <2>1 DEF Slid
  <2>3. Aborted(e).window = <<>> /\ Aborted(e).state = "Initial"
    BY DEF Aborted, Engine
  <2>4. QED
    BY <1>1, <2>2, <2>3 DEF Retry, Return, ResultReason, GaveUp
<1>2. CASE ~(e.count + 1 >= MaxRetransmit)
  <2> DEFINE f == [e EXCEPT !.state = s, !.count = @ + 1, !.t1 = t]
  <2>1. f.window = e.window
    BY DEF Engine
  <2>2. SlidWindow(f)
    BY <2>1 DEF Slid, SlidWindow
  <2>3. QED
    BY <1>2, <2>2 DEF Retry, Return, ResultReason
<1>3. QED
  BY <1>1, <1>2

LEMMA OnClcwReason ==
  ASSUME IInv, HasNew
  PROVE  ResultReason(OnClcw(fop, watch.value))
<1> DEFINE c == watch.value
           f == [fop EXCEPT !.age = 0]
           s == Slide(f, c.nr)
<1>1. Slid(s)
  BY SlideReason
<1>2. s \in Engine
  <2>1. watch.value.nr \in Seqs
    BY DEF IInv, TypeOK, HasNew, Clcw
  <2>2. EngInv(f)
    BY AgeReset DEF IInv
  <2>3. QED
    BY <2>1, <2>2, SlideInv DEF EngInv
<1> HIDE DEF s
<1>3. ResultReason(Continue(s))
  BY <1>1 DEF Continue, ResultReason
<1>4. \A t : ResultReason(Retry(s, t, s.t1))
  BY <1>1, <1>2, RetryReason
<1>5. ResultReason(Continue([s EXCEPT !.state = "Active",
                              !.count = IF s.state \in Retransmitting THEN 0
                                                                      ELSE @]))
  <2> DEFINE ct == IF s.state \in Retransmitting THEN 0 ELSE s.count
             g  == [s EXCEPT !.state = "Active", !.count = ct]
  <2>1. g.window = s.window /\ g.count \in {0, s.count}
    BY <1>2 DEF Engine
  <2> HIDE DEF g
  <2>2. Slid(g)
    BY <1>1, <2>1 DEF Slid
  <2>3. QED
    BY <2>2 DEF Continue, ResultReason, g, ct
<1>6. QED
  BY <1>3, <1>4, <1>5 DEF OnClcw, s

LEMMA OnTimerReason ==
  ASSUME IInv, NEW e, e \in Engine, Slid(e)
  PROVE  ResultReason(OnTimer(e))
BY RetryReason DEF OnTimer, Continue, ResultReason

LEMMA OnStaleReason ==
  ASSUME NEW e, e \in Engine, Slid(e)
  PROVE  ResultReason(OnStale(e))
<1> DEFINE f == [e EXCEPT !.state = "RetransmitWithWait"]
<1>1. f.window = e.window /\ f.count = e.count
  BY DEF Engine
<1>2. Slid(f)
  BY <1>1 DEF Slid
<1>3. QED
  BY <1>2 DEF OnStale, Continue, ResultReason

LEMMA TickReason ==
  ASSUME IInv
  PROVE  ResultReason(TickResult)
<1> DEFINE r1 == IF HasNew THEN OnClcw(fop, watch.value) ELSE Continue(fop)
           r2 == Then(r1, OnTimer)
<1>1. ResultReason(r1) /\ r1.eng \in Engine
  <2>1. CASE HasNew
    <3>1. watch.value \in Clcw
      BY <2>1 DEF IInv, TypeOK, HasNew
    <3>2. QED
      BY <2>1, <3>1, OnClcwReason, OnClcwInv DEF IInv, ResultInv, EngInv
  <2>2. CASE ~HasNew
    <3>1. fop \in Engine /\ fop.window \in Seq(AdFrame) /\ Len(fop.window) \in Nat
      BY LenProperties DEF IInv, EngInv, Engine
    <3>2. fop.window = SubSeq(fop.window, 0 + 1, Len(fop.window))
      BY <3>1, WholeWindow
    <3>3. Slid(fop)
      BY <3>1, <3>2 DEF Slid
    <3>4. QED
      BY <2>2, <3>1, <3>3 DEF Continue, ResultReason
  <2>3. QED
    BY <2>1, <2>2
<1>2. ResultInv(r1)
  <2>1. HasNew => watch.value \in Clcw
    BY DEF IInv, TypeOK, HasNew
  <2>2. QED
    BY <2>1, OnClcwInv, ContinueInv DEF IInv
<1>3. ResultReason(r2) /\ r2.eng \in Engine
  BY <1>1, <1>2, OnTimerReason, OnTimerInv DEF Then, ResultReason, ResultInv, EngInv
<1>4. ResultReason(Then(r2, OnStale))
  BY <1>3, OnStaleReason DEF Then, ResultReason
<1>5. QED
  BY <1>4 DEF TickResult

\* A frame leaves the window acknowledged, given up after the last retry, or
\* with the session; nothing is dropped from the middle or put out of order.
THEOREM AlwaysLeavesForAReason == Spec => LeavesForAReason
<1>1. IInv /\ [Next]_vars => [LeftForAReason]_vars
  <2> SUFFICES ASSUME IInv, [Next]_vars, ~UNCHANGED vars PROVE LeftForAReason
    OBVIOUS
  <2>1. /\ fop \in Engine /\ fop.window \in Seq(AdFrame)
        /\ Len(fop.window) \in Nat
    BY LenProperties DEF IInv, EngInv, Engine
  <2>2. CASE Initialize
    BY <2>1, <2>2 DEF Initialize, LeftForAReason, Engine
  <2>3. ASSUME NEW s \in Spp, Submit(s) PROVE LeftForAReason
    <3> DEFINE f == [type |-> "AD", seq |-> fop.vs, spp |-> s]
               w == Append(fop.window, f)
    <3>1. f \in AdFrame
      BY <2>1 DEF Engine, AdFrame
    <3>2. fop'.window = w
      BY <2>1, <2>3 DEF Submit, Engine
    <3> HIDE DEF f
    <3>3. w \in Seq(AdFrame) /\ Len(w) = Len(fop.window) + 1
          /\ \A i \in 1..Len(fop.window) : w[i] = fop.window[i]
      BY <2>1, <3>1
    <3> HIDE DEF w
    <3>4. w # <<>>
      BY <2>1, <3>3, EmptySeq
    <3>5. SubSeq(w, 1, Len(w) - 1) = fop.window
      BY <2>1, <3>3, SubSeqProperties, ElementOfSeq, SeqEqual
    <3>6. QED
      BY <3>2, <3>4, <3>5 DEF LeftForAReason
  <2>4. CASE Tick
    <3>1. SlidWindow(fop') \/ GaveUp(fop')
      BY <2>4, TickReason DEF Tick, ResultReason, Slid, SlidWindow
    <3>2. CASE SlidWindow(fop')
      BY <3>2 DEF SlidWindow, LeftForAReason
    <3>3. CASE GaveUp(fop')
      <4>1. fop'.window = SubSeq(fop.window, Len(fop.window) + 1, Len(fop.window))
        BY <2>1, <3>3, WholeWindow DEF GaveUp
      <4>2. Len(fop.window) \in 0..Len(fop.window)
        BY <2>1
      <4>3. QED
        BY <3>3, <4>1, <4>2 DEF GaveUp, LeftForAReason
    <3>4. QED
      BY <3>1, <3>2, <3>3
  <2>5. CASE fop'.window = fop.window
    <3>1. fop'.window = SubSeq(fop.window, 0 + 1, Len(fop.window))
      BY <2>1, <2>5, WholeWindow
    <3>2. 0 \in 0..Len(fop.window) /\ \A i \in 1..0 : FALSE
      BY <2>1
    <3>3. QED
      BY <3>1, <3>2 DEF LeftForAReason
  <2>6. ASSUME NEW s \in Spp, EmergencyBd(s) PROVE LeftForAReason
    BY <2>5, <2>6 DEF EmergencyBd
  <2>7. ASSUME NEW c \in Clcw, Publish(c) PROVE LeftForAReason
    BY <2>5, <2>7 DEF Publish
  <2>8. CASE CloseWatch
    BY <2>5, <2>8 DEF CloseWatch
  <2>9. CASE Elapse
    <3>1. fop'.window = fop.window
      BY <2>1, <2>9 DEF Elapse, Engine
    <3>2. QED
      BY <2>5, <3>1
  <2>10. QED
    BY <2>2, <2>3, <2>4, <2>6, <2>7, <2>8, <2>9 DEF Next
<1>2. QED
  BY <1>1, Invariance, PTL DEF Spec, LeavesForAReason
-----------------------------------------------------------------------------
(***************************************************************************)
(* Proofs about the closed telecommand loop, for every window size,        *)
(* sequence space, number of commands, and number and order of losses.     *)
(*                                                                         *)
(* The numbers that travel are circular, and no part of the loop knows     *)
(* more than its own.  The invariant ties each of them to the one number   *)
(* that is not circular, the number of commands accepted: V(S) is ahead of *)
(* V(R) by what is still to be accepted, a frame in flight is ahead of or  *)
(* behind V(R) by its place, and a CLCW is behind V(R) by what was         *)
(* accepted since it was made, the older the more.  All these distances    *)
(* stay within the window, where circular order is order.                  *)
(***************************************************************************)
TcFrame == AdFrame \cup {BcFrame} \cup {BdFrame(s) : s \in Spp}
Sending == [frame : TcFrame, session : Nat]
Kind(u) == u.frame.type
CmdOf(u) == u.frame.spp

\* t is d places after s, or -d before it
Follows(s, t, d) == IF d >= 0 THEN Dist(s, t) = d ELSE Dist(t, s) = -d

\* A sequence-controlled frame in flight, with n commands submitted and a
\* accepted: its number is as far from V(R) = v as its command from the next.
AdInv(u, n, a, v) ==
  Kind(u) = "AD" =>
    /\ CmdOf(u) \in 1..n
    /\ a <= CmdOf(u) - 1 + WindowSize
    /\ Follows(v, u.frame.seq, CmdOf(u) - 1 - a)

\* Frames sent later may repeat older commands, but none further back than the
\* window, and none comes before Set V(R).
UplinkInv(q, n, a, v) ==
  /\ \A i \in 1..Len(q) : AdInv(q[i], n, a, v)
  /\ \A i, j \in 1..Len(q) :
       i < j /\ Kind(q[i]) = "AD" /\ Kind(q[j]) = "AD"
         => CmdOf(q[i]) <= CmdOf(q[j]) - 1 + WindowSize
  /\ \A j \in 1..Len(q) :
       Kind(q[j]) = "BC" => a = 0 /\ \A i \in 1..j : Kind(q[i]) # "AD"

\* The CLCWs in flight are at most max commands old, the oldest first.
ReportsInv(q, v, max) ==
  /\ \A i \in 1..Len(q) : Dist(q[i].nr, v) <= max
  /\ \A i, j \in 1..Len(q) : i < j => Dist(q[j].nr, v) <= Dist(q[i].nr, v)

\* The CLCW the engine will read is no newer than those in flight.
WatchInv(c, q, v, max) ==
  /\ Dist(c.nr, v) <= max
  /\ \A i \in 1..Len(q) : Dist(q[i].nr, v) <= Dist(c.nr, v)

Done == Len(accepted)
Base == submitted - Len(fop.window)

\* The first session has not been given up.
Held == session = 0 \/ fop.state # "Initial"

LinkType ==
  /\ uplink \in Seq(Sending) /\ downlink \in Seq(Clcw)
  /\ farm \in [vr : Seqs, retransmit : BOOLEAN, session : Nat]
  /\ session \in 0..MaxSessions /\ submitted \in 0..MaxCmds
  /\ accepted \in Seq(Nat)

HeldInv ==
  /\ 0 <= Base /\ Base <= Done
  /\ \A i \in 1..Len(fop.window) : fop.window[i].spp = Base + i
  /\ acked = 1..Base
  /\ ReportsInv(downlink, farm.vr, Done - Base)
  /\ HasNew => WatchInv(watch.value, downlink, farm.vr, Done - Base)

SessionInv ==
  /\ \A i \in 1..Done : accepted[i] = i
  /\ Done = 0 => farm.vr = 0
  /\ Done <= submitted /\ submitted <= Done + WindowSize
  /\ Dist(farm.vr, fop.vs) = submitted - Done
  /\ acked \subseteq 1..Done
  /\ UplinkInv(uplink, submitted, Done, farm.vr)
  /\ session = 0 => /\ submitted = 0 /\ fop.state = "Initial"
                    /\ \A i \in 1..Len(uplink) : Kind(uplink[i]) = "BD"
  /\ Held => HeldInv

\* A later session is not covered: frames of the session before may still be
\* on their way.
LInv == session \in Nat /\ (session <= 1 => IInv /\ LinkType /\ SessionInv)

USE WindowAssumption, RetryAssumption, TimerAssumption, NoneAssumption
-----------------------------------------------------------------------------
(* Circular numbers                                                        *)

LEMMA DistType ==
  ASSUME NEW s \in Seqs, NEW t \in Seqs
  PROVE  Dist(s, t) \in 0..(SeqMod - 1) /\ (Dist(s, t) = 0 <=> s = t)
BY DEF Seqs, Dist

LEMMA SuccFirst ==
  ASSUME NEW s \in Seqs, NEW t \in Seqs, s # t
  PROVE  Dist(Succ(s), t) = Dist(s, t) - 1
BY DEF Seqs, Succ, Dist

\* s before t before u
LEMMA DistBetween ==
  ASSUME NEW s \in Seqs, NEW t \in Seqs, NEW u \in Seqs, Dist(t, u) <= Dist(s, u)
  PROVE  Dist(s, t) = Dist(s, u) - Dist(t, u)
BY DEF Seqs, Dist

LEMMA FollowsNext ==
  ASSUME NEW s \in Seqs, NEW t \in Seqs, NEW d \in Int, Follows(s, t, d),
         d > -(SeqMod - 1)
  PROVE  Follows(Succ(s), t, d - 1)
BY DEF Seqs, Succ, Dist, Follows

LEMMA FollowsEqual ==
  ASSUME NEW s \in Seqs, NEW t \in Seqs, NEW d \in Int, Follows(s, t, d)
  PROVE  s = t <=> d = 0
BY DEF Seqs, Dist, Follows

LEMMA FollowsBack ==
  ASSUME NEW s \in Seqs, NEW t \in Seqs, NEW d \in Nat, Dist(t, s) = d
  PROVE  Follows(s, t, -d)
BY DEF Seqs, Dist, Follows

LEMMA WindowIsSmall == WindowSize \in Nat \ {0} /\ WindowSize <= SeqMod - 1
OBVIOUS

\* What a CLCW may acknowledge: numbers in the window that precede V(R) as it
\* was x commands ago.
LEMMA BeforeReport ==
  ASSUME NEW s \in Seqs, NEW nr \in Seqs, NEW v \in Seqs, NEW u \in Seqs,
         SeqBefore(s, nr),
         Dist(s, u) \in 1..WindowSize,
         Dist(nr, v) + Dist(v, u) <= WindowSize
  PROVE  Dist(s, u) > Dist(nr, v) + Dist(v, u)
BY WindowIsSmall DEF Seqs, Dist, SeqBefore
-----------------------------------------------------------------------------
(* The two queues                                                          *)

LEMMA UplinkTail ==
  ASSUME NEW q \in Seq(Sending), q # <<>>, NEW n, NEW a, NEW v, UplinkInv(q, n, a, v)
  PROVE  UplinkInv(Tail(q), n, a, v)
<1>1. /\ Len(q) \in Nat /\ Len(Tail(q)) = Len(q) - 1
      /\ \A i \in 1..Len(Tail(q)) : Tail(q)[i] = q[i + 1] /\ i + 1 \in 1..Len(q)
  OBVIOUS
<1> DEFINE r == Tail(q)
<1> HIDE DEF r
<1>2. \A i \in 1..Len(r) : AdInv(r[i], n, a, v)
  BY <1>1 DEF UplinkInv, r
<1>3. ASSUME NEW i \in 1..Len(r), NEW j \in 1..Len(r),
             i < j, Kind(r[i]) = "AD", Kind(r[j]) = "AD"
      PROVE  CmdOf(r[i]) <= CmdOf(r[j]) - 1 + WindowSize
  <2>1. i + 1 < j + 1
    BY <1>1, <1>3 DEF r
  <2>2. QED
    BY <1>1, <1>3, <2>1 DEF UplinkInv, r
<1>4. ASSUME NEW j \in 1..Len(r), Kind(r[j]) = "BC"
      PROVE  a = 0 /\ \A i \in 1..j : Kind(r[i]) # "AD"
  <2>1. \A i \in 1..j : i \in 1..Len(r) /\ i + 1 \in 1..(j + 1)
    BY <1>1 DEF r
  <2>2. QED
    BY <1>1, <1>4, <2>1 DEF UplinkInv, r
<1>5. QED
  BY <1>2, <1>3, <1>4 DEF UplinkInv, r

LEMMA UplinkAppend ==
  ASSUME NEW q \in Seq(Sending), NEW u \in Sending, NEW n \in Nat, NEW a \in Nat, NEW v,
         UplinkInv(q, n, a, v), AdInv(u, n, a, v),
         Kind(u) = "AD" => CmdOf(u) \in Nat /\ n <= CmdOf(u) - 1 + WindowSize,
         Kind(u) = "BC" => a = 0 /\ \A i \in 1..Len(q) : Kind(q[i]) # "AD"
  PROVE  UplinkInv(Append(q, u), n, a, v)
<1> DEFINE r == Append(q, u)
<1>1. /\ Len(q) \in Nat /\ Len(r) = Len(q) + 1 /\ r[Len(r)] = u
      /\ \A i \in 1..Len(q) : r[i] = q[i]
      /\ \A i \in 1..Len(r) : i \in 1..Len(q) \/ i = Len(r)
  OBVIOUS
<1> HIDE DEF r
<1>2. \A i \in 1..Len(r) : AdInv(r[i], n, a, v)
  BY <1>1 DEF UplinkInv
<1>3. ASSUME NEW i \in 1..Len(r), NEW j \in 1..Len(r),
             i < j, Kind(r[i]) = "AD", Kind(r[j]) = "AD"
      PROVE  CmdOf(r[i]) <= CmdOf(r[j]) - 1 + WindowSize
  <2>1. i \in 1..Len(q) /\ r[i] = q[i]
    BY <1>1, <1>3
  <2>2. CASE j \in 1..Len(q)
    BY <1>1, <1>3, <2>1, <2>2 DEF UplinkInv
  <2>3. CASE j = Len(r)
    <3>1. CmdOf(q[i]) \in 1..n
      BY <1>3, <2>1 DEF UplinkInv, AdInv
    <3>2. QED
      BY <1>1, <1>3, <2>1, <2>3, <3>1, WindowIsSmall
  <2>4. QED
    BY <1>1, <2>2, <2>3
<1>4. ASSUME NEW j \in 1..Len(r), Kind(r[j]) = "BC"
      PROVE  a = 0 /\ \A i \in 1..j : Kind(r[i]) # "AD"
  <2>1. CASE j \in 1..Len(q)
    <3>1. \A i \in 1..j : i \in 1..Len(q) /\ r[i] = q[i]
      BY <1>1, <2>1
    <3>2. QED
      BY <1>1, <1>4, <2>1, <3>1 DEF UplinkInv
  <2>2. CASE j = Len(r)
    <3>1. \A i \in 1..j : i = j \/ (i \in 1..Len(q) /\ r[i] = q[i])
      BY <1>1, <2>2
    <3>2. QED
      BY <1>1, <1>4, <2>2, <3>1
  <2>3. QED
    BY <1>1, <2>1, <2>2
<1>5. QED
  BY <1>2, <1>3, <1>4 DEF UplinkInv, r

\* One more command accepted: every number in flight falls back by one place.
LEMMA UplinkAccept ==
  ASSUME NEW q \in Seq(Sending), q # <<>>, NEW n \in Nat, NEW a \in Nat, NEW v \in Seqs,
         UplinkInv(q, n, a, v), Kind(q[1]) = "AD", q[1].frame.seq = v
  PROVE  /\ CmdOf(q[1]) = a + 1 /\ a + 1 <= n
         /\ UplinkInv(Tail(q), n, a + 1, Succ(v))
<1> DEFINE r == Tail(q)
<1>1. /\ Len(q) \in Nat /\ Len(r) = Len(q) - 1 /\ 1 \in 1..Len(q)
      /\ \A i \in 1..Len(r) : r[i] = q[i + 1] /\ i + 1 \in 1..Len(q) /\ 1 < i + 1
  OBVIOUS
<1>2. UplinkInv(r, n, a, v)
  BY UplinkTail
<1> HIDE DEF r
<1>3. /\ CmdOf(q[1]) \in 1..n /\ Follows(v, v, CmdOf(q[1]) - 1 - a)
  BY <1>1 DEF UplinkInv, AdInv
<1>4. CmdOf(q[1]) = a + 1 /\ a + 1 <= n
  BY <1>3, FollowsEqual
<1>5. ASSUME NEW i \in 1..Len(r) PROVE AdInv(r[i], n, a + 1, Succ(v))
  <2>1. CASE Kind(r[i]) = "AD"
    <3>1. /\ CmdOf(r[i]) \in 1..n /\ Follows(v, r[i].frame.seq, CmdOf(r[i]) - 1 - a)
      BY <1>2, <2>1 DEF UplinkInv, AdInv
    <3>2. a + 1 <= CmdOf(r[i]) - 1 + WindowSize
      BY <1>1, <1>4, <2>1 DEF UplinkInv
    <3>3. r[i].frame.seq \in Seqs
      <4>a. q[i + 1] \in Sending
        BY <1>1
      <4>b. r[i] \in Sending
        BY <1>1, <4>a
      <4>1. r[i].frame \in TcFrame
        BY <4>b DEF Sending
      <4>2. r[i].frame \in AdFrame
        BY <2>1, <4>1 DEF TcFrame, Kind, BcFrame, BdFrame
      <4>3. QED
        BY <4>2 DEF AdFrame
    <3>4. CmdOf(r[i]) - 1 - a > -(SeqMod - 1)
      BY <3>1, <3>2, WindowIsSmall
    <3>5. Follows(Succ(v), r[i].frame.seq, (CmdOf(r[i]) - 1 - a) - 1)
      BY <3>1, <3>3, <3>4, FollowsNext
    <3>6. (CmdOf(r[i]) - 1 - a) - 1 = CmdOf(r[i]) - 1 - (a + 1)
      BY <3>1
    <3>7. QED
      BY <3>1, <3>2, <3>5, <3>6 DEF AdInv
  <2>2. CASE Kind(r[i]) # "AD"
    BY <2>2 DEF AdInv
  <2>3. QED
    BY <2>1, <2>2
<1>6. \A j \in 1..Len(r) : Kind(r[j]) # "BC"
  <2>1. ASSUME NEW j \in 1..Len(r), Kind(r[j]) = "BC" PROVE FALSE
    <3>1. j + 1 \in 1..Len(q) /\ Kind(q[j + 1]) = "BC" /\ 1 \in 1..(j + 1)
      BY <1>1, <2>1
    <3>2. Kind(q[1]) # "AD"
      BY <3>1 DEF UplinkInv
    <3>3. QED
      BY <3>2
  <2>2. QED
    BY <2>1
<1>7. QED
  BY <1>2, <1>4, <1>5, <1>6 DEF UplinkInv, r

LEMMA ReportsTail ==
  ASSUME NEW q \in Seq(Clcw), q # <<>>, NEW v, NEW max, ReportsInv(q, v, max)
  PROVE  ReportsInv(Tail(q), v, max) /\ WatchInv(q[1], Tail(q), v, max)
<1> DEFINE r == Tail(q)
<1>1. /\ Len(q) \in Nat /\ Len(r) = Len(q) - 1 /\ 1 \in 1..Len(q)
      /\ \A i \in 1..Len(r) : r[i] = q[i + 1] /\ i + 1 \in 1..Len(q) /\ 1 < i + 1
      /\ \A i, j \in 1..Len(r) : i < j => i + 1 < j + 1
  OBVIOUS
<1> HIDE DEF r
<1>2. QED
  BY <1>1 DEF ReportsInv, WatchInv, r

\* A new CLCW says V(R) as it is.
LEMMA ReportsAppend ==
  ASSUME NEW q \in Seq(Clcw), NEW c \in Clcw, NEW v \in Seqs, c.nr = v, NEW max \in Nat,
         ReportsInv(q, v, max)
  PROVE  /\ ReportsInv(Append(q, c), v, max)
         /\ \A w \in Clcw : WatchInv(w, q, v, max) => WatchInv(w, Append(q, c), v, max)
<1> DEFINE r == Append(q, c)
<1>1. /\ Len(q) \in Nat /\ Len(r) = Len(q) + 1 /\ r[Len(r)] = c /\ r \in Seq(Clcw)
      /\ \A i \in 1..Len(q) : r[i] = q[i]
      /\ \A i \in 1..Len(r) : i \in 1..Len(q) \/ i = Len(r)
  OBVIOUS
<1> HIDE DEF r
<1>2. Dist(c.nr, v) = 0
  BY DistType
<1>3. \A w \in Clcw : Dist(w.nr, v) >= 0
  BY DistType DEF Clcw
<1>4. \A i \in 1..Len(r) : Dist(r[i].nr, v) >= 0
  BY <1>1, <1>3, ElementOfSeq
<1>5. \A i \in 1..Len(r) : Dist(r[i].nr, v) <= max
  BY <1>1, <1>2 DEF ReportsInv
<1>6. ASSUME NEW i \in 1..Len(r), NEW j \in 1..Len(r), i < j
      PROVE  Dist(r[j].nr, v) <= Dist(r[i].nr, v)
  <2>1. i \in 1..Len(q)
    BY <1>1, <1>6
  <2>2. CASE j \in 1..Len(q)
    BY <1>1, <1>6, <2>1, <2>2 DEF ReportsInv
  <2>3. CASE j = Len(r)
    BY <1>1, <1>2, <1>4, <2>3
  <2>4. QED
    BY <1>1, <2>2, <2>3
<1>7. ASSUME NEW w \in Clcw, WatchInv(w, q, v, max) PROVE WatchInv(w, r, v, max)
  BY <1>1, <1>2, <1>3, <1>7 DEF WatchInv
<1>8. QED
  BY <1>5, <1>6, <1>7 DEF ReportsInv, r

\* Each CLCW in flight is one command older after one more was accepted.
LEMMA ReportsAccept ==
  ASSUME NEW q \in Seq(Clcw), NEW v \in Seqs, NEW max \in Nat, max < SeqMod - 1,
         ReportsInv(q, v, max)
  PROVE  /\ ReportsInv(q, Succ(v), max + 1)
         /\ \A w \in Clcw : WatchInv(w, q, v, max) => WatchInv(w, q, Succ(v), max + 1)
<1>1. \A w \in Clcw : Dist(w.nr, v) <= max => Dist(w.nr, Succ(v)) = Dist(w.nr, v) + 1
  BY SuccDist, DistType DEF Clcw
<1>2. ASSUME NEW i \in 1..Len(q)
      PROVE  /\ q[i] \in Clcw /\ Dist(q[i].nr, v) <= max
             /\ Dist(q[i].nr, Succ(v)) = Dist(q[i].nr, v) + 1
             /\ Dist(q[i].nr, v) \in Int
  <2>1. q[i] \in Clcw
    BY ElementOfSeq
  <2>2. QED
    BY <1>1, <2>1, DistType DEF ReportsInv, Clcw
<1>3. ReportsInv(q, Succ(v), max + 1)
  BY <1>2 DEF ReportsInv
<1>4. ASSUME NEW w \in Clcw, WatchInv(w, q, v, max)
      PROVE  WatchInv(w, q, Succ(v), max + 1)
  <2>1. Dist(w.nr, v) \in Int
    BY DistType DEF Clcw
  <2>2. QED
    BY <1>1, <1>2, <1>4, <2>1 DEF WatchInv
<1>5. QED
  BY <1>3, <1>4
-----------------------------------------------------------------------------
(* What a tick sends                                                       *)

\* A step of tick from e keeps V(S), sends the oldest unacknowledged frame or
\* nothing, and cannot leave the initial state.
Shape(e, r) ==
  /\ r.eng.vs = e.vs
  /\ r.frames = <<>> \/ (r.eng.window # <<>> /\ r.frames = <<Head(r.eng.window)>>)
  /\ ~r.return => r.frames = <<>>
  /\ e.state = "Initial" => r.eng.state = "Initial"

LEMMA RetryShape ==
  ASSUME NEW e \in Engine, e.state # "Initial", NEW s, NEW t
  PROVE  Shape(e, Retry(e, s, t))
<1>1. CASE e.count + 1 >= MaxRetransmit
  <2>1. Aborted(e).vs = e.vs
    BY DEF Aborted, Engine
  <2>2. QED
    BY <1>1, <2>1 DEF Retry, Return, Shape
<1>2. CASE ~(e.count + 1 >= MaxRetransmit)
  <2> DEFINE f == [e EXCEPT !.state = s, !.count = @ + 1, !.t1 = t]
  <2>1. f.vs = e.vs /\ f.window = e.window
    BY DEF Engine
  <2> HIDE DEF f
  <2>2. Shape(e, Return(f, Oldest(e)))
    BY <2>1 DEF Return, Shape, Oldest
  <2>3. QED
    BY <1>2, <2>2 DEF Retry, f
<1>3. QED
  BY <1>1, <1>2

LEMMA OnClcwShape ==
  ASSUME NEW e, EngInv(e), NEW c \in Clcw
  PROVE  Shape(e, OnClcw(e, c))
<1> DEFINE f == [e EXCEPT !.age = 0]
           s == Slide(f, c.nr)
<1>1. s \in Engine /\ s.state = e.state /\ s.vs = e.vs
  <2>1. EngInv(f) /\ f.state = e.state /\ f.vs = e.vs /\ c.nr \in Seqs
    BY AgeReset DEF Clcw
  <2>2. QED
    BY <2>1, SlideInv DEF EngInv
<1> HIDE DEF s
<1>2. Shape(e, Continue(s))
  BY <1>1 DEF Continue, Shape
<1>3. ASSUME NEW t, s.state # "Initial" PROVE Shape(e, Retry(s, t, s.t1))
  <2>1. Shape(s, Retry(s, t, s.t1))
    BY <1>1, <1>3, RetryShape
  <2>2. QED
    BY <1>1, <1>3, <2>1 DEF Shape
<1>4. ASSUME NEW ct, s.state # "Initial"
      PROVE  Shape(e, Continue([s EXCEPT !.state = "Active", !.count = ct]))
  <2> DEFINE g == [s EXCEPT !.state = "Active", !.count = ct]
  <2>1. g.vs = s.vs
    BY <1>1 DEF Engine
  <2> HIDE DEF g
  <2>2. Shape(e, Continue(g))
    BY <1>1, <1>4, <2>1 DEF Continue, Shape
  <2>3. QED
    BY <2>2 DEF g
<1>5. QED
  BY <1>2, <1>3, <1>4 DEF OnClcw, s

LEMMA OnTimerShape ==
  ASSUME NEW e \in Engine
  PROVE  Shape(e, OnTimer(e))
BY RetryShape DEF OnTimer, Continue, Shape

LEMMA OnStaleShape ==
  ASSUME NEW e \in Engine
  PROVE  Shape(e, OnStale(e))
<1> DEFINE f == [e EXCEPT !.state = "RetransmitWithWait"]
<1>1. f.vs = e.vs
  BY DEF Engine
<1>2. QED
  BY <1>1 DEF OnStale, Continue, Shape

LEMMA TickShape ==
  ASSUME IInv
  PROVE  Shape(fop, TickResult)
<1> DEFINE r1 == IF HasNew THEN OnClcw(fop, watch.value) ELSE Continue(fop)
           r2 == Then(r1, OnTimer)
<1>1. HasNew => watch.value \in Clcw
  BY DEF IInv, TypeOK, HasNew
<1>2. Shape(fop, Continue(fop))
  BY DEF Continue, Shape
<1>3. Shape(fop, r1) /\ ResultInv(r1)
  BY <1>1, <1>2, OnClcwShape, OnClcwInv, ContinueInv DEF IInv
<1>4. Shape(fop, r2) /\ ResultInv(r2)
  <2> HIDE DEF r1
  <2>1. CASE r1.return
    BY <1>3, <2>1 DEF Then
  <2>2. CASE ~r1.return
    <3>1. EngInv(r1.eng) /\ r1.eng \in Engine
      BY <1>3 DEF ResultInv, EngInv
    <3>2. Shape(r1.eng, OnTimer(r1.eng)) /\ ResultInv(OnTimer(r1.eng))
      BY <3>1, OnTimerShape, OnTimerInv
    <3>3. QED
      BY <1>3, <2>2, <3>2 DEF Then, Shape
  <2>3. QED
    BY <2>1, <2>2
<1>5. Shape(fop, Then(r2, OnStale))
  <2> HIDE DEF r2
  <2>1. CASE r2.return
    BY <1>4, <2>1 DEF Then
  <2>2. CASE ~r2.return
    <3>1. r2.eng \in Engine
      BY <1>4 DEF ResultInv, EngInv
    <3>2. Shape(r2.eng, OnStale(r2.eng))
      BY <3>1, OnStaleShape
    <3>3. QED
      BY <1>4, <2>2, <3>2 DEF Then, Shape
  <2>3. QED
    BY <2>1, <2>2
<1>6. QED
  BY <1>5 DEF TickResult
-----------------------------------------------------------------------------
(* The actions                                                             *)

LEMMA Facts ==
  ASSUME IInv, LinkType
  PROVE  /\ fop \in Engine /\ fop.window \in Seq(AdFrame) /\ fop.vs \in Seqs
         /\ Len(fop.window) \in 0..WindowSize
         /\ farm.vr \in Seqs
         /\ submitted \in Nat /\ Done \in Nat /\ session \in Nat /\ Base \in Int
BY LenProperties, LinkAssumption
   DEF IInv, EngInv, Engine, Numbered, LinkType, Done, Base

LEMMA TransmitNothing ==
  ASSUME LinkType, out' = <<>>, Transmit
  PROVE  uplink' = uplink
<1>1. Uplinked(out') = <<>>
  BY DEF Uplinked
<1>2. uplink \o <<>> = uplink
  BY DEF LinkType
<1>3. QED
  BY <1>1, <1>2 DEF Transmit

LEMMA TransmitOne ==
  ASSUME LinkType, NEW f \in TcFrame, out' = <<f>>, Transmit, session' \in Nat
  PROVE  \E u \in Sending : u.frame = f /\ uplink' = Append(uplink, u)
<1> DEFINE u == [frame |-> f, session |-> IF f.type = "BC" THEN session' ELSE 0]
<1>1. u \in Sending
  BY DEF Sending
<1>2. Uplinked(out') = <<u>>
  BY DEF Uplinked
<1> HIDE DEF u
<1>3. uplink \o <<u>> = Append(uplink, u)
  BY <1>1 DEF LinkType
<1>4. u.frame = f
  BY DEF u
<1>5. QED
  BY <1>1, <1>2, <1>3, <1>4 DEF Transmit

\* Every action of the loop is one of the engine's, or leaves it alone.
LEMMA LinkEngineInv ==
  ASSUME IInv, LinkType, [LinkNext]_linkVars
  PROVE  IInv'
<1>1. CASE LinkInitialize
  BY <1>1, NextInv DEF LinkInitialize, Next
<1>2. CASE LinkSubmit
  <2>1. submitted' \in Spp
    BY <1>2, LinkAssumption DEF LinkSubmit, LinkType
  <2>2. QED
    BY <1>2, <2>1, NextInv DEF LinkSubmit, Next
<1>3. CASE LinkTick
  BY <1>3, NextInv DEF LinkTick, Next
<1>4. CASE LinkEmergency
  <2>1. MaxCmds \in Spp
    BY LinkAssumption
  <2>2. QED
    BY <1>4, <2>1, NextInv DEF LinkEmergency, Next
<1>5. CASE ClcwArrives
  <2>1. Head(downlink) \in Clcw
    BY <1>5 DEF ClcwArrives, LinkType
  <2>2. QED
    BY <1>5, <2>1, NextInv DEF ClcwArrives, Next
<1>6. CASE DownlinkEnds
  BY <1>6, NextInv DEF DownlinkEnds, Next
<1>7. CASE LinkElapse
  BY <1>7, NextInv DEF LinkElapse, Next
<1>8. CASE UNCHANGED vars
  BY <1>8, NextInv
<1>9. QED
  BY <1>1, <1>2, <1>3, <1>4, <1>5, <1>6, <1>7, <1>8
     DEF LinkNext, linkVars, FarmReceive, FarmReport, LoseFrame, LoseClcw, vars
LEMMA StartStep ==
  ASSUME LInv, IInv', session' <= 1, LinkInitialize
  PROVE  LinkType' /\ SessionInv'
<1>1. session = 0 /\ session' = 1
  BY DEF LInv, LinkType, LinkInitialize
<1>2. SessionInv /\ LinkType /\ IInv /\ HeldInv
  BY <1>1 DEF LInv, SessionInv, Held
<1>3. /\ fop.window \in Seq(AdFrame) /\ submitted = 0 /\ Done = 0 /\ farm.vr = 0
      /\ Base = 0 /\ fop.window = <<>>
  <2>1. submitted = 0 /\ fop.state = "Initial"
    BY <1>1, <1>2 DEF SessionInv
  <2>2. fop.window = <<>> /\ Done = 0
    BY <1>2, <2>1, Facts DEF IInv, EngInv, Clean, SessionInv
  <2>3. Len(fop.window) = 0 /\ fop.window \in Seq(AdFrame)
    BY <1>2, <2>2, Facts
  <2>a. Base = 0
    BY <2>1, <2>3 DEF Base
  <2>4. Base = 0 /\ farm.vr = 0
    BY <1>2, <2>2, <2>a DEF SessionInv
  <2>5. QED
    BY <2>1, <2>2, <2>3, <2>4
<1>4. /\ fop'.state = "Initializing" /\ fop'.vs = 0 /\ fop'.window = <<>>
      /\ out' = <<BcFrame>> /\ watch' = watch
  BY <1>2, Facts DEF LinkInitialize, Initialize, Engine
<1>5. /\ downlink' = downlink /\ farm' = farm /\ submitted' = submitted
      /\ accepted' = accepted /\ acked' = acked /\ Transmit
  BY DEF LinkInitialize
<1>6. PICK u \in Sending : u.frame = BcFrame /\ uplink' = Append(uplink, u)
  BY <1>1, <1>2, <1>4, <1>5, TransmitOne DEF TcFrame
<1>7. LinkType'
  <2>1. uplink' \in Seq(Sending)
    BY <1>2, <1>6 DEF LinkType
  <2>2. session' \in 0..MaxSessions
    BY <1>1, LinkAssumption DEF LinkInitialize
  <2>3. QED
    BY <1>2, <1>5, <2>1, <2>2 DEF LinkType
<1>8. UplinkInv(uplink', submitted', Len(accepted'), farm'.vr)
  <2>1. Kind(u) = "BC"
    BY <1>6 DEF Kind, BcFrame
  <2>2. UplinkInv(uplink, submitted, Done, farm.vr) /\ uplink \in Seq(Sending)
    BY <1>2 DEF SessionInv, LinkType
  <2>3. \A i \in 1..Len(uplink) : Kind(uplink[i]) # "AD"
    BY <1>1, <1>2 DEF SessionInv
  <2>4. AdInv(u, submitted, Done, farm.vr)
    BY <2>1 DEF AdInv
  <2>5. UplinkInv(Append(uplink, u), submitted, Done, farm.vr)
    BY <1>2, <1>3, <2>1, <2>2, <2>3, <2>4, Facts, UplinkAppend
  <2>6. QED
    BY <1>5, <1>6, <2>5 DEF Done
<1>9. Dist(farm'.vr, fop'.vs) = submitted' - Len(accepted')
  BY <1>3, <1>4, <1>5 DEF Dist, Done
<1>10. HeldInv'
  BY <1>2, <1>3, <1>4, <1>5 DEF HeldInv, Base, Done, HasNew
<1>11. QED
  BY <1>1, <1>2, <1>5, <1>7, <1>8, <1>9, <1>10 DEF SessionInv, Done

LEMMA SubmitStep ==
  ASSUME LInv, IInv', session' <= 1, LinkSubmit
  PROVE  LinkType' /\ SessionInv'
<1> DEFINE f == [type |-> "AD", seq |-> fop.vs, spp |-> submitted + 1]
           w == Append(fop.window, f)
<1>1. /\ session' = session /\ SessionInv /\ LinkType /\ IInv
      /\ fop.state = "Active" /\ session # 0 /\ Held /\ HeldInv
  BY DEF LInv, LinkSubmit, Submit, SessionInv, Held
<1>2. /\ submitted' = submitted + 1 /\ submitted' \in Spp /\ submitted' \in 0..MaxCmds
      /\ downlink' = downlink /\ farm' = farm /\ accepted' = accepted
      /\ acked' = acked /\ watch' = watch /\ Transmit /\ out' = <<f>>
      /\ Len(fop.window) < WindowSize
  BY SMTT(30), <1>1, LinkAssumption DEF LinkSubmit, Submit, LinkType
<1>3. /\ f \in AdFrame /\ f.type = "AD" /\ f.seq = fop.vs /\ f.spp = submitted + 1
  BY <1>1, <1>2, Facts DEF AdFrame
<1>4. fop'.state = "Active" /\ fop'.vs = Succ(fop.vs) /\ fop'.window = w
  BY <1>1, <1>2, Facts DEF LinkSubmit, Submit, Engine
<1> HIDE DEF f
<1>5. /\ Len(w) = Len(fop.window) + 1 /\ w[Len(w)] = f
      /\ \A i \in 1..Len(fop.window) : w[i] = fop.window[i]
      /\ \A i \in 1..Len(w) : i \in 1..Len(fop.window) \/ i = Len(w)
  BY <1>1, <1>3, Facts
<1> HIDE DEF w
<1>6. PICK u \in Sending : u.frame = f /\ uplink' = Append(uplink, u)
  <2>1. f \in TcFrame
    BY <1>3 DEF TcFrame
  <2>2. session' \in Nat
    BY <1>1, Facts
  <2>3. QED
    BY <1>1, <1>2, <2>1, <2>2, TransmitOne
<1>7. LinkType'
  <2>1. uplink' \in Seq(Sending)
    BY <1>1, <1>6 DEF LinkType
  <2>2. QED
    BY <1>1, <1>2, <2>1 DEF LinkType
<1>8. Base' = Base /\ submitted' - Base = Len(w)
  BY <1>1, <1>2, <1>4, <1>5, Facts DEF Base
<1>9. /\ Done' = Done /\ Done <= submitted /\ Base <= Done
      /\ submitted - Base = Len(fop.window) /\ submitted + 1 <= Done + WindowSize
  BY <1>1, <1>2, Facts DEF SessionInv, HeldInv, Base, Done
<1>10. Dist(farm.vr, Succ(fop.vs)) = submitted + 1 - Done
  <2>1. Dist(farm.vr, fop.vs) = submitted - Done
    BY <1>1 DEF SessionInv
  <2>2. Dist(farm.vr, fop.vs) < SeqMod - 1
    BY <1>1, <1>2, <1>9, <2>1, Facts, WindowIsSmall
  <2>3. QED
    BY <1>1, <2>1, <2>2, Facts, SuccDist
<1>11. UplinkInv(uplink', submitted', Len(accepted'), farm'.vr)
  <2>1. UplinkInv(uplink, submitted, Done, farm.vr) /\ uplink \in Seq(Sending)
    BY <1>1 DEF SessionInv, LinkType
  <2>2. UplinkInv(uplink, submitted + 1, Done, farm.vr)
    <3>1. 1..submitted \subseteq 1..(submitted + 1)
      BY <1>1, Facts
    <3>2. QED
      BY <2>1, <3>1 DEF UplinkInv, AdInv
  <2>3. Kind(u) = "AD" /\ CmdOf(u) = submitted + 1 /\ u.frame.seq = fop.vs
    BY <1>3, <1>6 DEF Kind, CmdOf
  <2>4. Dist(farm.vr, fop.vs) = submitted - Done
    BY <1>1 DEF SessionInv
  <2>5. AdInv(u, submitted + 1, Done, farm.vr)
    BY SMTT(30), <1>1, <1>9, <2>3, <2>4, Facts, WindowIsSmall DEF AdInv, Follows
  <2>6. UplinkInv(Append(uplink, u), submitted + 1, Done, farm.vr)
    BY <1>1, <2>1, <2>2, <2>3, <2>5, Facts, WindowIsSmall, UplinkAppend
  <2>7. QED
    BY <1>2, <1>6, <2>6 DEF Done
<1>12. HeldInv'
  <2>a. \A i \in 1..Len(fop.window) : w[i].spp = Base + i
    BY <1>1, <1>5 DEF HeldInv
  <2>b. w[Len(w)].spp = Base + Len(w)
    BY <1>1, <1>2, <1>3, <1>5, <1>8, Facts
  <2>1. \A i \in 1..Len(w) : w[i].spp = Base + i
    BY <1>5, <2>a, <2>b
  <2>2. QED
    BY <1>1, <1>2, <1>4, <1>8, <1>9, <2>1 DEF HeldInv, HasNew
<1>13. QED
  BY <1>1, <1>2, <1>4, <1>7, <1>9, <1>10, <1>11, <1>12, Facts DEF SessionInv, Done
\* The acknowledgement loop stops before the first command that was not
\* accepted when the CLCW was made.
LEMMA SlideBound ==
  ASSUME LInv, session <= 1, Held, NEW k \in 1..Len(fop.window), HasNew,
         SeqBefore(fop.window[k].seq, watch.value.nr)
  PROVE  /\ watch.value \in Clcw
         /\ Base + k <= Done - Dist(watch.value.nr, farm.vr)
<1>1. IInv /\ LinkType /\ SessionInv /\ HeldInv
  BY DEF LInv, SessionInv
<1>2. watch.value \in Clcw /\ watch.value.nr \in Seqs
  BY <1>1 DEF IInv, TypeOK, HasNew, Clcw
<1> DEFINE s == fop.window[k].seq
           nr == watch.value.nr
           v == farm.vr
           u == fop.vs
<1>3. s \in Seqs
  <2>1. fop.window[k] \in AdFrame
    BY <1>1, Facts
  <2>2. QED
    BY <2>1 DEF AdFrame
<1>4. Dist(s, u) = Len(fop.window) - k + 1 /\ Dist(s, u) \in 1..WindowSize
  BY SMTT(30), <1>1, Facts DEF IInv, EngInv, Numbered
<1>5. Dist(v, u) = submitted - Done /\ submitted - Base = Len(fop.window)
  BY <1>1, Facts DEF SessionInv, Base
<1>6. Dist(nr, v) <= Done - Base /\ Dist(nr, v) \in Nat
  BY <1>1, <1>2, Facts, DistType DEF HeldInv, WatchInv
<1>7. Dist(nr, v) + Dist(v, u) <= WindowSize
  BY <1>1, <1>5, <1>6, Facts
<1>8. v \in Seqs /\ u \in Seqs /\ nr \in Seqs /\ SeqBefore(s, nr)
  BY <1>1, <1>2, Facts
<1>9. Dist(s, u) > Dist(nr, v) + Dist(v, u)
  <2> HIDE DEF s, nr, v, u
  <2>1. QED
    BY <1>3, <1>4, <1>7, <1>8, BeforeReport
<1>10. QED
  BY SMTT(30), <1>1, <1>2, <1>4, <1>5, <1>6, <1>9, Facts

\* What a tick does in a session that goes on: the first k commands of the
\* window are confirmed, and all of them were accepted.
LEMMA TickSlides ==
  ASSUME LInv, IInv', session <= 1, LinkTick, fop'.state # "Initial"
  PROVE  /\ Held /\ HeldInv
         /\ \E k \in 0..Len(fop.window) :
              /\ fop'.window = SubSeq(fop.window, k + 1, Len(fop.window))
              /\ Base + k <= Done
              /\ k > 0 => HasNew /\ Base + k <= Done - Dist(watch.value.nr, farm.vr)
<1>1. IInv /\ LinkType /\ SessionInv
  BY DEF LInv
<1>2. fop' = TickResult.eng
  BY DEF LinkTick, Tick
<1>3. fop.state # "Initial"
  BY <1>1, <1>2, TickShape DEF Shape
<1>4. Held /\ HeldInv
  BY <1>1, <1>3 DEF Held, SessionInv
<1>5. SlidWindow(fop')
  BY <1>1, <1>2, TickReason DEF ResultReason, GaveUp, Slid, SlidWindow
<1>6. PICK k \in 0..Len(fop.window) :
        /\ fop'.window = SubSeq(fop.window, k + 1, Len(fop.window))
        /\ \A i \in 1..k : HasNew /\ SeqBefore(fop.window[i].seq, watch.value.nr)
  BY <1>5 DEF SlidWindow
<1>7. CASE k = 0
  <2>1. Base + k <= Done
    BY <1>1, <1>4, <1>7, Facts DEF HeldInv
  <2>2. QED
    BY <1>4, <1>6, <1>7, <2>1
<1>8. CASE k > 0
  <2>1. k \in 1..Len(fop.window) /\ k \in 1..k
    BY <1>1, <1>6, <1>8, Facts
  <2>2. HasNew /\ SeqBefore(fop.window[k].seq, watch.value.nr)
    BY <1>6, <2>1
  <2>3. watch.value \in Clcw /\ Base + k <= Done - Dist(watch.value.nr, farm.vr)
    BY <1>4, <2>1, <2>2, SlideBound
  <2>4. Dist(watch.value.nr, farm.vr) \in Nat
    BY <1>1, <2>3, Facts, DistType DEF Clcw
  <2>5. Base + k <= Done
    BY <1>1, <2>1, <2>3, <2>4, Facts
  <2>6. QED
    BY <1>4, <1>6, <2>2, <2>3, <2>5
<1>9. QED
  BY SMTT(30), <1>1, <1>6, <1>7, <1>8, Facts

LEMMA TickStep ==
  ASSUME LInv, IInv', session' <= 1, LinkTick
  PROVE  LinkType' /\ SessionInv'
<1>1. /\ session' = session /\ SessionInv /\ LinkType /\ IInv
      /\ downlink' = downlink /\ farm' = farm /\ accepted' = accepted
      /\ submitted' = submitted /\ Transmit /\ Done' = Done /\ ~HasNew'
      /\ fop' = TickResult.eng /\ out' = TickResult.frames
  <2>1. watch'.changed = FALSE
    BY DEF LinkTick, Tick, LInv, IInv, TypeOK
  <2>2. QED
    BY <2>1 DEF LInv, LinkTick, Tick, Done, HasNew
<1>2. /\ fop'.vs = fop.vs
      /\ out' = <<>> \/ (fop'.window # <<>> /\ out' = <<Head(fop'.window)>>)
      /\ fop.state = "Initial" => fop'.state = "Initial"
  BY <1>1, TickShape DEF Shape
<1>3. CASE fop'.state = "Initial"
  <2>1. fop'.window = <<>> /\ uplink' = uplink /\ acked' = acked
    <3>1. fop'.window = <<>>
      BY <1>3 DEF IInv, EngInv, Clean
    <3>2. QED
      BY <1>1, <1>2, <1>3, <3>1, TransmitNothing DEF LinkTick
  <2>2. LinkType'
    BY <1>1, <2>1 DEF LinkType
  <2>3. ASSUME Held' PROVE HeldInv'
    <3>1. session = 0 /\ Held /\ HeldInv /\ submitted = 0 /\ fop.state = "Initial"
      BY <1>1, <1>3, <2>3 DEF Held, SessionInv
    <3>2. fop.window = <<>>
      BY <1>1, <3>1 DEF IInv, EngInv, Clean
    <3>3. Base' = Base
      BY <1>1, <2>1, <3>2 DEF Base
    <3>4. QED
      BY <1>1, <2>1, <3>1, <3>2, <3>3 DEF HeldInv
  <2>4. QED
    BY <1>1, <1>2, <1>3, <2>1, <2>2, <2>3 DEF SessionInv, Done
<1>4. CASE fop'.state # "Initial"
  <2>1. Held /\ HeldInv /\ session # 0
    BY <1>1, <1>2, <1>4, TickSlides DEF SessionInv
  <2>2. PICK k \in 0..Len(fop.window) :
           /\ fop'.window = SubSeq(fop.window, k + 1, Len(fop.window))
           /\ Base + k <= Done
           /\ k > 0 => HasNew /\ Base + k <= Done - Dist(watch.value.nr, farm.vr)
    BY <1>1, <1>4, TickSlides
  <2> DEFINE w == fop'.window
             n == Len(fop.window)
  <2>3. /\ w \in Seq(AdFrame) /\ Len(w) = n - k /\ n \in Nat /\ n <= WindowSize
        /\ k \in Nat /\ k <= n
        /\ \A i \in 1..Len(w) : w[i] = fop.window[i + k] /\ i + k \in 1..n
    <3>1. fop.window \in Seq(AdFrame) /\ n \in Nat /\ n <= WindowSize /\ k \in 0..n
      BY <1>1, <2>2, Facts
    <3>2. /\ w \in Seq(AdFrame) /\ Len(w) = n - k
          /\ \A i \in 1..Len(w) : w[i] = fop.window[i + k] /\ i + k \in 1..n
      BY <2>2, <3>1, SuffixIs
    <3> HIDE DEF n, w
    <3>3. QED
      BY <3>1, <3>2
  <2> HIDE DEF w, n
  <2>4. /\ Base' = Base + k /\ submitted = Base + n
        /\ Base \in Int /\ Done \in Nat /\ 0 <= Base /\ Base + k <= Done
    <3>1. Base' = submitted - Len(w) /\ Base = submitted - n
      BY <1>1 DEF Base, w, n
    <3>2. submitted \in Nat /\ Done \in Nat /\ 0 <= Base
      BY <1>1, <2>1, Facts DEF HeldInv
    <3>3. QED
      BY <2>2, <2>3, <3>1, <3>2
  <2>5. \A i \in 1..Len(w) : w[i].spp = Base + k + i
    <3>1. \A i \in 1..n : fop.window[i].spp = Base + i
      BY <2>1 DEF HeldInv, n
    <3>2. ASSUME NEW i \in 1..Len(w) PROVE w[i].spp = Base + k + i
      <4>1. i + k \in 1..n /\ w[i].spp = Base + (i + k)
        BY <2>3, <3>1
      <4>2. QED
        BY <2>3, <2>4, <4>1
    <3>3. QED
      BY <3>2
  <2>6. acked' = 1..(Base + k)
    <3>1. acked = 1..Base /\ \A i \in 1..n : fop.window[i].spp = Base + i
      BY <2>1 DEF HeldInv, n
    <3>2. WindowCmds(fop) = (Base + 1)..(Base + n)
      <4>1. \A c \in (Base + 1)..(Base + n) : c - Base \in 1..n /\ c = Base + (c - Base)
        BY <2>3, <2>4
      <4>2. \A i \in 1..n : Base + i \in (Base + 1)..(Base + n)
        BY <2>3, <2>4
      <4>3. QED
        BY SMTT(30), <3>1, <4>1, <4>2 DEF WindowCmds, n
    <3>3. WindowCmds(fop') = (Base + k + 1)..(Base + n)
      <4>1. \A c \in (Base + k + 1)..(Base + n) :
              c - (Base + k) \in 1..Len(w) /\ c = Base + k + (c - (Base + k))
        BY <2>3, <2>4
      <4>2. \A i \in 1..Len(w) : Base + k + i \in (Base + k + 1)..(Base + n)
        BY <2>3, <2>4
      <4>3. QED
        BY <2>5, <4>1, <4>2 DEF WindowCmds, w
    <3>4. acked' = acked \cup (WindowCmds(fop) \ WindowCmds(fop'))
      BY <1>4 DEF LinkTick
    <3>5. QED
      BY <2>3, <2>4, <3>1, <3>2, <3>3, <3>4
  <2>7. LinkType' /\ UplinkInv(uplink', submitted', Len(accepted'), farm'.vr)
    <3>1. UplinkInv(uplink, submitted, Done, farm.vr) /\ uplink \in Seq(Sending)
      BY <1>1 DEF SessionInv, LinkType
    <3>2. CASE out' = <<>>
      <4>1. uplink' = uplink
        BY <1>1, <3>2, TransmitNothing
      <4>2. QED
        BY <1>1, <3>1, <4>1 DEF LinkType, Done
    <3>3. CASE w # <<>> /\ out' = <<w[1]>>
      <4>1. 1 \in 1..Len(w) /\ w[1] \in AdFrame
        BY <2>3, <3>3, EmptySeq
      <4>2. /\ w[1].type = "AD" /\ w[1] \in TcFrame /\ w[1].seq \in Seqs
            /\ w[1].spp = Base + k + 1
        BY <2>5, <4>1 DEF AdFrame, TcFrame
      <4>3. PICK u \in Sending : u.frame = w[1] /\ uplink' = Append(uplink, u)
        BY <1>1, <3>3, <4>2, Facts, TransmitOne
      <4>4. Kind(u) = "AD" /\ CmdOf(u) = Base + k + 1 /\ u.frame.seq = w[1].seq
        BY <4>2, <4>3 DEF Kind, CmdOf
      <4>5. Dist(w[1].seq, fop.vs) = n - k
        <5>1. Dist(w[1].seq, fop'.vs) = Len(w) - 1 + 1
          BY <4>1 DEF IInv, EngInv, Numbered, w
        <5>2. QED
          BY <1>2, <2>3, <5>1
      <4>6. Dist(farm.vr, fop.vs) = Base + n - Done
        BY <1>1, <2>3, <2>4 DEF SessionInv
      <4>7. Dist(w[1].seq, farm.vr) = Done - (Base + k)
        <5>1. Dist(farm.vr, fop.vs) <= Dist(w[1].seq, fop.vs)
          BY <2>3, <2>4, <4>5, <4>6
        <5>2. farm.vr \in Seqs /\ fop.vs \in Seqs
          BY <1>1, Facts
        <5>3. Dist(w[1].seq, farm.vr) = Dist(w[1].seq, fop.vs) - Dist(farm.vr, fop.vs)
          BY <4>2, <5>1, <5>2, DistBetween
        <5>4. QED
          BY <2>3, <2>4, <4>5, <4>6, <5>3
      <4>8. Follows(farm.vr, w[1].seq, Base + k - Done)
        <5>1. farm.vr \in Seqs /\ Done - (Base + k) \in Nat
          BY <1>1, <2>3, <2>4, Facts
        <5>2. Follows(farm.vr, w[1].seq, -(Done - (Base + k)))
          BY <4>2, <4>7, <5>1, FollowsBack
        <5>3. -(Done - (Base + k)) = Base + k - Done
          BY <2>3, <2>4
        <5>4. QED
          BY <5>2, <5>3
      <4>9. /\ CmdOf(u) \in 1..submitted /\ Done <= CmdOf(u) - 1 + WindowSize
            /\ submitted <= CmdOf(u) - 1 + WindowSize /\ CmdOf(u) - 1 - Done = Base + k - Done
        <5>1. Done <= submitted /\ 1 <= n - k
          BY <1>1, <2>3, <4>1 DEF SessionInv
        <5>2. QED
          BY <2>3, <2>4, <4>4, <5>1, WindowIsSmall
      <4>10. AdInv(u, submitted, Done, farm.vr)
        BY <4>4, <4>8, <4>9 DEF AdInv
      <4>11. UplinkInv(Append(uplink, u), submitted, Done, farm.vr)
        BY SMTT(30), <1>1, <3>1, <4>4, <4>9, <4>10, Facts, UplinkAppend
      <4>12. LinkType'
        <5>1. uplink' \in Seq(Sending)
          BY <3>1, <4>3
        <5>2. QED
          BY <1>1, <5>1 DEF LinkType
      <4>13. QED
        BY <1>1, <4>3, <4>11, <4>12 DEF Done
    <3>4. QED
      BY <1>2, <2>3, <3>2, <3>3 DEF w
  <2>8. HeldInv'
    <3>1. \A i \in 1..Len(downlink) : Dist(downlink[i].nr, farm.vr) <= Done - (Base + k)
      <4>1. CASE k = 0
        BY <2>1, <2>4, <4>1 DEF HeldInv, ReportsInv
      <4>2. CASE k > 0
        <5>1. /\ HasNew /\ Base + k <= Done - Dist(watch.value.nr, farm.vr)
              /\ WatchInv(watch.value, downlink, farm.vr, Done - Base)
          BY <2>1, <2>2, <4>2 DEF HeldInv
        <5>2. watch.value.nr \in Seqs
          BY <1>1, <5>1 DEF IInv, TypeOK, HasNew, Clcw
        <5>3. ASSUME NEW i \in 1..Len(downlink)
              PROVE  Dist(downlink[i].nr, farm.vr) <= Done - (Base + k)
          <6>a. downlink \in Seq(Clcw) /\ farm.vr \in Seqs
            BY <1>1, Facts DEF LinkType
          <6>1. downlink[i].nr \in Seqs /\ farm.vr \in Seqs
            <7>1. downlink[i] \in Clcw
              BY <6>a
            <7>2. QED
              BY <6>a, <7>1 DEF Clcw
          <6>2. Dist(downlink[i].nr, farm.vr) \in Int /\ Dist(watch.value.nr, farm.vr) \in Int
            BY <5>2, <6>1, DistType
          <6>3. Dist(downlink[i].nr, farm.vr) <= Dist(watch.value.nr, farm.vr)
            BY <5>1 DEF WatchInv
          <6>4. QED
            BY <2>3, <2>4, <5>1, <6>2, <6>3
        <5>4. QED
          BY <5>3
      <4>3. QED
        BY <2>3, <4>1, <4>2
    <3>2. ReportsInv(downlink, farm.vr, Done - (Base + k))
      BY <2>1, <3>1 DEF HeldInv, ReportsInv
    <3>3. Base' = Base + k /\ 0 <= Base' /\ Base' <= Done'
      BY <1>1, <2>3, <2>4
    <3>4. \A i \in 1..Len(fop'.window) : fop'.window[i].spp = Base' + i
      BY <2>5, <3>3 DEF w
    <3>5. acked' = 1..Base'
      BY <2>6, <3>3
    <3>6. ReportsInv(downlink', farm'.vr, Done' - Base')
      BY <1>1, <3>2, <3>3
    <3>7. QED
      BY <1>1, <3>3, <3>4, <3>5, <3>6 DEF HeldInv
  <2>9. acked' \subseteq 1..Done
    BY <2>3, <2>4, <2>6
  <2>10. QED
    BY <1>1, <1>2, <2>1, <2>7, <2>8, <2>9 DEF SessionInv, Done
<1>5. QED
  BY <1>3, <1>4
LEMMA EmergencyStep ==
  ASSUME LInv, IInv', session' <= 1, LinkEmergency
  PROVE  LinkType' /\ SessionInv'
<1>1. /\ session' = session /\ SessionInv /\ LinkType /\ IInv
      /\ fop' = fop /\ watch' = watch /\ downlink' = downlink /\ farm' = farm
      /\ submitted' = submitted /\ accepted' = accepted /\ acked' = acked
      /\ Transmit /\ out' = <<BdFrame(MaxCmds)>>
  BY DEF LInv, LinkEmergency, EmergencyBd
<1>2. BdFrame(MaxCmds) \in TcFrame
  BY LinkAssumption DEF TcFrame
<1>3. PICK u \in Sending : u.frame = BdFrame(MaxCmds) /\ uplink' = Append(uplink, u)
  BY <1>1, <1>2, Facts, TransmitOne
<1>4. Kind(u) = "BD" /\ uplink \in Seq(Sending)
  BY <1>1, <1>3 DEF Kind, BdFrame, LinkType
<1>5. UplinkInv(Append(uplink, u), submitted, Done, farm.vr)
  BY <1>1, <1>4, Facts, UplinkAppend DEF SessionInv, AdInv
<1>6. session = 0 => \A i \in 1..Len(uplink') : Kind(uplink'[i]) = "BD"
  <2>1. \A i \in 1..Len(Append(uplink, u)) :
          \/ i \in 1..Len(uplink) /\ Append(uplink, u)[i] = uplink[i]
          \/ Append(uplink, u)[i] = u
    BY <1>4
  <2>2. QED
    BY <1>1, <1>3, <1>4, <2>1 DEF SessionInv
<1>7. LinkType'
  <2>1. uplink' \in Seq(Sending)
    BY <1>3, <1>4
  <2>2. QED
    BY <1>1, <2>1 DEF LinkType
<1>8. Held' = Held /\ (HeldInv => HeldInv')
  BY <1>1 DEF Held, HeldInv, Base, Done, HasNew
<1>9. QED
  BY <1>1, <1>3, <1>5, <1>6, <1>7, <1>8 DEF SessionInv, Done

\* The frames of the uplink but the first
LEMMA UplinkShorter ==
  ASSUME LinkType, SessionInv, uplink # <<>>
  PROVE  /\ Tail(uplink) \in Seq(Sending)
         /\ UplinkInv(Tail(uplink), submitted, Done, farm.vr)
         /\ session = 0 => \A i \in 1..Len(Tail(uplink)) : Kind(Tail(uplink)[i]) = "BD"
<1>1. uplink \in Seq(Sending)
  BY DEF LinkType
<1>2. /\ Tail(uplink) \in Seq(Sending)
      /\ \A i \in 1..Len(Tail(uplink)) :
           Tail(uplink)[i] = uplink[i + 1] /\ i + 1 \in 1..Len(uplink)
  BY <1>1
<1>3. UplinkInv(Tail(uplink), submitted, Done, farm.vr)
  BY <1>1, UplinkTail DEF SessionInv
<1>4. QED
  BY <1>2, <1>3 DEF SessionInv

LEMMA ReceiveStep ==
  ASSUME LInv, IInv', session' <= 1, FarmReceive
  PROVE  LinkType' /\ SessionInv'
<1> DEFINE u == uplink[1]
<1>1. /\ session' = session /\ SessionInv /\ LinkType /\ IInv
      /\ fop' = fop /\ watch' = watch /\ downlink' = downlink
      /\ submitted' = submitted /\ acked' = acked
      /\ uplink # <<>> /\ uplink' = Tail(uplink)
  BY DEF LInv, FarmReceive
<1>2. uplink \in Seq(Sending) /\ u \in Sending /\ Head(uplink) = u /\ 1 \in 1..Len(uplink)
  BY <1>1 DEF LinkType
<1>3. /\ uplink' \in Seq(Sending) /\ UplinkInv(uplink', submitted, Done, farm.vr)
      /\ session = 0 => \A i \in 1..Len(uplink') : Kind(uplink'[i]) = "BD"
  BY <1>1, UplinkShorter
<1>4. Held' = Held /\ HasNew' = HasNew /\ Base' = Base
  BY <1>1 DEF Held, HasNew, Base
<1>a. farm.vr \in Seqs /\ Done \in Nat /\ submitted \in Nat /\ Base \in Int
  BY <1>1, Facts
<1>5. CASE farm'.vr = farm.vr /\ accepted' = accepted
           /\ farm' \in [vr : Seqs, retransmit : BOOLEAN, session : Nat]
  <2>1. LinkType'
    BY <1>1, <1>3, <1>5 DEF LinkType
  <2>2. HeldInv => HeldInv'
    BY <1>1, <1>4, <1>5 DEF HeldInv, Done
  <2>3. QED
    BY <1>1, <1>3, <1>4, <1>5, <2>1, <2>2 DEF SessionInv, Done
<1>6. CASE u.frame.type = "BC" /\ UNCHANGED accepted
           /\ farm' = [vr |-> 0, retransmit |-> FALSE, session |-> u.session]
  <2>1. Done = 0
    BY <1>1, <1>2, <1>6 DEF SessionInv, UplinkInv, Kind
  <2>2. farm.vr = 0
    BY <1>1, <2>1 DEF SessionInv
  <2>3. farm' \in [vr : Seqs, retransmit : BOOLEAN, session : Nat] /\ farm'.vr = farm.vr
    BY <1>2, <1>6, <1>a, <2>2 DEF Sending
  <2>4. QED
    BY <1>5, <1>6, <2>3
<1>7. CASE u.frame.type = "AD" /\ u.frame.seq # farm.vr /\ UNCHANGED accepted
           /\ \E r \in BOOLEAN : farm' = [farm EXCEPT !.retransmit = r]
  <2>1. farm' \in [vr : Seqs, retransmit : BOOLEAN, session : Nat] /\ farm'.vr = farm.vr
    BY <1>1, <1>7 DEF LinkType
  <2>2. QED
    BY <1>5, <1>7, <2>1
<1>8. CASE u.frame.type = "AD" /\ u.frame.seq = farm.vr
           /\ farm' = [farm EXCEPT !.vr = Succ(@), !.retransmit = FALSE]
           /\ accepted' = Append(accepted, u.frame.spp)
  <2>1. /\ CmdOf(u) = Done + 1 /\ Done + 1 <= submitted
        /\ UplinkInv(uplink', submitted, Done + 1, Succ(farm.vr))
    <3>1. UplinkInv(uplink, submitted, Done, farm.vr) /\ Kind(u) = "AD"
      BY <1>1, <1>8 DEF SessionInv, Kind
    <3>2. QED
      BY <1>1, <1>2, <1>8, <1>a, <3>1, UplinkAccept
  <2>2. /\ farm' \in [vr : Seqs, retransmit : BOOLEAN, session : Nat]
        /\ farm'.vr = Succ(farm.vr) /\ Succ(farm.vr) \in Seqs
    BY <1>1, <1>8, <1>a, SuccSelf DEF LinkType
  <2>3. /\ accepted' = Append(accepted, Done + 1) /\ accepted' \in Seq(Nat)
        /\ Len(accepted') = Done + 1 /\ accepted'[Done + 1] = Done + 1
        /\ \A i \in 1..Done : accepted'[i] = accepted[i]
    <3>1. accepted' = Append(accepted, Done + 1) /\ accepted \in Seq(Nat)
      BY <1>1, <1>8, <2>1 DEF CmdOf, LinkType
    <3>2. QED
      BY <1>a, <3>1 DEF Done
  <2>4. LinkType'
    BY <1>1, <1>3, <2>2, <2>3 DEF LinkType
  <2>5. Dist(farm'.vr, fop'.vs) = submitted' - Len(accepted')
    <3>1. fop.vs \in Seqs /\ Dist(farm.vr, fop.vs) = submitted - Done
      BY <1>1, Facts DEF SessionInv
    <3>2. farm.vr # fop.vs
      BY <1>a, <2>1, <3>1, DistType
    <3>3. Dist(Succ(farm.vr), fop.vs) = submitted - Done - 1
      BY <1>a, <3>1, <3>2, SuccFirst
    <3>4. Dist(farm'.vr, fop'.vs) = submitted - Done - 1
      BY <1>1, <2>2, <3>3
    <3>5. submitted' - Len(accepted') = submitted - Done - 1
      BY <1>1, <1>a, <2>3
    <3>6. QED
      BY <3>4, <3>5
  <2>6. ASSUME HeldInv PROVE HeldInv'
    <3>1. Done - Base \in Nat /\ Done - Base < SeqMod - 1
      <4>1. submitted - Base <= WindowSize
        BY <1>1, Facts DEF Base
      <4>2. QED
        BY <1>a, <2>1, <2>6, <4>1, WindowIsSmall DEF HeldInv
    <3>2. downlink \in Seq(Clcw) /\ (HasNew => watch.value \in Clcw)
      BY <1>1 DEF LinkType, IInv, TypeOK, HasNew
    <3>3. /\ ReportsInv(downlink, Succ(farm.vr), Done - Base + 1)
          /\ HasNew => WatchInv(watch.value, downlink, Succ(farm.vr), Done - Base + 1)
      BY <1>a, <2>6, <3>1, <3>2, ReportsAccept DEF HeldInv
    <3>4. Done' = Done + 1 /\ Done - Base + 1 = Done + 1 - Base
      BY <1>a, <2>3 DEF Done
    <3>5. QED
      BY <1>1, <1>4, <1>a, <2>2, <2>6, <3>3, <3>4 DEF HeldInv
  <2>7. \A i \in 1..(Done + 1) : accepted'[i] = i
    <3>1. \A i \in 1..(Done + 1) : i \in 1..Done \/ i = Done + 1
      BY <1>a
    <3>2. QED
      BY <1>1, <2>3, <3>1 DEF SessionInv
  <2>8. acked' \subseteq 1..(Done + 1) /\ submitted <= Done + 1 + WindowSize
    BY <1>1, <1>a, WindowIsSmall DEF SessionInv
  <2>9. Done' = Done + 1 /\ Done' # 0
    BY <1>a, <2>3 DEF Done
  <2>10. QED
    BY <1>1, <1>3, <1>4, <2>1, <2>2, <2>3, <2>4, <2>5, <2>6, <2>7, <2>8, <2>9
       DEF SessionInv, Done
<1>9. CASE u.frame.type = "BD" /\ UNCHANGED <<farm, accepted>>
  BY <1>1, <1>5, <1>9 DEF LinkType
<1>10. QED
  <2>1. (farm.retransmit \/ ~SeqBefore(u.frame.seq, farm.vr)) \in BOOLEAN
    BY <1>1 DEF LinkType
  <2>2. \/ u.frame.type = "AD" /\ u.frame.seq # farm.vr /\ UNCHANGED accepted
           /\ farm' = [farm EXCEPT !.retransmit =
                         @ \/ ~SeqBefore(u.frame.seq, farm.vr)]
        \/ u.frame.type = "BC" /\ UNCHANGED accepted
           /\ farm' = [vr |-> 0, retransmit |-> FALSE, session |-> u.session]
        \/ u.frame.type = "AD" /\ u.frame.seq = farm.vr
           /\ farm' = [farm EXCEPT !.vr = Succ(@), !.retransmit = FALSE]
           /\ accepted' = Append(accepted, u.frame.spp)
        \/ u.frame.type = "BD" /\ UNCHANGED <<farm, accepted>>
    BY <1>2 DEF FarmReceive
  <2>3. QED
    BY <1>6, <1>7, <1>8, <1>9, <2>1, <2>2
LEMMA ReportStep ==
  ASSUME LInv, IInv', session' <= 1, FarmReport
  PROVE  LinkType' /\ SessionInv'
<1> DEFINE c == [lockout |-> FALSE, nr |-> farm.vr, retransmit |-> farm.retransmit]
<1>1. /\ session' = session /\ SessionInv /\ LinkType /\ IInv
      /\ fop' = fop /\ watch' = watch /\ uplink' = uplink /\ farm' = farm
      /\ submitted' = submitted /\ accepted' = accepted /\ acked' = acked
      /\ downlink' = Append(downlink, c)
  BY DEF LInv, FarmReport
<1>2. c \in Clcw /\ c.nr = farm.vr /\ downlink \in Seq(Clcw) /\ farm.vr \in Seqs
  BY <1>1 DEF Clcw, LinkType
<1> HIDE DEF c
<1>3. LinkType'
  <2>1. downlink' \in Seq(Clcw)
    BY <1>1, <1>2
  <2>2. QED
    BY <1>1, <2>1 DEF LinkType
<1>4. Held' = Held /\ Base' = Base /\ Done' = Done /\ HasNew' = HasNew
  BY <1>1 DEF Held, Base, Done, HasNew
<1>5. ASSUME HeldInv PROVE HeldInv'
  <2>1. Done - Base \in Nat
    BY <1>1, <1>5, Facts DEF HeldInv
  <2>2. HasNew => watch.value \in Clcw
    BY <1>1 DEF IInv, TypeOK, HasNew
  <2>3. /\ ReportsInv(downlink', farm.vr, Done - Base)
        /\ HasNew => WatchInv(watch.value, downlink', farm.vr, Done - Base)
    BY <1>1, <1>2, <1>5, <2>1, <2>2, ReportsAppend DEF HeldInv
  <2>4. QED
    BY <1>1, <1>4, <1>5, <2>3 DEF HeldInv
<1>6. QED
  BY <1>1, <1>3, <1>4, <1>5 DEF SessionInv, Done

\* The downlink's first CLCW is published, or lost.
LEMMA DownlinkStep ==
  ASSUME LInv, IInv', session' <= 1, ClcwArrives \/ LoseClcw
  PROVE  LinkType' /\ SessionInv'
<1>1. /\ session' = session /\ SessionInv /\ LinkType /\ IInv
      /\ fop' = fop /\ uplink' = uplink /\ farm' = farm
      /\ submitted' = submitted /\ accepted' = accepted /\ acked' = acked
      /\ downlink # <<>> /\ downlink' = Tail(downlink)
      /\ \/ watch' = watch
         \/ watch' = [watch EXCEPT !.value = Head(downlink), !.changed = TRUE]
  BY DEF LInv, ClcwArrives, Publish, LoseClcw
<1>2. /\ downlink \in Seq(Clcw) /\ downlink' \in Seq(Clcw)
      /\ Head(downlink) = downlink[1] /\ 1 \in 1..Len(downlink)
      /\ \A i \in 1..Len(downlink') :
           downlink'[i] = downlink[i + 1] /\ i + 1 \in 1..Len(downlink)
  BY SMTT(30), <1>1 DEF LinkType
<1>3. LinkType'
  BY <1>1, <1>2 DEF LinkType
<1>4. Held' = Held /\ Base' = Base /\ Done' = Done
  BY <1>1 DEF Held, Base, Done
<1>5. ASSUME HeldInv PROVE HeldInv'
  <2>1. /\ ReportsInv(downlink', farm.vr, Done - Base)
        /\ WatchInv(downlink[1], downlink', farm.vr, Done - Base)
    <3>1. ReportsInv(downlink, farm.vr, Done - Base)
      BY <1>5 DEF HeldInv
    <3>2. Dist(downlink[1].nr, farm.vr) <= Done - Base
      BY <1>2, <3>1 DEF ReportsInv
    <3>3. QED
      BY <1>1, <1>2, <3>1, <3>2, ReportsTail
  <2>2. ASSUME HasNew' PROVE WatchInv(watch'.value, downlink', farm.vr, Done - Base)
    <3>1. CASE watch' = watch
      <4>1. HasNew
        BY <2>2, <3>1 DEF HasNew
      <4>2. WatchInv(watch.value, downlink, farm.vr, Done - Base)
        BY <1>5, <4>1 DEF HeldInv
      <4>3. QED
        BY <1>2, <3>1, <4>2 DEF WatchInv
    <3>2. CASE watch' = [watch EXCEPT !.value = Head(downlink), !.changed = TRUE]
      <4>1. watch'.value = downlink[1]
        BY <1>1, <1>2, <3>2 DEF IInv, TypeOK
      <4>2. QED
        BY <2>1, <4>1
    <3>3. QED
      BY <1>1, <3>1, <3>2
  <2>3. QED
    BY <1>1, <1>4, <1>5, <2>1, <2>2 DEF HeldInv
<1>6. QED
  BY <1>1, <1>3, <1>4, <1>5 DEF SessionInv, Done

LEMMA LoseFrameStep ==
  ASSUME LInv, IInv', session' <= 1, LoseFrame
  PROVE  LinkType' /\ SessionInv'
<1>1. /\ session' = session /\ SessionInv /\ LinkType /\ IInv
      /\ fop' = fop /\ watch' = watch /\ downlink' = downlink
      /\ submitted' = submitted /\ accepted' = accepted /\ acked' = acked
      /\ uplink # <<>> /\ uplink' = Tail(uplink)
  BY DEF LInv, LoseFrame
<1>2. farm' \in [vr : Seqs, retransmit : BOOLEAN, session : Nat] /\ farm'.vr = farm.vr
  BY <1>1 DEF LoseFrame, LinkType
<1>3. /\ uplink' \in Seq(Sending) /\ UplinkInv(uplink', submitted, Done, farm.vr)
      /\ session = 0 => \A i \in 1..Len(uplink') : Kind(uplink'[i]) = "BD"
  BY <1>1, UplinkShorter
<1>4. LinkType'
  BY <1>1, <1>2, <1>3 DEF LinkType
<1>5. Held' = Held /\ (HeldInv => HeldInv')
  BY <1>1, <1>2 DEF Held, HeldInv, Base, Done, HasNew
<1>6. QED
  BY <1>1, <1>2, <1>3, <1>4, <1>5 DEF SessionInv, Done

\* The downlink ends, time passes, or nothing happens.
LEMMA QuietStep ==
  ASSUME LInv, IInv', session' <= 1,
         DownlinkEnds \/ LinkElapse \/ UNCHANGED linkVars
  PROVE  LinkType' /\ SessionInv'
<1>1. /\ session' = session /\ SessionInv /\ LinkType /\ IInv
      /\ uplink' = uplink /\ farm' = farm
      /\ submitted' = submitted /\ accepted' = accepted /\ acked' = acked
  BY DEF LInv, DownlinkEnds, LinkElapse, linkVars
<1>2. fop'.window = fop.window /\ fop'.vs = fop.vs /\ fop'.state = fop.state
  BY <1>1, Facts DEF DownlinkEnds, CloseWatch, LinkElapse, Elapse, Engine, linkVars
<1>3. \/ watch' = watch /\ downlink' = downlink
      \/ ~HasNew' /\ downlink' = <<>>
  <2>1. CASE DownlinkEnds
    <3>1. watch' = [watch EXCEPT !.open = FALSE] /\ downlink' = <<>>
      BY <2>1 DEF DownlinkEnds, CloseWatch
    <3>2. watch'.open = FALSE
      BY <1>1, <3>1 DEF IInv, TypeOK
    <3>3. QED
      BY <3>1, <3>2 DEF HasNew
  <2>2. QED
    BY <2>1 DEF LinkElapse, Elapse, linkVars
<1>4. LinkType'
  <2>1. downlink' = downlink \/ downlink' = <<>>
    BY <1>3
  <2>2. downlink \in Seq(Clcw) /\ <<>> \in Seq(Clcw)
    BY <1>1, EmptySeq DEF LinkType
  <2>3. downlink' \in Seq(Clcw)
    BY <2>1, <2>2
  <2>4. QED
    BY <1>1, <2>3 DEF LinkType
<1>5. Held' = Held /\ Base' = Base /\ Done' = Done
  BY <1>1, <1>2 DEF Held, Base, Done
<1>6. HeldInv => HeldInv'
  <2>1. CASE watch' = watch /\ downlink' = downlink
    BY <1>1, <1>2, <1>5, <2>1 DEF HeldInv, HasNew
  <2>2. CASE ~HasNew' /\ downlink' = <<>>
    BY <1>1, <1>2, <1>5, <2>2 DEF HeldInv, ReportsInv
  <2>3. QED
    BY <1>3, <2>1, <2>2
<1>7. QED
  BY <1>1, <1>2, <1>4, <1>5, <1>6 DEF SessionInv, Done
-----------------------------------------------------------------------------
LEMMA LinkInitInv == LinkInit => LInv
<1> SUFFICES ASSUME LinkInit PROVE LInv
  OBVIOUS
<1>1. IInv
  BY InitInv DEF LinkInit
<1>2. /\ session = 0 /\ submitted = 0 /\ accepted = <<>> /\ acked = {}
      /\ uplink = <<>> /\ downlink = <<>>
      /\ farm = [vr |-> 0, retransmit |-> FALSE, session |-> 0] /\ farm.vr = 0
      /\ fop.vs = 0 /\ fop.state = "Initial" /\ fop.window = <<>> /\ ~HasNew
  BY DEF LinkInit, Init, NewEngine, HasNew
<1>3. Done = 0 /\ Base = 0
  <2>1. Len(<<>>) = 0
    BY EmptySeq
  <2>2. Len(accepted) = 0 /\ Len(fop.window) = 0
    BY <1>2, <2>1
  <2>3. submitted = 0
    BY <1>2
  <2>4. QED
    BY <2>2, <2>3 DEF Done, Base
<1>4. LinkType
  <2>1. farm \in [vr : Seqs, retransmit : BOOLEAN, session : Nat]
    BY <1>2 DEF Seqs
  <2>2. submitted \in 0..MaxCmds /\ session \in 0..MaxSessions
    BY <1>2, LinkAssumption
  <2>3. QED
    BY <1>2, <2>1, <2>2 DEF LinkType
<1>5. UplinkInv(uplink, 0, 0, 0) /\ ReportsInv(downlink, 0, 0)
  BY <1>2 DEF UplinkInv, ReportsInv
<1>6. HeldInv
  BY <1>2, <1>3, <1>5 DEF HeldInv
<1>7. Dist(0, 0) = 0
  BY DEF Dist
<1>8. SessionInv
  BY <1>2, <1>3, <1>5, <1>6, <1>7, WindowIsSmall DEF SessionInv
<1>9. QED
  BY <1>1, <1>2, <1>4, <1>8 DEF LInv

\* Only initialize() starts a session.
LEMMA SessionGrows ==
  ASSUME session \in Nat, [LinkNext]_linkVars
  PROVE  /\ session' \in Nat /\ session <= session'
         /\ MaxSessions <= 1 /\ session <= 1 => session' <= 1
BY LinkAssumption
   DEF LinkNext, linkVars, LinkInitialize, LinkSubmit, LinkTick,
       LinkEmergency, FarmReceive, FarmReport, ClcwArrives, LoseFrame, LoseClcw,
       DownlinkEnds, LinkElapse

LEMMA LinkNextInv == LInv /\ [LinkNext]_linkVars => LInv'
<1> SUFFICES ASSUME LInv, [LinkNext]_linkVars PROVE LInv'
  OBVIOUS
<1>1. session' \in Nat /\ session <= session'
  BY SessionGrows DEF LInv
<1>2. SUFFICES ASSUME session' <= 1 PROVE IInv' /\ LinkType' /\ SessionInv'
  BY <1>1 DEF LInv
<1>3. IInv'
  <2>1. IInv /\ LinkType
    BY <1>1, <1>2 DEF LInv
  <2>2. QED
    BY <2>1, LinkEngineInv
<1>4. CASE LinkInitialize
  BY <1>2, <1>3, <1>4, StartStep
<1>5. CASE LinkSubmit
  BY <1>2, <1>3, <1>5, SubmitStep
<1>6. CASE LinkTick
  BY <1>2, <1>3, <1>6, TickStep
<1>7. CASE LinkEmergency
  BY <1>2, <1>3, <1>7, EmergencyStep
<1>8. CASE FarmReceive
  BY <1>2, <1>3, <1>8, ReceiveStep
<1>9. CASE FarmReport
  BY <1>2, <1>3, <1>9, ReportStep
<1>10. CASE ClcwArrives \/ LoseClcw
  BY <1>2, <1>3, <1>10, DownlinkStep
<1>11. CASE LoseFrame
  BY <1>2, <1>3, <1>11, LoseFrameStep
<1>12. CASE DownlinkEnds \/ LinkElapse \/ UNCHANGED linkVars
  BY <1>2, <1>3, <1>12, QuietStep
<1>13. QED
  BY <1>3, <1>4, <1>5, <1>6, <1>7, <1>8, <1>9, <1>10, <1>11, <1>12 DEF LinkNext

LEMMA LinkInvariance == LinkSpec => []LInv
BY LinkInitInv, LinkNextInv, PTL DEF LinkSpec

\* In the first session, what the ground takes as acknowledged FARM-1 has
\* accepted, whatever is lost, late or repeated, for every window that is at
\* most half of the sequence space.
THEOREM AlwaysAckedWasAccepted == LinkSpec => []AckedWasAccepted
<1>1. LInv => AckedWasAccepted
  <2>1. SUFFICES ASSUME LInv, session <= 1, NEW c \in acked
                 PROVE  \E i \in 1..Len(accepted) : accepted[i] = c
    BY DEF AckedWasAccepted
  <2>2. c \in 1..Len(accepted) /\ accepted[c] = c
    BY <2>1 DEF LInv, SessionInv, Done
  <2>3. QED
    BY <2>2
<1>2. QED
  BY <1>1, LinkInvariance, PTL

\* The invariant that is kept while there is one session at most
OInv == LInv /\ session <= 1

LEMMA ExecuteSimulation ==
  ASSUME OInv, OInv', FarmReceive
  PROVE  [Delivery!Next]_<<submitted, accepted, acked>>
<1>1. /\ submitted' = submitted /\ acked' = acked /\ Len(accepted') <= submitted
      /\ uplink \in Seq(Sending) /\ uplink # <<>> /\ Done \in Nat
      /\ accepted \in Seq(Nat) /\ \A i \in 1..Len(accepted') : accepted'[i] = i
  BY Facts DEF OInv, LInv, SessionInv, LinkType, FarmReceive, Done
<1>2. accepted' = accepted \/ \E x : accepted' = Append(accepted, x)
  BY DEF FarmReceive
<1>3. ASSUME NEW x, accepted' = Append(accepted, x)
      PROVE  Delivery!Execute
  <2>1. Len(accepted') = Len(accepted) + 1 /\ accepted'[Len(accepted) + 1] = x
    BY <1>1, <1>3
  <2>2. x = Len(accepted) + 1 /\ Len(accepted) < submitted
    <3>1. Len(accepted) \in Nat
      BY <1>1 DEF Done
    <3>2. Len(accepted) + 1 \in 1..Len(accepted')
      BY <2>1, <3>1
    <3>3. accepted'[Len(accepted) + 1] = Len(accepted) + 1
      BY <1>1, <3>2
    <3>4. submitted \in Nat
      BY Facts DEF OInv, LInv
    <3>5. QED
      BY <1>1, <2>1, <3>1, <3>3, <3>4
  <2>3. QED
    BY <1>1, <1>3, <2>2 DEF Delivery!Execute
<1>4. QED
  BY <1>1, <1>2, <1>3 DEF Delivery!Next

LEMMA ConfirmSimulation ==
  ASSUME OInv, OInv', LinkTick
  PROVE  [Delivery!Next]_<<submitted, accepted, acked>>
<1>1. submitted' = submitted /\ accepted' = accepted
  BY DEF LinkTick
<1>2. CASE fop'.state = "Initial"
  <2>1. acked' = acked
    BY <1>2 DEF LinkTick
  <2>2. QED
    BY <1>1, <2>1
<1>3. CASE fop'.state # "Initial"
  <2>1. Held /\ HeldInv
    BY <1>3, TickSlides DEF OInv, LInv
  <2>2. HeldInv' /\ Done' = Done
    BY <1>1, <1>3 DEF OInv, LInv, SessionInv, Held, Done
  <2>3. acked = 1..Base /\ acked' = 1..(Base') /\ acked \subseteq acked'
    <3>1. acked \subseteq acked'
      BY DEF LinkTick
    <3>2. QED
      BY <2>1, <2>2, <3>1 DEF HeldInv
  <2>4. Base' \in 0..Done
    <3>1. Base' \in Int /\ Done \in Nat
      <4>1. IInv /\ LinkType /\ IInv' /\ LinkType'
        BY DEF OInv, LInv
      <4>2. Base' \in Int
        <5>1. fop'.window \in Seq(AdFrame) /\ submitted' \in Nat
          BY <4>1, LinkAssumption DEF IInv, EngInv, Engine, LinkType
        <5>2. QED
          BY <5>1 DEF Base
      <4>3. QED
        BY <4>1, <4>2, Facts
    <3>2. QED
      BY <2>2, <3>1 DEF HeldInv
  <2>5. CASE Base' = 0
    <3>1. acked' = acked
      BY <2>3, <2>5
    <3>2. QED
      BY <1>1, <3>1
  <2>6. CASE Base' # 0
    <3>1. Base' \in 1..Len(accepted)
      BY <2>4, <2>6 DEF Done
    <3>2. Delivery!Confirm
      BY <1>1, <2>3, <3>1 DEF Delivery!Confirm
    <3>3. QED
      BY <3>2 DEF Delivery!Next
  <2>7. QED
    BY <2>5, <2>6
<1>4. QED
  BY <1>2, <1>3

\* One session of the closed loop implements TcDelivery: commands are executed
\* in the order they were submitted, none twice, none skipped, and confirmed
\* only then.
THEOREM DeliveryImplemented ==
  ASSUME MaxSessions <= 1
  PROVE  LinkSpec => ImplementsDelivery
<1>1. LinkInit => Delivery!Init
  BY DEF LinkInit, Delivery!Init
<1>2. LinkInit => OInv
  BY LinkInitInv DEF LinkInit, OInv
<1>3. OInv /\ [LinkNext]_linkVars => OInv'
  BY LinkNextInv, SessionGrows DEF OInv, LInv
<1>4. OInv /\ OInv' /\ [LinkNext]_linkVars => [Delivery!Next]_(Delivery!dvars)
  <2> SUFFICES ASSUME OInv, OInv', [LinkNext]_linkVars
               PROVE  [Delivery!Next]_<<submitted, accepted, acked>>
    BY DEF Delivery!dvars
  <2>1. CASE LinkSubmit
    BY <2>1 DEF LinkSubmit, Delivery!Next, Delivery!Send
  <2>2. CASE LinkTick
    BY <2>2, ConfirmSimulation
  <2>3. CASE FarmReceive
    BY <2>3, ExecuteSimulation
  <2>4. CASE UNCHANGED <<submitted, accepted, acked>>
    BY <2>4
  <2>5. QED
    BY <2>1, <2>2, <2>3, <2>4
       DEF LinkNext, linkVars, LinkInitialize, LinkEmergency, FarmReport,
           ClcwArrives, LoseFrame, LoseClcw, DownlinkEnds, LinkElapse
<1>5. QED
  BY <1>1, <1>2, <1>3, <1>4, PTL DEF LinkSpec, ImplementsDelivery, Delivery!Spec
=============================================================================
