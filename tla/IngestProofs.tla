---------------------------- MODULE IngestProofs ----------------------------
(***************************************************************************)
(* Proofs about IngestPipeline, for any capacities, virtual channels and   *)
(* frames: what every channel holds, at which steps alone a frame can go   *)
(* missing, the order of a virtual channel's frames, and the rings.        *)
(***************************************************************************)
EXTENDS IngestPipeline, BasicLemmas, FiniteSetTheorems

\* The frames that the router lets through
Good == {f \in Frames : ~ForbiddenApid(f.apid)}

LEMMA Capacities ==
  /\ HkFrames \in Nat \ {0} /\ EventRing \in Nat \ {0}
  /\ MaxFrames \in Nat
  /\ VcEventLog \in Vcs /\ IsFiniteSet(Vcs) /\ VcIdle \notin Vcs
<1>1. IsFiniteSet(0..62)
  <2>1. 0 \in Int /\ 62 \in Int
    OBVIOUS
  <2>2. QED
    BY <2>1, FS_Interval, Zenon
<1>2. Vcs \subseteq 0..62
  BY CapacityAssumption
<1>3. IsFiniteSet(Vcs) /\ VcIdle \notin Vcs
  <2>1. IsFiniteSet(Vcs)
    BY <1>1, <1>2, FS_Subset, Zenon
  <2>2. QED
    BY <2>1, <1>2 DEF VcIdle
<1>4. QED
  BY CapacityAssumption, <1>3

Counts == [demux : Nat, unknownVc : Nat, decodeFail : Nat, decoder : Nat]

PipeType ==
  /\ received \in Nat
  /\ frameQ \in Seq(Frames) /\ tagQ \in Seq(Frames)
  /\ vcQ \in [Vcs -> Seq(Frames)]
  /\ sppQ \in [Vcs -> Seq(Frames)]
  /\ relay \in [Vcs -> Seq(Frames)]
  /\ sinkQ \in [Sinks -> Seq(Good)]
  /\ drain \in [Drained -> Seq(Good)]
  /\ hk \in [DOMAIN hk -> Seq(Good)]
  /\ events \in Seq(Good) /\ arrivals \in Seq(Good)
  /\ count \in Counts
  /\ forbidden \in Nat
  /\ \A s \in Drained : Len(drain[s]) <= 1

\* The first frame of a queue is a frame, and so is the rest.
LEMMA HeadTail ==
  ASSUME NEW S, NEW q \in Seq(S), q # <<>>
  PROVE  /\ Head(q) \in S /\ Tail(q) \in Seq(S)
         /\ Len(q) \in Nat \ {0} /\ Len(Tail(q)) = Len(q) - 1
         /\ Head(q) = q[1]
         /\ \A i \in 1..Len(Tail(q)) : Tail(q)[i] = q[i + 1]
BY HeadTailProperties, EmptySeq

\* One channel of several gets a frame.
LEMMA ChannelGets ==
  ASSUME NEW D, NEW S, NEW h \in [D -> Seq(S)], NEW d \in D, NEW e \in S
  PROVE  [h EXCEPT ![d] = Append(@, e)] \in [D -> Seq(S)]
<1>1. Append(h[d], e) \in Seq(S)
  BY AppendProperties
<1>2. QED
  BY <1>1

LEMMA NewestIs ==
  ASSUME NEW ring \in Seq(Good), NEW f \in Good, NEW depth \in Nat \ {0}
  PROVE  \E d \in Nat :
           /\ d = IF Len(ring) < depth THEN 0 ELSE Len(ring) + 1 - depth
           /\ Newest(ring, f, depth) \in Seq(Good)
           /\ Len(Newest(ring, f, depth)) = Len(ring) + 1 - d
           /\ \A i \in 1..Len(Newest(ring, f, depth)) :
                Newest(ring, f, depth)[i] = Append(ring, f)[i + d]
<1> DEFINE p == Append(ring, f)
           d == IF Len(ring) < depth THEN 0 ELSE Len(ring) + 1 - depth
<1>1. p \in Seq(Good) /\ Len(ring) \in Nat /\ Len(p) = Len(ring) + 1
  BY LenProperties, AppendProperties
<1>2. Max({0, Len(p) - depth}) = d
  <2>1. \A x \in Int : Max({0, x}) = IF x > 0 THEN x ELSE 0
    BY DEF Max
  <2>2. QED
    BY <2>1, <1>1
<1>3. d \in 0..Len(p) /\ d \in Nat
  BY <1>1
<1>4. Newest(ring, f, depth) = SubSeq(p, d + 1, Len(p))
  <2>1. Newest(ring, f, depth) = SubSeq(p, 1 + Max({0, Len(p) - depth}), Len(p))
    BY DEF Newest
  <2>2. 1 + d = d + 1
    BY <1>3, <1>1
  <2>3. QED
    BY <2>1, <2>2, <1>2
<1>5. d = IF Len(ring) < depth THEN 0 ELSE Len(ring) + 1 - depth
  OBVIOUS
<1> HIDE DEF d, p
<1> DEFINE w == Newest(ring, f, depth)
<1>6. /\ w \in Seq(Good) /\ Len(w) = Len(p) - d
      /\ \A i \in 1..Len(w) : w[i] = p[i + d]
  <2>1. p \in Seq(Good) /\ d \in 0..Len(p) /\ w = SubSeq(p, d + 1, Len(p))
    BY <1>1, <1>3, <1>4
  <2> HIDE DEF w
  <2>2. QED
    BY <2>1, SuffixIs
<1> HIDE DEF w
<1>7. /\ w \in Seq(Good) /\ Len(w) = Len(ring) + 1 - d
      /\ \A i \in 1..Len(w) : w[i] = p[i + d]
  BY <1>6, <1>1, <1>3
<1>8. QED
  BY <1>3, <1>5, <1>7 DEF p, w
-----------------------------------------------------------------------------
(* What the channels hold                                                  *)

LEMMA TypeInit ==
  ASSUME Init
  PROVE  PipeType
<1>1. \A S : <<>> \in Seq(S)
  BY EmptySeq
<1>2. /\ vcQ \in [Vcs -> Seq(Frames)] /\ sppQ = vcQ /\ relay = vcQ
      /\ sinkQ \in [Sinks -> Seq(Good)] /\ drain \in [Drained -> Seq(Good)]
      /\ \A s \in Drained : drain[s] = <<>>
  BY <1>1 DEF Init
<1>3. DOMAIN hk = {}
  BY DEF Init
<1>4. count \in Counts
  BY DEF Init, Counts
<1>5. \A s \in Drained : Len(drain[s]) <= 1
  BY <1>2, EmptySeq
<1>6. hk \in [DOMAIN hk -> Seq(Good)]
  BY <1>3 DEF Init
<1>7. QED
  BY <1>1, <1>2, <1>4, <1>5, <1>6 DEF Init, PipeType

LEMMA NewFrame ==
  ASSUME received \in Nat, received < MaxFrames, NEW in \in Inputs
  PROVE  [n |-> received + 1, vc |-> in[1], apid |-> in[2]] \in Frames
BY Capacities DEF Frames

LEMMA CountUp ==
  ASSUME NEW c \in Counts
  PROVE  /\ [c EXCEPT !.demux = @ + 1] \in Counts
         /\ [c EXCEPT !.unknownVc = @ + 1] \in Counts
         /\ [c EXCEPT !.decodeFail = @ + 1] \in Counts
         /\ [c EXCEPT !.decoder = @ + 1] \in Counts
BY DEF Counts

LEMMA TypeForward ==
  ASSUME PipeType, Forward
  PROVE  PipeType'
<1>1. PICK in \in Inputs :
        LET f == [n |-> received', vc |-> in[1], apid |-> in[2]]
        IN  frameQ' = IF Len(frameQ) < FrameCap THEN Append(frameQ, f) ELSE frameQ
  BY DEF Forward
<1> DEFINE f == [n |-> received', vc |-> in[1], apid |-> in[2]]
<1>2. f \in Frames
  BY NewFrame DEF Forward, PipeType
<1> HIDE DEF f
<1>3. frameQ' \in Seq(Frames)
  <2>1. frameQ' = Append(frameQ, f) \/ frameQ' = frameQ
    BY <1>1 DEF f
  <2>2. frameQ \in Seq(Frames)
    BY DEF PipeType
  <2>3. QED
    BY <2>1, <2>2, <1>2, AppendProperties
<1>4. QED
  BY SMTT(30), <1>3 DEF Forward, PipeType

LEMMA TypeDemux ==
  ASSUME PipeType, Demux
  PROVE  PipeType'
<1> DEFINE f == Head(frameQ)
<1>1. f \in Frames /\ frameQ' \in Seq(Frames)
  BY HeadTail DEF Demux, PipeType
<1>2. /\ \/ count' = count \/ count' = [count EXCEPT !.demux = @ + 1]
         \/ count' = [count EXCEPT !.unknownVc = @ + 1]
      /\ \/ vcQ' = vcQ
         \/ f.vc \in Vcs /\ vcQ' = [vcQ EXCEPT ![f.vc] = Append(@, f)]
  BY DEF Demux
<1> HIDE DEF f
<1>3. vcQ' \in [Vcs -> Seq(Frames)]
  <2>1. vcQ \in [Vcs -> Seq(Frames)]
    BY DEF PipeType
  <2>2. QED
    <3>1. CASE vcQ' = vcQ
      BY <2>1, <3>1
    <3>2. CASE f.vc \in Vcs /\ vcQ' = [vcQ EXCEPT ![f.vc] = Append(@, f)]
      BY <2>1, <3>2, <1>1, ChannelGets
    <3>3. QED
      BY <3>1, <3>2, <1>2
<1>4. count' \in Counts
  <2>1. count \in Counts
    BY DEF PipeType
  <2>2. QED
    BY <2>1, <1>2, CountUp, Zenon
<1>5. QED
  BY <1>1, <1>3, <1>4 DEF Demux, PipeType

LEMMA TypeDecode ==
  ASSUME PipeType, NEW v \in Vcs, Decode(v)
  PROVE  PipeType'
<1> DEFINE f == Head(vcQ[v])
<1>1. vcQ[v] \in Seq(Frames) /\ vcQ[v] # <<>>
  BY DEF PipeType, Decode
<1>2. f \in Frames /\ Tail(vcQ[v]) \in Seq(Frames)
  BY <1>1, HeadTail
<1>3. /\ count' = [count EXCEPT !.decodeFail = @ + 1] \/ count' = count
                  \/ count' = [count EXCEPT !.decoder = @ + 1]
      /\ sppQ' = sppQ \/ sppQ' = [sppQ EXCEPT ![v] = Append(@, f)]
      /\ vcQ' = [vcQ EXCEPT ![v] = Tail(@)]
  BY DEF Decode
<1> HIDE DEF f
<1>4. vcQ' \in [Vcs -> Seq(Frames)] /\ sppQ' \in [Vcs -> Seq(Frames)]
  <2>1. vcQ \in [Vcs -> Seq(Frames)] /\ sppQ \in [Vcs -> Seq(Frames)]
    BY DEF PipeType
  <2>2. [sppQ EXCEPT ![v] = Append(@, f)] \in [Vcs -> Seq(Frames)]
    BY <2>1, <1>2, ChannelGets
  <2>3. QED
    BY <2>1, <2>2, <1>2, <1>3
<1>5. count' \in Counts
  BY <1>3, CountUp DEF PipeType
<1>6. QED
  BY <1>4, <1>5 DEF Decode, PipeType

LEMMA TypeRelay ==
  ASSUME PipeType, NEW v \in Vcs, RelayTake(v) \/ RelaySend(v)
  PROVE  PipeType'
<1>1. CASE RelayTake(v)
  <2>1. sppQ[v] \in Seq(Frames) /\ sppQ[v] # <<>>
    BY <1>1 DEF PipeType, RelayTake
  <2>2. <<Head(sppQ[v])>> \in Seq(Frames) /\ Tail(sppQ[v]) \in Seq(Frames)
    BY <2>1, HeadTail
  <2>3. relay' \in [Vcs -> Seq(Frames)] /\ sppQ' \in [Vcs -> Seq(Frames)]
    BY <1>1, <2>2 DEF RelayTake, PipeType
  <2>4. QED
    BY <1>1, <2>3 DEF RelayTake, PipeType
<1>2. CASE RelaySend(v)
  <2>1. relay[v] \in Seq(Frames) /\ relay[v] # <<>>
    BY <1>2 DEF PipeType, RelaySend
  <2>2. Head(relay[v]) \in Frames /\ Tail(relay[v]) \in Seq(Frames)
    BY <2>1, HeadTail
  <2>3. relay' \in [Vcs -> Seq(Frames)] /\ tagQ' \in Seq(Frames)
    BY <1>2, <2>2, AppendProperties DEF RelaySend, PipeType
  <2>4. QED
    BY <1>2, <2>3 DEF RelaySend, PipeType
<1>3. QED
  BY <1>1, <1>2

\* What a sink gets is not of the forbidden blocks.
LEMMA RouteIsGood ==
  ASSUME NEW f \in Frames, Route(f.vc, f.apid) \in Sinks
  PROVE  f \in Good
BY DEF Route, Sinks, Good

LEMMA TypeRoute ==
  ASSUME PipeType, RouteOne
  PROVE  PipeType'
<1> DEFINE f == Head(tagQ)
           to == Route(f.vc, f.apid)
<1>1. f \in Frames /\ tagQ' \in Seq(Frames)
  BY HeadTail DEF RouteOne, PipeType
<1>2. /\ \/ sinkQ' = sinkQ
         \/ to \in Sinks /\ sinkQ' = [sinkQ EXCEPT ![to] = Append(@, f)]
      /\ forbidden' \in {forbidden, forbidden + 1}
  BY DEF RouteOne
<1>3. to \in Sinks => f \in Good
  BY <1>1, RouteIsGood
<1> HIDE DEF f, to
<1>4. sinkQ' \in [Sinks -> Seq(Good)]
  <2>1. sinkQ \in [Sinks -> Seq(Good)]
    BY DEF PipeType
  <2>2. QED
    <3>1. CASE sinkQ' = sinkQ
      BY <2>1, <3>1
    <3>2. CASE to \in Sinks /\ sinkQ' = [sinkQ EXCEPT ![to] = Append(@, f)]
      BY <2>1, <3>2, <1>3, ChannelGets
    <3>3. QED
      BY <3>1, <3>2, <1>2
<1>5. QED
  BY SMTT(30), <1>1, <1>2, <1>4 DEF RouteOne, PipeType

\* A sink's task holds one frame at most.
LEMMA DrainHolds ==
  ASSUME PipeType, NEW s \in Drained, NEW one \in Seq(Good), Len(one) <= 1,
         drain' = [drain EXCEPT ![s] = one]
  PROVE  /\ drain' \in [Drained -> Seq(Good)]
         /\ \A t \in Drained : Len(drain'[t]) <= 1
BY DEF PipeType

LEMMA DrainAfter ==
  ASSUME PipeType, NEW s \in Drained, drain' = [drain EXCEPT ![s] = <<>>]
  PROVE  /\ drain' \in [Drained -> Seq(Good)]
         /\ \A t \in Drained : Len(drain'[t]) <= 1
<1>1. <<>> \in Seq(Good) /\ Len(<<>>) <= 1
  BY EmptySeq
<1>2. QED
  BY <1>1, DrainHolds

LEMMA TypeDrainTake ==
  ASSUME PipeType, NEW s \in Drained, DrainTake(s)
  PROVE  PipeType'
<1>1. s \in Sinks
  BY DEF Sinks, Drained
<1>2. sinkQ[s] \in Seq(Good) /\ sinkQ[s] # <<>>
  BY <1>1 DEF PipeType, DrainTake
<1> DEFINE one == <<Head(sinkQ[s])>>
<1>3. one \in Seq(Good) /\ Len(one) <= 1 /\ Tail(sinkQ[s]) \in Seq(Good)
  BY <1>2, HeadTail
<1>4. /\ drain' = [drain EXCEPT ![s] = one]
      /\ sinkQ' = [sinkQ EXCEPT ![s] = Tail(@)]
  BY DEF DrainTake
<1> HIDE DEF one
<1>5. sinkQ' \in [Sinks -> Seq(Good)]
  BY <1>1, <1>3, <1>4 DEF PipeType
<1>6. /\ drain' \in [Drained -> Seq(Good)]
      /\ \A t \in Drained : Len(drain'[t]) <= 1
  BY <1>3, <1>4, DrainHolds, Zenon
<1>7. QED
  BY <1>5, <1>6 DEF DrainTake, PipeType

\* The ring of an APID, empty before its first packet
RingOf(h, a) == IF a \in DOMAIN h THEN h[a] ELSE <<>>

LEMMA HkAfter ==
  ASSUME PipeType, NEW s \in Drained, StoreHk(s)
  PROVE  LET f == Head(drain[s]) IN
         /\ f \in Good /\ RingOf(hk, f.apid) \in Seq(Good)
         /\ DOMAIN hk' = DOMAIN hk \cup {f.apid}
         /\ hk'[f.apid] = Newest(RingOf(hk, f.apid), f, HkFrames)
         /\ \A a \in DOMAIN hk \ {f.apid} : hk'[a] = hk[a]
<1> DEFINE f == Head(drain[s])
<1>1. f \in Good
  BY HeadTail DEF PipeType, StoreHk
<1>2. RingOf(hk, f.apid) \in Seq(Good)
  BY EmptySeq DEF PipeType, RingOf
<1>3. hk' = [a \in DOMAIN hk \cup {f.apid} |->
               IF a = f.apid THEN Newest(RingOf(hk, f.apid), f, HkFrames) ELSE hk[a]]
  BY DEF StoreHk, RingOf
<1> HIDE DEF f
<1>4. /\ DOMAIN hk' = DOMAIN hk \cup {f.apid}
      /\ hk'[f.apid] = Newest(RingOf(hk, f.apid), f, HkFrames)
      /\ \A a \in DOMAIN hk \ {f.apid} : hk'[a] = hk[a]
  BY <1>3
<1>5. QED
  BY <1>1, <1>2, <1>4 DEF f

LEMMA TypeStoreHk ==
  ASSUME PipeType, NEW s \in Drained, StoreHk(s)
  PROVE  PipeType'
<1> DEFINE f == Head(drain[s])
<1>1. /\ f \in Good /\ RingOf(hk, f.apid) \in Seq(Good)
      /\ DOMAIN hk' = DOMAIN hk \cup {f.apid}
      /\ hk'[f.apid] = Newest(RingOf(hk, f.apid), f, HkFrames)
      /\ \A a \in DOMAIN hk \ {f.apid} : hk'[a] = hk[a]
  BY HkAfter
<1>2. /\ arrivals' = Append(arrivals, f)
      /\ drain' = [drain EXCEPT ![s] = <<>>]
      /\ hk' = [a \in DOMAIN hk' |-> hk'[a]]
  BY DEF StoreHk
<1> HIDE DEF f
<1>3. arrivals' \in Seq(Good)
  BY <1>1, <1>2, AppendProperties DEF PipeType
<1>4. Newest(RingOf(hk, f.apid), f, HkFrames) \in Seq(Good)
  BY <1>1, NewestIs, Capacities
<1>5. \A a \in DOMAIN hk' : hk'[a] \in Seq(Good)
  BY <1>1, <1>4 DEF PipeType
<1>6. hk' \in [DOMAIN hk' -> Seq(Good)]
  BY <1>2, <1>5, Zenon
<1>7. QED
  BY <1>2, <1>3, <1>6, DrainAfter DEF StoreHk, PipeType

LEMMA TypeStoreEvent ==
  ASSUME PipeType, StoreEvent
  PROVE  PipeType'
<1> DEFINE f == Head(drain["event"])
<1>1. "event" \in Drained
  BY DEF Drained
<1>2. f \in Good
  BY <1>1, HeadTail DEF PipeType, StoreEvent
<1>3. /\ arrivals' = Append(arrivals, f)
      /\ events' = Newest(events, f, EventRing)
      /\ drain' = [drain EXCEPT !["event"] = <<>>]
  BY DEF StoreEvent
<1> HIDE DEF f
<1>4. arrivals' \in Seq(Good)
  BY <1>2, <1>3, AppendProperties DEF PipeType
<1>5. events' \in Seq(Good)
  BY <1>2, <1>3, NewestIs, Capacities DEF PipeType
<1>6. QED
  BY <1>1, <1>3, <1>4, <1>5, DrainAfter DEF StoreEvent, PipeType

LEMMA TypeStep ==
  ASSUME PipeType, [Next]_pvars
  PROVE  PipeType'
<1>1. CASE UNCHANGED pvars
  BY <1>1 DEF pvars, PipeType
<1>2. CASE Snapshot
  BY <1>2 DEF Snapshot, PipeType
<1>3. ASSUME NEW v \in Vcs, VcTask(v)
      PROVE  PipeType'
  BY <1>3, TypeDecode, TypeRelay DEF VcTask
<1>4. ASSUME NEW s \in Drained, SinkTask(s)
      PROVE  PipeType'
  BY <1>4, TypeDrainTake, TypeStoreHk, TypeStoreEvent DEF SinkTask
<1>5. QED
  BY <1>1, <1>2, <1>3, <1>4, TypeForward, TypeDemux, TypeRoute DEF Next

\* Spec holds the channels to frames.
THEOREM PipeTyped == Spec => []PipeType
<1>1. PipeType /\ [Next]_pvars => PipeType'
  BY TypeStep
<1>2. QED
  BY <1>1, TypeInit, PTL DEF Spec

LEMMA TypeStops ==
  ASSUME PipeType
  PROVE  ForbiddenStopped
<1>1. ASSUME NEW q \in Seq(Good), NEW f \in ToSet(q)
      PROVE  ~ForbiddenApid(f.apid)
  <2>1. PICK i \in DOMAIN q : f = q[i]
    BY DEF ToSet
  <2>2. f \in Good
    BY <2>1
  <2>3. QED
    BY <2>2 DEF Good
<1>2. ASSUME NEW D, NEW h \in [D -> Seq(Good)], NEW f \in Elements(h)
      PROVE  ~ForbiddenApid(f.apid)
  BY <1>1 DEF Elements
<1>3. QED
  BY <1>1, <1>2 DEF ForbiddenStopped, PipeType

\* No packet of the forbidden blocks gets past the router, for every mix of
\* channels and APIDs the link may bring.
THEOREM AlwaysForbiddenStopped == Spec => []ForbiddenStopped
BY PipeTyped, TypeStops, PTL
-----------------------------------------------------------------------------
(* How many frames several channels hold                                   *)

\* h is a family of channels, one for each member of D.
Family(h, D) == DOMAIN h = D /\ \A x \in D : Len(h[x]) \in Nat

LEMMA SlotsFinite ==
  ASSUME NEW D, IsFiniteSet(D), NEW h, Family(h, D)
  PROVE  IsFiniteSet(Slots(h)) /\ Lengths(h) \in Nat
<1> DEFINE At(x) == {<<x, i>> : i \in 1..Len(h[x])}
           All == {At(x) : x \in D}
<1>1. \A x \in D : IsFiniteSet(At(x))
  <2> TAKE x \in D
  <2>1. At(x) = {x} \X (1..Len(h[x]))
    OBVIOUS
  <2>2. IsFiniteSet({x})
    BY FS_Singleton
  <2>3. 1 \in Int /\ Len(h[x]) \in Int
    BY DEF Family
  <2>4. IsFiniteSet(1..Len(h[x]))
    BY <2>3, FS_Interval, Zenon
  <2>5. IsFiniteSet({x} \X (1..Len(h[x])))
    BY <2>2, <2>4, FS_Product
  <2>6. QED
    BY <2>1, <2>5
<1> HIDE DEF At
<1>2. [x \in D |-> At(x)] \in Surjection(D, All)
  BY DEF Surjection
<1>3. IsFiniteSet(All)
  BY <1>2, FS_Surjection
<1>4. IsFiniteSet(UNION All)
  BY <1>1, <1>3, FS_UNION
<1>5. Slots(h) = UNION All
  BY DEF Slots, At, Family
<1>6. QED
  BY <1>4, <1>5, FS_CardinalityType DEF Lengths

LEMMA LengthsGrow ==
  ASSUME NEW D, IsFiniteSet(D), NEW f, Family(f, D), NEW g, Family(g, D),
         NEW d \in D, Len(g[d]) = Len(f[d]) + 1, \A x \in D \ {d} : Len(g[x]) = Len(f[x])
  PROVE  Lengths(g) = Lengths(f) + 1
<1>1. DOMAIN f = D /\ DOMAIN g = D
  BY DEF Family
<1>2. \A x \in D : Len(f[x]) \in Nat /\ Len(g[x]) \in Nat
  BY DEF Family
<1> DEFINE new == <<d, Len(g[d])>>
<1>3. \A y : y \in Slots(f) <=> \E x \in D : \E i \in 1..Len(f[x]) : y = <<x, i>>
  BY <1>1 DEF Slots
<1>4. \A y : y \in Slots(g) <=> \E x \in D : \E i \in 1..Len(g[x]) : y = <<x, i>>
  BY <1>1 DEF Slots
<1>5. new \notin Slots(f)
  BY <1>2, <1>3
<1>6. Slots(g) = Slots(f) \cup {new}
  <2>1. ASSUME NEW x \in D, NEW i
        PROVE  i \in 1..Len(g[x])
               <=> i \in 1..Len(f[x]) \/ (x = d /\ i = Len(g[d]))
    BY <1>2
  <2>2. \A y : y \in Slots(g) <=> y \in Slots(f) \/ y = new
    BY <2>1, <1>3, <1>4
  <2>3. QED
    BY <2>2
<1>7. QED
  BY <1>5, <1>6, SlotsFinite, FS_AddElement DEF Lengths

\* A frame put at the end of one channel of several, and one taken off its head
LEMMA LengthsPut ==
  ASSUME NEW D, IsFiniteSet(D), NEW f \in [D -> Seq(Frames)], NEW d \in D,
         NEW e \in Frames, NEW g, g = [f EXCEPT ![d] = Append(@, e)]
  PROVE  Lengths(g) = Lengths(f) + 1
<1>1. g \in [D -> Seq(Frames)] /\ Family(f, D)
  BY ChannelGets DEF Family
<1>2. Len(g[d]) = Len(f[d]) + 1
  BY AppendProperties
<1>3. \A x \in D \ {d} : Len(g[x]) = Len(f[x])
  OBVIOUS
<1>4. Family(g, D)
  BY <1>1 DEF Family
<1>5. QED
  BY <1>1, <1>2, <1>3, <1>4, LengthsGrow

LEMMA LengthsTake ==
  ASSUME NEW D, IsFiniteSet(D), NEW S, NEW f \in [D -> Seq(S)], NEW d \in D,
         f[d] # <<>>, NEW g, g = [f EXCEPT ![d] = Tail(@)]
  PROVE  Lengths(g) = Lengths(f) - 1
<1>1. /\ f[d] \in Seq(S) /\ Tail(f[d]) \in Seq(S)
      /\ Len(f[d]) \in Nat \ {0} /\ Len(Tail(f[d])) = Len(f[d]) - 1
  BY HeadTail
<1>2. g \in [D -> Seq(S)] /\ Family(f, D)
  BY <1>1 DEF Family
<1>3. Len(f[d]) = Len(g[d]) + 1
  BY <1>1
<1>4. \A x \in D \ {d} : Len(f[x]) = Len(g[x])
  OBVIOUS
<1>5. Family(g, D)
  BY <1>2 DEF Family
<1>6. Lengths(f) = Lengths(g) + 1
  BY <1>2, <1>3, <1>4, <1>5, LengthsGrow
<1>7. Lengths(f) \in Nat /\ Lengths(g) \in Nat
  BY <1>2, <1>5, SlotsFinite
<1>8. QED
  BY <1>6, <1>7
-----------------------------------------------------------------------------
(* Every frame is accounted for                                            *)

LEMMA SinksFinite == IsFiniteSet(Sinks) /\ IsFiniteSet(Drained)
<1>1. IsFiniteSet({"hk"} \cup {"event"})
  BY FS_Singleton, FS_AddElement
<1>2. IsFiniteSet(({"hk"} \cup {"event"}) \cup {"rover"})
  BY <1>1, FS_AddElement
<1>3. IsFiniteSet((({"hk"} \cup {"event"}) \cup {"rover"}) \cup {"cfdp"})
  BY <1>2, FS_AddElement
<1>4. /\ Drained = ({"hk"} \cup {"event"}) \cup {"rover"}
      /\ Sinks = (({"hk"} \cup {"event"}) \cup {"rover"}) \cup {"cfdp"}
  BY DEF Sinks, Drained
<1>5. QED
  BY <1>2, <1>3, <1>4

LEMMA TermsAreNat ==
  ASSUME PipeType
  PROVE  /\ Lengths(vcQ) \in Nat /\ Lengths(sppQ) \in Nat /\ Lengths(relay) \in Nat
         /\ Lengths(sinkQ) \in Nat /\ Lengths(drain) \in Nat
         /\ Len(frameQ) \in Nat /\ Len(tagQ) \in Nat /\ Len(arrivals) \in Nat
         /\ count.demux \in Nat /\ count.unknownVc \in Nat
         /\ count.decodeFail \in Nat /\ count.decoder \in Nat
         /\ forbidden \in Nat /\ received \in Nat
<1>1. /\ Family(vcQ, Vcs) /\ Family(sppQ, Vcs) /\ Family(relay, Vcs)
      /\ Family(sinkQ, Sinks) /\ Family(drain, Drained)
  BY DEF PipeType, Family
<1>2. /\ Lengths(vcQ) \in Nat /\ Lengths(sppQ) \in Nat /\ Lengths(relay) \in Nat
      /\ Lengths(sinkQ) \in Nat /\ Lengths(drain) \in Nat
  BY <1>1, SinksFinite, SlotsFinite, Capacities
<1>3. QED
  BY SMTT(30), <1>2 DEF PipeType, Counts

LEMMA SumOfFour ==
  ASSUME NEW a \in Nat, NEW b \in Nat, NEW c \in Nat, NEW d \in Nat
  PROVE  /\ a + b + c + d \in Nat
         /\ (a + 1) + b + c + d = (a + b + c + d) + 1
         /\ a + (b + 1) + c + d = (a + b + c + d) + 1
         /\ a + b + (c + 1) + d = (a + b + c + d) + 1
         /\ a + b + c + (d + 1) = (a + b + c + d) + 1
OBVIOUS

LEMMA SumOfFive ==
  ASSUME NEW a \in Nat, NEW b \in Nat, NEW c \in Nat, NEW d \in Nat, NEW e \in Nat
  PROVE  a + b + c + d + e \in Nat
OBVIOUS

LEMMA GroupsAreNat ==
  ASSUME PipeType
  PROVE  /\ OnTheWay \in Nat /\ Sunk \in Nat /\ Counted \in Nat
         /\ forbidden \in Nat /\ received \in Nat
<1>1. OnTheWay \in Nat
  BY TermsAreNat, SumOfFive DEF OnTheWay
<1>2. Sunk \in Nat
  BY SMTT(30), TermsAreNat DEF Sunk
<1>3. Counted \in Nat
  BY TermsAreNat, SumOfFour DEF Counted
<1>4. QED
  BY <1>1, <1>2, <1>3, TermsAreNat

LEMMA AccountInit ==
  ASSUME Init
  PROVE  Missing = 0
<1>1. ASSUME NEW D, IsFiniteSet(D), NEW h, h = [x \in D |-> <<>>]
      PROVE  Lengths(h) = 0
  <2>1. Slots(h) = {}
    BY <1>1 DEF Slots
  <2>2. QED
    BY <2>1, FS_EmptySet DEF Lengths
<1>2. /\ Lengths(vcQ) = 0 /\ Lengths(sppQ) = 0 /\ Lengths(relay) = 0
      /\ Lengths(sinkQ) = 0 /\ Lengths(drain) = 0
  BY <1>1, SinksFinite, Capacities DEF Init
<1>3. Len(frameQ) = 0 /\ Len(tagQ) = 0 /\ Len(arrivals) = 0
  BY EmptySeq DEF Init
<1>4. OnTheWay = 0 /\ Sunk = 0
  BY <1>2, <1>3 DEF OnTheWay, Sunk
<1>5. Counted = 0 /\ forbidden = 0 /\ received = 0
  BY DEF Init, Counted
<1>6. QED
  BY <1>4, <1>5 DEF Missing

LEMMA AccountForward ==
  ASSUME PipeType, Forward
  PROVE  AccountedStep
<1>1. PICK in \in Inputs :
        LET f == [n |-> received', vc |-> in[1], apid |-> in[2]]
        IN  frameQ' = IF Len(frameQ) < FrameCap THEN Append(frameQ, f) ELSE frameQ
  BY DEF Forward
<1> DEFINE f == [n |-> received', vc |-> in[1], apid |-> in[2]]
<1>2. frameQ \in Seq(Frames) /\ f \in Frames
  BY NewFrame DEF Forward, PipeType
<1> HIDE DEF f
<1>3. UNCHANGED <<vcQ, sppQ, relay, tagQ, sinkQ, drain, arrivals, count, forbidden>>
  BY DEF Forward
<1>4. Sunk' = Sunk /\ Counted' = Counted /\ received' = received + 1
  BY <1>3 DEF Sunk, Counted, Forward
<1>5. CASE Len(frameQ) < FrameCap
  <2>1. frameQ' = Append(frameQ, f)
    BY <1>1, <1>5 DEF f
  <2>2. Len(frameQ') = Len(frameQ) + 1
    BY <2>1, <1>2, AppendProperties
  <2>3. OnTheWay' = OnTheWay + 1
    BY SMTT(30), <2>2, <1>3, TermsAreNat DEF OnTheWay
  <2>4. Missing' = Missing
    BY <2>3, <1>3, <1>4, GroupsAreNat DEF Missing
  <2>5. QED
    BY <2>4 DEF AccountedStep
<1>6. CASE ~(Len(frameQ) < FrameCap)
  <2>1. frameQ' = frameQ
    BY <1>1, <1>6
  <2>2. OnTheWay' = OnTheWay
    BY <2>1, <1>3 DEF OnTheWay
  <2>3. Missing' = Missing + 1
    BY <2>2, <1>3, <1>4, GroupsAreNat DEF Missing
  <2>4. Len(frameQ) \in Nat /\ FrameCap \in Nat
    BY TermsAreNat, CapacityAssumption
  <2>5. SentInVain
    BY <2>4, <1>4, <1>6 DEF SentInVain
  <2>6. QED
    BY <2>3, <2>5 DEF AccountedStep
<1>7. QED
  BY <1>5, <1>6

LEMMA CountedUp ==
  ASSUME PipeType,
         \/ count' = [count EXCEPT !.demux = @ + 1]
         \/ count' = [count EXCEPT !.unknownVc = @ + 1]
         \/ count' = [count EXCEPT !.decodeFail = @ + 1]
         \/ count' = [count EXCEPT !.decoder = @ + 1]
  PROVE  Counted' = Counted + 1
<1> DEFINE a == count.demux
           b == count.unknownVc
           c == count.decodeFail
           d == count.decoder
<1>1. count = [demux |-> a, unknownVc |-> b, decodeFail |-> c, decoder |-> d]
  BY DEF PipeType, Counts
<1>2. a \in Nat /\ b \in Nat /\ c \in Nat /\ d \in Nat
  BY TermsAreNat
<1>3. Counted = a + b + c + d
  BY DEF Counted
<1> HIDE DEF a, b, c, d
<1>4. \/ Counted' = (a + 1) + b + c + d
      \/ Counted' = a + (b + 1) + c + d
      \/ Counted' = a + b + (c + 1) + d
      \/ Counted' = a + b + c + (d + 1)
  BY <1>1 DEF Counted
<1>5. QED
  BY <1>2, <1>3, <1>4, SumOfFour

LEMMA AccountDemux ==
  ASSUME PipeType, Demux
  PROVE  AccountedStep
<1> DEFINE f == Head(frameQ)
<1>1. f \in Frames /\ Len(frameQ') = Len(frameQ) - 1
  BY HeadTail DEF Demux, PipeType
<1>2. UNCHANGED <<received, sppQ, relay, tagQ, sinkQ, drain, arrivals, forbidden>>
  BY DEF Demux
<1>3. Sunk' = Sunk
  BY <1>2 DEF Sunk
<1>4. vcQ' = vcQ => OnTheWay' = OnTheWay - 1
  BY SMTT(30), <1>1, <1>2, TermsAreNat DEF OnTheWay
<1>5. CASE f.vc = VcIdle /\ UNCHANGED <<vcQ, count>>
  <2>1. Counted' = Counted
    BY <1>5 DEF Counted
  <2>2. Missing' = Missing + 1
    BY <2>1, <1>2, <1>3, <1>4, <1>5, GroupsAreNat DEF Missing
  <2>3. ThrownAway
    BY <1>5 DEF Demux, ThrownAway
  <2>4. QED
    BY <2>2, <2>3 DEF AccountedStep
<1>6. CASE /\ f.vc \in Vcs /\ vcQ' = [vcQ EXCEPT ![f.vc] = Append(@, f)]
           /\ UNCHANGED count
  <2>1. vcQ \in [Vcs -> Seq(Frames)] /\ IsFiniteSet(Vcs)
    BY Capacities DEF PipeType
  <2> DEFINE v == f.vc
             q == vcQ'
  <2>2. v \in Vcs /\ f \in Frames /\ q = [vcQ EXCEPT ![v] = Append(@, f)]
    BY <1>1, <1>6
  <2> HIDE DEF f, v, q
  <2>3. Lengths(q) = Lengths(vcQ) + 1
    BY ZenonT(30), <2>1, <2>2, LengthsPut
  <2>4. Lengths(vcQ') = Lengths(vcQ) + 1
    BY <2>3 DEF q
  <2>5. OnTheWay' = OnTheWay
    BY <2>4, <1>1, <1>2, TermsAreNat DEF OnTheWay
  <2>6. Counted' = Counted
    BY <1>6 DEF Counted
  <2>7. QED
    BY <2>5, <2>6, <1>2, <1>3 DEF Missing, AccountedStep
<1>7. CASE /\ \/ count' = [count EXCEPT !.demux = @ + 1]
              \/ count' = [count EXCEPT !.unknownVc = @ + 1]
           /\ UNCHANGED vcQ
  <2>1. Counted' = Counted + 1
    BY <1>7, CountedUp
  <2>2. Missing' = Missing
    BY <2>1, <1>2, <1>3, <1>4, <1>7, GroupsAreNat DEF Missing
  <2>3. QED
    BY <2>2 DEF AccountedStep
<1>8. QED
  BY <1>5, <1>6, <1>7 DEF Demux

LEMMA AccountDecode ==
  ASSUME PipeType, NEW v \in Vcs, Decode(v)
  PROVE  AccountedStep
<1> DEFINE f == Head(vcQ[v])
<1>1. vcQ \in [Vcs -> Seq(Frames)] /\ sppQ \in [Vcs -> Seq(Frames)]
  BY DEF PipeType
<1>2. vcQ[v] # <<>> /\ vcQ' = [vcQ EXCEPT ![v] = Tail(@)]
  BY DEF Decode
<1>3. Lengths(vcQ') = Lengths(vcQ) - 1
  BY <1>1, <1>2, Capacities, LengthsTake
<1>4. f \in Frames
  BY <1>1, <1>2, HeadTail
<1>5. UNCHANGED <<received, frameQ, relay, tagQ, sinkQ, drain, arrivals, forbidden>>
  BY DEF Decode
<1>6. Sunk' = Sunk
  BY <1>5 DEF Sunk
<1>7. CASE sppQ' = [sppQ EXCEPT ![v] = Append(@, f)] /\ UNCHANGED count
  <2>1. Lengths(sppQ') = Lengths(sppQ) + 1
    BY ZenonT(30), <1>1, <1>4, <1>7, Capacities, LengthsPut
  <2>2. OnTheWay' = OnTheWay
    BY <2>1, <1>3, <1>5, TermsAreNat DEF OnTheWay
  <2>3. Counted' = Counted
    BY <1>7 DEF Counted
  <2>4. QED
    BY <2>2, <2>3, <1>5, <1>6 DEF Missing, AccountedStep
<1>8. CASE /\ \/ count' = [count EXCEPT !.decodeFail = @ + 1]
              \/ count' = [count EXCEPT !.decoder = @ + 1]
           /\ UNCHANGED sppQ
  <2>1. OnTheWay' = OnTheWay - 1
    BY <1>3, <1>5, <1>8, TermsAreNat DEF OnTheWay
  <2>2. Counted' = Counted + 1
    BY <1>8, CountedUp
  <2>3. Missing' = Missing
    BY <2>1, <2>2, <1>5, <1>6, GroupsAreNat DEF Missing
  <2>4. QED
    BY <2>3 DEF AccountedStep
<1>9. QED
  BY <1>7, <1>8 DEF Decode

LEMMA AccountRelayTake ==
  ASSUME PipeType, NEW v \in Vcs, RelayTake(v)
  PROVE  AccountedStep
<1> DEFINE f == Head(sppQ[v])
<1>1. sppQ \in [Vcs -> Seq(Frames)] /\ relay \in [Vcs -> Seq(Frames)]
  BY DEF PipeType
<1>2. sppQ[v] # <<>> /\ sppQ' = [sppQ EXCEPT ![v] = Tail(@)]
  BY DEF RelayTake
<1>3. Lengths(sppQ') = Lengths(sppQ) - 1
  BY <1>1, <1>2, Capacities, LengthsTake
<1>4. f \in Frames
  BY <1>1, <1>2, HeadTail
<1>5. relay' = [relay EXCEPT ![v] = Append(@, f)]
  <2>1. relay[v] = <<>> /\ relay' = [relay EXCEPT ![v] = <<f>>]
    BY DEF RelayTake
  <2>2. Append(<<>>, f) = <<f>>
    OBVIOUS
  <2>3. QED
    BY <2>1, <2>2
<1>6. Lengths(relay') = Lengths(relay) + 1
  BY ZenonT(30), <1>1, <1>4, <1>5, Capacities, LengthsPut
<1>7. UNCHANGED <<received, frameQ, vcQ, tagQ, sinkQ, drain, arrivals, count, forbidden>>
  BY DEF RelayTake
<1>8. OnTheWay' = OnTheWay
  BY <1>3, <1>6, <1>7, TermsAreNat DEF OnTheWay
<1>9. Sunk' = Sunk /\ Counted' = Counted
  BY <1>7 DEF Sunk, Counted
<1>10. QED
  BY <1>7, <1>8, <1>9 DEF Missing, AccountedStep

LEMMA AccountRelaySend ==
  ASSUME PipeType, NEW v \in Vcs, RelaySend(v)
  PROVE  AccountedStep
<1>1. relay \in [Vcs -> Seq(Frames)] /\ tagQ \in Seq(Frames)
  BY DEF PipeType
<1>2. /\ relay[v] # <<>> /\ relay' = [relay EXCEPT ![v] = Tail(@)]
      /\ tagQ' = Append(tagQ, Head(relay[v]))
  BY DEF RelaySend
<1>3. Lengths(relay') = Lengths(relay) - 1
  BY <1>1, <1>2, Capacities, LengthsTake
<1>4. Head(relay[v]) \in Frames
  BY <1>1, <1>2, HeadTail
<1>5. Len(tagQ') = Len(tagQ) + 1
  BY <1>1, <1>2, <1>4, AppendProperties
<1>6. UNCHANGED <<received, frameQ, vcQ, sppQ, sinkQ, drain, arrivals, count, forbidden>>
  BY DEF RelaySend
<1>7. OnTheWay' = OnTheWay
  <2> DEFINE a == Len(frameQ)
             b == Lengths(vcQ)
             c == Lengths(sppQ)
             d == Lengths(relay)
             e == Len(tagQ)
  <2>1. a \in Nat /\ b \in Nat /\ c \in Nat /\ d \in Nat /\ e \in Nat
    BY TermsAreNat
  <2>2. OnTheWay = a + b + c + d + e
    BY DEF OnTheWay
  <2>3. OnTheWay' = a + b + c + (d - 1) + (e + 1)
    BY <1>3, <1>5, <1>6 DEF OnTheWay
  <2> HIDE DEF a, b, c, d, e
  <2>4. QED
    BY <2>1, <2>2, <2>3
<1>8. Sunk' = Sunk /\ Counted' = Counted
  BY <1>6 DEF Sunk, Counted
<1>9. QED
  BY <1>6, <1>7, <1>8 DEF Missing, AccountedStep

LEMMA SinksHoldFrames ==
  ASSUME PipeType
  PROVE  sinkQ \in [Sinks -> Seq(Frames)] /\ drain \in [Drained -> Seq(Frames)]
<1>1. \A q \in Seq(Good) : q \in Seq(Frames)
  BY SeqMonotonic DEF Good
<1>2. QED
  BY <1>1 DEF PipeType

LEMMA AccountRoute ==
  ASSUME PipeType, RouteOne
  PROVE  AccountedStep
<1> DEFINE f == Head(tagQ)
           to == Route(f.vc, f.apid)
<1>1. f \in Frames /\ Len(tagQ') = Len(tagQ) - 1
  BY HeadTail DEF RouteOne, PipeType
<1>2. UNCHANGED <<received, frameQ, vcQ, sppQ, relay, drain, count, arrivals>>
  BY DEF RouteOne
<1>3. OnTheWay' = OnTheWay - 1
  <2>1. OnTheWay' = Len(frameQ) + Lengths(vcQ) + Lengths(sppQ) + Lengths(relay) + Len(tagQ')
    BY <1>2 DEF OnTheWay
  <2>2. QED
    BY <2>1, <1>1, TermsAreNat DEF OnTheWay
<1>4. Counted' = Counted
  BY <1>2 DEF Counted
<1>5. sinkQ' = sinkQ => Sunk' = Sunk
  BY <1>2 DEF Sunk
<1>6. CASE /\ to \in Sinks /\ sinkQ' = [sinkQ EXCEPT ![to] = Append(@, f)]
           /\ UNCHANGED forbidden
  <2>1. sinkQ \in [Sinks -> Seq(Frames)]
    BY SinksHoldFrames
  <2> DEFINE q == sinkQ'
  <2>2. to \in Sinks /\ f \in Frames /\ q = [sinkQ EXCEPT ![to] = Append(@, f)]
    BY <1>1, <1>6
  <2> HIDE DEF f, to, q
  <2>3. Lengths(q) = Lengths(sinkQ) + 1
    BY ZenonT(30), <2>1, <2>2, SinksFinite, LengthsPut
  <2>4. Lengths(sinkQ') = Lengths(sinkQ) + 1
    BY <2>3 DEF q
  <2>5. Sunk' = Sunk + 1
    BY <2>4, <1>2, TermsAreNat DEF Sunk
  <2>6. Missing' = Missing
    BY <2>5, <1>2, <1>3, <1>4, <1>6, GroupsAreNat DEF Missing
  <2>7. QED
    BY <2>6 DEF AccountedStep
<1>7. CASE /\ \/ to \in Sinks /\ Len(sinkQ[to]) >= SinkCap
              \/ to \in {"idle", "unknown"}
           /\ UNCHANGED <<sinkQ, forbidden>>
  <2>1. Missing' = Missing + 1
    BY <1>2, <1>3, <1>4, <1>5, <1>7, GroupsAreNat DEF Missing
  <2>2. tagQ # <<>> /\ tagQ' = Tail(tagQ)
    BY DEF RouteOne
  <2>3. SentInVain \/ ThrownAway
    BY Zenon, <2>2, <1>7 DEF SentInVain, ThrownAway
  <2>4. QED
    BY <2>1, <2>3 DEF AccountedStep
<1>8. CASE forbidden' = forbidden + 1 /\ UNCHANGED sinkQ
  <2>1. Missing' = Missing
    BY <1>2, <1>3, <1>4, <1>5, <1>8, GroupsAreNat DEF Missing
  <2>2. QED
    BY <2>1 DEF AccountedStep
<1>9. QED
  BY <1>6, <1>7, <1>8 DEF RouteOne

LEMMA AccountDrainTake ==
  ASSUME PipeType, NEW s \in Drained, DrainTake(s)
  PROVE  AccountedStep
<1> DEFINE f == Head(sinkQ[s])
<1>1. /\ s \in Sinks /\ sinkQ \in [Sinks -> Seq(Frames)]
      /\ drain \in [Drained -> Seq(Frames)]
  BY SinksHoldFrames DEF Sinks, Drained
<1>2. sinkQ[s] # <<>> /\ sinkQ' = [sinkQ EXCEPT ![s] = Tail(@)]
  BY DEF DrainTake
<1>3. Lengths(sinkQ') = Lengths(sinkQ) - 1
  BY <1>1, <1>2, SinksFinite, LengthsTake
<1>4. f \in Frames
  BY <1>1, <1>2, HeadTail
<1>5. drain' = [drain EXCEPT ![s] = Append(@, f)]
  <2>1. drain[s] = <<>> /\ drain' = [drain EXCEPT ![s] = <<f>>]
    BY DEF DrainTake
  <2>2. Append(<<>>, f) = <<f>>
    OBVIOUS
  <2>3. QED
    BY <2>1, <2>2
<1>6. Lengths(drain') = Lengths(drain) + 1
  BY ZenonT(30), <1>1, <1>4, <1>5, SinksFinite, LengthsPut
<1>7. UNCHANGED <<received, frameQ, vcQ, sppQ, relay, tagQ, arrivals, count, forbidden>>
  BY DEF DrainTake
<1>8. Sunk' = Sunk
  BY <1>3, <1>6, <1>7, TermsAreNat DEF Sunk
<1>9. OnTheWay' = OnTheWay /\ Counted' = Counted
  BY <1>7 DEF OnTheWay, Counted
<1>10. QED
  BY <1>7, <1>8, <1>9 DEF Missing, AccountedStep

LEMMA DrainsOne ==
  ASSUME PipeType, NEW s \in Drained, drain[s] # <<>>
  PROVE  Len(drain[s]) = 1
<1> DEFINE n == Len(drain[s])
<1>1. drain[s] \in Seq(Good)
  BY DEF PipeType
<1>2. n <= 1
  BY DEF PipeType
<1>3. n \in Nat \ {0}
  BY <1>1, EmptySeq
<1> HIDE DEF n
<1>4. n = 1
  BY <1>2, <1>3
<1>5. QED
  BY <1>4 DEF n

LEMMA AccountStore ==
  ASSUME PipeType, NEW s \in Drained, drain[s] # <<>>,
         drain' = [drain EXCEPT ![s] = <<>>],
         arrivals' = Append(arrivals, Head(drain[s])),
         UNCHANGED <<received, frameQ, vcQ, sppQ, relay, tagQ, sinkQ, count, forbidden>>
  PROVE  AccountedStep
<1>1. drain \in [Drained -> Seq(Good)] /\ drain[s] \in Seq(Good)
  BY DEF PipeType
<1>2. Head(drain[s]) \in Good
  BY <1>1, HeadTail
<1>3. Tail(drain[s]) = <<>>
  <2>1. Len(drain[s]) = 1
    BY DrainsOne
  <2>2. Tail(drain[s]) \in Seq(Good) /\ Len(Tail(drain[s])) = 0
    BY <1>1, <2>1, HeadTail
  <2>3. QED
    BY <2>2, EmptySeq
<1>4. drain' = [drain EXCEPT ![s] = Tail(@)]
  BY <1>3
<1>5. Lengths(drain') = Lengths(drain) - 1
  BY <1>1, <1>4, SinksFinite, LengthsTake
<1>6. Len(arrivals') = Len(arrivals) + 1
  BY <1>2, AppendProperties DEF PipeType
<1>7. Sunk' = Sunk
  <2> DEFINE a == Lengths(sinkQ)
             b == Lengths(drain)
             c == Len(arrivals)
  <2>1. a \in Nat /\ b \in Nat /\ c \in Nat /\ Sunk = a + b + c
    BY TermsAreNat DEF Sunk
  <2>2. Sunk' = a + (b - 1) + (c + 1)
    BY <1>5, <1>6 DEF Sunk
  <2> HIDE DEF a, b, c
  <2>3. QED
    BY <2>1, <2>2
<1>8. OnTheWay' = OnTheWay /\ Counted' = Counted
  BY DEF OnTheWay, Counted
<1>9. QED
  BY <1>7, <1>8 DEF Missing, AccountedStep

LEMMA AccountStep ==
  ASSUME PipeType, Next
  PROVE  AccountedStep
<1>1. CASE Snapshot
  BY <1>1 DEF Snapshot, AccountedStep, Missing, OnTheWay, Sunk, Counted
<1>2. ASSUME NEW v \in Vcs, VcTask(v)
      PROVE  AccountedStep
  BY <1>2, AccountDecode, AccountRelayTake, AccountRelaySend DEF VcTask
<1>3. ASSUME NEW s \in Drained, SinkTask(s)
      PROVE  AccountedStep
  <2>1. CASE DrainTake(s)
    BY <2>1, AccountDrainTake
  <2>2. CASE StoreHk(s)
    BY <2>2, AccountStore DEF StoreHk
  <2>3. CASE s = "event" /\ StoreEvent
    BY <2>3, AccountStore DEF StoreEvent
  <2>4. QED
    BY <1>3, <2>1, <2>2, <2>3 DEF SinkTask
<1>4. QED
  BY <1>1, <1>2, <1>3, AccountForward, AccountDemux, AccountRoute DEF Next

\* Nothing the link brought is counted twice, and a frame goes missing only
\* where the code throws it away on purpose or where framer or router send to
\* a full channel, for any capacities of the channels.
THEOREM AlwaysAccounted == Spec => EveryFrameAccounted
<1>1. Init => Missing = 0
  BY AccountInit
<1>2. PipeType /\ [Next]_pvars => [AccountedStep]_pvars
  BY AccountStep
<1>3. QED
  BY <1>1, <1>2, PipeTyped, PTL DEF Spec, EveryFrameAccounted
-----------------------------------------------------------------------------
(* The order of a virtual channel's frames: what its frames pass, the      *)
(* newest first, is a line of eight stages, and every step takes the first *)
(* frame of a stage and puts it at the end of the next, or loses it.       *)

Line(v) == <<frameQ, vcQ[v], sppQ[v], relay[v], tagQ, sinkQ["event"],
             drain["event"], events>>
Lines == [1..8 -> Seq(Frames)]

\* What is in a later stage, or ahead in the same, is older.
InTurn(v, st) ==
  \A a, b \in 1..8 : \A i \in 1..Len(st[a]), j \in 1..Len(st[b]) :
    /\ b < a \/ (a = b /\ i < j)
    /\ st[a][i].vc = v /\ st[b][j].vc = v
    => st[a][i].n < st[b][j].n

Known(st, n) == \A a \in 1..8 : \A i \in 1..Len(st[a]) : st[a][i].n <= n

LEMMA LineType ==
  ASSUME NEW st \in Lines, NEW a \in 1..8
  PROVE  /\ st[a] \in Seq(Frames) /\ Len(st[a]) \in Nat
         /\ \A i \in 1..Len(st[a]) : st[a][i] \in Frames /\ st[a][i].n \in Int
<1>1. st[a] \in Seq(Frames)
  BY DEF Lines
<1>2. \A i \in 1..Len(st[a]) : st[a][i] \in Frames
  BY <1>1, ElementOfSeq
<1>3. \A f \in Frames : f.n \in Int
  BY Capacities DEF Frames
<1>4. QED
  BY <1>1, <1>2, <1>3

\* The first of a stage goes to the end of the next.
Moved(st, st2, k) ==
  /\ Len(st[k]) = Len(st2[k]) + 1
  /\ \A y \in 1..Len(st2[k]) : st2[k][y] = st[k][y + 1]
  /\ Len(st2[k + 1]) = Len(st[k + 1]) + 1
  /\ \A y \in 1..Len(st[k + 1]) : st2[k + 1][y] = st[k + 1][y]
  /\ st2[k + 1][Len(st[k + 1]) + 1] = st[k][1]
  /\ \A a \in 1..8 \ {k, k + 1} : st2[a] = st[a]

\* The frame at place i of stage a was at place i0 of stage a0.
Came(st, st2, k, a, i, a0, i0) ==
  /\ st2[a][i] = st[a0][i0]
  /\ \/ a = k /\ a0 = k /\ i0 = i + 1
     \/ a = k + 1 /\ i = Len(st2[a]) /\ a0 = k /\ i0 = 1
     \/ a # k /\ a0 = a /\ i0 = i

LEMMA MovedFrom ==
  ASSUME NEW st \in Lines, NEW st2 \in Lines, NEW k \in 1..7, Moved(st, st2, k),
         NEW a \in 1..8, NEW i \in 1..Len(st2[a])
  PROVE  \E a0 \in 1..8 : \E i0 \in 1..Len(st[a0]) : Came(st, st2, k, a, i, a0, i0)
<1>1. k + 1 \in 1..8
  OBVIOUS
<1>2. /\ Len(st[k]) \in Nat /\ Len(st2[k]) \in Nat
      /\ Len(st[k + 1]) \in Nat /\ Len(st2[k + 1]) \in Nat
  BY SMTT(30), <1>1, LineType
<1>3. CASE a = k
  <2>1. st2[k][i] = st[k][i + 1] /\ i + 1 \in 1..Len(st[k])
    BY <1>2, <1>3 DEF Moved
  <2>2. QED
    BY <1>3, <2>1 DEF Came
<1>4. CASE a = k + 1
  <2>1. CASE i = Len(st2[k + 1])
    <3>1. st2[k + 1][i] = st[k][1] /\ 1 \in 1..Len(st[k]) /\ k \in 1..8
      BY <1>2, <2>1 DEF Moved
    <3>2. QED
      BY <1>4, <2>1, <3>1 DEF Came
  <2>2. CASE i # Len(st2[k + 1])
    <3>1. st2[k + 1][i] = st[k + 1][i] /\ i \in 1..Len(st[k + 1])
      BY <1>2, <1>4, <2>2 DEF Moved
    <3>2. QED
      BY <1>1, <1>4, <3>1 DEF Came
  <2>3. QED
    BY <2>1, <2>2
<1>5. CASE a # k /\ a # k + 1
  BY <1>5 DEF Moved, Came
<1>6. QED
  BY <1>3, <1>4, <1>5

LEMMA MoveKeeps ==
  ASSUME NEW st \in Lines, NEW st2 \in Lines, NEW v, NEW n \in Nat,
         InTurn(v, st), Known(st, n), NEW k \in 1..7, st[k] # <<>>,
         st2[k] = Tail(st[k]), st2[k + 1] = Append(st[k + 1], Head(st[k])),
         \A a \in 1..8 \ {k, k + 1} : st2[a] = st[a]
  PROVE  InTurn(v, st2) /\ Known(st2, n)
<1>1. k \in 1..8 /\ k + 1 \in 1..8
  OBVIOUS
<1>2. st[k] \in Seq(Frames) /\ st[k + 1] \in Seq(Frames)
  BY <1>1, LineType, Zenon
<1>3. /\ Len(st[k]) = Len(st2[k]) + 1
      /\ \A y \in 1..Len(st2[k]) : st2[k][y] = st[k][y + 1]
      /\ Head(st[k]) = st[k][1] /\ Head(st[k]) \in Frames
  BY <1>2, HeadTail
<1>4. /\ Len(st2[k + 1]) = Len(st[k + 1]) + 1
      /\ \A y \in 1..Len(st[k + 1]) : st2[k + 1][y] = st[k + 1][y]
      /\ st2[k + 1][Len(st[k + 1]) + 1] = st[k][1]
  BY <1>2, <1>3, AppendProperties
<1>5. ASSUME NEW a \in 1..8, NEW i \in 1..Len(st2[a])
      PROVE  \E a0 \in 1..8 : \E i0 \in 1..Len(st[a0]) : Came(st, st2, k, a, i, a0, i0)
  <2>1. Moved(st, st2, k)
    BY <1>3, <1>4 DEF Moved
  <2>2. QED
    BY <2>1, MovedFrom
<1>6. Known(st2, n)
  BY ZenonT(30), <1>5 DEF Known, Came
<1>7. ASSUME NEW a \in 1..8, NEW b \in 1..8, NEW i \in 1..Len(st2[a]),
             NEW j \in 1..Len(st2[b]), b < a \/ (a = b /\ i < j),
             st2[a][i].vc = v, st2[b][j].vc = v
      PROVE  st2[a][i].n < st2[b][j].n
  <2>1. PICK a0 \in 1..8 : \E i0 \in 1..Len(st[a0]) : Came(st, st2, k, a, i, a0, i0)
    BY <1>5
  <2>2. PICK i0 \in 1..Len(st[a0]) : Came(st, st2, k, a, i, a0, i0)
    BY <2>1
  <2>3. PICK b0 \in 1..8 : \E j0 \in 1..Len(st[b0]) : Came(st, st2, k, b, j, b0, j0)
    BY <1>5
  <2>4. PICK j0 \in 1..Len(st[b0]) : Came(st, st2, k, b, j, b0, j0)
    BY <2>3
  <2>5. b0 < a0 \/ (a0 = b0 /\ i0 < j0)
    <3>1. Len(st2[a]) \in Nat /\ Len(st2[b]) \in Nat
      BY LineType, Zenon
    <3>2. QED
      BY SMTT(30), <1>7, <2>2, <2>4, <3>1 DEF Came
  <2>6. st[a0][i0].n < st[b0][j0].n
    BY <1>7, <2>2, <2>4, <2>5 DEF InTurn, Came
  <2>7. QED
    BY <2>2, <2>4, <2>6 DEF Came
<1>8. QED
  BY <1>6, <1>7 DEF InTurn

\* A stage loses its first frames.
LEMMA ThinKeeps ==
  ASSUME NEW st \in Lines, NEW st2 \in Lines, NEW v, NEW n \in Nat,
         InTurn(v, st), Known(st, n), NEW k \in 1..8, NEW d \in Nat,
         Len(st[k]) = Len(st2[k]) + d,
         \A i \in 1..Len(st2[k]) : st2[k][i] = st[k][i + d],
         \A a \in 1..8 \ {k} : st2[a] = st[a]
  PROVE  InTurn(v, st2) /\ Known(st2, n)
<1> DEFINE At(a, i) == IF a = k THEN i + d ELSE i
<1>1. ASSUME NEW a \in 1..8, NEW i \in 1..Len(st2[a])
      PROVE  st2[a][i] = st[a][At(a, i)] /\ At(a, i) \in 1..Len(st[a])
  <2>1. Len(st2[k]) \in Nat /\ Len(st[k]) \in Nat
    BY LineType
  <2>2. CASE a = k
    BY <2>1, <2>2
  <2>3. CASE a # k
    BY <2>3
  <2>4. QED
    BY <2>2, <2>3
<1>2. ASSUME NEW a, NEW i \in Int, NEW j \in Int, i < j
      PROVE  At(a, i) < At(a, j)
  BY <1>2
<1> HIDE DEF At
<1>3. Known(st2, n)
  BY <1>1 DEF Known
<1>4. ASSUME NEW a \in 1..8, NEW b \in 1..8, NEW i \in 1..Len(st2[a]),
             NEW j \in 1..Len(st2[b]), b < a \/ (a = b /\ i < j),
             st2[a][i].vc = v, st2[b][j].vc = v
      PROVE  st2[a][i].n < st2[b][j].n
  <2>1. b < a \/ (a = b /\ At(a, i) < At(b, j))
    BY <1>2, <1>4
  <2>2. st[a][At(a, i)].n < st[b][At(b, j)].n
    BY <1>1, <1>4, <2>1 DEF InTurn
  <2>3. QED
    BY <1>1, <2>2
<1>5. QED
  BY <1>3, <1>4 DEF InTurn

\* A frame of another channel comes into stage k.
AlienAt(st, st2, v, n, k, f) ==
  /\ f \in Frames /\ f.vc # v /\ f.n <= n
  /\ st2[k] = Append(st[k], f)
  /\ \A a \in 1..8 \ {k} : st2[a] = st[a]

LEMMA AlienKeeps ==
  ASSUME NEW st \in Lines, NEW st2 \in Lines, NEW v, NEW n \in Nat,
         InTurn(v, st), Known(st, n), NEW k \in 1..8, NEW f,
         AlienAt(st, st2, v, n, k, f)
  PROVE  InTurn(v, st2) /\ Known(st2, n)
<1> USE DEF AlienAt
<1>1. ASSUME NEW a \in 1..8, NEW i \in 1..Len(st2[a])
      PROVE  \/ st2[a][i] = st[a][i] /\ i \in 1..Len(st[a])
             \/ st2[a][i] = f
  <2>1. st[k] \in Seq(Frames)
    BY DEF Lines
  <2>2. CASE a = k
    BY <2>1, <2>2, AppendProperties
  <2>3. CASE a # k
    BY <2>3
  <2>4. QED
    BY <2>2, <2>3
<1>2. Known(st2, n)
  BY <1>1 DEF Known
<1>3. InTurn(v, st2)
  BY ZenonT(30), <1>1 DEF InTurn
<1>4. QED
  BY <1>2, <1>3

\* A new frame joins the first stage.
LEMMA PushKeeps ==
  ASSUME NEW st \in Lines, NEW st2 \in Lines, NEW v, NEW n \in Nat,
         InTurn(v, st), Known(st, n), NEW f \in Frames, f.n = n + 1,
         st2[1] = Append(st[1], f), \A a \in 2..8 : st2[a] = st[a]
  PROVE  InTurn(v, st2) /\ Known(st2, n + 1)
<1>1. /\ Len(st2[1]) = Len(st[1]) + 1 /\ Len(st[1]) \in Nat
      /\ st2[1][Len(st[1]) + 1] = f
      /\ \A i \in 1..Len(st[1]) : st2[1][i] = st[1][i]
  <2>1. st[1] \in Seq(Frames)
    BY LineType
  <2>2. QED
    BY <2>1, AppendProperties
<1>2. ASSUME NEW a \in 1..8, NEW i \in 1..Len(st2[a])
      PROVE  \/ st2[a][i] = st[a][i] /\ i \in 1..Len(st[a])
             \/ a = 1 /\ i = Len(st2[1]) /\ st2[a][i] = f
  <2>1. CASE a = 1
    <3>1. i = Len(st[1]) + 1 \/ i \in 1..Len(st[1])
      BY <1>1, <2>1
    <3>2. QED
      BY <1>1, <2>1, <3>1
  <2>2. CASE a \in 2..8
    BY <2>2
  <2>3. QED
    BY <2>1, <2>2
<1>3. \A a \in 1..8 : \A i \in 1..Len(st[a]) : st[a][i].n <= n /\ st[a][i].n \in Int
  BY LineType DEF Known
<1>4. Known(st2, n + 1)
  <2> SUFFICES ASSUME NEW a \in 1..8, NEW i \in 1..Len(st2[a])
               PROVE  st2[a][i].n <= n + 1
    BY DEF Known
  <2>1. CASE st2[a][i] = st[a][i] /\ i \in 1..Len(st[a])
    <3>1. st[a][i].n <= n /\ st[a][i].n \in Int
      BY <1>3, <2>1
    <3>2. st2[a][i].n <= n /\ st2[a][i].n \in Int
      BY <2>1, <3>1
    <3>3. QED
      BY <3>2
  <2>2. CASE st2[a][i] = f
    BY <2>2
  <2>3. QED
    BY <1>2, <2>1, <2>2
<1>5. InTurn(v, st2)
  <2> SUFFICES ASSUME NEW a \in 1..8, NEW b \in 1..8, NEW i \in 1..Len(st2[a]),
                      NEW j \in 1..Len(st2[b]), b < a \/ (a = b /\ i < j),
                      st2[a][i].vc = v, st2[b][j].vc = v
               PROVE  st2[a][i].n < st2[b][j].n
    BY DEF InTurn
  <2>1. st2[a][i] = st[a][i] /\ i \in 1..Len(st[a])
    <3>1. a = 1 => b = 1 /\ i < j
      <4>1. a = 1 => ~(b < a)
        OBVIOUS
      <4>2. b < a \/ (a = b /\ i < j)
        OBVIOUS
      <4>3. QED
        BY Zenon, <4>1, <4>2
    <3>2. a = 1 => j <= Len(st2[1]) /\ j \in Int /\ i \in Int /\ Len(st2[1]) \in Int
      BY <1>1, <3>1
    <3>3. ~(a = 1 /\ i = Len(st2[1]))
      BY <3>1, <3>2
    <3>4. QED
      BY <1>2, <3>3
  <2>2. CASE st2[b][j] = st[b][j] /\ j \in 1..Len(st[b])
    BY <2>1, <2>2 DEF InTurn
  <2>3. CASE st2[b][j] = f
    <3>1. st[a][i].n <= n /\ st[a][i].n \in Int
      BY <1>3, <2>1
    <3>2. QED
      BY <2>1, <2>3, <3>1
  <2>4. QED
    BY <1>2, <2>2, <2>3
<1>6. QED
  BY <1>4, <1>5

\* The frames of a queue are of channel v.
Own(v, q) == \A i \in 1..Len(q) : q[i].vc = v

OwnInv == \A v \in Vcs : Own(v, vcQ[v]) /\ Own(v, sppQ[v]) /\ Own(v, relay[v])

LEMMA OwnTail ==
  ASSUME NEW v, NEW q \in Seq(Frames), q # <<>>, Own(v, q)
  PROVE  Own(v, Tail(q)) /\ Head(q).vc = v /\ Head(q) \in Frames
BY HeadTail DEF Own

LEMMA OwnAppend ==
  ASSUME NEW v, NEW q \in Seq(Frames), NEW f \in Frames, f.vc = v, Own(v, q)
  PROVE  Own(v, Append(q, f))
BY AppendProperties DEF Own

LEMMA OwnInit ==
  ASSUME Init
  PROVE  OwnInv
<1>1. \A v : Own(v, <<>>)
  BY EmptySeq DEF Own
<1>2. QED
  BY <1>1 DEF Init, OwnInv

LEMMA OwnDemux ==
  ASSUME PipeType, OwnInv, Demux
  PROVE  OwnInv'
<1> DEFINE f == Head(frameQ)
<1>1. f \in Frames /\ vcQ \in [Vcs -> Seq(Frames)]
  BY HeadTail DEF Demux, PipeType
<1>2. \/ vcQ' = vcQ
      \/ f.vc \in Vcs /\ vcQ' = [vcQ EXCEPT ![f.vc] = Append(@, f)]
  BY DEF Demux
<1>3. sppQ' = sppQ /\ relay' = relay
  BY DEF Demux
<1> HIDE DEF f
<1>4. ASSUME NEW v \in Vcs
      PROVE  Own(v, vcQ'[v])
  <2>1. Own(v, vcQ[v]) /\ vcQ[v] \in Seq(Frames)
    BY <1>1 DEF OwnInv
  <2>2. CASE vcQ'[v] = vcQ[v]
    BY <2>1, <2>2
  <2>3. CASE v = f.vc /\ vcQ'[v] = Append(vcQ[v], f)
    BY <1>1, <2>1, <2>3, OwnAppend
  <2>4. QED
    BY <1>1, <1>2, <2>2, <2>3
<1>5. QED
  BY <1>3, <1>4 DEF OwnInv

LEMMA OwnDecode ==
  ASSUME PipeType, OwnInv, NEW u \in Vcs, Decode(u)
  PROVE  OwnInv'
<1> DEFINE f == Head(vcQ[u])
<1>1. vcQ \in [Vcs -> Seq(Frames)] /\ sppQ \in [Vcs -> Seq(Frames)]
  BY DEF PipeType
<1>2. /\ vcQ[u] # <<>> /\ vcQ' = [vcQ EXCEPT ![u] = Tail(@)] /\ relay' = relay
      /\ sppQ' = sppQ \/ sppQ' = [sppQ EXCEPT ![u] = Append(@, f)]
  BY DEF Decode
<1>3. Own(u, Tail(vcQ[u])) /\ f.vc = u /\ f \in Frames
  BY <1>1, <1>2, OwnTail DEF OwnInv
<1> HIDE DEF f
<1>4. Own(u, Append(sppQ[u], f))
  BY <1>1, <1>3, OwnAppend DEF OwnInv
<1>5. ASSUME NEW v \in Vcs
      PROVE  Own(v, vcQ'[v]) /\ Own(v, sppQ'[v])
  BY <1>1, <1>2, <1>3, <1>4 DEF OwnInv
<1>6. QED
  BY <1>2, <1>5 DEF OwnInv

LEMMA OwnRelay ==
  ASSUME PipeType, OwnInv, NEW u \in Vcs, RelayTake(u) \/ RelaySend(u)
  PROVE  OwnInv'
<1>1. sppQ \in [Vcs -> Seq(Frames)] /\ relay \in [Vcs -> Seq(Frames)]
  BY DEF PipeType
<1>2. CASE RelayTake(u)
  <2> DEFINE f == Head(sppQ[u])
  <2>1. /\ sppQ[u] # <<>> /\ sppQ' = [sppQ EXCEPT ![u] = Tail(@)] /\ vcQ' = vcQ
        /\ relay' = [relay EXCEPT ![u] = <<f>>]
    BY <1>2 DEF RelayTake
  <2>2. Own(u, Tail(sppQ[u])) /\ f.vc = u
    BY <1>1, <2>1, OwnTail DEF OwnInv
  <2> HIDE DEF f
  <2>3. Own(u, <<f>>)
    BY <2>2 DEF Own
  <2>4. ASSUME NEW v \in Vcs
        PROVE  Own(v, sppQ'[v]) /\ Own(v, relay'[v])
    BY <1>1, <2>1, <2>2, <2>3 DEF OwnInv
  <2>5. QED
    BY <2>1, <2>4 DEF OwnInv
<1>3. CASE RelaySend(u)
  <2>1. /\ relay[u] # <<>> /\ relay' = [relay EXCEPT ![u] = Tail(@)] /\ vcQ' = vcQ
        /\ sppQ' = sppQ
    BY <1>3 DEF RelaySend
  <2>2. Own(u, Tail(relay[u]))
    BY <1>1, <2>1, OwnTail DEF OwnInv
  <2>3. ASSUME NEW v \in Vcs
        PROVE  Own(v, relay'[v])
    BY <1>1, <2>1, <2>2 DEF OwnInv
  <2>4. QED
    BY <2>1, <2>3 DEF OwnInv
<1>4. QED
  BY <1>2, <1>3

LEMMA OwnStep ==
  ASSUME PipeType, OwnInv, [Next]_pvars
  PROVE  OwnInv'
<1>1. CASE UNCHANGED <<vcQ, sppQ, relay>>
  BY <1>1 DEF OwnInv
<1>2. ASSUME NEW v \in Vcs, VcTask(v)
      PROVE  OwnInv'
  BY <1>2, OwnDecode, OwnRelay DEF VcTask
<1>3. CASE Forward \/ RouteOne \/ Snapshot \/ UNCHANGED pvars
  BY <1>1, <1>3 DEF Forward, RouteOne, Snapshot, pvars
<1>4. ASSUME NEW s \in Drained, SinkTask(s)
      PROVE  OwnInv'
  BY <1>1, <1>4 DEF SinkTask, DrainTake, StoreHk, StoreEvent
<1>5. QED
  BY <1>2, <1>3, <1>4, OwnDemux DEF Next

\* The line of every channel, now and after a step
Turned(v) == InTurn(v, Line(v)) /\ Known(Line(v), received)

LEMMA LineIs ==
  ASSUME NEW c1 \in Seq(Frames), NEW c2 \in Seq(Frames), NEW c3 \in Seq(Frames),
         NEW c4 \in Seq(Frames), NEW c5 \in Seq(Frames), NEW c6 \in Seq(Frames),
         NEW c7 \in Seq(Frames), NEW c8 \in Seq(Frames)
  PROVE  LET q == <<c1, c2, c3, c4, c5, c6, c7, c8>>
         IN  /\ q \in Lines
             /\ q[1] = c1 /\ q[2] = c2 /\ q[3] = c3 /\ q[4] = c4
             /\ q[5] = c5 /\ q[6] = c6 /\ q[7] = c7 /\ q[8] = c8
<1> DEFINE q == <<c1, c2, c3, c4, c5, c6, c7, c8>>
<1>1. /\ q[1] = c1 /\ q[2] = c2 /\ q[3] = c3 /\ q[4] = c4
      /\ q[5] = c5 /\ q[6] = c6 /\ q[7] = c7 /\ q[8] = c8
  OBVIOUS
<1>2. q = [k \in 1..8 |-> q[k]]
  OBVIOUS
<1> HIDE DEF q
<1>3. \A k \in 1..8 : q[k] \in Seq(Frames)
  BY SMTT(30), <1>1
<1>4. q \in Lines
  BY <1>2, <1>3 DEF Lines
<1>5. QED
  BY <1>1, <1>4 DEF q

LEMMA LinesAre ==
  ASSUME PipeType, NEW v \in Vcs
  PROVE  /\ Line(v) \in Lines
         /\ Line(v)[1] = frameQ /\ Line(v)[2] = vcQ[v] /\ Line(v)[3] = sppQ[v]
         /\ Line(v)[4] = relay[v] /\ Line(v)[5] = tagQ /\ Line(v)[6] = sinkQ["event"]
         /\ Line(v)[7] = drain["event"] /\ Line(v)[8] = events
<1>1. /\ frameQ \in Seq(Frames) /\ vcQ[v] \in Seq(Frames) /\ sppQ[v] \in Seq(Frames)
      /\ relay[v] \in Seq(Frames) /\ tagQ \in Seq(Frames)
  BY DEF PipeType
<1>2. sinkQ["event"] \in Seq(Frames) /\ drain["event"] \in Seq(Frames)
  BY SinksHoldFrames DEF Sinks, Drained
<1>3. events \in Seq(Frames)
  BY SeqMonotonic DEF PipeType, Good
<1>4. QED
  BY <1>1, <1>2, <1>3, LineIs DEF Line

LEMMA LinesNext ==
  ASSUME PipeType', NEW v \in Vcs
  PROVE  LET st == Line(v)'
         IN  /\ st \in Lines
             /\ st[1] = frameQ' /\ st[2] = vcQ'[v] /\ st[3] = sppQ'[v]
             /\ st[4] = relay'[v] /\ st[5] = tagQ' /\ st[6] = sinkQ'["event"]
             /\ st[7] = drain'["event"] /\ st[8] = events'
<1>1. /\ frameQ' \in Seq(Frames) /\ vcQ'[v] \in Seq(Frames) /\ sppQ'[v] \in Seq(Frames)
      /\ relay'[v] \in Seq(Frames) /\ tagQ' \in Seq(Frames)
  BY DEF PipeType
<1>2. /\ sinkQ'["event"] \in Seq(Good) /\ drain'["event"] \in Seq(Good)
      /\ events' \in Seq(Good)
  BY DEF PipeType, Sinks, Drained
<1>3. \A q \in Seq(Good) : q \in Seq(Frames)
  BY SeqMonotonic DEF Good
<1>4. QED
  BY <1>1, <1>2, <1>3, LineIs DEF Line

LEMMA TurnedForward ==
  ASSUME PipeType, PipeType', Forward, NEW v \in Vcs, Turned(v)
  PROVE  Turned(v)'
<1> DEFINE st == Line(v)
           st2 == Line(v)'
<1>1. st \in Lines /\ st2 \in Lines /\ st[1] = frameQ /\ st2[1] = frameQ'
  BY LinesAre, LinesNext
<1>2. \A a \in 2..8 : st2[a] = st[a]
  <2>1. UNCHANGED <<vcQ, sppQ, relay, tagQ, sinkQ, drain, events>>
    BY DEF Forward
  <2>2. QED
    BY <2>1 DEF Line
<1>3. InTurn(v, st) /\ Known(st, received)
  BY DEF Turned
<1> HIDE DEF st, st2
<1>4. received \in Nat /\ received' = received + 1
  BY DEF PipeType, Forward
<1>5. InTurn(v, st2) /\ Known(st2, received + 1)
  <2>1. PICK in \in Inputs :
          LET f == [n |-> received', vc |-> in[1], apid |-> in[2]]
          IN  frameQ' = Append(frameQ, f) \/ frameQ' = frameQ
    BY DEF Forward
  <2> DEFINE f == [n |-> received + 1, vc |-> in[1], apid |-> in[2]]
  <2>2. f \in Frames /\ f.n = received + 1
    BY NewFrame, <1>4 DEF Forward
  <2>3. frameQ' = Append(frameQ, f) \/ frameQ' = frameQ
    BY <2>1, <1>4
  <2> HIDE DEF f
  <2>4. CASE frameQ' = Append(frameQ, f)
    BY <1>1, <1>2, <1>3, <1>4, <2>2, <2>4, PushKeeps
  <2>5. CASE frameQ' = frameQ
    <3>1. \A a \in 1..8 : st2[a] = st[a]
      BY <1>1, <1>2, <2>5
    <3>2. \A a \in 1..8 : \A i \in 1..Len(st[a]) : st[a][i].n \in Int
      BY <1>1, LineType
    <3>3. InTurn(v, st2)
      BY <1>3, <3>1 DEF InTurn
    <3>4. ASSUME NEW a \in 1..8, NEW i \in 1..Len(st2[a])
          PROVE  st2[a][i].n <= received + 1
      <4>1. st2[a][i] = st[a][i] /\ i \in 1..Len(st[a])
        BY <3>1
      <4>2. st[a][i].n <= received /\ st[a][i].n \in Int
        BY <1>3, <3>2, <4>1 DEF Known
      <4>3. QED
        BY <1>4, <4>1, <4>2
    <3>5. QED
      BY <3>3, <3>4 DEF Known
  <2>6. QED
    BY <2>3, <2>4, <2>5
<1>6. QED
  BY <1>4, <1>5 DEF Turned, st2

\* A step that changes nothing on the line of a channel.
LEMMA TurnedSame ==
  ASSUME PipeType, PipeType', NEW v \in Vcs, Turned(v), Line(v)' = Line(v),
         received' = received
  PROVE  Turned(v)'
BY DEF Turned

\* A step that moves the first frame of stage k on, or loses it.
LEMMA TurnedBy ==
  ASSUME PipeType, PipeType', NEW v \in Vcs, Turned(v), received' = received,
         NEW k \in 1..7, Line(v)[k] # <<>>, Line(v)'[k] = Tail(Line(v)[k]),
         \/ Line(v)'[k + 1] = Line(v)[k + 1]
         \/ Line(v)'[k + 1] = Append(Line(v)[k + 1], Head(Line(v)[k])),
         \A a \in 1..8 \ {k, k + 1} : Line(v)'[a] = Line(v)[a]
  PROVE  Turned(v)'
<1> DEFINE st == Line(v)
           st2 == Line(v)'
<1>1. st \in Lines /\ st2 \in Lines
  BY LinesAre, LinesNext
<1>2. InTurn(v, st) /\ Known(st, received) /\ received \in Nat
  BY DEF Turned, PipeType
<1>3. /\ st[k] # <<>> /\ st2[k] = Tail(st[k])
      /\ st2[k + 1] = st[k + 1] \/ st2[k + 1] = Append(st[k + 1], Head(st[k]))
      /\ \A a \in 1..8 \ {k, k + 1} : st2[a] = st[a]
  OBVIOUS
<1> HIDE DEF st, st2
<1>4. InTurn(v, st2) /\ Known(st2, received)
  <2>1. CASE st2[k + 1] = Append(st[k + 1], Head(st[k]))
    BY <1>1, <1>2, <1>3, <2>1, MoveKeeps
  <2>2. CASE st2[k + 1] = st[k + 1]
    <3>1. k \in 1..8
      OBVIOUS
    <3>2. /\ Len(st[k]) = Len(st2[k]) + 1
          /\ \A i \in 1..Len(st2[k]) : st2[k][i] = st[k][i + 1]
      <4>1. st[k] \in Seq(Frames)
        BY <1>1, <3>1, LineType
      <4>2. QED
        BY <4>1, <1>3, HeadTail
    <3>3. \A a \in 1..8 \ {k} : st2[a] = st[a]
      BY <1>3, <2>2
    <3>4. 1 \in Nat
      OBVIOUS
    <3>5. QED
      BY <1>1, <1>2, <3>1, <3>2, <3>3, <3>4, ThinKeeps
  <2>3. QED
    BY <1>3, <2>1, <2>2
<1>5. QED
  BY <1>4 DEF Turned, st2

LEMMA TurnedDemux ==
  ASSUME PipeType, PipeType', Demux, NEW v \in Vcs, Turned(v)
  PROVE  Turned(v)'
<1> DEFINE f == Head(frameQ)
<1>1. f \in Frames /\ vcQ \in [Vcs -> Seq(Frames)]
  BY HeadTail DEF Demux, PipeType
<1>2. \/ vcQ' = vcQ
      \/ f.vc \in Vcs /\ vcQ' = [vcQ EXCEPT ![f.vc] = Append(@, f)]
  BY DEF Demux
<1>3. /\ frameQ # <<>> /\ frameQ' = Tail(frameQ)
      /\ UNCHANGED <<received, sppQ, relay, tagQ, sinkQ, drain, events>>
  BY DEF Demux
<1>4. vcQ'[v] = vcQ[v] \/ vcQ'[v] = Append(vcQ[v], f)
  BY <1>1, <1>2
<1>5. 1 \in 1..7 /\ \A a \in 1..8 \ {1, 1 + 1} : Line(v)'[a] = Line(v)[a]
  BY <1>3 DEF Line
<1>6. /\ Line(v)[1] = frameQ /\ Line(v)'[1] = frameQ'
      /\ Line(v)[1 + 1] = vcQ[v] /\ Line(v)'[1 + 1] = vcQ'[v]
  BY DEF Line
<1>7. QED
  BY <1>3, <1>4, <1>5, <1>6, TurnedBy

LEMMA TurnedDecode ==
  ASSUME PipeType, PipeType', NEW u \in Vcs, Decode(u), NEW v \in Vcs, Turned(v)
  PROVE  Turned(v)'
<1> DEFINE f == Head(vcQ[u])
<1>1. vcQ \in [Vcs -> Seq(Frames)] /\ sppQ \in [Vcs -> Seq(Frames)]
  BY DEF PipeType
<1>2. /\ vcQ[u] # <<>> /\ vcQ' = [vcQ EXCEPT ![u] = Tail(@)]
      /\ sppQ' = sppQ \/ sppQ' = [sppQ EXCEPT ![u] = Append(@, f)]
      /\ UNCHANGED <<received, frameQ, relay, tagQ, sinkQ, drain, events>>
  BY DEF Decode
<1>3. CASE u # v
  <2>1. Line(v)' = Line(v)
    BY <1>1, <1>2, <1>3 DEF Line
  <2>2. QED
    BY <1>2, <2>1, TurnedSame
<1>4. CASE u = v
  <2>1. vcQ'[v] = Tail(vcQ[v]) /\ (sppQ'[v] = sppQ[v] \/ sppQ'[v] = Append(sppQ[v], f))
    BY <1>1, <1>2, <1>4
  <2>2. 2 \in 1..7 /\ \A a \in 1..8 \ {2, 2 + 1} : Line(v)'[a] = Line(v)[a]
    BY <1>2 DEF Line
  <2>3. /\ Line(v)[2] = vcQ[v] /\ Line(v)'[2] = vcQ'[v]
        /\ Line(v)[2 + 1] = sppQ[v] /\ Line(v)'[2 + 1] = sppQ'[v]
    BY DEF Line
  <2>4. QED
    BY SMTT(30), <1>2, <1>4, <2>1, <2>2, <2>3, TurnedBy
<1>5. QED
  BY <1>3, <1>4

LEMMA TurnedRelayTake ==
  ASSUME PipeType, PipeType', NEW u \in Vcs, RelayTake(u), NEW v \in Vcs, Turned(v)
  PROVE  Turned(v)'
<1> DEFINE f == Head(sppQ[u])
<1>1. sppQ \in [Vcs -> Seq(Frames)] /\ relay \in [Vcs -> Seq(Frames)]
  BY DEF PipeType
<1>2. /\ sppQ[u] # <<>> /\ sppQ' = [sppQ EXCEPT ![u] = Tail(@)]
      /\ relay[u] = <<>> /\ relay' = [relay EXCEPT ![u] = <<f>>]
      /\ UNCHANGED <<received, frameQ, vcQ, tagQ, sinkQ, drain, events>>
  BY DEF RelayTake
<1>3. CASE u # v
  <2>1. Line(v)' = Line(v)
    BY <1>1, <1>2, <1>3 DEF Line
  <2>2. QED
    BY <1>2, <2>1, TurnedSame
<1>4. CASE u = v
  <2>1. sppQ'[v] = Tail(sppQ[v]) /\ relay'[v] = Append(relay[v], f)
    BY <1>1, <1>2, <1>4
  <2>2. 3 \in 1..7 /\ \A a \in 1..8 \ {3, 3 + 1} : Line(v)'[a] = Line(v)[a]
    BY <1>2 DEF Line
  <2>3. /\ Line(v)[3] = sppQ[v] /\ Line(v)'[3] = sppQ'[v]
        /\ Line(v)[3 + 1] = relay[v] /\ Line(v)'[3 + 1] = relay'[v]
    BY DEF Line
  <2>4. QED
    BY <1>2, <1>4, <2>1, <2>2, <2>3, TurnedBy
<1>5. QED
  BY <1>3, <1>4

LEMMA TurnedRelaySend ==
  ASSUME PipeType, PipeType', OwnInv, NEW u \in Vcs, RelaySend(u), NEW v \in Vcs,
         Turned(u), Turned(v)
  PROVE  Turned(v)'
<1> DEFINE f == Head(relay[u])
<1>1. relay \in [Vcs -> Seq(Frames)]
  BY DEF PipeType
<1>2. /\ relay[u] # <<>> /\ relay' = [relay EXCEPT ![u] = Tail(@)]
      /\ tagQ' = Append(tagQ, f)
      /\ UNCHANGED <<received, frameQ, vcQ, sppQ, sinkQ, drain, events>>
  BY DEF RelaySend
<1>3. CASE u # v
  <2>1. f \in Frames /\ f.vc = u /\ f = relay[u][1] /\ 1 \in 1..Len(relay[u])
    <3>1. relay[u] \in Seq(Frames) /\ Own(u, relay[u])
      BY <1>1 DEF OwnInv
    <3>2. f \in Frames /\ f.vc = u
      BY <1>2, <3>1, OwnTail
    <3>3. f = relay[u][1] /\ Len(relay[u]) \in Nat \ {0}
      BY <1>2, <3>1, HeadTail
    <3>4. QED
      BY <3>2, <3>3
  <2>2. f.n <= received
    <3>1. Line(u)[4] = relay[u] /\ 4 \in 1..8 /\ Known(Line(u), received)
      BY DEF Line, Turned
    <3>2. QED
      BY <2>1, <3>1 DEF Known
  <2> DEFINE st == Line(v)
             st2 == Line(v)'
  <2>3. st \in Lines /\ st2 \in Lines /\ st[5] = tagQ /\ st2[5] = tagQ'
    BY LinesAre, LinesNext
  <2>4. \A a \in 1..8 \ {5} : st2[a] = st[a]
    BY <1>1, <1>2, <1>3 DEF Line
  <2>5. InTurn(v, st) /\ Known(st, received) /\ received \in Nat /\ 5 \in 1..8
    BY DEF Turned, PipeType
  <2> HIDE DEF st, st2, f
  <2>6. InTurn(v, st2) /\ Known(st2, received)
    <3>1. AlienAt(st, st2, v, received, 5, f)
      BY <1>2, <1>3, <2>1, <2>2, <2>3, <2>4 DEF AlienAt
    <3>2. QED
      BY <2>3, <2>5, <3>1, AlienKeeps
  <2>7. QED
    BY <1>2, <2>6 DEF Turned, st2
<1>4. CASE u = v
  <2>1. relay'[v] = Tail(relay[v])
    BY <1>1, <1>2, <1>4
  <2>2. 4 \in 1..7 /\ \A a \in 1..8 \ {4, 4 + 1} : Line(v)'[a] = Line(v)[a]
    BY <1>2 DEF Line
  <2>3. /\ Line(v)[4] = relay[v] /\ Line(v)'[4] = relay'[v]
        /\ Line(v)[4 + 1] = tagQ /\ Line(v)'[4 + 1] = tagQ'
    BY DEF Line
  <2>4. QED
    BY <1>2, <1>4, <2>1, <2>2, <2>3, TurnedBy
<1>5. QED
  BY <1>3, <1>4

LEMMA TurnedRoute ==
  ASSUME PipeType, PipeType', RouteOne, NEW v \in Vcs, Turned(v)
  PROVE  Turned(v)'
<1> DEFINE f == Head(tagQ)
<1>1. sinkQ \in [Sinks -> Seq(Good)] /\ "event" \in Sinks
  BY DEF PipeType, Sinks
<1>2. /\ tagQ # <<>> /\ tagQ' = Tail(tagQ)
      /\ UNCHANGED <<received, frameQ, vcQ, sppQ, relay, drain, events>>
      /\ \/ sinkQ' = sinkQ
         \/ \E to \in Sinks : sinkQ' = [sinkQ EXCEPT ![to] = Append(@, f)]
  BY DEF RouteOne
<1>3. sinkQ'["event"] = sinkQ["event"] \/ sinkQ'["event"] = Append(sinkQ["event"], f)
  BY <1>1, <1>2
<1>4. 5 \in 1..7 /\ \A a \in 1..8 \ {5, 5 + 1} : Line(v)'[a] = Line(v)[a]
  BY <1>2 DEF Line
<1>5. /\ Line(v)[5] = tagQ /\ Line(v)'[5] = tagQ'
      /\ Line(v)[5 + 1] = sinkQ["event"] /\ Line(v)'[5 + 1] = sinkQ'["event"]
  BY DEF Line
<1>6. QED
  BY <1>2, <1>3, <1>4, <1>5, TurnedBy

LEMMA TurnedDrainTake ==
  ASSUME PipeType, PipeType', NEW s \in Drained, DrainTake(s), NEW v \in Vcs, Turned(v)
  PROVE  Turned(v)'
<1> DEFINE f == Head(sinkQ[s])
<1>1. /\ sinkQ \in [Sinks -> Seq(Good)] /\ drain \in [Drained -> Seq(Good)]
      /\ s \in Sinks /\ "event" \in Sinks /\ "event" \in Drained
  BY DEF PipeType, Sinks, Drained
<1>2. /\ sinkQ[s] # <<>> /\ sinkQ' = [sinkQ EXCEPT ![s] = Tail(@)]
      /\ drain[s] = <<>> /\ drain' = [drain EXCEPT ![s] = <<f>>]
      /\ UNCHANGED <<received, frameQ, vcQ, sppQ, relay, tagQ, events>>
  BY DEF DrainTake
<1>3. CASE s # "event"
  <2>1. Line(v)' = Line(v)
    BY <1>1, <1>2, <1>3 DEF Line
  <2>2. QED
    BY <1>2, <2>1, TurnedSame
<1>4. CASE s = "event"
  <2>1. /\ sinkQ'["event"] = Tail(sinkQ["event"])
        /\ drain'["event"] = Append(drain["event"], f)
    BY <1>1, <1>2, <1>4
  <2>2. 6 \in 1..7 /\ \A a \in 1..8 \ {6, 6 + 1} : Line(v)'[a] = Line(v)[a]
    BY <1>2 DEF Line
  <2>3. /\ Line(v)[6] = sinkQ["event"] /\ Line(v)'[6] = sinkQ'["event"]
        /\ Line(v)[6 + 1] = drain["event"] /\ Line(v)'[6 + 1] = drain'["event"]
    BY DEF Line
  <2>4. QED
    BY <1>2, <1>4, <2>1, <2>2, <2>3, TurnedBy
<1>5. QED
  BY <1>3, <1>4

LEMMA TurnedStoreHk ==
  ASSUME PipeType, PipeType', NEW s \in Drained, StoreHk(s), NEW v \in Vcs, Turned(v)
  PROVE  Turned(v)'
<1>1. drain \in [Drained -> Seq(Good)] /\ "event" \in Drained
  BY DEF PipeType, Drained
<1>2. /\ s # "event" /\ drain' = [drain EXCEPT ![s] = <<>>]
      /\ UNCHANGED <<received, frameQ, vcQ, sppQ, relay, tagQ, sinkQ, events>>
  BY DEF StoreHk
<1>3. Line(v)' = Line(v)
  BY <1>1, <1>2 DEF Line
<1>4. QED
  BY <1>2, <1>3, TurnedSame

\* The event goes to the end of the log, and then the log loses its oldest.
LEMMA TurnedStoreEvent ==
  ASSUME PipeType, PipeType', StoreEvent, NEW v \in Vcs, Turned(v)
  PROVE  Turned(v)'
<1> DEFINE st == Line(v)
           st2 == Line(v)'
           f == Head(drain["event"])
           mid == [a \in 1..8 |-> IF a = 7 THEN Tail(st[7])
                                  ELSE IF a = 8 THEN Append(st[8], f) ELSE st[a]]
           d == IF Len(events) < EventRing THEN 0 ELSE Len(events) + 1 - EventRing
<1>1. /\ drain["event"] # <<>> /\ events' = Newest(events, f, EventRing)
      /\ drain' = [drain EXCEPT !["event"] = <<>>]
      /\ UNCHANGED <<received, frameQ, vcQ, sppQ, relay, tagQ, sinkQ>>
  BY DEF StoreEvent
<1>2. /\ drain \in [Drained -> Seq(Good)] /\ "event" \in Drained
      /\ drain["event"] \in Seq(Good) /\ events \in Seq(Good)
  BY DEF PipeType, Drained
<1>3. f \in Good /\ f \in Frames
  BY <1>1, <1>2, HeadTail DEF Good
<1>4. drain'["event"] = <<>> /\ Tail(drain["event"]) = <<>>
  <2>1. Len(drain["event"]) = 1
    BY <1>1, <1>2, DrainsOne
  <2>2. Tail(drain["event"]) \in Seq(Good) /\ Len(Tail(drain["event"])) = 0
    BY <1>1, <1>2, <2>1, HeadTail
  <2>3. QED
    BY <1>1, <1>2, <2>2, EmptySeq
<1>5. /\ st \in Lines /\ st2 \in Lines /\ st[7] = drain["event"] /\ st[8] = events
      /\ st2[7] = drain'["event"] /\ st2[8] = events'
  BY LinesAre, LinesNext
<1>6. \A a \in 1..6 : st2[a] = st[a]
  BY <1>1 DEF Line
<1>7. InTurn(v, st) /\ Known(st, received) /\ received \in Nat
  BY DEF Turned, PipeType
<1> HIDE DEF st, st2, f, mid
<1>8. /\ Len(events') = Len(events) + 1 - d
      /\ \A i \in 1..Len(events') : events'[i] = Append(events, f)[i + d]
      /\ d \in Nat /\ Len(events) \in Nat /\ Len(Append(events, f)) = Len(events) + 1
  <2>1. EventRing \in Nat \ {0} /\ Len(events) \in Nat
    BY <1>2, Capacities, LenProperties
  <2>2. d \in Nat
    BY <2>1
  <2>3. Len(Append(events, f)) = Len(events) + 1
    BY <1>2, <1>3, AppendProperties
  <2>4. /\ Len(events') = Len(events) + 1 - d
        /\ \A i \in 1..Len(events') : events'[i] = Append(events, f)[i + d]
    <3>1. f \in Good /\ events \in Seq(Good) /\ EventRing \in Nat \ {0}
      BY <1>2, <1>3, <2>1
    <3>2. PICK e \in Nat :
            /\ e = IF Len(events) < EventRing THEN 0 ELSE Len(events) + 1 - EventRing
            /\ Len(Newest(events, f, EventRing)) = Len(events) + 1 - e
            /\ \A i \in 1..Len(Newest(events, f, EventRing)) :
                 Newest(events, f, EventRing)[i] = Append(events, f)[i + e]
      BY <3>1, NewestIs
    <3>3. e = d
      BY <3>2
    <3> HIDE DEF d
    <3>4. QED
      BY <1>1, <3>2, <3>3
  <2>5. QED
    BY <2>1, <2>2, <2>3, <2>4
<1> HIDE DEF d
<1>9. Tail(st[7]) \in Seq(Frames) /\ Append(st[8], f) \in Seq(Frames)
  <2>1. st[7] \in Seq(Frames) /\ st[8] \in Seq(Frames)
    BY <1>5, LineType
  <2>2. QED
    BY <1>1, <1>3, <1>5, <2>1, HeadTail, AppendProperties
<1>10. /\ mid \in Lines /\ mid[7] = Tail(st[7]) /\ mid[8] = Append(st[8], f)
       /\ \A a \in 1..8 \ {7, 8} : mid[a] = st[a]
  <2>1. \A a \in 1..8 : st[a] \in Seq(Frames)
    BY <1>5, LineType
  <2>2. mid \in Lines
    BY <1>9, <2>1 DEF mid, Lines
  <2>3. QED
    BY <2>2 DEF mid
<1>11. InTurn(v, mid) /\ Known(mid, received)
  <2>1. 7 \in 1..7 /\ 7 + 1 = 8 /\ st[7] # <<>> /\ f = Head(st[7])
    BY <1>1, <1>5 DEF f
  <2>2. QED
    BY ZenonT(30), <1>5, <1>7, <1>10, <2>1, MoveKeeps
<1>12. InTurn(v, st2) /\ Known(st2, received)
  <2>1. \A a \in 1..8 \ {8} : st2[a] = mid[a]
    <3>1. st2[7] = mid[7]
      BY <1>4, <1>5, <1>10
    <3>2. \A a \in 1..6 : st2[a] = mid[a]
      BY <1>6, <1>10
    <3>3. QED
      BY <3>1, <3>2
  <2>2. Len(mid[8]) = Len(st2[8]) + d /\ d \in Nat /\ 8 \in 1..8
    BY <1>5, <1>8, <1>10
  <2>3. \A i \in 1..Len(st2[8]) : st2[8][i] = mid[8][i + d]
    BY <1>5, <1>8, <1>10
  <2>4. QED
    BY <1>5, <1>7, <1>10, <1>11, <2>1, <2>2, <2>3, ThinKeeps
<1>13. QED
  BY <1>1, <1>12 DEF Turned, st2

LEMMA TurnedStep ==
  ASSUME PipeType, PipeType', OwnInv, \A u \in Vcs : Turned(u), [Next]_pvars, NEW v \in Vcs
  PROVE  Turned(v)'
<1>1. CASE Snapshot \/ UNCHANGED pvars
  <2>1. Line(v)' = Line(v) /\ received' = received
    BY <1>1 DEF Snapshot, pvars, Line
  <2>2. QED
    BY <2>1, TurnedSame
<1>2. ASSUME NEW u \in Vcs, VcTask(u)
      PROVE  Turned(v)'
  BY <1>2, TurnedDecode, TurnedRelayTake, TurnedRelaySend DEF VcTask
<1>3. ASSUME NEW s \in Drained, SinkTask(s)
      PROVE  Turned(v)'
  BY <1>3, TurnedDrainTake, TurnedStoreHk, TurnedStoreEvent DEF SinkTask
<1>4. QED
  BY <1>1, <1>2, <1>3, TurnedForward, TurnedDemux, TurnedRoute DEF Next

\* The frames of channel v in p are older than those in q.
Before(v, p, q) ==
  \A i \in 1..Len(p), j \in 1..Len(q) : p[i].vc = v /\ q[j].vc = v => p[i].n < q[j].n

LEMMA Joined ==
  ASSUME NEW p \in Seq(Frames), NEW q \in Seq(Frames)
  PROVE  /\ p \o q \in Seq(Frames)
         /\ \A i \in 1..Len(p \o q) :
              \/ i \in 1..Len(p) /\ (p \o q)[i] = p[i]
              \/ i > Len(p) /\ i - Len(p) \in 1..Len(q) /\ (p \o q)[i] = q[i - Len(p)]
BY ConcatProperties, LenProperties

LEMMA BeforeBoth ==
  ASSUME NEW v, NEW p \in Seq(Frames), NEW q \in Seq(Frames), NEW r \in Seq(Frames)
  PROVE  /\ Before(v, p, r) /\ Before(v, q, r) => Before(v, p \o q, r)
         /\ Before(v, r, p) /\ Before(v, r, q) => Before(v, r, p \o q)
<1> DEFINE w == p \o q
<1>1. \A i \in 1..Len(w) :
        \/ i \in 1..Len(p) /\ w[i] = p[i]
        \/ i - Len(p) \in 1..Len(q) /\ w[i] = q[i - Len(p)]
  BY Joined
<1> HIDE DEF w
<1>2. Before(v, p, r) /\ Before(v, q, r) => Before(v, w, r)
  BY <1>1 DEF Before
<1>3. Before(v, r, p) /\ Before(v, r, q) => Before(v, r, w)
  BY <1>1 DEF Before
<1>4. QED
  BY <1>2, <1>3 DEF w

LEMMA OrderJoins ==
  ASSUME NEW v, NEW p \in Seq(Frames), NEW q \in Seq(Frames),
         InOrder(v, p), InOrder(v, q), Before(v, p, q)
  PROVE  InOrder(v, p \o q)
<1> DEFINE w == p \o q
<1>1. Len(p) \in Nat
  BY LenProperties
<1>2. \A i \in 1..Len(w) :
        \/ i \in 1..Len(p) /\ w[i] = p[i]
        \/ i > Len(p) /\ i - Len(p) \in 1..Len(q) /\ w[i] = q[i - Len(p)]
  BY Joined
<1> HIDE DEF w
<1>3. ASSUME NEW i \in 1..Len(w), NEW j \in 1..Len(w), i < j, w[i].vc = v, w[j].vc = v
      PROVE  w[i].n < w[j].n
  <2>1. CASE i \in 1..Len(p) /\ w[i] = p[i] /\ j \in 1..Len(p) /\ w[j] = p[j]
    BY <1>3, <2>1 DEF InOrder
  <2>2. CASE /\ i \in 1..Len(p) /\ w[i] = p[i]
             /\ j - Len(p) \in 1..Len(q) /\ w[j] = q[j - Len(p)]
    BY <1>3, <2>2 DEF Before
  <2>3. CASE /\ i - Len(p) \in 1..Len(q) /\ w[i] = q[i - Len(p)]
             /\ j - Len(p) \in 1..Len(q) /\ w[j] = q[j - Len(p)]
    <3>1. i - Len(p) < j - Len(p)
      BY <1>1, <1>3
    <3>2. QED
      BY <1>3, <2>3, <3>1 DEF InOrder
  <2>4. QED
    BY <1>1, <1>2, <1>3, <2>1, <2>2, <2>3
<1>4. QED
  BY <1>3 DEF InOrder, w

LEMMA StagesInOrder ==
  ASSUME NEW v, NEW st \in Lines, InTurn(v, st)
  PROVE  /\ \A a \in 1..8 : InOrder(v, st[a])
         /\ \A a, b \in 1..8 : b < a => Before(v, st[a], st[b])
BY DEF InTurn, InOrder, Before

LEMMA PathTurned ==
  ASSUME PipeType, NEW v \in Vcs, Turned(v)
  PROVE  /\ InOrder(v, Path(v))
         /\ InOrder(v, events \o drain["event"] \o sinkQ["event"] \o Path(v))
<1> DEFINE st == Line(v)
           p1 == st[5] \o st[4]
           p2 == p1 \o st[3]
           p3 == p2 \o st[2]
           p4 == p3 \o st[1]
           e1 == st[8] \o st[7]
           e2 == e1 \o st[6]
<1>1. /\ st \in Lines /\ Path(v) = p4
      /\ events \o drain["event"] \o sinkQ["event"] \o Path(v) = e2 \o p4
  BY LinesAre DEF Path, Line
<1>2. /\ \A a \in 1..8 : InOrder(v, st[a]) /\ st[a] \in Seq(Frames)
      /\ \A a, b \in 1..8 : b < a => Before(v, st[a], st[b])
  BY <1>1, StagesInOrder, LineType DEF Turned
<1> HIDE DEF st
<1>3. p1 \in Seq(Frames) /\ p2 \in Seq(Frames) /\ p3 \in Seq(Frames) /\ p4 \in Seq(Frames)
      /\ e1 \in Seq(Frames) /\ e2 \in Seq(Frames)
  BY <1>2, Joined
<1>4. ASSUME NEW b \in 1..3
      PROVE  Before(v, p1, st[b])
  <2>1. /\ st[5] \in Seq(Frames) /\ st[4] \in Seq(Frames) /\ st[b] \in Seq(Frames)
        /\ Before(v, st[5], st[b]) /\ Before(v, st[4], st[b])
    BY <1>2
  <2>2. QED
    BY Zenon, <2>1, BeforeBoth
<1>5. ASSUME NEW a \in 6..8
      PROVE  Before(v, st[a], p1)
  <2>1. /\ st[5] \in Seq(Frames) /\ st[4] \in Seq(Frames) /\ st[a] \in Seq(Frames)
        /\ Before(v, st[a], st[5]) /\ Before(v, st[a], st[4])
    BY <1>2
  <2>2. QED
    BY Zenon, <2>1, BeforeBoth
<1>6. InOrder(v, p1)
  <2>1. /\ st[5] \in Seq(Frames) /\ st[4] \in Seq(Frames)
        /\ InOrder(v, st[5]) /\ InOrder(v, st[4]) /\ Before(v, st[5], st[4])
    BY <1>2
  <2>2. QED
    BY Zenon, <2>1, OrderJoins
<1> HIDE DEF p1
<1>7. ASSUME NEW b \in 1..2
      PROVE  Before(v, p2, st[b])
  <2>1. /\ p1 \in Seq(Frames) /\ st[3] \in Seq(Frames) /\ st[b] \in Seq(Frames)
        /\ Before(v, p1, st[b]) /\ Before(v, st[3], st[b])
    BY <1>2, <1>3, <1>4
  <2>2. QED
    BY Zenon, <2>1, BeforeBoth
<1>8. ASSUME NEW a \in 6..8
      PROVE  Before(v, st[a], p2)
  <2>1. /\ p1 \in Seq(Frames) /\ st[3] \in Seq(Frames) /\ st[a] \in Seq(Frames)
        /\ Before(v, st[a], p1) /\ Before(v, st[a], st[3])
    BY <1>2, <1>3, <1>5
  <2>2. QED
    BY Zenon, <2>1, BeforeBoth
<1>9. InOrder(v, p2)
  <2>1. /\ p1 \in Seq(Frames) /\ st[3] \in Seq(Frames)
        /\ InOrder(v, p1) /\ InOrder(v, st[3]) /\ Before(v, p1, st[3])
    BY <1>2, <1>3, <1>4, <1>6
  <2>2. QED
    BY Zenon, <2>1, OrderJoins
<1> HIDE DEF p2
<1>10. ASSUME NEW b \in 1..1
      PROVE  Before(v, p3, st[b])
  <2>1. /\ p2 \in Seq(Frames) /\ st[2] \in Seq(Frames) /\ st[b] \in Seq(Frames)
        /\ Before(v, p2, st[b]) /\ Before(v, st[2], st[b])
    BY <1>2, <1>3, <1>7
  <2>2. QED
    BY Zenon, <2>1, BeforeBoth
<1>11. ASSUME NEW a \in 6..8
      PROVE  Before(v, st[a], p3)
  <2>0. a \in 1..8 /\ 2 \in 1..8 /\ 2 < a
    OBVIOUS
  <2>1. /\ p2 \in Seq(Frames) /\ st[2] \in Seq(Frames) /\ st[a] \in Seq(Frames)
        /\ Before(v, st[a], p2) /\ Before(v, st[a], st[2])
    <3>1. st[2] \in Seq(Frames) /\ st[a] \in Seq(Frames) /\ Before(v, st[a], st[2])
      BY Zenon, <1>2, <2>0
    <3>2. p2 \in Seq(Frames) /\ Before(v, st[a], p2)
      BY Zenon, <1>3, <1>8
    <3>3. QED
      BY <3>1, <3>2
  <2>2. QED
    BY Zenon, <2>1, BeforeBoth
<1>12. InOrder(v, p3)
  <2>1. /\ p2 \in Seq(Frames) /\ st[2] \in Seq(Frames)
        /\ InOrder(v, p2) /\ InOrder(v, st[2]) /\ Before(v, p2, st[2])
    BY <1>2, <1>3, <1>7, <1>9
  <2>2. QED
    BY Zenon, <2>1, OrderJoins
<1> HIDE DEF p3
<1>13. ASSUME NEW a \in 6..8
      PROVE  Before(v, st[a], p4)
  <2>0. a \in 1..8 /\ 1 \in 1..8 /\ 1 < a
    OBVIOUS
  <2>1. /\ p3 \in Seq(Frames) /\ st[1] \in Seq(Frames) /\ st[a] \in Seq(Frames)
        /\ Before(v, st[a], p3) /\ Before(v, st[a], st[1])
    <3>1. st[1] \in Seq(Frames) /\ st[a] \in Seq(Frames) /\ Before(v, st[a], st[1])
      BY Zenon, <1>2, <2>0
    <3>2. p3 \in Seq(Frames) /\ Before(v, st[a], p3)
      BY Zenon, <1>3, <1>11
    <3>3. QED
      BY <3>1, <3>2
  <2>2. QED
    BY Zenon, <2>1, BeforeBoth
<1>14. InOrder(v, p4)
  <2>1. /\ p3 \in Seq(Frames) /\ st[1] \in Seq(Frames)
        /\ InOrder(v, p3) /\ InOrder(v, st[1]) /\ Before(v, p3, st[1])
    BY <1>2, <1>3, <1>10, <1>12
  <2>2. QED
    BY Zenon, <2>1, OrderJoins
<1> HIDE DEF p4
<1>15. Before(v, e1, st[6]) /\ Before(v, e1, p4)
  <2>1. /\ st[8] \in Seq(Frames) /\ st[7] \in Seq(Frames) /\ st[6] \in Seq(Frames)
        /\ Before(v, st[8], st[6]) /\ Before(v, st[7], st[6])
        /\ Before(v, st[8], p4) /\ Before(v, st[7], p4)
    BY <1>2, <1>13
  <2>2. QED
    BY Zenon, <1>3, <2>1, BeforeBoth
<1>16. InOrder(v, e1)
  <2>1. /\ st[8] \in Seq(Frames) /\ st[7] \in Seq(Frames)
        /\ InOrder(v, st[8]) /\ InOrder(v, st[7]) /\ Before(v, st[8], st[7])
    BY <1>2
  <2>2. QED
    BY Zenon, <2>1, OrderJoins
<1> HIDE DEF e1
<1>17. Before(v, e2, p4)
  <2>1. st[6] \in Seq(Frames) /\ Before(v, st[6], p4)
    BY <1>2, <1>13
  <2>2. QED
    BY Zenon, <1>3, <1>15, <2>1, BeforeBoth
<1>18. InOrder(v, e2)
  <2>1. /\ e1 \in Seq(Frames) /\ st[6] \in Seq(Frames)
        /\ InOrder(v, e1) /\ InOrder(v, st[6]) /\ Before(v, e1, st[6])
    BY <1>2, <1>3, <1>15, <1>16
  <2>2. QED
    BY Zenon, <2>1, OrderJoins
<1> HIDE DEF e2
<1>19. InOrder(v, e2 \o p4)
  BY Zenon, <1>3, <1>14, <1>17, <1>18, OrderJoins
<1>20. QED
  BY Zenon, <1>1, <1>14, <1>19

LEMMA TurnedInit ==
  ASSUME Init, NEW v \in Vcs
  PROVE  Turned(v)
<1>1. PipeType
  BY TypeInit
<1> DEFINE st == Line(v)
<1>2. \A a \in 1..8 : st[a] = <<>>
  BY Capacities DEF Init, Line, Sinks, Drained
<1> HIDE DEF st
<1>3. \A a \in 1..8 : 1..Len(st[a]) = {}
  BY <1>2, EmptySeq
<1>4. InTurn(v, st)
  BY <1>3 DEF InTurn
<1>5. Known(st, received)
  BY <1>3 DEF Known
<1>6. QED
  BY <1>4, <1>5 DEF Turned, st

\* The queues of a channel's own tasks hold its frames only, and every
\* channel's line is in the order of the link.
OrderInv == OwnInv /\ \A v \in Vcs : Turned(v)

LEMMA OrderStep ==
  ASSUME PipeType, PipeType', OrderInv, [Next]_pvars
  PROVE  OrderInv'
BY OwnStep, TurnedStep DEF OrderInv

\* The frames of a channel stay in the order of the link through the tasks,
\* the relay and, for the event log, through its sink into the store.
THEOREM AlwaysPathInOrder == Spec => []PathInOrder
<1>1. Init => OrderInv
  BY OwnInit, TurnedInit DEF OrderInv
<1>2. PipeType /\ PipeType' /\ OrderInv /\ [Next]_pvars => OrderInv'
  BY OrderStep
<1>3. PipeType /\ OrderInv => PathInOrder
  BY PathTurned, Capacities DEF OrderInv, PathInOrder
<1>4. QED
  BY <1>1, <1>2, <1>3, PipeTyped, PTL DEF Spec
-----------------------------------------------------------------------------
(* The rings of the store                                                  *)

\* A queue of sink s: the event log's frames are its own.
Sorted(s, q) == \A i \in 1..Len(q) : (q[i].vc = VcEventLog) <=> (s = "event")

\* Each sink gets its frames only.
SortInv == \A s \in Drained : Sorted(s, sinkQ[s]) /\ Sorted(s, drain[s])

\* IsNewest, of the arrivals A
NewestOf(A, ring, P, depth) ==
  /\ Len(ring) = Min({depth, Cardinality(P)})
  /\ \A k \in 1..Len(ring) :
       \E p \in P : /\ ring[k] = A[p]
                    /\ Cardinality({q \in P : q > p}) = Len(ring) - k

\* An APID that has no ring has had no packet.
RingInv ==
  /\ SortInv
  /\ RingsAreNewest
  /\ \A p \in 1..Len(arrivals) :
       arrivals[p].vc # VcEventLog => arrivals[p].apid \in DOMAIN hk

LEMMA LeastOfTwo ==
  ASSUME NEW x \in Nat, NEW y \in Nat
  PROVE  Min({x, y}) = IF x <= y THEN x ELSE y
BY DEF Min

\* A ring that takes in an arrival is the newest part again.
LEMMA RingGrows ==
  ASSUME NEW A \in Seq(Good), NEW ring \in Seq(Good), NEW f \in Good,
         NEW depth \in Nat \ {0}, NEW P, P \subseteq 1..Len(A),
         NewestOf(A, ring, P, depth)
  PROVE  NewestOf(Append(A, f), Newest(ring, f, depth), P \cup {Len(A) + 1}, depth)
<1> DEFINE n == Cardinality(P)
           N == Len(A)
           A2 == Append(A, f)
           P2 == P \cup {N + 1}
           w == Newest(ring, f, depth)
           Above(p) == {q \in P : q > p}
           Above2(p) == {q \in P2 : q > p}
<1>1. /\ N \in Nat /\ Len(ring) \in Nat /\ A2[N + 1] = f
      /\ \A p \in 1..N : A2[p] = A[p]
      /\ Append(ring, f)[Len(ring) + 1] = f
      /\ \A i \in 1..Len(ring) : Append(ring, f)[i] = ring[i]
  BY AppendProperties, LenProperties
<1>2. IsFiniteSet(P) /\ n \in Nat /\ Cardinality(P2) = n + 1
      /\ \A p : IsFiniteSet(Above(p)) /\ Cardinality(Above(p)) \in Nat
  <2>1. IsFiniteSet(1..N)
    <3>1. 1 \in Int /\ N \in Int
      BY <1>1
    <3>2. QED
      BY <3>1, FS_Interval, Zenon
  <2>2. IsFiniteSet(P)
    BY <2>1, FS_Subset
  <2>3. N + 1 \notin P
    BY <1>1
  <2>4. Cardinality(P2) = n + 1
    BY <2>2, <2>3, FS_AddElement
  <2>5. ASSUME NEW p
        PROVE  IsFiniteSet(Above(p)) /\ Cardinality(Above(p)) \in Nat
    <3>1. Above(p) \subseteq P
      OBVIOUS
    <3> HIDE DEF Above
    <3>2. QED
      BY <2>2, <3>1, FS_Subset, FS_CardinalityType
  <2>6. QED
    BY <2>2, <2>4, <2>5, FS_CardinalityType
<1>3. Len(ring) = IF depth <= n THEN depth ELSE n
  BY <1>2, LeastOfTwo DEF NewestOf
<1>4. ASSUME NEW k \in 1..Len(ring)
      PROVE  \E p \in P : ring[k] = A[p] /\ Cardinality(Above(p)) = Len(ring) - k
  BY DEF NewestOf
<1>5. \A p \in 1..N : Above2(p) = Above(p) \cup {N + 1} /\ N + 1 \notin Above(p)
  BY <1>1
<1>6. Above2(N + 1) = {}
  <2>1. \A q \in P : q \in 1..N
    OBVIOUS
  <2>2. \A q \in P2 : ~(q > N + 1)
    BY <1>1, <2>1
  <2> HIDE DEF P2
  <2>3. QED
    BY <2>2
<1>7. PICK d \in Nat :
        /\ d = IF Len(ring) < depth THEN 0 ELSE Len(ring) + 1 - depth
        /\ w \in Seq(Good)
        /\ Len(w) = Len(ring) + 1 - d
        /\ \A i \in 1..Len(w) : w[i] = Append(ring, f)[i + d]
  BY NewestIs
<1>8. d = IF n < depth THEN 0 ELSE 1
  BY <1>1, <1>2, <1>3, <1>7
<1> HIDE DEF n, N, A2, P2, w, Above, Above2
<1>9. Len(w) = Min({depth, n + 1})
  <2>1. Min({depth, n + 1}) = IF depth <= n + 1 THEN depth ELSE n + 1
    BY <1>2, LeastOfTwo
  <2>2. Len(w) = Len(ring) + 1 - d
    BY <1>7
  <2>3. QED
    BY <1>1, <1>2, <1>3, <1>8, <2>1, <2>2
<1>10. ASSUME NEW k \in 1..Len(w)
       PROVE  \E p \in P2 : w[k] = A2[p] /\ Cardinality(Above2(p)) = Len(w) - k
  <2>1. CASE k = Len(w)
    <3>1. k + d = Len(ring) + 1
      BY <1>1, <1>7, <2>1
    <3>2. w[k] = A2[N + 1] /\ N + 1 \in P2
      BY <1>1, <1>7, <3>1 DEF P2
    <3>3. Len(w) \in Nat
      BY <1>7, LenProperties
    <3>4. Cardinality(Above2(N + 1)) = 0
      BY <1>6, FS_EmptySet
    <3>5. Len(w) - k = 0
      BY <2>1, <3>3
    <3>6. QED
      BY <3>2, <3>4, <3>5
  <2>2. CASE k # Len(w)
    <3>1. k + d \in 1..Len(ring) /\ k \in Nat /\ Len(w) \in Nat
      BY <1>1, <1>7, <2>2
    <3>2. PICK p \in P : ring[k + d] = A[p] /\ Cardinality(Above(p)) = Len(ring) - (k + d)
      BY <1>4, <3>1
    <3>3. p \in P2 /\ p \in 1..N
      BY <3>2 DEF P2, N
    <3>4. w[k] = A2[p]
      BY <1>1, <1>7, <3>1, <3>2, <3>3
    <3>5. Cardinality(Above2(p)) = Cardinality(Above(p)) + 1
      BY <1>2, <1>5, <3>3, FS_AddElement
    <3>6. Cardinality(Above2(p)) = Len(w) - k
      BY <1>1, <1>7, <3>1, <3>2, <3>5
    <3>7. QED
      BY <3>3, <3>4, <3>6
  <2>3. QED
    BY <2>1, <2>2
<1>11. Len(w) = Min({depth, Cardinality(P2)})
  BY <1>2, <1>9
<1>12. QED
  BY <1>10, <1>11 DEF NewestOf, w, A2, P2, N, Above2

\* An arrival that is not of a ring leaves it the newest part.
LEMMA RingStays ==
  ASSUME NEW A \in Seq(Good), NEW ring, NEW f \in Good, NEW depth, NEW P,
         P \subseteq 1..Len(A), NewestOf(A, ring, P, depth)
  PROVE  NewestOf(Append(A, f), ring, P, depth)
<1>1. \A p \in P : Append(A, f)[p] = A[p]
  BY AppendProperties
<1>2. QED
  BY <1>1 DEF NewestOf

\* The first arrival makes a ring of one.
LEMMA RingStarts ==
  ASSUME NEW A \in Seq(Good), NEW depth \in Nat \ {0}
  PROVE  NewestOf(A, <<>>, {}, depth)
<1>1. Min({depth, 0}) = 0
  BY LeastOfTwo
<1>2. Len(<<>>) = 0 /\ 1..Len(<<>>) = {}
  BY EmptySeq
<1>3. Cardinality({}) = 0
  BY FS_EmptySet
<1>4. Len(<<>>) = Min({depth, Cardinality({})})
  BY <1>1, <1>2, <1>3
<1>5. QED
  BY <1>2, <1>4 DEF NewestOf

LEMMA SortTail ==
  ASSUME NEW s, NEW q \in Seq(Good), q # <<>>, Sorted(s, q)
  PROVE  /\ Sorted(s, Tail(q)) /\ Sorted(s, <<Head(q)>>)
         /\ (Head(q).vc = VcEventLog) <=> (s = "event")
BY HeadTail DEF Sorted

LEMMA SortRoute ==
  ASSUME PipeType, SortInv, RouteOne
  PROVE  SortInv'
<1> DEFINE f == Head(tagQ)
           to == Route(f.vc, f.apid)
<1>1. f \in Frames /\ sinkQ \in [Sinks -> Seq(Good)] /\ Drained \subseteq Sinks
  BY HeadTail DEF RouteOne, PipeType, Sinks, Drained
<1>2. /\ drain' = drain
      /\ \/ sinkQ' = sinkQ
         \/ to \in Sinks /\ sinkQ' = [sinkQ EXCEPT ![to] = Append(@, f)]
  BY DEF RouteOne
<1>3. to \in Drained => ((f.vc = VcEventLog) <=> (to = "event"))
  BY <1>1 DEF Route, Drained, VcCfdp, VcEventLog
<1>4. to \in Sinks => f \in Good
  BY <1>1, RouteIsGood
<1> HIDE DEF f, to
<1>5. ASSUME NEW s \in Drained
      PROVE  Sorted(s, sinkQ'[s])
  <2>1. Sorted(s, sinkQ[s]) /\ sinkQ[s] \in Seq(Good) /\ s \in Sinks
    BY <1>1 DEF SortInv
  <2>2. CASE sinkQ'[s] = sinkQ[s]
    BY <2>1, <2>2
  <2>3. CASE s = to /\ sinkQ'[s] = Append(sinkQ[s], f)
    <3>1. f \in Good /\ ((f.vc = VcEventLog) <=> (s = "event"))
      BY <1>3, <1>4, <2>1, <2>3
    <3>2. Sorted(s, Append(sinkQ[s], f))
      BY <2>1, <3>1, AppendProperties DEF Sorted
    <3>3. QED
      BY <2>3, <3>2
  <2>4. QED
    BY <1>1, <1>2, <2>1, <2>2, <2>3
<1>6. QED
  BY <1>2, <1>5 DEF SortInv

LEMMA SortDrain ==
  ASSUME PipeType, SortInv, NEW s \in Drained, DrainTake(s)
  PROVE  SortInv'
<1>1. sinkQ \in [Sinks -> Seq(Good)] /\ drain \in [Drained -> Seq(Good)] /\ Drained \subseteq Sinks
  BY DEF PipeType, Sinks, Drained
<1>2. /\ sinkQ[s] # <<>> /\ sinkQ' = [sinkQ EXCEPT ![s] = Tail(@)]
      /\ drain' = [drain EXCEPT ![s] = <<Head(sinkQ[s])>>]
  BY DEF DrainTake
<1>3. Sorted(s, Tail(sinkQ[s])) /\ Sorted(s, <<Head(sinkQ[s])>>)
  BY <1>1, <1>2, SortTail DEF SortInv
<1>4. ASSUME NEW t \in Drained
      PROVE  Sorted(t, sinkQ'[t]) /\ Sorted(t, drain'[t])
  BY <1>1, <1>2, <1>3 DEF SortInv
<1>5. QED
  BY <1>4 DEF SortInv

LEMMA SortStore ==
  ASSUME PipeType, SortInv, NEW s \in Drained, drain' = [drain EXCEPT ![s] = <<>>],
         sinkQ' = sinkQ
  PROVE  SortInv'
<1>1. Sorted(s, <<>>)
  BY EmptySeq DEF Sorted
<1>2. ASSUME NEW t \in Drained
      PROVE  Sorted(t, drain'[t])
  BY <1>1 DEF SortInv, PipeType
<1>3. QED
  BY <1>2 DEF SortInv

\* A frame that is stored: the places of the rings after it
LEMMA Arrives ==
  ASSUME NEW f \in Good, arrivals \in Seq(Good), arrivals' = Append(arrivals, f)
  PROVE  LET here == {Len(arrivals) + 1} IN
         /\ Logged' = IF f.vc = VcEventLog THEN Logged \cup here ELSE Logged
         /\ \A a : Stored(a)' = IF f.apid = a /\ f.vc # VcEventLog
                                THEN Stored(a) \cup here ELSE Stored(a)
<1> DEFINE n == Len(arrivals)
<1>1. /\ n \in Nat /\ Len(arrivals') = n + 1 /\ arrivals'[n + 1] = f
      /\ \A p \in 1..n : arrivals'[p] = arrivals[p]
  BY AppendProperties, LenProperties
<1>2. \A p : p \in 1..(n + 1) <=> p \in 1..n \/ p = n + 1
  BY <1>1
<1> HIDE DEF n
<1>3. Logged' = IF f.vc = VcEventLog THEN Logged \cup {n + 1} ELSE Logged
  <2>1. Logged = {p \in 1..n : arrivals[p].vc = VcEventLog}
    BY DEF Logged, n
  <2>2. Logged' = {p \in 1..(n + 1) : arrivals'[p].vc = VcEventLog}
    BY <1>1 DEF Logged
  <2>3. QED
    BY <1>1, <1>2, <2>1, <2>2
<1>4. ASSUME NEW a
      PROVE  Stored(a)' = IF f.apid = a /\ f.vc # VcEventLog
                          THEN Stored(a) \cup {n + 1} ELSE Stored(a)
  <2>1. Stored(a) = {p \in 1..n : arrivals[p].apid = a /\ arrivals[p].vc # VcEventLog}
    BY DEF Stored, n
  <2>2. Stored(a)' = {p \in 1..(n + 1) : /\ arrivals'[p].apid = a
                                        /\ arrivals'[p].vc # VcEventLog}
    BY <1>1 DEF Stored
  <2>3. QED
    BY <1>1, <1>2, <2>1, <2>2
<1>5. QED
  BY <1>3, <1>4 DEF n

LEMMA RingsAre ==
  RingsAreNewest <=> /\ \A a \in DOMAIN hk : NewestOf(arrivals, hk[a], Stored(a), HkFrames)
                     /\ NewestOf(arrivals, events, Logged, EventRing)
BY DEF RingsAreNewest, IsNewest, NewestOf

LEMMA RingsNext ==
  RingsAreNewest' <=>
    /\ \A a \in DOMAIN hk' : NewestOf(arrivals', hk'[a], Stored(a)', HkFrames)
    /\ NewestOf(arrivals', events', Logged', EventRing)
BY DEF RingsAreNewest, IsNewest, NewestOf

LEMMA RingStoreHk ==
  ASSUME PipeType, RingInv, NEW s \in Drained, StoreHk(s)
  PROVE  RingInv'
<1> DEFINE f == Head(drain[s])
           n == Len(arrivals)
<1>1. /\ s # "event" /\ drain[s] # <<>> /\ drain' = [drain EXCEPT ![s] = <<>>]
      /\ arrivals' = Append(arrivals, f) /\ sinkQ' = sinkQ /\ events' = events
  BY DEF StoreHk
<1>2. /\ f \in Good /\ RingOf(hk, f.apid) \in Seq(Good)
      /\ DOMAIN hk' = DOMAIN hk \cup {f.apid}
      /\ hk'[f.apid] = Newest(RingOf(hk, f.apid), f, HkFrames)
      /\ \A a \in DOMAIN hk \ {f.apid} : hk'[a] = hk[a]
  BY HkAfter
<1>3. arrivals \in Seq(Good) /\ drain[s] \in Seq(Good)
  BY DEF PipeType
<1>4. f.vc # VcEventLog
  BY <1>1, <1>3, SortTail DEF RingInv, SortInv
<1> HIDE DEF f
<1>5. /\ Logged' = Logged
      /\ \A a : Stored(a)' = IF f.apid = a THEN Stored(a) \cup {n + 1} ELSE Stored(a)
  <2>1. /\ Logged' = IF f.vc = VcEventLog THEN Logged \cup {n + 1} ELSE Logged
        /\ \A a : Stored(a)' = IF f.apid = a /\ f.vc # VcEventLog
                               THEN Stored(a) \cup {n + 1} ELSE Stored(a)
    BY <1>1, <1>2, <1>3, Arrives
  <2>2. QED
    BY <1>4, <2>1
<1>6. Logged \subseteq 1..n /\ \A a : Stored(a) \subseteq 1..n
  BY DEF Logged, Stored
<1> HIDE DEF n
<1>7. NewestOf(arrivals', events', Logged', EventRing)
  <2>1. NewestOf(arrivals, events, Logged, EventRing)
    BY RingsAre DEF RingInv
  <2>2. QED
    BY <1>1, <1>2, <1>3, <1>5, <1>6, <2>1, RingStays DEF n
<1>8. ASSUME NEW a \in DOMAIN hk'
      PROVE  NewestOf(arrivals', hk'[a], Stored(a)', HkFrames)
  <2>1. CASE a = f.apid
    <3>1. NewestOf(arrivals, RingOf(hk, a), Stored(a), HkFrames)
      <4>1. CASE a \in DOMAIN hk
        BY <4>1, RingsAre DEF RingInv, RingOf
      <4>2. CASE a \notin DOMAIN hk
        <5>1. Stored(a) = {}
          BY <4>2 DEF RingInv, Stored
        <5>2. RingOf(hk, a) = <<>>
          BY <4>2 DEF RingOf
        <5>3. QED
          BY <1>3, <5>1, <5>2, RingStarts, Capacities
      <4>3. QED
        BY <4>1, <4>2
    <3>2. /\ HkFrames \in Nat \ {0} /\ RingOf(hk, a) \in Seq(Good)
          /\ Stored(a) \subseteq 1..Len(arrivals)
      BY <1>2, <1>6, <2>1, Capacities DEF n
    <3>3. NewestOf(Append(arrivals, f), Newest(RingOf(hk, a), f, HkFrames),
                   Stored(a) \cup {Len(arrivals) + 1}, HkFrames)
      BY <1>2, <1>3, <3>1, <3>2, RingGrows
    <3>4. Stored(a)' = Stored(a) \cup {Len(arrivals) + 1}
      BY <1>5, <2>1 DEF n
    <3>5. hk'[a] = Newest(RingOf(hk, a), f, HkFrames)
      BY <1>2, <2>1
    <3>6. QED
      BY <1>1, <3>3, <3>4, <3>5
  <2>2. CASE a # f.apid
    <3>1. a \in DOMAIN hk /\ hk'[a] = hk[a] /\ Stored(a)' = Stored(a)
      BY <1>2, <1>5, <2>2
    <3>2. NewestOf(arrivals, hk[a], Stored(a), HkFrames)
      BY <3>1, RingsAre DEF RingInv
    <3>3. Stored(a) \subseteq 1..Len(arrivals)
      BY <1>6 DEF n
    <3>4. NewestOf(Append(arrivals, f), hk[a], Stored(a), HkFrames)
      BY <1>2, <1>3, <3>2, <3>3, RingStays
    <3>5. QED
      BY <1>1, <3>1, <3>4
  <2>3. QED
    BY <2>1, <2>2
<1>9. RingsAreNewest'
  BY <1>7, <1>8, RingsNext
<1>10. ASSUME NEW p \in 1..Len(arrivals'), arrivals'[p].vc # VcEventLog
       PROVE  arrivals'[p].apid \in DOMAIN hk'
  BY <1>1, <1>2, <1>3, <1>10, AppendProperties DEF RingInv
<1>11. SortInv'
  BY <1>1, SortStore DEF RingInv
<1>12. QED
  BY <1>9, <1>10, <1>11 DEF RingInv

LEMMA RingStoreEvent ==
  ASSUME PipeType, RingInv, StoreEvent
  PROVE  RingInv'
<1> DEFINE f == Head(drain["event"])
           n == Len(arrivals)
<1>1. /\ drain["event"] # <<>> /\ drain' = [drain EXCEPT !["event"] = <<>>]
      /\ arrivals' = Append(arrivals, f) /\ sinkQ' = sinkQ /\ hk' = hk
      /\ events' = Newest(events, f, EventRing)
  BY DEF StoreEvent
<1>2. /\ arrivals \in Seq(Good) /\ events \in Seq(Good) /\ drain["event"] \in Seq(Good)
      /\ "event" \in Drained
  BY DEF PipeType, Drained
<1>3. f \in Good /\ f.vc = VcEventLog
  BY <1>1, <1>2, HeadTail, SortTail DEF RingInv, SortInv
<1> HIDE DEF f
<1>4. Logged' = Logged \cup {n + 1} /\ \A a : Stored(a)' = Stored(a)
  BY <1>1, <1>2, <1>3, Arrives
<1>5. Logged \subseteq 1..n /\ \A a : Stored(a) \subseteq 1..n
  BY DEF Logged, Stored
<1> HIDE DEF n
<1>6. NewestOf(arrivals', events', Logged', EventRing)
  <2>1. NewestOf(arrivals, events, Logged, EventRing) /\ EventRing \in Nat \ {0}
    BY RingsAre, Capacities DEF RingInv
  <2>2. Logged \subseteq 1..Len(arrivals)
    BY <1>5 DEF n
  <2>3. NewestOf(Append(arrivals, f), Newest(events, f, EventRing),
                 Logged \cup {Len(arrivals) + 1}, EventRing)
    BY <1>2, <1>3, <2>1, <2>2, RingGrows
  <2>4. QED
    BY <1>1, <1>4, <2>3 DEF n
<1>7. ASSUME NEW a \in DOMAIN hk'
      PROVE  NewestOf(arrivals', hk'[a], Stored(a)', HkFrames)
  <2>1. NewestOf(arrivals, hk[a], Stored(a), HkFrames) /\ Stored(a) \subseteq 1..Len(arrivals)
    BY <1>1, <1>5, <1>7, RingsAre DEF RingInv, n
  <2>2. NewestOf(Append(arrivals, f), hk[a], Stored(a), HkFrames)
    BY <1>2, <1>3, <2>1, RingStays
  <2>3. QED
    BY <1>1, <1>4, <2>2
<1>8. RingsAreNewest'
  BY <1>6, <1>7, RingsNext
<1>9. ASSUME NEW p \in 1..Len(arrivals'), arrivals'[p].vc # VcEventLog
      PROVE  arrivals'[p].apid \in DOMAIN hk'
  BY <1>1, <1>2, <1>3, <1>9, AppendProperties DEF RingInv
<1>10. SortInv'
  BY <1>1, <1>2, SortStore DEF RingInv
<1>11. QED
  BY <1>8, <1>9, <1>10 DEF RingInv

LEMMA RingInit ==
  ASSUME Init
  PROVE  RingInv
<1>1. /\ arrivals = <<>> /\ events = <<>> /\ DOMAIN hk = {}
      /\ \A s \in Drained : sinkQ[s] = <<>> /\ drain[s] = <<>>
  BY DEF Init, Sinks, Drained
<1>2. SortInv
  BY <1>1, EmptySeq DEF SortInv, Sorted
<1>3. 1..Len(arrivals) = {} /\ arrivals \in Seq(Good)
  BY <1>1, EmptySeq
<1>4. Logged = {}
  BY <1>3 DEF Logged
<1>5. NewestOf(arrivals, <<>>, {}, EventRing)
  BY <1>3, RingStarts, Capacities
<1>6. RingsAreNewest
  BY <1>1, <1>4, <1>5, RingsAre
<1>7. QED
  BY <1>2, <1>3, <1>6 DEF RingInv

LEMMA RingStep ==
  ASSUME PipeType, RingInv, [Next]_pvars
  PROVE  RingInv'
<1>1. CASE UNCHANGED <<hk, events, arrivals>> /\ SortInv'
  <2>1. Logged' = Logged /\ \A a : Stored(a)' = Stored(a)
    BY <1>1 DEF Logged, Stored
  <2>2. RingsAreNewest'
    BY <1>1, <2>1, RingsAre, RingsNext DEF RingInv
  <2>3. QED
    BY <1>1, <2>2 DEF RingInv
<1>2. CASE UNCHANGED <<sinkQ, drain, hk, events, arrivals>>
  BY <1>1, <1>2 DEF RingInv, SortInv
<1>3. CASE Forward \/ Demux \/ Snapshot \/ UNCHANGED pvars
  BY <1>2, <1>3 DEF Forward, Demux, Snapshot, pvars
<1>4. ASSUME NEW v \in Vcs, VcTask(v)
      PROVE  RingInv'
  BY <1>2, <1>4 DEF VcTask, Decode, RelayTake, RelaySend
<1>5. CASE RouteOne
  BY <1>1, <1>5, SortRoute DEF RouteOne, RingInv
<1>6. ASSUME NEW s \in Drained, DrainTake(s)
      PROVE  RingInv'
  BY <1>1, <1>6, SortDrain DEF DrainTake, RingInv
<1>7. ASSUME NEW s \in Drained, SinkTask(s)
      PROVE  RingInv'
  BY <1>6, <1>7, RingStoreHk, RingStoreEvent DEF SinkTask
<1>8. QED
  BY <1>3, <1>4, <1>5, <1>7 DEF Next

\* Each ring of the store is the newest part of what its writers stored, for
\* any depth, however the two writers of hk, the writer of the event log and
\* the readers interleave.
THEOREM AlwaysRingsAreNewest == Spec => []RingsAreNewest
<1>1. PipeType /\ RingInv /\ [Next]_pvars => RingInv'
  BY RingStep
<1>2. RingInv => RingsAreNewest
  BY DEF RingInv
<1>3. QED
  BY <1>1, <1>2, RingInit, PipeTyped, PTL DEF Spec
=============================================================================
