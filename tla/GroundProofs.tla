---------------------------- MODULE GroundProofs ----------------------------
(***************************************************************************)
(* Proofs about the stages of the downlink that MCGround checks, but for   *)
(* the display of the link.                                                *)
(*                                                                         *)
(* Downlink: for every tick of the injector and whatever packets of        *)
(* whatever sizes Radio has, what is stored is what fitted, and the link   *)
(* handlers read back what was written.                                    *)
(*                                                                         *)
(* AosFramer's link monitor, for every choice of its durations, of the     *)
(* error threshold and of the number of frames in the window.  What keeps  *)
(* the link from flapping is that the AOS condition is younger than the    *)
(* last evaluation that found the link bad: that evaluation forgets the    *)
(* condition, and both ages grow together.                                 *)
(*                                                                         *)
(* GsStream, for every length of a frame, size of the buffers and sequence *)
(* of datagrams.                                                           *)
(***************************************************************************)
EXTENDS AosFramer, GsStream, Downlink, WireProofs

-----------------------------------------------------------------------------
(* What is stored.  The header of a packet determines what is read of it,   *)
(* in whatever frame it comes; the store and truth change together.         *)

\* A packet as the two senders make it: the header of p, with a length that
\* counts what is behind it
PacketOf(packet, p) ==
  /\ WellTyped(p) /\ p.time \in CucTimes /\ IsHeader(packet.head, p)
  /\ packet.data \in Nat /\ p.length = 9 + packet.data

\* A frame that carries it, filled up or cut to the length of a data field
Carries(frame, packet) ==
  /\ frame.field = [packet EXCEPT !.data = FieldLen - HeaderLen]
  /\ frame.ocf \in BOOLEAN

IsPacket(packet) == packet = [head |-> packet.head, data |-> packet.data, user |-> packet.user]

LEMMA ReadsThrough ==
  ASSUME NEW packet, IsPacket(packet), NEW p, PacketOf(packet, p),
         NEW frame, Carries(frame, packet)
  PROVE  LET d == DataField(frame)
         IN  /\ ParseRefusal(d) = "none" <=> Fits(frame, packet)
             /\ Parsed(d).apid = p.apid
             /\ HkFrame(d) = [apid |-> p.apid, time |-> p.time, payload |-> packet.user]
             /\ d.user = packet.user /\ ExtractApid(d) = p.apid
<1> DEFINE d == DataField(frame)  h == packet.head  n == FieldOf(frame) - HeaderLen
<1>1. d.head = h /\ d.user = packet.user /\ d.data = n /\ n \in Nat
  BY DEF DataField, Carries, IsPacket, FieldOf, FieldLen, OcfLen, HeaderLen
<1>2. h \in Seq(Byte) /\ Len(h) = 16
  BY Zenon DEF PacketOf, IsHeader
<1>3. /\ ReadIn(h) = [type |-> p.type, apid |-> p.apid, seq |-> p.seq,
                      length |-> p.length, time |-> p.time, func |-> p.func,
                      instance |-> p.instance]
      /\ PrimaryRefusal(h) = "none" /\ SecondaryRefusal(h) = "none"
  BY Zenon, ReadBack DEF PacketOf
<1>4. /\ ReadIn(h).apid = p.apid /\ ReadIn(h).time = p.time /\ ReadIn(h).length = p.length
  BY <1>3
<1>5. /\ ExtractApid(d) = p.apid /\ ExtractUtc(d) = p.time
      /\ DecodePrimary(h).length = p.length
  BY <1>1, <1>4 DEF ExtractApid, ExtractUtc, DecodeSecondary, DecodePrimary, ReadIn
<1>6. Parsed(d).apid = p.apid
  BY Zenon, <1>1, <1>4, ParsedIs
<1>7. ParseRefusal(d) = "none" <=> p.length + 7 = HeaderLen + n
  BY <1>1, <1>2, <1>3, <1>5 DEF ParseRefusal, HeaderLen
<1>8. p.length + 7 = HeaderLen + n <=> Fits(frame, packet)
  <2>1. Fits(frame, packet) <=> 16 + packet.data = FieldOf(frame)
    BY <1>2 DEF Fits, TotalLen
  <2>2. packet.data \in Nat /\ p.length = 9 + packet.data
    BY DEF PacketOf
  <2>3. FieldOf(frame) \in Nat
    BY DEF Carries, FieldOf, FieldLen, OcfLen
  <2> QED BY <2>1, <2>2, <2>3 DEF HeaderLen
<1>9. HkFrame(d) = [apid |-> p.apid, time |-> p.time, payload |-> packet.user]
  BY <1>1, <1>5 DEF HkFrame
<1> QED BY <1>1, <1>5, <1>6, <1>7, <1>8, <1>9

LEMMA TaiNowIs == TaiNow \in CucTimes
<1>1. 26000 \in U16 /\ 37 \in U16 /\ 0 \in U16
  BY IsWord
<1> QED BY <1>1 DEF TaiNow, CucTimes

\* What both senders put into a packet
Draft(apid, n, user) ==
  [EmptyDraft("TM", apid) EXCEPT
     !.seq = n, !.time = TaiNow, !.func = 2, !.instance = 1, !.data = Len(user)]

LEMMA PacketMade ==
  ASSUME NEW apid \in Apids, NEW n \in SequenceCounts, NEW user,
         Len(user) \in Nat, RawLength(Len(user)) \in DataLengths
  PROVE  LET packet == Packet(apid, n, user)
             p == Described(Draft(apid, n, user))
         IN  /\ IsPacket(packet) /\ PacketOf(packet, p)
             /\ packet.user = user /\ packet.data = Len(user)
             /\ packet.head = EncodePrimary(p) \o EncodeSecondary(p)
             /\ p.apid = apid /\ p.time = TaiNow
<1> DEFINE d == Draft(apid, n, user)  packet == Packet(apid, n, user)  p == Described(d)
<1>1. /\ d.type = "TM" /\ d.apid = apid /\ d.seq = n /\ d.func = 2 /\ d.instance = 1
      /\ d.time = TaiNow /\ d.data = Len(user)
      /\ d = [type |-> d.type, apid |-> d.apid, seq |-> d.seq, func |-> d.func,
              instance |-> d.instance, time |-> d.time, data |-> d.data]
  <2> DEFINE r == [type |-> "TM", apid |-> apid, seq |-> n, func |-> 2, instance |-> 1,
                   time |-> TaiNow, data |-> Len(user)]
  <2> DEFINE e == EmptyDraft("TM", apid)
  <2>1. e = [type |-> "TM", apid |-> apid, seq |-> Unset, func |-> Unset,
             instance |-> Unset, time |-> [hi |-> 0, lo |-> 0, fine |-> 0], data |-> 0]
    BY DEF EmptyDraft
  <2>2. d = [e EXCEPT !.seq = n, !.time = TaiNow, !.func = 2, !.instance = 1,
                      !.data = Len(user)]
    BY DEF Draft
  <2> HIDE DEF d, e
  <2>3. d = r
    BY <2>1, <2>2
  <2> QED BY <2>3
<1>2. packet = [head |-> Built(d).head, data |-> Built(d).data, user |-> user]
  BY DEF Packet, Draft
<1>3. /\ p.apid = d.apid /\ p.time = d.time /\ p.length = RawLength(d.data)
      /\ Built(d).head = EncodePrimary(p) \o EncodeSecondary(p)
      /\ Built(d).data = d.data
  BY DEF Described, Built
<1> HIDE DEF d, p, packet
<1>4. 2 \in FuncCodes /\ 1 \in InstanceIds /\ "TM" \in PacketTypes
  <2>1. 2 \in U16
    BY IsWord
  <2> QED BY <2>1 DEF FuncCodes, InstanceIds, PacketTypes
<1>5. d \in DraftType /\ BuildRefusal(d) = "none"
  <2>1. d \in DraftType
    BY Zenon, <1>1, <1>4, TaiNowIs DEF DraftType
  <2>2. BuildRefusal(d) = "none"
    BY <1>1 DEF BuildRefusal, Unset
  <2> QED BY <2>1, <2>2
<1>6. /\ WellTyped(p) /\ p.time \in CucTimes /\ IsHeader(Built(d).head, p)
      /\ Built(d).data = d.data
  BY Zenon, <1>5, BuiltIs DEF p
<1>7. p.length = 9 + Len(user)
  BY <1>1, <1>3 DEF RawLength
<1>8. /\ packet.head = Built(d).head /\ packet.data = Len(user) /\ packet.user = user
      /\ IsPacket(packet)
  BY <1>1, <1>2, <1>6 DEF IsPacket
<1>9. PacketOf(packet, p)
  BY Zenon, <1>6, <1>7, <1>8 DEF PacketOf
<1> QED BY Zenon, <1>1, <1>3, <1>8, <1>9 DEF d, p, packet

\* The secondary header stands behind the primary one.
LEMMA SubSeqIs ==
  ASSUME NEW S, NEW h, NEW m \in Int, NEW n \in Int, m <= n, \A i \in m..n : h[i] \in S
  PROVE  /\ SubSeq(h, m, n) \in Seq(S) /\ Len(SubSeq(h, m, n)) = n - m + 1
         /\ \A i \in 1..(n - m + 1) : SubSeq(h, m, n)[i] = h[m + i - 1]
BY SubSeqProperties

LEMMA SecondaryBytes ==
  ASSUME NEW h, NEW p, IsHeader(h, p)
  PROVE  LET s == SubSeq(h, 7, 16)
         IN  s \in Seq(Byte) /\ Len(s) = 10 /\ \A i \in 1..10 : s[i] = h[6 + i]
<1> DEFINE s == SubSeq(h, 7, 16)
<1>1. h \in Seq(Byte) /\ Len(h) = 16
  BY Zenon DEF IsHeader
<1>3. s \in Seq(Byte) /\ Len(s) = 10 /\ \A i \in 1..10 : s[i] = h[7 + i - 1]
  <2>1. \A i \in 7..16 : h[i] \in Byte
    <3>1. \A i \in 1..16 : h[i] \in Byte
      BY Zenon, <1>1, BytesAre
    <3> QED BY <3>1
  <2> DEFINE m == 7  n == 16
  <2>2. m \in Int /\ n \in Int /\ m <= n /\ n - m + 1 = 10 /\ \A i \in m..n : h[i] \in Byte
    BY <2>1
  <2>3. s = SubSeq(h, m, n) /\ m = 7
    OBVIOUS
  <2> HIDE DEF s, m, n
  <2>4. s \in Seq(Byte) /\ Len(s) = n - m + 1 /\ \A i \in 1..(n - m + 1) : s[i] = h[m + i - 1]
    BY <2>2, <2>3, SubSeqIs
  <2> QED BY <2>2, <2>3, <2>4
<1>4. s \in Seq(Byte) /\ Len(s) = 10 /\ \A i \in 1..10 : s[i] = h[6 + i]
  <2> HIDE DEF s
  <2> QED BY <1>3
<1> QED BY Zenon, <1>4

\* The header p with another length
WithLength(p, n) ==
  [type |-> p.type, apid |-> p.apid, seq |-> p.seq, length |-> n, time |-> p.time,
   func |-> p.func, instance |-> p.instance]

LEMMA OfSizeIs ==
  ASSUME NEW packet, NEW p, PacketOf(packet, p), NEW size \in Nat,
         size - 7 \in DataLengths, size >= HeaderLen
  PROVE  /\ IsPacket(OfSize(packet, size)) /\ OfSize(packet, size).user = packet.user
         /\ PacketOf(OfSize(packet, size), WithLength(p, size - 7))
<1> DEFINE h == packet.head  n == size - 7  w == OfSize(packet, size)
           q == WithLength(p, n)
           c == [DecodePrimary(h) EXCEPT !.length = n]
           a == EncodePrimary(c)  s == SubSeq(h, 7, 16)
<1>1. /\ w.head = a \o s /\ w.data = size - 16 /\ w.user = packet.user /\ IsPacket(w)
  <2>1. w = [head |-> a \o s, data |-> size - 16, user |-> packet.user]
    <3>1. PrimaryLen + 1 = 7 /\ HeaderLen = 16
      BY DEF PrimaryLen, HeaderLen
    <3>2. w = [head |-> a \o SubSeq(h, PrimaryLen + 1, HeaderLen),
               data |-> size - HeaderLen, user |-> packet.user]
      BY DEF OfSize
    <3> HIDE DEF a, w
    <3> QED BY Zenon, <3>1, <3>2
  <2> HIDE DEF a, s
  <2> QED BY <2>1 DEF IsPacket
<1>2. WellTyped(p) /\ p.time \in CucTimes /\ IsHeader(h, p)
  BY Zenon DEF PacketOf
<1>3. DecodePrimary(h) = [type |-> p.type, apid |-> p.apid, seq |-> p.seq, length |-> p.length]
  <2>1. ReadIn(h) = [type |-> p.type, apid |-> p.apid, seq |-> p.seq,
                     length |-> p.length, time |-> p.time, func |-> p.func,
                     instance |-> p.instance]
    BY Zenon, <1>2, ReadBack
  <2>2. DecodePrimary(h) = [type |-> ReadIn(h).type, apid |-> ReadIn(h).apid,
                            seq |-> ReadIn(h).seq, length |-> ReadIn(h).length]
    BY DEF DecodePrimary, ReadIn
  <2> QED BY <2>1, <2>2
<1>4. c.type = q.type /\ c.apid = q.apid /\ c.seq = q.seq /\ c.length = q.length
  BY <1>3 DEF WithLength
<1>5. a = EncodePrimary(q)
  <2> HIDE DEF c, q
  <2> QED BY <1>4 DEF EncodePrimary
<1>6. /\ q.type = p.type /\ q.apid = p.apid /\ q.seq = p.seq /\ q.length = n
      /\ q.time = p.time /\ q.func = p.func /\ q.instance = p.instance
  BY DEF WithLength
<1> HIDE DEF n, q, c, a, s, w
<1>7. WellTyped(q) /\ q.time \in CucTimes
  BY Zenon, <1>2, <1>6 DEF WellTyped, n
<1>8. IsPrimary(a, q)
  BY Zenon, <1>5, <1>7, PrimaryIs
<1>9. s \in Seq(Byte) /\ Len(s) = 10 /\ \A i \in 1..10 : s[i] = h[6 + i]
  BY Zenon, <1>2, SecondaryBytes DEF s
<1>10. Joins(a \o s, a, 6, s, 10)
  BY Zenon, <1>8, <1>9, Joined DEF IsPrimary
<1>11. IsHeader(a \o s, q)
  <2> DEFINE g == a \o s
  <2>1. /\ g \in Seq(Byte) /\ Len(g) = 16
        /\ \A i \in 1..6 : g[i] = a[i]
        /\ \A i \in 1..10 : g[6 + i] = s[i]
    <3>1. 6 + 10 = 16
      OBVIOUS
    <3> QED BY ONLY Zenon, <1>10, <3>1 DEF Joins, g
  <2>2. /\ g[1] = a[1] /\ g[2] = a[2] /\ g[3] = a[3] /\ g[4] = a[4] /\ g[5] = a[5]
        /\ g[6] = a[6] /\ g[7] = h[7] /\ g[8] = h[8] /\ g[9] = h[9] /\ g[10] = h[10]
        /\ g[11] = h[11] /\ g[12] = h[12] /\ g[13] = h[13] /\ g[14] = h[14]
        /\ g[15] = h[15] /\ g[16] = h[16]
    <3> HIDE DEF g
    <3> QED BY <1>9, <2>1
  <2> HIDE DEF g
  <2>3. HeaderBytes(h, p)
    BY Zenon, <1>2 DEF IsHeader
  <2>4. /\ a[1] = HighByte(IdWord(q)) /\ a[2] = LowByte(IdWord(q))
        /\ a[3] = HighByte(SeqWord(q)) /\ a[4] = LowByte(SeqWord(q))
        /\ a[5] = HighByte(q.length) /\ a[6] = LowByte(q.length)
    BY Zenon, <1>8 DEF IsPrimary
  <2>5. HeaderBytes(g, q)
    BY Zenon, <1>6, <2>2, <2>3, <2>4 DEF HeaderBytes
  <2> QED BY Zenon, <2>1, <2>5 DEF IsHeader, g
<1>12. w.data \in Nat /\ q.length = 9 + w.data
  BY <1>1, <1>6 DEF n, HeaderLen
<1>13. PacketOf(w, q)
  BY Zenon, <1>1, <1>7, <1>11, <1>12 DEF PacketOf
<1> QED BY Zenon, <1>1, <1>13 DEF w, q, n

-----------------------------------------------------------------------------
LEMMA JoinIs ==
  ASSUME NEW s \in Seq(Int), NEW t \in Seq(Int)
  PROVE  /\ s \o t \in Seq(Int) /\ Len(s \o t) = Len(s) + Len(t)
         /\ \A i \in 1..Len(s) : (s \o t)[i] = s[i]
         /\ \A i \in 1..Len(t) : (s \o t)[Len(s) + i] = t[i]
OBVIOUS

LEMMA PairJoin ==
  ASSUME NEW u \in Seq(Int), NEW v \in Seq(Int), Len(u) = 2, Len(v) = 2
  PROVE  LET s == u \o v
         IN  /\ s \in Seq(Int) /\ Len(s) = 4 /\ s[1] = u[1] /\ s[2] = u[2]
             /\ s[3] = v[1] /\ s[4] = v[2]
<1> DEFINE s == u \o v
<1>1. /\ s \in Seq(Int) /\ Len(s) = Len(u) + Len(v)
      /\ \A i \in 1..Len(u) : s[i] = u[i]
      /\ \A i \in 1..Len(v) : s[Len(u) + i] = v[i]
  BY Zenon, JoinIs
<1> HIDE DEF s
<1>2. s[1] = u[1] /\ s[2] = u[2] /\ s[2 + 1] = v[1] /\ s[2 + 2] = v[2]
  BY <1>1
<1>3. 2 + 1 = 3 /\ 2 + 2 = 4
  OBVIOUS
<1>4. Len(s) = 4
  BY <1>1
<1> QED BY Zenon, <1>1, <1>2, <1>3, <1>4 DEF s

LEMMA FloatBytesIs ==
  ASSUME NEW n \in Nat
  PROVE  FloatBytes(n) \in Seq(Int) /\ Len(FloatBytes(n)) = 4 * n
<1> DEFINE m == 4 * n
<1>1. m \in Nat
  OBVIOUS
<1> HIDE DEF m
<1>2. [k \in 1..m |-> 0] \in Seq(Int) /\ Len([k \in 1..m |-> 0]) = m
  BY <1>1
<1> QED BY <1>2 DEF FloatBytes, m

LEMMA U16LeIs ==
  ASSUME NEW n \in Int
  PROVE  U16Le(n) \in Seq(Int) /\ Len(U16Le(n)) = 2
         /\ U16Le(n)[1] = n % 256 /\ U16Le(n)[2] = n \div 256
<1>1. n % 256 \in Int /\ n \div 256 \in Int
  OBVIOUS
<1> QED BY <1>1 DEF U16Le

\* The two halves of a number of 32 bits
Low(n) == n % 65536
High(n) == n \div 65536

LEMMA HalvesAre ==
  ASSUME NEW n \in Int
  PROVE  Low(n) \in Int /\ High(n) \in Int
BY DEF Low, High

LEMMA U32LeIs ==
  ASSUME NEW n \in Int
  PROVE  /\ U32Le(n) \in Seq(Int) /\ Len(U32Le(n)) = 4
         /\ U32Le(n)[1] = Low(n) % 256 /\ U32Le(n)[2] = Low(n) \div 256
         /\ U32Le(n)[3] = High(n) % 256 /\ U32Le(n)[4] = High(n) \div 256
<1> DEFINE a == Low(n)  b == High(n)  u == U16Le(a)  v == U16Le(b)  s == u \o v
<1>1. a \in Int /\ b \in Int
  BY HalvesAre
<1>2. U32Le(n) = s
  BY DEF U32Le, Low, High
<1> HIDE DEF a, b
<1>3. /\ u \in Seq(Int) /\ Len(u) = 2 /\ u[1] = a % 256 /\ u[2] = a \div 256
      /\ v \in Seq(Int) /\ Len(v) = 2 /\ v[1] = b % 256 /\ v[2] = b \div 256
  BY ZenonT(30), <1>1, U16LeIs
<1> HIDE DEF u, v
<1>4. /\ s \in Seq(Int) /\ Len(s) = 4 /\ s[1] = u[1] /\ s[2] = u[2]
      /\ s[3] = v[1] /\ s[4] = v[2]
  <2>1. u \in Seq(Int) /\ Len(u) = 2 /\ v \in Seq(Int) /\ Len(v) = 2
    BY <1>3
  <2> QED BY Zenon, <2>1, PairJoin
<1> HIDE DEF s
<1> QED BY <1>2, <1>3, <1>4 DEF a, b

LEMMA Be32Is ==
  ASSUME NEW n \in Int
  PROVE  /\ Be32(n) \in Seq(Int) /\ Len(Be32(n)) = 4
         /\ Be32(n)[1] = High(n) \div 256 /\ Be32(n)[2] = High(n) % 256
         /\ Be32(n)[3] = Low(n) \div 256 /\ Be32(n)[4] = Low(n) % 256
<1> DEFINE a == Low(n)  b == High(n)
           u == <<b \div 256, b % 256>>  v == <<a \div 256, a % 256>>  s == u \o v
<1>1. a \in Int /\ b \in Int
  BY HalvesAre
<1>2. Be32(n) = s
  BY DEF Be32, Be16, Low, High
<1> HIDE DEF a, b
<1>3. /\ u \in Seq(Int) /\ Len(u) = 2 /\ u[1] = b \div 256 /\ u[2] = b % 256
      /\ v \in Seq(Int) /\ Len(v) = 2 /\ v[1] = a \div 256 /\ v[2] = a % 256
  BY <1>1
<1> HIDE DEF u, v
<1>4. /\ s \in Seq(Int) /\ Len(s) = 4 /\ s[1] = u[1] /\ s[2] = u[2]
      /\ s[3] = v[1] /\ s[4] = v[2]
  <2>1. u \in Seq(Int) /\ Len(u) = 2 /\ v \in Seq(Int) /\ Len(v) = 2
    BY <1>3
  <2> QED BY Zenon, <2>1, PairJoin
<1> HIDE DEF s
<1> QED BY <1>2, <1>3, <1>4 DEF a, b

LEMMA FourBytes ==
  ASSUME NEW n \in Nat
  PROVE  /\ U32Le(n) \in Seq(Int) /\ Len(U32Le(n)) = 4
         /\ Be32(n) \in Seq(Int) /\ Len(Be32(n)) = 4
<1>1. n \in Int
  OBVIOUS
<1> QED BY ZenonT(30), <1>1, U32LeIs, Be32Is

\* s is p followed by the n words w[1] .. w[n] of four bytes.
Blocks(s, p, w, n) ==
  /\ s \in Seq(Int) /\ Len(s) = Len(p) + 4 * n
  /\ \A i \in 1..Len(p) : s[i] = p[i]
  /\ \A k \in 1..n : \A i \in 1..4 : s[Len(p) + 4 * (k - 1) + i] = w[k][i]

LEMMA NoBlocks ==
  ASSUME NEW p \in Seq(Int), NEW w
  PROVE  Blocks(p, p, w, 0)
BY DEF Blocks

LEMMA OneBlockMore ==
  ASSUME NEW s, NEW p \in Seq(Int), NEW w, NEW n \in Nat, Blocks(s, p, w, n),
         NEW v, v = w[n + 1], v \in Seq(Int), Len(v) = 4
  PROVE  Blocks(s \o v, p, w, n + 1)
<1> DEFINE x == s \o v  m == Len(p)  l == Len(s)
<1>1. s \in Seq(Int) /\ l = m + 4 * n /\ m \in Nat
  BY DEF Blocks
<1>2. /\ x \in Seq(Int) /\ Len(x) = l + 4
      /\ \A i \in 1..l : x[i] = s[i]
      /\ \A i \in 1..4 : x[l + i] = v[i]
  <2>1. /\ x \in Seq(Int) /\ Len(x) = l + Len(v)
        /\ \A i \in 1..l : x[i] = s[i]
        /\ \A i \in 1..Len(v) : x[l + i] = v[i]
    BY Zenon, <1>1, JoinIs
  <2> QED BY Zenon, <2>1
<1>3. \A i \in 1..m : x[i] = p[i]
  <2> HIDE DEF x
  <2> QED BY <1>1, <1>2 DEF Blocks
<1>4. ASSUME NEW k \in 1..(n + 1), NEW i \in 1..4
      PROVE  x[m + 4 * (k - 1) + i] = w[k][i]
  <2> HIDE DEF x, m, l
  <2>1. CASE k = n + 1
    <3>1. m + 4 * (k - 1) + i = l + i /\ w[k] = v
      BY <1>1, <2>1
    <3> QED BY <1>2, <3>1
  <2>2. CASE k # n + 1
    <3>1. k \in 1..n /\ m + 4 * (k - 1) + i \in 1..l
      BY <1>1, <2>2
    <3>2. s[m + 4 * (k - 1) + i] = w[k][i]
      BY <3>1 DEF Blocks, m
    <3> QED BY <1>2, <3>1, <3>2
  <2> QED BY <2>1, <2>2
<1>5. Len(x) = m + 4 * (n + 1)
  BY <1>1, <1>2
<1> QED BY Zenon, <1>2, <1>3, <1>4, <1>5 DEF Blocks, x, m

LEMMA BridgePayload ==
  ASSUME NEW t \in Nat
  PROVE  /\ \A k \in 1..6 : BridgeCounters(t)[k] \in Nat
         /\ Blocks(Ros2BridgeHk(t), <<>>, [k \in 1..6 |-> U32Le(BridgeCounters(t)[k])], 6)
<1> DEFINE c == BridgeCounters(t)  w == [k \in 1..6 |-> U32Le(c[k])]
           s1 == <<>> \o w[1]  s2 == s1 \o w[2]  s3 == s2 \o w[3]
           s4 == s3 \o w[4]  s5 == s4 \o w[5]  s6 == s5 \o w[6]
<1>1. \A k \in 1..6 : c[k] \in Nat
  BY DEF BridgeCounters
<1>2. \A k \in 1..6 : w[k] \in Seq(Int) /\ Len(w[k]) = 4
  <2> SUFFICES ASSUME NEW k \in 1..6 PROVE w[k] \in Seq(Int) /\ Len(w[k]) = 4
    OBVIOUS
  <2>1. c[k] \in Nat /\ w[k] = U32Le(c[k])
    BY <1>1
  <2> HIDE DEF c, w
  <2> QED BY Zenon, <2>1, FourBytes
<1>3. Ros2BridgeHk(t) = s6
  <2>1. Ros2BridgeHk(t) = U32Le(c[1]) \o U32Le(c[2]) \o U32Le(c[3]) \o U32Le(c[4])
                            \o U32Le(c[5]) \o U32Le(c[6])
    BY DEF Ros2BridgeHk
  <2>2. /\ w[1] = U32Le(c[1]) /\ w[2] = U32Le(c[2]) /\ w[3] = U32Le(c[3])
        /\ w[4] = U32Le(c[4]) /\ w[5] = U32Le(c[5]) /\ w[6] = U32Le(c[6])
    OBVIOUS
  <2> HIDE DEF c, w
  <2>3. <<>> \o w[1] = w[1]
    BY <1>2
  <2> QED BY Zenon, <2>1, <2>2, <2>3
<1> HIDE DEF w
<1>4. <<>> \in Seq(Int) /\ Blocks(<<>>, <<>>, w, 0)
  <2>1. <<>> \in Seq(Int)
    OBVIOUS
  <2> QED BY Zenon, <2>1, NoBlocks
<1> HIDE DEF s1, s2, s3, s4, s5, s6
<1>5. Blocks(s1, <<>>, w, 1)
  <2>1. w[0 + 1] \in Seq(Int) /\ Len(w[0 + 1]) = 4 /\ 0 + 1 = 1
    BY <1>2
  <2> QED BY Zenon, <1>4, <2>1, OneBlockMore DEF s1
<1>6. Blocks(s2, <<>>, w, 2)
  <2>1. w[1 + 1] \in Seq(Int) /\ Len(w[1 + 1]) = 4 /\ 1 + 1 = 2
    BY <1>2
  <2> QED BY Zenon, <1>4, <1>5, <2>1, OneBlockMore DEF s2
<1>7. Blocks(s3, <<>>, w, 3)
  <2>1. w[2 + 1] \in Seq(Int) /\ Len(w[2 + 1]) = 4 /\ 2 + 1 = 3
    BY <1>2
  <2> QED BY Zenon, <1>4, <1>6, <2>1, OneBlockMore DEF s3
<1>8. Blocks(s4, <<>>, w, 4)
  <2>1. w[3 + 1] \in Seq(Int) /\ Len(w[3 + 1]) = 4 /\ 3 + 1 = 4
    BY <1>2
  <2> QED BY Zenon, <1>4, <1>7, <2>1, OneBlockMore DEF s4
<1>9. Blocks(s5, <<>>, w, 5)
  <2>1. w[4 + 1] \in Seq(Int) /\ Len(w[4 + 1]) = 4 /\ 4 + 1 = 5
    BY <1>2
  <2> QED BY Zenon, <1>4, <1>8, <2>1, OneBlockMore DEF s5
<1>10. Blocks(s6, <<>>, w, 6)
  <2>1. w[5 + 1] \in Seq(Int) /\ Len(w[5 + 1]) = 4 /\ 5 + 1 = 6
    BY <1>2
  <2> QED BY Zenon, <1>4, <1>9, <2>1, OneBlockMore DEF s6
<1> QED BY Zenon, <1>1, <1>3, <1>10 DEF w, c

LEMMA FleetPayload ==
  ASSUME NEW z \in 0..1
  PROVE  /\ \A k \in 1..3 : FleetAges(z)[k] \in Nat
         /\ Blocks(FleetHk(z), <<7>>, [k \in 1..3 |-> Be32(FleetAges(z)[k])], 3)
<1> DEFINE c == FleetAges(z)  w == [k \in 1..3 |-> Be32(c[k])]  p == <<7>>
           s1 == p \o w[1]  s2 == s1 \o w[2]  s3 == s2 \o w[3]
<1>1. \A k \in 1..3 : c[k] \in Nat
  <2>1. c[1] \in Nat /\ c[2] \in Nat /\ c[3] \in Nat
    BY DEF FleetAges
  <2> HIDE DEF c
  <2> QED BY <2>1
<1>2. \A k \in 1..3 : w[k] \in Seq(Int) /\ Len(w[k]) = 4
  <2> SUFFICES ASSUME NEW k \in 1..3 PROVE w[k] \in Seq(Int) /\ Len(w[k]) = 4
    OBVIOUS
  <2>1. c[k] \in Nat /\ w[k] = Be32(c[k])
    BY <1>1
  <2> HIDE DEF c, w
  <2> QED BY Zenon, <2>1, FourBytes
<1>3. FleetHk(z) = s3
  <2>1. FleetHk(z) = p \o Be32(c[1]) \o Be32(c[2]) \o Be32(c[3])
    BY DEF FleetHk
  <2>2. w[1] = Be32(c[1]) /\ w[2] = Be32(c[2]) /\ w[3] = Be32(c[3])
    OBVIOUS
  <2> HIDE DEF c, w, p
  <2> QED BY Zenon, <2>1, <2>2
<1> HIDE DEF w
<1>4. p \in Seq(Int) /\ Blocks(p, p, w, 0)
  <2>1. p \in Seq(Int)
    OBVIOUS
  <2> HIDE DEF p
  <2> QED BY Zenon, <2>1, NoBlocks
<1> HIDE DEF s1, s2, s3, p
<1>5. Blocks(s1, p, w, 1)
  <2>1. w[0 + 1] \in Seq(Int) /\ Len(w[0 + 1]) = 4 /\ 0 + 1 = 1
    BY <1>2
  <2> QED BY Zenon, <1>4, <2>1, OneBlockMore DEF s1
<1>6. Blocks(s2, p, w, 2)
  <2>1. w[1 + 1] \in Seq(Int) /\ Len(w[1 + 1]) = 4 /\ 1 + 1 = 2
    BY <1>2
  <2> QED BY Zenon, <1>4, <1>5, <2>1, OneBlockMore DEF s2
<1>7. Blocks(s3, p, w, 3)
  <2>1. w[2 + 1] \in Seq(Int) /\ Len(w[2 + 1]) = 4 /\ 2 + 1 = 3
    BY <1>2
  <2> QED BY Zenon, <1>4, <1>6, <2>1, OneBlockMore DEF s3
<1> QED BY Zenon, <1>1, <1>3, <1>7 DEF w, c, p

LEMMA ProximityPayload ==
  ASSUME NEW t \in Nat, NEW z \in 0..1
  PROVE  LET s == Prx1Hk(t, z)
         IN  /\ s \in Seq(Int) /\ Len(s) = 10 /\ s[1] = 1 /\ s[2] = Strength(z)
             /\ LastContact(t) \in Seq(Int) /\ Len(LastContact(t)) = 8
             /\ \A i \in 1..8 : s[2 + i] = LastContact(t)[i]
<1> DEFINE u == <<1, Strength(z)>>  v == LastContact(t)  s == u \o v
<1>1. /\ u \in Seq(Int) /\ Len(u) = 2 /\ u[1] = 1 /\ u[2] = Strength(z)
      /\ v \in Seq(Int) /\ Len(v) = 8
  BY DEF Strength, LastContact
<1>2. Prx1Hk(t, z) = s
  BY DEF Prx1Hk
<1> HIDE DEF u, v
<1>3. /\ s \in Seq(Int) /\ Len(s) = Len(u) + Len(v)
      /\ \A i \in 1..Len(u) : s[i] = u[i]
      /\ \A i \in 1..Len(v) : s[Len(u) + i] = v[i]
  BY Zenon, <1>1, JoinIs
<1> HIDE DEF s
<1> QED BY <1>1, <1>2, <1>3 DEF v

\* s is a sequence of n numbers.
Sized(s, n) == s \in Seq(Int) /\ Len(s) = n

LEMMA SizedJoin ==
  ASSUME NEW s, NEW t, NEW m \in Nat, NEW n \in Nat, Sized(s, m), Sized(t, n)
  PROVE  Sized(s \o t, m + n)
BY JoinIs DEF Sized

LEMMA SizedParts ==
  /\ \A n \in Nat : Sized(FloatBytes(n), 4 * n)
  /\ \A n \in Nat : Sized(U32Le(n), 4)
  /\ \A n \in Int : Sized(U16Le(n), 2)
<1>1. ASSUME NEW n \in Nat PROVE Sized(FloatBytes(n), 4 * n) /\ Sized(U32Le(n), 4)
  BY Zenon, FloatBytesIs, FourBytes DEF Sized
<1>2. ASSUME NEW n \in Int PROVE Sized(U16Le(n), 2)
  BY U16LeIs DEF Sized
<1> QED BY <1>1, <1>2

LEMMA OrbiterShort ==
  ASSUME NEW t \in Nat, NEW z \in 0..1
  PROVE  /\ Sized(CdhHk(t), 6 + 4) /\ Sized(AdcsHk, 28 + 4) /\ Sized(CommHk(t), 8)
         /\ Sized(PowerHk(t, z), 2 + 2 + 2 + 2) /\ Sized(PayloadHk(t), 2 + 2 + 2 + 2)
<1>1. /\ Sized(<<1, 0, t % 256, 0, 0, 0>>, 6) /\ Sized(<<0, 0, 0, 0>>, 4)
      /\ Sized(<<1, 0, 100, 0, t % 256, 0, 0, 0>>, 8) /\ Sized(<<1, 0>>, 2)
  <2>1. t % 256 \in Int
    OBVIOUS
  <2> QED BY <2>1 DEF Sized
<1>2. Sized(FloatBytes(7), 28)
  <2>1. 4 * 7 = 28 /\ 7 \in Nat
    OBVIOUS
  <2> QED BY ONLY <2>1, SizedParts
<1>3. /\ 6 \in Nat /\ 4 \in Nat /\ 28 \in Nat /\ 2 \in Nat /\ 2 + 2 \in Nat
      /\ 2 + 2 + 2 \in Nat
  OBVIOUS
<1>4. Sized(CdhHk(t), 6 + 4)
  BY Zenon, <1>1, <1>3, SizedParts, SizedJoin DEF CdhHk
<1>5. Sized(AdcsHk, 28 + 4) /\ Sized(CommHk(t), 8)
  BY Zenon, <1>1, <1>2, <1>3, SizedJoin DEF AdcsHk, CommHk
<1>6. ASSUME NEW a, NEW b, NEW c, NEW d,
             Sized(a, 2), Sized(b, 2), Sized(c, 2), Sized(d, 2)
      PROVE  Sized(a \o b \o c \o d, 2 + 2 + 2 + 2)
  BY Zenon, <1>3, <1>6, SizedJoin
<1>7. Sized(PowerHk(t, z), 2 + 2 + 2 + 2)
  <2> DEFINE v == 28000 + (1400 * z)  b == Battery(t)
  <2>1. v \in Int /\ b \in Int /\ 2110 \in Int /\ 0 \in Int
    BY DEF Battery
  <2>2. PowerHk(t, z) = U16Le(v) \o U16Le(b) \o U16Le(2110) \o U16Le(0)
    BY DEF PowerHk
  <2> DEFINE c == U16Le(2110)  d == U16Le(0)
  <2>3. /\ Sized(U16Le(v), 2) /\ Sized(U16Le(b), 2) /\ Sized(c, 2) /\ Sized(d, 2)
    BY <2>1, SizedParts
  <2>4. PowerHk(t, z) = U16Le(v) \o U16Le(b) \o c \o d
    BY <2>2
  <2> HIDE DEF v, b, c, d
  <2> QED BY Zenon, <1>6, <2>3, <2>4
<1>8. Sized(PayloadHk(t), 2 + 2 + 2 + 2)
  <2> DEFINE v == t % 65536  c == U16Le(1000)
  <2>1. v \in Int
    OBVIOUS
  <2>2. PayloadHk(t) = <<1, 0>> \o c \o U16Le(v) \o U16Le(v)
    BY DEF PayloadHk
  <2>3. /\ Sized(U16Le(v), 2) /\ Sized(c, 2)
    BY <2>1, SizedParts
  <2> HIDE DEF v, c
  <2> QED BY Zenon, <1>1, <1>6, <2>2, <2>3
<1> QED BY ONLY <1>4, <1>5, <1>7, <1>8

LEMMA VehiclesShort ==
  ASSUME NEW z \in 0..1
  PROVE  /\ Sized(RoverLandHk, 12 + 2) /\ Sized(RoverLandHkN(z), 12 + 2)
         /\ Sized(TitanRoverHk(z), 12 + 2) /\ Sized(UavHk, 16)
         /\ Sized(RoverCryoHk(z), 8 + 2) /\ Sized(TitanCryoHk(z), 8 + 2)
<1>1. /\ Sized(FloatBytes(2), 8) /\ Sized(FloatBytes(3), 12) /\ Sized(FloatBytes(4), 16)
  <2>1. /\ 4 * 2 = 8 /\ 4 * 3 = 12 /\ 4 * 4 = 16 /\ 2 \in Nat /\ 3 \in Nat /\ 4 \in Nat
    OBVIOUS
  <2> QED BY ONLY <2>1, SizedParts
<1>2. /\ Sized(<<20, 0>>, 2) /\ Sized(U16Le(10 + (20 * z)), 2)
      /\ Sized(U16Le(65 + (20 * z)), 2)
  <2>1. 10 + (20 * z) \in Int /\ 65 + (20 * z) \in Int
    OBVIOUS
  <2>2. Sized(<<20, 0>>, 2)
    BY DEF Sized
  <2> QED BY <2>1, <2>2, SizedParts
<1>3. /\ Sized(U16Le(((100 * z) - 1850) % 65536), 2)
      /\ Sized(U16Le(((60 * z) - 1820) % 65536), 2)
  <2>1. ((100 * z) - 1850) % 65536 \in Int /\ ((60 * z) - 1820) % 65536 \in Int
    OBVIOUS
  <2> QED BY <2>1, SizedParts
<1>4. 8 \in Nat /\ 12 \in Nat /\ 2 \in Nat
  OBVIOUS
<1>5. Sized(RoverLandHk, 12 + 2) /\ Sized(UavHk, 16)
  BY Zenon, <1>1, <1>2, <1>4, SizedJoin DEF RoverLandHk, UavHk
<1>6. Sized(RoverLandHkN(z), 12 + 2) /\ Sized(TitanRoverHk(z), 12 + 2)
  BY <1>1, <1>2, <1>4, SizedJoin DEF RoverLandHkN, TitanRoverHk
<1>7. Sized(RoverCryoHk(z), 8 + 2) /\ Sized(TitanCryoHk(z), 8 + 2)
  BY <1>1, <1>3, <1>4, SizedJoin DEF RoverCryoHk, TitanCryoHk
<1> QED BY ONLY <1>5, <1>6, <1>7

LEMMA FromIs ==
  ASSUME NEW first \in Nat, NEW n \in Nat
  PROVE  /\ From(first, n) \in Seq(first..(first + n - 1))
         /\ Range(From(first, n)) = first..(first + n - 1)
<1> DEFINE f == From(first, n)
<1>1. f = [k \in 1..n |-> first + k - 1]
  BY DEF From
<1>2. f \in Seq(first..(first + n - 1))
  <2>1. \A k \in 1..n : first + k - 1 \in first..(first + n - 1)
    OBVIOUS
  <2> QED BY <1>1, <2>1
<1>3. \A x \in first..(first + n - 1) : x - first + 1 \in 1..n /\ f[x - first + 1] = x
  BY <1>1
<1>4. DOMAIN f = 1..n /\ \A k \in 1..n : f[k] \in first..(first + n - 1)
  BY <1>1
<1> HIDE DEF f
<1>5. Range(f) = {f[x] : x \in DOMAIN f}
  BY DEF Range
<1>6. Range(f) = first..(first + n - 1)
  BY <1>3, <1>4, <1>5
<1> QED BY <1>2, <1>6 DEF f

LEMMA FromTo ==
  ASSUME NEW first \in Nat, NEW n \in Nat, NEW last, last = first + n - 1,
         NEW f, f = From(first, n)
  PROVE  f \in Seq(Int) /\ Range(f) = first..last
<1>1. f \in Seq(first..last) /\ Range(f) = first..last
  BY Zenon, FromIs
<1>2. \A x \in first..last : x \in Int
  OBVIOUS
<1> QED BY <1>1, <1>2

\* Which vehicles there are
LEMMA VehiclesAre ==
  /\ LandRovers \in Seq(Int) /\ Uavs \in Seq(Int) /\ TitanRovers \in Seq(Int)
  /\ TitanUavs \in Seq(Int) /\ TitanCryobots \in Seq(Int)
  /\ Range(LandRovers) = 768..770 /\ Range(Uavs) = 960..964
  /\ Range(TitanRovers) = 1040..1042 /\ Range(TitanUavs) = 1056..1060
  /\ Range(TitanCryobots) = 1072..1075
<1>1. LandRovers \in Seq(Int) /\ Range(LandRovers) = 768..770
  <2> DEFINE first == 768  n == 3  last == 770
  <2>1. first \in Nat /\ n \in Nat /\ last = first + n - 1 /\ LandRovers = From(first, n)
    BY DEF LandRovers
  <2> HIDE DEF first, n, last
  <2>2. LandRovers \in Seq(Int) /\ Range(LandRovers) = first..last
    BY ONLY Zenon, <2>1, FromTo
  <2> QED BY ONLY <2>2 DEF first, last
<1>2. Uavs \in Seq(Int) /\ Range(Uavs) = 960..964
  <2> DEFINE first == 960  n == 5  last == 964
  <2>1. first \in Nat /\ n \in Nat /\ last = first + n - 1 /\ Uavs = From(first, n)
    BY DEF Uavs
  <2> HIDE DEF first, n, last
  <2>2. Uavs \in Seq(Int) /\ Range(Uavs) = first..last
    BY ONLY Zenon, <2>1, FromTo
  <2> QED BY ONLY <2>2 DEF first, last
<1>3. TitanRovers \in Seq(Int) /\ Range(TitanRovers) = 1040..1042
  <2> DEFINE first == 1040  n == 3  last == 1042
  <2>1. first \in Nat /\ n \in Nat /\ last = first + n - 1 /\ TitanRovers = From(first, n)
    BY DEF TitanRovers
  <2> HIDE DEF first, n, last
  <2>2. TitanRovers \in Seq(Int) /\ Range(TitanRovers) = first..last
    BY ONLY Zenon, <2>1, FromTo
  <2> QED BY ONLY <2>2 DEF first, last
<1>4. TitanUavs \in Seq(Int) /\ Range(TitanUavs) = 1056..1060
  <2> DEFINE first == 1056  n == 5  last == 1060
  <2>1. first \in Nat /\ n \in Nat /\ last = first + n - 1 /\ TitanUavs = From(first, n)
    BY DEF TitanUavs
  <2> HIDE DEF first, n, last
  <2>2. TitanUavs \in Seq(Int) /\ Range(TitanUavs) = first..last
    BY ONLY Zenon, <2>1, FromTo
  <2> QED BY ONLY <2>2 DEF first, last
<1>5. TitanCryobots \in Seq(Int) /\ Range(TitanCryobots) = 1072..1075
  <2> DEFINE first == 1072  n == 4  last == 1075
  <2>1. first \in Nat /\ n \in Nat /\ last = first + n - 1 /\ TitanCryobots = From(first, n)
    BY DEF TitanCryobots
  <2> HIDE DEF first, n, last
  <2>2. TitanCryobots \in Seq(Int) /\ Range(TitanCryobots) = first..last
    BY ONLY Zenon, <2>1, FromTo
  <2> QED BY ONLY <2>2 DEF first, last
<1> QED BY ONLY <1>1, <1>2, <1>3, <1>4, <1>5

LEMMA SeqOfFunction ==
  ASSUME NEW S, NEW n \in Nat, NEW s \in [1..n -> S]
  PROVE  s \in Seq(S)
OBVIOUS

LEMMA SeqOfElements ==
  ASSUME NEW S, NEW s \in Seq(Int), \A i \in DOMAIN s : s[i] \in S
  PROVE  s \in Seq(S)
<1>1. Len(s) \in Nat /\ s \in [1..Len(s) -> Int]
  BY LenProperties
<1>2. s \in [1..Len(s) -> S]
  BY <1>1
<1> QED BY Zenon, <1>1, <1>2, SeqOfFunction

LEMMA RangeJoin ==
  ASSUME NEW S, NEW s \in Seq(S), NEW t \in Seq(S)
  PROVE  Range(s \o t) = Range(s) \cup Range(t)
<1>1. /\ s \o t \in Seq(S) /\ Len(s \o t) = Len(s) + Len(t)
      /\ \A i \in 1..Len(s) : (s \o t)[i] = s[i]
      /\ \A i \in 1..Len(t) : (s \o t)[Len(s) + i] = t[i]
  OBVIOUS
<1> DEFINE x == s \o t
<1> HIDE DEF x
<1>2. Range(x) \subseteq Range(s) \cup Range(t)
  <2> SUFFICES ASSUME NEW i \in 1..Len(x) PROVE x[i] \in Range(s) \cup Range(t)
    BY <1>1 DEF Range, x
  <2>1. CASE i <= Len(s)
    BY <1>1, <2>1 DEF Range, x
  <2>2. CASE i > Len(s)
    <3>1. i - Len(s) \in 1..Len(t) /\ Len(s) + (i - Len(s)) = i
      BY <1>1, <2>2 DEF x
    <3>2. x[i] = t[i - Len(s)]
      BY <1>1, <3>1 DEF x
    <3> QED BY <3>1, <3>2 DEF Range
  <2> QED BY <1>1, <2>1, <2>2 DEF x
<1>3. Range(s) \subseteq Range(x)
  BY <1>1 DEF Range, x
<1>4. Range(t) \subseteq Range(x)
  <2> SUFFICES ASSUME NEW i \in 1..Len(t) PROVE t[i] \in Range(x)
    BY DEF Range
  <2>1. Len(s) + i \in 1..Len(x) /\ x[Len(s) + i] = t[i]
    BY <1>1 DEF x
  <2>2. DOMAIN x = 1..Len(x)
    BY <1>1 DEF x
  <2> QED BY <2>1, <2>2 DEF Range
<1> QED BY <1>2, <1>3, <1>4 DEF x

\* Who gets which payload
LEMMA GuardsAre ==
  /\ Range(TitanRovers) = 1040..1042
  /\ Range(Uavs \o TitanUavs) = (960..964) \cup (1056..1060)
  /\ Range(TitanCryobots) = 1072..1075 /\ Cryobot = 1024
<1>1. Range(Uavs \o TitanUavs) = Range(Uavs) \cup Range(TitanUavs)
  <2>1. Uavs \in Seq(Int) /\ TitanUavs \in Seq(Int)
    BY VehiclesAre
  <2> QED BY ZenonT(30), <2>1, RangeJoin
<1> QED BY <1>1, VehiclesAre DEF Cryobot

\* Whom the injector speaks for
Served == {257, 272, 288, 296, 297, 304, 320, 352} \cup (768..770) \cup (960..964)
          \cup {1024} \cup (1040..1042) \cup (1056..1060) \cup (1072..1075)

LEMMA OnIs ==
  ASSUME NEW S, NEW apids \in Seq(S), NEW vc \in Nat
  PROVE  On(vc, apids) \in Seq(S \X Nat)
BY DEF On

LEMMA ScriptIs == Script \in Seq(Served \X Nat)
<1>1. OrbiterSends \in Seq(Served \X Nat)
  <2> DEFINE q == <<257, 272, 288, 296, 297, 304, 320, 352>>
  <2>1. q \in Seq(Served)
    BY DEF Served
  <2>2. OrbiterSends = On(0, q)
    BY DEF OrbiterSends, VcHk
  <2> HIDE DEF q
  <2>3. 0 \in Nat
    OBVIOUS
  <2> QED BY Zenon, <2>1, <2>2, <2>3, OnIs
<1>2. /\ LandRovers \in Seq(Served) /\ Uavs \in Seq(Served) /\ TitanRovers \in Seq(Served)
      /\ TitanUavs \in Seq(Served) /\ TitanCryobots \in Seq(Served)
  <2>1. /\ 768..770 \subseteq Served /\ 960..964 \subseteq Served
        /\ 1040..1042 \subseteq Served /\ 1056..1060 \subseteq Served
        /\ 1072..1075 \subseteq Served
    BY DEF Served
  <2>2. ASSUME NEW s \in Seq(Int), \A x \in Range(s) : x \in Served
        PROVE  s \in Seq(Served)
    <3>1. \A i \in DOMAIN s : s[i] \in Served
      BY <2>2 DEF Range
    <3> QED BY Zenon, <3>1, SeqOfElements
  <2>3. LandRovers \in Seq(Int) /\ \A x \in Range(LandRovers) : x \in Served
    BY ONLY <2>1, VehiclesAre
  <2>4. Uavs \in Seq(Int) /\ \A x \in Range(Uavs) : x \in Served
    BY ONLY <2>1, VehiclesAre
  <2>5. TitanRovers \in Seq(Int) /\ \A x \in Range(TitanRovers) : x \in Served
    BY ONLY <2>1, VehiclesAre
  <2>6. TitanUavs \in Seq(Int) /\ \A x \in Range(TitanUavs) : x \in Served
    BY ONLY <2>1, VehiclesAre
  <2>7. TitanCryobots \in Seq(Int) /\ \A x \in Range(TitanCryobots) : x \in Served
    BY ONLY <2>1, VehiclesAre
  <2> QED BY ONLY Zenon, <2>2, <2>3, <2>4, <2>5, <2>6, <2>7
<1>3. <<Cryobot>> \in Seq(Served)
  BY DEF Cryobot, Served
<1>4. \A s, t \in Seq(Served) : s \o t \in Seq(Served)
  OBVIOUS
<1>5. /\ LandRovers \o Uavs \o <<Cryobot>> \in Seq(Served)
      /\ TitanRovers \o TitanUavs \o TitanCryobots \in Seq(Served)
  BY ONLY Zenon, <1>2, <1>3, <1>4
<1>6. MarsSends \in Seq(Served \X Nat) /\ TitanSends \in Seq(Served \X Nat)
  <2>1. VcRover \in Nat
    BY DEF VcRover
  <2> QED BY ONLY Zenon, <1>5, <2>1, OnIs DEF MarsSends, TitanSends
<1>7. \A s, t \in Seq(Served \X Nat) : s \o t \in Seq(Served \X Nat)
  OBVIOUS
<1> QED BY ONLY Zenon, <1>1, <1>6, <1>7 DEF Script

\* A payload of at most 100 bytes
Short(s) == s \in Seq(Int) /\ Len(s) <= 100

LEMMA PayloadIsShort ==
  ASSUME NEW a \in Served, NEW t \in Nat, NEW z \in 0..1
  PROVE  Short(HkPayload(a, t, z))
<1>1. \A s, n : Sized(s, n) /\ n <= 100 => Short(s)
  BY DEF Sized, Short
<1>2. CASE a \in {257, 272, 288, 304, 320}
  <2>1. HkPayload(a, t, z) \in {CdhHk(t), AdcsHk, CommHk(t), PowerHk(t, z), PayloadHk(t)}
    BY ONLY <1>2, GuardsAre DEF HkPayload
  <2> QED BY <1>1, <2>1, OrbiterShort
<1>3. CASE a \in {296, 297, 352}
  <2>1. HkPayload(a, t, z) \in {Ros2BridgeHk(t), Prx1Hk(t, z), FleetHk(z)}
    BY ONLY <1>3, GuardsAre DEF HkPayload
  <2>2. Short(Ros2BridgeHk(t)) /\ Short(FleetHk(z))
    <3>1. Len(<<>>) = 0 /\ Len(<<7>>) = 1
      OBVIOUS
    <3> DEFINE p == <<7>>  b == Ros2BridgeHk(t)  f == FleetHk(z)
               w == [k \in 1..6 |-> U32Le(BridgeCounters(t)[k])]
               v == [k \in 1..3 |-> Be32(FleetAges(z)[k])]
    <3> HIDE DEF p, b, f, w, v
    <3>2. Blocks(b, <<>>, w, 6) /\ Blocks(f, p, v, 3)
      BY Zenon, BridgePayload, FleetPayload DEF p, b, f, w, v
    <3>3. b \in Seq(Int) /\ Len(b) = 24 /\ f \in Seq(Int) /\ Len(f) = 13
      BY <3>1, <3>2 DEF Blocks, p
    <3> QED BY <3>3 DEF Short, b, f
  <2>3. Short(Prx1Hk(t, z))
    <3>1. Prx1Hk(t, z) \in Seq(Int) /\ Len(Prx1Hk(t, z)) = 10
      BY Zenon, ProximityPayload
    <3> QED BY <3>1 DEF Short
  <2> QED BY <2>1, <2>2, <2>3
<1>4. CASE a \in (768..770) \cup (960..964) \cup {1024} \cup (1040..1042)
                \cup (1056..1060) \cup (1072..1075)
  <2>2. HkPayload(a, t, z) \in {RoverLandHk, RoverLandHkN(z), TitanRoverHk(z), UavHk,
                                RoverCryoHk(z), TitanCryoHk(z)}
    BY ONLY <1>4, GuardsAre DEF HkPayload
  <2> QED BY <1>1, <2>2, VehiclesShort
<1> QED BY ONLY <1>2, <1>3, <1>4, a \in Served DEF Served

LEMMA EventPayloadIs ==
  ASSUME NEW severity \in Int, NEW n \in Nat
  PROVE  LET u == EventPayload(severity, n)
         IN  /\ u \in Seq(Int) /\ Len(u) = n + 2 /\ u[1] = severity /\ u[n + 2] = 0
             /\ \A k \in 2..(n + 1) : u[k] = 65
<1> DEFINE a == <<severity>>  b == [k \in 1..n |-> 65]  c == <<0>>
<1>1. /\ a \in Seq(Int) /\ Len(a) = 1 /\ a[1] = severity
      /\ b \in Seq(Int) /\ Len(b) = n /\ \A k \in 1..n : b[k] = 65
      /\ c \in Seq(Int) /\ Len(c) = 1 /\ c[1] = 0
  OBVIOUS
<1>2. EventPayload(severity, n) = (a \o b) \o c
  BY DEF EventPayload
<1> HIDE DEF a, b, c
<1> DEFINE d == a \o b  e == d \o c
<1>4. /\ d \in Seq(Int) /\ Len(d) = 1 + n
      /\ \A i \in 1..1 : d[i] = a[i]
      /\ \A i \in 1..n : d[1 + i] = b[i]
  <2>1. /\ d \in Seq(Int) /\ Len(d) = Len(a) + Len(b)
        /\ \A i \in 1..Len(a) : d[i] = a[i]
        /\ \A i \in 1..Len(b) : d[Len(a) + i] = b[i]
    BY Zenon, <1>1, JoinIs
  <2> HIDE DEF d
  <2> QED BY <1>1, <2>1
<1> HIDE DEF d
<1>5. /\ e \in Seq(Int) /\ Len(e) = (1 + n) + 1
      /\ \A i \in 1..(1 + n) : e[i] = d[i]
      /\ \A i \in 1..1 : e[(1 + n) + i] = c[i]
  <2>1. /\ e \in Seq(Int) /\ Len(e) = Len(d) + Len(c)
        /\ \A i \in 1..Len(d) : e[i] = d[i]
        /\ \A i \in 1..Len(c) : e[Len(d) + i] = c[i]
    BY Zenon, <1>1, <1>4, JoinIs
  <2> HIDE DEF e
  <2> QED BY <1>1, <1>4, <2>1
<1> HIDE DEF e
<1>6. e[1] = severity /\ e[n + 2] = 0 /\ Len(e) = n + 2
  BY <1>1, <1>4, <1>5
<1>7. ASSUME NEW k \in 2..(n + 1) PROVE e[k] = 65
  <2>1. k - 1 \in 1..n /\ k \in 1..(1 + n) /\ 1 + (k - 1) = k
    OBVIOUS
  <2>2. d[k] = b[k - 1]
    BY <1>4, <2>1
  <2> QED BY <1>1, <1>5, <2>1, <2>2
<1> QED BY <1>2, <1>5, <1>6, <1>7 DEF d, e

LEMMA EventIsShort ==
  ASSUME NEW t \in Nat
  PROVE  LET e == EventTemplate(t)
         IN  e[1] \in Apids /\ Len(EventPayload(e[2], e[3])) \in 0..100
<1> DEFINE e == EventTemplate(t)
<1>1. e[1] \in Nat /\ e[1] <= 2047 /\ e[2] \in Int /\ e[3] \in 0..60
  <2>1. Len(Events) = 10
    BY DEF Events
  <2> DEFINE k == 1 + (t % 10)
  <2>2. e = Events[k] /\ k \in 1..10
    BY <2>1 DEF EventTemplate
  <2> HIDE DEF k
  <2>3. \/ k = 1 \/ k = 2 \/ k = 3 \/ k = 4 \/ k = 5
        \/ k = 6 \/ k = 7 \/ k = 8 \/ k = 9 \/ k = 10
    BY <2>2
  <2> QED BY <2>2, <2>3 DEF Events
<1>2. e[1] \in Apids
  BY <1>1, IsCount
<1>3. Len(EventPayload(e[2], e[3])) = e[3] + 2
  <2>1. e[2] \in Int /\ e[3] \in Nat
    BY <1>1
  <2> DEFINE x == e[2]  n == e[3]
  <2>3. x \in Int /\ n \in Nat
    BY <2>1
  <2> HIDE DEF e, x, n
  <2>2. Len(EventPayload(x, n)) = n + 2
    BY Zenon, <2>3, EventPayloadIs
  <2> QED BY Zenon, <2>2 DEF x, n
<1> HIDE DEF e
<1>4. Len(EventPayload(e[2], e[3])) \in 0..100
  <2> DEFINE l == Len(EventPayload(e[2], e[3]))  m == e[3]
  <2>1. m \in 0..60 /\ l = m + 2
    BY <1>1, <1>3
  <2> HIDE DEF l, m
  <2>2. l \in 0..100
    BY <2>1
  <2> QED BY Zenon, <2>2 DEF l
<1> QED BY Zenon, <1>2, <1>4 DEF e

\* What a frame is made of, where it may be taken
MadeOf(of) ==
  /\ of.tick \in Nat /\ of.noise \in 0..1
  /\ of.apid \in {296, 297, 352} => of.user = HkPayload(of.apid, of.tick, of.noise)
  /\ of.user \in Seq(Byte)

\* What a store keeps: the payloads of the frames that truth has
Kept(l, t) ==
  /\ DOMAIN l = DOMAIN t
  /\ \A a \in DOMAIN l :
       LET of == t[a].of
       IN  /\ ~ForbiddenApid(a) /\ of.tick \in Nat /\ of.noise \in 0..1
           /\ l[a] = [apid |-> a, time |-> TaiNow, payload |-> of.user]
           /\ a \in {296, 297, 352} => of.user = HkPayload(a, of.tick, of.noise)

\* The frame of(apid) in the store, and what it was made of
Shown(of) == [apid |-> of.apid, time |-> TaiNow, payload |-> of.user]
Truth(of) == [apid |-> of.apid, of |-> of]

LEMMA StoredKeeps ==
  ASSUME NEW l, NEW t, Kept(l, t), NEW of, MadeOf(of), ~ForbiddenApid(of.apid)
  PROVE  /\ Kept(Stored(Shown(of), l), Stored(Truth(of), t))
         /\ Stored(Shown(of), l)[of.apid] = Shown(of)
<1> DEFINE b == of.apid  k == Stored(Shown(of), l)  u == Stored(Truth(of), t)
<1>1. Shown(of).apid = b /\ Truth(of).apid = b /\ Truth(of).of = of
  BY DEF Shown, Truth
<1>2. /\ k = [a \in DOMAIN l \cup {b} |-> IF a = b THEN Shown(of) ELSE l[a]]
      /\ u = [a \in DOMAIN t \cup {b} |-> IF a = b THEN Truth(of) ELSE t[a]]
  BY Zenon, <1>1 DEF Stored
<1>3. DOMAIN l = DOMAIN t
  BY DEF Kept
<1>4. DOMAIN k = DOMAIN l \cup {b} /\ DOMAIN k = DOMAIN u
  BY Zenon, <1>2, <1>3
<1>5. k[b] = Shown(of) /\ u[b] = Truth(of)
  BY Zenon, <1>2
<1>6. \A a \in DOMAIN l : a # b => k[a] = l[a] /\ u[a] = t[a]
  BY Zenon, <1>2, <1>3
<1>7. ASSUME NEW a \in DOMAIN k
      PROVE  LET o == u[a].of
             IN  /\ ~ForbiddenApid(a) /\ o.tick \in Nat /\ o.noise \in 0..1
                 /\ k[a] = [apid |-> a, time |-> TaiNow, payload |-> o.user]
                 /\ a \in {296, 297, 352} => o.user = HkPayload(a, o.tick, o.noise)
  <2>1. CASE a = b
    BY Zenon, <2>1, <1>5, <1>1 DEF MadeOf, Shown
  <2>2. CASE a # b
    <3>1. a \in DOMAIN l /\ k[a] = l[a] /\ u[a] = t[a]
      BY Zenon, <2>2, <1>4, <1>6
    <3> HIDE DEF k, u
    <3>2. LET o == t[a].of
          IN  /\ ~ForbiddenApid(a) /\ o.tick \in Nat /\ o.noise \in 0..1
              /\ l[a] = [apid |-> a, time |-> TaiNow, payload |-> o.user]
              /\ a \in {296, 297, 352} => o.user = HkPayload(a, o.tick, o.noise)
      BY Zenon, <3>1 DEF Kept
    <3> QED BY <3>1, <3>2
  <2> QED BY <2>1, <2>2
<1> HIDE DEF k, u
<1>8. Kept(k, u)
  BY Zenon, <1>4, <1>7 DEF Kept
<1> QED BY Zenon, <1>5, <1>8 DEF k, u

\* A forbidden APID goes nowhere else, and what is stored is none.
LEMMA RoutedAs ==
  ASSUME NEW vc, NEW a
  PROVE  /\ Route(vc, a) \in {"hk", "rover"} => ~ForbiddenApid(a)
         /\ Route(vc, a) = "forbidden" => ForbiddenApid(a)
BY DEF Route

\* Where the text of an event ends: at k, before which there is no zero
TextEnds(u, k) == (k = Len(u) + 1 \/ u[k] = 0) /\ \A j \in 2..(k - 1) : u[j] # 0

LEMMA TextOf ==
  ASSUME NEW u \in Seq(Byte), NEW s \in Byte, NEW len \in Nat,
         u \in {EventPayload(s, len), SubSeq(EventPayload(s, len), 1, len + 1)}
  PROVE  /\ len + 2 \in 2..(Len(u) + 1) /\ TextEnds(u, len + 2)
         /\ \A k \in 2..(Len(u) + 1) : TextEnds(u, k) => k = len + 2
<1> DEFINE v == EventPayload(s, len)
<1>1. s \in Int
  BY DEF Byte
<1>2. /\ v \in Seq(Int) /\ Len(v) = len + 2 /\ v[len + 2] = 0
      /\ \A k \in 2..(len + 1) : v[k] = 65
  <2>1. v \in Seq(Int) /\ Len(v) = len + 2 /\ v[len + 2] = 0
    BY Zenon, <1>1, EventPayloadIs
  <2>2. ASSUME NEW k \in 2..(len + 1) PROVE v[k] = 65
    BY <1>1, EventPayloadIs
  <2> QED BY Zenon, <2>1, <2>2
<1> HIDE DEF v
<1>3. /\ Len(u) \in {len + 1, len + 2} /\ \A k \in 2..(len + 1) : u[k] = 65
      /\ len + 2 = Len(u) + 1 \/ u[len + 2] = 0
  <2>1. CASE u = v
    BY <1>2, <2>1
  <2>2. CASE u = SubSeq(v, 1, len + 1)
    <3>1. Len(u) = len + 1 /\ \A k \in 1..(len + 1) : u[k] = v[k]
      BY <1>2, <2>2
    <3> QED BY <3>1, <1>2
  <2> QED BY <2>1, <2>2 DEF v
<1>4. len + 2 \in 2..(Len(u) + 1) /\ TextEnds(u, len + 2)
  BY <1>3 DEF TextEnds
<1>5. ASSUME NEW k \in 2..(Len(u) + 1), TextEnds(u, k) PROVE k = len + 2
  <2>1. CASE k < len + 2
    <3>1. k \in 2..(len + 1) /\ k # Len(u) + 1
      BY <2>1, <1>3
    <3>2. u[k] = 65 /\ u[k] = 0
      BY <3>1, <1>3, <1>5 DEF TextEnds
    <3> QED BY <3>2
  <2>2. CASE k > len + 2
    <3>1. len + 2 \in 2..(k - 1) /\ len + 2 # Len(u) + 1
      BY <2>2, <1>3
    <3>2. u[len + 2] # 0 /\ u[len + 2] = 0
      BY <3>1, <1>3, <1>5 DEF TextEnds
    <3> QED BY <3>2
  <2> QED BY <2>1, <2>2
<1> QED BY Zenon, <1>4, <1>5

LEMMA EventRead ==
  ASSUME NEW packet, packet.user \in Seq(Byte)
  PROVE  /\ EventEntry(packet).apid = ExtractApid(packet)
         /\ EventReads(EventEntry(packet), packet.user)
<1> DEFINE u == packet.user  e == EventEntry(packet)
           c == CHOOSE k \in 2..(Len(u) + 1) : TextEnds(u, k)
<1>1. e = [apid |-> ExtractApid(packet), severity |-> IF u = <<>> THEN 0 ELSE u[1],
           message |-> IF u = <<>> THEN 0 ELSE c - 2]
  BY Zenon DEF EventEntry, TextEnds
<1>2. /\ e.apid = ExtractApid(packet)
      /\ e.severity = IF u = <<>> THEN 0 ELSE u[1]
      /\ e.message = IF u = <<>> THEN 0 ELSE c - 2
  <2> HIDE DEF u, c, e
  <2> QED BY <1>1
<1> HIDE DEF e
<1>3. ASSUME u # <<>>, NEW len \in 0..Len(u),
             u \in {EventPayload(u[1], len), SubSeq(EventPayload(u[1], len), 1, len + 1)}
      PROVE  e.severity = u[1] /\ e.message = len
  <2>1. u \in Seq(Byte) /\ u[1] \in Byte /\ len \in Nat
    BY <1>3
  <2>2. /\ len + 2 \in 2..(Len(u) + 1) /\ TextEnds(u, len + 2)
        /\ \A k \in 2..(Len(u) + 1) : TextEnds(u, k) => k = len + 2
    BY Zenon, <1>3, <2>1, TextOf
  <2>3. c = len + 2
    BY <2>2
  <2>4. c - 2 = len
    <3> HIDE DEF u, c
    <3> QED BY <2>1, <2>3
  <2> QED BY Zenon, <1>2, <1>3, <2>4
<1>4. u = <<>> => e.severity = 0 /\ e.message = 0
  BY Zenon, <1>2
<1>5. EventReads(e, u)
  BY Zenon, <1>3, <1>4 DEF EventReads
<1> QED BY Zenon, <1>2, <1>5 DEF e

\* What of carries is found where its channel and APID send it.
AsRouted(of) ==
  LET to == Route(of.vc, of.apid)
  IN  /\ to \in {"hk", "rover"} => latest[of.apid] = Shown(of)
      /\ to = "event" => eventLog.apid = of.apid /\ EventReads(eventLog, of.user)
      /\ to = "forbidden" => ~Seen(of.apid)

\* The last frame, when it was taken
LastIsShown ==
  /\ sent # Absent /\ sent.frame.ocf => clcw = sent.frame.ctr
  /\ sent # Absent /\ sent.fits /\ sent.of.vc \in ActiveVcs => AsRouted(sent.of)

\* Every frame that was not taken has been counted.
RestCounted == failed = unfit /\ unknownVc = stray

\* What the sender of the frames has counted
SenderInv == tick \in Nat /\ seq \in SequenceCounts /\ step \in 1..(Len(Script) + 1)

DownlinkInv ==
  /\ SenderInv /\ RestCounted /\ LastIsShown /\ Kept(latest, truth)

\* One frame on a channel with a decoder: either it does not fit and is counted,
\* or what it carries is stored as it was sent.
LEMMA ProcessKeeps ==
  ASSUME Kept(latest, truth),
         NEW packet, IsPacket(packet), NEW p, PacketOf(packet, p), p.time = TaiNow,
         NEW frame, Carries(frame, packet),
         NEW of, of.apid = p.apid, of.vc = frame.vc, of.user = packet.user,
         Fits(frame, packet) => MadeOf(of), Process(frame, of)
  PROVE  /\ failed' = IF Fits(frame, packet) THEN failed ELSE failed + 1
         /\ Fits(frame, packet) => AsRouted(of)'
         /\ Kept(latest', truth')
<1> DEFINE d == DataField(frame)  to == Route(of.vc, of.apid)  fits == Fits(frame, packet)
<1>1. /\ ParseRefusal(d) = "none" <=> fits
      /\ Parsed(d).apid = of.apid /\ HkFrame(d) = Shown(of)
      /\ d.user = of.user /\ ExtractApid(d) = of.apid
  <2>1. /\ ParseRefusal(d) = "none" <=> fits
        /\ Parsed(d).apid = p.apid
        /\ HkFrame(d) = [apid |-> p.apid, time |-> p.time, payload |-> packet.user]
        /\ d.user = packet.user /\ ExtractApid(d) = p.apid
    BY Zenon, ReadsThrough
  <2> HIDE DEF d, fits
  <2> QED BY Zenon, <2>1 DEF Shown
<1>2. to = Route(frame.vc, Parsed(d).apid)
  BY Zenon, <1>1
<1>3. HkFrame(d).apid = of.apid
  <2>1. Shown(of).apid = of.apid
    BY DEF Shown
  <2> QED BY Zenon, <1>1, <2>1
<1>4. \/ /\ ~fits /\ failed' = failed + 1
         /\ UNCHANGED <<latest, eventLog, truth>>
      \/ /\ fits /\ to \in {"hk", "rover"}
         /\ latest' = Stored(Shown(of), latest) /\ truth' = Stored(Truth(of), truth)
         /\ UNCHANGED <<eventLog, failed>>
      \/ /\ fits /\ to = "event" /\ eventLog' = EventEntry(d)
         /\ UNCHANGED <<latest, truth, failed>>
      \/ /\ fits /\ to \notin {"hk", "rover", "event"}
         /\ UNCHANGED <<latest, truth, eventLog, failed>>
  <2>1. Truth(of) = [apid |-> HkFrame(d).apid, of |-> of]
    BY Zenon, <1>3 DEF Truth
  <2> QED BY Zenon, <1>1, <1>2, <2>1 DEF Process
<1> HIDE DEF fits, to, d
<1>5. to \in {"hk", "rover"} => ~ForbiddenApid(of.apid)
  BY Zenon, RoutedAs DEF to
<1>6. to = "forbidden" => of.apid \notin DOMAIN latest
  <2>1. to = "forbidden" => ForbiddenApid(of.apid)
    BY Zenon, RoutedAs DEF to
  <2> QED BY Zenon, <2>1 DEF Kept
<1>7. (/\ to \in {"hk", "rover"} => latest'[of.apid] = Shown(of)
       /\ to = "event" => eventLog'.apid = of.apid /\ EventReads(eventLog', of.user)
       /\ to = "forbidden" => of.apid \notin DOMAIN latest')
         => AsRouted(of)'
  BY Zenon DEF AsRouted, to, Seen
<1>8. CASE ~fits
  <2>1. failed' = failed + 1 /\ UNCHANGED <<latest, eventLog, truth>>
    BY Zenon, <1>4, <1>8
  <2> QED BY Zenon, <2>1, <1>8 DEF fits
<1>9. CASE fits
  <2>1. MadeOf(of)
    BY Zenon, <1>9 DEF fits
  <2>2. CASE to \in {"hk", "rover"}
    <3>1. /\ latest' = Stored(Shown(of), latest) /\ truth' = Stored(Truth(of), truth)
          /\ failed' = failed
      BY <1>4, <1>9, <2>2
    <3>2. Kept(latest', truth') /\ latest'[of.apid] = Shown(of)
      BY Zenon, <3>1, <2>1, <2>2, <1>5, StoredKeeps
    <3>3. to # "event" /\ to # "forbidden"
      BY <2>2
    <3> QED BY Zenon, <3>1, <3>2, <3>3, <1>7, <1>9 DEF fits
  <2>3. CASE to = "event"
    <3>1. eventLog' = EventEntry(d) /\ UNCHANGED <<latest, truth, failed>>
      BY <1>4, <1>9, <2>3
    <3>2. d.user \in Seq(Byte)
      BY Zenon, <2>1, <1>1 DEF MadeOf
    <3>3. /\ EventEntry(d).apid = ExtractApid(d)
          /\ EventReads(EventEntry(d), d.user)
      BY Zenon, <3>2, EventRead
    <3>4. eventLog'.apid = of.apid /\ EventReads(eventLog', of.user)
      BY Zenon, <3>1, <3>3, <1>1
    <3>5. to \notin {"hk", "rover"} /\ to # "forbidden"
      BY <2>3
    <3> QED BY Zenon, <3>1, <3>4, <3>5, <1>7, <1>9 DEF fits
  <2>4. CASE to \notin {"hk", "rover", "event"}
    <3>1. UNCHANGED <<latest, truth, eventLog, failed>>
      BY <1>4, <1>9, <2>4
    <3>2. to \notin {"hk", "rover"} /\ to # "event"
      BY <2>4
    <3> QED BY Zenon, <3>1, <3>2, <1>6, <1>7, <1>9 DEF fits
  <2> QED BY Zenon, <2>2, <2>3, <2>4
<1> QED BY Zenon, <1>8, <1>9

\* One frame on any channel
LEMMA PassKeeps ==
  ASSUME RestCounted, Kept(latest, truth),
         NEW packet, IsPacket(packet), NEW p, PacketOf(packet, p), p.time = TaiNow,
         NEW frame, Carries(frame, packet),
         NEW of, of.apid = p.apid, of.vc = frame.vc, of.user = packet.user,
         Fits(frame, packet) => MadeOf(of), Pass(frame, packet, of)
  PROVE  RestCounted' /\ LastIsShown' /\ Kept(latest', truth')
<1> DEFINE fits == Fits(frame, packet)  active == frame.vc \in ActiveVcs
           idle == frame.vc = VcIdle
<1>1. /\ sent' = [frame |-> frame, of |-> of, fits |-> fits] /\ Ingest(frame, of)
      /\ unfit' = IF active /\ ~fits THEN unfit + 1 ELSE unfit
      /\ stray' = IF active \/ idle THEN stray ELSE stray + 1
  <2>1. /\ sent' = [frame |-> frame, of |-> of, fits |-> fits] /\ Ingest(frame, of)
        /\ unfit' = IF active /\ ~fits THEN unfit + 1 ELSE unfit
        /\ stray' = IF frame.vc \in ActiveVcs \cup {VcIdle} THEN stray ELSE stray + 1
    BY Zenon DEF Pass
  <2>2. frame.vc \in ActiveVcs \cup {VcIdle} <=> active \/ idle
    BY Zenon
  <2> QED BY Zenon, <2>1, <2>2
<1>2. sent'.frame = frame /\ sent'.of = of /\ sent'.fits = fits
  <2> HIDE DEF fits
  <2> QED BY <1>1
<1>3. sent' # Absent /\ sent'.frame.ocf => clcw' = sent'.frame.ctr
  <2>1. clcw' = IF frame.ocf THEN frame.ctr ELSE clcw
    BY Zenon, <1>1 DEF Ingest
  <2> QED BY Zenon, <1>2, <2>1
<1>4. (fits /\ active => AsRouted(of)') => LastIsShown'
  BY Zenon, <1>2, <1>3 DEF LastIsShown, AsRouted, Seen
<1>5. \/ active /\ Process(frame, of) /\ unknownVc' = unknownVc
      \/ /\ ~active /\ unknownVc' = IF idle THEN unknownVc ELSE unknownVc + 1
         /\ UNCHANGED <<latest, truth, eventLog, failed>>
  <2>1. idle => ~active
    BY DEF VcIdle, ActiveVcs
  <2>2. \/ active /\ Process(frame, of) /\ unknownVc' = unknownVc
        \/ idle /\ UNCHANGED <<unknownVc, latest, truth, eventLog, failed>>
        \/ /\ ~active /\ ~idle /\ unknownVc' = unknownVc + 1
           /\ UNCHANGED <<latest, truth, eventLog, failed>>
    BY Zenon, <1>1 DEF Ingest
  <2> QED BY Zenon, <2>1, <2>2
<1>6. CASE active
  <2>1. Process(frame, of) /\ unknownVc' = unknownVc /\ stray' = stray
    BY Zenon, <1>1, <1>5, <1>6
  <2>2. /\ failed' = IF fits THEN failed ELSE failed + 1
        /\ fits => AsRouted(of)'
        /\ Kept(latest', truth')
    BY Zenon, <2>1, ProcessKeeps
  <2>3. RestCounted'
    BY Zenon, <1>1, <1>6, <2>1, <2>2 DEF RestCounted
  <2> QED BY Zenon, <1>4, <2>2, <2>3
<1>7. CASE ~active
  <2>1. /\ unknownVc' = IF idle THEN unknownVc ELSE unknownVc + 1
        /\ UNCHANGED <<latest, truth, eventLog, failed>>
    BY Zenon, <1>5, <1>7
  <2>2. unfit' = unfit /\ stray' = IF idle THEN stray ELSE stray + 1
    BY Zenon, <1>1, <1>7
  <2>3. RestCounted'
    BY Zenon, <2>1, <2>2 DEF RestCounted
  <2> QED BY Zenon, <1>4, <1>7, <2>1, <2>3
<1> QED BY Zenon, <1>6, <1>7

LEMMA NoneYet == DownlinkInit => DownlinkInv
<1> SUFFICES ASSUME DownlinkInit PROVE DownlinkInv
  OBVIOUS
<1>1. tick = 0 /\ seq = 0 /\ step = 1 /\ latest = <<>> /\ truth = <<>>
      /\ sent = Absent /\ failed = 0 /\ unfit = 0 /\ unknownVc = 0 /\ stray = 0
  BY DEF DownlinkInit, InjectorInit
<1>2. 0 \in SequenceCounts
  BY MaxIs DEF SequenceCounts
<1>3. Len(Script) \in Nat
  <2>1. Script \in Seq(Served \X Nat)
    BY ScriptIs
  <2> QED BY <2>1
<1>4. SenderInv
  <2>1. 1 \in 1..(Len(Script) + 1)
    BY <1>3
  <2> QED BY Zenon, <1>1, <1>2, <2>1 DEF SenderInv
<1>5. Kept(latest, truth)
  BY <1>1 DEF Kept
<1>6. LastIsShown
  BY Zenon, <1>1 DEF LastIsShown
<1>7. RestCounted
  BY Zenon, <1>1 DEF RestCounted
<1> QED BY Zenon, <1>4, <1>5, <1>6, <1>7 DEF DownlinkInv

\* A frame of the injector is longer than its packet: nothing of it is taken.
LEMMA InjectKeeps ==
  ASSUME DownlinkInv, Inject
  PROVE  DownlinkInv' /\ ~sent'.fits
<1>1. tick \in Nat /\ seq \in SequenceCounts /\ step \in 1..(Len(Script) + 1)
      /\ RestCounted /\ Kept(latest, truth)
  BY Zenon DEF DownlinkInv, SenderInv
<1>2. Script \in Seq(Served \X Nat)
  BY ScriptIs
<1>3. Len(Script) \in Nat
  BY <1>2
<1>4. PICK of \in NextSends :
        LET packet == Packet(of.apid, seq, of.user)
        IN  Pass(BuildAosFrame(packet, of.vc, frameCtr), packet, of)
  BY Zenon DEF Inject
<1>5. of.apid \in Apids /\ Len(of.user) \in 0..100
  <2>1. CASE step <= Len(Script)
    <3> DEFINE e == Script[step]
    <3>1. e \in Served \X Nat
      BY <1>1, <1>2, <1>3, <2>1
    <3>2. e[1] \in Served
      BY <3>1
    <3>3. PICK z \in 0..1 : of = [apid |-> e[1], vc |-> e[2], tick |-> tick, noise |-> z,
                                  user |-> HkPayload(e[1], tick, z)]
      BY Zenon, <2>1 DEF NextSends
    <3> HIDE DEF e
    <3>4. of.apid = e[1] /\ of.user = HkPayload(e[1], tick, z)
      BY <3>3
    <3>5. Short(of.user)
      BY Zenon, <1>1, <3>2, <3>4, PayloadIsShort
    <3>6. e[1] \in Apids
      BY <3>2, MaxIs DEF Served, Apids
    <3>7. of.user \in Seq(Int) /\ Len(of.user) <= 100
      BY Zenon, <3>5 DEF Short
    <3>8. Len(of.user) \in Nat
      BY <3>7
    <3> DEFINE n == Len(of.user)
    <3>9. n \in Nat /\ n <= 100
      BY Zenon, <3>7, <3>8
    <3> HIDE DEF n
    <3>10. n \in 0..100
      BY <3>9
    <3> QED BY Zenon, <3>4, <3>6, <3>10 DEF n
  <2>2. CASE ~(step <= Len(Script))
    <3> DEFINE e == EventTemplate(tick)
    <3>1. of = [apid |-> e[1], vc |-> VcEvent, tick |-> tick, noise |-> 0,
                user |-> EventPayload(e[2], e[3])]
      BY Zenon, <2>2 DEF NextSends
    <3>2. e[1] \in Apids /\ Len(EventPayload(e[2], e[3])) \in 0..100
      BY Zenon, <1>1, EventIsShort
    <3> HIDE DEF e
    <3> QED BY <3>1, <3>2
  <2> QED BY <2>1, <2>2
<1> DEFINE packet == Packet(of.apid, seq, of.user)
           frame == BuildAosFrame(packet, of.vc, frameCtr)
           p == Described(Draft(of.apid, seq, of.user))
<1>6. RawLength(Len(of.user)) \in DataLengths /\ Len(of.user) \in Nat
  <2> DEFINE n == Len(of.user)
  <2>1. n \in 0..100
    BY Zenon, <1>5
  <2> HIDE DEF n
  <2>2. RawLength(n) \in Nat /\ RawLength(n) <= 65535 /\ n \in Nat
    BY <2>1 DEF RawLength
  <2>3. RawLength(n) \in DataLengths
    BY <2>2, IsWord DEF DataLengths
  <2>4. n \in Nat
    BY <2>1
  <2> QED BY Zenon, <2>3, <2>4 DEF n
<1>7. /\ IsPacket(packet) /\ PacketOf(packet, p)
      /\ packet.user = of.user /\ packet.data = Len(of.user)
      /\ p.apid = of.apid /\ p.time = TaiNow
  <2> DEFINE a == of.apid  user == of.user
  <2>1. a \in Apids /\ RawLength(Len(user)) \in DataLengths /\ Len(user) \in Nat
    BY Zenon, <1>5, <1>6
  <2> HIDE DEF a, user
  <2>2. LET k == Packet(a, seq, user)
            d == Described(Draft(a, seq, user))
        IN  /\ IsPacket(k) /\ PacketOf(k, d)
            /\ k.user = user /\ k.data = Len(user) /\ d.apid = a /\ d.time = TaiNow
    BY <1>1, <2>1, PacketMade
  <2> QED BY Zenon, <2>2 DEF a, user
<1>8. Len(packet.head) = 16
  BY Zenon, <1>7 DEF PacketOf, IsHeader
<1>9. TotalLen(packet) = 16 + Len(of.user)
  <2> HIDE DEF packet
  <2> QED BY <1>7, <1>8 DEF TotalLen
<1>10. frame.ocf = FALSE /\ frame.vc = of.vc
       /\ frame.field = [packet EXCEPT !.data = FieldLen - HeaderLen]
  <2> HIDE DEF packet, p
  <2> DEFINE len == IF TotalLen(packet) < FieldLen THEN TotalLen(packet) ELSE FieldLen
  <2>1. (len - HeaderLen) + (FieldLen - len) = FieldLen - HeaderLen
    BY <1>5, <1>9 DEF FieldLen, HeaderLen
  <2>2. frame = [vc |-> of.vc, ocf |-> FALSE, ctr |-> frameCtr,
                 field |-> [packet EXCEPT !.data = (len - HeaderLen) + (FieldLen - len)]]
    BY Zenon DEF BuildAosFrame
  <2> HIDE DEF len, frame
  <2> QED BY <2>1, <2>2
<1>11. ~Fits(frame, packet)
  <2> HIDE DEF packet, p, frame
  <2>1. FieldOf(frame) = 1016
    BY <1>10 DEF FieldOf, FieldLen
  <2>2. TotalLen(packet) # 1016
    <3> DEFINE n == Len(of.user)
    <3>1. n \in 0..100 /\ TotalLen(packet) = 16 + n
      BY Zenon, <1>5, <1>9
    <3> HIDE DEF n
    <3> QED BY <3>1
  <2> QED BY <2>1, <2>2 DEF Fits
<1>12. Pass(frame, packet, of)
  BY Zenon, <1>4
<1> HIDE DEF packet, frame, p
<1>13. Carries(frame, packet)
  BY Zenon, <1>10 DEF Carries
<1>14. RestCounted' /\ LastIsShown' /\ Kept(latest', truth')
  BY Zenon, <1>1, <1>7, <1>10, <1>11, <1>12, <1>13, PassKeeps
<1>15. SenderInv'
  <2>1. /\ seq' = (seq + 1) % 16384
        /\ step' = IF step <= Len(Script) THEN step + 1 ELSE 1
        /\ tick' = IF step <= Len(Script) THEN tick ELSE tick + 1
    <3>1. Advance
      BY Zenon DEF Inject
    <3> QED BY <3>1 DEF Advance
  <2>4. seq' \in SequenceCounts
    <3>1. seq \in Nat
      BY <1>1 DEF SequenceCounts
    <3>2. seq' \in Nat /\ seq' <= 16383
      BY <2>1, <3>1
    <3> QED BY <3>2, IsCount
  <2>2. seq' \in SequenceCounts /\ tick' \in Nat
    BY ONLY <2>1, <2>4, <1>1
  <2>3. step' \in 1..(Len(Script) + 1)
    BY <2>1, <1>1, <1>3
  <2> QED BY Zenon, <2>2, <2>3 DEF SenderInv
<1>16. ~sent'.fits
  <2> DEFINE fits == Fits(frame, packet)
  <2>1. sent' = [frame |-> frame, of |-> of, fits |-> fits]
    BY Zenon, <1>12 DEF Pass
  <2>2. ~fits
    BY <1>11
  <2> HIDE DEF fits
  <2> QED BY <2>1, <2>2
<1> QED BY Zenon, <1>14, <1>15, <1>16 DEF DownlinkInv

LEMMA RadioKeeps ==
  ASSUME DownlinkInv, Radio
  PROVE  DownlinkInv'
<1>1. SenderInv /\ RestCounted /\ Kept(latest, truth) /\ UNCHANGED ivars
  BY Zenon DEF DownlinkInv, Radio
<1>2. PICK of \in RadioPackets, size \in Sizes, ocf \in BOOLEAN :
        LET packet == OfSize(Packet(of.apid, 0, of.user), size)
        IN  Pass([vc |-> of.vc, ocf |-> ocf, ctr |-> radioed',
                  field |-> [packet EXCEPT !.data = FieldLen - HeaderLen]], packet, of)
  BY Zenon DEF Radio
<1> DEFINE made == Packet(of.apid, 0, of.user)
           packet == OfSize(made, size)
           frame == [vc |-> of.vc, ocf |-> ocf, ctr |-> radioed',
                     field |-> [packet EXCEPT !.data = FieldLen - HeaderLen]]
           q == Described(Draft(of.apid, 0, of.user))
           p == WithLength(q, size - 7)
<1>3. /\ of.apid \in Apids /\ of.user \in Seq(Byte) /\ RawLength(Len(of.user)) \in DataLengths
      /\ MadeOf(of)
  BY Zenon, RadioAssumption DEF MadeOf
<1>4. size \in Nat /\ size - 7 \in DataLengths /\ size >= HeaderLen
  BY Zenon, RadioAssumption
<1>5. 0 \in SequenceCounts /\ Len(of.user) \in Nat
  BY <1>3, MaxIs DEF SequenceCounts
<1>6. /\ IsPacket(made) /\ PacketOf(made, q) /\ made.user = of.user
      /\ q.apid = of.apid /\ q.time = TaiNow
  <2> DEFINE a == of.apid  user == of.user  n == 0
  <2>1. /\ a \in Apids /\ RawLength(Len(user)) \in DataLengths /\ Len(user) \in Nat
        /\ n \in SequenceCounts
    BY Zenon, <1>3, <1>5
  <2> HIDE DEF a, user, n
  <2>2. LET k == Packet(a, n, user)
            d == Described(Draft(a, n, user))
        IN  IsPacket(k) /\ PacketOf(k, d) /\ k.user = user /\ d.apid = a /\ d.time = TaiNow
    BY <2>1, PacketMade
  <2> QED BY Zenon, <2>2 DEF a, user, n
<1> HIDE DEF made, q
<1>7. /\ IsPacket(packet) /\ packet.user = of.user /\ PacketOf(packet, p)
  BY Zenon, <1>4, <1>6, OfSizeIs
<1>8. p.apid = of.apid /\ p.time = TaiNow
  <2>1. p.apid = q.apid /\ p.time = q.time
    BY DEF WithLength
  <2> QED BY Zenon, <2>1, <1>6
<1>9. Pass(frame, packet, of)
  BY Zenon, <1>2 DEF made
<1> HIDE DEF packet, p
<1>10. Carries(frame, packet) /\ frame.vc = of.vc
  BY DEF Carries
<1> HIDE DEF frame
<1>11. RestCounted' /\ LastIsShown' /\ Kept(latest', truth')
  BY Zenon, <1>1, <1>3, <1>7, <1>8, <1>9, <1>10, PassKeeps
<1>12. SenderInv'
  BY Zenon, <1>1 DEF SenderInv, ivars
<1> QED BY Zenon, <1>11, <1>12 DEF DownlinkInv

\* What is stored is always what a frame that fitted was made of, and as many
\* frames have been counted as were not taken, idle fill aside (framer.rs:309-325,
\* demux.rs:108-126, decoder.rs:98-110, sinks.rs:95-152).
THEOREM DownlinkInvHolds == DownlinkSpec => []DownlinkInv
<1>1. DownlinkInit => DownlinkInv
  BY NoneYet
<1>2. DownlinkInv /\ [DownlinkNext]_dvars => DownlinkInv'
  <2> SUFFICES ASSUME DownlinkInv, [DownlinkNext]_dvars PROVE DownlinkInv'
    OBVIOUS
  <2>1. CASE Inject
    BY Zenon, <2>1, InjectKeeps
  <2>2. CASE Radio
    BY Zenon, <2>2, RadioKeeps
  <2>3. CASE UNCHANGED dvars
    BY Zenon, <2>3 DEF DownlinkInv, SenderInv, RestCounted, LastIsShown, AsRouted,
                       Seen, dvars, ivars
  <2> QED BY <2>1, <2>2, <2>3 DEF DownlinkNext
<1> QED BY <1>1, <1>2, PTL DEF DownlinkSpec

\* No frame of the injector is ever taken, at no tick and in no place of the
\* script: what fills its data field up is longer than its packet says
\* (demo_injector.rs:354-376, decoder.rs:98-110).
THEOREM InjectedNeverFits == DownlinkSpec => [][Inject => ~sent'.fits]_dvars
<1>1. DownlinkInv /\ [DownlinkNext]_dvars => [Inject => ~sent'.fits]_dvars
  BY Zenon, InjectKeeps
<1> QED BY <1>1, DownlinkInvHolds, PTL DEF DownlinkSpec

\* On a channel that has a decoder a frame is taken if and only if its packet
\* fills its data field, and is then found where its channel and APID send it; any
\* other frame is counted, unless it is idle fill: whatever packets of whatever
\* size come on whatever channel (framer.rs:309-325, demux.rs:108-126,
\* decoder.rs:98-110, sinks.rs:95-152).
THEOREM AlwaysStoredIsWhatFits == DownlinkSpec => []StoredIsWhatFits
<1>1. DownlinkInv => StoredIsWhatFits
  BY Zenon DEF DownlinkInv, RestCounted, LastIsShown, AsRouted, Shown, StoredIsWhatFits
<1> QED BY <1>1, DownlinkInvHolds, PTL

\* What the readers of the UI make of four bytes
LEMMA SliceIs ==
  ASSUME NEW data \in Seq(Int), NEW o \in Nat, NEW n \in Nat \ {0}, o + n <= Len(data)
  PROVE  LET b == Slice(data, o, n)
         IN  b \in Seq(Int) /\ Len(b) = n /\ b # <<>> /\ \A i \in 1..n : b[i] = data[o + i]
<1> DEFINE b == SubSeq(data, o + 1, o + n)  l == o + 1  m == o + n
<1>1. Slice(data, o, n) = b
  BY Zenon DEF Slice
<1>2. l \in Int /\ m \in Int /\ l <= m /\ (m - l) + 1 = n
      /\ \A i \in l..m : data[i] \in Int
  BY DEF l, m
<1>3. \A i \in 1..n : (l + i) - 1 = o + i
  OBVIOUS
<1>4. b = SubSeq(data, l, m)
  OBVIOUS
<1> HIDE DEF b, l, m
<1>5. b \in Seq(Int) /\ Len(b) = (m - l) + 1
      /\ \A i \in 1..((m - l) + 1) : b[i] = data[(l + i) - 1]
  BY <1>2, <1>4, SubSeqIs
<1>6. b \in Seq(Int) /\ Len(b) = n /\ \A i \in 1..n : b[i] = data[o + i]
  BY Zenon, <1>2, <1>3, <1>5
<1>7. b # <<>>
  BY <1>6
<1> QED BY Zenon, <1>1, <1>6, <1>7

LEMMA FourAddUp ==
  ASSUME NEW n \in Nat
  PROVE  (Low(n) % 256) + (256 * (Low(n) \div 256)) + (65536 * (High(n) % 256))
           + (16777216 * (High(n) \div 256)) = n
<1> DEFINE a == Low(n)  b == High(n)
           al == a % 256  ah == a \div 256  bl == b % 256  bh == b \div 256
<1>1. a \in Nat /\ b \in Nat /\ n = 65536 * b + a
  BY DEF Low, High
<1> HIDE DEF a, b
<1>2. al \in Int /\ ah \in Int /\ bl \in Int /\ bh \in Int
      /\ a = 256 * ah + al /\ b = 256 * bh + bl
  BY <1>1
<1> HIDE DEF al, ah, bl, bh
<1>3. al + (256 * ah) + (65536 * bl) + (16777216 * bh) = n
  BY <1>1, <1>2
<1> QED BY <1>3 DEF a, b, al, ah, bl, bh

LEMMA FourRead ==
  ASSUME NEW data \in Seq(Int), NEW o \in Nat, o + 4 <= Len(data), NEW n \in Nat
  PROVE  /\ (\A i \in 1..4 : data[o + i] = U32Le(n)[i]) => ReadLeU32(data, o) = n
         /\ (\A i \in 1..4 : data[o + i] = Be32(n)[i]) => ReadBeU32(data, o) = n
<1> DEFINE b == Slice(data, o, 4)  u == U32Le(n)  v == Be32(n)  x == Low(n)  y == High(n)
<1>1. b \in Seq(Int) /\ b # <<>> /\ \A i \in 1..4 : b[i] = data[o + i]
  <2> DEFINE four == 4
  <2>1. four \in Nat \ {0} /\ o + four <= Len(data)
    OBVIOUS
  <2> HIDE DEF four
  <2>2. LET c == Slice(data, o, four)
        IN  c \in Seq(Int) /\ c # <<>> /\ \A i \in 1..four : c[i] = data[o + i]
    BY <2>1, SliceIs
  <2> QED BY Zenon, <2>2 DEF four
<1>2. n \in Int
  OBVIOUS
<1>3. u[1] = x % 256 /\ u[2] = x \div 256 /\ u[3] = y % 256 /\ u[4] = y \div 256
  BY ZenonT(30), <1>2, U32LeIs
<1>4. v[1] = y \div 256 /\ v[2] = y % 256 /\ v[3] = x \div 256 /\ v[4] = x % 256
  BY ZenonT(30), <1>2, Be32Is
<1>5. (x % 256) + (256 * (x \div 256)) + (65536 * (y % 256)) + (16777216 * (y \div 256)) = n
  BY FourAddUp
<1> HIDE DEF u, v, x, y
<1>6. ReadLeU32(data, o) = b[1] + (256 * b[2]) + (65536 * b[3]) + (16777216 * b[4])
  BY <1>1 DEF ReadLeU32
<1>7. ReadBeU32(data, o) = b[4] + (256 * b[3]) + (65536 * b[2]) + (16777216 * b[1])
  BY <1>1 DEF ReadBeU32
<1> HIDE DEF b
<1>8. ASSUME \A i \in 1..4 : data[o + i] = u[i]
      PROVE  ReadLeU32(data, o) = n
  <2>1. b[1] = x % 256 /\ b[2] = x \div 256 /\ b[3] = y % 256 /\ b[4] = y \div 256
    BY <1>8, <1>1, <1>3
  <2> QED BY <2>1, <1>5, <1>6
<1>9. ASSUME \A i \in 1..4 : data[o + i] = v[i]
      PROVE  ReadBeU32(data, o) = n
  <2>1. b[4] = x % 256 /\ b[3] = x \div 256 /\ b[2] = y % 256 /\ b[1] = y \div 256
    BY <1>9, <1>1, <1>4
  <2> QED BY <2>1, <1>5, <1>7
<1> QED BY <1>8, <1>9 DEF u, v

\* The words w are the numbers c, the one way round or the other.
LittleWords(c, w, n) == \A k \in 1..n : c[k] \in Nat /\ w[k] = U32Le(c[k])
BigWords(c, w, n) == \A k \in 1..n : c[k] \in Nat /\ w[k] = Be32(c[k])
ReadsLittle(data, o, c, n) == \A k \in 1..n : ReadLeU32(data, o + 4 * (k - 1)) = c[k]
ReadsBig(data, o, c, n) == \A k \in 1..n : ReadBeU32(data, o + 4 * (k - 1)) = c[k]

LEMMA WordsRead ==
  ASSUME NEW data, NEW p \in Seq(Int), NEW w, NEW n \in Nat, Blocks(data, p, w, n), NEW c
  PROVE  /\ LittleWords(c, w, n) => ReadsLittle(data, Len(p), c, n)
         /\ BigWords(c, w, n) => ReadsBig(data, Len(p), c, n)
<1>1. ASSUME NEW k \in 1..n, c[k] \in Nat
      PROVE  /\ w[k] = U32Le(c[k]) => ReadLeU32(data, Len(p) + 4 * (k - 1)) = c[k]
             /\ w[k] = Be32(c[k]) => ReadBeU32(data, Len(p) + 4 * (k - 1)) = c[k]
  <2> DEFINE o == Len(p) + 4 * (k - 1)  m == c[k]
  <2>1. o = Len(p) + 4 * (k - 1)
    OBVIOUS
  <2> HIDE DEF o
  <2>2. data \in Seq(Int) /\ o \in Nat /\ o + 4 <= Len(data)
        /\ \A i \in 1..4 : data[o + i] = w[k][i]
    <3>1. data \in Seq(Int) /\ Len(data) = Len(p) + 4 * n /\ Len(p) \in Nat
      BY DEF Blocks
    <3>2. o \in Nat /\ o + 4 <= Len(data)
      BY <2>1, <3>1
    <3>3. \A i \in 1..4 : data[Len(p) + 4 * (k - 1) + i] = w[k][i]
      BY Zenon DEF Blocks
    <3> QED BY Zenon, <2>1, <3>1, <3>2, <3>3
  <2>3. m \in Nat
    BY <1>1
  <2> HIDE DEF m
  <2>4. /\ w[k] = U32Le(m) => ReadLeU32(data, o) = m
        /\ w[k] = Be32(m) => ReadBeU32(data, o) = m
    <3>1. /\ (\A i \in 1..4 : data[o + i] = U32Le(m)[i]) => ReadLeU32(data, o) = m
          /\ (\A i \in 1..4 : data[o + i] = Be32(m)[i]) => ReadBeU32(data, o) = m
      BY Zenon, <2>2, <2>3, FourRead
    <3>2. ASSUME w[k] = U32Le(m)
          PROVE  \A i \in 1..4 : data[o + i] = U32Le(m)[i]
      BY Zenon, <3>2, <2>2
    <3>3. ASSUME w[k] = Be32(m)
          PROVE  \A i \in 1..4 : data[o + i] = Be32(m)[i]
      BY Zenon, <3>3, <2>2
    <3> QED BY Zenon, <3>1, <3>2, <3>3
  <2> QED BY Zenon, <2>4 DEF o, m
<1> QED BY Zenon, <1>1 DEF LittleWords, BigWords, ReadsLittle, ReadsBig

LEMMA BridgeRead ==
  ASSUME NEW t \in Nat, NEW data, data = Ros2BridgeHk(t)
  PROVE  [k \in 1..6 |-> ReadLeU32(data, 4 * (k - 1))] = BridgeCounters(t)
<1> DEFINE c == BridgeCounters(t)  w == [k \in 1..6 |-> U32Le(c[k])]  p == <<>>
<1>1. Blocks(data, p, w, 6) /\ \A k \in 1..6 : c[k] \in Nat
  BY Zenon, BridgePayload
<1>2. \A k \in 1..6 : w[k] = U32Le(c[k])
  OBVIOUS
<1>3. p \in Seq(Int) /\ Len(p) = 0
  OBVIOUS
<1>4. c = [k \in 1..6 |-> c[k]]
  BY DEF BridgeCounters
<1> HIDE DEF c, w, p
<1> DEFINE n == 6
<1>8. n \in Nat /\ Blocks(data, p, w, n) /\ LittleWords(c, w, n)
  BY Zenon, <1>1, <1>2 DEF LittleWords
<1> HIDE DEF n
<1>9. ReadsLittle(data, Len(p), c, n)
  BY Zenon, <1>3, <1>8, WordsRead
<1>10. \A k \in 1..6 : Len(p) + 4 * (k - 1) = 4 * (k - 1)
  BY <1>3
<1>5. \A k \in 1..6 : ReadLeU32(data, 4 * (k - 1)) = c[k]
  BY Zenon, <1>9, <1>10 DEF n, ReadsLittle
<1>6. [k \in 1..6 |-> ReadLeU32(data, 4 * (k - 1))] = [k \in 1..6 |-> c[k]]
  BY Zenon, <1>5
<1> QED BY Zenon, <1>4, <1>6 DEF c

LEMMA FleetRead ==
  ASSUME NEW z \in 0..1, NEW data, data = FleetHk(z)
  PROVE  /\ ByteAt(data, 0) = 7
         /\ [k \in 1..3 |-> ReadBeU32(data, 1 + (4 * (k - 1)))] = FleetAges(z)
<1> DEFINE c == FleetAges(z)  w == [k \in 1..3 |-> Be32(c[k])]  p == <<7>>
<1>1. Blocks(data, p, w, 3) /\ \A k \in 1..3 : c[k] \in Nat
  BY Zenon, FleetPayload
<1>2. \A k \in 1..3 : w[k] = Be32(c[k])
  OBVIOUS
<1>3. p \in Seq(Int) /\ Len(p) = 1 /\ p[1] = 7
  OBVIOUS
<1>4. c = [k \in 1..3 |-> c[k]]
  BY DEF FleetAges
<1> HIDE DEF c, w, p
<1> DEFINE n == 3
<1>8. n \in Nat /\ Blocks(data, p, w, n) /\ BigWords(c, w, n)
  BY Zenon, <1>1, <1>2 DEF BigWords
<1> HIDE DEF n
<1>9. ReadsBig(data, Len(p), c, n)
  BY Zenon, <1>3, <1>8, WordsRead
<1>10. \A k \in 1..3 : Len(p) + 4 * (k - 1) = 1 + (4 * (k - 1))
  BY <1>3
<1>5. \A k \in 1..3 : ReadBeU32(data, 1 + (4 * (k - 1))) = c[k]
  BY Zenon, <1>9, <1>10 DEF n, ReadsBig
<1>6. [k \in 1..3 |-> ReadBeU32(data, 1 + (4 * (k - 1)))] = [k \in 1..3 |-> c[k]]
  BY Zenon, <1>5
<1>7. ByteAt(data, 0) = 7
  <2>1. data \in Seq(Int) /\ Len(data) = 1 + 4 * 3 /\ data[1] = 7
    BY <1>1, <1>3 DEF Blocks
  <2> QED BY <2>1 DEF ByteAt
<1> QED BY Zenon, <1>4, <1>6, <1>7 DEF c

LEMMA ProximityRead ==
  ASSUME NEW t \in Nat, NEW z \in 0..1, NEW data, data = Prx1Hk(t, z)
  PROVE  [active |-> ByteAt(data, 0) # 0, strength |-> ByteAt(data, 1),
          contact |-> ReadBeF64(data, 2)]
           = [active |-> TRUE, strength |-> Strength(z), contact |-> LastContact(t)]
<1> DEFINE v == LastContact(t)
<1>1. /\ data \in Seq(Int) /\ Len(data) = 10 /\ data[1] = 1 /\ data[2] = Strength(z)
      /\ v \in Seq(Int) /\ Len(v) = 8 /\ \A i \in 1..8 : data[2 + i] = v[i]
  BY Zenon, ProximityPayload
<1> HIDE DEF v
<1>2. ByteAt(data, 0) = 1 /\ ByteAt(data, 1) = Strength(z)
  BY <1>1 DEF ByteAt
<1>3. ReadBeF64(data, 2) = v
  <2> DEFINE o == 2  n == 8  b == Slice(data, o, n)
  <2>1. o \in Nat /\ n \in Nat \ {0} /\ o + n <= Len(data)
    BY <1>1
  <2>2. Len(v) = n /\ \A i \in 1..n : data[o + i] = v[i]
    BY Zenon, <1>1
  <2> HIDE DEF o, n
  <2>3. b \in Seq(Int) /\ Len(b) = n /\ \A i \in 1..n : b[i] = data[o + i]
    BY <2>1, <1>1, SliceIs
  <2>4. b = Slice(data, o, n)
    OBVIOUS
  <2> HIDE DEF b
  <2>5. b = v
    <3>1. b = [i \in 1..n |-> b[i]] /\ v = [i \in 1..n |-> v[i]]
      BY <2>2, <2>3, <1>1
    <3>2. \A i \in 1..n : b[i] = v[i]
      BY Zenon, <2>2, <2>3
    <3>3. [i \in 1..n |-> b[i]] = [i \in 1..n |-> v[i]]
      BY Zenon, <3>2
    <3> QED BY Zenon, <3>1, <3>3
  <2> QED BY Zenon, <2>4, <2>5 DEF ReadBeF64, o, n
<1>4. ByteAt(data, 0) # 0
  BY <1>2
<1> HIDE DEF v
<1> DEFINE x == ByteAt(data, 0)  y == ReadBeF64(data, 2)  s == ByteAt(data, 1)
<1>5. (x # 0) = TRUE /\ s = Strength(z) /\ y = v
  BY <1>2, <1>3, <1>4
<1> QED BY Zenon, <1>5 DEF v

\* What the sender gives the three links
LEMMA LinkPayloads ==
  ASSUME NEW t, NEW z
  PROVE  /\ HkPayload(296, t, z) = Ros2BridgeHk(t) /\ HkPayload(297, t, z) = Prx1Hk(t, z)
         /\ HkPayload(352, t, z) = FleetHk(z)
BY ONLY GuardsAre DEF HkPayload

LEMMA MarsApids == Range(LandRovers \o Uavs \o <<Cryobot>>) \subseteq 768..1087
<1> DEFINE a == LandRovers  b == Uavs  c == <<Cryobot>>
<1>1. /\ a \in Seq(Int) /\ b \in Seq(Int) /\ Range(a) = 768..770 /\ Range(b) = 960..964
  BY VehiclesAre
<1>2. c \in Seq(Int) /\ Range(c) = {1024}
  BY DEF Cryobot, Range
<1> HIDE DEF a, b, c
<1>3. a \o b \in Seq(Int)
  BY <1>1
<1>4. Range(a \o b) = Range(a) \cup Range(b)
  <2>1. a \in Seq(Int) /\ b \in Seq(Int)
    BY <1>1
  <2> QED BY ZenonT(30), <2>1, RangeJoin
<1> DEFINE d == a \o b
<1> HIDE DEF d
<1>5. Range(d \o c) = Range(d) \cup Range(c)
  <2>1. d \in Seq(Int) /\ c \in Seq(Int)
    BY <1>2, <1>3 DEF d
  <2> QED BY ZenonT(30), <2>1, RangeJoin
<1>6. Range(d) = (768..770) \cup (960..964)
  BY <1>1, <1>4 DEF d
<1>7. Range(d \o c) = (768..770) \cup (960..964) \cup {1024}
  BY <1>2, <1>5, <1>6
<1>8. Range(d \o c) \subseteq 768..1087
  BY <1>7
<1> QED BY <1>8 DEF a, b, c, d

LEMMA KeptReadsBack ==
  ASSUME Kept(latest, truth)
  PROVE  LinkDtoReadsBack
<1> DEFINE Of(apid) == truth[apid].of  Links == {296, 297, 352}
<1>1. ASSUME NEW a \in Links, Seen(a)
      PROVE  /\ Of(a).tick \in Nat /\ Of(a).noise \in 0..1
             /\ Data(a) = HkPayload(a, Of(a).tick, Of(a).noise)
  <2>1. a \in DOMAIN latest
    BY Zenon, <1>1 DEF Seen
  <2>2. /\ Of(a).tick \in Nat /\ Of(a).noise \in 0..1
        /\ latest[a] = [apid |-> a, time |-> TaiNow, payload |-> Of(a).user]
        /\ Of(a).user = HkPayload(a, Of(a).tick, Of(a).noise)
    BY ZenonT(30), <2>1, <1>1 DEF Kept
  <2> HIDE DEF Of, Links
  <2>3. latest[a].payload = Of(a).user
    BY <2>2
  <2> QED BY Zenon, <2>2, <2>3 DEF Data
<1>2. Seen(296) => CfsRosLink = BridgeCounters(Of(296).tick)
  <2> SUFFICES ASSUME Seen(296) PROVE CfsRosLink = BridgeCounters(Of(296).tick)
    OBVIOUS
  <2> DEFINE a == 296
  <2>1. a \in Links /\ Seen(a)
    OBVIOUS
  <2> HIDE DEF a, Links
  <2>2. Of(a).tick \in Nat /\ Data(a) = HkPayload(a, Of(a).tick, Of(a).noise)
    BY Zenon, <2>1, <1>1
  <2> HIDE DEF Of
  <2>3. Data(a) = Ros2BridgeHk(Of(a).tick)
    BY <2>2, LinkPayloads DEF a
  <2>4. [k \in 1..6 |-> ReadLeU32(Data(a), 4 * (k - 1))] = BridgeCounters(Of(a).tick)
    BY Zenon, <2>2, <2>3, BridgeRead
  <2> QED BY Zenon, <2>4 DEF CfsRosLink, a
<1>3. Seen(297) => RosGroundLink = [active |-> TRUE, strength |-> Strength(Of(297).noise),
                                    contact |-> LastContact(Of(297).tick)]
  <2> DEFINE a == 297  x == Data(a)
  <2> SUFFICES ASSUME Seen(a)
               PROVE  RosGroundLink = [active |-> TRUE, strength |-> Strength(Of(a).noise),
                                       contact |-> LastContact(Of(a).tick)]
    OBVIOUS
  <2>1. a \in Links
    OBVIOUS
  <2> HIDE DEF a, x, Links
  <2>2. /\ Of(a).tick \in Nat /\ Of(a).noise \in 0..1
        /\ x = HkPayload(a, Of(a).tick, Of(a).noise)
    BY Zenon, <2>1, <1>1 DEF x
  <2> HIDE DEF Of
  <2>3. x = Prx1Hk(Of(a).tick, Of(a).noise)
    BY <2>2, LinkPayloads DEF a
  <2>4. [active |-> ByteAt(x, 0) # 0, strength |-> ByteAt(x, 1), contact |-> ReadBeF64(x, 2)]
          = [active |-> TRUE, strength |-> Strength(Of(a).noise),
             contact |-> LastContact(Of(a).tick)]
    BY Zenon, <2>2, <2>3, ProximityRead
  <2> QED BY Zenon, <2>4 DEF RosGroundLink, a, x
<1>4. Seen(352) => FleetDdsLink = [mask |-> 7, ages |-> FleetAges(Of(352).noise)]
  <2> DEFINE a == 352  x == Data(a)
  <2> SUFFICES ASSUME Seen(a)
               PROVE  FleetDdsLink = [mask |-> 7, ages |-> FleetAges(Of(a).noise)]
    OBVIOUS
  <2>1. a \in Links
    OBVIOUS
  <2> HIDE DEF a, x, Links
  <2>2. Of(a).noise \in 0..1 /\ x = HkPayload(a, Of(a).tick, Of(a).noise)
    BY Zenon, <2>1, <1>1 DEF x
  <2> HIDE DEF Of
  <2>3. x = FleetHk(Of(a).noise)
    BY <2>2, LinkPayloads DEF a
  <2>4. /\ ByteAt(x, 0) = 7
        /\ [k \in 1..3 |-> ReadBeU32(x, 1 + (4 * (k - 1)))] = FleetAges(Of(a).noise)
    BY Zenon, <2>2, <2>3, FleetRead
  <2> QED BY Zenon, <2>4 DEF FleetDdsLink, a, x
<1>5. \A a \in DOMAIN LinksHealth : LinksHealth[a] # Absent <=> Seen(a)
  <2>1. LinksHealth = [a \in {296, 297, 352} |-> LastUtc(a)]
    BY Zenon DEF LinksHealth
  <2>2. Absent # TaiNow
    BY Zenon, RadioAssumption
  <2>3. ASSUME NEW a, Seen(a)
        PROVE  LastUtc(a) = TaiNow
    <3>1. latest[a] = [apid |-> a, time |-> TaiNow, payload |-> truth[a].of.user]
      BY Zenon, <2>3 DEF Kept, Seen
    <3>2. latest[a].time = TaiNow
      BY <3>1
    <3> QED BY Zenon, <3>2, <2>3 DEF LastUtc
  <2>4. ASSUME NEW a, ~Seen(a)
        PROVE  LastUtc(a) = Absent
    BY Zenon, <2>4 DEF LastUtc
  <2> QED BY ZenonT(30), <2>1, <2>2, <2>3, <2>4
<1>6. \A a \in Range(LandRovers \o Uavs \o <<Cryobot>>) : Seen(a) => a \in Rovers
  <2> DEFINE J == 768..1087
  <2>1. Rovers = {a \in DOMAIN latest : a \in J}
    BY DEF Rovers
  <2>2. Range(LandRovers \o Uavs \o <<Cryobot>>) \subseteq J
    BY MarsApids
  <2> HIDE DEF J
  <2> QED BY Zenon, <2>1, <2>2 DEF Seen
<1> QED BY Zenon, <1>2, <1>3, <1>4, <1>5, <1>6 DEF LinkDtoReadsBack

\* The three link handlers read what the sender wrote, at every tick
\* (ui/mod.rs:366-457, demo_injector.rs:471-523).
THEOREM AlwaysLinkDtoReadsBack == DownlinkSpec => []LinkDtoReadsBack
<1>1. DownlinkInv => LinkDtoReadsBack
  BY Zenon, KeptReadsBack DEF DownlinkInv
<1> QED BY <1>1, DownlinkInvHolds, PTL
-----------------------------------------------------------------------------
(* The link monitor.                                                        *)

Entry == [age : Ages, valid : BOOLEAN]

\* Oldest first
InOrder(w) == \A i, j \in 1..Len(w) : i <= j => w[i].age >= w[j].age

MonitorInv == TypeOK /\ (since # None => since <= bad)

USE DurationAssumption
-----------------------------------------------------------------------------
LEMMA OlderIs ==
  ASSUME NEW a \in Ages
  PROVE  Older(a) \in Ages /\ Older(a) > 0
BY DEF Ages, Older

LEMMA OlderTogether ==
  ASSUME NEW a \in Ages, NEW b \in Ages, a <= b
  PROVE  Older(a) <= Older(b)
BY DEF Ages, Older

LEMMA EntryAge ==
  ASSUME NEW w \in Seq(Entry), NEW i \in 1..Len(w)
  PROVE  w[i].age \in Nat
<1>1. w[i] \in Entry
  BY ElementOfSeq
<1>2. QED
  BY <1>1 DEF Entry, Ages

\* prune stops at the first entry that is young enough.
LEMMA TooOldIs ==
  ASSUME NEW w \in Seq(Entry)
  PROVE  LET k == TooOld(w)
         IN  /\ k \in 0..Len(w)
             /\ k = Len(w) \/ w[k + 1].age <= DegradedWindow
<1> DEFINE Stops == {k \in 0..Len(w) : k = Len(w) \/ w[k + 1].age <= DegradedWindow}
<1>1. Len(w) \in Nat /\ Len(w) \in Stops
  BY LenProperties
<1>2. \E k \in Stops : \A j \in Stops : k <= j
  <2>1. Stops \subseteq Nat /\ Stops # {}
    BY <1>1
  <2> HIDE DEF Stops
  <2>2. QED
    BY <2>1, LeastNatural
<1>3. PICK k \in Stops : \A j \in Stops : k <= j
  BY <1>2
<1>4. ASSUME NEW i \in 1..k PROVE w[i].age > DegradedWindow
  <2>1. i \in 1..Len(w) /\ i - 1 \in 0..Len(w) /\ (i - 1) + 1 = i
    BY <1>1, <1>3
  <2>2. w[i].age \in Int
    BY <2>1, EntryAge
  <2>3. ~(k <= i - 1)
    BY <1>1, <1>3
  <2>4. i - 1 \notin Stops
    BY <1>3, <2>3
  <2>5. QED
    BY <2>1, <2>2, <2>4
<1>5. QED
  BY <1>3, <1>4 DEF TooOld

\* Pruning from the front leaves no entry that is too old, because the window
\* is in order.
LEMMA PrunedIs ==
  ASSUME NEW w \in Seq(Entry), InOrder(w)
  PROVE  /\ Pruned(w) \in Seq(Entry) /\ InOrder(Pruned(w))
         /\ \A i \in 1..Len(Pruned(w)) : Pruned(w)[i].age <= DegradedWindow
<1> DEFINE k == TooOld(w)
           p == Pruned(w)
<1>1. k \in 0..Len(w) /\ (k = Len(w) \/ w[k + 1].age <= DegradedWindow)
  BY TooOldIs
<1>2. p = SubSeq(w, k + 1, Len(w))
  BY DEF Pruned
<1>3. /\ p \in Seq(Entry) /\ Len(p) = Len(w) - k
      /\ \A i \in 1..Len(p) : p[i] = w[i + k] /\ i + k \in 1..Len(w)
  <2> HIDE DEF p, k
  <2>1. QED
    BY <1>1, <1>2, SuffixIs
<1> HIDE DEF p, k
<1>4. Len(w) \in Nat /\ Len(p) \in Nat /\ k \in Nat
  BY <1>1, <1>3
<1>5. InOrder(p)
  <2>1. ASSUME NEW i \in 1..Len(p), NEW j \in 1..Len(p), i <= j
        PROVE  p[i].age >= p[j].age
    BY <1>3, <1>4, <2>1 DEF InOrder
  <2>2. QED
    BY <2>1 DEF InOrder
<1>6. ASSUME NEW i \in 1..Len(p) PROVE p[i].age <= DegradedWindow
  <2>1. k # Len(w) /\ k + 1 \in 1..Len(w) /\ i + k \in 1..Len(w) /\ k + 1 <= i + k
    BY <1>1, <1>3, <1>4
  <2>2. w[k + 1].age >= w[i + k].age /\ w[k + 1].age <= DegradedWindow
    BY <1>1, <2>1 DEF InOrder
  <2>3. w[k + 1].age \in Int /\ w[i + k].age \in Int
    BY <2>1, EntryAge
  <2>4. QED
    BY <1>3, <2>2, <2>3
<1>7. QED
  BY <1>3, <1>5, <1>6 DEF p
-----------------------------------------------------------------------------
\* What an evaluation may answer
LEMMA EvaluateIs ==
  ASSUME MonitorInv, NEW p, NEW r, r = Evaluate(p)
  PROVE  /\ r.link \in {"Aos", "Los", "Degraded"}
         /\ r.since \in {None, since, 0}
         /\ Degraded(p) \/ Starved(p) => r.since = None /\ r.link # "Aos"
         /\ link # "Aos" /\ r.link = "Aos" => bad >= AosSustain
<1>1. /\ link \in {"Aos", "Los", "Degraded"} /\ None \notin Nat
      /\ bad \in Nat /\ since \in Nat \cup {None} /\ (since # None => since <= bad)
  BY DEF MonitorInv, TypeOK, Ages
<1>2. CASE Degraded(p)
  BY <1>1, <1>2 DEF Evaluate
<1>3. CASE ~Degraded(p) /\ Starved(p)
  BY <1>1, <1>3 DEF Evaluate
<1>4. CASE ~Degraded(p) /\ ~Starved(p)
  BY <1>1, <1>4 DEF Evaluate
<1>5. QED
  BY <1>2, <1>3, <1>4

LEMMA UpdateInv ==
  ASSUME MonitorInv, NEW w \in Seq(Entry), InOrder(w), Update(w),
         Len(window') <= MaxEntries
  PROVE  MonitorInv' /\ (link # "Aos" /\ link' = "Aos" => bad >= AosSustain)
<1> DEFINE p == Pruned(w)
           r == Evaluate(p)
<1>1. /\ window' = p /\ link' = r.link
      /\ since' = (IF r.link # link /\ r.link # "Aos" THEN None ELSE r.since)
      /\ bad' = (IF Degraded(p) \/ Starved(p) THEN 0 ELSE bad)
  BY DEF Update
<1>2. /\ p \in Seq(Entry) /\ InOrder(p)
      /\ \A i \in 1..Len(p) : p[i].age <= DegradedWindow
  BY PrunedIs
<1>3. /\ r.link \in {"Aos", "Los", "Degraded"}
      /\ r.since \in {None, since, 0}
      /\ Degraded(p) \/ Starved(p) => r.since = None /\ r.link # "Aos"
      /\ link # "Aos" /\ r.link = "Aos" => bad >= AosSustain
  BY EvaluateIs
<1> HIDE DEF p, r
<1>4. /\ since \in Ages \cup {None} /\ bad \in Ages
      /\ None \notin Nat /\ (since # None => since <= bad)
  BY DEF MonitorInv, TypeOK
<1>5. since' \in Ages \cup {None} /\ bad' \in Ages /\ (since' # None => since' <= bad')
  BY <1>1, <1>3, <1>4 DEF Ages
<1>6. TypeOK'
  BY <1>1, <1>2, <1>3, <1>5 DEF TypeOK, PrunedInOrder, InOrder, Entry
<1>7. QED
  BY <1>1, <1>3, <1>5, <1>6 DEF MonitorInv

LEMMA Opened ==
  ASSUME MonitorInv
  PROVE  window \in Seq(Entry) /\ InOrder(window)
BY DEF MonitorInv, TypeOK, PrunedInOrder, InOrder, Entry

LEMMA FrameInv ==
  ASSUME MonitorInv, NEW valid \in BOOLEAN, Frame(valid)
  PROVE  MonitorInv' /\ (link # "Aos" /\ link' = "Aos" => bad >= AosSustain)
<1> DEFINE e == [age |-> 0, valid |-> valid]
           w == Append(window, e)
<1>1. window \in Seq(Entry) /\ InOrder(window)
  BY Opened
<1>2. e \in Entry
  BY DEF Entry, Ages
<1>3. /\ w \in Seq(Entry) /\ Len(w) = Len(window) + 1 /\ Len(window) \in Nat
      /\ \A i \in 1..Len(window) : w[i] = window[i]
      /\ w[Len(window) + 1].age = 0
  BY <1>1, <1>2
<1>4. InOrder(w)
  <2> HIDE DEF w, e
  <2>1. ASSUME NEW i \in 1..Len(w), NEW j \in 1..Len(w), i <= j
        PROVE  w[i].age >= w[j].age
    <3>1. w[i].age \in Nat
      BY <1>3, EntryAge
    <3>2. CASE j = Len(window) + 1
      BY <1>3, <3>1, <3>2
    <3>3. CASE j # Len(window) + 1
      <4>1. i \in 1..Len(window) /\ j \in 1..Len(window)
        BY <1>3, <2>1, <3>3
      <4>2. QED
        BY <1>1, <1>3, <2>1, <4>1 DEF InOrder
    <3>4. QED
      BY <3>2, <3>3
  <2>2. QED
    BY <2>1 DEF InOrder
<1>5. Update(w) /\ Len(window') <= MaxEntries
  BY DEF Frame
<1> HIDE DEF w
<1>6. QED
  BY <1>3, <1>4, <1>5, UpdateInv

LEMMA ElapseInv ==
  ASSUME MonitorInv, Elapse
  PROVE  MonitorInv'
<1>1. window \in Seq(Entry) /\ InOrder(window) /\ Len(window) \in Nat
  BY Opened
<1>2. window' = [i \in 1..Len(window) |-> [window[i] EXCEPT !.age = Older(@)]]
  BY DEF Elapse
<1>3. ASSUME NEW i \in 1..Len(window)
      PROVE  /\ window'[i] \in Entry /\ window'[i].age = Older(window[i].age)
             /\ window[i].age \in Ages
  <2>1. window[i] \in Entry /\ window'[i] = [window[i] EXCEPT !.age = Older(@)]
    BY <1>1, <1>2
  <2>2. window[i].age \in Ages
    BY <2>1 DEF Entry
  <2>3. QED
    BY <2>1, <2>2, OlderIs DEF Entry
<1>4. window' \in Seq(Entry) /\ Len(window') = Len(window)
  BY <1>1, <1>2, <1>3
<1>5. InOrder(window')
  <2>1. ASSUME NEW i \in 1..Len(window), NEW j \in 1..Len(window), i <= j
        PROVE  window'[i].age >= window'[j].age
    <3>1. window[j].age <= window[i].age
      BY <1>1, <1>3, <2>1 DEF InOrder, Ages
    <3>2. Older(window[j].age) <= Older(window[i].age)
      BY <1>3, <3>1, OlderTogether
    <3>3. Older(window[j].age) \in Int /\ Older(window[i].age) \in Int
      BY <1>3, OlderIs DEF Ages
    <3>4. QED
      BY <1>3, <3>2, <3>3
  <2>2. QED
    BY <1>4, <2>1 DEF InOrder
<1>6. bad' = Older(bad) /\ bad \in Ages /\ bad' \in Ages /\ bad' # 0 /\ link' = link
  BY OlderIs DEF Elapse, MonitorInv, TypeOK
<1>7. since' \in Ages \cup {None} /\ (since' # None => since' <= bad')
  <2>1. since \in Ages \cup {None} /\ (since # None => since <= bad)
    BY DEF MonitorInv, TypeOK
  <2>2. CASE since = None
    BY <2>2 DEF Elapse
  <2>3. CASE since # None
    BY <1>6, <2>1, <2>3, OlderIs, OlderTogether DEF Elapse
  <2>4. QED
    BY <2>2, <2>3
<1>8. TypeOK'
  BY <1>4, <1>5, <1>6, <1>7 DEF TypeOK, PrunedInOrder, InOrder, Entry, MonitorInv
<1>9. QED
  BY <1>7, <1>8 DEF MonitorInv
-----------------------------------------------------------------------------
LEMMA InitInv == Init => MonitorInv
BY DEF Init, MonitorInv, TypeOK, PrunedInOrder, Entry, Ages

LEMMA NextInv ==
  MonitorInv /\ [Next]_lvars
    => MonitorInv' /\ (link # "Aos" /\ link' = "Aos" => bad >= AosSustain)
<1> SUFFICES ASSUME MonitorInv, [Next]_lvars
             PROVE  MonitorInv' /\ (link # "Aos" /\ link' = "Aos" => bad >= AosSustain)
  OBVIOUS
<1>1. CASE FrameStep
  BY <1>1, FrameInv DEF FrameStep
<1>2. CASE Tick
  <2>1. Update(window) /\ window \in Seq(Entry) /\ InOrder(window)
    BY <1>2, Opened DEF Tick
  <2>2. Len(window') <= MaxEntries
    <3>1. window' = SubSeq(window, TooOld(window) + 1, Len(window))
      BY <2>1 DEF Update, Pruned
    <3>2. TooOld(window) \in 0..Len(window)
      BY <2>1, TooOldIs
    <3>3. Len(window') = Len(window) - TooOld(window)
      BY <2>1, <3>1, <3>2, SuffixIs
    <3>4. Len(window) \in Nat /\ Len(window) <= MaxEntries
      BY <2>1 DEF MonitorInv, TypeOK
    <3>5. QED
      BY <3>2, <3>3, <3>4
  <2>3. QED
    BY <2>1, <2>2, UpdateInv
<1>3. CASE Elapse
  <2>1. link' = link
    BY <1>3 DEF Elapse
  <2>2. QED
    BY <1>3, <2>1, ElapseInv
<1>4. CASE UNCHANGED lvars
  BY <1>4 DEF lvars, MonitorInv, TypeOK, PrunedInOrder
<1>5. QED
  BY <1>1, <1>2, <1>3, <1>4 DEF Next

LEMMA Invariance == Spec => []MonitorInv
<1>1. QED
  BY InitInv, NextInv, PTL DEF Spec

\* The types of the monitor's state.  With them: entries are kept oldest first,
\* so that prune, which looks at the front only, removes all that is too old
\* and the window of a live link stays bounded in time (framer.rs:118-127).
THEOREM WindowStaysInOrder == Spec => []TypeOK
<1>1. MonitorInv => TypeOK
  BY DEF MonitorInv
<1>2. QED
  BY <1>1, Invariance, PTL

\* A link found degraded or starved is not declared acquired again before
\* AOS_SUSTAIN has passed, whatever frames and ticks come at whatever time
\* (framer.rs:362-414).
THEOREM AlwaysNoFlapping == Spec => NoFlapping
<1>1. MonitorInv /\ [Next]_lvars
        => [link # "Aos" /\ link' = "Aos" => bad >= AosSustain]_lvars
  BY NextInv
<1>2. QED
  BY <1>1, Invariance, PTL DEF Spec, NoFlapping
-----------------------------------------------------------------------------
(* The byte stream.  Nothing is lost or mixed on the way because what the   *)
(* framer had, its buffer, the pipe and the rest of write_all lie end to    *)
(* end in the stream: each step moves a boundary between two of them.  No   *)
(* byte comes twice, so a good frame is recognised by its first byte.       *)

StreamByte == Nat \X Nat

\* s lies in w from position o on.
Lies(w, s, o) == o + Len(s) <= Len(w) /\ \A i \in 1..Len(s) : w[o + i] = s[i]

FrameOf(w, f) == [j \in 1..FrameLen |-> w[FrameLen * (f - 1) + j]]

IsGood(r, b) ==
  /\ b[1][2] % FrameLen = 1 /\ b[1][2] + FrameLen - 1 <= r[b[1][1]].len
  /\ (b[1][2] \div FrameLen) + 1 \notin r[b[1][1]].damaged
  /\ \A j \in 1..FrameLen : b[j] = <<b[1][1], b[1][2] + j - 1>>

\* The good frames among the first n of the stream
Goods(w, r, n) == {f \in 1..n : IsGood(r, FrameOf(w, f))}

\* v holds their first bytes, in order.
Forwards(w, r, v, n) ==
  /\ \A i \in 1..Len(v) : \E f \in Goods(w, r, n) : v[i] = FrameOf(w, f)[1]
  /\ \A f \in Goods(w, r, n) : \E i \in 1..Len(v) : v[i] = FrameOf(w, f)[1]
  /\ \A i, j \in 1..Len(v), f, g \in Goods(w, r, n) :
       i < j /\ v[i] = FrameOf(w, f)[1] /\ v[j] = FrameOf(w, g)[1] => f < g

\* Every byte is of a datagram that came, and none comes twice.
Distinct(w, r) ==
  /\ \A p \in 1..Len(w) : w[p][1] \in 1..Len(r)
  /\ \A p, q \in 1..Len(w) : w[p] = w[q] => p = q

\* The stream is frames of datagrams.
Aligned(w, r) ==
  \E m \in Nat :
    /\ Len(w) = FrameLen * m
    /\ \A f \in 1..m : \E n \in 1..Len(r) : \E g \in Nat :
         /\ FrameLen * (g + 1) <= r[n].len
         /\ \A j \in 1..FrameLen : w[FrameLen * (f - 1) + j] = <<n, FrameLen * g + j>>

Whole(r) == \A n \in 1..Len(r) : r[n].len % FrameLen = 0

Had == Len(forwarded) + rejected

StreamInv ==
  /\ pending \in Seq(StreamByte) /\ pipe \in Seq(StreamByte) /\ buf \in Seq(StreamByte)
  /\ stream \in Seq(StreamByte) /\ forwarded \in Seq(StreamByte)
  /\ received \in Seq(Datagrams) /\ rejected \in Nat /\ Len(buf) < FrameLen
  /\ Lies(stream, buf, FrameLen * Had)
  /\ Lies(stream, pipe, FrameLen * Had + Len(buf))
  /\ Lies(stream, pending, FrameLen * Had + Len(buf) + Len(pipe))
  /\ Len(stream) = FrameLen * Had + Len(buf) + Len(pipe) + Len(pending)
  /\ Distinct(stream, received)
  /\ Forwards(stream, received, forwarded, Had)
  /\ Whole(received) => Aligned(stream, received)

USE StreamAssumption

LEMMA FrameLenIs == FrameLen \in Nat /\ FrameLen > 1
BY StreamAssumption

\* Frames end where the next one begins.
LEMMA FramesAreOrdered ==
  ASSUME NEW a \in Nat, NEW b \in Nat
  PROVE  /\ FrameLen * a \in Nat /\ FrameLen * (a + 1) = FrameLen * a + FrameLen
         /\ FrameLen * (a + b) = FrameLen * a + FrameLen * b
         /\ a <= b => FrameLen * a <= FrameLen * b
         /\ a < b => FrameLen * a + FrameLen <= FrameLen * b
         /\ a <= FrameLen * a
<1>1. /\ FrameLen * a \in Nat /\ FrameLen * (a + 1) = FrameLen * a + FrameLen
      /\ FrameLen * (a + b) = FrameLen * a + FrameLen * b
  BY FrameLenIs
<1>2. \A c \in Nat : FrameLen * (a + c) = FrameLen * a + FrameLen * c /\ FrameLen * c >= 0
  BY FrameLenIs
<1>3. ASSUME a <= b PROVE FrameLen * a <= FrameLen * b
  <2>1. b - a \in Nat /\ a + (b - a) = b
    BY <1>3
  <2>2. FrameLen * b = FrameLen * a + FrameLen * (b - a) /\ FrameLen * (b - a) >= 0
    BY <1>2, <2>1
  <2>3. FrameLen * b \in Int /\ FrameLen * (b - a) \in Int
    BY <2>1, FrameLenIs
  <2>4. QED
    BY <1>1, <2>2, <2>3
<1>4. ASSUME a < b PROVE FrameLen * a + FrameLen <= FrameLen * b
  <2>1. b - a - 1 \in Nat /\ (a + (b - a - 1)) + 1 = b
    BY <1>4
  <2> DEFINE c == b - a - 1
  <2>2. /\ FrameLen * (a + c) = FrameLen * a + FrameLen * c /\ FrameLen * c >= 0
        /\ FrameLen * ((a + c) + 1) = FrameLen * (a + c) + FrameLen
        /\ FrameLen * c \in Int
    BY <1>2, <2>1, FrameLenIs
  <2>3. FrameLen * b = FrameLen * a + FrameLen * c + FrameLen
    BY <2>1, <2>2
  <2>4. FrameLen * b \in Int
    BY FrameLenIs
  <2> HIDE DEF c
  <2>5. QED
    BY <1>1, <2>2, <2>3, <2>4, FrameLenIs
<1>5. a <= FrameLen * a
  <2>1. FrameLen - 1 \in Nat /\ FrameLen * a = (FrameLen - 1) * a + a /\ (FrameLen - 1) * a >= 0
    BY FrameLenIs
  <2> DEFINE c == (FrameLen - 1) * a
  <2>2. c \in Int
    BY FrameLenIs
  <2> HIDE DEF c
  <2>3. QED
    BY <1>1, <2>1, <2>2 DEF c
<1>6. QED
  BY <1>1, <1>3, <1>4, <1>5

\* The place of a byte of the f-th of n frames
LEMMA PlaceIs ==
  ASSUME NEW n \in Nat, NEW f \in 1..n, NEW j \in 1..FrameLen
  PROVE  /\ FrameLen * (f - 1) + j \in 1..(FrameLen * n)
         /\ f - 1 \in Nat /\ FrameLen * (f - 1) \in Nat
<1> DEFINE e == f - 1
<1>1. e \in Nat /\ e < n
  OBVIOUS
<1> HIDE DEF e
<1>2. FrameLen * e \in Nat /\ FrameLen * e + FrameLen <= FrameLen * n /\ FrameLen * n \in Nat
  BY <1>1, FramesAreOrdered
<1>3. FrameLen * e + j \in 1..(FrameLen * n)
  BY <1>2, FrameLenIs
<1>4. QED
  BY <1>1, <1>2, <1>3 DEF e

LEMMA LiesJoin ==
  ASSUME NEW w \in Seq(StreamByte), NEW s \in Seq(StreamByte), NEW t \in Seq(StreamByte), NEW o \in Nat,
         Lies(w, s, o), Lies(w, t, o + Len(s))
  PROVE  s \o t \in Seq(StreamByte) /\ Len(s \o t) = Len(s) + Len(t) /\ Lies(w, s \o t, o)
<1>1. Len(w) \in Nat /\ Len(s) \in Nat /\ Len(t) \in Nat
  BY LenProperties
<1> DEFINE u == s \o t
<1>2. /\ u \in Seq(StreamByte) /\ Len(u) = Len(s) + Len(t)
      /\ \A i \in 1..Len(s) + Len(t) : u[i] = IF i <= Len(s) THEN s[i] ELSE t[i - Len(s)]
  BY ConcatProperties
<1> HIDE DEF u
<1>3. ASSUME NEW i \in 1..Len(u) PROVE w[o + i] = u[i]
  <2>1. CASE i <= Len(s)
    <3>1. i \in 1..Len(s) /\ u[i] = s[i]
      BY <1>1, <1>2, <2>1
    <3>2. QED
      BY <3>1 DEF Lies
  <2>2. CASE ~(i <= Len(s))
    <3> DEFINE k == i - Len(s)
    <3>1. k \in 1..Len(t) /\ (o + Len(s)) + k = o + i /\ u[i] = t[k]
      BY <1>1, <1>2, <2>2
    <3> HIDE DEF k
    <3>2. QED
      BY <3>1 DEF Lies
  <2>3. QED
    BY <2>1, <2>2
<1>4. o + Len(u) <= Len(w)
  BY <1>1, <1>2 DEF Lies
<1>5. QED
  BY <1>2, <1>3, <1>4 DEF Lies, u

LEMMA LiesSplit ==
  ASSUME NEW w \in Seq(StreamByte), NEW s \in Seq(StreamByte), NEW o \in Nat, Lies(w, s, o),
         NEW n \in 0..Len(s)
  PROVE  LET a == SubSeq(s, 1, n)
             b == SubSeq(s, n + 1, Len(s))
         IN  /\ a \in Seq(StreamByte) /\ Len(a) = n /\ Lies(w, a, o)
             /\ b \in Seq(StreamByte) /\ Len(b) = Len(s) - n /\ Lies(w, b, o + n)
<1> DEFINE a == SubSeq(s, 1, n)
           b == SubSeq(s, n + 1, Len(s))
<1>1. Len(w) \in Nat /\ Len(s) \in Nat /\ n \in Nat /\ n <= Len(s)
  BY LenProperties
<1>2. /\ b \in Seq(StreamByte) /\ Len(b) = Len(s) - n
      /\ \A i \in 1..Len(b) : b[i] = s[i + n] /\ i + n \in 1..Len(s)
  BY SuffixIs
<1>3. /\ a \in Seq(StreamByte) /\ Len(a) = n
      /\ \A i \in 1..n : a[i] = s[i]
  BY <1>1, ElementOfSeq, SubSeqProperties
<1> HIDE DEF a, b
<1>4. Lies(w, a, o)
  <2>1. ASSUME NEW i \in 1..n PROVE w[o + i] = a[i]
    <3>1. i \in 1..Len(s) /\ a[i] = s[i]
      BY <1>1, <1>3
    <3>2. QED
      BY <3>1 DEF Lies
  <2>2. o + n <= Len(w)
    BY <1>1 DEF Lies
  <2>3. QED
    BY <1>3, <2>1, <2>2 DEF Lies
<1>5. Lies(w, b, o + n)
  <2>1. ASSUME NEW i \in 1..Len(b) PROVE w[(o + n) + i] = b[i]
    <3> DEFINE k == i + n
    <3>1. k \in 1..Len(s) /\ o + k = (o + n) + i /\ b[i] = s[k]
      BY <1>1, <1>2
    <3> HIDE DEF k
    <3>2. QED
      BY <3>1 DEF Lies
  <2>2. (o + n) + Len(b) <= Len(w)
    BY <1>1, <1>2 DEF Lies
  <2>3. QED
    BY <2>1, <2>2 DEF Lies
<1>6. QED
  BY <1>2, <1>3, <1>4, <1>5 DEF a, b

\* What is received later is behind it.
LEMMA LiesStill ==
  ASSUME NEW w \in Seq(StreamByte), NEW x \in Seq(StreamByte), NEW s, NEW o \in Nat,
         Len(s) \in Nat, Lies(w, s, o)
  PROVE  Lies(w \o x, s, o)
<1>1. Len(w) \in Nat /\ Len(x) \in Nat
  BY LenProperties
<1>2. /\ Len(w \o x) = Len(w) + Len(x)
      /\ \A i \in 1..Len(w) + Len(x) : (w \o x)[i] = IF i <= Len(w) THEN w[i] ELSE x[i - Len(w)]
  BY ConcatProperties
<1>3. ASSUME NEW i \in 1..Len(s) PROVE (w \o x)[o + i] = s[i]
  <2> DEFINE k == o + i
  <2>1. k \in 1..Len(w) /\ w[k] = s[i]
    BY <1>1 DEF Lies
  <2> HIDE DEF k
  <2>2. (w \o x)[k] = w[k]
    BY <1>1, <1>2, <2>1
  <2>3. QED
    BY <2>1, <2>2 DEF k
<1>4. QED
  BY <1>1, <1>2, <1>3 DEF Lies

\* A frame the framer had is not touched by what is received later.
LEMMA FrameStays ==
  ASSUME NEW w \in Seq(StreamByte), NEW x \in Seq(StreamByte), NEW n \in Nat,
         FrameLen * n <= Len(w), NEW f \in 1..n
  PROVE  FrameOf(w \o x, f) = FrameOf(w, f)
<1>1. Len(w) \in Nat /\ Len(x) \in Nat
  BY LenProperties
<1>2. \A i \in 1..Len(w) : (w \o x)[i] = w[i]
  <2>1. \A i \in 1..Len(w) + Len(x) : (w \o x)[i] = IF i <= Len(w) THEN w[i] ELSE x[i - Len(w)]
    BY ConcatProperties
  <2>2. QED
    BY <1>1, <2>1
<1>3. ASSUME NEW j \in 1..FrameLen
      PROVE  (w \o x)[FrameLen * (f - 1) + j] = w[FrameLen * (f - 1) + j]
  <2> DEFINE k == FrameLen * (f - 1) + j
  <2>1. k \in 1..(FrameLen * n) /\ FrameLen * n \in Nat
    BY PlaceIs, FramesAreOrdered
  <2> HIDE DEF k
  <2>2. k \in 1..Len(w)
    BY <1>1, <2>1
  <2>3. QED
    BY <1>2, <2>2 DEF k
<1>4. QED
  BY <1>3 DEF FrameOf

\* The first byte of a frame, and that it tells the frames apart
LEMMA FirstByte ==
  ASSUME NEW w \in Seq(StreamByte), NEW r, Distinct(w, r), NEW n \in Nat, FrameLen * n <= Len(w),
         NEW f \in 1..n
  PROVE  /\ FrameOf(w, f)[1] \in StreamByte /\ FrameOf(w, f)[1][1] \in 1..Len(r)
         /\ \A g \in 1..n : FrameOf(w, f)[1] = FrameOf(w, g)[1] => f = g
<1>1. Len(w) \in Nat /\ 1 \in 1..FrameLen
  BY LenProperties, FrameLenIs
<1>2. ASSUME NEW g \in 1..n
      PROVE  /\ FrameLen * (g - 1) + 1 \in 1..Len(w)
             /\ FrameOf(w, g)[1] = w[FrameLen * (g - 1) + 1]
  <2> DEFINE k == FrameLen * (g - 1) + 1
  <2>1. k \in 1..(FrameLen * n) /\ FrameLen * n \in Nat
    BY <1>1, PlaceIs, FramesAreOrdered
  <2>2. FrameOf(w, g)[1] = w[k]
    BY <1>1 DEF FrameOf
  <2> HIDE DEF k
  <2>3. QED
    BY <1>1, <2>1, <2>2 DEF k
<1>3. FrameOf(w, f)[1] \in StreamByte /\ FrameOf(w, f)[1][1] \in 1..Len(r)
  BY <1>2, ElementOfSeq DEF Distinct
<1>4. ASSUME NEW g \in 1..n, FrameOf(w, f)[1] = FrameOf(w, g)[1]
      PROVE  f = g
  <2> DEFINE a == f - 1
             b == g - 1
  <2>1. FrameLen * a + 1 = FrameLen * b + 1
    BY <1>2, <1>4 DEF Distinct
  <2>2. a \in Nat /\ b \in Nat /\ f = a + 1 /\ g = b + 1
    OBVIOUS
  <2> HIDE DEF a, b
  <2>3. /\ FrameLen * a \in Nat /\ FrameLen * b \in Nat
        /\ a < b => FrameLen * a + FrameLen <= FrameLen * b
        /\ b < a => FrameLen * b + FrameLen <= FrameLen * a
    BY <2>2, FramesAreOrdered
  <2>4. QED
    BY <2>1, <2>2, <2>3, FrameLenIs
<1>5. QED
  BY <1>3, <1>4

\* The framer has one more frame, which is good, and forwards it.
LEMMA ForwardsOneMore ==
  ASSUME NEW w \in Seq(StreamByte), NEW r, Distinct(w, r), NEW n \in Nat,
         FrameLen * (n + 1) <= Len(w), NEW v \in Seq(StreamByte), Forwards(w, r, v, n),
         IsGood(r, FrameOf(w, n + 1))
  PROVE  LET u == Append(v, FrameOf(w, n + 1)[1])
         IN  u \in Seq(StreamByte) /\ Len(u) = Len(v) + 1 /\ Forwards(w, r, u, n + 1)
<1> DEFINE b == FrameOf(w, n + 1)[1]
           u == Append(v, b)
           m == n + 1
           G == Goods(w, r, n)
           H == Goods(w, r, m)
           F(f) == FrameOf(w, f)[1]
<1>1. m \in Nat /\ m \in 1..m /\ 1..m = 1..n \cup {m} /\ m \notin 1..n
      /\ \A f \in 1..n : f < m /\ f \in 1..m /\ ~(m < f)
  OBVIOUS
<1>2. H = G \cup {m} /\ m \notin G /\ G \subseteq 1..n
  BY <1>1 DEF Goods
<1>3. b \in StreamByte
  BY <1>1, FirstByte
<1>4. Len(v) \in Nat
  BY LenProperties
<1>5. /\ u \in Seq(StreamByte) /\ Len(u) = Len(v) + 1
      /\ \A i \in 1..Len(v) : u[i] = v[i] /\ u[Len(v) + 1] = b
      /\ u[Len(v) + 1] = b
  BY <1>3, <1>4
<1>6. \A f \in G : F(f) # b
  <2>1. ASSUME NEW f \in G, F(f) = F(m) PROVE FALSE
    <3>1. f \in 1..m /\ f # m
      BY <1>1, <1>2
    <3>2. FrameLen * m <= Len(w)
      OBVIOUS
    <3> HIDE DEF m, G
    <3>3. QED
      BY <1>1, <2>1, <3>1, <3>2, FirstByte
  <2>2. QED
    BY <2>1
<1>7. /\ \A i \in 1..Len(v) : \E f \in G : v[i] = F(f)
      /\ \A f \in G : \E i \in 1..Len(v) : v[i] = F(f)
      /\ \A i, j \in 1..Len(v), f, g \in G :
           i < j /\ v[i] = F(f) /\ v[j] = F(g) => f < g
  BY DEF Forwards
<1>8. F(m) = b
  OBVIOUS
<1> DEFINE l == Len(v) + 1
<1>9. Len(u) = l /\ u[l] = b /\ l \in 1..l /\ 1..l = 1..Len(v) \cup {l}
      /\ l \in Nat /\ \A i \in 1..Len(v) : i \in 1..l /\ i # l /\ ~(l < i)
  BY <1>4, <1>5
<1>10. \A i \in 1..Len(v) : u[i] = v[i]
  BY <1>5
<1> HIDE DEF b, u, m, G, H, F, l
<1>11. \A i \in 1..l : \E f \in H : u[i] = F(f)
  BY ZenonT(30), <1>2, <1>7, <1>8, <1>9, <1>10
<1>12. \A f \in H : \E i \in 1..l : u[i] = F(f)
  BY <1>2, <1>7, <1>8, <1>9, <1>10, Zenon
<1>13. ASSUME NEW i \in 1..l, NEW j \in 1..l, NEW f \in H, NEW g \in H,
              i < j, u[i] = F(f), u[j] = F(g)
       PROVE  f < g
  <2>1. i # l /\ i \in 1..Len(v)
    BY <1>9, <1>13
  <2>2. v[i] = F(f)
    BY <1>10, <1>13, <2>1
  <2>3. f \in G
    <3>1. PICK e \in G : v[i] = F(e)
      BY <1>7, <2>1
    <3>2. f # m
      BY <1>6, <1>8, <2>2, <3>1
    <3>3. QED
      BY <1>2, <3>2
  <2>4. CASE j = l
    <3>1. g = m
      BY <1>2, <1>6, <1>9, <1>13, <2>4
    <3>2. QED
      BY <1>1, <1>2, <2>3, <3>1
  <2>5. CASE j # l
    <3>1. j \in 1..Len(v) /\ v[j] = F(g)
      BY <1>9, <1>10, <1>13, <2>5
    <3>2. PICK e \in G : v[j] = F(e)
      BY <1>7, <3>1
    <3>3. g # m
      BY <1>6, <1>8, <3>1, <3>2
    <3>4. g \in G
      BY <1>2, <3>3
    <3>5. QED
      BY <1>7, <1>13, <2>1, <2>2, <2>3, <3>1, <3>4
  <2>6. QED
    BY <2>4, <2>5
<1>14. Forwards(w, r, u, m)
  BY <1>9, <1>11, <1>12, <1>13 DEF Forwards, H, F
<1>15. QED
  BY <1>5, <1>14 DEF u, b, m

\* It has one more, which is not.
LEMMA ForwardsTheSame ==
  ASSUME NEW w, NEW r, NEW n \in Nat, NEW v, Forwards(w, r, v, n),
         ~IsGood(r, FrameOf(w, n + 1))
  PROVE  Forwards(w, r, v, n + 1)
<1> DEFINE m == n + 1
<1>1. 1..m = 1..n \cup {m}
  OBVIOUS
<1>2. ~IsGood(r, FrameOf(w, m))
  OBVIOUS
<1> HIDE DEF m
<1>3. Goods(w, r, m) = Goods(w, r, n)
  BY <1>1, <1>2 DEF Goods
<1>4. Forwards(w, r, v, m)
  BY <1>3 DEF Forwards
<1>5. QED
  BY <1>4 DEF m

\* Goodness is of the datagram the frame begins in.
LEMMA GoodBy ==
  ASSUME NEW r \in Seq(Datagrams), NEW d \in Datagrams, NEW b, b[1][1] \in 1..Len(r)
  PROVE  IsGood(Append(r, d), b) <=> IsGood(r, b)
<1>1. Append(r, d)[b[1][1]] = r[b[1][1]]
  BY AppendProperties
<1> DEFINE a == Append(r, d)
<1> HIDE DEF a
<1>2. a[b[1][1]] = r[b[1][1]]
  BY <1>1 DEF a
<1>3. QED
  BY <1>2 DEF IsGood, a

LEMMA ForwardsStill ==
  ASSUME NEW w \in Seq(StreamByte), NEW x \in Seq(StreamByte), NEW r \in Seq(Datagrams),
         NEW d \in Datagrams, Distinct(w, r), NEW n \in Nat, FrameLen * n <= Len(w),
         NEW v, Forwards(w, r, v, n)
  PROVE  Forwards(w \o x, Append(r, d), v, n)
<1>1. ASSUME NEW f \in 1..n
      PROVE  /\ FrameOf(w \o x, f) = FrameOf(w, f)
             /\ IsGood(Append(r, d), FrameOf(w, f)) <=> IsGood(r, FrameOf(w, f))
  <2>1. FrameOf(w, f)[1][1] \in 1..Len(r)
    BY FirstByte
  <2>2. FrameOf(w \o x, f) = FrameOf(w, f)
    <3>1. w \in Seq(StreamByte) /\ x \in Seq(StreamByte) /\ n \in Nat /\ f \in 1..n
          /\ FrameLen * n <= Len(w)
      OBVIOUS
    <3> QED BY ONLY ZenonT(30), <3>1, FrameStays
  <2> DEFINE b == FrameOf(w, f)
  <2>3. b[1][1] \in 1..Len(r)
    BY <2>1
  <2> HIDE DEF b
  <2>4. IsGood(Append(r, d), b) <=> IsGood(r, b)
    BY <2>3, GoodBy
  <2>5. QED
    BY <2>2, <2>4 DEF b
<1> DEFINE y == w \o x
           a == Append(r, d)
<1> HIDE DEF y, a
<1>2. Goods(y, a, n) = Goods(w, r, n)
  BY <1>1 DEF Goods, y, a
<1>3. \A f \in Goods(w, r, n) : FrameOf(y, f) = FrameOf(w, f)
  BY <1>1 DEF Goods, y
<1> DEFINE G == Goods(w, r, n)
<1>4. /\ \A i \in 1..Len(v) : \E f \in G : v[i] = FrameOf(w, f)[1]
      /\ \A f \in G : \E i \in 1..Len(v) : v[i] = FrameOf(w, f)[1]
      /\ \A i, j \in 1..Len(v), f, g \in G :
           i < j /\ v[i] = FrameOf(w, f)[1] /\ v[j] = FrameOf(w, g)[1] => f < g
  BY DEF Forwards
<1>5. \A f \in G : FrameOf(y, f) = FrameOf(w, f)
  BY <1>3
<1> HIDE DEF G
<1>6. /\ \A i \in 1..Len(v) : \E f \in G : v[i] = FrameOf(y, f)[1]
      /\ \A f \in G : \E i \in 1..Len(v) : v[i] = FrameOf(y, f)[1]
      /\ \A i, j \in 1..Len(v), f, g \in G :
           i < j /\ v[i] = FrameOf(y, f)[1] /\ v[j] = FrameOf(y, g)[1] => f < g
  BY ZenonT(30), <1>4, <1>5
<1>7. Forwards(y, a, v, n)
  BY <1>2, <1>6 DEF Forwards, G
<1>8. QED
  BY <1>7 DEF y, a

\* What recv gives of a datagram: all of it, or what fits the buffer
LEMMA DatagramBytes ==
  ASSUME NEW n \in Nat, NEW len \in Nat
  PROVE  /\ Bytes(n, len) \in Seq(StreamByte) /\ Len(Bytes(n, len)) = Smaller(len, BufLen)
         /\ Smaller(len, BufLen) \in Nat /\ Smaller(len, BufLen) <= len
         /\ \A k \in 1..Smaller(len, BufLen) : Bytes(n, len)[k] = <<n, k>>
<1> DEFINE m == Smaller(len, BufLen)
<1>1. BufLen \in Nat
  BY FrameLenIs, FramesAreOrdered DEF BufLen
<1>2. m \in Nat /\ m <= len
  BY <1>1 DEF Smaller
<1> HIDE DEF m
<1>3. \A k \in 1..m : <<n, k>> \in StreamByte
  BY <1>2 DEF StreamByte
<1>4. Bytes(n, len) = [k \in 1..m |-> <<n, k>>]
  BY DEF Bytes, m
<1>5. [k \in 1..m |-> <<n, k>>] \in Seq(StreamByte) /\ Len([k \in 1..m |-> <<n, k>>]) = m
  BY <1>2, <1>3
<1>6. QED
  BY <1>2, <1>4, <1>5 DEF m

LEMMA DistinctStill ==
  ASSUME NEW w \in Seq(StreamByte), NEW r \in Seq(Datagrams), NEW d \in Datagrams, Distinct(w, r)
  PROVE  Distinct(w \o Bytes(Len(r) + 1, d.len), Append(r, d))
<1> DEFINE n == Len(r) + 1
           x == Bytes(n, d.len)
           y == w \o x
<1>1. n \in Nat /\ Len(r) \in Nat /\ Len(w) \in Nat /\ Len(Append(r, d)) = n
  BY LenProperties, AppendProperties
<1>2. /\ x \in Seq(StreamByte) /\ Len(x) \in Nat
      /\ \A k \in 1..Len(x) : x[k] = <<n, k>>
  BY <1>1, DatagramBytes
<1> HIDE DEF x
<1>3. /\ Len(y) = Len(w) + Len(x)
      /\ \A i \in 1..Len(w) + Len(x) : y[i] = IF i <= Len(w) THEN w[i] ELSE x[i - Len(w)]
  BY <1>2, ConcatProperties
<1> HIDE DEF y
<1>4. ASSUME NEW i \in 1..Len(y)
      PROVE  \/ i \in 1..Len(w) /\ y[i] = w[i] /\ y[i][1] \in 1..Len(r)
             \/ /\ i - Len(w) \in 1..Len(x) /\ y[i] = <<n, i - Len(w)>>
                /\ y[i][1] = n /\ y[i][2] = i - Len(w)
  <2>1. CASE i <= Len(w)
    <3>1. i \in 1..Len(w) /\ y[i] = w[i]
      BY <1>1, <1>2, <1>3, <2>1
    <3>2. QED
      BY <3>1 DEF Distinct
  <2>2. CASE ~(i <= Len(w))
    <3> DEFINE k == i - Len(w)
    <3>1. k \in 1..Len(x) /\ y[i] = x[k]
      BY <1>1, <1>2, <1>3, <2>2
    <3> HIDE DEF k
    <3>2. y[i] = <<n, k>>
      BY <1>2, <3>1
    <3>3. QED
      BY <3>1, <3>2 DEF k
  <2>3. QED
    BY <2>1, <2>2
<1>5. \A i \in 1..Len(y) : y[i][1] \in 1..n
  <2>1. \A a \in 1..Len(r) : a \in 1..n
    BY <1>1
  <2>2. n \in 1..n
    BY <1>1
  <2> HIDE DEF n
  <2>3. QED
    BY <1>4, <2>1, <2>2
<1>6. ASSUME NEW i \in 1..Len(y), NEW j \in 1..Len(y), y[i] = y[j]
      PROVE  i = j
  <2>1. n \notin 1..Len(r)
    BY <1>1
  <2> HIDE DEF n
  <2>2. CASE i \in 1..Len(w) /\ y[i] = w[i] /\ y[i][1] \in 1..Len(r)
    <3>1. j \in 1..Len(w) /\ y[j] = w[j]
      BY <1>4, <1>6, <2>1, <2>2
    <3>2. QED
      BY <1>6, <2>2, <3>1 DEF Distinct
  <2>3. CASE i - Len(w) \in 1..Len(x) /\ y[i][1] = n /\ y[i][2] = i - Len(w)
    <3>1. y[j][2] = j - Len(w)
      BY <1>4, <1>6, <2>1, <2>3
    <3>2. i - Len(w) = j - Len(w)
      BY <1>6, <2>3, <3>1
    <3>3. QED
      BY <1>1, <1>2, <1>3, <3>2
  <2>4. QED
    BY <1>4, <2>2, <2>3
<1>7. Distinct(y, Append(r, d))
  BY <1>1, <1>5, <1>6 DEF Distinct
<1>8. QED
  BY <1>7 DEF x, y

\* What fits of a datagram of whole frames is whole frames.
LEMMA WholeFits ==
  ASSUME NEW len \in Nat, len % FrameLen = 0
  PROVE  \E h \in Nat : FrameLen * h <= len /\ Smaller(len, BufLen) = FrameLen * h
<1> DEFINE q == len \div FrameLen
<1>1. q \in Nat /\ len = FrameLen * q
  BY FrameLenIs
<1> HIDE DEF q
<1>2. FrameLen * BufFrames \in Nat /\ FrameLen * q \in Nat
  BY <1>1, FramesAreOrdered
<1>3. CASE len < BufLen
  BY <1>1, <1>2, <1>3 DEF Smaller, BufLen
<1>4. CASE ~(len < BufLen)
  BY <1>1, <1>2, <1>4 DEF Smaller, BufLen
<1>5. QED
  BY <1>3, <1>4

LEMMA AlignedStill ==
  ASSUME NEW w \in Seq(StreamByte), NEW r \in Seq(Datagrams), NEW d \in Datagrams,
         d.len % FrameLen = 0, Aligned(w, r)
  PROVE  Aligned(w \o Bytes(Len(r) + 1, d.len), Append(r, d))
<1> DEFINE c == Len(r) + 1
           x == Bytes(c, d.len)
           y == w \o x
           s == Append(r, d)
<1>1. d.len \in Nat
  OBVIOUS
<1>2. PICK h \in Nat : FrameLen * h <= d.len /\ Smaller(d.len, BufLen) = FrameLen * h
  BY <1>1, WholeFits
<1>3. PICK m \in Nat :
        /\ Len(w) = FrameLen * m
        /\ \A f \in 1..m : \E n \in 1..Len(r) : \E g \in Nat :
             /\ FrameLen * (g + 1) <= r[n].len
             /\ \A j \in 1..FrameLen : w[FrameLen * (f - 1) + j] = <<n, FrameLen * g + j>>
  BY DEF Aligned
<1>4. /\ c \in Nat /\ Len(r) \in Nat /\ Len(s) = c /\ s[c] = d
      /\ \A n \in 1..Len(r) : s[n] = r[n] /\ n \in 1..c
      /\ c \in 1..c
  BY LenProperties, AppendProperties
<1>5. /\ x \in Seq(StreamByte) /\ Len(x) = FrameLen * h
      /\ \A k \in 1..(FrameLen * h) : x[k] = <<c, k>>
  <2> HIDE DEF c, s
  <2>1. /\ x \in Seq(StreamByte) /\ Len(x) = Smaller(d.len, BufLen)
        /\ \A k \in 1..Smaller(d.len, BufLen) : x[k] = <<c, k>>
    <3>1. c \in Nat
      BY <1>4
    <3> DEFINE len == d.len
    <3>2. len \in Nat
      BY <1>1
    <3> HIDE DEF len
    <3>3. /\ Bytes(c, len) \in Seq(StreamByte) /\ Len(Bytes(c, len)) = Smaller(len, BufLen)
          /\ \A k \in 1..Smaller(len, BufLen) : Bytes(c, len)[k] = <<c, k>>
      BY <3>1, <3>2, DatagramBytes
    <3>4. QED
      BY <3>3 DEF len
  <2> HIDE DEF x
  <2>2. QED
    BY <1>2, <2>1
<1> HIDE DEF x, c, s
<1>6. /\ FrameLen * m \in Nat /\ FrameLen * h \in Nat
      /\ FrameLen * (m + h) = FrameLen * m + FrameLen * h
  BY FramesAreOrdered
<1>7. /\ Len(y) = FrameLen * (m + h)
      /\ \A i \in 1..(FrameLen * m) : y[i] = w[i]
      /\ \A i \in 1..(FrameLen * h) : y[FrameLen * m + i] = x[i]
  <2>1. /\ Len(y) = Len(w) + Len(x)
        /\ \A i \in 1..Len(w) + Len(x) : y[i] = IF i <= Len(w) THEN w[i] ELSE x[i - Len(w)]
    <3>1. x \in Seq(StreamByte)
      BY <1>5
    <3>2. QED
      BY <3>1, ConcatProperties
  <2> HIDE DEF y
  <2> DEFINE a == FrameLen * m
             b == FrameLen * h
  <2>2. a \in Nat /\ b \in Nat /\ Len(w) = a /\ Len(x) = b /\ Len(y) = a + b
        /\ \A i \in 1..(a + b) : y[i] = IF i <= a THEN w[i] ELSE x[i - a]
    BY <1>3, <1>5, <1>6, <2>1
  <2> HIDE DEF a, b
  <2>3. \A i \in 1..a : y[i] = w[i]
    BY <2>2
  <2>4. ASSUME NEW i \in 1..b PROVE y[a + i] = x[i]
    <3> DEFINE k == a + i
    <3>1. k \in 1..(a + b) /\ ~(k <= a) /\ k - a = i
      BY <2>2
    <3> HIDE DEF k
    <3>2. y[k] = x[k - a]
      BY <2>2, <3>1
    <3>3. QED
      BY <3>1, <3>2 DEF k
  <2>5. QED
    BY <1>6, <2>2, <2>3, <2>4 DEF a, b
<1> HIDE DEF y
<1>8. ASSUME NEW f \in 1..(m + h)
      PROVE  \E n \in 1..c : \E g \in Nat :
               /\ FrameLen * (g + 1) <= s[n].len
               /\ \A j \in 1..FrameLen : y[FrameLen * (f - 1) + j] = <<n, FrameLen * g + j>>
  <2>1. CASE f <= m
    <3>1. f \in 1..m
      BY <2>1
    <3>2. PICK n \in 1..Len(r) : \E g \in Nat :
             /\ FrameLen * (g + 1) <= r[n].len
             /\ \A j \in 1..FrameLen : w[FrameLen * (f - 1) + j] = <<n, FrameLen * g + j>>
      BY <1>3, <3>1
    <3>3. PICK g \in Nat :
             /\ FrameLen * (g + 1) <= r[n].len
             /\ \A j \in 1..FrameLen : w[FrameLen * (f - 1) + j] = <<n, FrameLen * g + j>>
      BY <3>2
    <3>4. ASSUME NEW j \in 1..FrameLen
          PROVE  y[FrameLen * (f - 1) + j] = <<n, FrameLen * g + j>>
      BY <1>7, <3>1, <3>3, PlaceIs
    <3>5. n \in 1..c /\ FrameLen * (g + 1) <= s[n].len
      BY <1>4, <3>3
    <3>6. QED
      BY <3>4, <3>5
  <2>2. CASE ~(f <= m)
    <3> DEFINE g == f - 1 - m
               e == g + 1
    <3>1. g \in Nat /\ e \in 1..h /\ f - 1 = m + g /\ e \in Nat /\ e <= h /\ e - 1 = g
      BY <2>2
    <3> HIDE DEF g
    <3>2. FrameLen * (f - 1) = FrameLen * m + FrameLen * g /\ FrameLen * g \in Nat
      BY <3>1, FramesAreOrdered
    <3>3. FrameLen * e <= FrameLen * h /\ FrameLen * e \in Nat
      BY <3>1, FramesAreOrdered
    <3> HIDE DEF e
    <3>4. FrameLen * e <= d.len
      BY <1>1, <1>2, <1>6, <3>3
    <3>5. ASSUME NEW j \in 1..FrameLen
          PROVE  y[FrameLen * (f - 1) + j] = <<c, FrameLen * g + j>>
      <4> DEFINE k == FrameLen * g + j
      <4>1. k \in 1..(FrameLen * h)
        BY <3>1, PlaceIs
      <4>2. FrameLen * (f - 1) + j = FrameLen * m + k
        <5> DEFINE t == FrameLen * (f - 1)
                   a == FrameLen * m
                   b == FrameLen * g
        <5>1. t = a + b /\ a \in Nat /\ b \in Nat /\ k = b + j /\ j \in Nat
          BY <1>6, <3>2, FrameLenIs
        <5> HIDE DEF t, a, b, k
        <5>2. t + j = a + k
          BY <5>1
        <5>3. QED
          BY <5>2 DEF t, a
      <4> HIDE DEF k
      <4>3. y[FrameLen * m + k] = <<c, k>>
        BY <1>5, <1>7, <4>1
      <4>4. QED
        BY <4>2, <4>3 DEF k
    <3>6. c \in 1..c /\ FrameLen * (g + 1) <= s[c].len
      BY <1>4, <3>4 DEF e
    <3>7. QED
      BY <3>1, <3>5, <3>6
  <2>3. QED
    BY <2>1, <2>2
<1>9. Aligned(y, s)
  <2> DEFINE t == m + h
  <2>1. t \in Nat /\ Len(y) = FrameLen * t
    BY <1>7
  <2>2. \A f \in 1..t : \E n \in 1..Len(s) : \E g \in Nat :
           /\ FrameLen * (g + 1) <= s[n].len
           /\ \A j \in 1..FrameLen : y[FrameLen * (f - 1) + j] = <<n, FrameLen * g + j>>
    BY ZenonT(30), <1>4, <1>8
  <2> HIDE DEF t
  <2>3. QED
    BY <2>1, <2>2 DEF Aligned
<1>10. QED
  BY <1>9 DEF x, y, c, s

\* In a stream of whole frames, what is not good is damaged.
LEMMA AlignedIsDamaged ==
  ASSUME NEW w \in Seq(StreamByte), NEW r, Aligned(w, r), NEW n \in Nat, FrameLen * n <= Len(w),
         NEW f \in 1..n, ~IsGood(r, FrameOf(w, f))
  PROVE  (FrameOf(w, f)[1][2] \div FrameLen) + 1 \in r[FrameOf(w, f)[1][1]].damaged
<1> DEFINE b == FrameOf(w, f)
<1>1. PICK m \in Nat :
        /\ Len(w) = FrameLen * m
        /\ \A e \in 1..m : \E c \in 1..Len(r) : \E g \in Nat :
             /\ FrameLen * (g + 1) <= r[c].len
             /\ \A j \in 1..FrameLen : w[FrameLen * (e - 1) + j] = <<c, FrameLen * g + j>>
  BY DEF Aligned
<1>2. f \in 1..m
  <2>1. FrameLen * n <= FrameLen * m /\ FrameLen * n \in Nat /\ FrameLen * m \in Nat
    BY <1>1, FramesAreOrdered
  <2>2. m < n => FrameLen * m + FrameLen <= FrameLen * n
    BY FramesAreOrdered
  <2>3. ~(m < n)
    BY <2>1, <2>2, FrameLenIs
  <2>4. QED
    BY <2>3
<1>3. PICK c \in 1..Len(r) : \E g \in Nat :
         /\ FrameLen * (g + 1) <= r[c].len
         /\ \A j \in 1..FrameLen : w[FrameLen * (f - 1) + j] = <<c, FrameLen * g + j>>
  BY <1>1, <1>2
<1>4. PICK g \in Nat :
         /\ FrameLen * (g + 1) <= r[c].len
         /\ \A j \in 1..FrameLen : w[FrameLen * (f - 1) + j] = <<c, FrameLen * g + j>>
  BY <1>3
<1>5. \A j \in 1..FrameLen : b[j] = <<c, FrameLen * g + j>>
  BY <1>4 DEF FrameOf
<1> HIDE DEF b
<1> DEFINE o == FrameLen * g
<1>6. o \in Nat /\ FrameLen * (g + 1) = o + FrameLen
  BY FramesAreOrdered
<1>7. b[1] = <<c, o + 1>> /\ b[1][1] = c /\ b[1][2] = o + 1
  <2>1. 1 \in 1..FrameLen
    BY FrameLenIs
  <2>2. QED
    BY <1>5, <2>1
<1>8. (o + 1) % FrameLen = 1
  <2>1. o + 1 \in Nat /\ 1 \in 0..(FrameLen - 1)
    BY <1>6, FrameLenIs
  <2>2. g \in Int /\ FrameLen \in Nat \ {0}
    BY FrameLenIs
  <2>3. QED
    BY <2>1, <2>2, ModUnique
<1>9. \A j \in 1..FrameLen : b[j] = <<c, o + j>>
  BY <1>5
<1> HIDE DEF o
<1>10. (o + 1) + FrameLen - 1 <= r[c].len
  <2>1. (o + 1) + FrameLen - 1 = o + FrameLen
    BY <1>6, FrameLenIs
  <2>2. QED
    BY <1>4, <1>6, <2>1
<1>11. \A j \in 1..FrameLen : b[j] = <<b[1][1], b[1][2] + j - 1>>
  <2>1. \A j \in 1..FrameLen : (o + 1) + j - 1 = o + j
    BY <1>6, FrameLenIs
  <2>2. QED
    BY <1>7, <1>9, <2>1
<1>12. ~IsGood(r, b)
  BY DEF b
<1>13. (b[1][2] \div FrameLen) + 1 \in r[b[1][1]].damaged
  BY <1>7, <1>8, <1>10, <1>11, <1>12 DEF IsGood
<1>14. QED
  BY <1>13 DEF b

LEMMA LiesBehind ==
  ASSUME NEW w \in Seq(StreamByte), NEW x \in Seq(StreamByte)
  PROVE  w \o x \in Seq(StreamByte) /\ Len(w \o x) = Len(w) + Len(x) /\ Lies(w \o x, x, Len(w))
<1>1. Len(w) \in Nat /\ Len(x) \in Nat
  BY LenProperties
<1> DEFINE y == w \o x
<1>2. /\ y \in Seq(StreamByte) /\ Len(y) = Len(w) + Len(x)
      /\ \A i \in 1..Len(w) + Len(x) : y[i] = IF i <= Len(w) THEN w[i] ELSE x[i - Len(w)]
  BY ConcatProperties
<1> HIDE DEF y
<1>3. ASSUME NEW i \in 1..Len(x) PROVE y[Len(w) + i] = x[i]
  <2> DEFINE k == Len(w) + i
  <2>1. k \in 1..(Len(w) + Len(x)) /\ ~(k <= Len(w)) /\ k - Len(w) = i
    BY <1>1
  <2> HIDE DEF k
  <2>2. y[k] = x[k - Len(w)]
    BY <1>2, <2>1
  <2>3. QED
    BY <2>1, <2>2 DEF k
<1>4. QED
  BY <1>1, <1>2, <1>3 DEF Lies, y
-----------------------------------------------------------------------------
LEMMA StreamTypes ==
  ASSUME StreamInv
  PROVE  /\ Len(pending) \in Nat /\ Len(pipe) \in Nat /\ Len(buf) \in Nat
         /\ Len(stream) \in Nat /\ Len(forwarded) \in Nat /\ Len(received) \in Nat
         /\ Had \in Nat /\ FrameLen * Had \in Nat /\ FrameLen * Had <= Len(stream)
<1>1. /\ Len(pending) \in Nat /\ Len(pipe) \in Nat /\ Len(buf) \in Nat
      /\ Len(stream) \in Nat /\ Len(forwarded) \in Nat /\ Len(received) \in Nat
  BY LenProperties DEF StreamInv
<1>2. Had \in Nat
  BY <1>1 DEF StreamInv, Had
<1>3. FrameLen * Had \in Nat
  BY <1>2, FramesAreOrdered
<1>4. QED
  BY <1>1, <1>2, <1>3 DEF StreamInv

LEMMA StreamInitInv == StreamInit => StreamInv
<1> SUFFICES ASSUME StreamInit PROVE StreamInv
  OBVIOUS
<1>1. /\ pending = <<>> /\ pipe = <<>> /\ buf = <<>> /\ stream = <<>> /\ forwarded = <<>>
      /\ received = <<>> /\ rejected = 0
  BY DEF StreamInit
<1>2. <<>> \in Seq(StreamByte) /\ <<>> \in Seq(Datagrams) /\ Len(<<>>) = 0
  OBVIOUS
<1>3. Had = 0 /\ FrameLen * 0 = 0 /\ 1..0 = {}
  BY <1>1, <1>2, FrameLenIs DEF Had
<1>4. Lies(<<>>, <<>>, 0)
  BY <1>2 DEF Lies
<1>5. Distinct(<<>>, <<>>)
  BY <1>2 DEF Distinct
<1>6. Forwards(<<>>, <<>>, <<>>, 0)
  BY <1>2, <1>3 DEF Forwards, Goods
<1>7. Aligned(<<>>, <<>>)
  BY <1>2, <1>3 DEF Aligned
<1>8. QED
  BY <1>1, <1>2, <1>3, <1>4, <1>5, <1>6, <1>7, FrameLenIs DEF StreamInv

LEMMA RecvInv ==
  ASSUME StreamInv, Recv
  PROVE  StreamInv'
<1>1. PICK d \in Datagrams :
        /\ received' = Append(received, d)
        /\ pending' = Bytes(Len(received'), d.len)
        /\ stream' = stream \o pending'
  BY DEF Recv
<1>2. /\ pending = <<>> /\ pipe' = pipe /\ buf' = buf /\ forwarded' = forwarded
      /\ rejected' = rejected /\ Had' = Had
  BY DEF Recv, Had
<1> DEFINE a == FrameLen * Had
           x == Bytes(Len(received) + 1, d.len)
<1>3. /\ Len(pipe) \in Nat /\ Len(buf) \in Nat /\ Len(stream) \in Nat /\ Len(received) \in Nat
      /\ Had \in Nat /\ a \in Nat /\ a <= Len(stream)
  BY StreamTypes
<1>4. /\ stream \in Seq(StreamByte) /\ pipe \in Seq(StreamByte) /\ buf \in Seq(StreamByte)
      /\ forwarded \in Seq(StreamByte) /\ received \in Seq(Datagrams)
      /\ rejected \in Nat /\ Len(buf) < FrameLen
      /\ Lies(stream, buf, a) /\ Lies(stream, pipe, a + Len(buf))
      /\ Len(stream) = a + Len(buf) + Len(pipe) + Len(pending)
      /\ Distinct(stream, received)
      /\ Forwards(stream, received, forwarded, Had)
      /\ Whole(received) => Aligned(stream, received)
  BY DEF StreamInv
<1>5. /\ Len(received') = Len(received) + 1 /\ received' \in Seq(Datagrams)
      /\ \A n \in 1..Len(received) : received'[n] = received[n]
      /\ received'[Len(received')] = d
  BY <1>1, <1>4, AppendProperties
<1>6. pending' = x /\ stream' = stream \o x
  BY <1>1, <1>5
<1>7. x \in Seq(StreamByte) /\ Len(x) \in Nat
  <2> DEFINE n == Len(received) + 1
             len == d.len
  <2>1. n \in Nat /\ len \in Nat
    BY <1>3
  <2> HIDE DEF n, len
  <2>2. Bytes(n, len) \in Seq(StreamByte)
    BY <2>1, DatagramBytes
  <2>3. x \in Seq(StreamByte)
    BY <2>2 DEF n, len
  <2> HIDE DEF x
  <2>4. QED
    BY <2>3, LenProperties
<1>8. Len(pending) = 0
  BY <1>2
<1>9. Distinct(stream', received')
  BY <1>1, <1>4, <1>6, DistinctStill
<1>10. Whole(received') => Aligned(stream', received')
  <2> SUFFICES ASSUME Whole(received') PROVE Aligned(stream', received')
    OBVIOUS
  <2>1. d.len % FrameLen = 0
    <3>1. Len(received') \in 1..Len(received')
      BY <1>3, <1>5
    <3>2. received'[Len(received')].len % FrameLen = 0
      BY <3>1 DEF Whole
    <3>3. QED
      BY <1>5, <3>2
  <2>2. Whole(received)
    BY <1>3, <1>5 DEF Whole
  <2>3. QED
    BY <1>1, <1>4, <1>6, <2>1, <2>2, AlignedStill
<1> HIDE DEF a, x
<1>11. Forwards(stream', received', forwarded', Had')
  <2>1. FrameLen * Had <= Len(stream)
    BY <1>3 DEF a
  <2>2. QED
    BY <1>1, <1>2, <1>3, <1>4, <1>6, <1>7, <2>1, ForwardsStill
<1>12. /\ stream' \in Seq(StreamByte) /\ Len(stream') = Len(stream) + Len(x)
       /\ Lies(stream', x, Len(stream))
  BY <1>4, <1>6, <1>7, LiesBehind
<1>13. Lies(stream', buf', a) /\ Lies(stream', pipe', a + Len(buf))
  BY <1>2, <1>3, <1>4, <1>6, <1>7, LiesStill
<1>14. Len(stream) = a + Len(buf) + Len(pipe)
  BY <1>3, <1>4, <1>8
<1>15. a' = a
  BY <1>2 DEF a
<1>16. Len(stream') = a + Len(buf') + Len(pipe') + Len(pending')
  BY <1>2, <1>6, <1>12, <1>14
<1>17. Lies(stream', pending', a + Len(buf') + Len(pipe'))
  BY <1>2, <1>6, <1>12, <1>14
<1>18. QED
  BY <1>2, <1>4, <1>5, <1>6, <1>7, <1>9, <1>10, <1>11, <1>12, <1>13, <1>15, <1>16, <1>17
     DEF StreamInv, a

LEMMA WriteAllInv ==
  ASSUME StreamInv, WriteAll
  PROVE  StreamInv'
<1> DEFINE n == Smaller(Len(pending), PipeLen - Len(pipe))
           x == SubSeq(pending, 1, n)
           y == SubSeq(pending, n + 1, Len(pending))
           a == FrameLen * Had
           b == a + Len(buf)
           c == b + Len(pipe)
<1>1. /\ pipe' = pipe \o x /\ pending' = y /\ Len(pipe) < PipeLen
      /\ buf' = buf /\ stream' = stream /\ received' = received
      /\ forwarded' = forwarded /\ rejected' = rejected
  BY DEF WriteAll
<1>2. Had' = Had
  BY <1>1 DEF Had
<1>3. /\ Len(pending) \in Nat /\ Len(pipe) \in Nat /\ Len(buf) \in Nat
      /\ a \in Nat /\ b \in Nat /\ c \in Nat
  BY StreamTypes
<1>4. n \in 0..Len(pending)
  <2>1. PipeLen \in Nat
    BY FramesAreOrdered DEF PipeLen
  <2>2. QED
    BY <1>1, <1>3, <2>1 DEF Smaller
<1>5. a' = a
  BY <1>2
<1>6. /\ stream \in Seq(StreamByte) /\ pending \in Seq(StreamByte) /\ pipe \in Seq(StreamByte)
      /\ Lies(stream, buf, a) /\ Lies(stream, pipe, b) /\ Lies(stream, pending, c)
      /\ Len(stream) = c + Len(pending)
  BY DEF StreamInv
<1> HIDE DEF n, a
<1>7. /\ x \in Seq(StreamByte) /\ Len(x) = n /\ Lies(stream, x, c)
      /\ y \in Seq(StreamByte) /\ Len(y) = Len(pending) - n /\ Lies(stream, y, c + n)
  BY <1>3, <1>4, <1>6, LiesSplit
<1> HIDE DEF x, y
<1>8. /\ pipe' \in Seq(StreamByte) /\ Len(pipe') = Len(pipe) + n /\ Lies(stream, pipe', b)
  <2> HIDE DEF b
  <2>1. b \in Nat /\ Lies(stream, pipe, b) /\ Lies(stream, x, b + Len(pipe))
    BY <1>3, <1>6, <1>7
  <2>2. stream \in Seq(StreamByte) /\ pipe \in Seq(StreamByte) /\ x \in Seq(StreamByte)
    BY <1>6, <1>7
  <2>3. /\ pipe \o x \in Seq(StreamByte) /\ Len(pipe \o x) = Len(pipe) + Len(x)
        /\ Lies(stream, pipe \o x, b)
    BY Zenon, <2>1, <2>2, LiesJoin
  <2>4. QED
    BY <1>1, <1>7, <2>3
<1>9. /\ c + n = b + Len(pipe')
      /\ Len(stream) = b + Len(pipe') + Len(pending')
  BY <1>1, <1>3, <1>4, <1>6, <1>7, <1>8
<1>10. Lies(stream', pending', a + Len(buf') + Len(pipe')) /\ Lies(stream', pipe', a + Len(buf'))
  BY <1>1, <1>7, <1>8, <1>9
<1>11. QED
  BY <1>1, <1>2, <1>5, <1>6, <1>7, <1>8, <1>9, <1>10 DEF StreamInv, a

LEMMA IsGoodFrame ==
  ASSUME NEW b
  PROVE  GoodFrame(b) <=> IsGood(received, b)
BY DEF GoodFrame, GoodFrom, IsGood

LEMMA ReadExactInv ==
  ASSUME StreamInv, ReadExact
  PROVE  StreamInv'
<1> DEFINE n == Smaller(FrameLen - Len(buf), Len(pipe))
           x == SubSeq(pipe, 1, n)
           y == SubSeq(pipe, n + 1, Len(pipe))
           t == buf \o x
           a == FrameLen * Had
           b == a + Len(buf)
           c == b + Len(pipe)
<1>1. /\ pipe' = y /\ pending' = pending /\ stream' = stream /\ received' = received
      /\ \/ /\ Len(t) < FrameLen
            /\ buf' = t /\ forwarded' = forwarded /\ rejected' = rejected
         \/ /\ ~(Len(t) < FrameLen) /\ buf' = <<>>
            /\ \/ /\ GoodFrame(t)
                  /\ forwarded' = Append(forwarded, t[1]) /\ rejected' = rejected
               \/ /\ ~GoodFrame(t)
                  /\ rejected' = rejected + 1 /\ forwarded' = forwarded
  BY DEF ReadExact
<1>2. /\ Len(pending) \in Nat /\ Len(pipe) \in Nat /\ Len(buf) \in Nat
      /\ Len(stream) \in Nat /\ Len(forwarded) \in Nat
      /\ a \in Nat /\ b \in Nat /\ c \in Nat /\ Had \in Nat
  BY StreamTypes
<1>3. /\ stream \in Seq(StreamByte) /\ pending \in Seq(StreamByte) /\ pipe \in Seq(StreamByte)
      /\ buf \in Seq(StreamByte) /\ Len(buf) < FrameLen
      /\ forwarded \in Seq(StreamByte) /\ rejected \in Nat
      /\ Lies(stream, buf, a) /\ Lies(stream, pipe, b) /\ Lies(stream, pending, c)
      /\ Len(stream) = c + Len(pending)
      /\ Distinct(stream, received) /\ Forwards(stream, received, forwarded, Had)
  BY DEF StreamInv
<1>4. n \in 0..Len(pipe) /\ Len(buf) + n <= FrameLen
  BY <1>2, <1>3, FrameLenIs DEF Smaller
<1> HIDE DEF n
<1>5. /\ x \in Seq(StreamByte) /\ Len(x) = n /\ Lies(stream, x, b)
      /\ y \in Seq(StreamByte) /\ Len(y) = Len(pipe) - n /\ Lies(stream, y, b + n)
  <2> HIDE DEF b
  <2>1. QED
    BY <1>2, <1>3, <1>4, LiesSplit
<1> HIDE DEF x, y
<1>6. t \in Seq(StreamByte) /\ Len(t) = Len(buf) + n /\ Lies(stream, t, a)
  <2> HIDE DEF a
  <2>1. a \in Nat /\ Lies(stream, buf, a) /\ Lies(stream, x, a + Len(buf))
    BY <1>2, <1>3, <1>5
  <2>2. stream \in Seq(StreamByte) /\ buf \in Seq(StreamByte) /\ x \in Seq(StreamByte)
    BY <1>3, <1>5
  <2>3. /\ buf \o x \in Seq(StreamByte) /\ Len(buf \o x) = Len(buf) + Len(x)
        /\ Lies(stream, buf \o x, a)
    BY Zenon, <2>1, <2>2, LiesJoin
  <2>4. QED
    BY <1>5, <2>3
<1> HIDE DEF t
<1>7. b + n = a + Len(t) /\ c = (b + n) + Len(y)
  <2> HIDE DEF a
  <2>1. QED
    BY <1>2, <1>4, <1>5, <1>6
<1>8. CASE Len(t) < FrameLen
  <2>1. buf' = t /\ forwarded' = forwarded /\ rejected' = rejected /\ Had' = Had
    BY <1>1, <1>8 DEF Had
  <2>2. a' = a
    BY <2>1
  <2> HIDE DEF a, b, c
  <2>3. /\ Lies(stream', buf', a) /\ Lies(stream', pipe', a + Len(buf'))
        /\ Lies(stream', pending', a + Len(buf') + Len(pipe'))
        /\ Len(stream') = a + Len(buf') + Len(pipe') + Len(pending')
    BY <1>1, <1>3, <1>5, <1>6, <1>7, <2>1
  <2>4. QED
    BY <1>1, <1>3, <1>5, <1>6, <1>8, <2>1, <2>2, <2>3 DEF StreamInv, a
<1>9. CASE ~(Len(t) < FrameLen)
  <2>1. Len(t) = FrameLen
    BY <1>2, <1>4, <1>6, <1>9, FrameLenIs
  <2> DEFINE h == Had + 1
  <2>2. FrameLen * h = a + FrameLen /\ h \in Nat /\ h - 1 = Had
    BY <1>2, FramesAreOrdered
  <2>3. t = FrameOf(stream, h)
    <3>1. \A j \in 1..FrameLen : stream[FrameLen * (h - 1) + j] = t[j]
      <4>1. FrameLen * (h - 1) = a
        BY <2>2
      <4> HIDE DEF a
      <4>2. QED
        BY <1>6, <2>1, <4>1 DEF Lies
    <3>2. FrameOf(stream, h) = [j \in 1..FrameLen |-> t[j]]
      BY <3>1 DEF FrameOf
    <3>3. t = [j \in 1..FrameLen |-> t[j]]
      BY <1>6, <2>1, LenProperties
    <3>4. QED
      BY <3>2, <3>3
  <2>4. FrameLen * h <= Len(stream)
    <3> HIDE DEF a, b, c
    <3>1. b + n = a + FrameLen
      BY <1>7, <2>1
    <3>2. Len(y) \in Nat
      BY <1>5, LenProperties
    <3>3. QED
      BY <1>2, <1>3, <1>4, <1>7, <2>2, <3>1, <3>2
  <2> HIDE DEF a, b, c
  <2>5. /\ forwarded' \in Seq(StreamByte) /\ rejected' \in Nat /\ Had' = h
        /\ Forwards(stream, received, forwarded', h)
    <3>1. CASE IsGood(received, t)
      <4>1. forwarded' = Append(forwarded, t[1]) /\ rejected' = rejected
        BY <1>1, <1>9, <3>1, IsGoodFrame
      <4>2. /\ forwarded' \in Seq(StreamByte) /\ Len(forwarded') = Len(forwarded) + 1
            /\ Forwards(stream, received, forwarded', h)
        <5>1. IsGood(received, FrameOf(stream, h)) /\ t[1] = FrameOf(stream, h)[1]
          BY <2>3, <3>1
        <5>2. h = Had + 1 /\ FrameLen * (Had + 1) <= Len(stream)
          BY <2>4
        <5> HIDE DEF h
        <5>3. QED
          BY SMTT(30), <1>2, <1>3, <4>1, <5>1, <5>2, ForwardsOneMore
      <4>3. Had' = h
        BY <1>2, <1>3, <4>1, <4>2 DEF Had
      <4>4. QED
        BY <1>3, <4>1, <4>2, <4>3
    <3>2. CASE ~IsGood(received, t)
      <4>1. forwarded' = forwarded /\ rejected' = rejected + 1
        BY <1>1, <1>9, <3>2, IsGoodFrame
      <4>2. Forwards(stream, received, forwarded, h)
        BY <1>2, <1>3, <2>3, <3>2, ForwardsTheSame
      <4>3. Had' = h
        BY <1>2, <1>3, <4>1 DEF Had
      <4>4. QED
        BY <1>3, <4>1, <4>2, <4>3
    <3>3. QED
      BY <3>1, <3>2
  <2>6. buf' = <<>> /\ buf' \in Seq(StreamByte) /\ Len(buf') = 0
    <3>1. buf' = <<>>
      BY <1>1, <1>9
    <3>2. <<>> \in Seq(StreamByte) /\ Len(<<>>) = 0
      OBVIOUS
    <3>3. QED
      BY <3>1, <3>2
  <2>7. FrameLen * Had' = a + FrameLen
    BY <2>2, <2>5
  <2>8. Lies(stream', buf', FrameLen * Had')
    <3>1. FrameLen * Had' <= Len(stream)
      BY <2>4, <2>5
    <3>2. FrameLen * Had' \in Int
      BY <1>2, <2>7, FrameLenIs
    <3>3. QED
      BY <1>1, <2>6, <3>1, <3>2 DEF Lies
  <2>9. /\ Lies(stream', pipe', FrameLen * Had' + Len(buf'))
        /\ Lies(stream', pending', FrameLen * Had' + Len(buf') + Len(pipe'))
        /\ Len(stream') = FrameLen * Had' + Len(buf') + Len(pipe') + Len(pending')
    <3> DEFINE e == FrameLen * Had'
    <3>1. e = a + FrameLen /\ e \in Nat
      BY <1>2, <2>7, FrameLenIs
    <3> HIDE DEF e
    <3>2. e + Len(buf') = b + n /\ e + Len(buf') + Len(pipe') = c
      BY <1>1, <1>2, <1>7, <2>1, <2>6, <3>1, FrameLenIs
    <3>3. QED
      BY <1>1, <1>3, <1>5, <3>2 DEF e
  <2>10. QED
    <3>1. Whole(received') => Aligned(stream', received')
      BY <1>1 DEF StreamInv
    <3>2. Distinct(stream', received') /\ Forwards(stream', received', forwarded', Had')
      BY <1>1, <1>3, <2>5
    <3>3. received' \in Seq(Datagrams)
      BY <1>1 DEF StreamInv
    <3>4. QED
      BY <1>1, <1>3, <1>5, <2>5, <2>6, <2>8, <2>9, <3>1, <3>2, <3>3, FrameLenIs DEF StreamInv
<1>10. QED
  BY <1>8, <1>9

LEMMA StreamNextInv == StreamInv /\ [StreamNext]_svars => StreamInv'
<1> SUFFICES ASSUME StreamInv, [StreamNext]_svars PROVE StreamInv'
  OBVIOUS
<1>1. CASE Recv
  BY <1>1, RecvInv
<1>2. CASE WriteAll
  BY <1>2, WriteAllInv
<1>3. CASE ReadExact
  BY <1>3, ReadExactInv
<1>4. CASE SocketError \/ UNCHANGED svars
  BY <1>4 DEF SocketError, svars, StreamInv, Had
<1>5. QED
  BY <1>1, <1>2, <1>3, <1>4 DEF StreamNext

LEMMA StreamSound == StreamInv => ForwardedExactly
<1> SUFFICES ASSUME StreamInv PROVE ForwardedExactly
  OBVIOUS
<1> DEFINE had == 1..(Len(forwarded) + rejected)
           good == {f \in had : GoodFrame(FrameAt(f))}
           G == Goods(stream, received, Had)
<1>1. /\ stream \in Seq(StreamByte) /\ forwarded \in Seq(StreamByte) /\ received \in Seq(Datagrams)
      /\ Len(forwarded) \in Nat /\ Len(received) \in Nat
      /\ DOMAIN forwarded = 1..Len(forwarded) /\ DOMAIN received = 1..Len(received)
      /\ Had \in Nat /\ FrameLen * Had <= Len(stream)
  BY StreamTypes, LenProperties DEF StreamInv
<1>2. \A f : FrameAt(f) = FrameOf(stream, f)
  BY DEF FrameAt, FrameOf
<1>3. good = G /\ had = 1..Had
  BY <1>2, IsGoodFrame DEF Goods, Had
<1>4. Forwards(stream, received, forwarded, Had)
  BY DEF StreamInv
<1>5. {forwarded[i] : i \in DOMAIN forwarded} = {FrameAt(f)[1] : f \in good}
  <2>1. /\ \A i \in DOMAIN forwarded : \E f \in good : forwarded[i] = FrameAt(f)[1]
        /\ \A f \in good : \E i \in DOMAIN forwarded : forwarded[i] = FrameAt(f)[1]
    BY <1>1, <1>2, <1>3, <1>4 DEF Forwards
  <2> HIDE DEF good
  <2>2. QED
    BY <2>1
<1>6. \A i, j \in DOMAIN forwarded, f, g \in good :
        i < j /\ forwarded[i] = FrameAt(f)[1] /\ forwarded[j] = FrameAt(g)[1] => f < g
  BY <1>1, <1>2, <1>3, <1>4 DEF Forwards
<1>7. ASSUME \A n \in DOMAIN received : received[n].len % FrameLen = 0,
             NEW f \in had \ good
      PROVE  WasDamaged(FrameAt(f))
  <2>1. Aligned(stream, received)
    BY <1>1, <1>7 DEF StreamInv, Whole
  <2>2. f \in 1..Had /\ ~IsGood(received, FrameOf(stream, f))
    BY <1>2, <1>3, IsGoodFrame
  <2>3. QED
    BY <1>1, <1>2, <2>1, <2>2, AlignedIsDamaged DEF WasDamaged
<1>8. Len(stream) = FrameLen * (Len(forwarded) + rejected)
                       + Len(buf) + Len(pipe) + Len(pending)
  BY DEF StreamInv, Had
<1>9. QED
  BY <1>5, <1>6, <1>7, <1>8 DEF ForwardedExactly

\* However the two tasks share the pipe and however the datagrams are cut, the
\* framer forwards exactly the good frames of the stream, once each and in
\* order, no byte is lost between the socket and the framer, and of whole
\* frames only damaged ones are rejected (main.rs:65-90, framer.rs:251-290).
THEOREM AlwaysForwardedExactly == StreamSpec => []ForwardedExactly
<1>1. StreamSpec => []StreamInv
  BY StreamInitInv, StreamNextInv, PTL DEF StreamSpec
<1>2. QED
  BY <1>1, StreamSound, PTL
=============================================================================
