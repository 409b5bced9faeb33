----------------------------- MODULE WireProofs -----------------------------
(***************************************************************************)
(* Proofs about the wire format, for every value of the sealed types and   *)
(* every size of the user data: what is built is parsed, and read back     *)
(* field by field; the fields determine the bytes of the two headers and   *)
(* the bytes the fields; one bit inverted makes a header that is refused   *)
(* where the format pins the bit, and changes one field where it does not. *)
(*                                                                         *)
(* The invariant of a packet's way says what the link may have made of the *)
(* packet of the draft, and that a message is made of just that.           *)
(***************************************************************************)
EXTENDS PacketPath, BasicLemmas, FiniteSetTheorems

\* The bytes of a word
HighByte(n) == n \div 256
LowByte(n) == n % 256
WordOf(b, c) == 256 * b + c

\* The first two words of a header
IdWord(p) == 2048 + 4096 * TypeBit(p.type) + p.apid
SeqWord(p) == 49152 + p.seq

CucTimes == [hi : U16, lo : U16, fine : U16]

\* The bytes of the two headers
IsPrimary(h, p) ==
  /\ h \in Seq(Byte) /\ Len(h) = 6
  /\ h[1] = HighByte(IdWord(p))
  /\ h[2] = LowByte(IdWord(p))
  /\ h[3] = HighByte(SeqWord(p)) /\ h[4] = LowByte(SeqWord(p))
  /\ h[5] = HighByte(p.length) /\ h[6] = LowByte(p.length)

IsCuc(h, t) ==
  /\ h \in Seq(Byte) /\ Len(h) = 7 /\ h[1] = PField
  /\ h[2] = HighByte(t.hi) /\ h[3] = LowByte(t.hi)
  /\ h[4] = HighByte(t.lo) /\ h[5] = LowByte(t.lo)
  /\ h[6] = HighByte(t.fine) /\ h[7] = LowByte(t.fine)

HeaderBytes(h, p) ==
  /\ h[1] = HighByte(IdWord(p))
  /\ h[2] = LowByte(IdWord(p))
  /\ h[3] = HighByte(SeqWord(p)) /\ h[4] = LowByte(SeqWord(p))
  /\ h[5] = HighByte(p.length) /\ h[6] = LowByte(p.length) /\ h[7] = PField
  /\ h[8] = HighByte(p.time.hi) /\ h[9] = LowByte(p.time.hi)
  /\ h[10] = HighByte(p.time.lo) /\ h[11] = LowByte(p.time.lo)
  /\ h[12] = HighByte(p.time.fine) /\ h[13] = LowByte(p.time.fine)
  /\ h[14] = HighByte(p.func) /\ h[15] = LowByte(p.func) /\ h[16] = p.instance

IsHeader(h, p) == h \in Seq(Byte) /\ Len(h) = 16 /\ HeaderBytes(h, p)

LEMMA MaxIs == MaxU16 = 65535 /\ MaxApid = 2047 /\ MaxCount = 16383
BY DEF MaxU16, MaxApid, MaxCount

LEMMA IsWord ==
  ASSUME NEW n \in Nat, n <= 65535
  PROVE  n \in U16
<1>1. MaxU16 \in Nat /\ n <= MaxU16
  BY MaxIs
<1> QED BY <1>1 DEF U16

LEMMA WordIs ==
  ASSUME NEW n \in U16
  PROVE  n \in Nat /\ n <= 65535
<1>1. MaxU16 \in Int
  BY MaxIs
<1>2. n \in Nat /\ n <= MaxU16
  BY <1>1 DEF U16
<1> QED BY <1>2, MaxIs

LEMMA IsCount ==
  ASSUME NEW n \in Nat
  PROVE  (n <= 2047 => n \in Apids) /\ (n <= 16383 => n \in SequenceCounts)
<1>1. /\ MaxApid \in Nat /\ (n <= 2047 => n <= MaxApid)
      /\ MaxCount \in Nat /\ (n <= 16383 => n <= MaxCount)
  BY MaxIs
<1> QED BY <1>1 DEF Apids, SequenceCounts

LEMMA CountIs ==
  /\ \A n \in Apids : n \in Nat /\ n <= MaxApid
  /\ \A n \in SequenceCounts : n \in Nat /\ n <= MaxCount
BY MaxIs DEF Apids, SequenceCounts

LEMMA ByteIs ==
  ASSUME NEW b \in Byte
  PROVE  b \in Nat /\ b < 256
BY DEF Byte

LEMMA BytesAre ==
  ASSUME NEW h \in Seq(Byte), NEW n, Len(h) = n
  PROVE  \A i \in 1..n : h[i] \in Byte
OBVIOUS

LEMMA DivByte ==
  ASSUME NEW n \in Nat, n < 65536
  PROVE  /\ n \div 256 \in Nat /\ n \div 256 < 256
         /\ n % 256 \in Nat /\ n % 256 < 256
         /\ n = 256 * (n \div 256) + (n % 256)
OBVIOUS

LEMMA Be16Is ==
  ASSUME NEW n \in U16
  PROVE  /\ Be16(n) \in Seq(Byte) /\ Len(Be16(n)) = 2
         /\ Be16(n)[1] = HighByte(n) /\ Be16(n)[2] = LowByte(n)
<1>1. n \div 256 \in Byte /\ n % 256 \in Byte
  <2>1. n \in Nat /\ n < 65536
    BY WordIs
  <2>2. /\ n \div 256 \in Nat /\ n \div 256 < 256
        /\ n % 256 \in Nat /\ n % 256 < 256
    BY <2>1, DivByte
  <2> HIDE <2>1
  <2> DEFINE q == n \div 256  r == n % 256
  <2> HIDE DEF q, r
  <2>3. q \in Byte /\ r \in Byte
    BY <2>2 DEF Byte, q, r
  <2> QED BY <2>3 DEF q, r
<1> QED BY <1>1 DEF Be16, HighByte, LowByte

LEMMA JoinAt ==
  ASSUME NEW s \in Seq(Byte), NEW t \in Seq(Byte)
  PROVE  /\ s \o t \in Seq(Byte) /\ Len(s \o t) = Len(s) + Len(t)
         /\ \A i \in 1..Len(s) : (s \o t)[i] = s[i]
         /\ \A i \in 1..Len(t) : (s \o t)[Len(s) + i] = t[i]
OBVIOUS

\* h is s, of length m, followed by t, of length n.
Joins(h, s, m, t, n) ==
  /\ h \in Seq(Byte) /\ Len(h) = m + n
  /\ \A i \in 1..m : h[i] = s[i]
  /\ \A i \in 1..n : h[m + i] = t[i]

LEMMA Joined ==
  ASSUME NEW s \in Seq(Byte), NEW t \in Seq(Byte), NEW m, NEW n,
         Len(s) = m, Len(t) = n
  PROVE  Joins(s \o t, s, m, t, n)
BY Zenon, JoinAt DEF Joins

LEMMA WordsFit ==
  ASSUME NEW p, WellTyped(p)
  PROVE  IdWord(p) \in U16 /\ SeqWord(p) \in U16 /\ p.length \in U16
<1> DEFINE tb == TypeBit(p.type)  ap == p.apid  sc == p.seq
<1>1. tb \in {0, 1}
  BY DEF TypeBit
<1>2. ap \in Apids /\ sc \in SequenceCounts /\ p.length \in DataLengths
  BY Zenon DEF WellTyped
<1>3. IdWord(p) = 2048 + 4096 * tb + ap /\ SeqWord(p) = 49152 + sc
  BY DEF IdWord, SeqWord
<1> HIDE DEF tb, ap, sc
<1>4. /\ IdWord(p) \in Nat /\ IdWord(p) <= 65535
      /\ SeqWord(p) \in Nat /\ SeqWord(p) <= 65535
  <2>1. ap \in Nat /\ ap <= MaxApid /\ sc \in Nat /\ sc <= MaxCount
    BY Zenon, <1>2, CountIs
  <2>2. ap <= 2047 /\ sc <= 16383
    BY <2>1, MaxIs
  <2> QED BY <1>1, <1>3, <2>1, <2>2
<1>5. IdWord(p) \in U16 /\ SeqWord(p) \in U16
  BY <1>4, IsWord
<1> QED BY <1>2, <1>5 DEF DataLengths

LEMMA PrimaryIs ==
  ASSUME NEW p, WellTyped(p)
  PROVE  IsPrimary(EncodePrimary(p), p)
<1> DEFINE id == IdWord(p)
           sq == SeqWord(p)
           h == EncodePrimary(p)
           bi == Be16(id)  bs == Be16(sq)  bl == Be16(p.length)
           ab == bi \o bs
<1>1. id \in U16 /\ sq \in U16 /\ p.length \in U16
  BY WordsFit
<1>2. h = ab \o bl
  BY DEF EncodePrimary, IdWord, SeqWord
<1>3. IsPrimary(h, p) <=>
        /\ h \in Seq(Byte) /\ Len(h) = 6
        /\ h[1] = HighByte(id) /\ h[2] = LowByte(id)
        /\ h[3] = HighByte(sq) /\ h[4] = LowByte(sq)
        /\ h[5] = HighByte(p.length) /\ h[6] = LowByte(p.length)
  BY DEF IsPrimary
<1> HIDE DEF id, sq, h
<1>4. /\ bi \in Seq(Byte) /\ Len(bi) = 2 /\ bi[1] = HighByte(id) /\ bi[2] = LowByte(id)
      /\ bs \in Seq(Byte) /\ Len(bs) = 2 /\ bs[1] = HighByte(sq) /\ bs[2] = LowByte(sq)
      /\ bl \in Seq(Byte) /\ Len(bl) = 2
      /\ bl[1] = HighByte(p.length) /\ bl[2] = LowByte(p.length)
  BY Zenon, <1>1, Be16Is
<1> HIDE DEF bi, bs, bl
<1>5. Joins(ab, bi, 2, bs, 2)
  BY Zenon, <1>4, Joined
<1> HIDE DEF ab
<1>6. ab \in Seq(Byte) /\ Len(ab) = 4
  BY <1>5 DEF Joins
<1>7. Joins(h, ab, 4, bl, 2)
  BY Zenon, <1>2, <1>4, <1>6, Joined
<1>8. /\ h \in Seq(Byte) /\ Len(h) = 6 /\ h[1] = bi[1] /\ h[2] = bi[2]
      /\ h[3] = bs[1] /\ h[4] = bs[2] /\ h[5] = bl[1] /\ h[6] = bl[2]
  BY <1>5, <1>7 DEF Joins
<1>9. IsPrimary(h, p)
  BY Zenon, <1>3, <1>4, <1>8
<1> QED BY Zenon, <1>9 DEF h

LEMMA CucIs ==
  ASSUME NEW t \in CucTimes
  PROVE  IsCuc(EncodeCuc(t), t)
<1> DEFINE h == EncodeCuc(t)
           z == <<PField>>
           bh == Be16(t.hi)  bl == Be16(t.lo)  bf == Be16(t.fine)
           zh == z \o bh
           zl == zh \o bl
<1>1. t.hi \in U16 /\ t.lo \in U16 /\ t.fine \in U16
  BY DEF CucTimes
<1>2. h = zl \o bf
  BY DEF EncodeCuc
<1>3. z \in Seq(Byte) /\ Len(z) = 1 /\ z[1] = PField
  BY DEF PField, Byte
<1>4. /\ bh \in Seq(Byte) /\ Len(bh) = 2 /\ bh[1] = HighByte(t.hi) /\ bh[2] = LowByte(t.hi)
      /\ bl \in Seq(Byte) /\ Len(bl) = 2 /\ bl[1] = HighByte(t.lo) /\ bl[2] = LowByte(t.lo)
      /\ bf \in Seq(Byte) /\ Len(bf) = 2
      /\ bf[1] = HighByte(t.fine) /\ bf[2] = LowByte(t.fine)
  BY Zenon, <1>1, Be16Is
<1> HIDE DEF z, bh, bl, bf, h
<1>5. Joins(zh, z, 1, bh, 2)
  BY Zenon, <1>3, <1>4, Joined
<1> HIDE DEF zh
<1>6. zh \in Seq(Byte) /\ Len(zh) = 3
  BY <1>5 DEF Joins
<1>7. Joins(zl, zh, 3, bl, 2)
  BY Zenon, <1>4, <1>6, Joined
<1> HIDE DEF zl
<1>8. zl \in Seq(Byte) /\ Len(zl) = 5
  BY <1>7 DEF Joins
<1>9. Joins(h, zl, 5, bf, 2)
  BY Zenon, <1>2, <1>4, <1>8, Joined
<1>10. /\ h \in Seq(Byte) /\ Len(h) = 7 /\ h[1] = z[1]
       /\ h[2] = bh[1] /\ h[3] = bh[2] /\ h[4] = bl[1] /\ h[5] = bl[2]
       /\ h[6] = bf[1] /\ h[7] = bf[2]
  BY <1>5, <1>7, <1>9 DEF Joins
<1>11. IsCuc(h, t)
  BY <1>3, <1>4, <1>10 DEF IsCuc
<1> QED BY <1>11 DEF h

LEMMA HeaderIs ==
  ASSUME NEW p, WellTyped(p), p.time \in CucTimes
  PROVE  IsHeader(EncodePrimary(p) \o EncodeSecondary(p), p)
<1> DEFINE a == EncodePrimary(p)
           c == EncodeCuc(p.time)
           f == Be16(p.func)
           i == <<p.instance>>
           cf == c \o f
           b == EncodeSecondary(p)
           h == a \o b
<1>1. p.func \in U16 /\ p.instance \in Byte
  BY DEF WellTyped, FuncCodes, InstanceIds, Byte
<1>2. IsPrimary(a, p) /\ IsCuc(c, p.time)
  BY Zenon, PrimaryIs, CucIs
<1>3. b = cf \o i
  BY DEF EncodeSecondary
<1>4. i \in Seq(Byte) /\ Len(i) = 1 /\ i[1] = p.instance
  BY <1>1
<1>5. f \in Seq(Byte) /\ Len(f) = 2 /\ f[1] = HighByte(p.func) /\ f[2] = LowByte(p.func)
  BY Zenon, <1>1, Be16Is
<1> HIDE DEF a, b, c, f, i
<1>6. a \in Seq(Byte) /\ Len(a) = 6 /\ c \in Seq(Byte) /\ Len(c) = 7
  <2>1. a \in Seq(Byte) /\ Len(a) = 6
    BY Zenon, <1>2 DEF IsPrimary
  <2>2. c \in Seq(Byte) /\ Len(c) = 7
    BY Zenon, <1>2 DEF IsCuc
  <2> QED BY Zenon, <2>1, <2>2
<1>7. Joins(cf, c, 7, f, 2)
  BY Zenon, <1>5, <1>6, Joined
<1> HIDE DEF cf
<1>8. cf \in Seq(Byte) /\ Len(cf) = 9
  BY <1>7 DEF Joins
<1>9. Joins(b, cf, 9, i, 1)
  BY Zenon, <1>3, <1>4, <1>8, Joined
<1>10. b \in Seq(Byte) /\ Len(b) = 10
  BY <1>9 DEF Joins
<1>11. Joins(h, a, 6, b, 10)
  BY Zenon, <1>6, <1>10, Joined
<1> HIDE DEF h
<1>12. /\ h \in Seq(Byte) /\ Len(h) = 16
       /\ h[1] = a[1] /\ h[2] = a[2] /\ h[3] = a[3] /\ h[4] = a[4]
       /\ h[5] = a[5] /\ h[6] = a[6]
  BY <1>11 DEF Joins
<1>13. /\ b[1] = c[1] /\ b[2] = c[2] /\ b[3] = c[3] /\ b[4] = c[4]
       /\ b[5] = c[5] /\ b[6] = c[6] /\ b[7] = c[7]
       /\ b[8] = f[1] /\ b[9] = f[2] /\ b[10] = i[1]
  BY <1>7, <1>9 DEF Joins
<1>14. /\ h[7] = b[1] /\ h[8] = b[2] /\ h[9] = b[3] /\ h[10] = b[4] /\ h[11] = b[5]
       /\ h[12] = b[6] /\ h[13] = b[7] /\ h[14] = b[8] /\ h[15] = b[9] /\ h[16] = b[10]
  BY <1>11 DEF Joins
<1>15. IsHeader(h, p)
  <2>1. /\ h[1] = HighByte(IdWord(p))
        /\ h[2] = LowByte(IdWord(p))
        /\ h[3] = HighByte(SeqWord(p)) /\ h[4] = LowByte(SeqWord(p))
        /\ h[5] = HighByte(p.length) /\ h[6] = LowByte(p.length)
    BY Zenon, <1>2, <1>12 DEF IsPrimary
  <2>2. /\ h[7] = PField
        /\ h[8] = HighByte(p.time.hi) /\ h[9] = LowByte(p.time.hi)
        /\ h[10] = HighByte(p.time.lo) /\ h[11] = LowByte(p.time.lo)
        /\ h[12] = HighByte(p.time.fine) /\ h[13] = LowByte(p.time.fine)
    <3>1. /\ c[1] = PField
          /\ c[2] = HighByte(p.time.hi) /\ c[3] = LowByte(p.time.hi)
          /\ c[4] = HighByte(p.time.lo) /\ c[5] = LowByte(p.time.lo)
          /\ c[6] = HighByte(p.time.fine) /\ c[7] = LowByte(p.time.fine)
      BY Zenon, <1>2 DEF IsCuc
    <3> QED BY Zenon, <3>1, <1>13, <1>14
  <2>3. h[14] = HighByte(p.func) /\ h[15] = LowByte(p.func) /\ h[16] = p.instance
    BY Zenon, <1>4, <1>5, <1>13, <1>14
  <2> QED BY Zenon, <1>12, <2>1, <2>2, <2>3 DEF IsHeader, HeaderBytes
<1> QED BY <1>15 DEF h, a, b

\* What is read in a header: the union of what the two decoders return
ReadIn(h) ==
  [type |-> IF (h[1] \div 16) % 2 = 1 THEN "TC" ELSE "TM",
   apid |-> 256 * (h[1] % 8) + h[2], seq |-> 256 * (h[3] % 64) + h[4],
   length |-> FromBe16(h, 5), time |-> DecodeCuc(h),
   func |-> FromBe16(h, 14), instance |-> h[16]]

LEMMA ParsedIs ==
  ASSUME NEW buf
  PROVE  Parsed(buf) = ReadIn(buf.head)
<1> DEFINE h == buf.head
           p == DecodePrimary(h)
           s == DecodeSecondary(h)
           r == ReadIn(h)
           fields == {"type", "apid", "seq", "length", "time", "func", "instance"}
<1>1. /\ DOMAIN p = {"type", "apid", "seq", "length"}
      /\ DOMAIN s = {"time", "func", "instance"}
  BY DEF DecodePrimary, DecodeSecondary
<1>2. Parsed(buf) = [f \in DOMAIN p \cup DOMAIN s |-> IF f \in DOMAIN p THEN p[f] ELSE s[f]]
  BY DEF Parsed
<1>3. /\ p.type = r.type /\ p.apid = r.apid /\ p.seq = r.seq /\ p.length = r.length
      /\ s.time = r.time /\ s.func = r.func /\ s.instance = r.instance
  BY DEF DecodePrimary, DecodeSecondary, ReadIn
<1>4. r = [f \in fields |-> r[f]]
  BY DEF ReadIn
<1> HIDE DEF p, s, r
<1>5. DOMAIN p \cup DOMAIN s = fields
  BY <1>1
<1>6. \A f \in fields : (IF f \in DOMAIN p THEN p[f] ELSE s[f]) = r[f]
  BY <1>1, <1>3
<1>7. Parsed(buf) = [f \in fields |-> r[f]]
  BY Zenon, <1>2, <1>5, <1>6
<1> QED BY <1>4, <1>7 DEF r

LEMMA IdBytes ==
  ASSUME NEW p, WellTyped(p), NEW b, NEW c,
         b = HighByte(IdWord(p)), c = LowByte(IdWord(p))
  PROVE  /\ TopNibble(b) = 1 /\ (b \div 16) % 2 = TypeBit(p.type)
         /\ 256 * (b % 8) + c = p.apid
<1> DEFINE tb == TypeBit(p.type)  ap == p.apid  q == ap \div 256
<1>1. tb \in {0, 1}
  BY DEF TypeBit
<1>2. ap \in Nat /\ ap <= 2047
  <2>1. ap \in Apids
    BY Zenon DEF WellTyped
  <2> HIDE DEF ap
  <2>2. ap \in Nat /\ ap <= MaxApid
    BY Zenon, <2>1, CountIs
  <2> QED BY <2>2, MaxIs
<1>3. b = (2048 + 4096 * tb + ap) \div 256 /\ c = (2048 + 4096 * tb + ap) % 256
  BY DEF IdWord, HighByte, LowByte
<1> HIDE DEF tb, ap
<1>4. b = 8 + 16 * tb + (ap \div 256) /\ c = ap % 256 /\ ap \div 256 <= 7
  BY <1>1, <1>2, <1>3
<1>5. ap = 256 * (ap \div 256) + (ap % 256) /\ ap \div 256 \in Nat
  BY <1>2
<1>6. q \in Nat /\ q <= 7 /\ b = 8 + 16 * tb + q /\ ap = 256 * q + c
  BY <1>4, <1>5
<1> HIDE DEF q
<1>7. b % 8 = q /\ (b \div 16) % 2 = tb /\ b \div 32 = 0 /\ (b \div 8) % 2 = 1
  BY <1>1, <1>6
<1> QED BY <1>6, <1>7 DEF TopNibble, tb, ap

LEMMA IdOfBytes ==
  ASSUME NEW b \in Byte, NEW c \in Byte, TopNibble(b) = 1,
         NEW tb, tb = (b \div 16) % 2, NEW ap, ap = 256 * (b % 8) + c
  PROVE  /\ tb \in {0, 1} /\ ap \in Nat /\ ap <= 2047
         /\ 2048 + 4096 * tb + ap = WordOf(b, c)
<1>1. b \in Nat /\ b < 256 /\ c \in Nat /\ c < 256
  BY ByteIs
<1>2. 2 * (b \div 32) + ((b \div 8) % 2) = 1
  BY DEF TopNibble
<1>3. b = 8 + 16 * tb + (b % 8) /\ tb \in {0, 1}
  BY <1>1, <1>2
<1>4. b % 8 \in Nat /\ b % 8 < 8
  BY <1>1
<1> DEFINE q == b % 8
<1>5. q \in Nat /\ q < 8 /\ b = 8 + 16 * tb + q /\ ap = 256 * q + c
  BY <1>3, <1>4
<1> HIDE DEF q
<1> QED BY <1>1, <1>3, <1>5 DEF WordOf

LEMMA SeqBytes ==
  ASSUME NEW p, WellTyped(p), NEW b, NEW c,
         b = HighByte(SeqWord(p)), c = LowByte(SeqWord(p))
  PROVE  b \div 64 = 3 /\ 256 * (b % 64) + c = p.seq
<1> DEFINE sc == p.seq  q == sc \div 256
<1>1. sc \in Nat /\ sc <= 16383
  <2>1. sc \in SequenceCounts
    BY Zenon DEF WellTyped
  <2> HIDE DEF sc
  <2>2. sc \in Nat /\ sc <= MaxCount
    BY Zenon, <2>1, CountIs
  <2> QED BY <2>2, MaxIs
<1>2. b = (49152 + sc) \div 256 /\ c = (49152 + sc) % 256
  BY DEF SeqWord, HighByte, LowByte
<1> HIDE DEF sc
<1>3. b = 192 + (sc \div 256) /\ c = sc % 256 /\ sc \div 256 <= 63
  BY <1>1, <1>2
<1>4. sc = 256 * (sc \div 256) + (sc % 256) /\ sc \div 256 \in Nat
  BY <1>1
<1>5. q \in Nat /\ q <= 63 /\ b = 192 + q /\ sc = 256 * q + c
  BY <1>3, <1>4
<1> HIDE DEF q
<1>6. b \div 64 = 3 /\ 256 * (b % 64) + c = sc
  BY <1>5
<1> QED BY <1>6 DEF sc

LEMMA SeqOfBytes ==
  ASSUME NEW b \in Byte, NEW c \in Byte, b \div 64 = 3,
         NEW sc, sc = 256 * (b % 64) + c
  PROVE  sc \in Nat /\ sc <= 16383 /\ 49152 + sc = WordOf(b, c)
<1>1. b \in Nat /\ b < 256 /\ c \in Nat /\ c < 256
  BY ByteIs
<1>2. b = 192 + (b % 64) /\ b % 64 \in Nat /\ b % 64 < 64
  BY <1>1
<1> DEFINE q == b % 64
<1>3. q \in Nat /\ q < 64 /\ b = 192 + q /\ sc = 256 * q + c
  BY <1>2
<1> HIDE DEF q
<1> QED BY <1>1, <1>3 DEF WordOf

LEMMA WordOfBytes ==
  ASSUME NEW b \in Byte, NEW c \in Byte, NEW n, n = WordOf(b, c)
  PROVE  n \in U16 /\ HighByte(n) = b /\ LowByte(n) = c
<1>1. b \in Nat /\ b < 256 /\ c \in Nat /\ c < 256
  BY ByteIs
<1>2. n \in Nat /\ n <= 65535 /\ n \div 256 = b /\ n % 256 = c
  BY <1>1 DEF WordOf
<1> QED BY <1>2, IsWord DEF HighByte, LowByte

LEMMA BytesOfWord ==
  ASSUME NEW n \in U16
  PROVE  WordOf(HighByte(n), LowByte(n)) = n
<1>1. n \in Nat /\ n < 65536
  BY WordIs
<1>2. n = 256 * (n \div 256) + (n % 256)
  BY <1>1, DivByte
<1> QED BY <1>2 DEF WordOf, HighByte, LowByte

LEMMA ReadBack ==
  ASSUME NEW p, WellTyped(p), p.time \in CucTimes, NEW h, IsHeader(h, p)
  PROVE  /\ ReadIn(h) = [type |-> p.type, apid |-> p.apid, seq |-> p.seq,
                         length |-> p.length, time |-> p.time, func |-> p.func,
                         instance |-> p.instance]
         /\ PrimaryRefusal(h) = "none" /\ SecondaryRefusal(h) = "none"
<1> DEFINE tb == TypeBit(p.type)  r == ReadIn(h)
           wf == p.func  wn == p.length  th == p.time.hi  tl == p.time.lo  tf == p.time.fine
<1>1. h \in Seq(Byte) /\ Len(h) = 16 /\ \A i \in 1..16 : h[i] \in Byte
  <2>1. h \in Seq(Byte) /\ Len(h) = 16
    BY Zenon DEF IsHeader
  <2> QED BY Zenon, <2>1, BytesAre
<1>2. /\ tb \in {0, 1} /\ p.type = (IF tb = 1 THEN "TC" ELSE "TM")
  <2>1. p.type \in PacketTypes /\ p.apid \in Apids /\ p.seq \in SequenceCounts
    BY Zenon DEF WellTyped
  <2>3. tb \in {0, 1} /\ p.type = (IF tb = 1 THEN "TC" ELSE "TM")
    BY <2>1 DEF PacketTypes, TypeBit
  <2> QED BY Zenon, <2>3
<1>3. /\ wn \in U16 /\ wf \in U16 /\ wf # 0 /\ p.instance \in Byte /\ p.instance # 0
      /\ th \in U16 /\ tl \in U16 /\ tf \in U16
  <2>1. p.length \in DataLengths /\ p.func \in FuncCodes /\ p.instance \in InstanceIds
    BY Zenon DEF WellTyped
  <2>2. th \in U16 /\ tl \in U16 /\ tf \in U16
    BY DEF CucTimes
  <2> QED BY <2>1, <2>2 DEF DataLengths, FuncCodes, InstanceIds, Byte
<1>4. /\ h[1] = HighByte(IdWord(p)) /\ h[2] = LowByte(IdWord(p))
      /\ h[3] = HighByte(SeqWord(p)) /\ h[4] = LowByte(SeqWord(p))
      /\ h[5] = HighByte(wn) /\ h[6] = LowByte(wn) /\ h[7] = PField
      /\ h[8] = HighByte(th) /\ h[9] = LowByte(th)
      /\ h[10] = HighByte(tl) /\ h[11] = LowByte(tl)
      /\ h[12] = HighByte(tf) /\ h[13] = LowByte(tf)
      /\ h[14] = HighByte(wf) /\ h[15] = LowByte(wf) /\ h[16] = p.instance
  BY DEF IsHeader, HeaderBytes
<1> HIDE DEF tb, wf, wn, th, tl, tf
<1>6. /\ TopNibble(h[1]) = 1 /\ (h[1] \div 16) % 2 = TypeBit(p.type)
      /\ 256 * (h[1] % 8) + h[2] = p.apid
  BY <1>4, IdBytes
<1>7. h[3] \div 64 = 3 /\ 256 * (h[3] % 64) + h[4] = p.seq
  BY <1>4, SeqBytes
<1>8. /\ FromBe16(h, 5) = wn /\ FromBe16(h, 14) = wf
      /\ FromBe16(h, 8) = th /\ FromBe16(h, 10) = tl /\ FromBe16(h, 12) = tf
  <2>1. WordOf(h[5], h[6]) = wn
    BY Zenon, <1>3, <1>4, BytesOfWord
  <2>2. WordOf(h[14], h[15]) = wf
    BY Zenon, <1>3, <1>4, BytesOfWord
  <2>3. WordOf(h[8], h[9]) = th
    BY Zenon, <1>3, <1>4, BytesOfWord
  <2>4. WordOf(h[10], h[11]) = tl
    BY Zenon, <1>3, <1>4, BytesOfWord
  <2>5. WordOf(h[12], h[13]) = tf
    BY Zenon, <1>3, <1>4, BytesOfWord
  <2> QED BY <2>1, <2>2, <2>3, <2>4, <2>5 DEF FromBe16, WordOf
<1>9. DecodeCuc(h) = p.time
  <2>1. DecodeCuc(h) = [hi |-> th, lo |-> tl, fine |-> tf]
    BY <1>8 DEF DecodeCuc
  <2>2. p.time = [hi |-> p.time.hi, lo |-> p.time.lo, fine |-> p.time.fine]
    BY DEF CucTimes
  <2> QED BY <2>1, <2>2 DEF th, tl, tf
<1>10. PrimaryRefusal(h) = "none"
  BY <1>1, <1>6, <1>7 DEF PrimaryRefusal, PrimaryLen
<1>11. SecondaryRefusal(h) = "none"
  BY <1>3, <1>4, <1>8 DEF SecondaryRefusal, CucRefusal
<1>12. r = [type |-> p.type, apid |-> p.apid, seq |-> p.seq,
            length |-> p.length, time |-> p.time, func |-> p.func,
            instance |-> p.instance]
  BY <1>2, <1>4, <1>6, <1>7, <1>8, <1>9 DEF ReadIn, wf, wn, tb
<1> QED BY <1>10, <1>11, <1>12

\* What is read in a header that is not refused describes that header.
LEMMA Readable ==
  ASSUME NEW h \in Seq(Byte), Len(h) = 16,
         PrimaryRefusal(h) = "none", SecondaryRefusal(h) = "none"
  PROVE  /\ WellTyped(ReadIn(h)) /\ ReadIn(h).time \in CucTimes
         /\ IsHeader(h, ReadIn(h)) /\ FromBe16(h, 1) = IdWord(ReadIn(h))
<1> DEFINE r == ReadIn(h)  tb == TypeBit(r.type)
<1>1. \A i \in 1..16 : h[i] \in Byte
  BY Zenon, BytesAre
<1>2. TopNibble(h[1]) = 1 /\ h[3] \div 64 = 3
  BY DEF PrimaryRefusal, PrimaryLen
<1>3. h[7] = PField /\ FromBe16(h, 14) # 0 /\ h[16] # 0
  BY DEF SecondaryRefusal, CucRefusal
<1>4. /\ r.apid = 256 * (h[1] % 8) + h[2] /\ r.seq = 256 * (h[3] % 64) + h[4]
      /\ r.length = WordOf(h[5], h[6]) /\ r.func = WordOf(h[14], h[15])
      /\ r.instance = h[16] /\ r.func # 0
      /\ r.time = DecodeCuc(h) /\ r.time.hi = WordOf(h[8], h[9])
      /\ r.time.lo = WordOf(h[10], h[11]) /\ r.time.fine = WordOf(h[12], h[13])
  BY <1>3 DEF ReadIn, FromBe16, DecodeCuc, WordOf
<1>5. r.type \in PacketTypes /\ tb = (h[1] \div 16) % 2
  <2>1. r.type = (IF (h[1] \div 16) % 2 = 1 THEN "TC" ELSE "TM")
    BY DEF ReadIn
  <2>2. h[1] \in Byte
    BY <1>1
  <2>3. (h[1] \div 16) % 2 \in {0, 1}
    <3>1. h[1] \in Nat
      BY <2>2, ByteIs
    <3> QED BY <3>1
  <2> QED BY <2>1, <2>3 DEF TypeBit, PacketTypes
<1>6. FromBe16(h, 1) = WordOf(h[1], h[2])
  BY DEF FromBe16, WordOf
<1>7. IdWord(r) = 2048 + 4096 * tb + r.apid /\ SeqWord(r) = 49152 + r.seq
  BY DEF IdWord, SeqWord
<1> HIDE DEF r, tb
<1>8. /\ r.apid \in Nat /\ r.apid <= 2047 /\ IdWord(r) = WordOf(h[1], h[2])
  BY SMTT(40), <1>1, <1>2, <1>4, <1>5, <1>7, IdOfBytes
<1>9. /\ r.seq \in Nat /\ r.seq <= 16383 /\ SeqWord(r) = WordOf(h[3], h[4])
  BY <1>1, <1>2, <1>4, <1>7, SeqOfBytes
<1>10. /\ HighByte(IdWord(r)) = h[1] /\ LowByte(IdWord(r)) = h[2]
       /\ HighByte(SeqWord(r)) = h[3] /\ LowByte(SeqWord(r)) = h[4]
  BY <1>1, <1>8, <1>9, WordOfBytes
<1>11. /\ r.length \in U16 /\ HighByte(r.length) = h[5] /\ LowByte(r.length) = h[6]
       /\ r.func \in U16 /\ HighByte(r.func) = h[14] /\ LowByte(r.func) = h[15]
  BY <1>1, <1>4, WordOfBytes
<1>12. /\ r.time.hi \in U16 /\ HighByte(r.time.hi) = h[8] /\ LowByte(r.time.hi) = h[9]
       /\ r.time.lo \in U16 /\ HighByte(r.time.lo) = h[10] /\ LowByte(r.time.lo) = h[11]
       /\ r.time.fine \in U16 /\ HighByte(r.time.fine) = h[12] /\ LowByte(r.time.fine) = h[13]
  BY <1>1, <1>4, WordOfBytes
<1>13. WellTyped(r)
  <2>1. r.apid \in Apids
    BY <1>8, IsCount
  <2>2. r.seq \in SequenceCounts
    BY <1>9, IsCount
  <2>3. r.length \in DataLengths /\ r.func \in FuncCodes
    BY <1>4, <1>11 DEF DataLengths, FuncCodes
  <2>4. r.instance \in InstanceIds
    <3>1. h[16] \in Byte
      BY <1>1
    <3> QED BY <1>3, <1>4, <3>1 DEF Byte, InstanceIds
  <2> QED BY Zenon, <1>5, <2>1, <2>2, <2>3, <2>4 DEF WellTyped
<1>14. r.time \in CucTimes
  BY <1>4, <1>12 DEF DecodeCuc, CucTimes
<1>15. IsHeader(h, r)
  BY Zenon, <1>3, <1>4, <1>10, <1>11, <1>12 DEF IsHeader, HeaderBytes
<1> QED BY <1>6, <1>8, <1>13, <1>14, <1>15 DEF r

\* The bytes determine the header.
LEMMA HeaderUnique ==
  ASSUME NEW p, NEW h, NEW g, IsHeader(h, p), IsHeader(g, p)
  PROVE  h = g
<1>1. /\ h \in Seq(Byte) /\ Len(h) = 16 /\ g \in Seq(Byte) /\ Len(g) = 16
      /\ h[1] = g[1] /\ h[2] = g[2] /\ h[3] = g[3] /\ h[4] = g[4]
      /\ h[5] = g[5] /\ h[6] = g[6] /\ h[7] = g[7] /\ h[8] = g[8]
      /\ h[9] = g[9] /\ h[10] = g[10] /\ h[11] = g[11] /\ h[12] = g[12]
      /\ h[13] = g[13] /\ h[14] = g[14] /\ h[15] = g[15] /\ h[16] = g[16]
  BY Zenon DEF IsHeader, HeaderBytes
<1>2. \A i \in 1..16 : h[i] = g[i]
  <2> SUFFICES ASSUME NEW i \in 1..16 PROVE h[i] = g[i]
    OBVIOUS
  <2>1. \/ i = 1 \/ i = 2 \/ i = 3 \/ i = 4 \/ i = 5 \/ i = 6 \/ i = 7 \/ i = 8
        \/ i = 9 \/ i = 10 \/ i = 11 \/ i = 12 \/ i = 13 \/ i = 14 \/ i = 15 \/ i = 16
    OBVIOUS
  <2> QED BY Zenon, <1>1, <2>1
<1> QED BY <1>1, <1>2

LEMMA BitWeight ==
  ASSUME NEW j \in 1..8
  PROVE  \/ (j = 1 /\ Weights[j] = 128) \/ (j = 2 /\ Weights[j] = 64)
         \/ (j = 3 /\ Weights[j] = 32) \/ (j = 4 /\ Weights[j] = 16)
         \/ (j = 5 /\ Weights[j] = 8) \/ (j = 6 /\ Weights[j] = 4)
         \/ (j = 7 /\ Weights[j] = 2) \/ (j = 8 /\ Weights[j] = 1)
BY DEF Weights

\* Another byte, and zero when the bit was the only one of b
OtherByte(f, b, w) == f \in Byte /\ f # b /\ (f = 0 <=> b = w)

LEMMA FlipByte ==
  ASSUME NEW b \in Byte, NEW j \in 1..8
  PROVE  OtherByte(Flipped(b, Weights[j]), b, Weights[j])
<1> DEFINE w == Weights[j]  f == Flipped(b, w)
<1>1. b \in Nat /\ b < 256
  BY ByteIs
<1>2. f = IF (b \div w) % 2 = 1 THEN b - w ELSE b + w
  BY DEF Flipped
<1>3. w = 128 \/ w = 64 \/ w = 32 \/ w = 16 \/ w = 8 \/ w = 4 \/ w = 2 \/ w = 1
  BY BitWeight
<1> HIDE DEF w, f
<1>4. f \in Nat /\ f < 256 /\ f # b /\ (f = 0 <=> b = w)
  <2>1. CASE w = 128 BY <1>1, <1>2, <2>1
  <2>2. CASE w = 64 BY <1>1, <1>2, <2>2
  <2>3. CASE w = 32 BY <1>1, <1>2, <2>3
  <2>4. CASE w = 16 BY <1>1, <1>2, <2>4
  <2>5. CASE w = 8 BY <1>1, <1>2, <2>5
  <2>6. CASE w = 4 BY <1>1, <1>2, <2>6
  <2>7. CASE w = 2 BY <1>1, <1>2, <2>7
  <2>8. CASE w = 1 BY <1>1, <1>2, <2>8
  <2> QED BY <1>3, <2>1, <2>2, <2>3, <2>4, <2>5, <2>6, <2>7, <2>8
<1> QED BY <1>4 DEF Byte, OtherByte, w, f

\* The first byte: version, type, secondary header flag, and the top of the APID
LEMMA FlipFirst ==
  ASSUME NEW b \in Byte, TopNibble(b) = 1, NEW j \in 1..8,
         NEW f, f = Flipped(b, Weights[j])
  PROVE  /\ TopNibble(f) = 1 <=> j \notin {1, 2, 3, 5}
         /\ j = 4 => (f \div 16) % 2 # (b \div 16) % 2 /\ f % 8 = b % 8
         /\ j \in {6, 7, 8} => (f \div 16) % 2 = (b \div 16) % 2 /\ f % 8 # b % 8
<1> DEFINE w == Weights[j]  t == (b \div 16) % 2  q == b % 8
<1>1. b \in Nat /\ b < 256
  BY ByteIs
<1>2. 2 * (b \div 32) + ((b \div 8) % 2) = 1
  BY DEF TopNibble
<1>3. b = 8 + 16 * t + q /\ t \in {0, 1} /\ q \in 0..7
  BY <1>1, <1>2
<1>4. f = IF (b \div w) % 2 = 1 THEN b - w ELSE b + w
  BY DEF Flipped
<1>5. \/ (j = 1 /\ w = 128) \/ (j = 2 /\ w = 64) \/ (j = 3 /\ w = 32) \/ (j = 4 /\ w = 16)
      \/ (j = 5 /\ w = 8) \/ (j = 6 /\ w = 4) \/ (j = 7 /\ w = 2) \/ (j = 8 /\ w = 1)
  BY BitWeight
<1>6. TopNibble(f) = 2 * (f \div 32) + ((f \div 8) % 2)
  BY DEF TopNibble
<1> DEFINE tf == (f \div 16) % 2  qf == f % 8  top == TopNibble(f)
<1>7. tf = (f \div 16) % 2 /\ qf = f % 8 /\ top = 2 * (f \div 32) + ((f \div 8) % 2)
  BY <1>6
<1> HIDE DEF w, t, q, tf, qf, top
<1>8. /\ top = 1 <=> j \notin {1, 2, 3, 5}
      /\ j = 4 => tf # t /\ qf = q
      /\ j \in {6, 7, 8} => tf = t /\ qf # q
  <2>1. CASE j = 1 BY <1>3, <1>4, <1>5, <1>7, <2>1
  <2>2. CASE j = 2 BY <1>3, <1>4, <1>5, <1>7, <2>2
  <2>3. CASE j = 3 BY <1>3, <1>4, <1>5, <1>7, <2>3
  <2>4. CASE j = 4 BY <1>3, <1>4, <1>5, <1>7, <2>4
  <2>5. CASE j = 5 BY <1>3, <1>4, <1>5, <1>7, <2>5
  <2>6. CASE j = 6 BY <1>3, <1>4, <1>5, <1>7, <2>6
  <2>7. CASE j = 7 BY <1>3, <1>4, <1>5, <1>7, <2>7
  <2>8. CASE j = 8 BY <1>3, <1>4, <1>5, <1>7, <2>8
  <2> QED BY <1>5, <2>1, <2>2, <2>3, <2>4, <2>5, <2>6, <2>7, <2>8
<1> QED BY <1>8 DEF t, q, tf, qf, top

\* The third byte: the sequence flags and the top of the sequence count
LEMMA FlipThird ==
  ASSUME NEW b \in Byte, b \div 64 = 3, NEW j \in 1..8,
         NEW f, f = Flipped(b, Weights[j])
  PROVE  (f \div 64 = 3 <=> j \notin {1, 2}) /\ (j \notin {1, 2} => f % 64 # b % 64)
<1> DEFINE w == Weights[j]  q == b % 64
<1>1. b \in Nat /\ b < 256
  BY ByteIs
<1>2. b = 192 + q /\ q \in 0..63
  BY <1>1
<1>3. f = IF (b \div w) % 2 = 1 THEN b - w ELSE b + w
  BY DEF Flipped
<1>4. \/ (j = 1 /\ w = 128) \/ (j = 2 /\ w = 64) \/ (j = 3 /\ w = 32) \/ (j = 4 /\ w = 16)
      \/ (j = 5 /\ w = 8) \/ (j = 6 /\ w = 4) \/ (j = 7 /\ w = 2) \/ (j = 8 /\ w = 1)
  BY BitWeight
<1> HIDE DEF w, q
<1>5. (f \div 64 = 3 <=> j \notin {1, 2}) /\ (j \notin {1, 2} => f % 64 # q)
  <2>1. CASE j = 1 BY <1>2, <1>3, <1>4, <2>1
  <2>2. CASE j = 2 BY <1>2, <1>3, <1>4, <2>2
  <2>3. CASE j = 3 BY <1>2, <1>3, <1>4, <2>3
  <2>4. CASE j = 4 BY <1>2, <1>3, <1>4, <2>4
  <2>5. CASE j = 5 BY <1>2, <1>3, <1>4, <2>5
  <2>6. CASE j = 6 BY <1>2, <1>3, <1>4, <2>6
  <2>7. CASE j = 7 BY <1>2, <1>3, <1>4, <2>7
  <2>8. CASE j = 8 BY <1>2, <1>3, <1>4, <2>8
  <2> QED BY <1>4, <2>1, <2>2, <2>3, <2>4, <2>5, <2>6, <2>7, <2>8
<1> QED BY <1>5 DEF q

-----------------------------------------------------------------------------
DraftType ==
  [type : PacketTypes, apid : Apids, seq : SequenceCounts \cup {Unset},
   func : FuncCodes \cup {Unset}, instance : InstanceIds \cup {Unset},
   time : CucTimes, data : Nat]

\* What parse asks of a header in front of n bytes
Parses(h, n) ==
  /\ TopNibble(h[1]) = 1 /\ h[3] \div 64 = 3 /\ h[7] = PField
  /\ WordOf(h[14], h[15]) # 0 /\ h[16] # 0
  /\ WordOf(h[5], h[6]) = 9 + n

LEMMA ParsesIff ==
  ASSUME NEW buf, buf.head \in Seq(Byte), Len(buf.head) = 16, buf.data \in Nat
  PROVE  ParseRefusal(buf) = "none" <=> Parses(buf.head, buf.data)
<1> DEFINE h == buf.head  n == buf.data
<1>1. PrimaryRefusal(h) = "none" <=> TopNibble(h[1]) = 1 /\ h[3] \div 64 = 3
  BY DEF PrimaryRefusal, PrimaryLen
<1>2. SecondaryRefusal(h) = "none" <=>
        h[7] = PField /\ WordOf(h[14], h[15]) # 0 /\ h[16] # 0
  BY DEF SecondaryRefusal, CucRefusal, FromBe16, WordOf
<1>3. DecodePrimary(h).length = WordOf(h[5], h[6])
  BY DEF DecodePrimary, FromBe16, WordOf
<1>4. WordOf(h[5], h[6]) \in Nat
  <2>1. h[5] \in Byte /\ h[6] \in Byte
    BY BytesAre
  <2>2. h[5] \in Nat /\ h[6] \in Nat
    BY <2>1, ByteIs
  <2> QED BY <2>2 DEF WordOf
<1>5. ParseRefusal(buf) = "none" <=>
        /\ PrimaryRefusal(h) = "none" /\ SecondaryRefusal(h) = "none"
        /\ DecodePrimary(h).length + 7 = 16 + n
  BY DEF ParseRefusal, HeaderLen
<1> HIDE DEF h, n
<1>6. DecodePrimary(h).length + 7 = 16 + n <=> WordOf(h[5], h[6]) = 9 + n
  BY <1>3, <1>4 DEF n
<1> QED BY Zenon, <1>1, <1>2, <1>5, <1>6 DEF Parses, h, n

\* A packet that is built is not refused, and what is read in it is what the
\* draft described.
LEMMA BuiltIs ==
  ASSUME NEW d \in DraftType, BuildRefusal(d) = "none"
  PROVE  /\ WellTyped(Described(d)) /\ Described(d).time \in CucTimes
         /\ IsHeader(Built(d).head, Described(d)) /\ Built(d).data = d.data
         /\ ReadIn(Built(d).head) = Described(d)
         /\ Parses(Built(d).head, d.data)
<1> DEFINE p == Described(d)  h == Built(d).head
<1>1. /\ d.func # Unset /\ d.instance # Unset /\ RawLength(d.data) \in DataLengths
  BY DEF BuildRefusal
<1>2. /\ p.type = d.type /\ p.apid = d.apid /\ p.length = RawLength(d.data)
      /\ p.seq = (IF d.seq = Unset THEN 0 ELSE d.seq)
      /\ p.func = d.func /\ p.instance = d.instance /\ p.time = d.time
  BY DEF Described
<1>3. p = [type |-> p.type, apid |-> p.apid, seq |-> p.seq,
           length |-> p.length, time |-> p.time, func |-> p.func,
           instance |-> p.instance]
  BY DEF Described
<1>4. h = EncodePrimary(p) \o EncodeSecondary(p) /\ Built(d).data = d.data
  BY DEF Built
<1> HIDE DEF p, h
<1>5. /\ d.type \in PacketTypes /\ d.apid \in Apids /\ d.time \in CucTimes
      /\ d.seq \in SequenceCounts \cup {Unset}
      /\ d.func \in FuncCodes \cup {Unset} /\ d.instance \in InstanceIds \cup {Unset}
      /\ d.data \in Nat
  BY DEF DraftType
<1>6. 0 \in SequenceCounts
  BY IsCount
<1>7. WellTyped(p) /\ p.time \in CucTimes
  <2>1. p.seq \in SequenceCounts
    BY <1>2, <1>5, <1>6
  <2>2. p.func \in FuncCodes /\ p.instance \in InstanceIds
    BY Zenon, <1>1, <1>2, <1>5
  <2> QED BY Zenon, <1>1, <1>2, <1>5, <2>1, <2>2 DEF WellTyped
<1>8. IsHeader(h, p)
  BY Zenon, <1>4, <1>7, HeaderIs
<1>9. ReadIn(h) = p /\ PrimaryRefusal(h) = "none" /\ SecondaryRefusal(h) = "none"
  BY Zenon, <1>3, <1>7, <1>8, ReadBack
<1>10. WordOf(h[5], h[6]) = 9 + d.data
  <2>1. ReadIn(h).length = WordOf(h[5], h[6])
    BY DEF ReadIn, FromBe16, WordOf
  <2> QED BY <1>2, <1>9, <2>1 DEF RawLength
<1>11. Parses(h, d.data)
  <2>1. Len(h) = 16
    BY Zenon, <1>8 DEF IsHeader
  <2>2. TopNibble(h[1]) = 1 /\ h[3] \div 64 = 3
    BY <1>9 DEF PrimaryRefusal
  <2>3. h[7] = PField /\ WordOf(h[14], h[15]) # 0 /\ h[16] # 0
    BY <1>9 DEF SecondaryRefusal, CucRefusal, FromBe16, WordOf
  <2> QED BY Zenon, <1>10, <2>2, <2>3 DEF Parses
<1> QED BY Zenon, <1>4, <1>7, <1>8, <1>9, <1>11 DEF p, h

\* The id of the bus: type bit and APID
MidWord(t, a) == 2048 + 4096 * t + a

LEMMA MidBits ==
  ASSUME NEW t \in {0, 1}, NEW a \in Apids
  PROVE  MidApid(MidWord(t, a)) = a /\ (MidIsCommand(MidWord(t, a)) <=> t = 1)
<1> DEFINE m == MidWord(t, a)
<1>a. m = 2048 + 4096 * t + a /\ a \in Nat /\ a <= 2047
  BY CountIs, MaxIs DEF MidWord
<1> HIDE DEF m
<1>1. MidApid(m) = a /\ (MidIsCommand(m) <=> t = 1)
  <2>1. CASE t = 0
    <3>1. m = 2048 + a
      BY <2>1, <1>a
    <3>2. m % 2048 = a
      BY <3>1, <1>a
    <3>3. m \div 4096 = 0
      BY <3>1, <1>a
    <3> QED BY <2>1, <3>2, <3>3 DEF MidApid, MidIsCommand
  <2>2. CASE t = 1
    <3>1. m = 6144 + a
      BY <2>2, <1>a
    <3>2. m % 2048 = a
      BY <3>1, <1>a
    <3>3. m \div 4096 = 1
      BY <3>1, <1>a
    <3> QED BY <2>2, <3>2, <3>3 DEF MidApid, MidIsCommand
  <2> QED BY <2>1, <2>2
<1> QED BY <1>1 DEF m

\* What parse takes is well typed and comes back byte for byte when it is built
\* once more, and its id on the bus is its first word.
LEMMA RebuiltIs ==
  ASSUME NEW buf \in [head : Seq(Byte), data : Nat], Len(buf.head) = 16,
         Parses(buf.head, buf.data)
  PROVE  /\ WellTyped(Parsed(buf)) /\ FromCMessage(buf) = buf
         /\ MsgId(buf) = FromBe16(buf.head, 1)
         /\ MidApid(MsgId(buf)) = Parsed(buf).apid
         /\ MidIsCommand(MsgId(buf)) <=> Parsed(buf).type = "TC"
<1> DEFINE h == buf.head  p == Parsed(buf)
           d == [EmptyDraft(p.type, p.apid) EXCEPT
                   !.func = p.func, !.instance = p.instance, !.time = p.time,
                   !.seq = p.seq, !.data = buf.data]
<1>1. p = ReadIn(h)
  BY Zenon, ParsedIs
<1>2. h \in Seq(Byte) /\ Len(h) = 16 /\ buf.data \in Nat
  OBVIOUS
<1>3. PrimaryRefusal(h) = "none" /\ SecondaryRefusal(h) = "none"
  BY <1>2 DEF Parses, PrimaryRefusal, PrimaryLen, SecondaryRefusal, CucRefusal,
              FromBe16, WordOf
<1>4. /\ WellTyped(p) /\ p.time \in CucTimes /\ IsHeader(h, p)
      /\ FromBe16(h, 1) = IdWord(p)
  BY Zenon, <1>1, <1>2, <1>3, Readable
<1>5. FromCMessage(buf) = Built(d)
  BY DEF FromCMessage
<1>6. /\ d.type = p.type /\ d.apid = p.apid /\ d.seq = p.seq /\ d.func = p.func
      /\ d.instance = p.instance /\ d.time = p.time /\ d.data = buf.data
  BY DEF EmptyDraft
<1>7. p.length = 9 + buf.data
  <2>1. ReadIn(h).length = WordOf(h[5], h[6])
    BY DEF ReadIn, FromBe16, WordOf
  <2> QED BY <1>1, <2>1 DEF Parses
<1> HIDE DEF d, p
<1>8. Described(d) = [type |-> p.type, apid |-> p.apid, seq |-> p.seq,
                      length |-> p.length, time |-> p.time, func |-> p.func,
                      instance |-> p.instance]
  <2>1. p.seq \in SequenceCounts
    BY Zenon, <1>4 DEF WellTyped
  <2>2. p.seq # Unset
    BY <2>1, CountIs DEF Unset
  <2> QED BY <1>6, <1>7, <2>2 DEF Described, RawLength
<1>9. Described(d) = p
  BY <1>1, <1>8 DEF ReadIn
<1>10. Built(d).head = EncodePrimary(p) \o EncodeSecondary(p) /\ Built(d).data = buf.data
  BY <1>6, <1>9 DEF Built
<1>11. Built(d).head = h
  BY Zenon, <1>4, <1>10, HeaderIs, HeaderUnique
<1>12. Built(d) = buf
  <2>1. Built(d) = [head |-> Built(d).head, data |-> Built(d).data]
    BY DEF Built
  <2>2. buf = [head |-> buf.head, data |-> buf.data]
    OBVIOUS
  <2> QED BY <1>10, <1>11, <2>1, <2>2
<1> DEFINE tb == TypeBit(p.type)  ap == p.apid
<1>13. /\ tb \in {0, 1} /\ (tb = 1 <=> p.type = "TC")
       /\ ap \in Apids /\ ap \in Nat /\ ap <= 2047
  <2>1. ap \in Apids
    BY Zenon, <1>4 DEF WellTyped
  <2> HIDE DEF ap
  <2>2. ap \in Nat /\ ap <= MaxApid
    BY Zenon, <2>1, CountIs
  <2>3. tb \in {0, 1} /\ (tb = 1 <=> p.type = "TC")
    BY DEF TypeBit
  <2> QED BY <2>1, <2>2, <2>3, MaxIs
<1>14. MsgId(buf) = 2048 + 4096 * tb + ap /\ IdWord(p) = 2048 + 4096 * tb + ap
  <2>1. MsgId(buf) = (IF p.type = "TC" THEN 6144 ELSE 2048) + p.apid
    BY DEF MsgId, FromApid, p
  <2> QED BY <1>13, <2>1 DEF IdWord
<1> HIDE DEF tb, ap
<1>15. MidApid(MsgId(buf)) = ap /\ (MidIsCommand(MsgId(buf)) <=> tb = 1)
  <2> DEFINE m == MsgId(buf)
  <2>1. m = MidWord(tb, ap)
    BY <1>14 DEF MidWord
  <2> HIDE DEF m
  <2>2. MidApid(m) = ap /\ (MidIsCommand(m) <=> tb = 1)
    <3>1. tb \in {0, 1} /\ ap \in Apids
      BY <1>13
    <3> QED BY Zenon, <2>1, <3>1, MidBits
  <2> QED BY <2>2 DEF m
<1>16. MsgId(buf) = IdWord(p) /\ (tb = 1 <=> p.type = "TC")
  BY <1>13, <1>14
<1> QED BY Zenon, <1>4, <1>5, <1>12, <1>15, <1>16 DEF p, ap

Fields == {"type", "apid", "seq", "length", "time", "func", "instance"}

\* Two packets differ in the field e and in no other.
DifferIn(p, q, e) == p[e] # q[e] /\ \A c \in Fields \ {e} : p[c] = q[c]

LEMMA OneField ==
  ASSUME NEW p, NEW q, DOMAIN p = Fields, NEW e \in Fields, DifferIn(p, q, e)
  PROVE  Cardinality({f \in DOMAIN p : p[f] # q[f]}) = 1
<1>1. {f \in DOMAIN p : p[f] # q[f]} = {e}
  BY DEF DifferIn
<1> QED BY <1>1, FS_Singleton

FieldsAre(r, h) ==
  /\ DOMAIN r = Fields
  /\ r["type"] = (IF (h[1] \div 16) % 2 = 1 THEN "TC" ELSE "TM")
  /\ r["apid"] = 256 * (h[1] % 8) + h[2] /\ r["seq"] = 256 * (h[3] % 64) + h[4]
  /\ r["length"] = WordOf(h[5], h[6])
  /\ r["time"] = [hi |-> WordOf(h[8], h[9]), lo |-> WordOf(h[10], h[11]),
                  fine |-> WordOf(h[12], h[13])]
  /\ r["func"] = WordOf(h[14], h[15]) /\ r["instance"] = h[16]

LEMMA FieldsOf ==
  ASSUME NEW h
  PROVE  FieldsAre(ReadIn(h), h)
BY DEF ReadIn, DecodeCuc, FromBe16, WordOf, Fields, FieldsAre

LEMMA WordsDiffer ==
  ASSUME NEW b \in Byte, NEW c \in Byte, NEW f \in Byte, NEW e \in Byte,
         (f # b /\ e = c) \/ (f = b /\ e # c)
  PROVE  WordOf(b, c) # WordOf(f, e)
<1>1. /\ b \in Nat /\ b < 256 /\ c \in Nat /\ c < 256
      /\ f \in Nat /\ f < 256 /\ e \in Nat /\ e < 256
  BY ByteIs
<1> QED BY <1>1 DEF WordOf

LEMMA WordIsZero ==
  ASSUME NEW b \in Byte, NEW c \in Byte
  PROVE  WordOf(b, c) = 0 <=> b = 0 /\ c = 0
<1>1. b \in Nat /\ c \in Nat
  BY ByteIs
<1> QED BY <1>1 DEF WordOf

\* Two headers that differ in their k-th byte
Replaces(g, h, k) ==
  /\ \A i \in 1..16 : h[i] \in Byte /\ g[i] \in Byte
  /\ g[k] # h[k] /\ \A i \in (1..16) \ {k} : g[i] = h[i]

LEMMA TimeDiffers ==
  ASSUME NEW h, NEW g, NEW k \in 8..13, Replaces(g, h, k)
  PROVE  DifferIn(ReadIn(h), ReadIn(g), "time")
<1> DEFINE r == ReadIn(h)  s == ReadIn(g)
<1>1. /\ h[8] \in Byte /\ h[9] \in Byte /\ h[10] \in Byte /\ h[11] \in Byte
      /\ h[12] \in Byte /\ h[13] \in Byte
      /\ g[8] \in Byte /\ g[9] \in Byte /\ g[10] \in Byte /\ g[11] \in Byte
      /\ g[12] \in Byte /\ g[13] \in Byte
  BY DEF Replaces
<1>2. /\ g[1] = h[1] /\ g[2] = h[2] /\ g[3] = h[3] /\ g[4] = h[4] /\ g[5] = h[5]
      /\ g[6] = h[6] /\ g[14] = h[14] /\ g[15] = h[15] /\ g[16] = h[16]
  BY DEF Replaces
<1>3. \/ WordOf(g[8], g[9]) # WordOf(h[8], h[9])
      \/ WordOf(g[10], g[11]) # WordOf(h[10], h[11])
      \/ WordOf(g[12], g[13]) # WordOf(h[12], h[13])
  <2>1. g[k] # h[k] /\ \A i \in (8..13) \ {k} : g[i] = h[i]
    BY DEF Replaces
  <2>2. k = 8 \/ k = 9 \/ k = 10 \/ k = 11 \/ k = 12 \/ k = 13
    OBVIOUS
  <2>3. CASE k = 8
    <3>1. g[8] # h[8] /\ g[9] = h[9]
      BY <2>1, <2>3
    <3>2. WordOf(h[8], h[9]) # WordOf(g[8], g[9])
      BY Zenon, <1>1, <3>1, WordsDiffer
    <3> QED BY Zenon, <3>2
  <2>4. CASE k = 9
    <3>1. g[9] # h[9] /\ g[8] = h[8]
      BY <2>1, <2>4
    <3>2. WordOf(h[8], h[9]) # WordOf(g[8], g[9])
      BY Zenon, <1>1, <3>1, WordsDiffer
    <3> QED BY Zenon, <3>2
  <2>5. CASE k = 10
    <3>1. g[10] # h[10] /\ g[11] = h[11]
      BY <2>1, <2>5
    <3>2. WordOf(h[10], h[11]) # WordOf(g[10], g[11])
      BY Zenon, <1>1, <3>1, WordsDiffer
    <3> QED BY Zenon, <3>2
  <2>6. CASE k = 11
    <3>1. g[11] # h[11] /\ g[10] = h[10]
      BY <2>1, <2>6
    <3>2. WordOf(h[10], h[11]) # WordOf(g[10], g[11])
      BY Zenon, <1>1, <3>1, WordsDiffer
    <3> QED BY Zenon, <3>2
  <2>7. CASE k = 12
    <3>1. g[12] # h[12] /\ g[13] = h[13]
      BY <2>1, <2>7
    <3>2. WordOf(h[12], h[13]) # WordOf(g[12], g[13])
      BY Zenon, <1>1, <3>1, WordsDiffer
    <3> QED BY Zenon, <3>2
  <2>8. CASE k = 13
    <3>1. g[13] # h[13] /\ g[12] = h[12]
      BY <2>1, <2>8
    <3>2. WordOf(h[12], h[13]) # WordOf(g[12], g[13])
      BY Zenon, <1>1, <3>1, WordsDiffer
    <3> QED BY Zenon, <3>2
  <2> QED BY Zenon, <2>2, <2>3, <2>4, <2>5, <2>6, <2>7, <2>8
<1> HIDE DEF r, s
<1>4. FieldsAre(r, h) /\ FieldsAre(s, g)
  BY Zenon, FieldsOf DEF r, s
<1>5. r["time"] # s["time"]
  BY <1>3, <1>4 DEF FieldsAre
<1>6. /\ r["type"] = s["type"] /\ r["apid"] = s["apid"] /\ r["seq"] = s["seq"]
      /\ r["length"] = s["length"] /\ r["func"] = s["func"]
      /\ r["instance"] = s["instance"]
  BY <1>2, <1>4 DEF FieldsAre
<1>7. DifferIn(r, s, "time")
  BY <1>5, <1>6 DEF DifferIn, Fields
<1> QED BY <1>7 DEF r, s

\* The bits that no other value may take, of the byte k of the header h
PinnedIn(h, k, j) ==
  \/ k = 1 /\ j \in {1, 2, 3, 5}
  \/ k = 3 /\ j \in {1, 2}
  \/ k \in {5, 6, 7}
  \/ k = 14 /\ WordOf(h[14], h[15]) = 256 * Weights[j]
  \/ k = 15 /\ WordOf(h[14], h[15]) = Weights[j]
  \/ k = 16 /\ h[16] = Weights[j]

\* One bit inverted in a header that parses: it parses no longer, or one field
\* differs.
BitContained(h, g, n, k, j) ==
  /\ Parses(g, n) <=> ~PinnedIn(h, k, j)
  /\ Parses(g, n) => \E e \in Fields : DifferIn(ReadIn(h), ReadIn(g), e)

LEMMA BitFault ==
  ASSUME NEW h \in Seq(Byte), Len(h) = 16, NEW n \in Nat, Parses(h, n),
         NEW k \in 1..16, NEW j \in 1..8,
         NEW g, g = [h EXCEPT ![k] = Flipped(@, Weights[j])]
  PROVE  BitContained(h, g, n, k, j)
<1> DEFINE b == h[k]  f == g[k]  r == ReadIn(h)  s == ReadIn(g)
<1>1. \A i \in 1..16 : h[i] \in Byte
  BY Zenon, BytesAre
<1>2. f = Flipped(b, Weights[j]) /\ \A i \in (1..16) \ {k} : g[i] = h[i]
  OBVIOUS
<1>3. b \in Byte /\ f \in Byte /\ f # b /\ (f = 0 <=> b = Weights[j])
  <2>1. b \in Byte /\ f = Flipped(b, Weights[j])
    BY <1>1, <1>2
  <2> HIDE DEF b, f
  <2>2. OtherByte(Flipped(b, Weights[j]), b, Weights[j])
    BY Zenon, <2>1, FlipByte
  <2> QED BY Zenon, <2>1, <2>2 DEF OtherByte
<1>4. Replaces(g, h, k)
  BY <1>1, <1>2, <1>3 DEF Replaces
<1>5. FieldsAre(r, h) /\ FieldsAre(s, g)
  BY Zenon, FieldsOf
<1>6. /\ TopNibble(h[1]) = 1 /\ h[3] \div 64 = 3 /\ h[7] = PField
      /\ WordOf(h[14], h[15]) # 0 /\ h[16] # 0 /\ WordOf(h[5], h[6]) = 9 + n
  BY DEF Parses
<1>7. Parses(g, n) <=>
        /\ TopNibble(g[1]) = 1 /\ g[3] \div 64 = 3 /\ g[7] = PField
        /\ WordOf(g[14], g[15]) # 0 /\ g[16] # 0 /\ WordOf(g[5], g[6]) = 9 + n
  BY DEF Parses
<1>8. k = 1 \/ k = 2 \/ k = 3 \/ k = 4 \/ k = 5 \/ k = 6 \/ k = 7 \/ k \in 8..13
      \/ k = 14 \/ k = 15 \/ k = 16
  OBVIOUS
<1>9. Weights[j] \in Nat /\ Weights[j] < 256
  BY SMTT(40), BitWeight
<1> DEFINE w == Weights[j]
<1> HIDE DEF r, s, w
<1>10. CASE k = 1
  <2>1. /\ g[2] = h[2] /\ g[3] = h[3] /\ g[4] = h[4] /\ g[5] = h[5] /\ g[6] = h[6]
        /\ g[7] = h[7] /\ g[8] = h[8] /\ g[9] = h[9] /\ g[10] = h[10] /\ g[11] = h[11]
        /\ g[12] = h[12] /\ g[13] = h[13] /\ g[14] = h[14] /\ g[15] = h[15] /\ g[16] = h[16]
    BY <1>2, <1>10
  <2>2. /\ TopNibble(g[1]) = 1 <=> j \notin {1, 2, 3, 5}
        /\ j = 4 => (g[1] \div 16) % 2 # (h[1] \div 16) % 2 /\ g[1] % 8 = h[1] % 8
        /\ j \in {6, 7, 8} => (g[1] \div 16) % 2 = (h[1] \div 16) % 2 /\ g[1] % 8 # h[1] % 8
    BY <1>1, <1>2, <1>6, <1>10, FlipFirst
  <2>3. Parses(g, n) <=> ~PinnedIn(h, k, j)
    BY <1>6, <1>7, <1>10, <2>1, <2>2 DEF PinnedIn
  <2>4. /\ r["seq"] = s["seq"] /\ r["length"] = s["length"] /\ r["time"] = s["time"]
        /\ r["func"] = s["func"] /\ r["instance"] = s["instance"]
    BY SMTT(40), <1>5, <2>1 DEF FieldsAre
  <2>5. ASSUME j = 4 PROVE DifferIn(r, s, "type")
    <3>1. (g[1] \div 16) % 2 \in {0, 1} /\ (h[1] \div 16) % 2 \in {0, 1}
      <4>1. g[1] \in Nat /\ h[1] \in Nat
        BY <1>1, <1>3, <1>10, ByteIs
      <4> QED BY <4>1
    <3>2. r["type"] # s["type"] /\ r["apid"] = s["apid"]
      BY <1>5, <2>1, <2>2, <2>5, <3>1 DEF FieldsAre
    <3> QED BY <2>4, <3>2 DEF DifferIn, Fields
  <2>6. ASSUME j \in {6, 7, 8} PROVE DifferIn(r, s, "apid")
    <3>1. g[1] % 8 \in Nat /\ h[1] % 8 \in Nat /\ h[2] \in Nat
      <4>1. g[1] \in Nat /\ h[1] \in Nat /\ h[2] \in Nat
        BY <1>1, <1>3, <1>10, ByteIs
      <4> QED BY <4>1
    <3>2. 256 * (g[1] % 8) + h[2] # 256 * (h[1] % 8) + h[2]
      BY <2>2, <2>6, <3>1
    <3>3. r["type"] = s["type"] /\ r["apid"] # s["apid"]
      BY <1>5, <2>1, <2>2, <2>6, <3>2 DEF FieldsAre
    <3> QED BY <2>4, <3>3 DEF DifferIn, Fields
  <2> QED BY <2>2, <2>3, <2>5, <2>6, <1>7 DEF BitContained, Fields, r, s
<1>11. CASE k = 2
  <2>1. /\ g[1] = h[1] /\ g[3] = h[3] /\ g[4] = h[4] /\ g[5] = h[5] /\ g[6] = h[6]
        /\ g[7] = h[7] /\ g[8] = h[8] /\ g[9] = h[9] /\ g[10] = h[10] /\ g[11] = h[11]
        /\ g[12] = h[12] /\ g[13] = h[13] /\ g[14] = h[14] /\ g[15] = h[15] /\ g[16] = h[16]
    BY <1>2, <1>11
  <2>2. r["apid"] # s["apid"]
    <3>1. h[1] \in Nat /\ h[2] \in Nat /\ g[2] \in Nat
      BY <1>1, <1>3, <1>11, ByteIs
    <3>2. h[1] % 8 \in Nat
      BY <3>1
    <3>3. 256 * (h[1] % 8) + h[2] # 256 * (h[1] % 8) + g[2]
      BY SMTT(90), <1>3, <1>11, <3>1, <3>2
    <3> QED BY <1>5, <2>1, <3>3 DEF FieldsAre
  <2>3. /\ r["type"] = s["type"] /\ r["seq"] = s["seq"] /\ r["length"] = s["length"]
        /\ r["time"] = s["time"] /\ r["func"] = s["func"] /\ r["instance"] = s["instance"]
    BY SMTT(40), <1>5, <2>1 DEF FieldsAre
  <2>4. DifferIn(r, s, "apid")
    BY <2>2, <2>3 DEF DifferIn, Fields
  <2>5. Parses(g, n) /\ ~PinnedIn(h, k, j)
    BY <1>6, <1>7, <1>11, <2>1 DEF PinnedIn
  <2> QED BY <2>4, <2>5 DEF BitContained, Fields, r, s
<1>12. CASE k = 3
  <2>1. /\ g[1] = h[1] /\ g[2] = h[2] /\ g[4] = h[4] /\ g[5] = h[5] /\ g[6] = h[6]
        /\ g[7] = h[7] /\ g[8] = h[8] /\ g[9] = h[9] /\ g[10] = h[10] /\ g[11] = h[11]
        /\ g[12] = h[12] /\ g[13] = h[13] /\ g[14] = h[14] /\ g[15] = h[15] /\ g[16] = h[16]
    BY <1>2, <1>12
  <2>2. (g[3] \div 64 = 3 <=> j \notin {1, 2}) /\ (j \notin {1, 2} => g[3] % 64 # h[3] % 64)
    BY <1>1, <1>2, <1>6, <1>12, FlipThird
  <2>3. Parses(g, n) <=> ~PinnedIn(h, k, j)
    BY <1>6, <1>7, <1>12, <2>1, <2>2 DEF PinnedIn
  <2>4. /\ r["type"] = s["type"] /\ r["apid"] = s["apid"] /\ r["length"] = s["length"]
        /\ r["time"] = s["time"] /\ r["func"] = s["func"] /\ r["instance"] = s["instance"]
    BY SMTT(40), <1>5, <2>1 DEF FieldsAre
  <2>5. ASSUME j \notin {1, 2} PROVE DifferIn(r, s, "seq")
    <3>1. h[3] \in Nat /\ h[4] \in Nat /\ g[3] \in Nat
      BY <1>1, <1>3, <1>12, ByteIs
    <3>2. h[3] % 64 \in Nat /\ g[3] % 64 \in Nat
      BY <3>1
    <3>3. 256 * (h[3] % 64) + h[4] # 256 * (g[3] % 64) + h[4]
      BY SMTT(40), <2>2, <2>5, <3>1, <3>2
    <3>4. r["seq"] # s["seq"]
      BY <1>5, <2>1, <3>3 DEF FieldsAre
    <3> QED BY <2>4, <3>4 DEF DifferIn, Fields
  <2> QED BY <2>2, <2>3, <2>5, <1>7 DEF BitContained, Fields, r, s
<1>13. CASE k = 4
  <2>1. /\ g[1] = h[1] /\ g[2] = h[2] /\ g[3] = h[3] /\ g[5] = h[5] /\ g[6] = h[6]
        /\ g[7] = h[7] /\ g[8] = h[8] /\ g[9] = h[9] /\ g[10] = h[10] /\ g[11] = h[11]
        /\ g[12] = h[12] /\ g[13] = h[13] /\ g[14] = h[14] /\ g[15] = h[15] /\ g[16] = h[16]
    BY <1>2, <1>13
  <2>2. r["seq"] # s["seq"]
    <3>1. h[3] \in Nat /\ h[4] \in Nat /\ g[4] \in Nat
      BY <1>1, <1>3, <1>13, ByteIs
    <3>2. h[3] % 64 \in Nat
      BY <3>1
    <3>3. 256 * (h[3] % 64) + h[4] # 256 * (h[3] % 64) + g[4]
      BY SMTT(90), <1>3, <1>13, <3>1, <3>2
    <3> QED BY <1>5, <2>1, <3>3 DEF FieldsAre
  <2>3. /\ r["type"] = s["type"] /\ r["apid"] = s["apid"] /\ r["length"] = s["length"]
        /\ r["time"] = s["time"] /\ r["func"] = s["func"] /\ r["instance"] = s["instance"]
    BY SMTT(40), <1>5, <2>1 DEF FieldsAre
  <2>4. DifferIn(r, s, "seq")
    BY <2>2, <2>3 DEF DifferIn, Fields
  <2>5. Parses(g, n) /\ ~PinnedIn(h, k, j)
    BY <1>6, <1>7, <1>13, <2>1 DEF PinnedIn
  <2> QED BY <2>4, <2>5 DEF BitContained, Fields, r, s
<1>14. CASE k = 5
  <2>1. g[6] = h[6] /\ g[5] # h[5] /\ g[5] \in Byte /\ h[5] \in Byte /\ h[6] \in Byte
    BY <1>1, <1>2, <1>3, <1>14
  <2>2. WordOf(h[5], h[6]) # WordOf(g[5], g[6])
    BY <2>1, WordsDiffer
  <2>3. ~Parses(g, n) /\ PinnedIn(h, k, j)
    BY <1>6, <1>7, <1>14, <2>2 DEF PinnedIn
  <2> QED BY Zenon, <2>3 DEF BitContained
<1>15. CASE k = 6
  <2>1. g[5] = h[5] /\ g[6] # h[6] /\ g[6] \in Byte /\ h[5] \in Byte /\ h[6] \in Byte
    BY <1>1, <1>2, <1>3, <1>15
  <2>2. WordOf(h[5], h[6]) # WordOf(g[5], g[6])
    BY <2>1, WordsDiffer
  <2>3. ~Parses(g, n) /\ PinnedIn(h, k, j)
    BY <1>6, <1>7, <1>15, <2>2 DEF PinnedIn
  <2> QED BY Zenon, <2>3 DEF BitContained
<1>16. CASE k = 7
  <2>1. ~Parses(g, n) /\ PinnedIn(h, k, j)
    BY <1>3, <1>6, <1>7, <1>16 DEF PinnedIn
  <2> QED BY Zenon, <2>1 DEF BitContained
<1>17. CASE k \in 8..13
  <2>1. /\ g[1] = h[1] /\ g[3] = h[3] /\ g[5] = h[5] /\ g[6] = h[6] /\ g[7] = h[7]
        /\ g[14] = h[14] /\ g[15] = h[15] /\ g[16] = h[16]
    BY <1>2, <1>17
  <2>2. Parses(g, n) /\ ~PinnedIn(h, k, j)
    BY <1>6, <1>7, <1>17, <2>1 DEF PinnedIn
  <2>3. DifferIn(r, s, "time")
    BY <1>4, <1>17, TimeDiffers DEF r, s
  <2> QED BY <2>2, <2>3 DEF BitContained, Fields, r, s
<1>18. CASE k = 14
  <2>1. /\ g[1] = h[1] /\ g[2] = h[2] /\ g[3] = h[3] /\ g[4] = h[4] /\ g[5] = h[5]
        /\ g[6] = h[6] /\ g[7] = h[7] /\ g[8] = h[8] /\ g[9] = h[9] /\ g[10] = h[10]
        /\ g[11] = h[11] /\ g[12] = h[12] /\ g[13] = h[13] /\ g[15] = h[15] /\ g[16] = h[16]
    BY <1>2, <1>18
  <2>2. /\ h[14] \in Byte /\ h[15] \in Byte /\ g[14] \in Byte /\ g[14] # h[14]
        /\ (g[14] = 0 <=> h[14] = w)
    BY <1>1, <1>3, <1>18 DEF w
  <2>3. WordOf(h[14], h[15]) # WordOf(g[14], g[15])
    BY <2>1, <2>2, WordsDiffer
  <2>4. WordOf(g[14], g[15]) = 0 <=> WordOf(h[14], h[15]) = 256 * w
    <3>1. WordOf(g[14], g[15]) = 0 <=> h[14] = w /\ h[15] = 0
      BY <2>1, <2>2, WordIsZero
    <3>2. h[14] \in Nat /\ h[14] < 256 /\ h[15] \in Nat /\ h[15] < 256 /\ w \in Nat /\ w < 256
      BY <1>9, <2>2, ByteIs DEF w
    <3>3. WordOf(h[14], h[15]) = 256 * w <=> h[14] = w /\ h[15] = 0
      BY <3>2 DEF WordOf
    <3> QED BY <3>1, <3>3
  <2>5. Parses(g, n) <=> ~PinnedIn(h, k, j)
    BY <1>6, <1>7, <1>18, <2>1, <2>4 DEF PinnedIn, w
  <2>6. r["func"] # s["func"]
    BY <1>5, <2>3 DEF FieldsAre
  <2>7. /\ r["type"] = s["type"] /\ r["apid"] = s["apid"] /\ r["seq"] = s["seq"]
        /\ r["length"] = s["length"] /\ r["time"] = s["time"] /\ r["instance"] = s["instance"]
    BY SMTT(40), <1>5, <2>1 DEF FieldsAre
  <2>8. DifferIn(r, s, "func")
    BY <2>6, <2>7 DEF DifferIn, Fields
  <2> QED BY <2>5, <2>8 DEF BitContained, Fields, r, s
<1>19. CASE k = 15
  <2>1. /\ g[1] = h[1] /\ g[2] = h[2] /\ g[3] = h[3] /\ g[4] = h[4] /\ g[5] = h[5]
        /\ g[6] = h[6] /\ g[7] = h[7] /\ g[8] = h[8] /\ g[9] = h[9] /\ g[10] = h[10]
        /\ g[11] = h[11] /\ g[12] = h[12] /\ g[13] = h[13] /\ g[14] = h[14] /\ g[16] = h[16]
    BY <1>2, <1>19
  <2>2. /\ h[14] \in Byte /\ h[15] \in Byte /\ g[15] \in Byte /\ g[15] # h[15]
        /\ (g[15] = 0 <=> h[15] = w)
    BY <1>1, <1>3, <1>19 DEF w
  <2>3. WordOf(h[14], h[15]) # WordOf(g[14], g[15])
    BY <2>1, <2>2, WordsDiffer
  <2>4. WordOf(g[14], g[15]) = 0 <=> WordOf(h[14], h[15]) = w
    <3>1. WordOf(g[14], g[15]) = 0 <=> h[15] = w /\ h[14] = 0
      BY <2>1, <2>2, WordIsZero
    <3>2. h[14] \in Nat /\ h[14] < 256 /\ h[15] \in Nat /\ h[15] < 256 /\ w \in Nat /\ w < 256
      BY <1>9, <2>2, ByteIs DEF w
    <3>3. WordOf(h[14], h[15]) = w <=> h[15] = w /\ h[14] = 0
      BY <3>2 DEF WordOf
    <3> QED BY <3>1, <3>3
  <2>5. Parses(g, n) <=> ~PinnedIn(h, k, j)
    BY <1>6, <1>7, <1>19, <2>1, <2>4 DEF PinnedIn, w
  <2>6. r["func"] # s["func"]
    BY <1>5, <2>3 DEF FieldsAre
  <2>7. /\ r["type"] = s["type"] /\ r["apid"] = s["apid"] /\ r["seq"] = s["seq"]
        /\ r["length"] = s["length"] /\ r["time"] = s["time"] /\ r["instance"] = s["instance"]
    BY SMTT(40), <1>5, <2>1 DEF FieldsAre
  <2>8. DifferIn(r, s, "func")
    BY <2>6, <2>7 DEF DifferIn, Fields
  <2> QED BY <2>5, <2>8 DEF BitContained, Fields, r, s
<1>20. CASE k = 16
  <2>1. /\ g[1] = h[1] /\ g[2] = h[2] /\ g[3] = h[3] /\ g[4] = h[4] /\ g[5] = h[5]
        /\ g[6] = h[6] /\ g[7] = h[7] /\ g[8] = h[8] /\ g[9] = h[9] /\ g[10] = h[10]
        /\ g[11] = h[11] /\ g[12] = h[12] /\ g[13] = h[13] /\ g[14] = h[14] /\ g[15] = h[15]
    BY <1>2, <1>20
  <2>2. g[16] = 0 <=> h[16] = w
    BY <1>3, <1>20 DEF w
  <2>3. Parses(g, n) <=> ~PinnedIn(h, k, j)
    BY <1>6, <1>7, <1>20, <2>1, <2>2 DEF PinnedIn, w
  <2>4. r["instance"] # s["instance"]
    BY <1>3, <1>5, <1>20 DEF FieldsAre
  <2>5. /\ r["type"] = s["type"] /\ r["apid"] = s["apid"] /\ r["seq"] = s["seq"]
        /\ r["length"] = s["length"] /\ r["time"] = s["time"] /\ r["func"] = s["func"]
    BY SMTT(40), <1>5, <2>1 DEF FieldsAre
  <2>6. DifferIn(r, s, "instance")
    BY <2>4, <2>5 DEF DifferIn, Fields
  <2> QED BY <2>3, <2>6 DEF BitContained, Fields, r, s
<1> QED BY Zenon, <1>8, <1>10, <1>11, <1>12, <1>13, <1>14, <1>15, <1>16, <1>17, <1>18,
       <1>19, <1>20
-----------------------------------------------------------------------------
\* What the receiver refuses, and never for a range
LEMMA RefusalIs ==
  ASSUME NEW buf
  PROVE  MessageRefusal(buf) \in
           {"none"} \cup (CcsdsErrors \ {"ApidOutOfRange", "SequenceCountOutOfRange"})
BY DEF MessageRefusal, SbRefusal, ParseRefusal, PrimaryRefusal, SecondaryRefusal,
       CucRefusal, CcsdsErrors

LEMMA MessageIs ==
  ASSUME NEW buf
  PROVE  /\ ToCMessage(buf).refusal = MessageRefusal(buf)
         /\ MessageRefusal(buf) = "none" =>
              /\ ToCMessage(buf).mid = MsgId(buf)
              /\ ToCMessage(buf).rebuilt = FromCMessage(buf)
BY DEF ToCMessage, NoMessage

LEMMA AcceptedIffParses ==
  ASSUME NEW buf, buf.head \in Seq(Byte), Len(buf.head) = 16, buf.data \in Nat
  PROVE  MessageRefusal(buf) = "none" <=> Parses(buf.head, buf.data)
<1>1. SbRefusal(buf) = "none"
  BY DEF SbRefusal, TotalLen, HeaderLen
<1>2. MessageRefusal(buf) = ParseRefusal(buf)
  BY <1>1 DEF MessageRefusal
<1> QED BY Zenon, <1>2, ParsesIff

Put(h, k, f) == [h EXCEPT ![k] = f]

LEMMA PutIs ==
  ASSUME NEW S, NEW h \in Seq(S), NEW k \in 1..Len(h), NEW f \in S
  PROVE  Put(h, k, f) \in Seq(S) /\ Len(Put(h, k, f)) = Len(h)
BY ExceptSeq DEF Put

\* One bit of a header inverted: a header of the same length.
LEMMA InvertedIs ==
  ASSUME NEW h \in Seq(Byte), Len(h) = 16, NEW bit \in 0..127
  PROVE  /\ Inverted(h, bit) \in Seq(Byte) /\ Len(Inverted(h, bit)) = 16
         /\ 1 + (bit \div 8) \in 1..16 /\ 1 + (bit % 8) \in 1..8
         /\ Inverted(h, bit) =
              [h EXCEPT ![1 + (bit \div 8)] = Flipped(@, Weights[1 + (bit % 8)])]
<1> DEFINE k == 1 + (bit \div 8)  j == 1 + (bit % 8)  f == Flipped(h[k], Weights[j])
<1>1. k \in 1..16 /\ j \in 1..8
  OBVIOUS
<1>2. Inverted(h, bit) = Put(h, k, f)
  BY DEF Inverted, Put
<1>3. Inverted(h, bit) = [h EXCEPT ![k] = Flipped(@, Weights[j])]
  BY DEF Inverted
<1> HIDE DEF k, j
<1>4. h[k] \in Byte
  BY Zenon, <1>1, BytesAre
<1>5. f \in Byte
  BY Zenon, <1>1, <1>4, FlipByte DEF OtherByte
<1> HIDE DEF f
<1>6. Inverted(h, bit) \in Seq(Byte) /\ Len(Inverted(h, bit)) = 16
  <2>1. k \in 1..Len(h)
    BY <1>1
  <2>2. Put(h, k, f) \in Seq(Byte) /\ Len(Put(h, k, f)) = Len(h)
    BY Zenon, <1>5, <2>1, PutIs
  <2> QED BY <1>2, <2>2
<1> QED BY <1>1, <1>3, <1>6 DEF k, j

\* What the link may have made of the packet of a draft
DamagedAs(d, f, w) ==
  \/ f = NoFault /\ w = Built(d)
  \/ \E bit \in 0..127 :
       /\ f = [kind |-> "bit", at |-> bit]
       /\ w = [Built(d) EXCEPT !.head = Inverted(@, bit)]
  \/ \E n \in Nat \ {0} :
       /\ n # TotalLen(Built(d))
       /\ f = [kind |-> "size", at |-> n] /\ w = Resized(Built(d), n)

PathInv ==
  /\ draft \in DraftType
  /\ wire = NoBuffer =>
       fault = NoFault /\ (message.refusal = "none" => message = NoMessage)
  /\ wire # NoBuffer =>
       /\ BuildRefusal(draft) = "none" /\ DamagedAs(draft, fault, wire)
       /\ message \in {NoMessage, ToCMessage(wire)}

LEMMA NotEmpty ==
  ASSUME NEW w, Len(w.head) # 0
  PROVE  w # NoBuffer
<1>1. Len(NoBuffer.head) = 0
  BY DEF NoBuffer
<1> QED BY Zenon, <1>1

LEMMA WholeNotEmpty ==
  ASSUME NEW w, Len(w.head) = 16
  PROVE  w # NoBuffer
<1>1. Len(w.head) # 0
  OBVIOUS
<1> QED BY Zenon, <1>1, NotEmpty

LEMMA PathStart == PacketInit => PathInv
<1> SUFFICES ASSUME PacketInit PROVE PathInv
  OBVIOUS
<1>1. PICK t \in PacketTypes, a \in PacketApids : draft = EmptyDraft(t, a)
  BY DEF PacketInit
<1>2. a \in Apids
  BY PacketAssumption
<1>3. [hi |-> 0, lo |-> 0, fine |-> 0] \in CucTimes
  <2>1. 0 \in U16
    BY IsWord
  <2> QED BY <2>1 DEF CucTimes
<1>4. draft \in DraftType
  BY <1>1, <1>2, <1>3 DEF EmptyDraft, DraftType
<1> QED BY <1>4 DEF PacketInit, PathInv

LEMMA PathStep == PathInv /\ [PacketNext]_pvars => PathInv'
<1> SUFFICES ASSUME PathInv, [PacketNext]_pvars PROVE PathInv'
  OBVIOUS
<1> USE DEF PathInv
<1>1. CASE Set
  <2>1. wire = NoBuffer /\ UNCHANGED <<wire, fault, message>>
    BY <1>1 DEF Set
  <2>2. draft' \in DraftType
    <3>1. /\ PacketFuncs \subseteq FuncCodes /\ PacketInstances \subseteq InstanceIds
          /\ PacketCounts \subseteq SequenceCounts /\ PacketTimes \subseteq CucTimes
          /\ PacketSizes \subseteq Nat
      BY PacketAssumption DEF CucTimes
    <3>2. draft \in DraftType
      OBVIOUS
    <3> HIDE DEF PathInv
    <3>3. CASE \E v \in PacketFuncs : draft' = [draft EXCEPT !.func = v]
      BY <3>1, <3>2, <3>3 DEF DraftType
    <3>4. CASE \E v \in PacketInstances : draft' = [draft EXCEPT !.instance = v]
      BY <3>1, <3>2, <3>4 DEF DraftType
    <3>5. CASE \E v \in PacketCounts : draft' = [draft EXCEPT !.seq = v]
      BY <3>1, <3>2, <3>5 DEF DraftType
    <3>6. CASE \E v \in PacketTimes : draft' = [draft EXCEPT !.time = v]
      BY <3>1, <3>2, <3>6 DEF DraftType
    <3>7. CASE \E v \in PacketSizes : draft' = [draft EXCEPT !.data = v]
      BY <3>1, <3>2, <3>7 DEF DraftType
    <3> QED BY Zenon, <1>1, <3>3, <3>4, <3>5, <3>6, <3>7 DEF Set
  <2> QED BY <2>1, <2>2
<1>2. CASE Build
  <2>1. /\ wire = NoBuffer /\ fault = NoFault /\ message = NoMessage
        /\ UNCHANGED <<draft, fault>>
    BY <1>2 DEF Build
  <2>2. CASE BuildRefusal(draft) = "none"
    <3>1. wire' = Built(draft) /\ UNCHANGED message
      BY <1>2, <2>2 DEF Build
    <3>2. Built(draft) # NoBuffer
      <4>1. Len(Built(draft).head) = 16
        BY Zenon, <2>2, BuiltIs DEF IsHeader
      <4>2. Len(Built(draft).head) # 0
        BY <4>1
      <4> QED BY Zenon, <4>2, NotEmpty
    <3>3. DamagedAs(draft', fault', wire')
      BY <2>1, <3>1 DEF DamagedAs
    <3> QED BY <2>1, <2>2, <3>1, <3>2, <3>3
  <2>3. CASE BuildRefusal(draft) # "none"
    <3>1. message' = [NoMessage EXCEPT !.refusal = BuildRefusal(draft)] /\ wire' = wire
      BY <1>2, <2>1, <2>3 DEF Build
    <3>2. message'.refusal # "none"
      BY <2>3, <3>1 DEF NoMessage
    <3> QED BY <2>1, <3>1, <3>2
  <2> QED BY <2>2, <2>3
<1>3. CASE Damage
  <2>1. /\ wire # NoBuffer /\ fault = NoFault /\ message = NoMessage
        /\ UNCHANGED <<draft, message>>
    BY <1>3 DEF Damage
  <2>2. wire = Built(draft) /\ BuildRefusal(draft) = "none" /\ draft \in DraftType
    BY <2>1 DEF DamagedAs, NoFault
  <2>3. /\ TotalLen(wire) \in Nat /\ TotalLen(wire) > 15
        /\ wire.head \in Seq(Byte) /\ Len(wire.head) = 16
    <3>1. wire.head \in Seq(Byte) /\ Len(wire.head) = 16 /\ wire.data = draft.data
      BY Zenon, <2>2, BuiltIs DEF IsHeader
    <3>2. draft.data \in Nat
      BY <2>2 DEF DraftType
    <3> QED BY <3>1, <3>2 DEF TotalLen
  <2>4. CASE \E bit \in 0..127 :
               /\ fault' = [kind |-> "bit", at |-> bit]
               /\ wire' = [wire EXCEPT !.head = Inverted(@, bit)]
    <3>1. PICK bit \in 0..127 :
               /\ fault' = [kind |-> "bit", at |-> bit]
               /\ wire' = [wire EXCEPT !.head = Inverted(@, bit)]
      BY <2>4
    <3>2. DamagedAs(draft', fault', wire')
      BY <2>1, <2>2, <3>1 DEF DamagedAs
    <3>3. wire' # NoBuffer
      <4>1. wire.head \in Seq(Byte) /\ Len(wire.head) = 16
        BY <2>3
      <4>2. Len(Inverted(wire.head, bit)) = 16
        BY <4>1, InvertedIs
      <4>3. wire'.head = Inverted(wire.head, bit)
        <5>1. DOMAIN wire = {"head", "data"}
          BY <2>2 DEF Built
        <5> QED BY <3>1, <5>1
      <4>4. Len(wire'.head) = 16
        BY Zenon, <4>2, <4>3
      <4> QED BY Zenon, <4>4, WholeNotEmpty
    <3> QED BY <2>1, <2>2, <3>2, <3>3
  <2>5. CASE \E n \in (Ends \cup {TotalLen(wire) - 1, TotalLen(wire) + 1})
                        \ {TotalLen(wire)} :
               /\ fault' = [kind |-> "size", at |-> n]
               /\ wire' = Resized(wire, n)
    <3>1. PICK n \in (Ends \cup {TotalLen(wire) - 1, TotalLen(wire) + 1})
                        \ {TotalLen(wire)} :
               /\ fault' = [kind |-> "size", at |-> n]
               /\ wire' = Resized(wire, n)
      BY <2>5
    <3>2. n \in Nat \ {0} /\ n # TotalLen(wire)
      BY <2>3, PacketAssumption
    <3>3. DamagedAs(draft', fault', wire')
      BY <2>1, <2>2, <3>1, <3>2 DEF DamagedAs
    <3>4. wire' # NoBuffer
      <4>1. CASE n < 16
        <5>1. wire'.head = SubSeq(wire.head, 1, n)
          BY <3>1, <4>1 DEF Resized, HeaderLen
        <5>2. Len(SubSeq(wire.head, 1, n)) = n
          BY <2>3, <3>2, <4>1
        <5>3. Len(wire'.head) # 0
          BY <3>2, <5>1, <5>2
        <5> QED BY Zenon, <5>3, NotEmpty
      <4>2. CASE ~(n < 16)
        <5>1. wire' = [wire EXCEPT !.data = n - 16]
          BY <3>1, <4>2 DEF Resized, HeaderLen
        <5>2. DOMAIN wire = {"head", "data"}
          BY <2>2 DEF Built
        <5>3. wire'.head = wire.head
          BY <5>1, <5>2
        <5>4. Len(wire'.head) = 16
          BY Zenon, <2>3, <5>3
        <5> QED BY Zenon, <5>4, WholeNotEmpty
      <4> QED BY <4>1, <4>2
    <3> QED BY <2>1, <2>2, <3>3, <3>4
  <2> QED BY <1>3, <2>4, <2>5 DEF Damage
<1>4. CASE Receive
  BY <1>4 DEF Receive
<1>5. CASE UNCHANGED pvars
  BY <1>5 DEF pvars
<1> QED BY <1>1, <1>2, <1>3, <1>4, <1>5 DEF PacketNext
-----------------------------------------------------------------------------
\* The packet of a draft as it was built
LEMMA BuiltOf ==
  ASSUME draft \in DraftType, BuildRefusal(draft) = "none"
  PROVE  /\ Built(draft) = [head |-> Built(draft).head, data |-> draft.data]
         /\ Built(draft).head \in Seq(Byte) /\ Len(Built(draft).head) = 16
         /\ draft.data \in Nat /\ TotalLen(Built(draft)) = 16 + draft.data
         /\ ReadIn(Built(draft).head) = Described(draft)
         /\ Parses(Built(draft).head, draft.data)
         /\ WordOf(Built(draft).head[14], Built(draft).head[15]) = draft.func
         /\ Built(draft).head[16] = draft.instance
<1> DEFINE h == Built(draft).head
<1>1. /\ h \in Seq(Byte) /\ Len(h) = 16 /\ Built(draft).data = draft.data
      /\ ReadIn(h) = Described(draft) /\ Parses(h, draft.data)
  BY Zenon, BuiltIs DEF IsHeader
<1>2. Built(draft) = [head |-> h, data |-> Built(draft).data]
  BY DEF Built
<1>3. draft.data \in Nat
  BY DEF DraftType
<1>4. ReadIn(h).func = WordOf(h[14], h[15]) /\ ReadIn(h).instance = h[16]
  BY DEF ReadIn, FromBe16, WordOf
<1>5. Described(draft).func = draft.func /\ Described(draft).instance = draft.instance
  BY DEF Described
<1> HIDE DEF h
<1>6. TotalLen(Built(draft)) = 16 + draft.data
  BY <1>1, <1>3 DEF TotalLen, h
<1>7. WordOf(h[14], h[15]) = draft.func /\ h[16] = draft.instance
  BY <1>1, <1>4, <1>5
<1> QED BY Zenon, <1>1, <1>2, <1>3, <1>6, <1>7 DEF h

\* The two ways to say which bits are pinned
LEMMA PinnedIs ==
  ASSUME NEW h, NEW bit \in 0..127,
         WordOf(h[14], h[15]) = draft.func, h[16] = draft.instance
  PROVE  PinnedIn(h, 1 + (bit \div 8), 1 + (bit % 8)) <=> bit \in PinnedBits
<1> DEFINE k == 1 + (bit \div 8)  j == 1 + (bit % 8)
<1>1. k \in 1..16 /\ j \in 1..8 /\ bit = 8 * (k - 1) + (j - 1)
  OBVIOUS
<1> HIDE DEF k, j
<1>2. bit \in {0, 1, 2, 4} <=> k = 1 /\ j \in {1, 2, 3, 5}
  BY <1>1
<1>3. bit \in {16, 17} <=> k = 3 /\ j \in {1, 2}
  BY <1>1
<1>4. bit \in 32..55 <=> k \in {5, 6, 7}
  BY <1>1
<1>5. (bit \in 104..111 <=> k = 14) /\ (k = 14 => bit - 103 = j)
  BY <1>1
<1>6. (bit \in 112..119 <=> k = 15) /\ (k = 15 => bit - 111 = j)
  BY <1>1
<1>7. (bit \in 120..127 <=> k = 16) /\ (k = 16 => bit - 119 = j)
  BY <1>1
<1>8. bit \in PinnedBits <=>
        \/ bit \in {0, 1, 2, 4} \/ bit \in {16, 17} \/ bit \in 32..55
        \/ bit \in 104..111 /\ draft.func = 256 * Weights[bit - 103]
        \/ bit \in 112..119 /\ draft.func = Weights[bit - 111]
        \/ bit \in 120..127 /\ draft.instance = Weights[bit - 119]
  BY ZenonT(60) DEF PinnedBits
<1>9. PinnedIn(h, k, j) <=>
        \/ k = 1 /\ j \in {1, 2, 3, 5}
        \/ k = 3 /\ j \in {1, 2}
        \/ k \in {5, 6, 7}
        \/ k = 14 /\ draft.func = 256 * Weights[j]
        \/ k = 15 /\ draft.func = Weights[j]
        \/ k = 16 /\ draft.instance = Weights[j]
  BY DEF PinnedIn
<1>10. PinnedIn(h, k, j) <=> bit \in PinnedBits
  BY <1>2, <1>3, <1>4, <1>5, <1>6, <1>7, <1>8, <1>9
<1> QED BY <1>10 DEF k, j

\* What a message says of the buffer it was made from
Holds(buf) ==
  MessageRefusal(buf) = "none" =>
    /\ WellTyped(Parsed(buf)) /\ FromCMessage(buf) = buf
    /\ MsgId(buf) = FromBe16(buf.head, 1)
    /\ MidApid(MsgId(buf)) = Parsed(buf).apid
    /\ MidIsCommand(MsgId(buf)) <=> Parsed(buf).type = "TC"

LEMMA BufferIs ==
  ASSUME NEW h \in Seq(Byte), NEW n \in Nat, NEW w, w = [head |-> h, data |-> n]
  PROVE  w \in [head : Seq(Byte), data : Nat] /\ w.head = h /\ w.data = n
OBVIOUS

LEMMA HoldsWhole ==
  ASSUME NEW buf \in [head : Seq(Byte), data : Nat], Len(buf.head) = 16
  PROVE  Holds(buf) /\ (MessageRefusal(buf) = "none" <=> Parses(buf.head, buf.data))
<1>1. MessageRefusal(buf) = "none" <=> Parses(buf.head, buf.data)
  BY AcceptedIffParses
<1>2. Parses(buf.head, buf.data) =>
        /\ WellTyped(Parsed(buf)) /\ FromCMessage(buf) = buf
        /\ MsgId(buf) = FromBe16(buf.head, 1)
        /\ MidApid(MsgId(buf)) = Parsed(buf).apid
        /\ MidIsCommand(MsgId(buf)) <=> Parsed(buf).type = "TC"
  BY Zenon, RebuiltIs
<1> QED BY Zenon, <1>1, <1>2 DEF Holds

\* What the three kinds of damage make of the packet of the draft
Contained(f, w) ==
  /\ f.kind = "none" =>
       MessageRefusal(w) = "none" /\ Parsed(w) = Described(draft)
  /\ f.kind = "size" => MessageRefusal(w) # "none"
  /\ f.kind = "bit" =>
       /\ MessageRefusal(w) = "none" <=> f.at \notin PinnedBits
       /\ MessageRefusal(w) = "none" =>
            Cardinality({e \in DOMAIN Described(draft) :
                           Described(draft)[e] # Parsed(w)[e]}) = 1
  /\ f.kind \in {"none", "size", "bit"}

LEMMA NoneContained ==
  ASSUME draft \in DraftType, BuildRefusal(draft) = "none"
  PROVE  Contained(NoFault, Built(draft)) /\ Holds(Built(draft))
<1> DEFINE w == Built(draft)
<1>1. /\ w \in [head : Seq(Byte), data : Nat] /\ Len(w.head) = 16
      /\ w.data = draft.data /\ ReadIn(w.head) = Described(draft)
      /\ Parses(w.head, draft.data)
  BY BuiltOf
<1> HIDE DEF w
<1>2. Holds(w) /\ MessageRefusal(w) = "none"
  BY Zenon, <1>1, HoldsWhole
<1>3. Parsed(w) = Described(draft)
  BY Zenon, <1>1, ParsedIs
<1>4. Contained(NoFault, w)
  BY <1>2, <1>3 DEF Contained, NoFault
<1> QED BY <1>2, <1>4 DEF w

LEMMA BitContainedIs ==
  ASSUME draft \in DraftType, BuildRefusal(draft) = "none", NEW bit \in 0..127
  PROVE  LET w == [Built(draft) EXCEPT !.head = Inverted(@, bit)]
         IN  Contained([kind |-> "bit", at |-> bit], w) /\ Holds(w)
<1> DEFINE w == [Built(draft) EXCEPT !.head = Inverted(@, bit)]
           h == Built(draft).head  n == draft.data  g == Inverted(h, bit)
           k == 1 + (bit \div 8)  j == 1 + (bit % 8)  d == Described(draft)
<1>1. /\ Built(draft) = [head |-> h, data |-> n] /\ h \in Seq(Byte) /\ Len(h) = 16
      /\ n \in Nat /\ ReadIn(h) = d /\ Parses(h, n)
      /\ WordOf(h[14], h[15]) = draft.func /\ h[16] = draft.instance
  BY Zenon, BuiltOf
<1> HIDE DEF h, n, d
<1>2. /\ g \in Seq(Byte) /\ Len(g) = 16 /\ k \in 1..16 /\ j \in 1..8
      /\ g = [h EXCEPT ![k] = Flipped(@, Weights[j])]
  BY Zenon, <1>1, InvertedIs
<1>3. w = [head |-> g, data |-> n]
  BY <1>1 DEF h
<1>4. PinnedIn(h, k, j) <=> bit \in PinnedBits
  BY Zenon, <1>1, PinnedIs
<1> HIDE DEF w, g, k, j
<1>5. BitContained(h, g, n, k, j)
  BY Zenon, <1>1, <1>2, BitFault
<1>6. w \in [head : Seq(Byte), data : Nat] /\ w.head = g /\ w.data = n
  BY Zenon, <1>1, <1>2, <1>3, BufferIs
<1>7. Holds(w) /\ (MessageRefusal(w) = "none" <=> Parses(g, n))
  BY Zenon, <1>2, <1>6, HoldsWhole
<1>8. Parsed(w) = ReadIn(g)
  BY Zenon, <1>6, ParsedIs
<1>9. ASSUME Parses(g, n)
      PROVE  Cardinality({e \in DOMAIN d : d[e] # Parsed(w)[e]}) = 1
  <2>1. PICK e \in Fields : DifferIn(d, Parsed(w), e)
    BY Zenon, <1>1, <1>5, <1>8, <1>9 DEF BitContained
  <2>2. DOMAIN d = Fields
    BY Zenon, <1>1, FieldsOf DEF FieldsAre
  <2> QED BY Zenon, <2>1, <2>2, OneField
<1>10. MessageRefusal(w) = "none" <=> bit \notin PinnedBits
  BY Zenon, <1>4, <1>5, <1>7 DEF BitContained
<1>11. Contained([kind |-> "bit", at |-> bit], w)
  BY <1>7, <1>9, <1>10 DEF Contained, d
<1> QED BY <1>7, <1>11 DEF w

LEMMA SizeContained ==
  ASSUME draft \in DraftType, BuildRefusal(draft) = "none", NEW n \in Nat \ {0},
         n # TotalLen(Built(draft)), NEW w, w = Resized(Built(draft), n)
  PROVE  Contained([kind |-> "size", at |-> n], w) /\ Holds(w)
<1> DEFINE h == Built(draft).head
<1>1. /\ Built(draft) = [head |-> h, data |-> draft.data]
      /\ h \in Seq(Byte) /\ Len(h) = 16
      /\ draft.data \in Nat /\ n # 16 + draft.data /\ Parses(h, draft.data)
  BY Zenon, BuiltOf
<1> HIDE DEF h
<1>2. MessageRefusal(w) # "none"
  <2>1. CASE n < 16
    <3>1. w = [head |-> SubSeq(h, 1, n), data |-> 0]
      BY <1>1, <2>1 DEF Resized, HeaderLen
    <3>2. Len(SubSeq(h, 1, n)) = n
      BY <1>1, <2>1
    <3>3. TotalLen(w) = n
      BY <3>1, <3>2 DEF TotalLen
    <3>4. SbRefusal(w) = "BufferTooShort"
      BY <2>1, <3>3 DEF SbRefusal, HeaderLen
    <3> QED BY <3>4 DEF MessageRefusal
  <2>2. CASE ~(n < 16)
    <3>1. w = [head |-> h, data |-> n - 16] /\ n - 16 \in Nat
      BY <1>1, <2>2 DEF Resized, HeaderLen
    <3>2. WordOf(h[5], h[6]) = 9 + draft.data
      BY <1>1 DEF Parses
    <3>3. ~Parses(h, n - 16)
      BY SMTT(40), <1>1, <2>2, <3>1, <3>2 DEF Parses
    <3>4. w \in [head : Seq(Byte), data : Nat] /\ w.head = h /\ w.data = n - 16
      BY <1>1, <3>1
    <3> QED BY Zenon, <1>1, <3>3, <3>4, HoldsWhole
  <2> QED BY <2>1, <2>2
<1>3. Contained([kind |-> "size", at |-> n], w)
  BY <1>2 DEF Contained
<1> QED BY <1>2, <1>3 DEF Holds

LEMMA PathKeeps == PathInv => PacketIsKept
<1> SUFFICES ASSUME PathInv, Received PROVE PacketIsKept
  BY DEF PacketIsKept, FaultIsContained, MessageIsFaithful
<1>1. /\ draft \in DraftType /\ BuildRefusal(draft) = "none"
      /\ DamagedAs(draft, fault, wire) /\ message = ToCMessage(wire)
  BY DEF PathInv, Received
<1>2. Contained(fault, wire) /\ Holds(wire)
  <2>1. CASE fault = NoFault /\ wire = Built(draft)
    BY Zenon, <1>1, <2>1, NoneContained
  <2>2. CASE \E bit \in 0..127 :
               /\ fault = [kind |-> "bit", at |-> bit]
               /\ wire = [Built(draft) EXCEPT !.head = Inverted(@, bit)]
    BY Zenon, <1>1, <2>2, BitContainedIs
  <2>3. CASE \E n \in Nat \ {0} :
               /\ n # TotalLen(Built(draft))
               /\ fault = [kind |-> "size", at |-> n] /\ wire = Resized(Built(draft), n)
    BY Zenon, <1>1, <2>3, SizeContained
  <2> QED BY Zenon, <1>1, <2>1, <2>2, <2>3 DEF DamagedAs
<1>3. /\ message.refusal = MessageRefusal(wire)
      /\ MessageRefusal(wire) = "none" =>
           message.mid = MsgId(wire) /\ message.rebuilt = FromCMessage(wire)
  BY Zenon, <1>1, MessageIs
<1>4. MessageRefusal(wire) \in
        {"none"} \cup (CcsdsErrors \ {"ApidOutOfRange", "SequenceCountOutOfRange"})
  BY Zenon, RefusalIs
<1>5. Accepted <=> MessageRefusal(wire) = "none"
  BY Zenon, <1>3 DEF Accepted
<1>6. ~Accepted => message.refusal \in
        CcsdsErrors \ {"ApidOutOfRange", "SequenceCountOutOfRange"}
  BY Zenon, <1>3, <1>4, <1>5
<1>7. FaultIsContained
  BY <1>2, <1>5, <1>6 DEF FaultIsContained, Contained
<1>8. MessageIsFaithful
  BY Zenon, <1>2, <1>3, <1>5 DEF MessageIsFaithful, Holds
<1> QED BY <1>7, <1>8 DEF PacketIsKept

\* Whatever one fault did to a packet, a receiver refuses it or holds what was
\* sent but for one field, and a message made from what it holds is that buffer
\* byte for byte, under the id its first word gives: for every value the sealed
\* types admit and every size (packet.rs, primary.rs, convert.rs, message.rs).
THEOREM AlwaysPacketIsKept == PacketSpec => []PacketIsKept
<1>1. PacketSpec => []PathInv
  BY PathStart, PathStep, PTL DEF PacketSpec
<1> QED BY <1>1, PathKeeps, PTL
=============================================================================
