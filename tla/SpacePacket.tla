----------------------------- MODULE SpacePacket -----------------------------
(***************************************************************************)
(* The wire format of ccsds_wire: a primary header of 6 bytes, a secondary *)
(* header of 10 (CUC time, function code, instance) and user data.  A      *)
(* buffer is [head, data]: its first bytes, at most 16, and the number of  *)
(* bytes behind them, whose contents no operation looks at.  A u32 is kept *)
(* as its two halves.  The module has no state: PacketPath, TcUplink and   *)
(* DemoInjector use it.                                                    *)
(***************************************************************************)
EXTENDS Integers, Sequences

PrimaryLen == 6
HeaderLen == 16
PField == 47               \* 0x2F

\* The ranges that the sealed types Apid, SequenceCount, PacketDataLength,
\* FuncCode and InstanceId admit; zero is no function and no instance.
MaxU16 == 65535
MaxApid == 2047
MaxCount == 16383
Byte == 0..255
U16 == 0..MaxU16
Apids == 0..MaxApid
SequenceCounts == 0..MaxCount
DataLengths == U16
FuncCodes == U16 \ {0}
InstanceIds == 1..255
PacketTypes == {"TM", "TC"}

\* The variants; the two of a range are those of Apid::new and
\* SequenceCount::new, which no decoder can reach behind its masks.
CcsdsErrors ==
  {"BufferTooShort", "InvalidVersion", "InvalidPField", "ApidOutOfRange",
   "SequenceCountOutOfRange", "InstanceIdReserved", "LengthMismatch",
   "SequenceFlagsNotStandalone", "FuncCodeReserved"}

Be16(n) == <<n \div 256, n % 256>>
FromBe16(b, i) == 256 * b[i] + b[i + 1]

TypeBit(type) == IF type = "TC" THEN 1 ELSE 0
-----------------------------------------------------------------------------
\* Version 0, the secondary header flag 1 and the sequence flags 3 are pinned.
EncodePrimary(p) ==
  Be16(2048 + 4096 * TypeBit(p.type) + p.apid)
  \o Be16(49152 + p.seq) \o Be16(p.length)

EncodeCuc(time) == <<PField>> \o Be16(time.hi) \o Be16(time.lo) \o Be16(time.fine)

EncodeSecondary(p) == EncodeCuc(p.time) \o Be16(p.func) \o <<p.instance>>

\* The three version bits and the secondary header flag, without the type bit
TopNibble(b) == 2 * (b \div 32) + ((b \div 8) % 2)

\* Mutant of PrimaryRefusal: the secondary header flag is not looked at.
PrimaryRefusalFlagless(b) ==
  IF Len(b) < PrimaryLen THEN "BufferTooShort"
  ELSE IF b[1] \div 32 # 0 THEN "InvalidVersion"
  ELSE IF b[3] \div 64 # 3 THEN "SequenceFlagsNotStandalone"
  ELSE "none"

PrimaryRefusal(b) ==
  IF Len(b) < PrimaryLen THEN "BufferTooShort"
  ELSE IF TopNibble(b[1]) # 1 THEN "InvalidVersion"
  ELSE IF b[3] \div 64 # 3 THEN "SequenceFlagsNotStandalone"
  ELSE "none"

CucRefusal(b) == IF b[7] # PField THEN "InvalidPField" ELSE "none"

\* b is the whole header: the secondary one starts at its seventh byte.
SecondaryRefusal(b) ==
  IF CucRefusal(b) # "none" THEN CucRefusal(b)
  ELSE IF FromBe16(b, 14) = 0 THEN "FuncCodeReserved"
  ELSE IF b[16] = 0 THEN "InstanceIdReserved"
  ELSE "none"

\* What the two decoders read from a header they do not refuse
DecodePrimary(b) ==
  [type |-> IF (b[1] \div 16) % 2 = 1 THEN "TC" ELSE "TM",
   apid |-> 256 * (b[1] % 8) + b[2],
   seq |-> 256 * (b[3] % 64) + b[4],
   length |-> FromBe16(b, 5)]

DecodeCuc(b) ==
  [hi |-> FromBe16(b, 8), lo |-> FromBe16(b, 10), fine |-> FromBe16(b, 12)]

DecodeSecondary(b) ==
  [time |-> DecodeCuc(b), func |-> FromBe16(b, 14), instance |-> b[16]]

\* The first error of parse, in the order in which it tests
ParseRefusal(buf) ==
  IF Len(buf.head) < HeaderLen THEN "BufferTooShort"
  ELSE IF PrimaryRefusal(buf.head) # "none" THEN PrimaryRefusal(buf.head)
  ELSE IF SecondaryRefusal(buf.head) # "none" THEN SecondaryRefusal(buf.head)
  ELSE IF DecodePrimary(buf.head).length + 7 # HeaderLen + buf.data
    THEN "LengthMismatch"
  ELSE "none"

Parsed(buf) ==
  LET p == DecodePrimary(buf.head)
      s == DecodeSecondary(buf.head)
  IN  [f \in DOMAIN p \cup DOMAIN s |-> IF f \in DOMAIN p THEN p[f] ELSE s[f]]

TotalLen(buf) == Len(buf.head) + buf.data

\* Every field is of its type.
WellTyped(p) ==
  /\ p.type \in PacketTypes /\ p.apid \in Apids /\ p.seq \in SequenceCounts
  /\ p.length \in DataLengths /\ p.func \in FuncCodes /\ p.instance \in InstanceIds
-----------------------------------------------------------------------------
\* PacketBuilder: what has no default must be set before the packet is built.
Unset == -1

EmptyDraft(type, apid) ==
  [type |-> type, apid |-> apid, seq |-> Unset, func |-> Unset,
   instance |-> Unset, time |-> [hi |-> 0, lo |-> 0, fine |-> 0], data |-> 0]

\* The data length field counts the secondary header and stops one short.
RawLength(data) == 9 + data

BuildRefusal(draft) ==
  IF draft.func = Unset THEN "FuncCodeReserved"
  ELSE IF draft.instance = Unset THEN "InstanceIdReserved"
  ELSE IF RawLength(draft.data) \notin DataLengths THEN "LengthMismatch"
  ELSE "none"

\* The packet that a draft describes, and its bytes
Described(draft) ==
  [type |-> draft.type, apid |-> draft.apid,
   seq |-> IF draft.seq = Unset THEN 0 ELSE draft.seq,
   length |-> RawLength(draft.data),
   time |-> draft.time, func |-> draft.func, instance |-> draft.instance]

Built(draft) ==
  LET p == Described(draft)
  IN  [head |-> EncodePrimary(p) \o EncodeSecondary(p), data |-> draft.data]
=============================================================================
