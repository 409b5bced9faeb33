------------------------------ MODULE PacketPath ------------------------------
(***************************************************************************)
(* A packet from its PacketBuilder, over a link that may damage it once,   *)
(* into the buffer and the message of cfs_bindings, and out of it again.   *)
(* The damage is external: one bit of the header inverted, bytes cut from  *)
(* the end or bytes added there.                                           *)
(***************************************************************************)
EXTENDS SpacePacket, FiniteSets

CONSTANTS PacketApids, PacketFuncs, PacketInstances, PacketCounts,
          PacketTimes, PacketSizes,   \* what the setters are called with
          Ends                        \* lengths to which a packet may be cut

\* The setters take the sealed types, and a Cuc is a u32 and a u16.
ASSUME PacketAssumption ==
  /\ PacketApids \subseteq Apids /\ PacketFuncs \subseteq FuncCodes
  /\ PacketInstances \subseteq InstanceIds /\ PacketCounts \subseteq SequenceCounts
  /\ PacketTimes \subseteq [hi : U16, lo : U16, fine : U16]
  /\ PacketSizes \subseteq Nat /\ Ends \subseteq Nat \ {0}

VARIABLES draft,     \* the PacketBuilder
          wire,      \* the buffer in transit, or NoBuffer
          fault,     \* history: what the link did to it
          message    \* what the receiver made of it: refusal, MsgId, rebuilt buffer

pvars == <<draft, wire, fault, message>>

NoBuffer == [head |-> <<>>, data |-> 0]
NoFault == [kind |-> "none", at |-> 0]
NoMessage == [refusal |-> "none", mid |-> 0, rebuilt |-> NoBuffer]
-----------------------------------------------------------------------------
\* MsgId: the id of the Software Bus for an APID and a direction
FromApid(apid, isCmd) == (IF isCmd THEN 6144 ELSE 2048) + apid
MidApid(mid) == mid % 2048
MidIsCommand(mid) == (mid \div 4096) % 2 = 1

\* SbBuffer::from_bytes tests the size alone; into_message parses.
SbRefusal(buf) ==
  IF TotalLen(buf) < HeaderLen THEN "BufferTooShort" ELSE "none"

MessageRefusal(buf) ==
  IF SbRefusal(buf) # "none" THEN SbRefusal(buf) ELSE ParseRefusal(buf)

MsgId(buf) == FromApid(Parsed(buf).apid, Parsed(buf).type = "TC")

\* Mutant of FromCMessage: the sequence count is left to its default.
FromCMessageFresh(buf) ==
  LET p == Parsed(buf)
  IN  Built([EmptyDraft(p.type, p.apid) EXCEPT
               !.func = p.func, !.instance = p.instance, !.time = p.time,
               !.data = buf.data])

\* from_c_message: every field through a PacketBuilder once more
FromCMessage(buf) ==
  LET p == Parsed(buf)
  IN  Built([EmptyDraft(p.type, p.apid) EXCEPT
               !.func = p.func, !.instance = p.instance, !.time = p.time,
               !.seq = p.seq, !.data = buf.data])
-----------------------------------------------------------------------------
PacketInit ==
  /\ draft \in {EmptyDraft(t, a) : t \in PacketTypes, a \in PacketApids}
  /\ wire = NoBuffer /\ fault = NoFault /\ message = NoMessage

\* The setters, in any order; the last call of each counts.
Set ==
  /\ wire = NoBuffer /\ message.refusal = "none"
  /\ \/ \E v \in PacketFuncs : draft' = [draft EXCEPT !.func = v]
     \/ \E v \in PacketInstances : draft' = [draft EXCEPT !.instance = v]
     \/ \E v \in PacketCounts : draft' = [draft EXCEPT !.seq = v]
     \/ \E v \in PacketTimes : draft' = [draft EXCEPT !.time = v]
     \/ \E v \in PacketSizes : draft' = [draft EXCEPT !.data = v]
  /\ UNCHANGED <<wire, fault, message>>

Build ==
  /\ wire = NoBuffer /\ message.refusal = "none"
  /\ IF BuildRefusal(draft) = "none"
     THEN wire' = Built(draft) /\ UNCHANGED message
     ELSE message' = [message EXCEPT !.refusal = BuildRefusal(draft)] /\ UNCHANGED wire
  /\ UNCHANGED <<draft, fault>>

\* Bit 0 is the highest of the first byte.
Weights == <<128, 64, 32, 16, 8, 4, 2, 1>>
Flipped(byte, weight) ==
  IF (byte \div weight) % 2 = 1 THEN byte - weight ELSE byte + weight
Inverted(head, bit) ==
  [head EXCEPT ![1 + (bit \div 8)] = Flipped(@, Weights[1 + (bit % 8)])]

\* The first n bytes of a buffer, or n bytes of which the last ones are new
Resized(buf, n) ==
  IF n < HeaderLen THEN [head |-> SubSeq(buf.head, 1, n), data |-> 0]
  ELSE [buf EXCEPT !.data = n - HeaderLen]

Damage ==
  /\ wire # NoBuffer /\ fault = NoFault /\ message = NoMessage
  /\ \/ \E bit \in 0..127 :
          /\ fault' = [kind |-> "bit", at |-> bit]
          /\ wire' = [wire EXCEPT !.head = Inverted(@, bit)]
     \/ \E n \in (Ends \cup {TotalLen(wire) - 1, TotalLen(wire) + 1})
              \ {TotalLen(wire)} :
          /\ fault' = [kind |-> "size", at |-> n]
          /\ wire' = Resized(wire, n)
  /\ UNCHANGED <<draft, message>>

ToCMessage(buf) ==
  IF MessageRefusal(buf) = "none"
  THEN [refusal |-> "none", mid |-> MsgId(buf), rebuilt |-> FromCMessage(buf)]
  ELSE [NoMessage EXCEPT !.refusal = MessageRefusal(buf)]

Receive ==
  /\ wire # NoBuffer /\ message = NoMessage
  /\ message' = ToCMessage(wire)
  /\ UNCHANGED <<draft, wire, fault>>

PacketNext == Set \/ Build \/ Damage \/ Receive
PacketSpec == PacketInit /\ [][PacketNext]_pvars
-----------------------------------------------------------------------------
Received == wire # NoBuffer /\ message # NoMessage
Accepted == message.refusal = "none"

\* The bits that no other value may take: version, secondary header flag,
\* sequence flags, length, P-field, and the only bit set of a function code or
\* of an instance
PinnedBits ==
  {0, 1, 2, 4, 16, 17} \cup 32..55
  \cup {b \in 104..111 : draft.func = 256 * Weights[b - 103]}
  \cup {b \in 112..119 : draft.func = Weights[b - 111]}
  \cup {b \in 120..127 : draft.instance = Weights[b - 119]}

\* An undamaged packet is read back as it was described; a cut or stretched one
\* is refused, an inverted bit is refused where the format pins it, and changes
\* exactly one field where it does not, and what is refused is not refused for
\* a range, which the masks rule out (primary.rs:191-234, packet.rs:65-88).
FaultIsContained ==
  Received =>
    /\ ~Accepted =>
         message.refusal \in CcsdsErrors \ {"ApidOutOfRange", "SequenceCountOutOfRange"}
    /\ CASE fault.kind = "none" -> Accepted /\ Parsed(wire) = Described(draft)
         [] fault.kind = "size" -> ~Accepted
         [] fault.kind = "bit" ->
              /\ Accepted <=> fault.at \notin PinnedBits
              /\ Accepted =>
                   LET was == Described(draft)  is == Parsed(wire)
                   IN  Cardinality({f \in DOMAIN was : was[f] # is[f]}) = 1

\* What a Message was made from comes out of it byte for byte, and its id is the
\* first word of the packet, the same for both directions of a conversion
\* (convert.rs:44 "byte-identical to the input", message.rs:45-68); no field of
\* it is outside its type.
MessageIsFaithful ==
  Received /\ Accepted =>
    /\ WellTyped(Parsed(wire))
    /\ message.rebuilt = wire
    /\ message.mid = FromBe16(wire.head, 1)
    /\ MidApid(message.mid) = Parsed(wire).apid
    /\ MidIsCommand(message.mid) <=> Parsed(wire).type = "TC"

\* Whatever one fault did to a packet, the receiver refuses it or holds what was
\* sent but for one field, and what it hands on is what it holds.
PacketIsKept == FaultIsContained /\ MessageIsFaithful
=============================================================================
