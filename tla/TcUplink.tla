------------------------------- MODULE TcUplink -------------------------------
(***************************************************************************)
(* The three stages of the uplink put together as their example does       *)
(* (examples/uplink_session.rs): TcBuilder makes a packet of an operator's *)
(* intent, Cop1Engine numbers and repeats it, TcFramer puts it into a TC   *)
(* transfer frame.  What reads the frames is external: it goes by the      *)
(* frame layout and by the catalogue (docs/interfaces/packet-catalog.md),  *)
(* not by the code.  The FECF is left out, as no frame is damaged here;    *)
(* Cop1Link models the losses.                                             *)
(*                                                                         *)
(* A packet is [head, data, user], a SpacePacket buffer with its user data *)
(* spelt out.                                                              *)
(***************************************************************************)
EXTENDS SpacePacket

CONSTANTS FopWindow, FopRetransmit, FopSeqs, FopT1, FopStaleAbort, FopNone,
                           \* of the engine, as in Cop1
          Intents,         \* the intents an operator may have
          BulkSizes,       \* sizes of payloads for emergency_bd
          MaxAsked         \* bound: intents in a behaviour

\* TcIntent: the commands of the catalogue, a u32 or i32 as two halves
MaxI16 == 32767
I16 == (-MaxI16 - 1)..MaxI16
Pairs == [hi : U16, lo : U16]
TcIntent ==
  [cmd : {"OrbiterSetMode"}, mode : Byte, reason : Byte]
  \cup [cmd : {"OrbiterEventFilter"}, app : Byte, min : Byte, mask : Pairs]
  \cup [cmd : {"OrbiterAdcsTargetQ"}, q : [1..4 -> Pairs], slew : Byte]
  \cup [cmd : {"OrbiterPowerArm"}, switch : Byte, magic : U16]
  \cup [cmd : {"OrbiterPowerSwitch"}, switch : Byte, on : BOOLEAN, magic : U16]
  \cup [cmd : {"CryobotSetMode"}, mode : Byte, magic : U16]
  \cup [cmd : {"CryobotBwCollapse"}, enable : BOOLEAN, duration : U16]
  \cup [cmd : {"CryobotArm"}, magic : U16]
  \cup [cmd : {"CryobotSetDrillRpm"}, rpm : I16, current : U16, magic : U16]

\* The caller numbers its packets from zero and has 14 bits for it.
ASSUME StageAssumption ==
  /\ Intents \subseteq TcIntent /\ BulkSizes \subseteq Nat
  /\ MaxAsked \in 0..(MaxCount + 1)

VARIABLES engine, clcws, issued,  \* fop, watch and out of Cop1
          asked,            \* history: the intents that were built, in order
          air               \* the frames that the last call put on the wire

uvars == <<engine, clcws, issued, asked, air>>

TcFrameMaxBytes == 512
SpacecraftId == 42
AdVc == 0
BdVc == 7
MaxDrillCurrent == 1000
-----------------------------------------------------------------------------
Be32(v) == Be16(v.hi) \o Be16(v.lo)
Bool8(b) == IF b THEN 1 ELSE 0

ForbiddenParam(i) ==
  i.cmd = "CryobotSetDrillRpm" /\ i.current > MaxDrillCurrent

Cmd(apid, func, user) == [apid |-> apid, func |-> func, user |-> user]

\* TcBuilder::decompose
Decompose(i) ==
  CASE i.cmd = "OrbiterSetMode" -> Cmd(385, 256, <<i.mode, i.reason>>)
    [] i.cmd = "OrbiterEventFilter" ->
         Cmd(385, 512, <<i.app, i.min>> \o Be32(i.mask))
    [] i.cmd = "OrbiterAdcsTargetQ" ->
         Cmd(386, 256, Be32(i.q[1]) \o Be32(i.q[2]) \o Be32(i.q[3])
                       \o Be32(i.q[4]) \o <<i.slew, 0>>)
    [] i.cmd = "OrbiterPowerArm" ->
         Cmd(388, 32768, <<i.switch>> \o Be16(i.magic))
    [] i.cmd = "OrbiterPowerSwitch" ->
         Cmd(388, 33024, <<i.switch, Bool8(i.on)>> \o Be16(i.magic))
    [] i.cmd = "CryobotSetMode" -> Cmd(1088, 256, <<i.mode, 0>> \o Be16(i.magic))
    [] i.cmd = "CryobotBwCollapse" ->
         Cmd(1088, 768, <<Bool8(i.enable), 0>> \o Be16(i.duration))
    [] i.cmd = "CryobotArm" -> Cmd(1088, 32768, Be16(i.magic))
    [] i.cmd = "CryobotSetDrillRpm" ->
         Cmd(1088, 33280, Be16(i.rpm % 65536) \o Be16(i.current)
                          \o Be16(i.magic) \o <<0, 0>>)

\* TcBuilder::build; the time stamp is a constant of the example.
Packet(i, seq) ==
  LET c == Decompose(i)
      b == Built([EmptyDraft("TC", c.apid) EXCEPT
                    !.func = c.func, !.instance = 1, !.seq = seq,
                    !.time = [hi |-> 27, lo |-> 30528, fine |-> 0],
                    !.data = Len(c.user)])
  IN  [head |-> b.head, data |-> b.data, user |-> c.user]

Bulk(size) ==
  [head |-> <<>>, data |-> size, user |-> [k \in 1..size |-> 0]]

Packets == {Packet(i, n) : i \in Intents, n \in 0..(MaxAsked - 1)}
Fop == INSTANCE Cop1
         WITH WindowSize <- FopWindow, MaxRetransmit <- FopRetransmit,
              SeqMod <- FopSeqs, T1 <- FopT1, StaleAbortMult <- FopStaleAbort,
              None <- FopNone, Spp <- Packets,
              fop <- engine, watch <- clcws, out <- issued
-----------------------------------------------------------------------------
\* A TcFrame's payload: the one byte of Set V(R) in a BC frame
PayloadLen(f) == IF f.type = "BC" THEN 1 ELSE TotalLen(f.spp)

FrameLen(f) == 5 + PayloadLen(f) + 2
TooLarge(f) == FrameLen(f) > TcFrameMaxBytes

\* The header of TcFramer::frame
FrameHeader(f) ==
  LET bypass == IF f.type = "AD" THEN 0 ELSE 1
      cc == IF f.type = "BC" THEN 1 ELSE 0
      vc == IF f.type = "BD" THEN BdVc ELSE AdVc
      len == FrameLen(f) - 1
  IN  <<32 * bypass + 16 * cc + ((SpacecraftId \div 256) % 4), SpacecraftId % 256,
        4 * (vc % 64) + ((len \div 256) % 4), len % 256, f.seq>>

\* Mutant of Framed: the length field counts the payload alone.
FramedPayloadLength(f) ==
  [header |-> [FrameHeader(f) EXCEPT ![4] = PayloadLen(f) % 256], payload |-> f.spp]

Framed(f) == [header |-> FrameHeader(f), payload |-> f.spp]
-----------------------------------------------------------------------------
StagesInit == Fop!Init /\ asked = <<>> /\ air = {}

\* The frames that fit, framed; one that does not is an error for the caller.
Sent == air' = {Framed(issued'[k]) : k \in {j \in DOMAIN issued' : ~TooLarge(issued'[j])}}

Open == Fop!Initialize /\ Sent /\ UNCHANGED asked

Refused == engine.state # "Active" \/ Len(engine.window) >= FopWindow

\* A packet is built of every intent that is not forbidden; where the engine
\* refuses it, its number is used up and nothing is sent.
Command ==
  /\ Len(asked) < MaxAsked
  /\ \E i \in Intents :
       /\ ~ForbiddenParam(i)
       /\ asked' = Append(asked, i)
       /\ \/ Fop!Submit(Packet(i, Len(asked)))
          \/ Refused /\ issued' = <<>> /\ UNCHANGED <<engine, clcws>>
  /\ Sent

Emergency ==
  /\ \/ /\ Len(asked) < MaxAsked
        /\ \E i \in Intents :
             /\ ~ForbiddenParam(i)
             /\ Fop!EmergencyBd(Packet(i, Len(asked)))
             /\ asked' = Append(asked, i)
     \/ \E n \in BulkSizes : Fop!EmergencyBd(Bulk(n)) /\ UNCHANGED asked
  /\ Sent

\* The spacecraft's reports, without lockout
Report ==
  /\ \E r \in BOOLEAN, n \in 0..MaxAsked :
       Fop!Publish([lockout |-> FALSE, retransmit |-> r, nr |-> n])
  /\ UNCHANGED <<asked, air>>

RunTick == Fop!Tick /\ Sent /\ UNCHANGED asked
Wait == Fop!Elapse /\ UNCHANGED <<asked, air>>

StagesNext == Open \/ Command \/ Emergency \/ Report \/ RunTick \/ Wait
StagesSpec == StagesInit /\ [][StagesNext]_uvars
-----------------------------------------------------------------------------
(* External: the frame layout of framer.rs:7-15 and the catalogue.         *)

ReadHeader(h) ==
  [type |-> IF (h[1] \div 32) % 2 = 0 THEN "AD"
            ELSE IF (h[1] \div 16) % 2 = 1 THEN "BC" ELSE "BD",
   scid |-> 256 * (h[1] % 4) + h[2], vc |-> h[3] \div 4,
   length |-> 256 * (h[3] % 4) + h[4] + 1, seq |-> h[5]]

Word(u, at) == 256 * u[at + 1] + u[at + 2]
Long(u, at) == [hi |-> Word(u, at), lo |-> Word(u, at + 2)]
Signed(n) == IF n > 32767 THEN n - 65536 ELSE n

\* The catalogue reads command i in user data u, by the offsets it gives for an
\* APID and a function code.
Reads(i, apid, func, u) ==
  LET Is(a, f, size) == <<apid, func>> = <<a, f>> /\ Len(u) = size
  IN
    \/ Is(385, 256, 2) /\ i = [cmd |-> "OrbiterSetMode", mode |-> u[1], reason |-> u[2]]
    \/ Is(385, 512, 6) /\ i = [cmd |-> "OrbiterEventFilter", app |-> u[1],
                               min |-> u[2], mask |-> Long(u, 2)]
    \/ Is(386, 256, 18) /\ i = [cmd |-> "OrbiterAdcsTargetQ",
                                q |-> [k \in 1..4 |-> Long(u, 4 * (k - 1))],
                                slew |-> u[17]]
    \/ Is(388, 33024, 4) /\ i = [cmd |-> "OrbiterPowerSwitch", switch |-> u[1],
                                 on |-> u[2] = 1, magic |-> Word(u, 2)]
    \/ Is(388, 32768, 3) /\ i = [cmd |-> "OrbiterPowerArm", switch |-> u[1],
                                 magic |-> Word(u, 1)]
    \/ Is(1088, 256, 4) /\ i = [cmd |-> "CryobotSetMode", mode |-> u[1],
                                magic |-> Word(u, 2)]
    \/ Is(1088, 33280, 8) /\ i = [cmd |-> "CryobotSetDrillRpm",
                                  rpm |-> Signed(Word(u, 0)),
                                  current |-> Word(u, 2), magic |-> Word(u, 4)]
    \/ Is(1088, 768, 4) /\ i = [cmd |-> "CryobotBwCollapse", enable |-> u[1] = 1,
                                duration |-> Word(u, 2)]
    \/ Is(1088, 32768, 2) /\ i = [cmd |-> "CryobotArm", magic |-> Word(u, 0)]

Understood(p) ==
  LET head == Parsed(p)
  IN  {i \in Intents : Reads(i, head.apid, head.func, p.user)}

\* Every frame on the wire, first time or repeated, is as long as its header
\* says and within the limit; a sequence-controlled one carries a number that
\* the engine still holds; and what the catalogue reads in the packet, by its
\* own number, is the intent that the operator gave, never one of the
\* forbidden ones (builder.rs:103-222, framer.rs:65-105, cop1.rs:182-206).
CommandComesThrough ==
  \A x \in air :
    LET h == ReadHeader(x.header)
        p == x.payload
    IN  /\ h.scid = SpacecraftId /\ h.length <= TcFrameMaxBytes
        /\ h.type = "BC" => h.length = 8 /\ h.vc = AdVc
        /\ h.type # "BC" => h.length = 7 + TotalLen(p)
        /\ h.type = "AD" =>
             /\ h.vc = AdVc
             /\ \E j \in DOMAIN engine.window :
                  engine.window[j].seq = h.seq /\ engine.window[j].spp = p
        /\ h.type = "BD" => h.vc = BdVc
        /\ h.type # "BC" /\ p.head # <<>> =>
             /\ ParseRefusal(p) = "none"
             /\ Parsed(p).seq < Len(asked)
             /\ Understood(p) = {asked[Parsed(p).seq + 1]}
             /\ \A i \in Understood(p) : ~ForbiddenParam(i)
=============================================================================
