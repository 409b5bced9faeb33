----------------------------- MODULE McuGateway -----------------------------
(***************************************************************************)
(* The gateways between a bus of microcontrollers and the Software Bus     *)
(* (apps/mcu_eps_gw, mcu_rwa_gw, mcu_payload_gw): the same loop over       *)
(* UART/HDLC, CAN and SpaceWire; bus says which of the three it is.  A     *)
(* frame is a sequence; its last element is the end marker on SpaceWire,   *)
(* its first the frame type on CAN.  The bytes of HDLC are 0..3.  The bus  *)
(* drivers are stubs in the code, which the unit tests replace; here a     *)
(* poll may bring any of the bus's Frames that FrameBuf can hold.          *)
(***************************************************************************)
EXTENDS Integers, Sequences

CONSTANTS Frames,          \* the frames a poll may bring, of each bus
          Packets,         \* the packets a sender frames on HDLC
          SilenceCycles,   \* SILENCE_CYCLES, 3
          MaxUnescaped,    \* MCU_EPS_GW_MAX_UNESCAPED, 258, scaled
          MaxFrameLen,     \* MAX_FRAME_LEN of each bus: 514, 8 and 257, scaled
          FrameCountMod    \* 2^32 of the counters, scaled

ASSUME GatewayAssumption ==
  /\ SilenceCycles \in Nat \ {0} /\ FrameCountMod \in Nat \ {0}
  /\ DOMAIN Frames = {"hdlc", "can", "spw"}
  /\ MaxFrameLen \in [DOMAIN Frames -> Nat]
  /\ \A p \in Packets : p \in Seq(0..3) /\ Len(p) + 2 \in 3..MaxUnescaped

VARIABLES bus,          \* which gateway this is, for good
          silence,      \* SilenceCount
          assembling,   \* MCU_RWA_GW_CanInProgress
          frameCount,   \* FramesValid, FramesCorrupt, ErrCounter
          given,        \* the last frame a poll brought
          recent,       \* history: the last SilenceCycles rounds
          opener        \* history: type of the last frame on CAN which was not
                        \* a consecutive frame, or "corrupt"

gvars == <<bus, silence, assembling, frameCount, given, recent, opener>>
-----------------------------------------------------------------------------
(* HDLC, four bytes: a flag, an escape, and two that mean themselves.      *)
FLAG == 3
ESC == 2
EscXor(b) == (b + 2) % 4

\* CRC-16 as two bytes of which no more is used than that they depend on s
Crc16(s) ==
  LET crc[k \in 0..Len(s)] == IF k = 0 THEN 15 ELSE (2 * crc[k - 1] + s[k]) % 16
  IN  <<crc[Len(s)] % 4, crc[Len(s)] \div 4>>

\* Mutant of UnescapeStep: the byte after an escape is taken as it is.
UnescapeStepPlain(u, b) ==
  IF b = ESC /\ ~u.esc THEN [u EXCEPT !.esc = TRUE]
  ELSE [bytes |-> Append(u.bytes, b), esc |-> FALSE]

\* One byte of the unescaping loop
UnescapeStep(u, b) ==
  IF u.esc THEN [bytes |-> Append(u.bytes, EscXor(b)), esc |-> FALSE]
  ELSE IF b = ESC THEN [u EXCEPT !.esc = TRUE]
  ELSE [u EXCEPT !.bytes = Append(@, b)]

\* The whole loop; esc is left set by an escape at the end.
Unescaped(body) ==
  LET loop[k \in 0..Len(body)] ==
        IF k = 0 THEN [bytes |-> <<>>, esc |-> FALSE]
        ELSE UnescapeStep(loop[k - 1], body[k])
  IN  loop[Len(body)]

\* ValidateHdlcFrame: whatever is wrong, the frame is dropped.
ValidHdlc(f) ==
  /\ Len(f) >= 4 /\ f[1] = FLAG /\ f[Len(f)] = FLAG
  /\ LET u == Unescaped(SubSeq(f, 2, Len(f) - 1))
         n == Len(u.bytes)
     IN  /\ ~u.esc /\ n \in 3..MaxUnescaped
         /\ Crc16(SubSeq(u.bytes, 1, n - 2)) = SubSeq(u.bytes, n - 1, n)

\* Two senders.  The layout of ICD-mcu-cfs.md section 2.3 and of the comment
\* above ValidateHdlcFrame has the CRC behind the escaped packet as it is; with
\* the byte stuffing of RFC 1662, which the section refers to, everything between
\* the flags is escaped.  They differ when a byte of the CRC is FLAG or ESC.
EscapedByte(b) == IF b \in {FLAG, ESC} THEN <<ESC, EscXor(b)>> ELSE <<b>>
Escaped(s) ==
  LET sent[k \in 0..Len(s)] == IF k = 0 THEN <<>> ELSE sent[k - 1] \o EscapedByte(s[k])
  IN  sent[Len(s)]
HdlcFrame(p) == <<FLAG>> \o (Escaped(p) \o Crc16(p)) \o <<FLAG>>
StuffedFrame(p) == <<FLAG>> \o Escaped(p \o Crc16(p)) \o <<FLAG>>
-----------------------------------------------------------------------------
\* ValidateCanFrame: a consecutive frame needs an assembly in progress.
ValidCan(f) ==
  /\ f # <<>>
  /\ \/ f[1] \in {"single", "first"}
     \/ f[1] = "consecutive" /\ assembling

\* ValidateSpwFrame: anything but the error marker ends a packet.
ValidSpw(f) == f # <<>> /\ f[Len(f)] # "eep"

Accepted(f) == CASE bus = "hdlc" -> ValidHdlc(f)
                 [] bus = "can"  -> ValidCan(f)
                 [] bus = "spw"  -> ValidSpw(f)

GatewayInit ==
  /\ bus \in DOMAIN Frames
  /\ silence = 0 /\ assembling = FALSE
  /\ frameCount = [valid |-> 0, corrupt |-> 0, err |-> 0]
  /\ given = <<>> /\ recent = <<>> /\ opener = "none"

Increment(c, k) == [c EXCEPT ![k] = (@ + 1) % FrameCountMod]

\* The command pipe: a command goes to a stub, an error is counted.
PipeResults == {"command", "empty", "error"}
Drained(p) == IF p = "error" THEN Increment(frameCount, "err") ELSE frameCount

\* What a round came to, with the rounds before it
Seen(hk, alarm) ==
  LET r == Append(recent, [hk |-> hk, alarm |-> alarm])
  IN  IF Len(r) > SilenceCycles THEN Tail(r) ELSE r

\* Mutant of CountSilence: one cycle too many.
CountSilenceLonger ==
  /\ silence' = IF silence >= SilenceCycles THEN 0 ELSE silence + 1
  /\ recent' = Seen(FALSE, silence >= SilenceCycles)

\* SilenceCount++, and the event that reports the silence starts it again.
CountSilence ==
  /\ silence' = IF silence + 1 >= SilenceCycles THEN 0 ELSE silence + 1
  /\ recent' = Seen(FALSE, silence + 1 >= SilenceCycles)

EndSilence == silence' = 0 /\ recent' = Seen(TRUE, FALSE)

\* A valid frame: housekeeping is published.  The frame itself is not.
ValidFrame(c, f) ==
  /\ Accepted(f)
  /\ frameCount' = Increment(c, "valid")
  /\ EndSilence
  /\ assembling' = (bus = "can" /\ f[1] \in {"first", "consecutive"})
  /\ opener' = IF bus # "can" \/ f[1] = "consecutive" THEN opener ELSE f[1]

\* Mutant of CorruptFrame: the assembly goes on.
CorruptFrameKeepsAssembly(c, f) ==
  /\ ~Accepted(f)
  /\ frameCount' = Increment(Increment(c, "corrupt"), "err")
  /\ CountSilence
  /\ opener' = "corrupt"
  /\ UNCHANGED assembling

\* A frame that is not valid ends the assembly in progress.
CorruptFrame(c, f) ==
  /\ ~Accepted(f)
  /\ frameCount' = Increment(Increment(c, "corrupt"), "err")
  /\ CountSilence
  /\ assembling' = FALSE
  /\ opener' = "corrupt"

\* BUS_NO_DATA, or an error of the driver
NoFrame(c) ==
  /\ \/ frameCount' = c
     \/ frameCount' = Increment(c, "err")
  /\ CountSilence
  /\ given' = <<>>
  /\ UNCHANGED <<assembling, opener>>

\* One round of AppMain: the command pipe, then PollAndPublish
Round ==
  \E p \in PipeResults :
    /\ \/ \E f \in Frames[bus] :
            /\ Len(f) <= MaxFrameLen[bus]
            /\ ValidFrame(Drained(p), f) \/ CorruptFrame(Drained(p), f)
            /\ given' = f
       \/ NoFrame(Drained(p))
    /\ UNCHANGED bus

GatewaySpec == GatewayInit /\ [][Round]_gvars
-----------------------------------------------------------------------------
\* Silence is what mcu_eps_gw.h:37 says, SilenceCycles polls in a row with no
\* valid frame: of any SilenceCycles rounds one published housekeeping or reported
\* silence, and a round reports it only at the end of SilenceCycles without a
\* valid frame (mcu_eps_gw.c:140-186).  Nothing is said about the time this takes.
SilenceReported ==
  Len(recent) = SilenceCycles =>
    /\ \E i \in 1..SilenceCycles : recent[i].hk \/ recent[i].alarm
    /\ recent[SilenceCycles].alarm => \A i \in 1..SilenceCycles : ~recent[i].hk

\* The HDLC check accepts whatever fits FrameBuf and is stuffed as a whole, with
\* flags and escapes among the bytes of the packet or of its CRC; and what is
\* laid out as in ICD-mcu-cfs.md section 2.3, if the CRC has no escape in it
\* (mcu_eps_gw.c:246-311).
FramedIsAccepted ==
  bus = "hdlc" /\ (\E p \in Packets :
                     \/ given = StuffedFrame(p)
                     \/ given = HdlcFrame(p) /\ \A i \in 1..2 : Crc16(p)[i] # ESC)
    => recent[Len(recent)].hk

\* A consecutive frame is accepted only if the last frame of another type was a
\* first frame and no frame in between was dropped (mcu_rwa_gw.c:217-253).
FragmentsFollowFirst ==
  bus = "can" /\ given # <<>> /\ given[1] = "consecutive" /\ recent[Len(recent)].hk
    => opener = "first"
=============================================================================
