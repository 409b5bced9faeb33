---------------------------- MODULE DemoInjector ----------------------------
(***************************************************************************)
(* The demonstration sender (bin/demo_injector.rs): once per tick a packet *)
(* of every asset and one event, each in an AOS frame of its own.  A       *)
(* packet is a SpacePacket buffer with its user data, [head, data, user].  *)
(* What the code computes with floating point is left out: such a number   *)
(* is FloatBytes, or one of two values that noise chooses.                 *)
(***************************************************************************)
EXTENDS SpacePacket, Functions

VARIABLES tick, seq, frameCtr,  \* InjectorState
          step                  \* the next send of inject_tick

ivars == <<tick, seq, frameCtr, step>>

FieldLen == 1016                \* DATA_FIELD_MAX, of a frame without OCF
VcHk == 0
VcEvent == 1
VcRover == 3

\* tai_now, kept constant; two halves of the 32 bits
TaiNow == [hi |-> 26000, lo |-> 37, fine |-> 0]
-----------------------------------------------------------------------------
Be32(n) == Be16(n \div 65536) \o Be16(n % 65536)
U16Le(n) == <<n % 256, n \div 256>>
U32Le(n) == U16Le(n % 65536) \o U16Le(n \div 65536)
FloatBytes(n) == [k \in 1..(4 * n) |-> 0]

\* packets_routed, apid_rejects, tc_forwarded, uptime_s, cmd_counter, err_counter
BridgeCounters(t) == <<3 * t, 2, t, t, (3 * t) + 2, 0>>

\* The signal strength, and the eight bytes of last_contact
Strength(noise) == 120 + (120 * noise)
LastContact(t) == <<65, 217, 84, 252, 64, t % 256, 0, 0>>

\* The three ages of fleet_hk
FleetAges(noise) == <<700 + (200 * noise), 750 + (300 * noise), 750 + (400 * noise)>>

\* The payloads of the orbiter
CdhHk(t) == <<1, 0, t % 256, 0, 0, 0>> \o U32Le(t)
AdcsHk == FloatBytes(7) \o <<0, 0, 0, 0>>
CommHk(t) == <<1, 0, 100, 0, t % 256, 0, 0, 0>>
Ros2BridgeHk(t) ==
  LET c == BridgeCounters(t)
  IN  U32Le(c[1]) \o U32Le(c[2]) \o U32Le(c[3]) \o U32Le(c[4]) \o U32Le(c[5]) \o U32Le(c[6])
Prx1Hk(t, noise) == <<1, Strength(noise)>> \o LastContact(t)
Battery(t) == IF t \div 120 > 90 THEN 0 ELSE 90 - (t \div 120)
PowerHk(t, noise) ==
  U16Le(28000 + (1400 * noise)) \o U16Le(Battery(t)) \o U16Le(2110) \o U16Le(0)
PayloadHk(t) == <<1, 0>> \o U16Le(1000) \o U16Le(t % 65536) \o U16Le(t % 65536)
FleetHk(noise) ==
  LET a == FleetAges(noise)
  IN  <<7>> \o Be32(a[1]) \o Be32(a[2]) \o Be32(a[3])

\* The payloads of the vehicles; a temperature is tenths of a degree in 16 bits.
RoverLandHk == FloatBytes(3) \o <<20, 0>>
RoverLandHkN(noise) == FloatBytes(3) \o U16Le(10 + (20 * noise))
TitanRoverHk(noise) == FloatBytes(3) \o U16Le(65 + (20 * noise))
UavHk == FloatBytes(4)
RoverCryoHk(noise) == FloatBytes(2) \o U16Le(((100 * noise) - 1850) % 65536)
TitanCryoHk(noise) == FloatBytes(2) \o U16Le(((60 * noise) - 1820) % 65536)

From(first, n) == [k \in 1..n |-> first + k - 1]
LandRovers == From(768, 3)                                    \* 0x300
Uavs == From(960, 5)                                          \* 0x3C0
Cryobot == 1024                                               \* 0x400
TitanRovers == From(1040, 3)                                  \* 0x410
TitanUavs == From(1056, 5)                                    \* 0x420
TitanCryobots == From(1072, 4)                                \* 0x430

\* Which payload inject_tick gives an APID
HkPayload(apid, t, noise) ==
  CASE apid = 257 -> CdhHk(t)
    [] apid = 272 -> AdcsHk
    [] apid = 288 -> CommHk(t)
    [] apid = 296 -> Ros2BridgeHk(t)
    [] apid = 297 -> Prx1Hk(t, noise)
    [] apid = 304 -> PowerHk(t, noise)
    [] apid = 320 -> PayloadHk(t)
    [] apid = 352 -> FleetHk(noise)
    [] apid = 768 -> RoverLandHk
    [] apid \in {769, 770} -> RoverLandHkN(noise)
    [] apid \in Range(TitanRovers) -> TitanRoverHk(noise)
    [] apid \in Range(Uavs \o TitanUavs) -> UavHk
    [] apid = Cryobot -> RoverCryoHk(noise)
    [] apid \in Range(TitanCryobots) -> TitanCryoHk(noise)

\* EVENTS: the APID, the severity and the length of the message
Events == <<<<257, 1, 52>>, <<272, 1, 58>>, <<288, 2, 42>>, <<296, 1, 45>>,
            <<304, 1, 55>>, <<320, 1, 55>>, <<768, 1, 45>>, <<960, 2, 37>>,
            <<1024, 1, 47>>, <<272, 3, 51>>>>
EventTemplate(t) == Events[1 + (t % Len(Events))]

\* event_payload; every character of a message is an A.
EventPayload(severity, len) == <<severity>> \o [k \in 1..len |-> 65] \o <<0>>

\* The sends of inject_tick but the last, which is the event: on the channel of
\* housekeeping the orbiter's, then Mars and Titan on that of the rovers
On(vc, apids) == [k \in DOMAIN apids |-> <<apids[k], vc>>]
OrbiterSends == On(VcHk, <<257, 272, 288, 296, 297, 304, 320, 352>>)
MarsSends == On(VcRover, LandRovers \o Uavs \o <<Cryobot>>)
TitanSends == On(VcRover, TitanRovers \o TitanUavs \o TitanCryobots)
Script == OrbiterSends \o MarsSends \o TitanSends
-----------------------------------------------------------------------------
\* The packet that send makes
Packet(apid, n, user) ==
  LET b == Built([EmptyDraft("TM", apid) EXCEPT
                    !.seq = n, !.time = TaiNow, !.func = 2, !.instance = 1,
                    !.data = Len(user)])
  IN  [head |-> b.head, data |-> b.data, user |-> user]

\* build_aos_frame: the rest of the data field is filled with zeros.
BuildAosFrame(packet, vc, ctr) ==
  LET len == IF TotalLen(packet) < FieldLen THEN TotalLen(packet) ELSE FieldLen
  IN  [vc |-> vc, ocf |-> FALSE, ctr |-> ctr,
       field |-> [packet EXCEPT !.data = (len - HeaderLen) + (FieldLen - len)]]

InjectorInit == tick = 0 /\ seq = 0 /\ frameCtr = 0 /\ step = 1

\* What the next send is given: the event comes last.
NextSends ==
  IF step <= Len(Script)
  THEN {[apid |-> Script[step][1], vc |-> Script[step][2], tick |-> tick, noise |-> z,
         user |-> HkPayload(Script[step][1], tick, z)] : z \in 0..1}
  ELSE LET e == EventTemplate(tick)
       IN  {[apid |-> e[1], vc |-> VcEvent, tick |-> tick, noise |-> 0,
             user |-> EventPayload(e[2], e[3])]}

\* next_seq and next_frame_ctr, and the place in inject_tick
Advance ==
  /\ seq' = (seq + 1) % 16384
  /\ frameCtr' = (frameCtr + 1) % 256
  /\ step' = IF step <= Len(Script) THEN step + 1 ELSE 1
  /\ tick' = IF step <= Len(Script) THEN tick ELSE tick + 1
=============================================================================
