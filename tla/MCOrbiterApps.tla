---------------------------- MODULE MCOrbiterApps ----------------------------
(* The orbiter's applications, each alone with everything its pipe may        *)
(* deliver, and then three of them on the Software Bus (FlightBus): app says  *)
(* which runs in a behaviour.                                                 *)
(* orbiter_comm: time-out of 2 cycles for 10, idle counter up to 4.           *)
(* orbiter_power: every load and one that does not exist, every mode and one  *)
(* beyond, actions off, on and a byte that is neither.                        *)
(* orbiter_cdh: every mode and one beyond.  Counters wrap at 2.               *)
(* Gateways: HDLC packets of up to three bytes, of which two need an escape,  *)
(* in a buffer of 8 bytes for 514: as mcu_eps_gw.h:31 has it, twice the       *)
(* longest packet and the flags.                                              *)
(* Bus: pipes of depth 2 for 20, so that requests can fill one.               *)
EXTENDS FlightBus, McuGateway, SequencesExt, TLC

VARIABLES app, powerMode, load, powerCount, published,
          payloadPower, science, payloadCount, payloadTlm, target, adcsCount,
          adcsTlm, sampleCount, simCount, simUptime, waiting

powerVars == <<powerMode, load, powerCount, published>>
payloadVars == <<payloadPower, science, payloadCount, payloadTlm>>
adcsVars == <<target, adcsCount, adcsTlm, sampleCount>>
simVars == <<simCount, simUptime, waiting>>
busVars == <<bridgeVars, pipe, asked, brought, bridgeHk, tcSent, resetAt>>
appVars == <<app, cvars, powerVars, cdhVars, payloadVars, adcsVars, gvars, simVars,
             busVars>>

Rates == (0 :> 50) @@ (1 :> 20) @@ (2 :> 800) @@ (3 :> 100)

CommMessages ==
  {[mid |-> "COMM_CMD", cc |-> c] : c \in {"noop", "reset", "other"}}
  \cup {[mid |-> "COMM_CMD", cc |-> "rate", vc |-> v, kbps |-> k] :
          v \in {0, 2, 4}, k \in {0, 50, 1000, 1001}}
  \cup {[mid |-> "COMM_CMD", cc |-> "tcp", id |-> i] : i \in {1, 2}}
  \cup {[mid |-> i] : i \in {"COMM_HK", "ROVER_LAND_HK", "OTHER"}}

PowerMessages ==
  {[cc |-> "switch", load |-> l, action |-> a] : l \in 0..4, a \in {0, 1, 7}}
  \cup {[cc |-> "mode", mode |-> k] : k \in 0..3}
  \cup {[cc |-> c] : c \in {"noop", "reset", "other", "eps", "hk"}}

CdhMessages ==
  {[mid |-> "CDH_CMD", cc |-> "mode", mode |-> k] : k \in 0..3}
  \cup {[mid |-> "CDH_CMD", cc |-> c] : c \in {"noop", "reset", "filter", "other"}}
  \cup {[mid |-> i] : i \in {"CDH_HK", "COMM_HK", "OTHER"}}

PlainMessages == {[cc |-> c] : c \in {"noop", "reset", "other", "hk"}}
PayloadMessages == PlainMessages \cup {[cc |-> "gateway"]}
  \cup {[cc |-> "power", on |-> b] : b \in 0..2}
  \cup {[cc |-> "science", mode |-> k] : k \in {0, 3, 4}}
AdcsMessages == PlainMessages \cup {[cc |-> "wheel"]}
  \cup {[cc |-> "quat", quat |-> q] : q \in {"unit", "off", "nan"}}

Power == INSTANCE OrbiterPower
           WITH mode <- powerMode, count <- powerCount, Messages <- PowerMessages
CdhAlone == INSTANCE OrbiterCdh
              WITH count <- cdhCount, out <- cdhOut, Messages <- CdhMessages
Payload == INSTANCE OrbiterPayload
             WITH power <- payloadPower, count <- payloadCount,
                  published <- payloadTlm, Messages <- PayloadMessages
Adcs == INSTANCE OrbiterAdcs
          WITH count <- adcsCount, published <- adcsTlm, Messages <- AdcsMessages
Sample == INSTANCE SampleApp WITH count <- sampleCount, Messages <- PlainMessages
Sim == INSTANCE SimAdapter WITH count <- simCount, uptime <- simUptime

\* The gateways take frames from three buses.
CanFrames == {<<>>} \cup {<<t>> : t \in {"single", "first", "consecutive", "other"}}
SpwFrames == {<<>>, <<"eep">>, <<"data", "eop">>, <<"data", "eep">>, <<"data">>}
\* What either sender frames, one byte of it wrong, and frames too long, too
\* short and with an escape at the end
ShortPackets == (SeqOf(0..3, 2) \ {<<>>}) \cup {<<b, 0, b>> : b \in 0..3}
Framed == {HdlcFrame(p) : p \in ShortPackets} \cup {StuffedFrame(p) : p \in ShortPackets}
OneByteWrong == {[f EXCEPT ![Len(f) \div 2] = 0] : f \in Framed}
                \cup {[f EXCEPT ![1] = 0] : f \in Framed}
HdlcFrames == Framed \cup OneByteWrong
              \cup {HdlcFrame(<<0, 1, 0, 1>>), <<>>, <<3, 0, 3>>, <<3, 0, 2, 3>>}
BufLens == [hdlc |-> 8, can |-> 8, spw |-> 8]
BusFrames == [hdlc |-> HdlcFrames, can |-> CanFrames, spw |-> SpwFrames]

\* orbiter_comm, orbiter_cdh and ros2_bridge on the bus: two rover commands, one
\* for orbiter_comm and a reset of the bridge, requests for the housekeeping of orbiter_comm
Requests == {"COMM_HK"}
UplinkCommands == {[mid |-> "ROVER_LAND_CMD", n |-> k] : k \in {1, 2}}
                  \cup {[mid |-> "COMM_CMD", cc |-> "noop"],
                        [mid |-> "ROS2_BRIDGE_CMD", cc |-> "reset"]}
FromRos == {"ROVER_LAND_HK", "refused"}

AppsInit ==
  /\ app \in {"comm", "power", "cdh", "payload", "adcs", "sample", "gateway",
             "sim", "bus"}
  /\ BusInit /\ Power!Init /\ Payload!Init /\ Adcs!Init
  /\ Sample!Init /\ Sim!Init
  /\ GatewayInit /\ (app # "gateway" => bus = "can")

CommStep == app = "comm" /\ Next
            /\ UNCHANGED <<powerVars, cdhVars, payloadVars, adcsVars, gvars, simVars, busVars>>
PowerStep == app = "power" /\ Power!Next
             /\ UNCHANGED <<cvars, cdhVars, payloadVars, adcsVars, gvars, simVars, busVars>>
CdhStep == app = "cdh" /\ CdhAlone!Next
           /\ UNCHANGED <<cvars, powerVars, payloadVars, adcsVars, gvars, simVars, busVars>>
PayloadStep == app = "payload" /\ Payload!Next
               /\ UNCHANGED <<cvars, powerVars, cdhVars, adcsVars, gvars, simVars, busVars>>
AdcsStep == app = "adcs" /\ Adcs!Next
            /\ UNCHANGED <<cvars, powerVars, cdhVars, payloadVars, sampleCount, gvars, simVars, busVars>>
SampleStep == app = "sample" /\ Sample!Next
              /\ UNCHANGED <<cvars, powerVars, cdhVars, payloadVars, target, adcsCount,
                            adcsTlm, gvars, simVars, busVars>>
GatewayStep == app = "gateway" /\ Round
               /\ UNCHANGED <<cvars, powerVars, cdhVars, payloadVars, adcsVars, simVars, busVars>>
SimStep == app = "sim" /\ Sim!Next
           /\ UNCHANGED <<cvars, powerVars, cdhVars, payloadVars, adcsVars, gvars, busVars>>

BusStep == app = "bus" /\ BusNext
           /\ UNCHANGED <<powerVars, payloadVars, adcsVars, gvars, simVars>>

AppsNext == (\/ CommStep \/ PowerStep \/ CdhStep \/ PayloadStep \/ AdcsStep
             \/ SampleStep \/ GatewayStep \/ SimStep \/ BusStep) /\ UNCHANGED app
AppsSpec == AppsInit /\ [][AppsNext]_appVars
=============================================================================
