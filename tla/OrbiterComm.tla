---------------------------- MODULE OrbiterComm ----------------------------
(***************************************************************************)
(* orbiter_comm (apps/orbiter_comm/fsw/src/orbiter_comm.c): it decides     *)
(* whether the ground hears the orbiter, from the commands it receives and *)
(* its own housekeeping cycle, and passes other parts' telemetry on.       *)
(*                                                                         *)
(* Process(m) is one turn of AppMain: one message taken from CmdPipe.  out *)
(* is what the turn transmits on the Software Bus, air what it sends to    *)
(* the ground's UDP port.  The CFDP table is left out: no code path        *)
(* changes it after Init.                                                  *)
(***************************************************************************)
EXTENDS Integers, Sequences, FiniteSets, Functions

CONSTANTS LosTimeout,    \* ORBITER_COMM_LOS_TIMEOUT_CYCLES
          MaxRate,       \* ORBITER_COMM_MAX_RATE_KBPS
          DefaultRate,   \* ORBITER_COMM_DEFAULT_RATE_VC0..3, a function of 0..3
          MaxIdle,       \* UINT32_MAX of UplinkIdleCount, scaled
          CountMod,      \* 2^32 of the counters, scaled
          Messages,      \* what the pipe may deliver
          HkMid          \* the id in HkTlm.Header, which Init never sets

ASSUME CommAssumption ==
  /\ LosTimeout \in Nat \ {0} /\ MaxRate \in Nat /\ CountMod \in Nat \ {0}
  /\ MaxIdle \in Nat /\ MaxIdle >= LosTimeout
  /\ DefaultRate \in [0..3 -> 0..MaxRate]
ASSUME RateCommandAssumption ==
  \A m \in Messages : m.mid = "COMM_CMD" =>
    (m.cc = "rate" => m.vc \in Nat /\ m.kbps \in Nat)

VARIABLES link,    \* ORBITER_COMM_LinkState
          idle,    \* UplinkIdleCount
          rate,    \* HkTlm.DownlinkRateKbps
          probe,   \* HkTlm.RttProbeIdEcho
          count,   \* CmdCounter, ErrCounter
          out, air,
          quiet    \* history: HK cycles since the last command, LosTimeout for
                   \* that many or more, -1 when there was none

cvars == <<link, idle, rate, probe, count, out, air, quiet>>
-----------------------------------------------------------------------------
\* The six telemetry ids it forwards to the ground
Forwarded == {"ROVER_LAND_HK", "ROVER_UAV_HK", "ROVER_CRYOBOT_HK",
              "ROS2_BRIDGE_HK", "ROS_GND_LINK_STATE", "FLEET_MONITOR_HK"}

\* The ids CmdPipe is subscribed to
Subscribed == Forwarded \cup {"COMM_CMD", "COMM_HK"}

Init ==
  /\ link = "LOS" /\ idle = 0 /\ rate = DefaultRate /\ probe = 0
  /\ count = [cmd |-> 0, err |-> 0]
  /\ out = <<>> /\ air = <<>> /\ quiet = -1

Counted(c) == [count EXCEPT ![c] = (@ + 1) % CountMod]

RateAcceptedAny(m) == m.vc <= 3                                  \* mutant
RateAccepted(m) == m.vc <= 3 /\ m.kbps <= MaxRate

\* ProcessGroundCommand: any command, also one that is refused, asserts AOS.
GroundCommand(m) ==
  /\ m.mid = "COMM_CMD"
  /\ link' = "AOS" /\ idle' = 0 /\ quiet' = 0
  /\ \/ /\ m.cc = "noop"
        /\ count' = Counted("cmd")
        /\ UNCHANGED <<rate, probe>>
     \/ /\ m.cc = "reset"
        /\ count' = [cmd |-> 0, err |-> 0]
        /\ UNCHANGED <<rate, probe>>
     \/ /\ m.cc = "rate" /\ RateAccepted(m)
        /\ rate' = [rate EXCEPT ![m.vc] = m.kbps]
        /\ count' = Counted("cmd")
        /\ UNCHANGED probe
     \/ /\ m.cc = "rate" /\ ~RateAccepted(m)
        /\ count' = Counted("err")
        /\ UNCHANGED <<rate, probe>>
     \/ /\ m.cc = "tcp"
        /\ probe' = m.id
        /\ count' = Counted("cmd")
        /\ UNCHANGED rate
     \/ /\ m.cc = "other"
        /\ count' = Counted("err")
        /\ UNCHANGED <<rate, probe>>
  /\ out' = <<>> /\ air' = <<>>

\* UplinkIdleCount saturates.
IdleAfter(i) == IF i < MaxIdle THEN i + 1 ELSE i

LosDueLater(i) == i > LosTimeout                                 \* mutant
LosDue(i) == i >= LosTimeout

\* Mutant of SendHk: the packet leaves before the link is judged.
SendHkBeforeLos(m) ==
  /\ m.mid = "COMM_HK"
  /\ idle' = IdleAfter(idle)
  /\ link' = IF LosDue(idle') THEN "LOS" ELSE link
  /\ out' = <<HkMid>>
  /\ air' = IF link = "AOS" THEN <<m.mid>> ELSE <<>>
  /\ quiet' = IF quiet \in 0..(LosTimeout - 1) THEN quiet + 1 ELSE quiet
  /\ UNCHANGED <<rate, probe, count>>

\* SendHkPacket: on the bus always, to the ground only while the link is up.
SendHk(m) ==
  /\ m.mid = "COMM_HK"
  /\ idle' = IdleAfter(idle)
  /\ link' = IF LosDue(idle') THEN "LOS" ELSE link
  /\ out' = <<HkMid>>
  /\ air' = IF link' = "AOS" THEN <<m.mid>> ELSE <<>>
  /\ quiet' = IF quiet \in 0..(LosTimeout - 1) THEN quiet + 1 ELSE quiet
  /\ UNCHANGED <<rate, probe, count>>

\* ForwardRoverHk
Forward(m) ==
  /\ m.mid \in Forwarded
  /\ air' = IF link = "AOS" THEN <<m.mid>> ELSE <<>>
  /\ out' = <<>>
  /\ UNCHANGED <<link, idle, rate, probe, count, quiet>>

\* The default of ProcessCommandPacket, and a receive error in AppMain
UnknownMid(m) ==
  /\ m.mid \notin Subscribed
  /\ count' = Counted("err")
  /\ out' = <<>> /\ air' = <<>>
  /\ UNCHANGED <<link, idle, rate, probe, quiet>>

\* ProcessCommandPacket
Process(m) == GroundCommand(m) \/ SendHk(m) \/ Forward(m) \/ UnknownMid(m)

Next == \E m \in Messages : Process(m)
Spec == Init /\ [][Next]_cvars
-----------------------------------------------------------------------------
TypeOK ==
  /\ link \in {"LOS", "AOS"} /\ idle \in 0..MaxIdle
  /\ rate \in [0..3 -> 0..MaxRate]
  /\ count \in [cmd : 0..(CountMod - 1), err : 0..(CountMod - 1)]
  /\ quiet \in -1..LosTimeout

\* However long the silence, the link is up exactly while a command came
\* within the last LosTimeout housekeeping cycles: the idle counter neither
\* forgets a silence nor starts one (orbiter_comm.c:283-291, 410-423).
LinkMeansHeard == link = "AOS" <=> quiet \in 0..(LosTimeout - 1)

\* Nothing is sent to the ground by a turn that ends with the link down, not
\* even the housekeeping of the cycle that declares it down
\* (orbiter_comm.c:410-440).
SilentWhenDown == [][air' # <<>> => quiet' \in 0..(LosTimeout - 1)]_cvars
=============================================================================
