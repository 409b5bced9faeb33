------------------------------ MODULE MCUplink ------------------------------
(* The stages of the uplink side by side, sharing nothing: part says which   *)
(* one a behaviour runs.                                                     *)
(*   engine   Cop1, one and the same command under every CLCW                *)
(*   link     Cop1Link, five commands                                        *)
(*   stages   TcUplink, every kind of intent, two of them in a behaviour     *)
(*   queue    TcQueue, a queue of two and a coarse time of four bits         *)
(*   packet   PacketPath                                                     *)
(* The first two share the engine: a window of 2 in a sequence space of 4.   *)
EXTENDS Cop1Link, TcQueue, PacketPath, TcUplink

MCSpp == 1..MaxCmds

VARIABLE part

loopVars == <<uplink, downlink, farm, session, submitted, accepted, acked,
              losses>>
uplinkVars == <<part, linkVars, uvars, qvars, pvars>>

\* Every kind of intent, a switch both ways, a drill current that is allowed
\* and one that is not
Pair(hi, lo) == [hi |-> hi, lo |-> lo]
MCIntents ==
  {[cmd |-> "OrbiterSetMode", mode |-> 2, reason |-> 1],
   [cmd |-> "OrbiterEventFilter", app |-> 42, min |-> 2, mask |-> Pair(258, 255)],
   [cmd |-> "OrbiterAdcsTargetQ", slew |-> 1,
    q |-> <<Pair(16384, 0), Pair(0, 1), Pair(65535, 2), Pair(3, 772)>>],
   [cmd |-> "OrbiterPowerArm", switch |-> 3, magic |-> 49374],
   [cmd |-> "OrbiterPowerSwitch", switch |-> 3, on |-> TRUE, magic |-> 49374],
   [cmd |-> "OrbiterPowerSwitch", switch |-> 3, on |-> FALSE, magic |-> 49374],
   [cmd |-> "CryobotSetMode", mode |-> 1, magic |-> 51969],
   [cmd |-> "CryobotBwCollapse", enable |-> TRUE, duration |-> 300],
   [cmd |-> "CryobotArm", magic |-> 52128],
   [cmd |-> "CryobotSetDrillRpm", rpm |-> -120, current |-> 1000, magic |-> 51970],
   [cmd |-> "CryobotSetDrillRpm", rpm |-> 120, current |-> 1001, magic |-> 51970]}

\* Deadlines before the epoch, at once, just in time, one second too late for a
\* light time of 3, and around the end of the coarse time
MCEpoch == -8
MCDeadlines == {-12, -9, -8, -7, 2, 5, 6}
MCTargets == {385, NoTarget}

\* Packets: values at the ends of their ranges and one in the middle
MCTimes == {[hi |-> 0, lo |-> 0, fine |-> 0], [hi |-> 65535, lo |-> 1, fine |-> 258]}

UplinkInit ==
  /\ part \in {"engine", "link", "stages", "queue", "packet"}
  /\ LinkInit /\ StagesInit /\ QueueInit /\ PacketInit
  /\ part # "packet" => draft.type = "TC" /\ draft.apid = 257

\* Next of Cop1, with one command: which command it is makes no difference
EngineNext == \/ Initialize \/ Submit(1) \/ Tick \/ EmergencyBd(1)
              \/ \E c \in Clcw : Publish(c)
              \/ CloseWatch \/ Elapse

EngineStep == part = "engine" /\ EngineNext
              /\ UNCHANGED <<loopVars, uvars, qvars, pvars>>
LinkStep == part = "link" /\ LinkNext
            /\ UNCHANGED <<uvars, qvars, pvars>>
StageStep == part = "stages" /\ StagesNext
             /\ UNCHANGED <<linkVars, qvars, pvars>>
QueueStep == part = "queue" /\ QueueNext
             /\ UNCHANGED <<linkVars, uvars, pvars>>
PacketStep == part = "packet" /\ PacketNext
              /\ UNCHANGED <<linkVars, uvars, qvars>>

UplinkNext == (EngineStep \/ LinkStep \/ StageStep \/ QueueStep \/ PacketStep)
              /\ UNCHANGED part
UplinkSpec == UplinkInit /\ [][UplinkNext]_uplinkVars
=============================================================================
