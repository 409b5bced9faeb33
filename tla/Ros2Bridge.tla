----------------------------- MODULE Ros2Bridge -----------------------------
(***************************************************************************)
(* ros2_bridge (apps/ros2_bridge/fsw/src/ros2_bridge.c): telemetry of the  *)
(* rovers from UDP to the Software Bus, rover commands from the bus to     *)
(* UDP.  AppMain polls each side once per round and then sleeps one        *)
(* millisecond; TakeDatagram and TakeMessage are the two polls, NoDatagram *)
(* and NoMessage the polls that find nothing.                              *)
(***************************************************************************)
EXTENDS Integers, Sequences

CONSTANTS CountMod,   \* 2^32 of the counters, scaled
          MaxUptime   \* bound on UptimeSeconds, which saturates in the model

VARIABLES turn,     \* which side AppMain polls next
          count,    \* PacketsRouted, ApidRejects, TcForwarded, Cmd-, ErrCounter
          uptime,   \* UptimeSeconds
          out,      \* what the step transmits on the Software Bus
          tc        \* what it sends to Space ROS

bvars == <<turn, count, uptime, out, tc>>
-----------------------------------------------------------------------------
RoverCommands == {"ROVER_LAND_CMD", "ROVER_UAV_CMD", "ROVER_CRYOBOT_CMD"}

\* The ids CmdPipe is subscribed to
Subscribed == RoverCommands \cup {"ROS2_BRIDGE_HK", "ROS2_BRIDGE_CMD"}

\* The telemetry ids of the accepted APIDs: 0x300..0x43F, 0x129, 0x160
RoverTelemetry == {"ROVER_LAND_HK", "ROVER_UAV_HK", "ROVER_CRYOBOT_HK",
                   "ROVER_OTHER_HK", "ROS_GND_LINK_STATE", "FLEET_MONITOR_HK"}

Counters == {"routed", "rejects", "forwarded", "cmd", "err"}
Init == /\ turn = "udp"
        /\ count = [c \in Counters |-> 0]
        /\ uptime = 0
        /\ out = <<>> /\ tc = <<>>

Counted(c) == [count EXCEPT ![c] = (@ + 1) % CountMod]

\* ProcessUdp and RouteToSB.  A datagram is the telemetry id of its APID;
\* "short" and "refused" stand for less than 16 bytes and any other APID.  The
\* receive buffer is as large as the relay buffer, so none is too long.
TakeDatagram(d, busAccepts) ==
  /\ turn = "udp" /\ turn' = "sb"
  /\ \/ /\ d \in RoverTelemetry /\ busAccepts
        /\ out' = <<d>>
        /\ count' = Counted("routed")
     \/ /\ d \in RoverTelemetry /\ ~busAccepts
        /\ out' = <<>>
        /\ UNCHANGED count
     \/ /\ d \in {"short", "refused"}
        /\ out' = <<>>
        /\ count' = Counted("rejects")
  /\ tc' = <<>>
  /\ UNCHANGED uptime

NoDatagram == turn = "udp" /\ turn' = "sb" /\ out' = <<>> /\ tc' = <<>>
              /\ UNCHANGED <<count, uptime>>

\* UptimeSeconds++ and OS_TaskDelay(1) end the round.
EndRound ==
  /\ turn = "sb" /\ turn' = "udp"
  /\ uptime' = IF uptime < MaxUptime THEN uptime + 1 ELSE uptime

\* Mutant of ForwardTc: counted before the socket has answered.
ForwardTcCountsFirst(m, udpAccepts) ==
  /\ count' = Counted("forwarded")
  /\ tc' = IF udpAccepts THEN <<m>> ELSE <<>>
  /\ out' = <<>>

\* ForwardTcToRos: a command the socket refuses is neither counted nor kept.
ForwardTc(m, udpAccepts) ==
  /\ \/ udpAccepts /\ tc' = <<m>> /\ count' = Counted("forwarded")
     \/ ~udpAccepts /\ tc' = <<>> /\ UNCHANGED count
  /\ out' = <<>>

\* ProcessSBMessage
TakeMessage(m, udpAccepts) ==
  /\ EndRound
  /\ \/ /\ m.mid = "ROS2_BRIDGE_HK"
        /\ out' = <<"ROS2_BRIDGE_HK">> /\ tc' = <<>>
        /\ UNCHANGED count
     \/ /\ m.mid = "ROS2_BRIDGE_CMD"
        /\ out' = <<>> /\ tc' = <<>>
        /\ count' = CASE m.cc = "noop" -> Counted("cmd")
                      [] m.cc = "reset" -> [c \in Counters |-> 0]
                      [] m.cc = "other" -> Counted("err")
     \/ /\ m.mid \in RoverCommands
        /\ ForwardTc(m, udpAccepts)
     \/ /\ m.mid \notin Subscribed
        /\ out' = <<>> /\ tc' = <<>>
        /\ count' = Counted("err")

NoMessage == EndRound /\ out' = <<>> /\ tc' = <<>> /\ UNCHANGED count
=============================================================================
