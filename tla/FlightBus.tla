------------------------------ MODULE FlightBus ------------------------------
(***************************************************************************)
(* orbiter_comm, orbiter_cdh and ros2_bridge on the Software Bus, with the *)
(* scheduler that requests housekeeping at 1 Hz and the uplink that brings *)
(* commands.  The bus itself is cFE's, outside this repository: a message  *)
(* goes to every pipe subscribed to its id, in order, and is lost at a     *)
(* pipe that is full.  A request for housekeeping has the id of the        *)
(* housekeeping itself.                                                    *)
(***************************************************************************)
EXTENDS OrbiterComm

CONSTANTS Depth,         \* the PIPE_DEPTH of the three applications
          Requested,     \* the ids the scheduler requests in this instance
          Commands,      \* the commands the uplink may bring, each once
          RosDatagrams,     \* what Space ROS may send, any number of times
          MaxRequests,   \* bound: requests per id
          MaxUptime

\* Neither what the scheduler requests nor the housekeeping of orbiter_comm and
\* orbiter_cdh has the id of a command to the bridge or to a rover.
ASSUME IdsAssumption ==
  (Requested \cup {HkMid}) \cap
    {"ROVER_LAND_CMD", "ROVER_UAV_CMD", "ROVER_CRYOBOT_CMD", "ROS2_BRIDGE_CMD"} = {}
ASSUME BridgeCommandAssumption ==
  \A m \in Commands : m.mid = "ROS2_BRIDGE_CMD" => m.cc \in {"noop", "reset", "other"}

VARIABLES mode, cdhCount, cdhOut,
          turn, bridgeCount, uptime, bridgeOut, tc,
          pipe,      \* the three pipes
          asked,     \* history: requests sent, per id
          brought,   \* commands the uplink has brought
          bridgeHk,  \* history: housekeeping packets the bridge has made
          tcSent,    \* history: rover commands sent to Space ROS
          resetAt    \* history: how many when the bridge's counters were reset

cdhVars == <<mode, cdhCount, cdhOut>>
bridgeVars == <<turn, bridgeCount, uptime, bridgeOut, tc>>
fvars == <<cvars, cdhVars, bridgeVars, pipe, asked, brought, bridgeHk, tcSent, resetAt>>
-----------------------------------------------------------------------------
Cdh == INSTANCE OrbiterCdh WITH count <- cdhCount, out <- cdhOut, Messages <- {}
Bridge == INSTANCE Ros2Bridge WITH count <- bridgeCount, out <- bridgeOut

Apps == {"comm", "cdh", "bridge"}
SubscribedBy == [comm |-> Subscribed, cdh |-> Cdh!Subscribed,
                 bridge |-> Bridge!Subscribed]

Fits(p, a) == Len(p[a]) < Depth
\* The pipes p after message m: a full pipe is passed over.
Delivered(p, m) ==
  [a \in Apps |-> IF m.mid \in SubscribedBy[a] /\ Fits(p, a)
                  THEN Append(p[a], m) ELSE p[a]]
Took(a) == [pipe EXCEPT ![a] = Tail(@)]
\* What a turn that left the pipes p has transmitted, at most one message
Transmitted(p, o) ==
  IF o = <<>> THEN p ELSE Delivered(p, [mid |-> Head(o)])

\* One more housekeeping packet, counted up to one past MaxRequests
MoreHk(made) == IF made /\ bridgeHk <= MaxRequests THEN bridgeHk + 1 ELSE bridgeHk

IsReset(m) == m.mid = "ROS2_BRIDGE_CMD" /\ m.cc = "reset"

BusInit ==
  /\ Init /\ Cdh!Init /\ Bridge!Init
  /\ pipe = [a \in Apps |-> <<>>]
  /\ asked = [i \in Requested |-> 0] /\ brought = {}
  /\ bridgeHk = 0
  /\ tcSent = <<>> /\ resetAt = 0

\* One tick of the scheduler, a request for every application
Schedule ==
  /\ \E i \in Requested :
       /\ asked[i] < MaxRequests
       /\ asked' = [asked EXCEPT ![i] = @ + 1]
       /\ pipe' = Delivered(pipe, [mid |-> i])
  /\ UNCHANGED <<cvars, cdhVars, bridgeVars, brought, bridgeHk, tcSent, resetAt>>

Uplink ==
  /\ \E m \in Commands \ brought :
       /\ brought' = brought \cup {m}
       /\ pipe' = Delivered(pipe, m)
  /\ UNCHANGED <<cvars, cdhVars, bridgeVars, asked, bridgeHk, tcSent, resetAt>>

CommTurn ==
  /\ pipe["comm"] # <<>>
  /\ Process(Head(pipe["comm"]))
  /\ pipe' = Transmitted(Took("comm"), out')
  /\ UNCHANGED <<cdhVars, bridgeVars, asked, brought, bridgeHk, tcSent, resetAt>>

CdhTurn ==
  /\ pipe["cdh"] # <<>>
  /\ Cdh!Process(Head(pipe["cdh"]))
  /\ pipe' = Transmitted(Took("cdh"), cdhOut')
  /\ UNCHANGED <<cvars, bridgeVars, asked, brought, bridgeHk, tcSent, resetAt>>

\* The bridge's poll of its UDP socket
BridgeUdp ==
  /\ \/ \E d \in RosDatagrams, ok \in BOOLEAN : Bridge!TakeDatagram(d, ok)
     \/ Bridge!NoDatagram
  /\ pipe' = Transmitted(pipe, bridgeOut')
  /\ UNCHANGED <<cvars, cdhVars, asked, brought, bridgeHk, tcSent, resetAt>>

\* The bridge's poll of its pipe
BridgeSb ==
  /\ \/ /\ pipe["bridge"] # <<>>
        /\ \E ok \in BOOLEAN : Bridge!TakeMessage(Head(pipe["bridge"]), ok)
        /\ pipe' = Transmitted(Took("bridge"), bridgeOut')
        /\ bridgeHk' = MoreHk(Head(pipe["bridge"]).mid = "ROS2_BRIDGE_HK")
        /\ resetAt' = IF IsReset(Head(pipe["bridge"])) THEN Len(tcSent) ELSE resetAt
     \/ /\ pipe["bridge"] = <<>>
        /\ Bridge!NoMessage
        /\ UNCHANGED <<pipe, bridgeHk, resetAt>>
  /\ tcSent' = tcSent \o tc'
  /\ UNCHANGED <<cvars, cdhVars, asked, brought>>

BusNext == Schedule \/ Uplink \/ CommTurn \/ CdhTurn \/ BridgeUdp \/ BridgeSb
BusSpec == BusInit /\ [][BusNext]_fvars
-----------------------------------------------------------------------------
\* The bridge counts as forwarded exactly what Space ROS was sent since the last
\* reset, and no command was sent twice, whatever the socket answered
\* (ros2_bridge.c:437-441, 467-488).
ForwardedIsSent ==
  /\ bridgeCount.forwarded = (Len(tcSent) - resetAt) % CountMod
  /\ \A i, j \in 1..Len(tcSent) : tcSent[i] = tcSent[j] => i = j

\* ros2_bridge.c:124: the bridge makes housekeeping when the scheduler asks.
BridgeHkOnRequest ==
  "ROS2_BRIDGE_HK" \in Requested => bridgeHk <= asked["ROS2_BRIDGE_HK"]
=============================================================================
