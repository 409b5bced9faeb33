----------------------------- MODULE OrbiterCdh -----------------------------
(***************************************************************************)
(* orbiter_cdh (apps/orbiter_cdh/fsw/src/orbiter_cdh.c): the orbiter mode, *)
(* and a count of the housekeeping of the other applications.  Process(m)  *)
(* is one turn of AppMain, out what it transmits on the Software Bus.      *)
(***************************************************************************)
EXTENDS Integers, Sequences

CONSTANTS Messages,   \* what the pipe may deliver
          CountMod,   \* 2^32 of the counters, scaled
          HkMid       \* the id in HkTlm.Header, which Init never sets

VARIABLES mode,    \* ORBITER_CDH_CurrentMode
          count,   \* CmdCounter, ErrCounter, PeerHkRcvCount
          out

dvars == <<mode, count, out>>
-----------------------------------------------------------------------------
ModeSafe == 0
ModeNominal == 1
ModeEmergency == 2
Peers == {"SAMPLE_HK", "ADCS_HK", "COMM_HK", "POWER_HK", "PAYLOAD_HK"}

\* The ids CmdPipe is subscribed to
Subscribed == Peers \cup {"CDH_CMD", "CDH_HK"}

Init == /\ mode = ModeSafe
        /\ count = [cmd |-> 0, err |-> 0, peer |-> 0]
        /\ out = <<>>

Counted(c) == [count EXCEPT ![c] = (@ + 1) % CountMod]

\* ProcessGroundCommand
GroundCommand(m) ==
  /\ m.mid = "CDH_CMD"
  /\ \/ /\ m.cc \in {"noop", "filter"}
        /\ count' = Counted("cmd")
        /\ UNCHANGED mode
     \/ /\ m.cc = "reset"
        /\ count' = [cmd |-> 0, err |-> 0, peer |-> 0]
        /\ UNCHANGED mode
     \/ /\ m.cc = "mode" /\ m.mode <= ModeEmergency
        /\ mode' = m.mode
        /\ count' = Counted("cmd")
     \/ /\ \/ m.cc = "mode" /\ m.mode > ModeEmergency
           \/ m.cc = "other"
        /\ count' = Counted("err")
        /\ UNCHANGED mode
  /\ out' = <<>>

\* SendHkPacket
SendHk(m) ==
  /\ m.mid = "CDH_HK"
  /\ out' = <<HkMid>>
  /\ UNCHANGED <<mode, count>>

\* UpdatePeerHk
PeerHk(m) ==
  /\ m.mid \in Peers
  /\ count' = Counted("peer")
  /\ out' = <<>>
  /\ UNCHANGED mode

\* The default of ProcessCommandPacket, and a receive error in AppMain
UnknownMid(m) ==
  /\ m.mid \notin Subscribed
  /\ count' = Counted("err")
  /\ out' = <<>>
  /\ UNCHANGED mode

Process(m) == GroundCommand(m) \/ SendHk(m) \/ PeerHk(m) \/ UnknownMid(m)

Next == \E m \in Messages : Process(m)
Spec == Init /\ [][Next]_dvars
=============================================================================
