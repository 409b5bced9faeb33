---------------------------- MODULE OrbiterPower ----------------------------
(***************************************************************************)
(* orbiter_power (apps/orbiter_power/fsw/src/orbiter_power.c): four loads, *)
(* a power mode, and the table of the modes in which a load may not be     *)
(* switched.  Process(m) is one turn of AppMain.                           *)
(***************************************************************************)
EXTENDS Integers

CONSTANTS Messages,   \* what the pipe may deliver
          CountMod    \* 2^32 of the counters, scaled

VARIABLES mode,       \* ORBITER_POWER_CurrentMode
          load,       \* ORBITER_POWER_LoadState
          count,      \* CmdCounter, ErrCounter
          published   \* mode and loads of the last housekeeping packet

wvars == <<mode, load, count, published>>
-----------------------------------------------------------------------------
Normal == 0
Safe == 1
Eclipse == 2
Loads == 0..3

\* ORBITER_POWER_InterlockTable: the modes whose bit is set in a ProhibitMask
Prohibited == [l \in Loads |-> CASE l = 0 -> {}
                                 [] l = 1 -> {Safe}
                                 [] l = 2 -> {Safe, Eclipse}
                                 [] l = 3 -> {Safe}]

Init ==
  /\ mode = Normal
  /\ load = [l \in Loads |-> 0]
  /\ count = [cmd |-> 0, err |-> 0]
  /\ published = [mode |-> 0, load |-> load]     \* HkTlm is zero at the start

Counted(c) == [count EXCEPT ![c] = (@ + 1) % CountMod]

\* LOAD_SWITCH: the action byte is stored as it comes.
LoadSwitch(m) ==
  /\ m.cc = "switch"
  /\ \/ /\ m.load \in Loads /\ mode \notin Prohibited[m.load]
        /\ load' = [load EXCEPT ![m.load] = m.action]
        /\ count' = Counted("cmd")
     \/ /\ m.load \in Loads => mode \in Prohibited[m.load]
        /\ count' = Counted("err")
        /\ UNCHANGED load
  /\ UNCHANGED <<mode, published>>

ModeAccepted(k) == k <= Eclipse

\* SET_POWER_MODE leaves the loads as they are.
SetPowerMode(m) ==
  /\ m.cc = "mode"
  /\ \/ ModeAccepted(m.mode) /\ mode' = m.mode /\ count' = Counted("cmd")
     \/ ~ModeAccepted(m.mode) /\ count' = Counted("err") /\ UNCHANGED mode
  /\ UNCHANGED <<load, published>>

\* NOOP, RESET, and "other": a command code, a message id or a receive status
\* the application does not know.  The EPS gateway's data is read by a stub.
OtherCommand(m) ==
  /\ m.cc \in {"noop", "reset", "other", "eps"}
  /\ count' = CASE m.cc = "noop" -> Counted("cmd")
                [] m.cc = "reset" -> [cmd |-> 0, err |-> 0]
                [] m.cc = "other" -> Counted("err")
                [] m.cc = "eps" -> count
  /\ UNCHANGED <<mode, load, published>>

\* SendHkPacket
SendHk(m) ==
  /\ m.cc = "hk"
  /\ published' = [mode |-> mode, load |-> load]
  /\ UNCHANGED <<mode, load, count>>

Process(m) == LoadSwitch(m) \/ SetPowerMode(m) \/ OtherCommand(m) \/ SendHk(m)

Next == \E m \in Messages : Process(m)
Spec == Init /\ [][Next]_wvars
=============================================================================
