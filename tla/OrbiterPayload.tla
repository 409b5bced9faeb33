--------------------------- MODULE OrbiterPayload ---------------------------
(***************************************************************************)
(* orbiter_payload (apps/orbiter_payload/fsw/src/orbiter_payload.c): power *)
(* and science mode of the instruments, the mode guarded by the power.     *)
(* Process(m) is one turn of AppMain.                                      *)
(***************************************************************************)
EXTENDS Integers

CONSTANTS Messages,   \* what the pipe may deliver
          CountMod    \* 2^32 of the counters, scaled

VARIABLES power,      \* ORBITER_PAYLOAD_PowerState
          science,    \* ORBITER_PAYLOAD_ScienceMode
          count,      \* CmdCounter, ErrCounter
          published   \* power and mode of the last housekeeping packet

pvars == <<power, science, count, published>>
-----------------------------------------------------------------------------
MaxScienceModes == 4

Init ==
  /\ power = 0 /\ science = 0
  /\ count = [cmd |-> 0, err |-> 0]
  /\ published = <<0, 0>>

Counted(c) == [count EXCEPT ![c] = (@ + 1) % CountMod]

\* SET_POWER leaves the science mode, also when it switches off.
SetPower(m) ==
  /\ m.cc = "power"
  /\ \/ m.on <= 1 /\ power' = m.on /\ count' = Counted("cmd")
     \/ m.on > 1 /\ count' = Counted("err") /\ UNCHANGED power
  /\ UNCHANGED <<science, published>>

\* SET_SCIENCE_MODE, refused while the payload is off
SetScienceMode(m) ==
  /\ m.cc = "science"
  /\ \/ /\ power # 0 /\ m.mode < MaxScienceModes
        /\ science' = m.mode
        /\ count' = Counted("cmd")
     \/ /\ power = 0 \/ m.mode >= MaxScienceModes
        /\ count' = Counted("err")
        /\ UNCHANGED science
  /\ UNCHANGED <<power, published>>

\* NOOP, RESET, "other" (a command code, message id or receive status the
\* application does not know), and the gateway's data, which a stub reads
OtherCommand(m) ==
  /\ m.cc \in {"noop", "reset", "other", "gateway"}
  /\ count' = CASE m.cc = "noop" -> Counted("cmd")
                [] m.cc = "reset" -> [cmd |-> 0, err |-> 0]
                [] m.cc = "other" -> Counted("err")
                [] m.cc = "gateway" -> count
  /\ UNCHANGED <<power, science, published>>

SendHk(m) ==
  /\ m.cc = "hk"
  /\ published' = <<power, science>>
  /\ UNCHANGED <<power, science, count>>

Process(m) == SetPower(m) \/ SetScienceMode(m) \/ OtherCommand(m) \/ SendHk(m)

Next == \E m \in Messages : Process(m)
Spec == Init /\ [][Next]_pvars
=============================================================================
