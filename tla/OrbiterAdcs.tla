----------------------------- MODULE OrbiterAdcs -----------------------------
(***************************************************************************)
(* orbiter_adcs (apps/orbiter_adcs/fsw/src/orbiter_adcs.c): the commanded  *)
(* attitude.  A quaternion is what its squared norm makes of it: "unit",   *)
(* "off", or "nan", whose comparison with the tolerance is false.          *)
(***************************************************************************)
EXTENDS Integers

CONSTANTS Messages,   \* what the pipe may deliver
          CountMod    \* 2^32 of the counters, scaled

VARIABLES target,     \* ORBITER_ADCS_TargetQuat
          count,      \* CmdCounter, ErrCounter
          published   \* TargetQuat of the last housekeeping packet

avars == <<target, count, published>>
-----------------------------------------------------------------------------
\* CurrentQuat is written nowhere and stays the identity.
Init ==
  /\ target = "identity"
  /\ count = [cmd |-> 0, err |-> 0]
  /\ published = "zero"

Counted(c) == [count EXCEPT ![c] = (@ + 1) % CountMod]

\* fabsf(norm_sq - 1.0f) > ORBITER_ADCS_QUAT_NORM_TOL
NormRefused(q) == q = "off"

SetTargetQuat(m) ==
  /\ m.cc = "quat"
  /\ \/ NormRefused(m.quat) /\ count' = Counted("err") /\ UNCHANGED target
     \/ ~NormRefused(m.quat) /\ target' = m.quat /\ count' = Counted("cmd")
  /\ UNCHANGED published

\* NOOP, RESET, what the application does not know, and the wheel data of the
\* gateway, which a stub reads
OtherCommand(m) ==
  /\ m.cc \in {"noop", "reset", "other", "wheel"}
  /\ count' = CASE m.cc = "noop" -> Counted("cmd")
                [] m.cc = "reset" -> [cmd |-> 0, err |-> 0]
                [] m.cc = "other" -> Counted("err")
                [] m.cc = "wheel" -> count
  /\ UNCHANGED <<target, published>>

\* Two packets: attitude, and wheel speeds that are always zero
SendHk(m) ==
  /\ m.cc = "hk"
  /\ published' = target
  /\ UNCHANGED <<target, count>>

Process(m) == SetTargetQuat(m) \/ OtherCommand(m) \/ SendHk(m)

Next == \E m \in Messages : Process(m)
Spec == Init /\ [][Next]_avars
=============================================================================
