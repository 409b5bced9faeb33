------------------------------ MODULE SampleApp ------------------------------
(***************************************************************************)
(* sample_app (apps/sample_app/fsw/src/sample_app.c), the skeleton of the  *)
(* applications.  It is subscribed to the request for housekeeping and has *)
(* no case for it: the request is an error ("hk" below).                   *)
(***************************************************************************)
EXTENDS Integers

CONSTANTS Messages,   \* what the pipe may deliver
          CountMod    \* 2^16 of the counters, scaled

VARIABLE count        \* CmdCounter, ErrCounter
-----------------------------------------------------------------------------
Init == count = [cmd |-> 0, err |-> 0]

Counted(c) == [count EXCEPT ![c] = (@ + 1) % CountMod]

Process(m) ==
  count' = CASE m.cc = "noop" -> Counted("cmd")
             [] m.cc = "reset" -> [cmd |-> 0, err |-> 0]
             [] m.cc \in {"other", "hk"} -> Counted("err")

Next == \E m \in Messages : Process(m)
Spec == Init /\ [][Next]_count
=============================================================================
