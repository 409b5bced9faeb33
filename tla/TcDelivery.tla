----------------------------- MODULE TcDelivery -----------------------------
(***************************************************************************)
(* What sequence-controlled uplink promises its operator for one session:  *)
(* commands are executed in the order they were sent, none twice, none     *)
(* skipped; only executed commands are confirmed, in order.  The session   *)
(* may stop at any point, leaving sent commands unconfirmed.               *)
(* Commands are 1, 2, 3, ... in the order they are sent.                   *)
(***************************************************************************)
EXTENDS Naturals, Sequences

VARIABLES sent,        \* number of commands sent
          executed,    \* the commands executed, in order
          confirmed    \* the commands reported as done to the operator

dvars == <<sent, executed, confirmed>>

Init == sent = 0 /\ executed = <<>> /\ confirmed = {}

Send == sent' = sent + 1 /\ UNCHANGED <<executed, confirmed>>

Execute ==
  /\ Len(executed) < sent
  /\ executed' = Append(executed, Len(executed) + 1)
  /\ UNCHANGED <<sent, confirmed>>

Confirm ==
  /\ \E n \in 1..Len(executed) : confirmed' = 1..n
  /\ confirmed \subseteq confirmed'
  /\ UNCHANGED <<sent, executed>>

Next == Send \/ Execute \/ Confirm

Spec == Init /\ [][Next]_dvars
=============================================================================
