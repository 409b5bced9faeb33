------------------------------ MODULE MCTcQueue ------------------------------
(* A station that starts ten seconds after its epoch of TAI, with a light    *)
(* time of three, and deadlines before, at and after what can still be met.  *)
EXTENDS TcQueue

MCTargets == {NoTarget}
MCDeadlines == {2, 5, 6}
Epoch == -8
=============================================================================
