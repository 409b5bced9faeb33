----------------------------- MODULE SimAdapter -----------------------------
(***************************************************************************)
(* sim_adapter (apps/sim_adapter/fsw/src/sim_adapter.c): datagrams of the  *)
(* fault injector, checked and put on the Software Bus.  Its command pipe  *)
(* is subscribed and never read.  Absent from a flight build.              *)
(***************************************************************************)
EXTENDS Integers, Sequences

CONSTANTS CountMod,   \* 2^32 of the counters, scaled
          Depth       \* SIM_ADAPTER_PIPE_DEPTH, scaled

VARIABLES count,      \* PacketsRouted, CrcMismatches, ApidRejects
          uptime,     \* UptimeSeconds, one per round of the loop
          waiting     \* commands in CmdPipe

svars == <<count, uptime, waiting>>
-----------------------------------------------------------------------------
Init ==
  /\ count = [routed |-> 0, crc |-> 0, apid |-> 0]
  /\ uptime = 0 /\ waiting = 0

Counted(c) == [count EXCEPT ![c] = (@ + 1) % CountMod]

\* ProcessUdp and RouteToSB.  In the order of the tests: less than 18 bytes, an
\* APID outside 0x500..0x57F, a CRC mismatch; any other is routed, and counted
\* if the bus takes it.
Datagrams == {"short", "foreign", "damaged", "good"}
Process(d, busAccepts) ==
  count' = CASE d \in {"short", "foreign"} -> Counted("apid")
             [] d = "damaged" -> Counted("crc")
             [] d = "good" /\ busAccepts -> Counted("routed")
             [] d = "good" /\ ~busAccepts -> count

\* One round of AppMain, with a datagram or without
Round ==
  /\ \/ \E d \in Datagrams, ok \in BOOLEAN : Process(d, ok)
     \/ UNCHANGED count
  /\ uptime' = (uptime + 1) % CountMod
  /\ UNCHANGED waiting

\* A command arrives and stays.
Command ==
  /\ waiting' = IF waiting < Depth THEN waiting + 1 ELSE waiting
  /\ UNCHANGED <<count, uptime>>

Next == Round \/ Command
Spec == Init /\ [][Next]_svars
=============================================================================
