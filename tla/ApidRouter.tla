----------------------------- MODULE ApidRouter -----------------------------
(***************************************************************************)
(* ApidRouter (rust/ground_station/src/ingest/router.rs): where a packet   *)
(* goes, by the virtual channel it came on and its APID.                   *)
(***************************************************************************)
EXTENDS Integers

VcIdle == 63
VcEventLog == 1
VcCfdp == 2
IdleApid == 2047                                                   \* 0x7FF
ClockSkewApid == 1345                                              \* 0x541

ForbiddenApid(apid) ==
  \/ apid \in 1344..1347                  \* 0x540..0x543, fault injection
  \/ apid \in 1280..1343                  \* 0x500..0x53F, simulation
  \/ apid \in 1348..1407                  \* 0x544..0x57F
  \/ apid \in 1536..1663                  \* 0x600..0x67F, ground internal

HkApid(apid) == apid \in (256..383) \cup (512..639) \cup (640..767)
RoverApid(apid) == apid \in 768..1119                       \* 0x300..0x45F

\* Mutant of Route: the channel decides before the forbidden ranges do.
RouteByVc(vc, apid) ==
  CASE apid = IdleApid -> "idle"
    [] apid # IdleApid /\ vc = VcCfdp -> "cfdp"
    [] apid # IdleApid /\ vc = VcEventLog -> "event"
    [] ForbiddenApid(apid) /\ vc \notin {VcCfdp, VcEventLog} -> "forbidden"
    [] HkApid(apid) /\ vc \notin {VcCfdp, VcEventLog} -> "hk"
    [] RoverApid(apid) /\ vc \notin {VcCfdp, VcEventLog} -> "rover"
    [] OTHER -> "unknown"

\* ApidRouter::route; the tests come in this order.
Route(vc, apid) ==
  IF ForbiddenApid(apid) THEN "forbidden"
  ELSE IF apid = IdleApid THEN "idle"
  ELSE IF vc = VcCfdp THEN "cfdp"
  ELSE IF vc = VcEventLog THEN "event"
  ELSE IF HkApid(apid) THEN "hk"
  ELSE IF RoverApid(apid) THEN "rover"
  ELSE "unknown"
=============================================================================
