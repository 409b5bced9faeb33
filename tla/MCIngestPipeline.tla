-------------------------- MODULE MCIngestPipeline --------------------------
(* Frames for every outcome: housekeeping, a rover, an event, a CFDP PDU,    *)
(* a refused and an idle APID, an undecodable frame, the idle and an         *)
(* unassigned channel.                                                       *)
EXTENDS IngestPipeline

AllInputs == {<<0, 257>>, <<0, 768>>, <<1, 257>>, <<1, 1345>>, <<1, NoPacket>>,
              <<2, 257>>, <<2, 2047>>, <<63, 257>>, <<9, 257>>}
Vcs012 == {0, 1, 2}
=============================================================================
