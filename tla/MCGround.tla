------------------------------ MODULE MCGround ------------------------------
(* The downlink's stages that IngestPipeline takes as given, side by side,    *)
(* sharing nothing: part says which one a behaviour runs.                     *)
(*   monitor  AosFramer with all calls of tick there may be; the four         *)
(*            durations are scaled down in their order (rate 1 < sustain 2    *)
(*            < LOS 3 < degraded 5), the threshold is one error in three      *)
(*   display  LinkDisplay, with fewer frames in the window                    *)
(*   stream   GsStream: frames of three bytes, two in each buffer; datagrams  *)
(*            empty, shorter, longer and as long as frames, and too long      *)
(*   frames   Downlink: a tick of the injector, and frames of Radio           *)
EXTENDS LinkDisplay, GsStream, Downlink

CONSTANT DisplayEntries     \* bound: frames in the window of part display

VARIABLE part

monitorVars == <<lvars, displayVars>>
groundVars == <<part, monitorVars, svars, dvars>>

Whole(n) == [len |-> n, damaged |-> {}]
MCDatagrams == {Whole(n) : n \in {0, 1, 2, 3, 4, 6, 9}}
               \cup {[len |-> n, damaged |-> {1}] : n \in {3, 6}}

\* The telemetry of the three links in two variants, of a rover, a clock-skew
\* fault on a channel where it has no place, events with a text that ends, one that
\* does not, and none, and telemetry on the idle channel and on one that has no
\* decoder; and sizes that do not fill a data field and that do, with an OCF and
\* without
Kind(apid, vc, t, user) ==
  [apid |-> apid, vc |-> vc, tick |-> t, noise |-> t, user |-> user]
MCRadioPackets ==
  {Kind(a, 0, t, HkPayload(a, t, t)) : a \in {296, 297, 352}, t \in 0..1}
  \cup {Kind(768, 3, 1, HkPayload(768, 1, 1)), Kind(1345, 0, 1, <<0>>),
        Kind(288, 1, 1, EventPayload(2, 3)), Kind(288, 1, 1, <<2, 65>>),
        Kind(288, 1, 1, <<>>),
        Kind(384, VcIdle, 1, <<0>>), Kind(296, 4, 1, HkPayload(296, 1, 1))}

MCSizes == {40, 1012, 1015, 1016}

GroundInit ==
  /\ part \in {"monitor", "display", "stream", "frames"}
  /\ DisplayInit /\ StreamInit /\ DownlinkInit
  /\ ticked => part = "display"

MonitorStep == part = "monitor" /\ Next
               /\ UNCHANGED <<displayVars, svars, dvars>>
DisplayStep == part = "display" /\ DisplayNext /\ Len(window') <= DisplayEntries
               /\ UNCHANGED <<svars, dvars>>
StreamStep == part = "stream" /\ StreamNext /\ UNCHANGED <<monitorVars, dvars>>
FramesStep == part = "frames" /\ DownlinkNext /\ UNCHANGED <<monitorVars, svars>>

GroundNext == (MonitorStep \/ DisplayStep \/ StreamStep \/ FramesStep) /\ UNCHANGED part

GroundSpec == GroundInit /\ [][GroundNext]_groundVars
              /\ (part = "display" => DisplayFairness)
-----------------------------------------------------------------------------
\* What the operator sees follows what the monitor settles on (main.rs:188-201).
DisplayCatchesUp == part = "display" => LinkCatchesUp

\* Silence ends the display of Aos, if tick is called (framer.rs:242-248).
DisplaySilence == part = "display" => SilenceIsShown
=============================================================================
