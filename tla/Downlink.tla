------------------------------ MODULE Downlink ------------------------------
(***************************************************************************)
(* One frame on its way down, from the sender to what an operator reads:   *)
(* process_frame takes the data field out, VcDemultiplexer looks at the    *)
(* channel, SppDecoder and the router parse the packet, a sink stores its  *)
(* payload, and the link handlers of the UI read fields of the payload.    *)
(* The queues and rings on that way are IngestPipeline's; here it is what  *)
(* the frame holds that counts.                                            *)
(*                                                                         *)
(* The demonstration sender is one source.  The other, Radio, is external: *)
(* packets of any length on any channel, with an OCF or without, and with  *)
(* the telemetry of the three links laid out as the first sender does.     *)
(***************************************************************************)
EXTENDS DemoInjector, ApidRouter

CONSTANTS MaxTick,    \* bound: ticks of the injector
          MaxRadio,   \* bound: frames of Radio
          Sizes,      \* lengths of Radio's packets
          RadioPackets,  \* what Radio's packets are made of, as NextSends
          Absent      \* what nothing has been received for yet

\* What Radio sends has ranges as the ground's types have: the telemetry of the
\* links is laid out as the injector's, an event is any bytes, and a length fits
\* its field.  A time is not nothing.
ASSUME RadioAssumption ==
  /\ \A of \in RadioPackets :
       /\ of.vc \in 0..63 /\ of.apid \in Apids /\ of.tick \in Nat /\ of.noise \in 0..1
       /\ of.user \in Seq(Byte) /\ RawLength(Len(of.user)) \in DataLengths
       /\ of.apid \in {296, 297, 352} =>
            of.user = HkPayload(of.apid, of.tick, of.noise)
  /\ \A size \in Sizes : size \in Nat /\ size - 7 \in DataLengths /\ size >= HeaderLen
  /\ Absent # TaiNow

VARIABLES clcw,       \* clcw_tx: the last one published, or Absent
          latest,     \* of UiState::hk: the last frame per APID
          eventLog,   \* the last of UiState::events
          failed,     \* decode_fail_total of the four decoders
          unknownVc,  \* unknown_vc_total of the demultiplexer
          sent,       \* history: the last frame, what it was made of, and
                      \* whether its packet fills its data field
          truth,      \* history: per APID the tick and noise of the frame stored
          radioed,    \* history: how many frames Radio has sent
          unfit,      \* history: frames on an active channel whose packet does
                      \* not fill their field
          stray       \* history: frames on no active channel and not on the idle one

dvars == <<ivars, clcw, latest, eventLog, failed, unknownVc, sent, truth, radioed,
           unfit, stray>>

\* The channels that main gives a decoder (with_default_channels)
ActiveVcs == 0..3

OcfLen == 4
-----------------------------------------------------------------------------
\* A frame's data field, shorter by the OCF where there is one
FieldOf(frame) == IF frame.ocf THEN FieldLen - OcfLen ELSE FieldLen

\* Mutant of DataField: the OCF is left in the data field.
DataFieldWhole(frame) == frame.field

\* process_frame, 3: what the OCF occupies is not part of the data field.
DataField(frame) == [frame.field EXCEPT !.data = FieldOf(frame) - HeaderLen]

\* A packet that has been parsed: extract_utc does not fall back to the clock.
ExtractApid(packet) == (256 * (packet.head[1] % 8)) + packet.head[2]
ExtractUtc(packet) == DecodeSecondary(packet.head).time

\* process_hk_packet keeps what is behind the header.
HkFrame(packet) ==
  [apid |-> ExtractApid(packet), time |-> ExtractUtc(packet), payload |-> packet.user]

\* process_event_packet: a severity, then a message up to the first zero or,
\* without one, to the end; nothing of both where there is no payload
EventEntry(packet) ==
  LET u == packet.user
      end == CHOOSE k \in 2..(Len(u) + 1) : /\ k = Len(u) + 1 \/ u[k] = 0
                                           /\ \A j \in 2..(k - 1) : u[j] # 0
  IN  [apid |-> ExtractApid(packet),
       severity |-> IF u = <<>> THEN 0 ELSE u[1],
       message |-> IF u = <<>> THEN 0 ELSE end - 2]

Stored(f, at) == [a \in DOMAIN at \cup {f.apid} |-> IF a = f.apid THEN f ELSE at[a]]

\* SppDecoder::process, the router and the sinks
Process(frame, of) ==
  LET p == DataField(frame)
      to == Route(frame.vc, Parsed(p).apid)
  IN  \/ /\ ParseRefusal(p) # "none"
         /\ failed' = failed + 1
         /\ UNCHANGED <<latest, eventLog, truth>>
      \/ /\ ParseRefusal(p) = "none" /\ to \in {"hk", "rover"}
         /\ latest' = Stored(HkFrame(p), latest)
         /\ truth' = Stored([apid |-> HkFrame(p).apid, of |-> of], truth)
         /\ UNCHANGED <<eventLog, failed>>
      \/ /\ ParseRefusal(p) = "none" /\ to = "event"
         /\ eventLog' = EventEntry(p)
         /\ UNCHANGED <<latest, truth, failed>>
      \/ /\ ParseRefusal(p) = "none" /\ to \notin {"hk", "rover", "event"}
         /\ UNCHANGED <<latest, truth, eventLog, failed>>

\* process_frame publishes the CLCW first; then VcDemultiplexer::dispatch
Ingest(frame, of) ==
  /\ clcw' = IF frame.ocf THEN frame.ctr ELSE clcw
  /\ \/ /\ frame.vc \in ActiveVcs /\ Process(frame, of)
        /\ UNCHANGED unknownVc
     \/ /\ frame.vc = VcIdle
        /\ UNCHANGED <<unknownVc, latest, truth, eventLog, failed>>
     \/ /\ frame.vc \notin ActiveVcs \cup {VcIdle}
        /\ unknownVc' = unknownVc + 1
        /\ UNCHANGED <<latest, truth, eventLog, failed>>
-----------------------------------------------------------------------------
\* The handlers of the UI.

\* A slice of n bytes from offset, counted from zero, or of none
Slice(data, offset, n) ==
  IF offset + n <= Len(data) THEN SubSeq(data, offset + 1, offset + n) ELSE <<>>

\* Mutant of ReadLeU32: the bytes are taken in network order.
ReadLeU32Swapped(data, offset) ==
  LET b == Slice(data, offset, 4)
  IN  IF b = <<>> THEN 0 ELSE b[4] + (256 * b[3]) + (65536 * b[2]) + (16777216 * b[1])

ReadLeU32(data, offset) ==
  LET b == Slice(data, offset, 4)
  IN  IF b = <<>> THEN 0 ELSE b[1] + (256 * b[2]) + (65536 * b[3]) + (16777216 * b[4])

ReadBeU32(data, offset) ==
  LET b == Slice(data, offset, 4)
  IN  IF b = <<>> THEN 0 ELSE b[4] + (256 * b[3]) + (65536 * b[2]) + (16777216 * b[1])

\* The eight bytes stand for the number.
ReadBeF64(data, offset) == Slice(data, offset, 8)
ByteAt(data, offset) == IF offset < Len(data) THEN data[offset + 1] ELSE 0

Seen(apid) == apid \in DOMAIN latest
Data(apid) == latest[apid].payload
LastUtc(apid) == IF Seen(apid) THEN latest[apid].time ELSE Absent

\* get_cfs_ros_link, get_ros_ground_link, get_fleet_dds_link: of what was stored
CfsRosLink == [k \in 1..6 |-> ReadLeU32(Data(296), 4 * (k - 1))]
RosGroundLink ==
  [active |-> ByteAt(Data(297), 0) # 0, strength |-> ByteAt(Data(297), 1),
   contact |-> ReadBeF64(Data(297), 2)]
FleetDdsLink ==
  [mask |-> ByteAt(Data(352), 0),
   ages |-> [k \in 1..3 |-> ReadBeU32(Data(352), 1 + (4 * (k - 1)))]]

\* build_links_health and get_rover
LinksHealth == [a \in {296, 297, 352} |-> LastUtc(a)]
Rovers == {a \in DOMAIN latest : a \in 768..1087}
-----------------------------------------------------------------------------
DownlinkInit ==
  /\ InjectorInit
  /\ clcw = Absent /\ latest = <<>> /\ eventLog = Absent /\ failed = 0
  /\ unknownVc = 0
  /\ sent = Absent /\ truth = <<>> /\ radioed = 0 /\ unfit = 0 /\ stray = 0

Fits(frame, packet) == TotalLen(packet) = FieldOf(frame)

\* One frame sent and received
Pass(frame, packet, of) ==
  /\ Ingest(frame, of)
  /\ sent' = [frame |-> frame, of |-> of, fits |-> Fits(frame, packet)]
  /\ unfit' = IF frame.vc \in ActiveVcs /\ ~Fits(frame, packet) THEN unfit + 1
              ELSE unfit
  /\ stray' = IF frame.vc \in ActiveVcs \cup {VcIdle} THEN stray ELSE stray + 1

Inject ==
  /\ tick < MaxTick
  /\ \E of \in NextSends :
       LET packet == Packet(of.apid, seq, of.user)
       IN  Pass(BuildAosFrame(packet, of.vc, frameCtr), packet, of)
  /\ Advance
  /\ UNCHANGED radioed

\* The same packet with a length of size bytes, in its header too
OfSize(packet, size) ==
  [head |-> EncodePrimary([DecodePrimary(packet.head) EXCEPT !.length = size - 7])
              \o SubSeq(packet.head, PrimaryLen + 1, HeaderLen),
   data |-> size - HeaderLen, user |-> packet.user]

\* Between the ticks of the injector, which no frame of Radio concerns
Radio ==
  /\ radioed < MaxRadio /\ step = 1
  /\ radioed' = radioed + 1
  /\ \E of \in RadioPackets, size \in Sizes, ocf \in BOOLEAN :
       LET packet == OfSize(Packet(of.apid, 0, of.user), size)
       IN  Pass([vc |-> of.vc, ocf |-> ocf, ctr |-> radioed',
                 field |-> [packet EXCEPT !.data = FieldLen - HeaderLen]], packet, of)
  /\ UNCHANGED ivars

DownlinkNext == Inject \/ Radio

DownlinkSpec == DownlinkInit /\ [][DownlinkNext]_dvars
-----------------------------------------------------------------------------
\* What is read of an event: its severity, and the length of its text, whether
\* the text is ended by a zero or by the packet
EventReads(entry, u) ==
  /\ u = <<>> => entry.severity = 0 /\ entry.message = 0
  /\ u # <<>> =>
       \A len \in 0..Len(u) :
         u \in {EventPayload(u[1], len), SubSeq(EventPayload(u[1], len), 1, len + 1)}
           => entry.severity = u[1] /\ entry.message = len

\* On a channel that has a decoder a packet is taken if and only if it fills the
\* data field of its frame, OCF or not; it is then found, unchanged and with its
\* own time, where its channel and APID send it, and every other frame of these
\* channels is counted as undecodable.  A frame of any other channel is counted
\* as such, unless it is idle fill (framer.rs:309-325, demux.rs:108-126,
\* decoder.rs:98-110, sinks.rs:95-152).
StoredIsWhatFits ==
  /\ failed = unfit /\ unknownVc = stray
  /\ sent # Absent /\ sent.frame.ocf => clcw = sent.frame.ctr
  /\ sent # Absent /\ sent.fits /\ sent.of.vc \in ActiveVcs =>
       LET of == sent.of
           to == Route(of.vc, of.apid)
       IN  /\ to \in {"hk", "rover"} =>
                latest[of.apid] = [apid |-> of.apid, time |-> TaiNow, payload |-> of.user]
           /\ to = "event" => eventLog.apid = of.apid /\ EventReads(eventLog, of.user)
           /\ to = "forbidden" => ~Seen(of.apid)

\* What the three link handlers and the freshness summary read in the store are
\* the values the sender put into the payload last stored: offsets, widths and
\* byte orders of both sides agree (ui/mod.rs:366-457, demo_injector.rs:471-523).
LinkDtoReadsBack ==
  LET Of(apid) == truth[apid].of
  IN  /\ Seen(296) => CfsRosLink = BridgeCounters(Of(296).tick)
      /\ Seen(297) => RosGroundLink = [active |-> TRUE,
                                       strength |-> Strength(Of(297).noise),
                                       contact |-> LastContact(Of(297).tick)]
      /\ Seen(352) => FleetDdsLink = [mask |-> 7, ages |-> FleetAges(Of(352).noise)]
      /\ \A a \in DOMAIN LinksHealth : LinksHealth[a] # Absent <=> Seen(a)
      /\ \A a \in Range(LandRovers \o Uavs \o <<Cryobot>>) : Seen(a) => a \in Rovers

\* demo_injector.rs:3: the operator's display shows what the injector sends.
InjectedIsShown ==
  tick > 0 => \A k \in DOMAIN Script : Seen(Script[k][1])
=============================================================================
