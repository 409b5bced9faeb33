--------------------------- MODULE IngestPipeline ---------------------------
(***************************************************************************)
(* The downlink behind the AosFramer: the tasks main.rs spawns and the     *)
(* bounded channels between them (rust/ground_station/src/ingest/).        *)
(*                                                                         *)
(*   framer -> frameQ -> demux -> vcQ[v] -> decoder[v] -> sppQ[v]          *)
(*          -> relay[v] -> tagQ -> router -> sinkQ[s] -> drain[s] -> store *)
(*                                                                         *)
(* Every sender but the relay uses try_send and loses what does not fit;   *)
(* the relay waits.  Each action is what a task does between two awaits.   *)
(* A frame is its number, its virtual channel and the APID of its packet,  *)
(* NoPacket if SpacePacket::parse refuses it; the router parses the bytes  *)
(* the decoder has parsed, so its own refusal never happens.               *)
(***************************************************************************)
EXTENDS ApidRouter, Sequences, FiniteSets, FiniteSetsExt, SequencesExt

CONSTANTS Inputs,      \* the <<vc, apid>> the link may bring
          Vcs,         \* the virtual channels that have a decoder, 0..3
          FrameCap, VcCap, SppCap, TagCap, SinkCap,   \* channel capacities
          HkFrames,    \* HK_FRAMES_PER_APID
          EventRing,   \* EVENT_RING_MAX
          MaxFrames,   \* bound: frames received
          NoPacket

ASSUME CapacityAssumption ==
  /\ {FrameCap, VcCap, SppCap, TagCap, SinkCap, HkFrames, EventRing}
       \subseteq Nat \ {0}
  /\ MaxFrames \in Nat
  /\ Vcs \subseteq 0..62 /\ VcEventLog \in Vcs
  /\ Inputs \subseteq (0..63) \X ((0..2047) \cup {NoPacket})
  /\ NoPacket \notin 0..2047

VARIABLES received,    \* how many frames the framer has forwarded or lost
          frameQ, vcQ, sppQ, relay, tagQ, sinkQ,
          drain,       \* what a sink took from its channel, waiting for a lock
          hk, events,  \* UiState::hk, one ring per APID, and UiState::events
          count,       \* the counters of demultiplexer and decoders
          forbidden,   \* forbidden_apid_seen_total over all APIDs
          suspect,     \* time_auth.time_suspect_seen
          reader,      \* read guards build_snapshot holds, in the order taken
          arrivals     \* history: the frames stored, in the order of the writes

pvars == <<received, frameQ, vcQ, sppQ, relay, tagQ, sinkQ, drain, hk, events,
           count, forbidden, suspect, reader, arrivals>>
-----------------------------------------------------------------------------
Sinks == {"hk", "event", "cfdp", "rover"}
\* The sinks main.rs starts: the receiver of the cfdp channel is only held.
Drained == {"hk", "event", "rover"}

Init ==
  /\ received = 0
  /\ frameQ = <<>> /\ tagQ = <<>>
  /\ vcQ = [v \in Vcs |-> <<>>] /\ sppQ = vcQ /\ relay = vcQ
  /\ sinkQ = [s \in Sinks |-> <<>>]
  /\ drain = [s \in Drained |-> <<>>]
  /\ hk = <<>> /\ events = <<>>
  /\ count = [demux |-> 0, unknownVc |-> 0, decodeFail |-> 0, decoder |-> 0]
  /\ forbidden = 0 /\ suspect = FALSE /\ reader = 0
  /\ arrivals = <<>>
-----------------------------------------------------------------------------
\* AosFramer forwards a good frame: try_send, and its error is dropped.
Forward ==
  /\ received < MaxFrames
  /\ received' = received + 1
  /\ \E in \in Inputs :
       LET f == [n |-> received', vc |-> in[1], apid |-> in[2]]
       IN  frameQ' = IF Len(frameQ) < FrameCap THEN Append(frameQ, f) ELSE frameQ
  /\ UNCHANGED <<vcQ, sppQ, relay, tagQ, sinkQ, drain, hk, events, count,
                 forbidden, suspect, reader, arrivals>>

\* VcDemultiplexer::dispatch
Demux ==
  /\ frameQ # <<>>
  /\ frameQ' = Tail(frameQ)
  /\ LET f == Head(frameQ) IN
     \/ /\ f.vc = VcIdle
        /\ UNCHANGED <<vcQ, count>>
     \/ /\ f.vc \in Vcs /\ Len(vcQ[f.vc]) < VcCap
        /\ vcQ' = [vcQ EXCEPT ![f.vc] = Append(@, f)]
        /\ UNCHANGED count
     \/ /\ f.vc \in Vcs /\ Len(vcQ[f.vc]) >= VcCap
        /\ count' = [count EXCEPT !.demux = @ + 1]
        /\ UNCHANGED vcQ
     \/ /\ f.vc \notin Vcs \cup {VcIdle}
        /\ count' = [count EXCEPT !.unknownVc = @ + 1]
        /\ UNCHANGED vcQ
  /\ UNCHANGED <<received, sppQ, relay, tagQ, sinkQ, drain, hk, events,
                 forbidden, suspect, reader, arrivals>>

\* Mutant of Decode: a full channel is not counted.
DecodeSilently(v) ==
  /\ vcQ[v] # <<>>
  /\ vcQ' = [vcQ EXCEPT ![v] = Tail(@)]
  /\ IF Head(vcQ[v]).apid = NoPacket
     THEN count' = [count EXCEPT !.decodeFail = @ + 1] /\ UNCHANGED sppQ
     ELSE /\ sppQ' = [sppQ EXCEPT ![v] =
                        IF Len(@) < SppCap THEN Append(@, Head(vcQ[v])) ELSE @]
          /\ UNCHANGED count
  /\ UNCHANGED <<received, frameQ, relay, tagQ, sinkQ, drain, hk, events,
                 forbidden, suspect, reader, arrivals>>

\* SppDecoder::process, the task of channel v
Decode(v) ==
  /\ vcQ[v] # <<>>
  /\ vcQ' = [vcQ EXCEPT ![v] = Tail(@)]
  /\ LET f == Head(vcQ[v]) IN
     \/ /\ f.apid = NoPacket
        /\ count' = [count EXCEPT !.decodeFail = @ + 1]
        /\ UNCHANGED sppQ
     \/ /\ f.apid # NoPacket /\ Len(sppQ[v]) < SppCap
        /\ sppQ' = [sppQ EXCEPT ![v] = Append(@, f)]
        /\ UNCHANGED count
     \/ /\ f.apid # NoPacket /\ Len(sppQ[v]) >= SppCap
        /\ count' = [count EXCEPT !.decoder = @ + 1]
        /\ UNCHANGED sppQ
  /\ UNCHANGED <<received, frameQ, relay, tagQ, sinkQ, drain, hk, events,
                 forbidden, suspect, reader, arrivals>>

\* Mutant of RelayTake: a packet is sent by a task of its own, so the relay
\* takes the next one while the last still waits.
RelayTakeSpawns(v) ==
  /\ sppQ[v] # <<>>
  /\ relay' = [relay EXCEPT ![v] = <<Head(sppQ[v])>> \o @]
  /\ sppQ' = [sppQ EXCEPT ![v] = Tail(@)]
  /\ UNCHANGED <<received, frameQ, vcQ, tagQ, sinkQ, drain, hk, events, count,
                 forbidden, suspect, reader, arrivals>>

\* The relay of channel v takes a packet, then awaits room in tagQ.
RelayTake(v) ==
  /\ relay[v] = <<>> /\ sppQ[v] # <<>>
  /\ relay' = [relay EXCEPT ![v] = <<Head(sppQ[v])>>]
  /\ sppQ' = [sppQ EXCEPT ![v] = Tail(@)]
  /\ UNCHANGED <<received, frameQ, vcQ, tagQ, sinkQ, drain, hk, events, count,
                 forbidden, suspect, reader, arrivals>>

RelaySend(v) ==
  /\ relay[v] # <<>> /\ Len(tagQ) < TagCap
  /\ tagQ' = Append(tagQ, Head(relay[v]))
  /\ relay' = [relay EXCEPT ![v] = Tail(@)]
  /\ UNCHANGED <<received, frameQ, vcQ, sppQ, sinkQ, drain, hk, events, count,
                 forbidden, suspect, reader, arrivals>>

\* Refused 0x541 raises the badge, unless a snapshot holds time_auth:
\* try_write does not wait.
Badge(f) ==
  suspect' = (suspect \/ (f.apid = ClockSkewApid /\ reader < 3))

\* The router task; a sink's full channel loses the packet.
RouteOne ==
  /\ tagQ # <<>>
  /\ tagQ' = Tail(tagQ)
  /\ LET f == Head(tagQ)
         to == Route(f.vc, f.apid)
     IN  \/ /\ to \in Sinks /\ Len(sinkQ[to]) < SinkCap
            /\ sinkQ' = [sinkQ EXCEPT ![to] = Append(@, f)]
            /\ UNCHANGED <<forbidden, suspect>>
         \/ /\ \/ to \in Sinks /\ Len(sinkQ[to]) >= SinkCap
               \/ to \in {"idle", "unknown"}
            /\ UNCHANGED <<sinkQ, forbidden, suspect>>
         \/ /\ to = "forbidden"
            /\ forbidden' = forbidden + 1
            /\ Badge(f)
            /\ UNCHANGED sinkQ
  /\ UNCHANGED <<received, frameQ, vcQ, sppQ, relay, drain, hk, events, count,
                 reader, arrivals>>
-----------------------------------------------------------------------------
\* drain_hk and drain_events: recv, then queue for the write lock.
DrainTake(s) ==
  /\ drain[s] = <<>> /\ sinkQ[s] # <<>>
  /\ drain' = [drain EXCEPT ![s] = <<Head(sinkQ[s])>>]
  /\ sinkQ' = [sinkQ EXCEPT ![s] = Tail(@)]
  /\ UNCHANGED <<received, frameQ, vcQ, sppQ, relay, tagQ, hk, events, count,
                 forbidden, suspect, reader, arrivals>>

\* Mutant of Newest: the ring keeps its first frames.
NewestKeepsFirst(ring, f, depth) ==
  IF Len(ring) < depth THEN Append(ring, f) ELSE ring

\* push, then drain the excess from the front
Newest(ring, f, depth) ==
  LET pushed == Append(ring, f)
  IN  SubSeq(pushed, 1 + Max({0, Len(pushed) - depth}), Len(pushed))

\* process_hk_packet, of the orbiter's or the rovers' drain
StoreHk(s) ==
  /\ s \in {"hk", "rover"} /\ drain[s] # <<>>
  /\ reader = 0
  /\ LET f == Head(drain[s])
         ring == IF f.apid \in DOMAIN hk THEN hk[f.apid] ELSE <<>>
     IN  hk' = [a \in DOMAIN hk \cup {f.apid} |->
                  IF a = f.apid THEN Newest(ring, f, HkFrames) ELSE hk[a]]
  /\ drain' = [drain EXCEPT ![s] = <<>>]
  /\ arrivals' = Append(arrivals, Head(drain[s]))
  /\ UNCHANGED <<received, frameQ, vcQ, sppQ, relay, tagQ, sinkQ, events, count,
                 forbidden, suspect, reader>>

\* process_event_packet
StoreEvent ==
  /\ drain["event"] # <<>>
  /\ reader < 2
  /\ events' = Newest(events, Head(drain["event"]), EventRing)
  /\ drain' = [drain EXCEPT !["event"] = <<>>]
  /\ arrivals' = Append(arrivals, Head(drain["event"]))
  /\ UNCHANGED <<received, frameQ, vcQ, sppQ, relay, tagQ, sinkQ, hk, count,
                 forbidden, suspect, reader>>

\* A write request queued before a read is served before it.
WriterQueued(k) ==
  CASE k = 0 -> \E s \in {"hk", "rover"} : drain[s] # <<>>
    [] k = 1 -> drain["event"] # <<>>
    [] k = 2 -> FALSE

\* Mutant of Snapshot: only the last guard is dropped.
SnapshotDropsLast ==
  /\ \/ reader < 3 /\ ~WriterQueued(reader) /\ reader' = reader + 1
     \/ reader = 3 /\ reader' = 2
  /\ UNCHANGED <<received, frameQ, vcQ, sppQ, relay, tagQ, sinkQ, drain, hk,
                 events, count, forbidden, suspect, arrivals>>

\* build_snapshot takes the read locks of hk, events and time_auth in this
\* order (four others between them have no writer here), then drops them all.
Snapshot ==
  /\ \/ reader < 3 /\ ~WriterQueued(reader) /\ reader' = reader + 1
     \/ reader = 3 /\ reader' = 0
  /\ UNCHANGED <<received, frameQ, vcQ, sppQ, relay, tagQ, sinkQ, drain, hk,
                 events, count, forbidden, suspect, arrivals>>

VcTask(v) == Decode(v) \/ RelayTake(v) \/ RelaySend(v)
SinkTask(s) == DrainTake(s) \/ StoreHk(s) \/ (s = "event" /\ StoreEvent)

Next ==
  \/ Forward \/ Demux \/ RouteOne \/ Snapshot
  \/ \E v \in Vcs : VcTask(v)
  \/ \E s \in Drained : SinkTask(s)

\* Every task is polled again when it can go on, and the lock serves requests
\* in their order (WriterQueued); the link owes no frame.
Fairness ==
  /\ WF_pvars(Demux) /\ WF_pvars(RouteOne) /\ WF_pvars(Snapshot)
  /\ \A v \in Vcs : WF_pvars(Decode(v)) /\ WF_pvars(RelayTake(v))
                    /\ WF_pvars(RelaySend(v))
  /\ \A s \in Drained : WF_pvars(DrainTake(s)) /\ WF_pvars(StoreHk(s))
  /\ WF_pvars(StoreEvent)

Spec == Init /\ [][Next]_pvars
FairSpec == Spec /\ Fairness
-----------------------------------------------------------------------------
Elements(f) == UNION {ToSet(f[x]) : x \in DOMAIN f}

\* How many frames the channels of f hold together
Slots(f) == UNION {{<<x, i>> : i \in 1..Len(f[x])} : x \in DOMAIN f}
Lengths(f) == Cardinality(Slots(f))

\* The frames of channel v come in q in the order of the link.
InOrder(v, q) ==
  \A i, j \in 1..Len(q) : i < j /\ q[i].vc = v /\ q[j].vc = v => q[i].n < q[j].n

\* What is between framer and router, for channel v the oldest first
Path(v) == tagQ \o relay[v] \o sppQ[v] \o vcQ[v] \o frameQ

\* The arrivals that go into the ring of an APID, and into the event log
Stored(a) ==
  {p \in 1..Len(arrivals) : arrivals[p].apid = a /\ arrivals[p].vc # VcEventLog}
Logged == {p \in 1..Len(arrivals) : arrivals[p].vc = VcEventLog}

\* The ring is the last arrivals at the places P, the oldest first.
IsNewest(ring, P, depth) ==
  /\ Len(ring) = Min({depth, Cardinality(P)})
  /\ \A k \in 1..Len(ring) :
       \E p \in P : /\ ring[k] = arrivals[p]
                    /\ Cardinality({q \in P : q > p}) = Len(ring) - k

Frames == [n : 1..MaxFrames, vc : {in[1] : in \in Inputs},
           apid : {in[2] : in \in Inputs}]

\* Every channel holds frames, no more than its capacity, and every task at
\* most one of its own.
TypeOK ==
  /\ received \in 0..MaxFrames
  /\ ToSet(frameQ) \cup ToSet(tagQ) \cup Elements(vcQ) \cup Elements(sppQ)
     \cup Elements(relay) \cup Elements(sinkQ) \cup Elements(drain)
     \cup Elements(hk) \cup ToSet(events) \subseteq Frames
  /\ Len(frameQ) <= FrameCap /\ Len(tagQ) <= TagCap
  /\ \A v \in Vcs : /\ Len(vcQ[v]) <= VcCap /\ Len(sppQ[v]) <= SppCap
                    /\ Len(relay[v]) <= 1
  /\ \A s \in Sinks : Len(sinkQ[s]) <= SinkCap
  /\ \A s \in Drained : Len(drain[s]) <= 1
  /\ \A c \in DOMAIN count : count[c] \in 0..MaxFrames
  /\ forbidden \in 0..MaxFrames
  /\ suspect \in BOOLEAN /\ reader \in 0..3

\* The five tasks a channel's frames pass keep them in the order of the link,
\* and so does the way of the event log, whose channel is its own
\* (main.rs:106-129, sinks.rs:85-89).
PathInOrder ==
  /\ \A v \in Vcs : InOrder(v, Path(v))
  /\ InOrder(VcEventLog,
             events \o drain["event"] \o sinkQ["event"] \o Path(VcEventLog))

\* No packet of the fault-injection, simulation or ground-internal blocks gets
\* past the router, whatever channel brings it (router.rs:123-143).
ForbiddenStopped ==
  \A f \in Elements(sinkQ) \cup Elements(drain) \cup Elements(hk)
           \cup ToSet(events) : ~ForbiddenApid(f.apid)

\* However the drains of orbiter, rovers and events interleave with each other
\* and with the readers, each ring is the newest part of what was written:
\* the two writers of hk lose no update (sinks.rs:107-121, 148-152).
RingsAreNewest ==
  /\ \A a \in DOMAIN hk : IsNewest(hk[a], Stored(a), HkFrames)
  /\ IsNewest(events, Logged, EventRing)

\* Where a frame is: between framer and router, behind the router, or in one
\* of the totals the stages keep (demux.rs:44-45, decoder.rs:53-54, and the
\* router's forbidden_apid_seen_total).  What is in none of them is missing.
OnTheWay == Len(frameQ) + Lengths(vcQ) + Lengths(sppQ) + Lengths(relay) + Len(tagQ)
Sunk == Lengths(sinkQ) + Lengths(drain) + Len(arrivals)
Counted == count.demux + count.unknownVc + count.decodeFail + count.decoder
Missing == received - (OnTheWay + Sunk + Counted + forbidden)

\* The step throws a frame away on purpose: of the idle channel, of the idle
\* APID, or of an APID no route takes.
ThrownAway ==
  \/ /\ frameQ # <<>> /\ frameQ' = Tail(frameQ)
     /\ Head(frameQ).vc = VcIdle
  \/ /\ tagQ # <<>> /\ tagQ' = Tail(tagQ)
     /\ Route(Head(tagQ).vc, Head(tagQ).apid) \in {"idle", "unknown"}

\* The step sends a frame to a full channel whose sender counts nothing: the
\* framer's, or the router's to the sink the frame is for.
SentInVain ==
  \/ received' = received + 1 /\ Len(frameQ) >= FrameCap
  \/ /\ tagQ # <<>> /\ tagQ' = Tail(tagQ)
     /\ \E s \in Sinks : /\ s = Route(Head(tagQ).vc, Head(tagQ).apid)
                         /\ Len(sinkQ[s]) >= SinkCap

\* From the link to the store no frame is counted twice, kept twice or comes
\* back, and a frame goes missing, one at a step, only where the code throws
\* it away on purpose or its framer or router sends to a full channel: no loss
\* at demultiplexer, decoder, relay or drain is without its count.
AccountedStep ==
  \/ Missing' = Missing
  \/ Missing' = Missing + 1 /\ (ThrownAway \/ SentInVain)

EveryFrameAccounted == Missing = 0 /\ [][AccountedStep]_pvars

\* The link brings no more than MaxFrames, so in the end every channel but
\* cfdp's is empty and every frame stored: no task waits for another for ever
\* while snapshots are read over and over (main.rs:120-126, sinks.rs:107).
PipelineDrains ==
  <>[](/\ frameQ = <<>> /\ tagQ = <<>>
       /\ Lengths(vcQ) + Lengths(sppQ) + Lengths(relay) + Lengths(drain) = 0
       /\ \A s \in Drained : sinkQ[s] = <<>>)

\* A snapshot that has its first read lock gets the others (ui/mod.rs:535-541).
SnapshotCompletes == (reader > 0) ~> (reader = 0)
=============================================================================
