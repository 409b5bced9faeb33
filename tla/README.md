# Verification of SAKURA-II (cFS and Space ROS integration)

TLA+ models of the control logic of this repository, the TLC runs that check them
on small instances, and the theorems TLAPS proves about them for every value of
their constants.  `PROJECT.json` lists the runs, the mutant that shows each
property can fail, the source lines behind each definition, the hazards, the
findings and the theorems.

    tlc -workers 2 -config MCUplink.cfg MCUplink    # a run
    tlapm UplinkProofs.tla                          # the proofs of a module

## 1. The system

The ground station (`rust/ground_station`) commands an orbiter and receives its
telemetry.  The orbiter runs cFS applications (`apps/`) that exchange messages over
the Software Bus.  Through `ros2_bridge` it serves rovers that run Space ROS 2 nodes
(`ros2_ws/`).  A Gazebo simulation and a fault injector (`simulation/`) stand in for
the world, a web front end (`frontend/`) shows the state.

    operator -> UI server -> TC queue -> TC builder -> COP-1 -> TC framer ....> orbiter
    UI <- rings <- sinks <- router <- decoders <- demux <- framer <... UDP <- orbiter_comm
                             |                              |
                         CFDP, M-File                 CLCW -> COP-1
    orbiter_comm <-> Software Bus <-> cdh, power, adcs, payload, gateways
                           ^
                      ros2_bridge <-> UDP <-> rovers (ROS 2)

### Components, their state and what makes each correct

| component | state | operations | hard behaviour | correct when |
|---|---|---|---|---|
| COP-1 engine (`uplink/cop1.rs`) | FOP-1 state, V(S), window, retry count, T1, time of last CLCW | `initialize`, `submit`, `tick`, `emergency_bd` | lossy loop, stale CLCWs, T1 racing a CLCW, 8-bit wrap | the window is consecutive, T1 runs exactly while something is unacknowledged, what is acknowledged was accepted, commands arrive once and in order, every command settles |
| M-File assembler (`mfile/mod.rs`) | table of transactions (chunks, bit set, deadline, bytes), RAM figure, counters, files | `on_chunk`, `poll` | any order, duplicates, conflicts, RAM cap, I/O failure half way | the file is the one sent, the RAM figure is exact, nothing stays for ever |
| CFDP class 1 (`cfdp/class1.rs`) | transaction table, partial and final files, next id | `on_pdu`, `finalize_transaction`, `cancel`, `poll`, `send_file` | no acknowledgement; any order; leftovers of an earlier attempt | the table is bounded, what was written stays, a gap is never delivered |
| AOS framer (`ingest/framer.rs`, `main.rs`) | byte pipe, receive buffer, rolling window, time the AOS condition began, link state | `run`, `process_frame`, `tick` | datagrams of any size, silence, bursts, a subscriber that waits for a lock | good frames are forwarded once and in order, no flapping, the display catches up |
| ingest (`ingest/*.rs`, `main.rs`) | nine bounded channels, counters, HK and event rings, locks | one task per stage | full channels, two writers of a ring, a reader that holds several locks | forbidden APIDs are never stored, order is kept, no frame is counted or kept twice and none is lost but at known places, no deadlock |
| UI server (`ui/`) | UI state under RwLocks, TC queue of 64, `now_tai` | `post_tc`, link and fleet handlers, WebSocket snapshot | lock order, full queue, a clock nobody sets | a snapshot completes, the queue holds what was asked, what the handlers read is what was sent |
| TC builder and framer (`uplink/builder.rs`, `framer.rs`) | none | `build`, `frame` | two layouts that must agree with a catalogue, limits | the command read from the frame is the one intended |
| CCSDS wire library, cFS bindings (`ccsds_wire`, `cfs_bindings`) | none | encoders, decoders, `PacketBuilder`, `MsgId`, `SbBuffer` | a damaged or cut packet | a packet comes back as it was built or is refused |
| demonstration injector (`bin/demo_injector.rs`) | tick, sequence and frame counters | `inject_tick` | counters that wrap, byte orders | the ground station shows what it sends |
| orbiter_comm | link state, idle count, rates | commands, HK cycle, forwarding | silence counted in cycles, telemetry waiting while the link changes | the link follows the last command, nothing leaves while it is down |
| orbiter_power | mode, four loads | LOAD_SWITCH, SET_POWER_MODE, HK | sequences of legal commands | commands and housekeeping act as documented |
| orbiter_cdh | mode, counters | MODE_TRANSITION, HK, peer HK | requests and telemetry share an id | commands and housekeeping act as documented |
| ros2_bridge | counters | poll of UDP, poll of the pipe | full pipes, a socket or a bus that refuses | what is counted as forwarded was sent, once |
| Software Bus, scheduler | pipes | publish, request | bounded pipes lose messages | external (cFE, not in the repository) |
| orbiter_adcs, orbiter_payload, sample_app | attitude; power and science mode; counters | commands, HK | a comparison with NaN, a guard that one command checks and another changes | commands and housekeeping act as documented |
| MCU gateways | silence counter, CAN assembly flag, counters | drain the command pipe, poll the bus | escapes, lost fragments, silence mixed with bad frames | what is well framed is accepted, an orphaned fragment is not, silence is reported after the polls its constant says |
| sim_adapter | counters, a pipe nobody reads | poll the socket | the pipe fills | only well-formed packets are published |
| fault injector | scenario clock, sequence counters | `Tick` | replay and wrap | not modelled yet |
| ROS 2 nodes | life-cycle states, heartbeats | callbacks, timers | time-outs, callback order | not modelled yet |
| front end | stores, socket state | reconnect, messages | stale data | not modelled yet |

Interactions: `main.rs` connects the UDP socket and the framer by a byte pipe; the
framer publishes CLCWs on a latest-wins watch channel that COP-1 reads; the ingest tasks
hand packets on over bounded `mpsc` channels; sinks and UI share `UiState` through
RwLocks; applications of the orbiter only share the bus; the bridge polls a socket and a
pipe in turn.

## 2. Modules

| module | models | composed of |
|---|---|---|
| `Cop1` | `Cop1Engine`: the record `fop` is the struct; `Initialize`, `Submit`, `Tick`, `EmergencyBd` are its methods; `Publish`, `CloseWatch`, `Elapse` the watch channel and the clock | |
| `TcDelivery` | what an uplink session promises: commands are passed on once, in order, and only what was passed on is confirmed | |
| `Cop1Link` | the closed loop: engine, lossy FIFO links, FARM-1 (external) | `Cop1`, implements `TcDelivery` |
| `SpacePacket` | the wire library: both headers byte by byte, the builder, the errors of `parse` in their order; no state | |
| `PacketPath` | a packet built, damaged at most once, parsed, and taken through `Message` and `SbBuffer` and back | `SpacePacket` |
| `TcUplink` | builder, engine and framer of an operator's intent, and an external reader that goes by the catalogue | `SpacePacket`, `Cop1` |
| `TcQueue` | `POST /api/tc`, validity window, queue, dispatcher | |
| `MFile` | `MFileAssembler`: `OnChunk` with the outcome of every file operation (a write may fail at any byte), `Poll` | |
| `MFileLink` | the assembler behind a correct sender and a bad link | `MFile` |
| `Class1Receiver` | one action per method of the receiver | |
| `Class1Link` | the receiver behind a correct sender | `Class1Receiver` |
| `AosFramer` | the link monitor: window, evaluation, tick | |
| `LinkDisplay` | the watch channel of the link state, the task that subscribes, the lock of the display | extends `AosFramer` |
| `GsStream` | the UDP task, its byte pipe, and the cutting into frames | |
| `ApidRouter` | where a packet goes by channel and APID | |
| `IngestPipeline` | the downlink tasks between two awaits, channels, rings, locks | `ApidRouter` |
| `DemoInjector` | every send of `inject_tick`, its counters and payloads | `SpacePacket` |
| `Downlink` | the channels the demultiplexer serves, what a frame must hold to be stored, and what the UI handlers read of it | `DemoInjector`, `ApidRouter` |
| `OrbiterComm`, `OrbiterPower`, `OrbiterCdh`, `OrbiterPayload`, `OrbiterAdcs`, `SampleApp`, `Ros2Bridge` | one turn of each `AppMain` | |
| `McuGateway` | one round of a gateway; the variable `bus`, which never changes, says whether on HDLC, CAN or SpaceWire | |
| `SimAdapter` | one round of `AppMain`, and its command pipe | |
| `FlightBus` | three applications, the bus, the scheduler, the uplink | extends `OrbiterComm`; `OrbiterCdh`, `Ros2Bridge` |
| `MCOrbiterApps` | the applications side by side, `app` says which one a behaviour runs; orbiter_comm and orbiter_cdh run alone and on the bus | extends `FlightBus` and `McuGateway`; `OrbiterPower`, `OrbiterCdh`, `OrbiterPayload`, `OrbiterAdcs`, `SampleApp`, `SimAdapter` |
| `MCUplink` | the uplink's stages side by side: `part` says which one a behaviour runs; the parts engine and link share the engine of `Cop1` | extends `Cop1Link`, `TcQueue`, `TcUplink` and `PacketPath` |
| `MCGround` | the same for the stages of the downlink that `IngestPipeline` takes as given | extends `LinkDisplay`, `GsStream` and `Downlink` |
| the other `MC...` | small sets and values for TLC, no state of their own | |
| `UplinkProofs` | theorems about the queue, the stages from an intent to a frame, the engine, and the closed loop with its refinement | extends `Cop1Link`, `TcQueue`, `TcUplink`, `WireProofs` |
| `WireProofs` | theorems about the wire format and a packet's way; the lemmas about headers that the others use | extends `PacketPath` |
| `GroundProofs` | theorems about the link monitor, the byte stream and what is stored of a frame | extends `AosFramer`, `GsStream`, `Downlink`, `WireProofs` |
| `IngestProofs` | theorems about the downlink tasks | extends `IngestPipeline` |
| `MFileProofs`, `Class1Proofs` | theorems about the file receivers with their correct senders | extend `MFileLink`, `Class1Link` |
| `OrbiterProofs` | theorems about orbiter_comm, the gateways and the bus | extends `FlightBus` and `McuGateway` |
| `BasicLemmas` | what the proofs share: least elements, suffixes of sequences, remainders, sums of naturals, folds over finite sets, induction over finite subsets and up to a natural, recursive functions on 0..n | |

How the models correspond to the code:

- *Time.*  The Rust code compares instants with thresholds only, so the models keep ages
  or remaining times which saturate one past the largest threshold (`Cop1.Elapse`,
  `AosFramer.Elapse`).  `TcQueue` counts scaled seconds of a clock outside the program
  and converts them as `ui/time.rs` does.  `poll(now)` of the file receivers is given an
  absolute clock `now`, bounded by `MaxNow`.  The orbiter has no clock: it counts
  requests for housekeeping.
- *A method is one action*, with every early return and every failing file operation a
  disjunct of it.  What a call returns is a variable (`out`, `report`, `results`).
- *Tasks.*  Each action of `IngestPipeline` is what a task does between two awaits.
  `try_send` is a disjunct that loses the packet; the relay's `send().await` is a guard.
  RwLocks are fair, as tokio's are: a queued writer blocks later readers.
- *Applications.*  `Process(m)` is one message taken from the pipe.  Messages are
  records with an id and the fields the handler reads.
- *Integers.*  Sequence numbers and wrapping counters are modulo a constant that stands
  for 2^8 or 2^32; saturating counters stop at theirs. A u32 of the wire is its two
  16-bit halves, since TLC's integers are 32 bits wide.
- *Bytes.*  The headers that the code packs bit by bit are packed bit by bit
  (`SpacePacket`).  A packet's user data is a length where nobody looks into it.  In
  `GsStream` a byte is `<<n, k>>`, the k-th of datagram n, so that a frame is recognised
  as one that was sent.
- *Loops over bytes* (the escapes and the CRC of a gateway, what the UDP task has read)
  are recursive functions on 0..n, so that they can be proved about; no module with a
  theorem reaches a RECURSIVE operator.
- *CRCs* are the data they were computed over: no collisions.  The FECF of a TC frame is
  left out.  Only `McuGateway` computes one (over two-bit bytes), because its bytes may
  themselves need an escape.

History variables (marked in each module) record what the code does not keep: what
FARM-1 accepted, which bytes were written, which frames were stored in which order.
No guard of an action that models code reads them.

## 3. Runs

Every passing run explores all reachable states of its instance.  A violation run
checks one statement of a document or comment that the code does not keep.  Deadlock
is checked in every run but `uplink`, `ground`, `injector_shown` and `late_accepted`:
in most models a poll, a tick or a turn that does nothing is still a step of the code,
but a stage without a clock of its own (the queue, a packet under way, the byte stream,
one frame) stops when its environment has brought all that the bounds allow.

| run | question | bounds, and why they suffice |
|---|---|---|
| `uplink`, part engine | does any CLCW in any state break window, timer, retry count, or take a frame out without a reason? | window 2, 4 numbers, 3 retries, T1 of 2: the window wraps, and every retry count occurs; CLCWs are arbitrary |
| part link | does the loop implement `TcDelivery`? | the same engine, one session; 5 commands over 4 numbers, so numbers are reused; 2 losses; 2 frames in flight, as many as the window holds |
| part stages | does the command in the frame say what the operator asked, whatever the engine repeats? | all nine kinds of intent and both sides of each limit, two in a behaviour; window 2, 2 retries, 4 numbers, so that one intent is repeated behind another and numbers wrap; frames in the air are a set, in any order; bulk payloads of 505 and 506 bytes, the last that fits and the first that does not |
| part queue | is what is queued what was asked, and in that order? | queue of 2 for 64, 3 requests, coarse time of 4 bits, deadlines before the epoch, about now, and past the last coarse time |
| part packet | is a packet kept or refused? | values at both ends of each range and one between; each bit of the sixteen header bytes inverted; one byte and whole headers cut off or added |
| `cop1_link_live`, of `Cop1Link` alone | does every command settle when losses are finite, also when the downlink ends for good? | 2 commands, 3 retries, 1 loss: the least that needs a retransmission behind another frame |
| `mfile` | the assembler behind a correct sender and a bad link, beside a transaction of contradicting chunks | one correct and one wild transaction; words of 4 bits, so that a word is partly used; a cap that evicts; a write that fails does so before it touches the file or after none or one (`MaxCut`) of its bytes, so that files of two bytes are cut at the start and inside; a header with a size that cannot be allocated |
| `cfdp` | the receiver behind a correct sender, beside a transaction of broken PDUs | one correct and one wild transaction over a table of one, so that the table is full; a failing write of a segment leaves any part of it |
| `ground`, part monitor | the link state, with calls of `tick` at any time | thresholds 1 < 2 < 3 < 5 in the order of 2 s, 5 s, 10 s, 30 s; five frames in the window |
| part display | does the display follow the monitor? | the same, three frames in the window; snapshots that hold the lock at any time |
| part stream | are good frames forwarded once and in order? | frames of 3 bytes for 1024, buffers of two frames; 4 datagrams that are empty, shorter, longer and as long as frames, one longer than the buffer, some damaged |
| part frames | what is stored of a frame, and what do the link handlers read of it? | one tick of the injector, and two frames whose packets are of 40, 1012, 1015 and 1016 bytes, with and without an OCF: just below, at and above what fills the data field; one of them also on the idle channel and on one without a decoder, events with and without a zero at the end and with no payload |
| `ingest` | at which steps can a frame go missing from queues, store and counters? order, routing, rings, deadlock | 3 frames, each of 9 kinds; every channel of capacity 1 is full at some time; rings of depth 1 overflow; a reader that never stops reading |
| `orbiter_apps` | link state and silence of orbiter_comm; framing, fragments and silence of the gateways; what the bridge counts, on the bus | time-out of 2 cycles for 10, counter that saturates at 4; HDLC frames over four byte values of which two need an escape, all packets of one and two bytes and four of three, stuffed as a whole and laid out as the interface document says, whole and damaged; a buffer (`MaxFrameLen`) sized as in the code, twice the longest packet and two flags, which frames with an escaped CRC may not fit; every CAN frame type; counters wrap at 2, gateway silence after 3 cycles as in the code; on the bus pipes of depth 2 (20), 2 requests, 2 rover commands, one for orbiter_comm and a reset of the bridge, refusing socket and bus.  The turns of power, cdh, payload, adcs, sample_app and the simulation adapter run here with good and bad values, every load and mode and one beyond; no property of this run speaks of them, only `TypeOK` of orbiter_comm and deadlock |
| `mfile_timeout` | is a transaction kept for 10 x OWLT? | no: see section 4 |
| `framer_silent`, of `AosFramer` alone | is silence loss of signal as `main.rs` runs the framer? | no |
| `flight_storm` | one housekeeping packet of the bridge per request? | no |
| `injector_shown` | does the ground station show what the injector sends? | no |
| `late_accepted` | is a command refused whose deadline cannot be met? | no |

Several small models share a run where they share nothing else: a variable of the run
(`part`, `app`) is chosen at the start and says which of them moves, so the states add
up and do not multiply.

What the passing runs show is their properties, each stated in a comment above its
definition.  In short: the uplink engine keeps its window, timer and count together
under any reports; within its first session the closed loop delivers in order and
confirms truthfully, and every command settles but for one state (section 4); what the
catalogue reads in a TC frame is what the operator asked, and a damaged packet is
refused or differs from what was sent in one field; the queue holds the commands that
were accepted, in order, until it is full; the file receivers never mix or lose chunks
while a transaction is open, finish or give up in the end, and what a correct sender
sent is what the ground stores, whatever a broken sender does beside it; the framer
forwards exactly the good frames of those it cuts from the stream, once and in order; a
packet is stored if it fills its data field, and then the link handlers read what was
sent; the display catches up with the monitor whatever snapshots are read; forbidden
packets never reach a store; no frame is counted or kept twice, and one goes missing
uncounted only where it is thrown away on purpose or where framer or router send to a
full channel; the tasks cannot deadlock; the orbiter transmits exactly while it has been
heard; the bridge counts what it sent; the gateways accept what is stuffed as a whole
and fits their buffer, and no continuation of a fragment they dropped.

## 4. Divergences between the code and what is said of it

Five are findings, each with a run that TLC answers with a counterexample:

| run | the code | what is said |
|---|---|---|
| `mfile_timeout` | mfile/mod.rs:280 sets the deadline to owlt x 10, which `poll` compares with the TAI clock: every transaction is past it at once | mfile/mod.rs:37 "Transactions that expire at `started_tai + MFILE_TIMEOUT_OWLT_MULT × OWLT`" |
| `framer_silent` | main.rs:96 awaits `framer.run()` and nothing calls `tick`, so the link stays Aos after the last frame | framer.rs:76 "0 valid frames for 10 s" gives `Los` |
| `injector_shown` | demo_injector.rs:367 fills the data field up with zeros, and decoder.rs:99 parses the whole field as one packet, which refuses the surplus: no packet gets past the decoder | demo_injector.rs:3 "sends them over UDP to the ground station so the frontend LIVE mode shows real-looking data" |
| `late_accepted` | ui/mod.rs:465 judges a deadline with `now_tai`, which starts at zero and which no task of main.rs writes | ui/mod.rs:285 "Current TAI estimate, updated by the ingest path on each AOS frame." |
| `flight_storm` | ros2_bridge.c:418 transmits housekeeping with the id that requests it | ros2_bridge.c:124 "scheduler sends ROS2_BRIDGE_HK_MID at 1 Hz" |

The others were met while modelling.  The models do what the code does here, so the
properties above hold in spite of them or name them as exceptions; no run checks the
statement itself.

| part | the code | what is said |
|---|---|---|
| COP-1 | cop1.rs:242 becomes Active on any clean CLCW, also one sent before Set V(R) arrived | cop1.rs:157-159 "waits for a clean CLCW to confirm acceptance" |
| | cop1.rs:229 a CLCW of the previous session slides the new window (`AckedWasAccepted` speaks of the first session) | cop1.rs:227 "remove frames the spacecraft has acknowledged" |
| | cop1.rs:271 a clean CLCW that acknowledges nothing clears the retry count | uplink/mod.rs:46 "Maximum retransmissions per TC frame before COP-1 abandons the frame" |
| | cop1.rs:259 retransmits the oldest frame only | ICD-orbiter-ground.md:193 "replays from last-ack'd FSN" |
| | cop1.rs:315 tests for stale CLCWs in Active only; silence in RetransmitWithoutWait is never noticed (the exception in `CommandsSettle`) | architecture/06-ground-segment-rust.md:663 "If the stall persists past 10 × T1: transition the engine to RETRANSMIT_WITH_WAIT" |
| TC queue | ui/mod.rs:481 drops the result of `try_send` and answers `accepted: true`, also when the queue is full (`QueuedAsAsked` speaks of what is queued) | ui/mod.rs:459 "validates the command-validity window before accepting the TC for uplink" |
| | ui/time.rs:60 `unwrap_or(0)`: a deadline past 2094 becomes zero, the earliest one | ui/time.rs:59 "at u32::MAX for post-2094 times" |
| TC builder | builder.rs:160-217 puts any `confirm_magic` into the packet | packet-catalog.md:551 "Must equal `0xC0DE`" |
| | builder.rs:165 sends the catalogue's function codes (0x0100, 0x8100); the orbiter's applications dispatch on 0 to 3 (orbiter_cdh.h:21) | packet-catalog.md section 5 |
| | builder.rs:149 writes a quaternion as four i32 (as packet-catalog.md:531); orbiter_adcs tests the norm of four floats | orbiter_adcs.h:33 |
| M-File | mod.rs:293 enforces the RAM cap only when a transaction opens, and mod.rs:381 allocates the header's `total_size_bytes`, which may be more than there is and then ends the caller | mod.rs:35 "caps total in-flight RAM" |
| | mod.rs:468 evicts by equal deadlines, so the smallest id | mod.rs:36 "the oldest transaction is evicted" |
| | mod.rs:179 indexes with the index of the wire; one beyond the words panics | mod.rs:159 "Indexing is bounds-safe" |
| | mod.rs:279 a late duplicate opens a finished transaction again, which writes the file again: `fs::write` truncates first, so if it fails a prefix is left where a complete file was (`BinIsFile` allows it) | architecture/06, section 7.3 "Duplicate chunk, matching content → increment `dup_ok_total`, discard." |
| CFDP | class1.rs:281 `last_pdu_tai` is zero and never updated, so the first poll abandons everything | class1.rs:72 "TAI coarse seconds of the most-recent PDU" |
| | class1.rs:401 without an EOF, Completed is reported without a CRC check (`NoGapAfterEof` speaks of files with an EOF) | cfdp/mod.rs:78 "CRC-32 verified against the EOF PDU" |
| | class1.rs:168 `(source_id << 32) \| seq_num`: sequence numbers of 5 to 8 bytes reach into the source half, so two transactions can share an id | class1.rs:149 "for table-key uniqueness" |
| injector | demo_injector.rs:404-411 its TAI is Unix time + 37, that is counted from 1970 | ui/time.rs:60 counts TAI from 1958 |
| framer | framer.rs:402 two frames far apart acquire the link, because a frame always meets the rate when it is judged | framer.rs:61 "must hold continuously" |
| ingest | main.rs:145 four sends of the router, and framer.rs:344 the framer's, drop the error of a full channel and count nothing, where `AccountedStep` lets a frame go missing | ingest/mod.rs:31 "the upstream stage increments `<stage>_dropped_total`" |
| | main.rs:62 the CFDP channel's receiver is held and never read | router.rs:84 "CFDP protocol data unit → `Class1Receiver::on_pdu`" |
| | main.rs:167 skips the suspect badge when a reader holds the lock, and the packet is gone | ui/mod.rs:168 "Set to `true` when APID 0x541 (clock-skew) has been received and rejected" |
| | main.rs:200 sets `last_frame_utc` with every publication of the link state, also after a frame with a wrong FECF and after a tick | ui/mod.rs:120 "UTC timestamp of the last received AOS frame" |
| orbiter_comm | orbiter_comm.c:323 compares each rate, not the sum, with the ceiling | orbiter_comm.h:37 "total downlink budget ceiling (kbps)" |
| | orbiter_comm.c:323 accepts a rate of zero | orbiter_comm/README.md:37 "reject if `VcId > 3` or `RateKbps == 0`" |
| | orbiter_comm.c:432 the header of the housekeeping packet is never initialised | orbiter_comm/README.md:17 TM out 0x0920 |
| orbiter_power | orbiter_power.c:279 a mode change leaves the loads alone: load 2, switched on in NORMAL, stays on in SAFE and ECLIPSE, where the interlock of line 243 refuses to switch it off as well | orbiter_power/README.md:36 "Non-essential; off in SAFE and ECLIPSE" |
| | orbiter_power.c:256 a load's state is any byte | orbiter_power.h:61 "ORBITER_POWER_LOAD_OFF or ORBITER_POWER_LOAD_ON" |
| orbiter_cdh | orbiter_cdh.c:234 every mode from every mode | orbiter_cdh/README.md:9 "enforce the `SAFE → NOMINAL → EMERGENCY` state machine" |
| | orbiter_cdh.c:187 counts requests for a peer's housekeeping as housekeeping | orbiter_cdh/README.md:12 "Count inbound peer HK messages (`PeerHkRcvCount`) to verify app-health" |
| orbiter_adcs | orbiter_adcs.c:219 a quaternion with a NaN passes, since the comparison is false | orbiter_adcs/README.md:26 "reject if \|norm − 1\| > 0.001" |
| gateways | mcu_eps_gw.c:268 unescapes everything between the flags, the CRC too, so a frame whose CRC has an unescaped 0x7D is dropped; an escaped CRC, as byte stuffing of the whole frame gives it, is accepted (`FramedIsAccepted` names the frames of both layouts it holds for) | mcu_eps_gw.c:242 and ICD-mcu-cfs.md:65 "`FLAG \| <escaped SPP bytes> \| CRC-16-lo \| CRC-16-hi \| FLAG`" |
| | mcu_eps_gw.c:180 declares silence after three polls, 300 ms at 10 Hz, while a healthy bus carries housekeeping once a second (ICD-mcu-cfs.md:122, 200), and publishes an event message; `SilenceReported` is about polls, as mcu_eps_gw.h:37 has it | ICD-mcu-cfs.md:276 "MCU bus silent > 3 × HK period \| Gateway \| Publish synthetic `PKT-TM-02xx-0003`" |
| | mcu_eps_gw.h:31 sizes FrameBuf for 2 x 256 escaped bytes and two flags; a packet of 256 bytes that all need an escape makes a frame of 516 to 518 bytes with CRC and flags, more than the buffer (`FramedIsAccepted` speaks of what fits) | mcu_eps_gw.h:31 "worst-case byte-stuffing doubles payload" |
| | mcu_eps_gw.c:319 (and the other two) `BusSilent` is always 0, and housekeeping is sent only when a valid frame comes | mcu_eps_gw.h:64 "1 = bus declared silent this cycle" |
| | mcu_eps_gw.c:154 a valid frame makes the gateway publish its own counters; the frame is not published | mcu_eps_gw/README.md:9 "Publish validated SPP frames" |
| | mcu_rwa_gw.c:242 the sequence nibble of a consecutive frame is not compared: a lost middle fragment goes unnoticed | mcu_rwa_gw/README.md:3 "Out-of-sequence fragments are dropped and logged" |
| | mcu_rwa_gw.c:127 `Init` clears `CanInProgress` | mcu_rwa_gw/README.md "must survive power-cycling within a session" |
| sample_app | sample_app.c:127 has no case for the request it subscribes to: it is an error | sample_app/README.md lists it as "HK request (SCH-driven)" |
| sim_adapter | sim_adapter.c:103 subscribes a command pipe that nothing reads; :68 counts rounds of the loop as `UptimeSeconds` | its field names |
| ros2_bridge | ros2_bridge.c:418 circulating housekeeping fills the pipe, and rover commands are lost | ros2_bridge.h:5 "forwards rover TC packets" |

## 5. Fairness

- `cop1_link_live`: weak fairness of the clock, of receiving, reporting and delivering,
  and strong fairness of the tick that reads a report.  Losses are finitely many
  (`MaxLoss`), because a link that loses everything refutes nothing; the downlink may
  end for good, after which only the clock and the tick go on.  The tick is strongly
  fair because `MaxFlight`, a bound of the model, can disable it for a while; the real
  tick is periodic and never held up by the link.
- `mfile`, `cfdp`: weak fairness of `Poll` and `Elapse` (`poll` is documented as
  periodic).  Chunks and PDUs are not fair: nothing needs to arrive.
- `ground`: only part display has fairness: weak fairness of the clock, of the
  subscriber's three steps (`Changed`, `Borrow`, `Write`), which tokio polls when they
  can go on, and of the end of a snapshot (`ReadDone`).  No frame and no new snapshot is
  owed.  `OnTick` is weakly fair where somebody calls `tick`, which `ticked` says;
  `DisplaySilence` needs it, `DisplayCatchesUp` does not.
- `framer_silent`: weak fairness of the clock, and no `Tick`, as `main.rs` runs the framer.
- `ingest`: weak fairness of every task, which is what tokio's scheduler gives a
  runnable task, and first-come-first-served locks.  No fairness of the link.

`uplink` states no liveness; that of the loop is `cop1_link_live`.  The applications have
safety properties only: most of their loops block on the bus, and
the gateways' promise about silence is stated in rounds.

## 6. What is proved

The theorems hold for every value of the constants that the named assumptions of
their modules allow; TLC evaluates those assumptions in the passing runs.  No state
bound is used in a proof: where a bound such as `MaxCmds` or `MaxFrames` occurs in a
module, it is any natural number.  Each proof of an invariant has the same shape: an
inductive invariant, a lemma per operator or action that keeps it, and a last step
that puts them together.

### The uplink

`UplinkProofs`, about the engine (`Spec` of `Cop1`), from `WindowAssumption` (the window
is at most half of the sequence space), `RetryAssumption`, `TimerAssumption` and
`NoneAssumption`:

- `TypeCorrect`, `WindowAlwaysConsecutive`, `TimerAlwaysTracks`, `SessionAlwaysClean`:
  the four invariants of the engine under arbitrary CLCWs.
- `AlwaysLeavesForAReason`: the action property about what may leave the window.

None of the four is inductive alone: that the count stays below its limit needs that it
is zero outside the retransmit states; that T1 tracks the window needs that a session
holds no frame before it is active; that `submit` keeps numbers consecutive needs the
bound on the window.  The inductive invariant is their conjunction `EngInv`, a predicate
of the engine record.  A tick is a chain of engine-to-engine operators (stale test,
acknowledgement loop, report, T1), so there is one lemma per operator,
`EngInv(e) => EngInv(op(e))`, and the tick is their composition.  The acknowledgement
loop removes the longest prefix before N(R); the lemma about it rests on the least
element of a set of naturals instead of an induction over the window.

About the closed loop (`LinkSpec` of `Cop1Link`), also from `LinkAssumption`:

- `AlwaysAckedWasAccepted`: in the first session, what the ground takes as acknowledged
  the spacecraft had accepted.
- `DeliveryImplemented`: with at most one session, the loop implements `TcDelivery`.

The first session is the limit of what is true, not of the proof: a CLCW of an earlier
session slides the window of a later one (section 4).  The numbers that travel are
circular, and the invariant `LInv` ties each to the one that is not, the number of
commands accepted: V(S) is ahead of V(R) by what is still to be accepted, a frame in
flight is ahead of or behind V(R) by the place of its command, a CLCW is behind V(R) by
what was accepted since it was made, and the later it was made the less.  All these
distances stay within the window, and within half of the circle the code's comparison is
the order of the commands; this is where `WindowAssumption` is needed.  The step
simulation maps `submit` to `Send`, receiving an AD frame in sequence to `Execute`, a
tick that slides the window to `Confirm`, and every other step to a stutter.

About the queue (`QueueSpec` of `TcQueue`), from `TimeAssumption` (a light time of at
least one second; the code has 600):

- `AlwaysQueuedAsAsked`: what is queued and dispatched is what was asked, in order.

The invariant looks at `dispatched \o queue` as one line, which only grows at its end.
What is accepted and not in the line found the queue full, so the first `QueueCap` of
the line came before it, and stay first.  With a light time of zero the theorem is
false: a deadline before the epoch reads as zero and would be accepted.

About the stages (`StagesSpec` of `TcUplink`), from `StageAssumption` (the intents have
the ranges of their Rust types, numbers fit the header) and whatever reports come:

- `AlwaysCommandComesThrough`: what the catalogue reads in a frame on the wire, sent for
  the first time or again, is the one command the operator asked for under that number;
  the frame's own header reads as the frame; no forbidden command is sent.

`StageInv` says that the engine holds nothing but packets of intents that were asked
for, each with the number it was asked with, which every step of a tick keeps, since a
step drops frames or gives them out and makes none.  The rest are facts about layouts:
the words of a command, of each of the nine kinds, read back from its user data, and the
five bytes of the frame header read as the frame where it fits.

### The wire format

`WireProofs` (`PacketSpec` of `PacketPath`), from `PacketAssumption` (values of the
sealed types, any sizes):

- `AlwaysPacketIsKept`: what was built parses to what it was built from; after one
  fault (a bit inverted, bytes cut off or added) a packet is refused or differs from
  what was sent in one field; what is accepted is well typed and comes back byte for
  byte from `Message`.

`PathInv` says what the link may have made of the draft's packet, and that a message is
made of just that.  Most of the proof is that fields and bytes determine each other:
writing and reading the words of both headers, with `div` and `mod` by powers of two,
are inverses on the types' ranges; and that each bit of the sixteen bytes is either
pinned by the format, so that its inversion is refused, or belongs to one field.

### The file receivers

`MFileProofs` (`Spec` of `MFile`), from `FrameAssumption`, `BoundAssumption`,
`NoFileAssumption` and, for the last two, `SenderAssumption` of `MFileLink`:

- `MFileSound`: the inductive invariant `MInv`, of which the others are consequences.
- `AlwaysRamExact`, `AlwaysNeverIdleFull`, `AlwaysFirstArrivalWins` (an action
  property), `AlwaysBinIsFile`, `AlwaysNoMismatch`.

The RAM figure is a sum over the table of sums over the chunks, and a file is its chunks
joined in order.  Both are folds; what they are for a set with one element more or less
is shown by induction over finite subsets (`SubsetInduction` of `BasicLemmas`, about a
set of good subsets where a textbook has a predicate).  `MInv` says that each
transaction's byte count is the sum of its chunks and the figure the sum of those
counts, which is what makes the saturating subtractions exact; that a transaction in the
table lacks a chunk; and that a correct sender's transaction holds true chunks only, its
`.bin` file is a first part of the file they make, and where completion is reported all
of it.  A write that fails may have written any part of the file, over nothing or over
what an earlier attempt left: that is why what is on disk alone does not say that a file
is complete.

`Class1Proofs` (`Spec` of `Class1Receiver`), from `BoundAssumption`, `NoneAssumption` and
`SenderAssumption` of `Class1Link`:

- `AlwaysTableBounded`, from the finiteness of the table and the test each of the two
  ways to open a transaction makes.
- `LinkSound`, `AlwaysSegmentsMakeFile` and `AlwaysNoGapAfterEof` (an action property).

`LinkInv` says that what was written since a transaction was opened is on disk, even
when the partial file has remains of an earlier attempt, because a segment that is
written twice is written with the same bytes; and that a partial file is never longer
than the file, so that what has every byte written is the file.

### The downlink

`GroundProofs`, about the link monitor (`Spec` of `AosFramer`), from `DurationAssumption`:

- `WindowStaysInOrder`: types, and the order of the window.  `prune` looks at the front
  only, and removes everything too old because entries are kept oldest first.
- `AlwaysNoFlapping` (an action property).  It needs that the AOS condition is never
  older than the last evaluation that found the link bad: that evaluation forgets the
  condition, and both ages grow together, also where they saturate.

About the byte stream (`StreamSpec` of `GsStream`), from `StreamAssumption` (a frame is
longer than a byte, a buffer holds a frame, lengths are naturals):

- `AlwaysForwardedExactly`: the UDP task forwards the good ones among the consecutive
  pieces of the stream that all datagrams make, each once and in order, and rejects the
  others, however datagrams and partial writes fall; as long as only whole frames come,
  none that came undamaged is rejected.

What the framer had, its buffer, the pipe and the rest of a `write_all` lie end to end in
the stream (`StreamInv`): a step moves a boundary between two of them and loses nothing.
No byte comes twice, so a good frame is known by its first byte.

About what is stored (`DownlinkSpec` of `Downlink`), from `RadioAssumption` (whatever
else comes down has the ranges of the wire, on any of the 64 channels, and lays out the
telemetry of the links as the injector does; an event is any bytes; a time is not
nothing):

- `AlwaysStoredIsWhatFits`: on a channel that has a decoder a packet is taken if and
  only if it fills its data field, OCF or not, and is then found unchanged where its
  channel and APID send it; a frame of these channels that is not taken is in the
  decoder's count, one of any other channel in the demultiplexer's, but for idle fill.
- `AlwaysLinkDtoReadsBack`: the link handlers and the freshness summary read the values
  the sender wrote, for every tick.
- `InjectedNeverFits` (an action property): no frame of the injector is ever taken,
  which the finding of `injector_shown` is the first instance of.

`DownlinkInv` says that the store and the history `truth` have the same APIDs, none of
them forbidden, and that each payload stored is that of the frame `truth` names.  That a
frame parses exactly if it fits, and to what, is `ReadsThrough`, from the lemmas of
`WireProofs`; what the handlers read is about payloads as a prefix and blocks of four
bytes (`Blocks`), since a counter is read at the place its block has, from bytes that
add up to it (`FourAddUp`).

`IngestProofs` (`Spec` of `IngestPipeline`), from `CapacityAssumption`:

- `PipeTyped`, and from it `AlwaysForbiddenStopped`: past the router the channels are
  sequences of frames that the router lets through.
- `AlwaysAccounted` (a state and an action property): what is `Missing` was received and
  is in no queue, store or counter of the code; it is zero at the start, and a step adds
  one to it where a frame is thrown away on purpose (idle channel, idle or unrouted
  APID) or framer or router send to a full channel, and nothing anywhere else.  No
  history helps: the code has no counter for those (section 4), so the
  theorem names the steps.  Each other step moves one frame between the terms of the
  sum.  How many frames a family of channels holds is the number of its slots (a channel
  and a place), so that adding to one channel of several is adding one element to a set.
- `AlwaysPathInOrder`: the eight stages a frame of a virtual channel passes are one
  line, and it is in order.  A step takes the head of a stage and puts it at the end of
  the next, drops it, or starts the line with the newest frame.  It needs that the
  channels of a virtual channel hold its frames only.
- `AlwaysRingsAreNewest`: every ring is the newest part of what its writers stored.  It
  needs that each sink and its drain hold the frames of that sink only, and that an APID
  without a ring has had no packet.

### The orbiter

`OrbiterProofs`, on orbiter_comm alone (`Spec` of `OrbiterComm`), from `CommAssumption`
and `RateCommandAssumption`:

- `CommTypeCorrect`, `LinkAlwaysMeansHeard`, `AlwaysSilentWhenDown` (an action property).

`LinkMeansHeard` says nothing of the idle counter which decides the link.  `LinkInv`
adds that counter and silence agree while the link is up, and that the counter is past
the time-out once it is down.  That the counter saturates at or above the time-out is
`CommAssumption`.  A turn keeps `LinkInv` whatever message it takes (`LinkTurn`).

On the bus (`BusSpec` of `FlightBus`), from `CommAssumption`, `IdsAssumption` (what is
requested, and the housekeeping with the header nobody set, have no id of a rover
command or of a command to the bridge) and `BridgeCommandAssumption` (a command to the
bridge is one of its three kinds):

- `BusLinkMeansHeard`: the same link property, now with the traffic of the bus.
- `AlwaysForwardedIsSent`: `SentInv` follows a rover command.  It waits in the bridge's
  pipe at most once and only if the uplink brought it; one that was sent waits no
  longer; the counter is the number sent since the last reset, modulo its width
  (`ModNext`).  Full pipes lose messages, which `DeliveredIs` allows for.

On the gateways (`GatewaySpec` of `McuGateway`), from `GatewayAssumption`, for any bus
and any set of frames:

- `AlwaysSilenceReported`: of any three rounds one published housekeeping or raised the
  alarm, and an alarm comes only after three without a valid frame; nothing is said of
  time (section 4).  `SilenceInv` reads the counter off the rounds
  kept: it is how many of the last were neither housekeeping nor an alarm, and the round
  before them was one of the two.  An alarm at the end means that no round kept was
  housekeeping.
- `AlwaysFramedIsAccepted`: a gateway accepts every packet whose frame fits the buffer
  and that is stuffed as a whole, its CRC too, as in RFC 1662, and every one laid out as
  in ICD-mcu-cfs.md whose CRC has no escape among its bytes; with one it need not
  (section 4).  Unescaping undoes escaping for byte sequences of any
  length, by induction over the bytes escaped: at each place the receiver holds what was
  sent up to there and no escape is open.  The induction is over the places of a
  recursive function (`UpToInduction`, and `RecursionExists` that it has values), which
  needs no operator as a parameter.
- `AlwaysFragmentsFollowFirst`: an assembly in progress means that the last frame of
  another type was a first frame; that a dropped frame published nothing comes from
  `SilenceInv`.

### Only model-checked

- Liveness (`CommandsSettle`, `Settles`, `PipelineDrains`, `SnapshotCompletes`,
  `DisplayCatchesUp`, `DisplaySilence`) and everything that needs ENABLED: outside the
  prover.
- The statements of the five violation runs, which are false.
- The turns of orbiter_power, orbiter_cdh, orbiter_adcs, orbiter_payload, sample_app and
  the simulation adapter: modelled and run, but without a property of
  their own.

Every safety invariant and every action property of the passing runs, and the
refinement of `TcDelivery`, has a theorem.

## 7. Not modelled, and why

- The FECF's value and CRC arithmetic; floating-point telemetry of the injector, asset
  names, wording and log rate limits.
- UI handlers that only copy a state which no task of `main.rs` writes (CFDP, M-File and
  COP-1 status); the decoding of CFDP headers, of which only the id is
  discussed in section 4: a PDU that cannot be decoded changes nothing.
- The examples; `TcUplink` composes the stages as `examples/uplink_session.rs` does,
  because `uplink/dispatcher.rs`, the only consumer in `main.rs`, just logs.
- The constants `cfs_bindings` generates from the mission headers.
- The bus drivers of the gateways, which are stubs that never deliver (`McuGateway`
  lets a poll bring any frame, as the unit tests do).
- Fault injector and ROS 2 nodes: planned; Gazebo plugins are numerical physics.
- Front end, scripts, demos, examples: outside the running system, or rendering.
- A failing `Init` of an application, which ends it; logging and event text.
- cFE, SCH, OSAL and FARM-1 are not in the repository and are external, from how the
  code uses them.  `ros2_bridge` is built but not in the start-up script
  `_defs/cpu1_cfe_es_startup.scr`; `FlightBus` models an orbiter on which it runs.

## 8. Plan

Done: the uplink from the operator's request to the frame, the file receivers, the
downlink from the datagram to the display, the wire library, the applications, the
gateways and the simulation adapter, three applications on the bus, and the theorems
of section 6.  Next, in this order:

1. `HdlcLite`: the rover's framing, checked as an inverse as in `McuGateway`.
2. `FlightBus` extended by power, payload and the gateways.
3. `FleetMonitor`, `LinkStateBridge`, the life-cycle base and the rover nodes.
4. `FaultInjector`: scenario clock and sequence counters, composed with the pipeline.
5. The front end's stores and its reconnecting socket.

A theorem about liveness would need a prover for ENABLED; the measures are known (the
window and the retry count for `CommandsSettle`, the places in the channels for
`PipelineDrains`), and TLC checks both.
