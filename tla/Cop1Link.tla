------------------------------ MODULE Cop1Link ------------------------------
(***************************************************************************)
(* The closed telecommand loop: Cop1Engine on the ground, a lossy FIFO     *)
(* uplink, the spacecraft's FARM-1, and a lossy FIFO downlink of CLCWs     *)
(* that AosFramer publishes on the watch channel.                          *)
(*                                                                         *)
(* The spacecraft side is external: no FARM-1 is in the repository, and    *)
(* it is modelled from how the ground uses it (ICD-orbiter-ground.md       *)
(* sections 3.3 and 7.2 and the CLCWs of the tests and of                  *)
(* examples/uplink_session.rs): a frame in sequence is accepted, any other *)
(* is dropped and raises the retransmit flag, Set V(R) clears it, and a    *)
(* CLCW is reported again and again, one per downlink frame.               *)
(*                                                                         *)
(* Commands are numbered in the order they are submitted, so that the      *)
(* number stands for the command itself whatever its 8-bit sequence is.    *)
(***************************************************************************)
EXTENDS Cop1

CONSTANTS MaxCmds,       \* bound: commands submitted
          MaxSessions,   \* bound: calls of initialize()
          MaxFlight,     \* bound: frames, and CLCWs, in flight
          MaxLoss,       \* bound: frames and CLCWs lost
          MayClose       \* whether the downlink may end in this instance

ASSUME LinkAssumption ==
  /\ Spp = 1..MaxCmds
  /\ MaxCmds \in Nat \ {0} /\ MaxSessions \in Nat /\ MaxFlight \in Nat
  /\ MaxLoss \in Nat /\ MayClose \in BOOLEAN

VARIABLES uplink,     \* TC frames in flight
          downlink,   \* CLCWs in flight
          farm,       \* the spacecraft: V(R), retransmit flag, last session set
          session,    \* number of initialize() calls so far
          submitted,  \* history: number of commands submitted
          accepted,   \* history: commands FARM-1 passed on, in order
          acked,      \* history: commands the ground took as acknowledged
          losses      \* frames and CLCWs lost so far

linkVars == <<fop, watch, out, uplink, downlink, farm, session, submitted,
              accepted, acked, losses>>
-----------------------------------------------------------------------------
LinkInit ==
  /\ Init
  /\ uplink = <<>> /\ downlink = <<>>
  /\ farm = [vr |-> 0, retransmit |-> FALSE, session |-> 0]
  /\ session = 0 /\ submitted = 0
  /\ accepted = <<>> /\ acked = {} /\ losses = 0

\* The frames a call returns go up the link in order.  A BC frame is tagged
\* with the session that sent it (history only, the code does not number it).
Uplinked(fs) ==
  [i \in 1..Len(fs) |-> [frame |-> fs[i],
                         session |-> IF fs[i].type = "BC" THEN session' ELSE 0]]

Transmit ==
  /\ uplink' = uplink \o Uplinked(out')
  /\ Len(uplink') <= MaxFlight

LinkInitialize ==
  /\ session < MaxSessions
  /\ session' = session + 1
  /\ Initialize
  /\ Transmit
  /\ UNCHANGED <<downlink, farm, submitted, accepted, acked, losses>>

LinkSubmit ==
  /\ submitted < MaxCmds
  /\ submitted' = submitted + 1
  /\ Submit(submitted')
  /\ Transmit
  /\ UNCHANGED <<downlink, farm, session, accepted, acked, losses>>

\* A command that leaves the window, other than by an abort, was acknowledged.
WindowCmds(e) == {e.window[i].spp : i \in 1..Len(e.window)}

LinkTick ==
  /\ Tick
  /\ UNCHANGED session
  /\ Transmit
  /\ acked' = acked \cup (IF fop'.state = "Initial" THEN {}
                          ELSE WindowCmds(fop) \ WindowCmds(fop'))
  /\ UNCHANGED <<downlink, farm, submitted, accepted, losses>>

LinkEmergency ==
  /\ EmergencyBd(MaxCmds)
  /\ UNCHANGED session
  /\ Transmit
  /\ UNCHANGED <<downlink, farm, submitted, accepted, acked, losses>>

\* FARM-1 takes the next frame of the uplink.
FarmReceive ==
  /\ uplink # <<>>
  /\ uplink' = Tail(uplink)
  /\ LET f == Head(uplink).frame
     IN  \/ /\ f.type = "BC"
            /\ farm' = [vr |-> 0, retransmit |-> FALSE,
                        session |-> Head(uplink).session]
            /\ UNCHANGED accepted
         \/ /\ f.type = "AD" /\ f.seq = farm.vr
            /\ farm' = [farm EXCEPT !.vr = Succ(@), !.retransmit = FALSE]
            /\ accepted' = Append(accepted, f.spp)
         \/ /\ f.type = "AD" /\ f.seq # farm.vr
            /\ farm' = [farm EXCEPT !.retransmit =
                          @ \/ ~SeqBefore(f.seq, farm.vr)]
            /\ UNCHANGED accepted
         \/ /\ f.type = "BD"
            /\ UNCHANGED <<farm, accepted>>
  /\ UNCHANGED <<fop, watch, out, downlink, session, submitted, acked, losses>>

\* The spacecraft puts its CLCW in the OCF of the next downlink frame.
FarmReport ==
  /\ watch.open /\ Len(downlink) < MaxFlight
  /\ downlink' = Append(downlink, [lockout |-> FALSE, nr |-> farm.vr,
                                   retransmit |-> farm.retransmit])
  /\ UNCHANGED <<fop, watch, out, uplink, farm, session, submitted, accepted,
                 acked, losses>>

\* AosFramer receives the frame and publishes the CLCW.
ClcwArrives ==
  /\ downlink # <<>>
  /\ Publish(Head(downlink))
  /\ downlink' = Tail(downlink)
  /\ UNCHANGED <<uplink, farm, session, submitted, accepted, acked, losses>>

\* A TC frame is lost: without a trace, or with an FECF mismatch that makes
\* FARM-1 ask for a retransmission (ICD-orbiter-ground.md section 7.2).
LoseFrame ==
  /\ losses < MaxLoss /\ uplink # <<>>
  /\ losses' = losses + 1
  /\ uplink' = Tail(uplink)
  /\ \E r \in {farm.retransmit, TRUE} : farm' = [farm EXCEPT !.retransmit = r]
  /\ UNCHANGED <<fop, watch, out, downlink, session, submitted, accepted,
                 acked>>

\* A downlink frame, and the CLCW in it, is lost.
LoseClcw ==
  /\ losses < MaxLoss /\ downlink # <<>>
  /\ losses' = losses + 1
  /\ downlink' = Tail(downlink)
  /\ UNCHANGED <<fop, watch, out, uplink, farm, session, submitted, accepted,
                 acked>>

\* The framer task ends, and with it what the ground hears.
DownlinkEnds ==
  /\ MayClose /\ CloseWatch
  /\ downlink' = <<>>
  /\ UNCHANGED <<uplink, farm, session, submitted, accepted, acked, losses>>

LinkElapse ==
  /\ Elapse
  /\ UNCHANGED <<uplink, downlink, farm, session, submitted, accepted, acked, losses>>

LinkNext ==
  \/ LinkInitialize \/ LinkSubmit \/ LinkTick \/ LinkEmergency
  \/ FarmReceive \/ FarmReport \/ ClcwArrives \/ LoseFrame \/ LoseClcw
  \/ DownlinkEnds \/ LinkElapse

LinkSpec == LinkInit /\ [][LinkNext]_linkVars

\* The ground polls, the link carries what is not lost, the spacecraft keeps
\* reporting, the clock runs.  Operators and losses are under no obligation.
\* LinkTick is strongly fair because MaxFlight, a bound of the model, can
\* disable it for a while: the real tick is never held up by the link.
LinkFairSpec ==
  /\ LinkSpec
  /\ SF_linkVars(LinkTick) /\ WF_linkVars(LinkElapse)
  /\ WF_linkVars(FarmReceive) /\ WF_linkVars(FarmReport)
  /\ WF_linkVars(ClcwArrives)
-----------------------------------------------------------------------------
\* In the first session with a freshly started spacecraft, a command the
\* ground removes from its window as acknowledged is one the spacecraft
\* accepted, whatever was lost, repeated or late.
AckedWasAccepted ==
  session <= 1 => \A c \in acked : \E i \in 1..Len(accepted) : accepted[i] = c

\* That session implements TcDelivery: the commands are executed in the order
\* they were submitted, each once, none skipped, also after the 8-bit number
\* has wrapped, and confirmed only then.
Delivery == INSTANCE TcDelivery
              WITH sent <- submitted, executed <- accepted, confirmed <- acked
ImplementsDelivery == Delivery!Spec

\* If only finitely many frames are lost, no command waits for ever: it is
\* acknowledged, or T1 runs out often enough for the engine to give the session
\* up, also when the downlink ends and no CLCW comes any more.  The exception
\* is a downlink that ends in RetransmitWithoutWait, where the engine looks at
\* neither T1 nor the age of the last CLCW (cop1.rs:279-317).
CommandsSettle ==
  fop.window # <<>> ~> \/ fop.window = <<>>
                       \/ ~watch.open /\ fop.state = "RetransmitWithoutWait"
=============================================================================
