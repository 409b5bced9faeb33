-------------------------------- MODULE Cop1 --------------------------------
(***************************************************************************)
(* Cop1Engine, the FOP-1 state machine of the telecommand uplink           *)
(* (rust/ground_station/src/uplink/cop1.rs).                               *)
(*                                                                         *)
(* One action per public method: Initialize, Submit, Tick, EmergencyBd.    *)
(* The environment publishes CLCWs on the latest-wins watch channel        *)
(* (Publish), drops the sender (CloseWatch) and lets time pass (Elapse).   *)
(* Nothing is assumed here of the CLCWs: every flag and N(R) may arrive in *)
(* any state.  Cop1Link closes the loop with a spacecraft.                 *)
(*                                                                         *)
(* Instants are kept relative to now: t1 is the time left to t1_deadline   *)
(* and age the time since last_clcw_at.  tick only compares them with      *)
(* thresholds, so both saturate there (Elapse).  The rate limit of the     *)
(* COP1-CLCW-STALE log line is logging and is left out.                    *)
(***************************************************************************)
EXTENDS Integers, Sequences

CONSTANTS WindowSize,      \* COP1_WINDOW_SIZE (15)
          MaxRetransmit,   \* COP1_MAX_RETRANSMIT (3)
          SeqMod,          \* size of the frame sequence space (256, a u8)
          T1,              \* t1_duration, in clock units
          StaleAbortMult,  \* COP1_STALE_ABORT_MULT (10)
          Spp,             \* the space packets an operator may submit
          None             \* Option::None

ASSUME WindowAssumption == /\ SeqMod \in Nat /\ SeqMod >= 2
                           /\ WindowSize \in 1..(SeqMod \div 2)
ASSUME RetryAssumption  == MaxRetransmit \in Nat /\ MaxRetransmit >= 2
ASSUME TimerAssumption  == T1 \in Nat \ {0} /\ StaleAbortMult \in Nat \ {0}
ASSUME NoneAssumption   == None \notin Nat

VARIABLES fop,       \* the fields of Cop1Engine
          watch,     \* the watch channel: value, "changed" mark, sender alive
          out        \* the frames the last call returned

vars == <<fop, watch, out>>
-----------------------------------------------------------------------------
Seqs == 0..(SeqMod - 1)

FopStates == {"Initial", "Initializing", "Active",
              "RetransmitWithoutWait", "RetransmitWithWait"}

Retransmitting == {"RetransmitWithoutWait", "RetransmitWithWait"}

Clcw == [lockout : BOOLEAN, retransmit : BOOLEAN, nr : Seqs]

AdFrame == [type : {"AD"}, seq : Seqs, spp : Spp]
BcFrame == [type |-> "BC", seq |-> 0, spp |-> None]     \* Set V(R) = 0
BdFrame(s) == [type |-> "BD", seq |-> 0, spp |-> s]     \* bypass, VC 7

StaleAbort == StaleAbortMult * T1

Engine == [state : FopStates, vs : Seqs, window : Seq(AdFrame),
           count : 0..(MaxRetransmit - 1),
           t1 : {None} \cup 0..T1,
           age : {None} \cup 0..StaleAbort]

\* u8 wrapping_add(1) and wrapping_sub, without the non-linear modulus.
Succ(s) == IF s = SeqMod - 1 THEN 0 ELSE s + 1
Dist(s, t) == IF t >= s THEN t - s ELSE t - s + SeqMod

SeqBeforeOrEqual(s, nr) == Dist(s, nr) <= SeqMod \div 2   \* mutant
\* seq_before: s precedes nr in the circular sequence space.
SeqBefore(s, nr) == Dist(s, nr) # 0 /\ Dist(s, nr) <= SeqMod \div 2

\* The number of frames at the front of window w that N(R) = nr acknowledges.
Acknowledged(w, nr) ==
  CHOOSE k \in 0..Len(w) :
    /\ \A i \in 1..k : SeqBefore(w[i].seq, nr)
    /\ k = Len(w) \/ ~SeqBefore(w[k + 1].seq, nr)
-----------------------------------------------------------------------------
(* The steps of tick.  Each takes and gives an engine e; a step that       *)
(* returns from tick gives the frames to send as well (Return).            *)

Continue(e)    == [eng |-> e, frames |-> <<>>, return |-> FALSE]
Return(e, fs)  == [eng |-> e, frames |-> fs, return |-> TRUE]

\* oldest_frame_as_retransmit
Oldest(e) == IF e.window = <<>> THEN <<>> ELSE <<Head(e.window)>>

\* Mutants of Aborted: the timer, or the window, survives the session.
AbortedTimerRuns(e) == [e EXCEPT !.state = "Initial", !.window = <<>>,
                                 !.count = 0]
AbortedKeepsWindow(e) == [e EXCEPT !.state = "Initial", !.count = 0, !.t1 = None]

\* abort_to_initial: V(S) and last_clcw_at are kept.
Aborted(e) == [e EXCEPT !.state = "Initial", !.window = <<>>,
                        !.count = 0, !.t1 = None]

\* Mutant of Retry: the limit is tested before the count is raised.
RetryLate(e, s, t) ==
  IF e.count >= MaxRetransmit
  THEN Return(Aborted(e), <<>>)
  ELSE Return([e EXCEPT !.state = s, !.count = @ + 1, !.t1 = t], Oldest(e))

\* Mutant of Retry: gives up one retransmission too soon.
RetryEarly(e, s, t) ==
  IF e.count + 2 >= MaxRetransmit
  THEN Return(Aborted(e), <<>>)
  ELSE Return([e EXCEPT !.state = s, !.count = @ + 1, !.t1 = t], Oldest(e))

\* Count one more retransmission and send the oldest frame, or give up.
Retry(e, s, t) ==
  IF e.count + 1 >= MaxRetransmit
  THEN Return(Aborted(e), <<>>)
  ELSE Return([e EXCEPT !.state = s, !.count = @ + 1, !.t1 = t], Oldest(e))

\* The acknowledgement loop: every frame popped clears the retry count, the
\* last one stops T1.
Slide(e, nr) ==
  LET k == Acknowledged(e.window, nr)
      w == SubSeq(e.window, k + 1, Len(e.window))
  IN  [e EXCEPT !.window = w,
                !.count  = IF k > 0 THEN 0 ELSE @,
                !.t1     = IF k > 0 /\ w = <<>> THEN None ELSE @]

\* tick step 1: a CLCW not seen before.
OnClcw(e, c) ==
  LET s == Slide([e EXCEPT !.age = 0], c.nr)
  IN  IF c.lockout \/ s.state = "Initial" THEN Continue(s)
      ELSE IF c.retransmit
      THEN IF s.state = "Initializing" THEN Continue(s)
           ELSE Retry(s, IF s.state = "Active" THEN "RetransmitWithoutWait"
                                               ELSE s.state, s.t1)
      ELSE Continue([s EXCEPT !.state = "Active",
                              !.count = IF s.state \in Retransmitting THEN 0
                                                                      ELSE @])

\* tick step 2: T1 has expired.
OnTimer(e) ==
  IF e.t1 = 0 /\ e.state \in {"Active", "RetransmitWithWait"}
  THEN Retry(e, "RetransmitWithWait", T1)
  ELSE Continue(e)

\* tick step 3: no CLCW for StaleAbortMult * T1.
OnStale(e) ==
  IF e.age = StaleAbort /\ e.state = "Active"
  THEN Continue([e EXCEPT !.state = "RetransmitWithWait"])
  ELSE Continue(e)

Then(r, Step(_)) == IF r.return THEN r ELSE Step(r.eng)

HasNew == watch.open /\ watch.changed /\ watch.value # None

TickResult ==
  LET r1 == IF HasNew THEN OnClcw(fop, watch.value) ELSE Continue(fop)
  IN  Then(Then(r1, OnTimer), OnStale)
-----------------------------------------------------------------------------
NewEngine == [state |-> "Initial", vs |-> 0, window |-> <<>>, count |-> 0,
              t1 |-> None, age |-> None]

Init ==
  /\ fop = NewEngine
  /\ watch = [value |-> None, changed |-> FALSE, open |-> TRUE]
  /\ out = <<>>

\* initialize(): allowed in every state, forgets the window.
Initialize ==
  /\ fop' = [fop EXCEPT !.state = "Initializing", !.vs = 0, !.window = <<>>,
                        !.count = 0, !.t1 = None]
  /\ out' = <<BcFrame>>
  /\ UNCHANGED watch

\* Mutant of Submit: V(S) is not advanced.
SubmitSameNumber(s) ==
  /\ fop.state = "Active"
  /\ Len(fop.window) < WindowSize
  /\ LET f == [type |-> "AD", seq |-> fop.vs, spp |-> s]
     IN  /\ fop' = [fop EXCEPT !.window = Append(@, f),
                               !.t1 = IF @ = None THEN T1 ELSE @]
         /\ out' = <<f>>
  /\ UNCHANGED watch

\* Mutant of Submit: T1 is not started.
SubmitUntimed(s) ==
  /\ fop.state = "Active"
  /\ Len(fop.window) < WindowSize
  /\ LET f == [type |-> "AD", seq |-> fop.vs, spp |-> s]
     IN  /\ fop' = [fop EXCEPT !.vs = Succ(@), !.window = Append(@, f)]
         /\ out' = <<f>>
  /\ UNCHANGED watch

\* submit(spp); the two refusals return an error and change nothing.
Submit(s) ==
  /\ fop.state = "Active"
  /\ Len(fop.window) < WindowSize
  /\ LET f == [type |-> "AD", seq |-> fop.vs, spp |-> s]
     IN  /\ fop' = [fop EXCEPT !.vs = Succ(@), !.window = Append(@, f),
                               !.t1 = IF @ = None THEN T1 ELSE @]
         /\ out' = <<f>>
  /\ UNCHANGED watch

\* tick(now): called at 10 Hz or more.
Tick ==
  /\ fop' = TickResult.eng
  /\ out' = TickResult.frames
  /\ watch' = [watch EXCEPT !.changed = FALSE]

\* emergency_bd(spp)
EmergencyBd(s) == out' = <<BdFrame(s)>> /\ UNCHANGED <<fop, watch>>

\* AosFramer publishes the OCF of a valid frame; an unread CLCW is replaced.
Publish(c) ==
  /\ watch.open
  /\ watch' = [watch EXCEPT !.value = c, !.changed = TRUE]
  /\ UNCHANGED <<fop, out>>

\* The framer task ends: has_changed() is an error from now on.
CloseWatch ==
  /\ watch.open
  /\ watch' = [watch EXCEPT !.open = FALSE]
  /\ UNCHANGED <<fop, out>>

\* One unit of time passes.
Elapse ==
  /\ fop' = [fop EXCEPT !.t1 = IF @ \in {None, 0} THEN @ ELSE @ - 1,
                        !.age = IF @ \in {None, StaleAbort}
                                THEN @ ELSE @ + 1]
  /\ UNCHANGED <<watch, out>>

Next ==
  \/ Initialize
  \/ \E s \in Spp : Submit(s)
  \/ Tick
  \/ \E s \in Spp : EmergencyBd(s)
  \/ \E c \in Clcw : Publish(c)
  \/ CloseWatch
  \/ Elapse

Spec == Init /\ [][Next]_vars
-----------------------------------------------------------------------------
TypeOK ==
  /\ fop \in Engine
  /\ watch \in [value : {None} \cup Clcw, changed : BOOLEAN, open : BOOLEAN]
  /\ out \in Seq(AdFrame \cup {BcFrame} \cup {BdFrame(s) : s \in Spp})

\* The window holds at most WindowSize frames, numbered consecutively modulo
\* 256, the newest just below V(S): what submit pushes, the acknowledgement
\* loop and the resets never leave a hole or a duplicate number.
Numbered(e) ==
  /\ Len(e.window) <= WindowSize
  /\ \A i \in 1..Len(e.window) :
       Dist(e.window[i].seq, e.vs) = Len(e.window) - i + 1

WindowConsecutive == Numbered(fop)

\* T1 runs exactly while a frame is unacknowledged.  It is started in submit
\* and on expiry, stopped by the acknowledgement loop, abort and initialize.
Timed(e) == e.t1 # None <=> e.window # <<>>

TimerTracksWindow == Timed(fop)

\* Outside the two retransmit states no retry is on record, and outside a
\* session there is no unacknowledged frame.
Clean(e) ==
  /\ e.state \notin Retransmitting => e.count = 0
  /\ e.state \in {"Initial", "Initializing"} => e.window = <<>>

SessionClean == Clean(fop)

\* A frame leaves the window only because a CLCW acknowledged it, because the
\* retries were used up without progress, or because initialize() restarted
\* the session; what stays keeps its order.
LeftForAReason ==
  LET w == fop.window  v == fop'.window
  IN  \/ fop'.state = "Initializing"
      \/ v # <<>> /\ SubSeq(v, 1, Len(v) - 1) = w
      \/ \E k \in 0..Len(w) :
           /\ v = SubSeq(w, k + 1, Len(w))
           /\ \/ \A i \in 1..k : HasNew /\ SeqBefore(w[i].seq, watch.value.nr)
              \/ fop'.state = "Initial" /\ fop.count = MaxRetransmit - 1

LeavesForAReason == [][LeftForAReason]_vars

=============================================================================
