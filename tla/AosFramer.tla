------------------------------ MODULE AosFramer ------------------------------
(***************************************************************************)
(* The link monitor of AosFramer, the first stage of the downlink          *)
(* (rust/ground_station/src/ingest/framer.rs): each frame, good or bad,    *)
(* enters a rolling window from which the link state is computed anew.     *)
(*                                                                         *)
(* Frame models process_frame as far as the link state goes (the frame and *)
(* its CLCW go on in IngestPipeline and Cop1), Tick the method tick,       *)
(* Elapse the clock.  Instants are kept as ages, which saturate one past   *)
(* the longest duration they are compared with.                            *)
(***************************************************************************)
EXTENDS Integers, Sequences

CONSTANTS DegradedWindow,    \* 30 s
          LosWindow,         \* 10 s
          AosRateWindow,     \* 2 s
          AosSustain,        \* 5 s
          ErrNum, ErrDen,    \* DEGRADED_ERROR_THRESHOLD, 1/10
          MaxEntries,        \* bound: frames in the window
          None

ASSUME DurationAssumption ==
  /\ DegradedWindow \in Nat /\ LosWindow \in 0..DegradedWindow
  /\ AosRateWindow \in 0..LosWindow /\ AosSustain \in 0..DegradedWindow
  /\ ErrNum \in Nat /\ ErrDen \in Nat \ {0} /\ MaxEntries \in Nat
  /\ None \notin Nat

VARIABLES window,   \* frame_window.entries, oldest first: age and valid
          since,    \* age of aos_condition_since
          link,     \* link_state, also what link_state_tx publishes
          bad       \* history: age of the last evaluation that found the link
                    \* degraded or starved

lvars == <<window, since, link, bad>>
-----------------------------------------------------------------------------
Ages == 0..(DegradedWindow + 1)
Older(a) == IF a > DegradedWindow THEN a ELSE a + 1

\* prune(DEGRADED_WINDOW): the front goes as long as it is too old.
TooOld(w) ==
  CHOOSE k \in 0..Len(w) : /\ \A i \in 1..k : w[i].age > DegradedWindow
                           /\ k = Len(w) \/ w[k + 1].age <= DegradedWindow
Pruned(w) == SubSeq(w, TooOld(w) + 1, Len(w))

Count(w, Test(_)) == Len(SelectSeq(w, Test))

\* error_rate_over(DEGRADED_WINDOW) > DEGRADED_ERROR_THRESHOLD
Degraded(w) ==
  Count(w, LAMBDA e : ~e.valid) * ErrDen > Len(w) * ErrNum

\* Mutant of Starved: an empty window is not starved.
StarvedWhenOld(w) ==
  /\ \E i \in 1..Len(w) : w[i].valid
  /\ \A i \in 1..Len(w) : w[i].valid => w[i].age >= LosWindow

\* last_valid_age is none, or at least LOS_WINDOW
Starved(w) == \A i \in 1..Len(w) : w[i].valid => w[i].age >= LosWindow

\* valid_count_in(AOS_RATE_WINDOW) >= 1
RateMet(w) == \E i \in 1..Len(w) : w[i].valid /\ w[i].age <= AosRateWindow

\* Mutant of Evaluate: a degraded link keeps its claim to Aos.
EvaluateKeepsClaim(w) ==
  IF Degraded(w) THEN [link |-> "Degraded", since |-> since]
  ELSE IF Starved(w) THEN [link |-> "Los", since |-> None]
  ELSE IF ~RateMet(w) THEN [link |-> link, since |-> None]
  ELSE LET s == IF since = None THEN 0 ELSE since
       IN  [link |-> IF s >= AosSustain THEN "Aos" ELSE link, since |-> s]

\* compute_link_state
Evaluate(w) ==
  IF Degraded(w) THEN [link |-> "Degraded", since |-> None]
  ELSE IF Starved(w) THEN [link |-> "Los", since |-> None]
  ELSE IF ~RateMet(w) THEN [link |-> link, since |-> None]
  ELSE LET s == IF since = None THEN 0 ELSE since
       IN  [link |-> IF s >= AosSustain THEN "Aos" ELSE link, since |-> s]

\* update_link_state, over the window with this call's frame in it.
Update(w) ==
  LET p == Pruned(w)
      r == Evaluate(p)
  IN  /\ window' = p
      /\ link' = r.link
      /\ since' = IF r.link # link /\ r.link # "Aos" THEN None ELSE r.since
      /\ bad' = IF Degraded(p) \/ Starved(p) THEN 0 ELSE bad
-----------------------------------------------------------------------------
Init ==
  /\ window = <<>> /\ since = None /\ link = "Los" /\ bad = 0

\* process_frame: a frame whose FECF is wrong (valid = FALSE) or right.
Frame(valid) ==
  /\ Update(Append(window, [age |-> 0, valid |-> valid]))
  /\ Len(window') <= MaxEntries

\* tick(): "Call periodically"; nothing in main.rs does.
Tick == Update(window)

\* One unit of time passes.
Elapse ==
  /\ window' = [i \in 1..Len(window) |-> [window[i] EXCEPT !.age = Older(@)]]
  /\ since' = IF since = None THEN None ELSE Older(since)
  /\ bad' = Older(bad)
  /\ UNCHANGED link

FrameStep == \E valid \in BOOLEAN : Frame(valid)

Next == FrameStep \/ Tick \/ Elapse

Spec == Init /\ [][Next]_lvars

\* As main.rs runs it: frames and time, but no tick.
MainSpec == Init /\ [][FrameStep \/ Elapse]_lvars /\ WF_lvars(Elapse)

-----------------------------------------------------------------------------
\* Entries are kept oldest first, so that pruning from the front removes all
\* that is too old: the window cannot grow without limit on a live link.
PrunedInOrder ==
  /\ \A i, j \in 1..Len(window) : i <= j => window[i].age >= window[j].age
  /\ bad = 0 => \A i \in 1..Len(window) : window[i].age <= DegradedWindow

\* The type invariant, with the order of the window (framer.rs:118-127).
TypeOK ==
  /\ window \in Seq([age : Ages, valid : BOOLEAN]) /\ Len(window) <= MaxEntries
  /\ since \in Ages \cup {None} /\ link \in {"Aos", "Los", "Degraded"}
  /\ bad \in Ages
  /\ PrunedInOrder

\* No flapping: a link found degraded or starved is not declared acquired
\* again before AOS_SUSTAIN has passed.
NoFlapping ==
  [][ link # "Aos" /\ link' = "Aos" => bad >= AosSustain ]_lvars

\* framer.rs:76 "0 valid frames for 10 s" leads to Los: once no valid frame
\* comes any more, the link stops being Aos for good.
SilenceIsLos ==
  <>[](\A i \in 1..Len(window) : ~(window[i].valid /\ window[i].age < LosWindow))
    => <>[](link # "Aos")
=============================================================================
