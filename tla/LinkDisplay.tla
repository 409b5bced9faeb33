----------------------------- MODULE LinkDisplay -----------------------------
(***************************************************************************)
(* The link state on its way from the monitor to the operator: every call  *)
(* of update_link_state publishes on a watch channel, a task of main.rs    *)
(* awaits a change, reads the channel and then waits for the write lock of *)
(* UiState::link, which snapshots hold while they are built.               *)
(***************************************************************************)
EXTENDS AosFramer

VARIABLES fresh,    \* a value was sent since changed() last returned
          task,     \* where the subscriber is: waiting, woken, or with the
                    \* value it is going to write
          shown,    \* UiState::link.state
          reading,  \* a snapshot holds the read lock of UiState::link
          ticked    \* whether somebody calls tick, as its documentation asks;
                    \* nobody does in main.rs

displayVars == <<fresh, task, shown, reading, ticked>>
-----------------------------------------------------------------------------
LinkStates == {"Aos", "Los", "Degraded"}

\* The default of LinkStateDto and of the channel
DisplayInit ==
  /\ Init /\ ticked \in BOOLEAN
  /\ fresh = FALSE /\ task = "waiting" /\ shown = "Los" /\ reading = FALSE

\* The monitor publishes with every frame and every tick, changed or not.
Published == fresh' = TRUE /\ UNCHANGED <<task, shown, reading, ticked>>

OnFrame == FrameStep /\ Published
OnTick == ticked /\ Tick /\ Published
Time == Elapse /\ UNCHANGED displayVars

\* changed() returns, and marks what there is as seen
Changed ==
  /\ task = "waiting" /\ fresh
  /\ task' = "woken" /\ fresh' = FALSE
  /\ UNCHANGED <<lvars, shown, reading, ticked>>

\* borrow() reads what there is by now
Borrow ==
  /\ task = "woken"
  /\ task' = link
  /\ UNCHANGED <<lvars, fresh, shown, reading, ticked>>

\* Mutant of Write: the channel is marked as seen once the value is written.
WriteMarks ==
  /\ task \in LinkStates /\ ~reading
  /\ shown' = task /\ task' = "waiting" /\ fresh' = FALSE
  /\ UNCHANGED <<lvars, reading, ticked>>

\* The write lock comes when the snapshot in progress is done.
Write ==
  /\ task \in LinkStates /\ ~reading
  /\ shown' = task /\ task' = "waiting"
  /\ UNCHANGED <<lvars, fresh, reading, ticked>>

\* The locks are fair: a reader that comes after the writer waits.
ReadLink ==
  /\ ~reading /\ task \notin LinkStates /\ reading' = TRUE
  /\ UNCHANGED <<lvars, fresh, task, shown, ticked>>

ReadDone ==
  /\ reading /\ reading' = FALSE
  /\ UNCHANGED <<lvars, fresh, task, shown, ticked>>

DisplayNext ==
  OnFrame \/ OnTick \/ Time \/ Changed \/ Borrow \/ Write \/ ReadLink \/ ReadDone

\* The subscriber and a snapshot in progress are polled when they can go on; no
\* frame and no snapshot is owed.
DisplayFairness ==
  LET vars == <<lvars, displayVars>>
  IN  /\ WF_vars(OnTick) /\ WF_vars(Time)
      /\ WF_vars(Changed) /\ WF_vars(Borrow) /\ WF_vars(Write) /\ WF_vars(ReadDone)
-----------------------------------------------------------------------------
\* What the monitor settles on is what the operator sees in the end, whatever
\* snapshots are read and however often the value changed before: no
\* publication is missed between the channel and the lock (main.rs:188-201).
LinkCatchesUp ==
  \A x \in LinkStates : <>[](link = x) => <>[](shown = x)

\* From the last frame to the display: if tick is called, then once no valid
\* frame comes any more the operator is not shown Aos for good
\* (framer.rs:242-248, main.rs:188-201).
SilenceIsShown ==
  ticked /\ <>[](\A i \in DOMAIN window : ~(window[i].valid /\ window[i].age < LosWindow))
    => <>[](shown # "Aos")
=============================================================================
