------------------------------- MODULE TcQueue -------------------------------
(***************************************************************************)
(* POST /api/tc and what becomes of a command it accepts: the validity     *)
(* window (ui/time.rs), the bounded queue (ui/mod.rs, main.rs) and the     *)
(* dispatcher that takes from it (uplink/dispatcher.rs).                   *)
(*                                                                         *)
(* The operator's tooling converts a UTC deadline to TAI before it submits *)
(* (ui/mod.rs:185).  Instants are whole seconds, scaled: the TAI epoch,    *)
(* the light time and the largest coarse time are constants.               *)
(***************************************************************************)
EXTENDS Integers, Sequences, FiniteSets, Functions

CONSTANTS TaiEpochUnix,   \* TAI_EPOCH_UNIX_S, before the Unix epoch
          LeapSeconds,    \* TAI - UTC
          MaxCoarse,      \* u32::MAX
          LightTime,      \* UiState::light_time_s, which nothing changes
          QueueCap,       \* 64
          Deadlines,      \* the UTC deadlines an operator may give
          Targets,        \* what a request may name: an APID, or NoTarget
          Start,          \* UTC when the station starts
          MaxRequests, MaxClock,   \* bounds: requests, UTC
          NoTarget

ASSUME TimeAssumption ==
  /\ TaiEpochUnix \in Int /\ LeapSeconds \in Int /\ MaxCoarse \in Nat
  /\ LightTime \in Nat \ {0}     \* 600 s in UiState::new
  /\ QueueCap \in Nat /\ Deadlines \subseteq Int /\ Start \in Int

VARIABLES nowTai,      \* UiState::now_tai: no task of main.rs writes it
          queue,       \* between UiState::tc_tx and tc_rx
          dispatched,  \* what the dispatcher has taken
          clock,       \* UTC outside the program
          requests,    \* history: how many came
          told         \* history: what the operator was told is accepted

qvars == <<nowTai, queue, dispatched, clock, requests, told>>
-----------------------------------------------------------------------------
\* TaiUtcConverter
TaiToUtc(coarse) == TaiEpochUnix + coarse - LeapSeconds

\* Mutant of UtcToTai: an instant beyond the field is clamped to its end, as the
\* comment in the code says.
UtcToTaiClamped(utc) ==
  LET t == utc - TaiEpochUnix + LeapSeconds
  IN  IF t < 0 THEN 0 ELSE IF t > MaxCoarse THEN MaxCoarse ELSE t

\* What does not fit into 32 bits becomes zero, whichever side it is on.
UtcToTai(utc) ==
  LET t == utc - TaiEpochUnix + LeapSeconds
  IN  IF t \in 0..MaxCoarse THEN t ELSE 0

\* check_validity_window
WindowExpired(until) == nowTai + LightTime > until

\* unwrap_or(0)
OrStub(target) == IF target = NoTarget THEN 0 ELSE target

\* Mutant of Enqueue: a full queue loses its oldest command.
EnqueueNewest(entry) ==
  queue' = IF Len(queue) < QueueCap THEN Append(queue, entry)
           ELSE Append(Tail(queue), entry)

\* tc_tx.try_send, its result dropped
Enqueue(entry) ==
  queue' = IF Len(queue) < QueueCap THEN Append(queue, entry) ELSE queue
-----------------------------------------------------------------------------
QueueInit ==
  /\ nowTai = 0 /\ queue = <<>> /\ dispatched = <<>>
  /\ clock = Start /\ requests = 0 /\ told = <<>>

\* post_tc: 422 for a window that has passed, accepted otherwise
PostTc ==
  /\ requests < MaxRequests
  /\ requests' = requests + 1
  /\ \E utc \in Deadlines, target \in Targets :
       LET until == UtcToTai(utc)
           entry == [n |-> requests', target |-> OrStub(target), until |-> until]
       IN  \/ WindowExpired(until) /\ UNCHANGED <<queue, told>>
           \/ /\ ~WindowExpired(until)
              /\ Enqueue(entry)
              /\ told' = Append(told, [n |-> requests', utc |-> utc, at |-> clock,
                                       target |-> target])
  /\ UNCHANGED <<nowTai, dispatched, clock>>

\* run_dispatcher takes the oldest entry, and logs it.
Dispatch ==
  /\ queue # <<>>
  /\ dispatched' = Append(dispatched, Head(queue))
  /\ queue' = Tail(queue)
  /\ UNCHANGED <<nowTai, clock, requests, told>>

Second ==
  /\ clock < MaxClock
  /\ clock' = clock + 1
  /\ UNCHANGED <<nowTai, queue, dispatched, requests, told>>

QueueNext == PostTc \/ Dispatch \/ Second
QueueSpec == QueueInit /\ [][QueueNext]_qvars
-----------------------------------------------------------------------------
Asked(e) == CHOOSE t \in Range(told) : t.n = e.n

\* What the dispatcher gets is what operators were told is accepted, in that
\* order, each with its target and with a deadline that reads as the one they
\* gave; a deadline beyond the time format is never accepted.  Of what they were
\* told, only that is missing which found the queue full
\* (ui/mod.rs:461-483, time.rs:56-104).
QueuedAsAsked ==
  LET taken == dispatched \o queue
      kept == {taken[i].n : i \in DOMAIN taken}
  IN  /\ \A i, j \in DOMAIN taken : i < j => taken[i].n < taken[j].n
      /\ kept \subseteq {t.n : t \in Range(told)}
      /\ \A e \in Range(taken) :
           TaiToUtc(e.until) = Asked(e).utc /\ e.target = OrStub(Asked(e).target)
      /\ \A t \in Range(told) :
           t.n \notin kept => Cardinality({n \in kept : n < t.n}) >= QueueCap

\* ui/mod.rs:459: a command is accepted only if it can arrive before its
\* deadline, one light time from now.
AcceptedInTime == \A t \in Range(told) : t.at + LightTime <= t.utc
=============================================================================
