-------------------------------- MODULE MFile --------------------------------
(***************************************************************************)
(* MFileAssembler, the out-of-order chunk reassembler of the ground        *)
(* station (rust/ground_station/src/mfile/mod.rs).                         *)
(*                                                                         *)
(* One action per public method: OnChunk and Poll; Elapse is the clock     *)
(* poll is given.  Frames is the set of chunk frames that can come out of  *)
(* the link: any of them may come at any time, any number of times, in any *)
(* order, or never, which is all that loss, duplication and reordering can *)
(* do.  In MFileLink some transactions have a correct sender.              *)
(*                                                                         *)
(* A payload is a sequence of symbols, so that its length is its bytes.    *)
(* A CRC-32 is modelled as the data it was computed over (no collisions):  *)
(* a frame carries the file its CRC stands for, and a flag that says       *)
(* whether its own payload is intact.                                      *)
(***************************************************************************)
EXTENDS Integers, Sequences, FiniteSets, Folds, Functions

CONSTANTS Frames,        \* the chunk frames the link may deliver
          TxIds,         \* transaction ids (u32)
          WordBits,      \* bits of a BitSet word (64)
          MaxRam,        \* max_ram_bytes
          Timeout,       \* MFILE_TIMEOUT_OWLT_MULT * owlt_secs
          MaxDups,       \* bound: each duplicate counter
          MaxNow,        \* bound: the clock
          MaxCut,        \* bound: the bytes a failing write leaves behind
          None           \* no such file

Payload == Seq(STRING)

ASSUME FrameAssumption ==
  /\ TxIds \subseteq Nat
  /\ \A f \in Frames :
       /\ DOMAIN f = {"tx", "total", "file", "vast", "index", "data", "intact"}
       /\ f.tx \in TxIds /\ f.total \in Nat /\ f.index \in Nat
       /\ f.data \in Payload /\ f.file \in Payload /\ f.intact \in BOOLEAN
       /\ f.vast \in BOOLEAN    \* total_size_bytes cannot be allocated
ASSUME BoundAssumption ==
  /\ WordBits \in Nat \ {0} /\ MaxRam \in Nat /\ Timeout \in Nat
  /\ MaxDups \in Nat /\ MaxNow \in Nat /\ MaxCut \in Nat
ASSUME NoFileAssumption == None \notin Payload

VARIABLES asm,        \* the fields of MFileAssembler: active, ram, dups
          disk,       \* the .bin and .partial file of each transaction
          report,     \* the outcomes the last call returned
          panicked,   \* an index out of bounds or an allocation ended the caller
          now         \* TAI coarse seconds

mvars == <<asm, disk, report, panicked, now>>
-----------------------------------------------------------------------------
\* BitSet::new: the bits of the words that total bits need.
Slots(total) == WordBits * ((total + WordBits - 1) \div WordBits)

\* TxState.  The bit set `received` and the key set of `chunks` always change
\* together, so DOMAIN chunks stands for both and its size for set_count.
OpenTx(f) == [chunks |-> <<>>, total |-> f.total, file |-> f.file,
              vast |-> f.vast, timeout |-> Timeout, bytes |-> 0]

Received(t) == DOMAIN t.chunks

\* Mutant of Data: the highest index first.
DataBackwards(t) == MapThenFoldSet(\o, <<>>, LAMBDA i : t.chunks[i],
                                   LAMBDA S : CHOOSE i \in S : \A j \in S : i >= j,
                                   Received(t))

\* The received chunks, concatenated in the order of their indices.
Data(t) == MapThenFoldSet(\o, <<>>, LAMBDA i : t.chunks[i],
                          LAMBDA S : CHOOSE i \in S : \A j \in S : i <= j,
                          Received(t))

\* The chunks still missing; is_full is Gaps = 0.
Gaps(t) == t.total - Cardinality(Received(t))

Complete(id)      == [kind |-> "Complete", tx |-> id, gaps |-> 0]
Abandoned(id, n)  == [kind |-> "Abandoned", tx |-> id, gaps |-> n]

\* fs::write, which creates or truncates the file and then writes it: all of
\* it, an error that left the old file, or an error after the first n bytes.
Writes == {<<"written", 0>>, <<"untouched", 0>>} \cup ({"cut"} \X (0..MaxCut))
Done(w) == w[1] = "written"
Stored(old, data, w) ==
  CASE w[1] = "written"   -> data
    [] w[1] = "untouched" -> old
    [] w[1] = "cut"       -> SubSeq(data, 1, IF w[2] < Len(data) THEN w[2] ELSE 0)

Without(f, id) == Restrict(f, DOMAIN f \ {id})
With(f, x, y) == [z \in DOMAIN f \cup {x} |-> IF z = x THEN y ELSE f[z]]

\* Mutant of Remove: the RAM of the transaction is not given back.
RemoveLeaksRam(a, id) == [a EXCEPT !.active = Without(@, id)]

\* active.remove(id), total_ram_bytes.saturating_sub(in_flight_bytes)
Remove(a, id) ==
  LET b == a.active[id].bytes
  IN  [a EXCEPT !.active = Without(@, id),
                !.ram = IF b <= @ THEN @ - b ELSE 0]

Oldest(active) ==
  CHOOSE id \in DOMAIN active : \A j \in DOMAIN active :
    \/ active[id].timeout < active[j].timeout
    \/ active[id].timeout = active[j].timeout /\ id <= j

\* enforce_ram_cap, called when a transaction has just been opened: at most one
\* eviction, whose outcome is dropped.
EnforceRamCap(a, d, w) ==
  IF a.ram <= MaxRam THEN [asm |-> a, disk |-> d]
  ELSE LET id == Oldest(a.active)
       IN  [asm  |-> Remove(a, id),
            disk |-> [d EXCEPT !.partial[id] =
                                 Stored(@, Data(a.active[id]), w)]]

\* on_chunk step 3: find the transaction, or open it and enforce the cap.
Upsert(f, w) ==
  IF f.tx \in DOMAIN asm.active THEN [asm |-> asm, disk |-> disk]
  ELSE EnforceRamCap([asm EXCEPT !.active = With(@, f.tx, OpenTx(f))], disk, w)

\* on_chunk step 5.
AddChunk(a, f) ==
  [a EXCEPT !.active[f.tx].chunks = With(@, f.index, f.data),
            !.active[f.tx].bytes = @ + Len(f.data),
            !.ram = @ + Len(f.data)]

\* Mutant of Finalize: the outcome is reported whether or not it was written.
FinalizeUnwritten(a, d, id, w) ==
  LET t == a.active[id]
      f == IF Data(t) = t.file THEN "bin" ELSE "partial"
  IN  /\ asm' = Remove(a, id)
      /\ disk' = [d EXCEPT ![f][id] = Stored(@, Data(t), w)]
      /\ report' = {IF f = "bin" THEN Complete(id) ELSE Abandoned(id, 0)}
      /\ UNCHANGED panicked

\* finalize: the transaction is removed, then memory for total_size_bytes is
\* asked for, which the header may make more than there is, then the file is
\* written.
Finalize(a, d, id, w) ==
  LET t == a.active[id]
  IN  /\ asm' = Remove(a, id)
      /\ \/ /\ t.vast
            /\ disk' = d /\ report' = {} /\ panicked' = TRUE
         \/ /\ ~t.vast /\ Data(t) = t.file
            /\ disk' = [d EXCEPT !.bin[id] = Stored(@, Data(t), w)]
            /\ report' = IF Done(w) THEN {Complete(id)} ELSE {}
            /\ UNCHANGED panicked
         \/ /\ ~t.vast /\ Data(t) # t.file
            /\ disk' = [d EXCEPT !.partial[id] = Stored(@, Data(t), w)]
            /\ report' = IF Done(w) THEN {Abandoned(id, 0)} ELSE {}
            /\ UNCHANGED panicked
-----------------------------------------------------------------------------
Init ==
  /\ asm = [active |-> <<>>, ram |-> 0, dups |-> [ok |-> 0, mismatch |-> 0]]
  /\ disk = [bin |-> [id \in TxIds |-> None], partial |-> [id \in TxIds |-> None]]
  /\ report = {} /\ panicked = FALSE /\ now = 0

\* A frame that is too short, too long, or fails its own CRC changes nothing.
RefuseChunk(f) ==
  /\ ~f.intact
  /\ report' = {}
  /\ UNCHANGED <<asm, disk, panicked>>

\* Steps 3 and 4: the transaction has just been evicted to make room.
EvictedAtOnce(f, u) ==
  /\ f.tx \notin DOMAIN u.asm.active
  /\ asm' = u.asm /\ disk' = u.disk /\ report' = {}
  /\ UNCHANGED panicked

\* Step 4: is_set indexes past the words of the bit set.
OutOfBounds(f, u) ==
  /\ f.tx \in DOMAIN u.asm.active
  /\ f.index >= Slots(u.asm.active[f.tx].total)
  /\ asm' = u.asm /\ disk' = u.disk /\ report' = {}
  /\ panicked' = TRUE

\* Mutant of Duplicate: the last arrival is kept.
DuplicateReplaces(f, u) ==
  /\ f.tx \in DOMAIN u.asm.active
  /\ f.index \in Received(u.asm.active[f.tx])
  /\ asm' = [u.asm EXCEPT !.active[f.tx].chunks[f.index] = f.data]
  /\ disk' = u.disk /\ report' = {}
  /\ UNCHANGED panicked

\* Step 4: the chunk is there already; the first arrival is kept.
Duplicate(f, u) ==
  /\ f.tx \in DOMAIN u.asm.active
  /\ f.index \in Received(u.asm.active[f.tx])
  /\ asm' = IF u.asm.active[f.tx].chunks[f.index] = f.data
            THEN [u.asm EXCEPT !.dups.ok = @ + 1]
            ELSE [u.asm EXCEPT !.dups.mismatch = @ + 1]
  /\ asm'.dups.ok <= MaxDups /\ asm'.dups.mismatch <= MaxDups
  /\ disk' = u.disk /\ report' = {}
  /\ UNCHANGED panicked

\* Mutant of NewChunk: completeness is tested before the chunk is counted.
NewChunkLate(f, u, w) ==
  /\ f.tx \in DOMAIN u.asm.active
  /\ f.index < Slots(u.asm.active[f.tx].total)
  /\ f.index \notin Received(u.asm.active[f.tx])
  /\ IF Gaps(u.asm.active[f.tx]) = 0
     THEN Finalize(AddChunk(u.asm, f), u.disk, f.tx, w)
     ELSE /\ asm' = AddChunk(u.asm, f) /\ disk' = u.disk /\ report' = {}
          /\ UNCHANGED panicked

\* Steps 5 and 6: store the chunk, finish the file when the bit set is full.
NewChunk(f, u, w) ==
  /\ f.tx \in DOMAIN u.asm.active
  /\ f.index < Slots(u.asm.active[f.tx].total)
  /\ f.index \notin Received(u.asm.active[f.tx])
  /\ LET a == AddChunk(u.asm, f)
     IN  IF Gaps(a.active[f.tx]) = 0
         THEN Finalize(a, u.disk, f.tx, w)
         ELSE asm' = a /\ disk' = u.disk /\ report' = {} /\ UNCHANGED panicked

\* on_chunk(raw)
OnChunk(f) ==
  /\ ~panicked
  /\ \/ RefuseChunk(f)
     \/ /\ f.intact
        /\ \E w1, w2 \in Writes :
             LET u == Upsert(f, w1)
             IN  \/ EvictedAtOnce(f, u) \/ OutOfBounds(f, u)
                 \/ Duplicate(f, u) \/ NewChunk(f, u, w2)
  /\ UNCHANGED now

TimedOut == {id \in DOMAIN asm.active : now > asm.active[id].timeout}

\* Mutant of Poll: a transaction that cannot be written is not dropped.
PollKeepsUnwritten ==
  /\ ~panicked
  /\ \E w \in [TimedOut -> Writes] :
       LET done == {id \in TimedOut : Done(w[id])}
       IN  /\ asm' = [asm EXCEPT !.active = Restrict(@, DOMAIN @ \ done)]
           /\ disk' = [disk EXCEPT !.partial = [id \in TxIds |->
                 IF id \in TimedOut
                 THEN Stored(@[id], Data(asm.active[id]), w[id]) ELSE @[id]]]
           /\ report' = {Abandoned(id, Gaps(asm.active[id])) : id \in done}
  /\ UNCHANGED <<panicked, now>>

\* poll(now): every transaction past its deadline is removed, then written.
Poll ==
  /\ ~panicked
  /\ \E w \in [TimedOut -> Writes] :
       /\ asm' = [asm EXCEPT
                    !.active = Restrict(@, DOMAIN @ \ TimedOut),
                    !.ram = LET b == SumFunctionOnSet(
                                       [id \in DOMAIN asm.active |->
                                          asm.active[id].bytes], TimedOut)
                            IN  IF b <= @ THEN @ - b ELSE 0]
       /\ disk' = [disk EXCEPT !.partial = [id \in TxIds |->
                     IF id \in TimedOut
                     THEN Stored(@[id], Data(asm.active[id]), w[id]) ELSE @[id]]]
       /\ report' = {Abandoned(id, Gaps(asm.active[id])) :
                       id \in {i \in TimedOut : Done(w[i])}}
  /\ UNCHANGED <<panicked, now>>

\* One second passes; the clock stands at its bound.
Elapse ==
  /\ now' = IF now < MaxNow THEN now + 1 ELSE now
  /\ UNCHANGED <<asm, disk, report, panicked>>

Next == (\E f \in Frames : OnChunk(f)) \/ Poll \/ Elapse

Spec == Init /\ [][Next]_mvars

\* poll is called at 1 Hz or more and the clock does not stop.
FairSpec == Spec /\ WF_mvars(Poll) /\ WF_mvars(Elapse)
-----------------------------------------------------------------------------
Outcome == [kind : {"Complete", "Abandoned"}, tx : TxIds, gaps : Nat]

\* Types (the chunk maps are finite functions from indices to payloads).  That
\* `gaps` is a natural number says that total - set_count never underflows.
TypeOK ==
  /\ DOMAIN asm = {"active", "ram", "dups"}
  /\ DOMAIN asm.active \subseteq TxIds
  /\ \A id \in DOMAIN asm.active :
       LET t == asm.active[id]
       IN  /\ DOMAIN t = {"chunks", "total", "file", "vast", "timeout", "bytes"}
           /\ Received(t) \subseteq Nat
           /\ \A i \in Received(t) : t.chunks[i] \in Payload
           /\ t.total \in Nat /\ t.file \in Payload /\ t.vast \in BOOLEAN
           /\ t.timeout \in Nat /\ t.bytes \in Nat
  /\ asm.ram \in Nat
  /\ asm.dups \in [ok : 0..MaxDups, mismatch : 0..MaxDups]
  /\ disk \in [bin : [TxIds -> Payload \cup {None}],
               partial : [TxIds -> Payload \cup {None}]]
  /\ report \subseteq Outcome
  /\ panicked \in BOOLEAN /\ now \in 0..MaxNow

\* The RAM figure the cap is enforced on is exactly what the stored chunks
\* hold, whatever was duplicated, evicted, timed out, refused or lost to an
\* I/O error: saturating_sub never hides a drift.
BytesOf(t) == SumFunctionOnSet([i \in Received(t) |-> Len(t.chunks[i])],
                               Received(t))
RamExact ==
  /\ \A id \in DOMAIN asm.active : asm.active[id].bytes = BytesOf(asm.active[id])
  /\ asm.ram = SumFunctionOnSet([id \in DOMAIN asm.active |->
                                   asm.active[id].bytes], DOMAIN asm.active)

\* A transaction in the table is never already full: the chunk that fills the
\* bit set finishes the file in the same call (a later one could not).
NeverIdleFull ==
  ~panicked => \A id \in DOMAIN asm.active : Gaps(asm.active[id]) > 0

\* While a transaction is open a stored chunk is never replaced or dropped
\* (first arrival wins), and its header is that of the chunk that opened it.
FirstArrivalWins ==
  [][ \A id \in DOMAIN asm.active \cap DOMAIN asm'.active :
        /\ \A i \in Received(asm.active[id]) :
             /\ i \in Received(asm'.active[id])
             /\ asm'.active[id].chunks[i] = asm.active[id].chunks[i]
        /\ asm'.active[id].file = asm.active[id].file ]_mvars

\* Every transaction that is opened leaves the table: the chunks of a file
\* that never completes cannot hold RAM for ever.
Settles == \A id \in TxIds : id \in DOMAIN asm.active
                               ~> id \notin DOMAIN asm.active \/ panicked

\* mfile/mod.rs:37 "Transactions that expire at started_tai +
\* MFILE_TIMEOUT_OWLT_MULT x OWLT": poll abandons no transaction that was
\* opened less than Timeout ago.
NotBeforeTimeout ==
  [][ \A id \in DOMAIN asm'.active \ DOMAIN asm.active :
        asm'.active[id].timeout >= now + Timeout ]_mvars
=============================================================================
