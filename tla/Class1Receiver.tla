--------------------------- MODULE Class1Receiver ---------------------------
(***************************************************************************)
(* Class1Receiver, the CFDP class 1 (unacknowledged) file receiver of the  *)
(* ground station (rust/ground_station/src/cfdp/class1.rs).                *)
(*                                                                         *)
(* One action per method of CfdpReceiver and CfdpProvider: OnPdu,          *)
(* FinalizeTransaction, Cancel, Poll, SendFile.  Pdus is the set of PDUs   *)
(* the link may deliver, each at any time and any number of times; a PDU   *)
(* whose header cannot be decoded changes nothing and is left out, one     *)
(* whose body cannot be parsed has ok = FALSE.                             *)
(*                                                                         *)
(* File contents are sequences of symbols; a CRC-32 is modelled as the     *)
(* content it was computed over (no collisions).                           *)
(***************************************************************************)
EXTENDS Integers, Sequences, FiniteSets, Functions

CONSTANTS Pdus,        \* the PDUs the link may deliver
          TxIds,       \* transaction ids
          Names,       \* file names a Metadata PDU may give
          MaxActive,   \* CFDP_MAX_TRANSACTIONS (16)
          Timeout,     \* CFDP_TIMEOUT_OWLT_MULT * owlt
          MaxBytes,    \* bound: bytes_written
          MaxNow,      \* bound: the clock
          MaxSends,    \* bound: calls of send_file
          None         \* Option::None, and no such file

Zero == "0"            \* what a hole in a file reads as
Contents == Seq(STRING \cup {Zero})

ASSUME BoundAssumption ==
  /\ MaxActive \in Nat \ {0} /\ Timeout \in Nat /\ MaxBytes \in Nat
  /\ MaxNow \in Nat /\ MaxSends \in Nat
ASSUME NoneAssumption == None \notin Contents

VARIABLES active,     \* the active transaction table
          partial,    \* the <id>.partial files
          files,      \* the delivered files, by final path
          nextTxId,   \* next_tx_id
          results,    \* what the last call returned, beyond Ok(())
          now,        \* TAI coarse seconds
          written     \* history: file positions written since it was opened

cvars == <<active, partial, files, nextTxId, results, now, written>>
-----------------------------------------------------------------------------
NewState == [meta |-> None, bytes |-> 0, crc |-> None, lastPduTai |-> 0]

BinName(id) == <<"bin", id>>                 \* <id>.bin
Paths == Names \cup {BinName(id) : id \in TxIds}

\* seek and write_all: a hole before the offset reads as zeros.
WriteAt(c, offset, d) ==
  IF d = <<>> THEN c
  ELSE [k \in 1..(IF Len(c) > offset + Len(d) THEN Len(c) ELSE offset + Len(d)) |->
          CASE k \in (offset + 1)..(offset + Len(d)) -> d[k - offset]
            [] k \notin (offset + 1)..(offset + Len(d)) /\ k <= Len(c) -> c[k]
            [] OTHER -> Zero]

FileOf(c) == IF c = None THEN <<>> ELSE c

Without(f, ids) == Restrict(f, DOMAIN f \ ids)
With(f, x, y) == [z \in DOMAIN f \cup {x} |-> IF z = x THEN y ELSE f[z]]

Result(kind, id) == [kind |-> kind, tx |-> id, path |-> None, bytes |-> 0]

\* parse_metadata_pdu, parse_eof_pdu, parse_file_data_pdu succeed: the fields
\* are all there, the names end and are UTF-8.
Parses(p) == p.ok

\* The table with id in it: opened if need be.
Opened(id) == IF id \in DOMAIN active THEN active
              ELSE With(active, id, NewState)

\* Mutant of HasRoom: one transaction too many.
HasRoomFor17(id) == id \in DOMAIN active \/ Cardinality(DOMAIN active) <= MaxActive

HasRoom(id) == id \in DOMAIN active \/ Cardinality(DOMAIN active) < MaxActive
-----------------------------------------------------------------------------
Init ==
  /\ active = <<>> /\ nextTxId = 1 /\ results = {} /\ now = 0
  /\ partial = [id \in TxIds |-> None] /\ files = [p \in Paths |-> None]
  /\ written = <<>>

\* History of a PDU of transaction id that writes the positions ps.
Heard(id, ps) ==
  written' = [i \in DOMAIN active' |->
                (IF i \in DOMAIN active THEN written[i] ELSE {})
                  \cup (IF i = id THEN ps ELSE {})]

Forgotten == written' = Restrict(written, DOMAIN active')

TableFull(p) ==
  /\ p.kind \in {"FileData", "Metadata"} /\ ~HasRoom(p.tx)
  /\ results' = {Result("CapacityExceeded", p.tx)}
  /\ UNCHANGED <<active, partial, files, nextTxId, now, written>>

\* Mutant of FileData: the partial file is truncated on open.
FileDataTruncates(p) ==
  /\ p.kind = "FileData" /\ HasRoom(p.tx) /\ Parses(p)
  /\ active' = [Opened(p.tx) EXCEPT ![p.tx].bytes = @ + Len(p.data)]
  /\ active'[p.tx].bytes <= MaxBytes
  /\ partial' = [partial EXCEPT ![p.tx] = WriteAt(<<>>, p.offset, p.data)]
  /\ results' = {}
  /\ Heard(p.tx, (p.offset + 1)..(p.offset + Len(p.data)))
  /\ UNCHANGED <<files, nextTxId, now>>

\* A segment: the transaction is opened before the body is parsed and before
\* the file is opened, so it stays when either fails.  A write that fails leaves
\* the file created, with the first n bytes of the segment in place.
FileData(p) ==
  /\ p.kind = "FileData" /\ HasRoom(p.tx)
  /\ \/ /\ Parses(p)
        /\ active' = [Opened(p.tx) EXCEPT ![p.tx].bytes = @ + Len(p.data)]
        /\ active'[p.tx].bytes <= MaxBytes
        /\ partial' = [partial EXCEPT ![p.tx] =
                         WriteAt(FileOf(@), p.offset, p.data)]
        /\ results' = {}
        /\ Heard(p.tx, (p.offset + 1)..(p.offset + Len(p.data)))
     \/ /\ active' = Opened(p.tx)
        /\ results' = {Result(IF Parses(p) THEN "Io" ELSE "Parse", p.tx)}
        /\ Heard(p.tx, {})
        /\ UNCHANGED partial
     \/ /\ Parses(p)
        /\ active' = Opened(p.tx)
        /\ results' = {Result("Io", p.tx)}
        /\ \E n \in {0} \cup (1..(Len(p.data) - 1)) :
             /\ partial' = [partial EXCEPT ![p.tx] =
                              WriteAt(FileOf(@), p.offset, SubSeq(p.data, 1, n))]
             /\ Heard(p.tx, (p.offset + 1)..(p.offset + n))
  /\ UNCHANGED <<files, nextTxId, now>>

Metadata(p) ==
  /\ p.kind = "Metadata" /\ HasRoom(p.tx)
  /\ active' = IF Parses(p) THEN [Opened(p.tx) EXCEPT ![p.tx].meta = p.dest]
                       ELSE Opened(p.tx)
  /\ results' = IF Parses(p) THEN {} ELSE {Result("Parse", p.tx)}
  /\ Heard(p.tx, {})
  /\ UNCHANGED <<partial, files, nextTxId, now>>

\* An end-of-file that declares an error takes a CRC already known back.
Eof(p) ==
  /\ p.kind = "Eof"
  /\ \/ /\ Parses(p) /\ p.tx \in DOMAIN active
        /\ active' = [active EXCEPT ![p.tx].crc = IF p.error THEN None ELSE p.crc]
        /\ results' = {}
        /\ Heard(p.tx, {})
     \/ /\ ~Parses(p) \/ p.tx \notin DOMAIN active
        /\ results' = {Result(IF Parses(p) THEN "UnknownTransaction" ELSE "Parse", p.tx)}
        /\ UNCHANGED <<active, written>>
  /\ UNCHANGED <<partial, files, nextTxId, now>>

\* Any other directive is ignored.
Ignored(p) ==
  /\ p.kind = "Other"
  /\ results' = {}
  /\ UNCHANGED <<active, partial, files, nextTxId, now, written>>

OnPdu(p) == TableFull(p) \/ FileData(p) \/ Metadata(p) \/ Eof(p) \/ Ignored(p)

FinalPath(id, t) == IF t.meta = None THEN BinName(id) ELSE t.meta

\* Mutant of CrcFails: an empty CRC field passes.
CrcNeverFails(id, t) == FALSE

CrcFails(id, t) == t.crc # None /\ FileOf(partial[id]) # t.crc

\* finalize_transaction(id): the transaction is gone whatever comes next.
FinalizeTransaction(id) ==
  /\ active' = Without(active, {id})
  /\ Forgotten
  /\ \/ /\ id \notin DOMAIN active
        /\ results' = {Result("UnknownTransaction", id)}
        /\ UNCHANGED <<partial, files>>
     \/ /\ id \in DOMAIN active                  \* no partial file, or no rename
        /\ results' = {Result("Io", id)}
        /\ UNCHANGED <<partial, files>>
     \/ /\ id \in DOMAIN active /\ partial[id] # None /\ CrcFails(id, active[id])
        /\ results' = {Result("CrcMismatch", id)}
        /\ UNCHANGED <<partial, files>>
     \/ /\ id \in DOMAIN active /\ partial[id] # None /\ ~CrcFails(id, active[id])
        /\ LET p == FinalPath(id, active[id])
           IN  /\ files' = [files EXCEPT ![p] = partial[id]]
               /\ results' = {[Result("Completed", id) EXCEPT
                                 !.path = p, !.bytes = active[id].bytes]}
        /\ partial' = [partial EXCEPT ![id] = None]
  /\ UNCHANGED <<nextTxId, now>>

Cancel(id) ==
  /\ active' = Without(active, {id})
  /\ Forgotten
  /\ results' = IF id \in DOMAIN active THEN {}
                ELSE {Result("UnknownTransaction", id)}
  /\ UNCHANGED <<partial, files, nextTxId, now>>

\* Mutant of TimedOut: a transaction without metadata is waited for.
TimedOutDescribed ==
  {id \in DOMAIN active : active[id].meta # None /\ now - active[id].lastPduTai > Timeout}

\* last_pdu_tai is set to 0 when the transaction is opened and never again.
TimedOut == {id \in DOMAIN active : now - active[id].lastPduTai > Timeout}

Poll ==
  /\ active' = Without(active, TimedOut)
  /\ results' = {[Result("Abandoned", id) EXCEPT !.bytes = active[id].bytes] :
                   id \in TimedOut}
  /\ Forgotten
  /\ UNCHANGED <<partial, files, nextTxId, now>>

\* send_file is a stub that hands out an id.
SendFile ==
  /\ nextTxId <= MaxSends
  /\ nextTxId' = nextTxId + 1
  /\ results' = {}
  /\ UNCHANGED <<active, partial, files, now, written>>

Elapse ==
  /\ now < MaxNow
  /\ now' = now + 1
  /\ UNCHANGED <<active, partial, files, nextTxId, results, written>>

Next ==
  \/ \E p \in Pdus : OnPdu(p)
  \/ \E id \in TxIds : FinalizeTransaction(id) \/ Cancel(id)
  \/ Poll \/ SendFile \/ Elapse

Spec == Init /\ [][Next]_cvars

\* "MUST be called at >= 1 Hz" (cfdp/mod.rs:147).
FairSpec == Spec /\ WF_cvars(Poll) /\ WF_cvars(Elapse)
-----------------------------------------------------------------------------
\* The table never holds more than CFDP_MAX_TRANSACTIONS, through either PDU
\* that opens a transaction, parsed or not.
TableBounded == Cardinality(DOMAIN active) <= MaxActive

\* Nothing stays in the table for ever: class 1 has no other way to end a
\* transfer whose end never came.
Settles == \A id \in TxIds : id \in DOMAIN active ~> id \notin DOMAIN active
=============================================================================
