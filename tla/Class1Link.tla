----------------------------- MODULE Class1Link -----------------------------
(***************************************************************************)
(* Class1Receiver when some transactions have a correct CFDP sender        *)
(* (external: the spacecraft's CFDP entity, as the tests and               *)
(* examples/cfdp_session.rs use it): such a transaction carries one file,  *)
(* cut into segments, with its Metadata and a no-error EOF that holds the  *)
(* CRC of the whole file.  Of the others Pdus holds anything.              *)
(***************************************************************************)
EXTENDS Class1Receiver

CONSTANTS Correct,   \* the transactions with a correct sender
          File,      \* the file of each of them
          Dest,      \* its destination name
          Segment    \* CFDP_SEGMENT_SIZE_BYTES

SegmentPdu(id, k) ==
  [kind |-> "FileData", tx |-> id, ok |-> TRUE, offset |-> k * Segment,
   data |-> SubSeq(File[id], k * Segment + 1,
                   IF (k + 1) * Segment <= Len(File[id]) THEN (k + 1) * Segment
                                                         ELSE Len(File[id]))]
SentPdus(id) ==
  {SegmentPdu(id, k) : k \in 0..((Len(File[id]) - 1) \div Segment)}
    \cup {[kind |-> "Metadata", tx |-> id, ok |-> TRUE, dest |-> Dest[id]],
          [kind |-> "Eof", tx |-> id, ok |-> TRUE, error |-> FALSE,
           crc |-> File[id]]}

ASSUME SenderAssumption ==
  /\ Segment \in Nat \ {0} /\ Correct \subseteq TxIds
  /\ File \in [Correct -> Contents \ {<<>>}] /\ Dest \in [Correct -> Names]
  /\ {p \in Pdus : p.tx \in Correct} = UNION {SentPdus(id) : id \in Correct}
-----------------------------------------------------------------------------
\* Segments that all came, in any order and any number of times, since the
\* transaction was opened make the file on disk, also on top of what an
\* earlier, abandoned attempt left there: it cannot end in a CRC mismatch.
SegmentsMakeFile ==
  \A id \in DOMAIN active \cap Correct :
    written[id] = 1..Len(File[id]) => partial[id] = File[id]

\* Once its EOF has come, a transaction is completed only with the file that
\* was sent: a gap in the segments is never delivered.
NoGapAfterEof ==
  [][ \A id \in Correct : \A r \in results' :
        /\ FinalizeTransaction(id) /\ r.kind = "Completed"
        /\ id \in DOMAIN active /\ active[id].crc # None
        => files'[r.path] = File[id] ]_cvars
=============================================================================
