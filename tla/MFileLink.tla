------------------------------ MODULE MFileLink ------------------------------
(***************************************************************************)
(* MFileAssembler behind a link on which some transactions have a correct  *)
(* sender (external: the relay of ICD-relay-surface.md section 6): every   *)
(* chunk frame of such a transaction has the header of its file, and the   *)
(* link loses, repeats and reorders frames, and damages some (FALSE in     *)
(* `intact`).  Of the other transactions Frames holds anything.            *)
(***************************************************************************)
EXTENDS MFile

CONSTANTS Correct,      \* the transactions with a correct sender
          File          \* the chunks of the file each of them carries

Whole(id) == MapThenFoldSet(\o, <<>>, LAMBDA i : File[id][i],
                            LAMBDA S : CHOOSE i \in S : \A j \in S : i <= j,
                            1..Len(File[id]))

Sent(id, i) == [tx |-> id, total |-> Len(File[id]), file |-> Whole(id),
                vast |-> FALSE, index |-> i - 1, data |-> File[id][i], intact |-> TRUE]
Damaged(f) == [f EXCEPT !.intact = FALSE, !.data = <<"x">>]

Genuine == UNION {{Sent(id, i) : i \in 1..Len(File[id])} : id \in Correct}

ASSUME SenderAssumption ==
  /\ Correct \subseteq TxIds
  /\ File \in [Correct -> Seq(Seq(STRING) \ {<<>>}) \ {<<>>}]
  /\ {f \in Frames : f.tx \in Correct} = Genuine \cup {Damaged(f) : f \in Genuine}
-----------------------------------------------------------------------------
\* What is on disk as complete is the file that was sent, or a first part of it
\* where a write failed, whatever the other transactions bring; and when
\* completion is reported it is all of the file, byte for byte, also where an
\* earlier write of it was cut short.
BinIsFile ==
  /\ \A id \in Correct : \/ disk.bin[id] = None
                         \/ \E n \in 0..Len(Whole(id)) :
                              disk.bin[id] = SubSeq(Whole(id), 1, n)
  /\ \A o \in report : o.kind = "Complete" /\ o.tx \in Correct
                      => disk.bin[o.tx] = Whole(o.tx)

\* Chunks that all came through make the file: no order, repetition or damage
\* on the way ends in the full-file CRC mismatch of finalize, which is
\* reported without a gap.
NoMismatch ==
  \A o \in report : o.kind = "Abandoned" /\ o.tx \in Correct => o.gaps > 0
=============================================================================
