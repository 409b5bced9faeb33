------------------------------- MODULE MCMFile -------------------------------
(* One transaction with a correct sender, whose chunks have one and two      *)
(* bytes, so that their order matters; one with anything in its frames:      *)
(* contradicting headers and data, an index beyond the file within a word of *)
(* the bit set and one beyond the words, a size nobody can allocate.  One    *)
(* two-byte chunk exceeds the cap.                                           *)
EXTENDS MFileLink

A == <<"a">>
BB == <<"b", "b">>
Fr(n, w, i, d) == [tx |-> 2, total |-> n, file |-> w, vast |-> FALSE,
                   index |-> i, data |-> d, intact |-> TRUE]
Vast(f) == [f EXCEPT !.vast = TRUE]
Wild == {Fr(2, A \o BB, 0, A), Vast(Fr(2, A, 0, BB)), Fr(2, A, 2, BB),
         Fr(1, A, 4, A)}
MCTxIds == 1..2
MCCorrect == {1}
MCFile == [id \in MCCorrect |-> <<A, BB>>]
MCFrames == Genuine \cup {Damaged(f) : f \in Genuine} \cup Wild

\* Transactions that only open and never end, to see them time out
MCFewFrames == {Fr(2, A, 0, A)}
Nobody == {}
NoFile == <<>>
=============================================================================
