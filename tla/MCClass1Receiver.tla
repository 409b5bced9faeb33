-------------------------- MODULE MCClass1Receiver --------------------------
(* Two transactions over a table of one, so that they also refuse each other. *)
(* The first has a correct sender: three symbols in segments of two.  The     *)
(* other brings an empty segment, PDUs that do not parse, an EOF with an      *)
(* error, and metadata that names the destination of the first.               *)
EXTENDS Class1Link

Image == <<"image", 0>>
Fd(t, o, d, k) == [kind |-> "FileData", tx |-> t, offset |-> o, data |-> d, ok |-> k]
Md(t, n, k)    == [kind |-> "Metadata", tx |-> t, dest |-> n, ok |-> k]
Ef(t, e, c, k) == [kind |-> "Eof", tx |-> t, error |-> e, crc |-> c, ok |-> k]

MCTxIds == 1..2
MCNames == {Image}
MCCorrect == {1}
MCFile == << <<"a", "b", "c">> >>
MCDest == <<Image>>
Wild == {Fd(2, 1, <<>>, TRUE), Fd(2, 0, <<>>, FALSE), Md(2, Image, TRUE),
         Md(2, Image, FALSE), Ef(2, TRUE, <<>>, TRUE), Ef(2, FALSE, <<"d">>, TRUE),
         Ef(2, FALSE, <<>>, FALSE), [kind |-> "Other", tx |-> 2]}
MCPdus == UNION {SentPdus(id) : id \in MCCorrect} \cup Wild
=============================================================================
