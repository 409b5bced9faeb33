------------------------------ MODULE GsStream ------------------------------
(***************************************************************************)
(* Stage 1 of main.rs: datagrams from the UDP socket are written into a    *)
(* pipe of bytes, and AosFramer cuts what it reads into frames and keeps   *)
(* those whose FECF is right.                                              *)
(*                                                                         *)
(* A byte is <<n, k>>, the k-th of datagram n as its sender made it.       *)
(* FrameLen bytes are a good frame when they are one frame of one datagram *)
(* as it was sent: a check sum that fits bytes of two frames is left out.  *)
(***************************************************************************)
EXTENDS Integers, Sequences

CONSTANTS FrameLen,     \* AOS_FRAME_LEN
          BufFrames,    \* 16, the frames that fit the receive buffer
          PipeFrames,   \* 64, the frames that fit the pipe
          Datagrams,    \* what the network may bring: [len, damaged], the second
                        \* the frames of it whose FECF is wrong
          MaxDatagrams  \* bound: datagrams received

ASSUME StreamAssumption ==
  /\ FrameLen \in Nat \ {0, 1}
  /\ BufFrames \in Nat \ {0} /\ PipeFrames \in Nat \ {0}
  /\ \A d \in Datagrams : d.len \in Nat
  /\ MaxDatagrams \in Nat

VARIABLES pending,      \* the rest of write_all
          pipe, buf,    \* the duplex, and what read_exact has so far
          open,         \* neither task has ended
          received,     \* history: the datagrams, as they came
          stream,       \* history: the bytes of them that recv gave
          forwarded,    \* the good frames, <<n, first byte>>
          rejected      \* fecf_errors_total

svars == <<pending, pipe, buf, open, received, stream, forwarded, rejected>>
-----------------------------------------------------------------------------
BufLen == FrameLen * BufFrames
PipeLen == FrameLen * PipeFrames

Smaller(a, b) == IF a < b THEN a ELSE b

\* recv cuts off what its buffer cannot hold.
Bytes(n, len) == [k \in 1..Smaller(len, BufLen) |-> <<n, k>>]

StreamInit ==
  /\ pending = <<>> /\ pipe = <<>> /\ buf = <<>> /\ open = TRUE
  /\ received = <<>> /\ stream = <<>> /\ forwarded = <<>> /\ rejected = 0

\* socket.recv, awaited only when the last datagram is written
Recv ==
  /\ open /\ pending = <<>> /\ Len(received) < MaxDatagrams
  /\ \E d \in Datagrams :
       /\ received' = Append(received, d)
       /\ pending' = Bytes(Len(received'), d.len)
       /\ stream' = stream \o pending'
  /\ UNCHANGED <<pipe, buf, open, forwarded, rejected>>

\* Mutant of WriteAll: what does not fit at once is dropped, as write would.
WriteOnce ==
  /\ open /\ pending # <<>> /\ Len(pipe) < PipeLen
  /\ LET n == Smaller(Len(pending), PipeLen - Len(pipe))
     IN  pipe' = pipe \o SubSeq(pending, 1, n) /\ pending' = <<>>
  /\ UNCHANGED <<buf, open, received, stream, forwarded, rejected>>

\* write_all: as much as the pipe has room for, then it waits for more room.
WriteAll ==
  /\ open /\ pending # <<>> /\ Len(pipe) < PipeLen
  /\ LET n == Smaller(Len(pending), PipeLen - Len(pipe))
     IN  /\ pipe' = pipe \o SubSeq(pending, 1, n)
         /\ pending' = SubSeq(pending, n + 1, Len(pending))
  /\ UNCHANGED <<buf, open, received, stream, forwarded, rejected>>

\* Datagram n's k-th byte begins a frame that was sent and is not damaged.
GoodFrom(n, k) ==
  LET d == received[n]
  IN  k % FrameLen = 1 /\ k + FrameLen - 1 <= d.len
      /\ (k \div FrameLen) + 1 \notin d.damaged

GoodFrame(b) ==
  /\ GoodFrom(b[1][1], b[1][2])
  /\ \A j \in 1..FrameLen : b[j] = <<b[1][1], b[1][2] + j - 1>>

\* read_exact takes what is there up to a whole frame, which process_frame
\* forwards or rejects by its FECF.
ReadExact ==
  /\ pipe # <<>>
  /\ LET n == Smaller(FrameLen - Len(buf), Len(pipe))
         b == buf \o SubSeq(pipe, 1, n)
     IN  /\ pipe' = SubSeq(pipe, n + 1, Len(pipe))
         /\ IF Len(b) < FrameLen
            THEN buf' = b /\ UNCHANGED <<forwarded, rejected>>
            ELSE /\ buf' = <<>>
                 /\ IF GoodFrame(b)
                    THEN forwarded' = Append(forwarded, b[1]) /\ UNCHANGED rejected
                    ELSE rejected' = rejected + 1 /\ UNCHANGED forwarded
  /\ UNCHANGED <<pending, open, received, stream>>

\* recv fails: the task ends and drops its end of the pipe; the framer reads
\* what is left of it.
SocketError ==
  /\ open /\ pending = <<>>
  /\ open' = FALSE
  /\ UNCHANGED <<pending, pipe, buf, received, stream, forwarded, rejected>>

StreamNext == Recv \/ WriteAll \/ ReadExact \/ SocketError
StreamSpec == StreamInit /\ [][StreamNext]_svars
-----------------------------------------------------------------------------
\* The f-th frame's length of bytes of the stream
FrameAt(f) == [j \in 1..FrameLen |-> stream[FrameLen * (f - 1) + j]]

\* A frame counts as one of a datagram: the one that its first byte is in.
WasDamaged(b) == (b[1][2] \div FrameLen) + 1 \in received[b[1][1]].damaged

\* However the two tasks share the pipe, every byte received is in a frame the
\* framer has had or still on its way, and the framer forwards exactly the good
\* frames among those it had, once each and in the order of the stream.  While
\* every datagram is whole frames, it rejects only what came damaged
\* (main.rs:65-90, framer.rs:251-290).
ForwardedExactly ==
  LET had == 1..(Len(forwarded) + rejected)
      good == {f \in had : GoodFrame(FrameAt(f))}
  IN  /\ Len(stream) = FrameLen * (Len(forwarded) + rejected)
                         + Len(buf) + Len(pipe) + Len(pending)
      /\ {forwarded[i] : i \in DOMAIN forwarded} = {FrameAt(f)[1] : f \in good}
      /\ \A i, j \in DOMAIN forwarded, f, g \in good :
           i < j /\ forwarded[i] = FrameAt(f)[1] /\ forwarded[j] = FrameAt(g)[1]
             => f < g
      /\ (\A n \in DOMAIN received : received[n].len % FrameLen = 0) =>
           \A f \in had \ good : WasDamaged(FrameAt(f))
=============================================================================
