----------------------------- MODULE ByteStream -----------------------------
(***************************************************************************)
(* What a pipe promises: bytes come out in the order in which they were    *)
(* put in, each of them once; at most Capacity of them are under way; no   *)
(* byte goes in after the pipe was closed, and it stays closed.            *)
(***************************************************************************)
EXTENDS Integers, Sequences

CONSTANTS Byte, Capacity

VARIABLES stream, closed

Init == stream = <<>> /\ closed = FALSE

\* Some bytes are added at the end.
Put == /\ ~closed
       /\ stream' \in Seq(Byte) /\ Len(stream') \in Len(stream)..Capacity
       /\ SubSeq(stream', 1, Len(stream)) = stream
       /\ UNCHANGED closed

Get(n) == /\ stream' = SubSeq(stream, n + 1, Len(stream))
          /\ UNCHANGED closed

Close == closed' = TRUE /\ UNCHANGED stream

Next == \/ Put
        \/ \E n \in 1..Len(stream) : Get(n)
        \/ Close

Spec == Init /\ [][Next]_<<stream, closed>>
=============================================================================
