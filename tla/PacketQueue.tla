----------------------------- MODULE PacketQueue -----------------------------
(***************************************************************************)
(* What a stream port promises of the packets it accepts: a queue.  Packets *)
(* are numbered in the order they are accepted; a frame takes some of the   *)
(* oldest, at most BatchMax, and appends them to the stream.  Nothing is    *)
(* lost between the two, repeated or overtaken.                             *)
(***************************************************************************)
EXTENDS Integers, Sequences

CONSTANT BatchMax

VARIABLES backlog,   \* accepted, in no frame yet
          stream     \* the payload of the frames so far

Init == backlog = << >> /\ stream = << >>

Accept ==
  /\ backlog' = Append(backlog, Len(stream) + Len(backlog) + 1)
  /\ UNCHANGED stream

Frame ==
  \E n \in 1 .. BatchMax :
    /\ n <= Len(backlog)
    /\ stream' = stream \o SubSeq(backlog, 1, n)
    /\ backlog' = SubSeq(backlog, n + 1, Len(backlog))

Next == Accept \/ Frame

Spec == Init /\ [][Next]_<<backlog, stream>>

=============================================================================
