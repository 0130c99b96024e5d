------------------------------ MODULE ByteQueue ------------------------------
(***************************************************************************)
(* What a connection's read buffer promises, whatever it does with indices *)
(* and copies: a FIFO of the bytes taken from the stream.  A byte is       *)
(* identified by its position in the stream (1, 2, 3, ...).                *)
(* FrameBuffer.tla implements this specification.                          *)
(***************************************************************************)
EXTENDS Naturals, Sequences

CONSTANT StreamLen            \* bytes the peer sends before the stream ends

VARIABLES
    queue,      \* bytes taken from the stream and not yet part of a frame
    taken,      \* how many bytes the stream has handed out
    payload     \* the payload of the frame handed out last, while it is lent

vars == <<queue, taken, payload>>

Init == queue = <<>> /\ taken = 0 /\ payload = <<>>

\* The n stream bytes that follow the first k.
Run(k, n) == [i \in 1 .. n |-> k + i]

(* Reading the stream appends what it returned, in stream order. *)
Arrive ==
    \E n \in 1 .. (StreamLen - taken) :
        /\ queue' = queue \o Run(taken, n)
        /\ taken' = taken + n
        /\ payload' = <<>>

(* Bytes the stream handed out that never reach the queue: an interrupted
   read_exact leaves them in memory the reader does not count. *)
Lose ==
    \E n \in 1 .. (StreamLen - taken) :
        /\ taken' = taken + n
        /\ payload' = <<>>
        /\ UNCHANGED queue

(* A frame is a header and a payload cut off the head of the queue. *)
TakeFrame ==
    \E t \in 1 .. Len(queue) : \E h \in 1 .. t :
        /\ payload' = SubSeq(queue, h + 1, t)
        /\ queue' = SubSeq(queue, t + 1, Len(queue))
        /\ UNCHANGED taken

(* A read that fails before it takes a byte only ends the loan. *)
Release == payload' = <<>> /\ UNCHANGED <<queue, taken>>

Next == Arrive \/ Lose \/ TakeFrame \/ Release

Spec == Init /\ [][Next]_vars

=============================================================================
