-------------------------------- MODULE ZLib --------------------------------
(***************************************************************************)
(* ZLibCompressStream::compress (codec/deflate/mod.rs 337-381): the loop   *)
(* that feeds a chunk to zlib and grows the output by hand.                *)
(*                                                                         *)
(* zlib turns a chunk into a block of z bytes and, at the sync flush,      *)
(* TailLen more, 00 00 FF FF.  Byte k of block b is the cell <<b, k>>.     *)
(* zlib keeps what does not fit into the output (pending) and gives it out *)
(* first in the next call; with no room at all it returns Z_BUF_ERROR.     *)
(* Chunks are shorter than zlib's own buffers, so that a block appears at  *)
(* the flush only.                                                         *)
(***************************************************************************)
EXTENDS Naturals, Sequences

TailLen == 4

Block(b, z) == [k \in 1 .. z |-> <<b, k>>]
Flushed(b, z) == Block(b, z + TailLen)

Least(m, n) == IF m < n THEN m ELSE n
Greatest(m, n) == IF m < n THEN n ELSE m
From(s, n) == SubSeq(s, n + 1, Len(s))

\* The capacity of a Rust Vec of bytes after it was resized to len.
Grown(cap, len) == IF len <= cap THEN cap ELSE Greatest(Greatest(2 * cap, len), 8)

\* compress up to its loop: n bytes of input, an empty output of capacity cap.
Begin(n, cap, pending) ==
    LET len == IF n > 2 * cap + 4 THEN 2 * n + 4 ELSE 0
    IN [cap |-> Grown(cap, len), len |-> len, out |-> <<>>, pending |-> pending,
        eaten |-> FALSE, err |-> FALSE]

\* Faulty variant: an output without any room left is not grown.
TurnStrict(s, n) ==
    LET len == IF s.cap < s.len THEN s.len + 2 * n ELSE s.len
        cap == Grown(s.cap, len)
        avail == cap - Len(s.out)
        given == Least(avail, Len(s.pending))
    IN [cap |-> cap, len |-> len,
        out |-> s.out \o SubSeq(s.pending, 1, given),
        pending |-> From(s.pending, given),
        eaten |-> Len(s.pending) < avail \/ (avail > 0 /\ n = 0),
        err |-> avail = 0]

(* One turn of the loop.  The guard that makes room compares the capacity with
   the length of the vector, which stands still while bytes are written behind
   it at write_idx. *)
Turn(s, n) ==
    LET len == IF s.cap <= s.len THEN s.len + 2 * n ELSE s.len
        cap == Grown(s.cap, len)
        avail == cap - Len(s.out)
        given == Least(avail, Len(s.pending))
    IN [cap |-> cap, len |-> len,
        out |-> s.out \o SubSeq(s.pending, 1, given),
        pending |-> From(s.pending, given),
        eaten |-> Len(s.pending) < avail \/ (avail > 0 /\ n = 0),
        err |-> avail = 0]

\* The loop: every turn that does not eat the input gives out pending bytes.
Loop(n, cap, pending) ==
    LET turn[k \in 0 .. Len(pending) + 1] ==
            IF k = 0 THEN Begin(n, cap, pending)
            ELSE IF turn[k - 1].eaten \/ turn[k - 1].err THEN turn[k - 1]
            ELSE Turn(turn[k - 1], n)
    IN turn[Len(pending) + 1]

(* compress: the loop and one sync flush into the room that is left. *)
Compress(b, z, n, cap, pending) ==
    LET s == Loop(n, cap, pending)
        given == Least(s.cap - Len(s.out), z + TailLen)
    IN IF s.eaten
       THEN [ok |-> TRUE, eaten |-> TRUE,
             out |-> s.out \o SubSeq(Flushed(b, z), 1, given),
             pending |-> s.pending \o From(Flushed(b, z), given)]
       ELSE [ok |-> FALSE, eaten |-> FALSE, out |-> s.out, pending |-> s.pending]

=============================================================================
