---------------------------- MODULE MCFrameBuffer ----------------------------
(* Small instance of FrameBuffer: a buffer of 6 bytes polled 3 bytes at a time,
   and frames that are all header, fit the buffer, fill it and exceed it, one
   that memory (13 bytes) cannot hold and one whose length wraps (at 20). *)
EXTENDS FrameBuffer

MCFrames ==
    { [header |-> 2, payload |-> 0],
      [header |-> 2, payload |-> 3],
      [header |-> 4, payload |-> 8],
      [header |-> 6, payload |-> 1],
      [header |-> 2, payload |-> 14],
      [header |-> 4, payload |-> 19] }

=============================================================================
