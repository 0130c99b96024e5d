----------------------------- MODULE FrameBuffer -----------------------------
(***************************************************************************)
(* The read buffer of a connection (codec/frame/mod.rs, FrameBuffer) and   *)
(* the loop that fills it and cuts frames off it                           *)
(* (codec/frame/blocking.rs, FrameReadState::read_one_frame, poll and      *)
(* poll_one_frame; the async twins are the same steps with an .await at    *)
(* each read).                                                             *)
(*                                                                         *)
(* A byte is its position in the stream, 1 for the first; 0 is the filler  *)
(* of vec![0; n] and resize(n, 0).  buf is a sequence: Rust's buf[i] is    *)
(* buf[i + 1] here.  The sizes of the frame at the head of the stream are  *)
(* the variable frame, since header bytes have no content in this model.   *)
(***************************************************************************)
EXTENDS Integers, Sequences

CONSTANTS
    InitLen,      \* initial length of buf (8192 in the code)
    ResizeSize,   \* config.resize_size (4096 by default)
    Frames,       \* header and payload sizes a frame of the stream may have
    Width,        \* how many values a usize has (2^64)
    Capacity,     \* bytes buf may have before resize fails
    StreamLen     \* bytes the peer sends before the stream ends

(* 2, 4 or 10 bytes for the three length encodings, 4 more for a mask key. *)
HeaderSizes == {2, 4, 6, 8, 10, 14}

ASSUME SizesAssumption ==
    /\ InitLen \in Nat
    /\ ResizeSize \in Nat
    /\ StreamLen \in Nat

ASSUME FramesAssumption ==
    Frames \subseteq [header : HeaderSizes, payload : Nat]

(* A payload length is a usize, and whatever max_frame_payload_size refuses is
   not in Frames (0, its default, refuses nothing).  A Vec never has as many
   bytes as a usize has values; there is room for the initial buffer and for a
   poll behind a partial header. *)
ASSUME WidthAssumption ==
    /\ Width \in Nat /\ Capacity \in Nat
    /\ Capacity < Width
    /\ InitLen <= Capacity
    /\ \A f \in Frames : f.payload < Width /\ f.header + ResizeSize <= Capacity

VARIABLES
    buf,          \* FrameBuffer::buf
    produce_idx,  \* FrameBuffer::produce_idx
    consume_idx,  \* FrameBuffer::consume_idx
    frame,        \* sizes of the frame that starts at consume_idx
    taken,        \* bytes the stream has handed to a read call
    lost,         \* bytes among them that an interrupted read_exact dropped
    out,          \* range s .. e of buf lent to the caller as a payload
    panicked      \* a receive has panicked

vars == <<buf, produce_idx, consume_idx, frame, taken, lost, out, panicked>>

(* The total_len of parse_frame_header is a sum of usizes: it wraps in a release
   build.  (A debug build panics at the addition instead, in the same states as
   ConsumePanics.) *)
Total(f) == (f.header + f.payload) % Width

NoRange == [s |-> 0, e |-> 0]

TypeOK ==
    /\ buf \in Seq(0 .. StreamLen)
    /\ produce_idx \in Nat
    /\ consume_idx \in Nat
    /\ frame \in Frames
    /\ taken \in 0 .. StreamLen
    /\ lost \in 0 .. StreamLen
    /\ out \in [s : Nat, e : Nat]
    /\ panicked \in BOOLEAN

Init ==
    /\ buf = [i \in 1 .. InitLen |-> 0]
    /\ produce_idx = 0
    /\ consume_idx = 0
    /\ frame \in Frames
    /\ taken = 0
    /\ lost = 0
    /\ out = NoRange
    /\ panicked = FALSE

-----------------------------------------------------------------------------
(* FrameBuffer's methods. *)

ava_data == SubSeq(buf, consume_idx + 1, produce_idx)

AvaLen == produce_idx - consume_idx

\* Vec::resize(n, 0) where the code only ever grows.
Grow(s, n) ==
    IF n > Len(s)
    THEN [i \in 1 .. n |-> IF i <= Len(s) THEN s[i] ELSE 0]
    ELSE s

\* Faulty variant: the copy through tmp is forgotten.
PrepareNoCopy(size) ==
    IF Len(buf) - produce_idx >= size
    THEN [buf |-> buf, produce |-> produce_idx, consume |-> consume_idx]
    ELSE [buf |-> Grow(buf, size + AvaLen), produce |-> AvaLen, consume |-> 0]

\* Faulty variant: the new length forgets the unread bytes kept in front.
PrepareShort(size) ==
    IF Len(buf) - produce_idx >= size
    THEN [buf |-> buf, produce |-> produce_idx, consume |-> consume_idx]
    ELSE LET grown == Grow(buf, size)
         IN [buf     |-> [i \in 1 .. Len(grown) |->
                            IF i <= AvaLen THEN buf[consume_idx + i] ELSE grown[i]],
             produce |-> AvaLen,
             consume |-> 0]

\* Faulty variant: buf grows at its end and is never compacted.
PrepareNoCompact(size) ==
    [buf |-> Grow(buf, produce_idx + size), produce |-> produce_idx, consume |-> consume_idx]

(* prepare(size): room for size bytes after produce_idx.  When the tail is too
   short the unread bytes move to the front (through tmp, which holds nothing
   else between calls) and buf grows if that is still not enough.  With nothing
   unread that is the code's reset of both indices. *)
Prepare(size) ==
    IF Len(buf) - produce_idx >= size
    THEN [buf |-> buf, produce |-> produce_idx, consume |-> consume_idx]
    ELSE LET grown == Grow(buf, size + AvaLen)
         IN [buf     |-> [i \in 1 .. Len(grown) |->
                            IF i <= AvaLen THEN buf[consume_idx + i] ELSE grown[i]],
             produce |-> AvaLen,
             consume |-> 0]

\* The stream writes its next n bytes into s after index at.
Fill(s, at, n) ==
    [i \in 1 .. Len(s) |-> IF at < i /\ i <= at + n THEN taken + (i - at) ELSE s[i]]

-----------------------------------------------------------------------------
(* FrameReadState: the loop of read_one_frame. *)

\* is_header_ok: two bytes tell how long the header is, then all of it.
HeaderOk == AvaLen >= frame.header

(* poll: read at most resize_size bytes into the prepared slice and count what
   the stream returned. *)
Poll ==
    /\ ~HeaderOk
    /\ \E n \in 1 .. (StreamLen - taken) :
         LET b == Prepare(ResizeSize)
         IN /\ n <= ResizeSize
            /\ buf' = Fill(b.buf, b.produce, n)
            /\ produce_idx' = b.produce + n
            /\ consume_idx' = b.consume
            /\ taken' = taken + n
            /\ out' = NoRange
            /\ UNCHANGED <<frame, lost, panicked>>

(* poll returns an error: the stream failed, timed out or ended (a read of 0
   bytes).  The buffer has been prepared all the same; the caller may call
   receive again. *)
PollFails ==
    /\ ~HeaderOk
    /\ LET b == Prepare(ResizeSize)
       IN buf' = b.buf /\ produce_idx' = b.produce /\ consume_idx' = b.consume
    /\ out' = NoRange
    /\ UNCHANGED <<frame, taken, lost, panicked>>

\* Faulty variant: one byte too few is asked for.
MissingShort == Total(frame) - AvaLen - 1

Missing == Total(frame) - AvaLen

\* Preparing size bytes leaves buf within what can be allocated.
RoomFor(size) == Len(Prepare(size).buf) <= Capacity

(* poll_one_frame: read_exact of the bytes the frame still lacks. *)
PollOneFrame ==
    /\ HeaderOk
    /\ Missing > 0
    /\ RoomFor(Missing)
    /\ taken + Missing <= StreamLen
    /\ LET b == Prepare(Missing)
       IN /\ buf' = Fill(b.buf, b.produce, Missing)
          /\ produce_idx' = b.produce + Missing
          /\ consume_idx' = b.consume
    /\ taken' = taken + Missing
    /\ out' = NoRange
    /\ UNCHANGED <<frame, lost, panicked>>

\* Faulty variant: produce runs before the result of read_exact is looked at.
InterruptedCounted ==
    /\ HeaderOk
    /\ Missing > 0
    /\ RoomFor(Missing)
    /\ \E n \in 0 .. (StreamLen - taken) :
         LET b == Prepare(Missing)
         IN /\ n < Missing
            /\ buf' = Fill(b.buf, b.produce, n)
            /\ produce_idx' = b.produce + Missing
            /\ consume_idx' = b.consume
            /\ taken' = taken + n
            /\ lost' = lost + n
    /\ out' = NoRange
    /\ UNCHANGED <<frame, panicked>>

(* read_exact fails, times out or (async) its future is dropped after n bytes:
   they are in buf but produce never runs, so the reader does not count them
   and the stream will not send them again. *)
PollOneFrameInterrupted ==
    /\ HeaderOk
    /\ Missing > 0
    /\ RoomFor(Missing)
    /\ \E n \in 0 .. (StreamLen - taken) :
         LET b == Prepare(Missing)
         IN /\ n < Missing
            /\ buf' = Fill(b.buf, b.produce, n)
            /\ produce_idx' = b.produce
            /\ consume_idx' = b.consume
            /\ taken' = taken + n
            /\ lost' = lost + n
    /\ out' = NoRange
    /\ UNCHANGED <<frame, panicked>>

(* prepare's resize fails (capacity overflow, or the allocator gives up): the
   frame is larger than memory.  Nothing has been moved yet. *)
PreparePanics ==
    /\ HeaderOk
    /\ Missing > 0
    /\ ~RoomFor(Missing)
    /\ out' = NoRange
    /\ panicked' = TRUE
    /\ UNCHANGED <<buf, produce_idx, consume_idx, frame, taken, lost>>

\* The slice behind the header has as many bytes as the payload.
PayloadThere == frame.payload <= AvaLen - frame.header

(* consume_frame's split_at_mut(payload_len) panics: total_len has wrapped, so
   that poll_one_frame took the frame for complete. *)
ConsumePanics ==
    /\ HeaderOk
    /\ Missing <= 0
    /\ ~PayloadThere
    /\ out' = NoRange
    /\ panicked' = TRUE
    /\ UNCHANGED <<buf, produce_idx, consume_idx, frame, taken, lost>>

\* Faulty variant: the payload is taken to start behind the first two bytes.
ConsumeShortHeader ==
    /\ HeaderOk
    /\ Missing <= 0
    /\ out' = [s |-> consume_idx + 2, e |-> consume_idx + 2 + frame.payload]
    /\ consume_idx' = consume_idx + Total(frame)
    /\ frame' \in Frames
    /\ UNCHANGED <<buf, produce_idx, taken, lost, panicked>>

\* Faulty variant: the frame is cut off without poll_one_frame having completed it.
ConsumePartial ==
    /\ HeaderOk
    /\ out' = [s |-> consume_idx + frame.header, e |-> consume_idx + Total(frame)]
    /\ consume_idx' = consume_idx + Total(frame)
    /\ frame' \in Frames
    /\ UNCHANGED <<buf, produce_idx, taken, lost, panicked>>

(* consume_frame: lend the payload's range and move past the frame.  Unmasking
   rewrites the payload bytes in place and changes no index. *)
ConsumeFrame ==
    /\ HeaderOk
    /\ Missing <= 0
    /\ PayloadThere
    /\ out' = [s |-> consume_idx + frame.header,
               e |-> consume_idx + frame.header + frame.payload]
    /\ consume_idx' = consume_idx + Total(frame)
    /\ frame' \in Frames
    /\ UNCHANGED <<buf, produce_idx, taken, lost, panicked>>

Next ==
    \/ Poll
    \/ PollFails
    \/ PollOneFrame
    \/ PollOneFrameInterrupted
    \/ PreparePanics
    \/ ConsumeFrame
    \/ ConsumePanics

Spec == Init /\ [][Next]_vars

-----------------------------------------------------------------------------
(* Properties. *)

(* The indices never leave the buffer and never cross, whatever reads fail or
   are interrupted and whatever lengths the peer writes into its headers: the
   slices of prepare and ava_data and the subtraction produce_idx - consume_idx
   never panic, and a range that consume_frame lends lies inside the buffer.
   (The one slice of consume_frame that can panic is ConsumePanics.) *)
IndexOK ==
    /\ consume_idx <= produce_idx
    /\ produce_idx <= Len(buf)
    /\ out.s <= out.e
    /\ out.e <= consume_idx

(* Only a frame that memory could not hold makes receive panic: every frame that
   fits is read or fails with an error, however the buffer lies when its header
   arrives.  A length near 2^64 does it although no memory is asked for, since
   header_len + payload_len wraps to a frame that looks complete. *)
PanicsOnlyOnHugeFrames ==
    panicked => frame.header + frame.payload > Capacity

(* Unread bytes stay in stream order with nothing repeated or invented, and all
   of them come before the bytes the stream still holds: reset, compaction and
   growth never mix up two reads, not even after an interrupted one. *)
InOrder ==
    \A i \in 1 .. AvaLen :
        /\ buf[consume_idx + i] \in 1 .. taken
        /\ i < AvaLen => buf[consume_idx + i] < buf[consume_idx + i + 1]

(* As long as no read_exact was interrupted, the unread bytes are exactly the
   latest ones the stream handed out: every frame starts where the previous one
   ended.  (After an interruption they are not: the reader has lost its place.) *)
Contiguous ==
    lost = 0 =>
        \A i \in 1 .. AvaLen : buf[consume_idx + i] = taken - AvaLen + i

(* A lent payload is a run of consecutive stream bytes that ends right before
   the next unread byte. *)
LentIntact ==
    lost = 0 =>
        \A i \in 1 .. (out.e - out.s) :
            buf[out.s + i] = taken - AvaLen - (out.e - out.s) + i

(* The buffer never grows past its initial length, one poll behind a partial
   header, or the largest frame of the stream, however long the connection
   lives: growth does not accumulate. *)
MemoryBound ==
    \/ Len(buf) <= InitLen
    \/ \E f \in Frames : \/ Len(buf) < f.header + ResizeSize
                          \/ Len(buf) <= Total(f)

(* The buffer implements a FIFO of stream bytes: compaction and growth are
   invisible, every frame is cut off the head, and only an interrupted
   read_exact drops bytes. *)
Queue == INSTANCE ByteQueue
            WITH queue <- ava_data, payload <- SubSeq(buf, out.s + 1, out.e)

ImplementsQueue == Queue!Spec

=============================================================================
