----------------------------- MODULE FrameWriter -----------------------------
(***************************************************************************)
(* Sending: FrameWriteState::send and send_owned_frame                     *)
(* (codec/frame/blocking.rs and the async twin), down to the single writes *)
(* of the stream, any of which may be short or fail.                       *)
(*                                                                         *)
(* The wire is a sequence of cells: byte k of the header of some frame, or *)
(* byte k of the payload of the m-th call.  Masking changes payload bytes  *)
(* in place and is not visible; the mask key is four more header bytes.    *)
(***************************************************************************)
EXTENDS Integers, SequencesExt

CONSTANTS
    Configs,      \* the FrameConfigs a writer may be built with
    Sizes,        \* payload sizes the caller sends
    MaxCalls      \* bound: calls of send and send_owned_frame

ASSUME ConfigsAssumption ==
    Configs \subseteq [mask : BOOLEAN, renew : BOOLEAN, fragment : Nat]

ASSUME SizesAssumption == Sizes \subseteq Nat

ASSUME MaxCallsAssumption == MaxCalls \in Nat

VARIABLES
    config,     \* mask_send_frame, renew_buf_on_write, auto_fragment_size
    buf,        \* FrameWriteState::buf, reused from call to call
    wire,       \* cells the stream has accepted
    rest,       \* cells the write_all in progress still has to write
    pc,         \* "idle", "writing" or "sending" (in write_all), or "panicked"
    calls,      \* number of calls made
    asked,      \* history: the cells all these calls should put on the wire
    failed,     \* history: some call returned an error
    split       \* history: some call took the auto_fragment_size branch

vars == <<config, buf, wire, rest, pc, calls, asked, failed, split>>

-----------------------------------------------------------------------------
(* Cells. *)
HeadByte(code, fin, len, k) == [kind |-> "head", code |-> code, fin |-> fin, of |-> len, at |-> k]
Byte(m, k) == [kind |-> "data", code |-> "none", fin |-> FALSE, of |-> m, at |-> k]
Zero == [kind |-> "zero", code |-> "none", fin |-> FALSE, of |-> 0, at |-> 0]

header_len(mask, len) ==
    1 + (IF mask THEN 4 ELSE 0) + (IF len <= 125 THEN 1 ELSE IF len <= 65535 THEN 3 ELSE 9)

(* ctor_header: the bytes of one frame header. *)
Header(code, fin, len) ==
    [k \in 1 .. header_len(config.mask, len) |-> HeadByte(code, fin, len, k)]

Payload(m, len) == [k \in 1 .. len |-> Byte(m, k)]

\* Chunk i of payload.chunks(size).
Chunks(len, size) == (len + size - 1) \div size
ChunkLen(len, size, i) == IF i * size <= len THEN size ELSE len % size
Chunk(m, len, size, i) == SubSeq(Payload(m, len), (i - 1) * size + 1, (i - 1) * size + ChunkLen(len, size, i))

\* FrameConfig: "auto split size, if set 0, do not split frame".
Splits(len) == config.fragment > 0 /\ config.fragment < len

(* What a message has to look like on the wire: one frame, ... *)
Whole(m, len) == Header("Text", TRUE, len) \o Payload(m, len)

(* ... or a first fragment with the opcode and continuations up to the fin one. *)
Fragments(m, len) ==
    LET size == config.fragment
        n == Chunks(len, size)
    IN FlattenSeq([i \in 1 .. n |->
           Header(IF i = 1 THEN "Text" ELSE "Continue", i = n, ChunkLen(len, size, i))
           \o Chunk(m, len, size, i)])

-----------------------------------------------------------------------------
Init ==
    /\ config \in Configs
    /\ buf = <<>>
    /\ wire = <<>>
    /\ rest = <<>>
    /\ pc = "idle"
    /\ calls = 0
    /\ asked = <<>>
    /\ failed = FALSE
    /\ split = FALSE

\* BytesMut::resize where the code only grows.
Grow(s, n) == s \o [i \in 1 .. n - Len(s) |-> Zero]

\* What send leaves in buf when it returns Ok.
Renewed(b) == IF config.renew THEN <<>> ELSE b

\* A call that ought to put these cells on the wire.
Begin(cells) ==
    /\ pc = "idle"
    /\ calls < MaxCalls
    /\ calls' = calls + 1
    /\ asked' = asked \o cells
    /\ UNCHANGED config

\* The call still owes the cells in left, or is done; writing names who pays.
Owes(left, writing) ==
    /\ rest' = left
    /\ pc' = IF left = <<>> THEN "idle" ELSE writing

(* An empty payload: write_all of a header, never fragmented. *)
SendEmpty ==
    /\ 0 \in Sizes
    /\ Begin(Whole(calls + 1, 0))
    /\ Owes(Header("Text", TRUE, 0), "writing")
    /\ UNCHANGED <<buf, wire, failed, split>>

\* Faulty variant: the payload is appended to buf.
CopiedBehind(len) == Payload(calls + 1, len) \o buf

\* A masked payload is copied over the front of buf, which may hold more from an
\* earlier call.
Copied(len) == Payload(calls + 1, len) \o SubSeq(buf, len + 1, Len(buf))

\* Faulty variant: all of buf is taken for the payload.
SourceAll(len) == IF config.mask THEN Copied(len) ELSE Payload(calls + 1, len)

\* The slice a send takes its payload from.
Source(len) == IF config.mask THEN SubSeq(Copied(len), 1, len) ELSE Payload(calls + 1, len)

\* Faulty variant: the header is counted as masked whatever the configuration.
TwoWritesMasked(header, payload, writing) ==
    \E n \in 0 .. Len(header \o payload) :
        LET remain == header_len(TRUE, Len(payload)) + Len(payload) - n
        IN /\ wire' = wire \o SubSeq(header \o payload, 1, n)
           /\ IF remain <= Len(payload)
              THEN Owes(SubSeq(payload, Len(payload) - remain + 1, Len(payload)), writing)
              ELSE pc' = "panicked" /\ UNCHANGED rest

\* Faulty variant: an off-by-one in the start of the slice.
TwoWritesOffByOne(header, payload, writing) ==
    \E n \in 0 .. Len(header \o payload) :
        LET remain == Len(header \o payload) - n
        IN /\ wire' = wire \o SubSeq(header \o payload, 1, n)
           /\ IF remain <= Len(payload)
              THEN Owes(SubSeq(payload, Len(payload) - remain + 2, Len(payload)), writing)
              ELSE pc' = "panicked" /\ UNCHANGED rest

(* write_vectored of header and payload takes n of their bytes; write_all gets
   payload[payload.len() - remain ..], and payload.len() - remain underflows,
   which panics, when the write took less than the header. *)
TwoWrites(header, payload, writing) ==
    \E n \in 0 .. Len(header \o payload) :
        LET remain == Len(header \o payload) - n
        IN /\ wire' = wire \o SubSeq(header \o payload, 1, n)
           /\ IF remain <= Len(payload)
              THEN Owes(SubSeq(payload, Len(payload) - remain + 1, Len(payload)), writing)
              ELSE pc' = "panicked" /\ UNCHANGED rest

(* send of a frame in one piece, masked or not. *)
Send ==
    \E len \in Sizes \ {0} :
        LET b == IF config.mask THEN Copied(len) ELSE buf
        IN /\ ~Splits(len)
           /\ Begin(Whole(calls + 1, len))
           /\ TwoWrites(Header("Text", TRUE, len), Source(len), "sending")
           /\ buf' = IF pc' = "idle" THEN Renewed(b) ELSE b
           /\ UNCHANGED <<failed, split>>

(* send_owned_frame: the frame brings its header and is never split. *)
SendOwnedFrame ==
    \E len \in Sizes :
        /\ Begin(Whole(calls + 1, len))
        /\ TwoWrites(Header("Text", TRUE, len), Payload(calls + 1, len), "writing")
        /\ UNCHANGED <<buf, failed, split>>

(* async_send_owned_frame: write_all of the header, then of the payload. *)
AsyncSendOwnedFrame ==
    \E len \in Sizes :
        /\ Begin(Whole(calls + 1, len))
        /\ Owes(Whole(calls + 1, len), "writing")
        /\ UNCHANGED <<buf, wire, failed, split>>

(* write_vectored fails: nothing is written. *)
SendFails ==
    \E len \in Sizes :
        /\ Begin(Whole(calls + 1, len))
        /\ failed' = TRUE
        /\ \/ UNCHANGED buf
           \/ config.mask /\ len > 0 /\ ~Splits(len) /\ buf' = Copied(len)
        /\ UNCHANGED <<wire, rest, pc, split>>

\* Faulty variant: write where write_all is needed, one short write ends the call.
WriteOnce ==
    /\ pc \in {"writing", "sending"}
    /\ \E n \in 1 .. Len(rest) : wire' = wire \o SubSeq(rest, 1, n)
    /\ rest' = <<>>
    /\ pc' = "idle"
    /\ buf' = IF pc = "sending" THEN Renewed(buf) ELSE buf
    /\ UNCHANGED <<config, calls, asked, failed, split>>

(* A turn of write_all's loop: some of the rest goes out.  After the last one
   send may renew its buffer. *)
WriteAll ==
    /\ pc \in {"writing", "sending"}
    /\ \E n \in 1 .. Len(rest) :
         /\ wire' = wire \o SubSeq(rest, 1, n)
         /\ rest' = SubSeq(rest, n + 1, Len(rest))
    /\ pc' = IF rest' = <<>> THEN "idle" ELSE pc
    /\ buf' = IF pc = "sending" /\ rest' = <<>> THEN Renewed(buf) ELSE buf
    /\ UNCHANGED <<config, calls, asked, failed, split>>

(* The stream fails in write_all: the call returns the error, the rest is never
   written and nothing remembers that a frame is half out. *)
WriteFails ==
    /\ pc \in {"writing", "sending"}
    /\ rest' = <<>>
    /\ pc' = "idle"
    /\ failed' = TRUE
    /\ UNCHANGED <<config, buf, wire, calls, asked, split>>

-----------------------------------------------------------------------------
(* The auto_fragment_size branch of send. *)

HeaderBufLen(len) ==
    LET size == config.fragment
    IN header_len(config.mask, size) * Chunks(len, size)
       + (IF len % size # 0 THEN header_len(config.mask, len % size) ELSE 0)

\* Masked: copy_from_slice gets the whole tail of buf for one chunk, and panics.
FragmentMasked ==
    \E len \in Sizes :
        /\ config.mask
        /\ Splits(len)
        /\ Begin(Fragments(calls + 1, len))
        /\ buf' = Grow(buf, len + HeaderBufLen(len))
        /\ pc' = "panicked"
        /\ split' = TRUE
        /\ UNCHANGED <<wire, rest, failed>>

\* The loop of ctor_header puts header i at i * chunk_size; buf may be too short.
HeaderAt(i) == (i - 1) * config.fragment
HeaderEnd(len, i) == HeaderAt(i) + header_len(FALSE, ChunkLen(len, config.fragment, i))
HeadersFit(b, len) == \A i \in 1 .. Chunks(len, config.fragment) : HeaderEnd(len, i) <= Len(b)

\* buf after that loop, which writes the message's own opcode into every header
\* and lets a later header overwrite the end of an earlier one.
WithHeaders(b, len) ==
    LET size == config.fragment
        n == Chunks(len, size)
        covering(p) == {i \in 1 .. n : HeaderAt(i) < p /\ p <= HeaderEnd(len, i)}
    IN [p \in 1 .. Len(b) |->
          IF covering(p) = {} THEN b[p]
          ELSE LET i == Max(covering(p))
               IN HeadByte("Text", i = n, ChunkLen(len, size, i), p - HeaderAt(i))]

(* Unmasked: the slices cut buf at multiples of the header length, the last one
   takes all that is left of it, and the last chunk must cover what one
   write_vectored did not take. *)
FragmentUnmasked ==
    \E len \in Sizes :
        LET size == config.fragment
            n == Chunks(len, size)
            hl == header_len(FALSE, size)
            b == WithHeaders(Grow(buf, HeaderBufLen(len)), len)
            slices == FlattenSeq([i \in 1 .. n |->
                SubSeq(b, (i - 1) * hl + 1, IF i = n THEN Len(b) ELSE i * hl)
                \o Chunk(calls + 1, len, size, i)])
            lastChunk == Chunk(calls + 1, len, size, n)
        IN /\ ~config.mask
           /\ Splits(len)
           /\ Begin(Fragments(calls + 1, len))
           /\ split' = TRUE
           /\ \/ /\ ~HeadersFit(Grow(buf, HeaderBufLen(len)), len)
                 /\ pc' = "panicked"
                 /\ buf' = Grow(buf, HeaderBufLen(len))
                 /\ UNCHANGED <<wire, rest, failed>>
              \/ /\ HeadersFit(b, len)
                 /\ failed' = TRUE
                 /\ buf' = b
                 /\ UNCHANGED <<wire, rest, pc>>
              \/ /\ HeadersFit(b, len)
                 /\ \E k \in 0 .. Len(slices) :
                      LET remain == len + HeaderBufLen(len) - k
                      IN /\ wire' = wire \o SubSeq(slices, 1, k)
                         /\ IF remain > Len(lastChunk) \/ remain < 0
                            THEN pc' = "panicked" /\ UNCHANGED rest
                            ELSE Owes(SubSeq(lastChunk, Len(lastChunk) - remain + 1,
                                             Len(lastChunk)), "sending")
                 /\ buf' = IF pc' = "idle" THEN Renewed(b) ELSE b
                 /\ UNCHANGED failed

Next ==
    \/ SendEmpty
    \/ Send
    \/ SendOwnedFrame
    \/ AsyncSendOwnedFrame
    \/ SendFails
    \/ WriteAll
    \/ WriteFails
    \/ FragmentMasked
    \/ FragmentUnmasked

Spec == Init /\ [][Next]_vars

-----------------------------------------------------------------------------
(* Properties. *)

Cells == [kind : {"head", "data", "zero"}, code : {"Text", "Continue", "none"},
          fin : BOOLEAN, of : Nat, at : Nat]

\* What send needs of the inner buffer for one message.
Needed(len) == len + IF Splits(len) THEN HeaderBufLen(len) ELSE 0

\* The inner buffer never outgrows the largest message it was used for.
BufBounded == buf = <<>> \/ \E len \in Sizes : Len(buf) <= Needed(len)

(* Types, with the bound on the reused buffer and with pc saying whether a
   write_all is in progress. *)
TypeOK ==
    /\ config \in Configs
    /\ buf \in Seq(Cells) /\ BufBounded
    /\ wire \in Seq(Cells)
    /\ rest \in Seq(Cells)
    /\ pc \in {"idle", "writing", "sending", "panicked"}
    /\ rest # <<>> <=> pc \in {"writing", "sending"}
    /\ calls \in 0 .. MaxCalls
    /\ asked \in Seq(Cells)
    /\ failed \in BOOLEAN
    /\ split \in BOOLEAN

(* Until a write fails the wire holds the frames of all unsplit calls, whole, in
   order and with nothing in between, up to what the write_all in progress owes:
   short writes skip and repeat nothing, and what an earlier, longer message
   left in buf never goes out again. *)
FramesOnWire ==
    ~failed /\ ~split => IF pc = "panicked" THEN IsPrefix(wire, asked) ELSE wire \o rest = asked

(* An unsplit call panics only when the stream accepted less than the header of
   its frame in the first write: the wire then ends inside that header. *)
PanicsOnlyInHeader ==
    pc = "panicked" /\ ~failed /\ ~split =>
        /\ Len(wire) < Len(asked)
        /\ asked[Len(wire) + 1].kind = "head"

(* "will auto fragment if auto_fragment_size > 0": a send that returned Ok put
   the message on the wire as a first fragment and its continuations. *)
AutoFragments ==
    config.fragment > 0 /\ ~failed /\ pc = "idle" => wire = asked

=============================================================================
