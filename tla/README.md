# TLA+ models of ws-tool

ws-tool is a WebSocket toolkit in Rust: framing, message assembly, permessage-deflate,
the opening handshake and stream adapters, each in a blocking and an async version.
This directory holds TLA+ models of it, the TLC runs that check them and TLAPS proofs
about them. Paths below are relative to the repository.

    tlc -workers 2 -config FrameBuffer.cfg MCFrameBuffer.tla     # a run of PROJECT.json
    tlapm FrameBufferProofs.tla                                  # the proofs of a module

`SequenceLemmas` holds facts about concatenation that several proofs use. `PROJECT.json`
lists the runs, the properties of each, for every property a mutation of
the model that breaks it, the source lines behind every definition, the hazards of the
code and the theorems.

## The system

| Component | State | Operations | Talks to |
|---|---|---|---|
| Read buffer, `src/codec/frame/mod.rs` 403-462, `blocking.rs` 45-82 | `buf`, `tmp`, `produce_idx`, `consume_idx` | `prepare`, `produce`, `consume`, `poll`, `poll_one_frame`, `consume_frame` | reads the stream; lends ranges of `buf` to the reader |
| Frame reader, `mod.rs` 104-401, `blocking.rs` 17-56 | `fragmented`, `fragmented_data`, `fragmented_type`, `config` | `receive` = `parse_frame_header`, `check_frame`, `merge_frame` | pulls frames out of the read buffer, hands messages to the codecs |
| Frame writer, `mod.rs` 464-482, `blocking.rs` 84-258 | `header_buf`, `buf`, `config` | `send`, `send_owned_frame` | `write_vectored` and `write_all` of the stream |
| Frame header codec, `src/frame.rs` | none (views of bytes) | `header_len`, `ctor_header`, getters, setters, `OwnedFrame` | writer, deflate codec |
| Deflate codec, `src/codec/deflate/` | two zlib streams, their output buffers, `fragmented`, `fragmented_data`, `fragmented_type` | `send`, `send_owned_frame`, `receive`, `receive_one`, resets | frame reader and writer with merging and UTF-8 checks off |
| Deflate negotiation, `deflate/mod.rs` 66-182, 406-502 | `PMDConfig` on each side | `deflate_handshake_handler`, `parse_str`, `check_fn`, `ext_string` | the handshake's headers |
| Message codecs, `src/codec/text`, `binary`, `src/message.rs` | a frame codec, `validate_utf8` | `receive`, `receive_raw`, `send`, `ping`, `close`, `split` | applications |
| Handshake, `src/protocol.rs`, `src/lib.rs` | bytes read so far, key | `req_handshake`, `handle_handshake`, `accept`, `write_resp`, checks | a stream that may be buffered |
| Streams and split, `src/stream.rs`, `src/codec/mod.rs` | `BufReader`, `BufWriter`, a mutex for split TLS streams | `read`, `write`, `flush`, `split` | sockets; one thread per half |
| Builders, connectors, adapters, errors, Python binding | straight-line set-up | connect, proxy, TLS | sockets |

The library starts no thread and keeps no timer. Concurrency comes from its users: a
codec is split and its halves run in two threads or tasks, and an async call is dropped
at any `.await`. Failure comes from streams: a read or write may be short, fail, time
out and be tried again, and the example clients go on calling `receive` after a
protocol error. What is hard is therefore

* the three-index arithmetic of the read buffer at the moment it compacts or grows, with
  a partial header unread;
* what a failed or dropped read or write leaves behind for the next call;
* message state across frames: interleaved control frames, rejected fragments, state
  that outlives an error;
* state shared by two peers that must move in step: deflate windows, handshake, close;
* buffers nobody flushes, and locks held while waiting for the peer.

What makes each component correct: the read buffer is a FIFO of stream bytes; the reader
delivers exactly the messages of the legal frames and rejects exactly the others; the
writer puts whole frames on the wire in call order; compressed messages decode to what
was sent, whatever was negotiated; both peers agree whether the handshake succeeded and
finish it; splitting a stream loses no byte and blocks no half on the other; a close is
answered.

## What is modelled

### FrameBuffer, ByteQueue

`FrameBuffer` is the read buffer with the loop of `read_one_frame`. A byte is its
position in the stream, 0 is the filler of `resize`; `buf` is Rust's vector shifted by
one. The model keeps all indices and every branch of `prepare`, since compaction and
growth are what could go wrong; header contents are abstracted to the sizes of the frame
at the head (`frame`), which the code reads from the bytes. The actions:

| Action | Code |
|---|---|
| `Poll`, `PollFails` | `poll` with a short read, or with an error or end of stream |
| `PollOneFrame` | `poll_one_frame` whose `read_exact` succeeds |
| `PollOneFrameInterrupted` | `read_exact` fails, times out or is dropped after n bytes |
| `ConsumeFrame` | `consume_frame`; the range lent to the caller is `out` |
| `PreparePanics` | `prepare`'s `resize` fails: the frame is larger than memory |
| `ConsumePanics` | `split_at_mut` of `consume_frame` panics, since `total_len` has wrapped |

`total_len` is a sum of `usize`, so it is taken modulo `Width`, and `buf` may have
`Capacity` bytes: with `max_frame_payload_size` at its default a peer may announce any
length. `IndexOK` is about the indices, which stay in order whatever the lengths;
`PanicsOnlyOnHugeFrames` says which frames make a `receive` panic. (A debug build panics
at the addition, for the same headers as `ConsumePanics`.)

The next call of `receive` may follow any of them; after a panic it panics again. `tmp` is
not a variable: it holds nothing between calls. `ByteQueue` is what the buffer promises: a
queue of stream bytes to which reads append and from whose head frames are cut;
`ImplementsQueue` is the refinement, with `ava_data` as the queue and the lent slice as
the payload.

Bytes lost by an interrupted `read_exact` are part of both modules (`lost`, `Lose`):
the code really drops them, so `InOrder` holds always and `Contiguous` and `LentIntact`
until the first such loss.

### FrameReader, MessageStream

One step of `FrameReader` is one turn of the loop of `receive`. The frame at the head
(`next`) is a record: opcode, `fin`, what is wrong with its header, a body over the
bytes `"a"` (a character) and `"h"`, `"t"` (the halves of a two-byte character), and
what is wrong with a control frame's payload. `HeaderError` and `CheckError` are
`parse_frame_header` and `check_frame` with the order of their tests; `Refuse`,
`Reject`, `Pass` and the `Merge...` actions are the outcomes. `poisoned` is a history
variable: a first text fragment that fails its UTF-8 check is rejected although
`fragmented` is already set (`mod.rs` 282-290), so the message stays open without its
beginning.

`MessageStream` states message assembly without those flags: a message under assembly
(`msg`) that is absent, open or lost, and the frames that start, extend, finish or pass
by it. `ImplementsMessages` says that the reader implements it, for merging and
non-merging configurations.

### FrameWriter

`FrameWriter` follows one call of `send` or `send_owned_frame` down to the single writes
of the stream. The wire is a sequence of cells, byte k of a frame's header or byte k of
the payload of the m-th call, so that a skipped, repeated or stale byte shows. Action
`Send` (and `SendOwnedFrame`) is everything up to `write_vectored` of header and payload
taking n bytes, where `TwoWrites` computes what is left for `write_all` or panics;
`WriteAll` is one turn of `write_all`, `WriteFails` its failure. `asked` is a history
variable with the cells the calls should produce. `FragmentMasked` and
`FragmentUnmasked` are the `auto_fragment_size` branch with its index arithmetic as it
is.

### Opening

Two endpoints of this library, from the first byte of the HTTP upgrade to the first
frames and the split of the codec. Each runs over a stream of some `kind`: blocking or
async, without buffers (`cap = 0`) or as a `BufStream`. `out` and `ahead` are the
contents of `BufWriter` and `BufReader`, `net` what is on the way. A head is two tokens,
so that it can arrive in pieces and its end can be missed; a frame is one.

| Action | Code |
|---|---|
| `ReqHandshake` | `req_handshake` (writes and flushes), `async_req_handshake` (writes) |
| `ReadHead`, `ReadHeadEof` | the byte-wise loops of both sides, and their error at the end of the stream |
| `AcceptGarbled`, `AcceptRefuses`, `Accept` | `accept`: parse error, handler's refusal, 101 response and `codec_factory`, which may fail |
| `CheckResp` | `perform_parse_req` and `check_fn`, which may fail on a 101 as well |
| `SendFrame`, `FlushFrames`, `ReceiveFrame`, `Split` | the codec in the hands of the application |
| `Crash` | the process of one side dies |
| `DiesWriting` | it dies in the middle of writing its head, and half of it arrives |

What a dropped stream does with its buffer is part of the model (`WriteAndDrop`): std's
`BufWriter` writes it out, tokio's does not. `wrote` is a history variable. Header syntax
is abstracted to whether a request is garbled, illegal or legal; the key always matches
because both ends compute it with the same function.

### Deflate, DeflateNegotiation, ZLib

`Deflate` is one direction of a permessage-deflate connection, from the offer in the
handshake to the messages `receive` returns. `DeflateNegotiation` has its pure part: what
`parse_str` accepts (`ParsesOK`, `Parsed`), what `deflate_handshake_handler` answers
(`Answer`), the configuration `factory` and `check_fn` take out of a header (`Agreed`),
the window and the reset condition of each role (`Window`, `Resets`) and whether zlib
accepts the window (`Opens`). `ZLib` has the loop of `compress`, with Rust's rule for the
capacity of a grown vector: how many bytes of a block come out and how many zlib keeps.

| Action | Code |
|---|---|
| `ServerRefuses`, `ServerAnswers` | `deflate_handshake_handler`, then `factory` and the codec's constructors, which may panic |
| `ClientChecks` | `check_fn` on the response |
| `Send`, `SendOwnedFrame` | a call: the chunks it is going to write |
| `WriteCompressed`, `WritePlain` | one chunk: compress, cut the last four bytes, write, reset |
| `CompressFails` | `compress` has no room at all and the call fails |
| `SendUnwritten`, `OwnedUnwritten`, `PlainUnwritten` | the write fails, or the async call is dropped at it |
| `PeerFragments`, `PeerFragmentsCompressed`, `PeerSetsRsv1`, `PeerWrites` | a peer that is not this library, as far as RFC 7692 and beyond |
| `LowRejects`, `InflateFails` | `receive` fails in the inner reader, or in `receive_one` |
| `PassFrame`, `PassControl`, `MergeStart`, `MergeWhole`, `MergeContinue`, `MergeRejects` | the branches of `receive` behind `receive_one` |

A compressed block refers back over some earlier blocks, as many as the window spans
(`Reach`); the decompressor is in step, or has lost blocks (`"lost"`: it may return
anything or fail), or is broken (`"bad"`). A control frame of more than 125 bytes
(`TooBig`) is written by every writer and refused by the reader, which owes an `Error` for
it (`Due`).

`faults` is a history variable that names what this reader does not make up for: a message
cut short in zlib (`"cut"`), compressed and not written (`"unsent"`, and `"unreset"` if
the reset was skipped too), fragmented by this library's `send` (`"fragmented"`),
fragmented after compression by a peer as RFC 7692 allows (`"packed"`), `rsv1` where the
RFC has none (`"foreign"`, `"continued"`), a character cut at the end of a fragment under
`FastFail` (`"cutchar"`). Every property says under which faults it holds, and
`DamageIsContained`, `OneFlagIsContained` and `OthersArrive` how far the damage goes.

### HeaderCodec

`frame.rs` on bytes. A header is a sequence of bytes, with one difference: the long form
of the length has `LongBytes` bytes instead of eight, and `usize` is as wide, so that
`header_len + payload_len` wraps within TLC's reach. A payload is a sequence of parts with
the set of keys each is XORed with. `New` and `WithRaw` are `OwnedFrame::new`, with the
`Header::new` it calls, and `with_raw`, which takes any header and any payload; `SetFlag`,
`ChangeOpcode`, `SetMask`, `ChangePayloadLen`, `Unmask`, `Mask` and `Extend` are the
methods of those names. `raw` records that the caller has told header and payload
different things, which no method checks. `CtorHeader` is `ctor_header` over a buffer that
still holds earlier headers; `View` and `parse_frame_header` are the readers. An operation
that would index behind the header panics (`Guarded`).

### Connection

Two applications with a message codec each, after the handshake. `Converted`, `FrameOf`
and `MessageOf` are the conversions of `message.rs`, `send` and `receive` of `StringCodec`
and `BytesCodec`; `Rejects` is `check_frame` under the default configuration, its limit of
125 bytes for control frames (`TooBig`) included. The application is one of three loops:
two threads on a split codec (`"duplex"`), the echo server and the autobahn client of
`examples/`.

| Action | Code |
|---|---|
| `MakeCall` | `send`, `ping`, `pong`, `close` by the writing thread |
| `EnterWrite`, `EnterRead` | `ReadHalf` and `WriteHalf` lock the mutex of a blocking TLS stream |
| `Written`, `WriteFails` | one `write_vectored` or `write`, which may be short; the peer is gone |
| `ReadSome`, `ReadFails` | `poll`; the end of the stream, or a reset that drops what was on its way |
| `ReceiveFails` | `receive` returns a protocol error |
| `ReceiveDuplex`, `ReceiveEcho`, `ReceiveAutobahn` | `receive` returns a message, and what the loop does with it |

`asked` and `returned` are history variables: messages handed to `send`, results of
`receive`. A frame is written in two parts, header and payload, so that a write can end
between them; how a frame is cut into bytes is the subject of `FrameWriter` and
`FrameBuffer`.

## Runs

| Run | Checks | Shows |
|---|---|---|
| `frame_buffer` | `TypeOK`, `IndexOK`, `PanicsOnlyOnHugeFrames`, `InOrder`, `Contiguous`, `LentIntact`, `MemoryBound`, `ImplementsQueue` | the buffer is a FIFO, stays in bounds, does not accumulate memory and panics on frames larger than memory only |
| `frame_reader` | `TypeOK`, `RefusalIsFinal`, `WholeTextValid`, `ImplementsMessages` | message assembly, after any error as well |
| `frame_reader_utf8` | `MergedTextValid` (violated) | "check utf8 after merged" is not what `On` does |
| `frame_writer` | `TypeOK`, `FramesOnWire`, `PanicsOnlyInHeader` | short writes, buffer reuse, where a send panics |
| `frame_writer_fragment` | `AutoFragments` (violated) | automatic fragmentation writes no fragmented message |
| `header_codec` | `TypeOK`, `HeaderFaithful`, `PayloadMatches`, `PanicsOnlyAfterSetMask`, `CtorIsNew`, `ParsesBack` | setters and masking keep header and payload consistent, a reused buffer leaks nothing, the reader reads what was written |
| `opening` | `TypeOK`, `NothingSwallowed`, `Agreement`, `HandshakeEnds` | both peers finish the handshake and agree; frames right behind it are kept |
| `opening_unflushed` | `HandshakeEnds` (violated) | a server over a `BufStream` never sends its response |
| `opening_split` | `SplitKeepsBytes` (violated) | splitting a blocking `BufStream` drops what was read ahead |
| `deflate` | `TypeOK`, `OneAgreement`, `MessagesArrive`, `OuterWithinInner`, `DamageIsContained`, `OneFlagIsContained`, `OthersArrive`, `FirstCutIsSmall`, `FailsOnlyOnSmall` | both ends agree on the extension and their windows stay together; what breaks this and how far the damage goes; when a call panics or fails |
| `deflate_small` | `AnySizeArrives` (violated) | a compressed message of four bytes does not arrive |
| `connection` | `TypeOK`, `MessagesKept`, `RoundTrip`, `SendEnds`, `CloseAnswered`, `CloseEnds` | messages and close codes survive, sends end, closes are answered |

Bounds. `frame_buffer`: a buffer of 6 bytes (8192 in the code) polled 3 at a time (4096),
16 stream bytes, and frames that are all header, fit the buffer, fill it, are larger than
it, are larger than memory (`Capacity` 13), and have a length that wraps (`Width` 20):
every branch of `prepare` is taken with and without unread bytes, several times over.
`frame_reader`: four frames, enough for a rejected or accepted first fragment, a control
frame between fragments, a last continuation and a frame after it; 37 different frames
cover every opcode, both values of `fin` and every defect. `frame_writer`: payloads of 0,
1 and 6 bytes in two calls, so that a short message follows a long one; every split of
every write. Chunk sizes 2 and 3 take both outcomes of the header loop in the fragmenting
branch.

`header_codec`: lengths at both ends of each of the three forms, two keys, and four
operations, enough to create a frame, mask it, change its length across a form and mask it
again, to give `with_raw` a payload that does not match and go on with it, and for a
buffer to hold three earlier headers.

`opening`: streams without buffers, with buffers no longer than a head (which a head
therefore passes through, while frames stay in them) and, for the blocking client, which
flushes, longer ones; two frames from each side, so that one can be read ahead behind
another. `opening_unflushed` and `opening_split` give the server and the client a buffer
longer than a head.

`deflate`: nine offers (none, a browser's, flags, windows, two offers in one header, a
window zlib does not take, and three that are refused), both roles, three configurations;
three calls without faults, so that a window spans blocks that a reset must drop, and two
once something faulty happened, so that its effect on the next message shows. The sizes
0, 1, 3 and 12 lie around the room `compress` makes, with blocks longer and shorter than
their input; pings have 0, 125 and 126 bytes. `deflate_small` sends
four bytes once, over the same offers.

`connection`: a window of two parts, so that a socket is full after one frame; scripts of
two calls that end with a Close given in each of the ways there are (a code and a reason,
raw bytes, empty, an illegal code) behind every kind of message, a Ping that is too long
among them, against an echo server on each codec, the autobahn loop and a second talker
behind a locked stream.

Deadlock is checked in `frame_buffer`, where `receive` can always be called again (after a
panic, too). The other runs bound the number of frames, operations or calls, so they end;
their configurations say so.

Fairness. `Opening` has weak fairness of `Handshake(p)` for each peer: a thread or task
inside `with_stream` or `accept` goes on as soon as its stream has a byte or has ended,
because TCP delivers what was sent and the executor polls a woken task. Nothing is assumed
of the application there: it may never send, flush, receive or split. `Connection` has
weak fairness of the writer and of the reader of each side, for the same reason, and
nothing about the order in which the two get the lock of a split stream:
`std::sync::Mutex` promises none. `SendEnds` and `CloseEnds` therefore except a side that
is locked out for good (`[]LockedOut`): one half holds the mutex inside a read that gets
nothing, or inside a write into a full socket, and the other waits. That really happens:
without the exception TLC finds both violated. `CloseAnswered` has no such exception. The
other properties are safety properties and step refinements and need no fairness.

## Findings

Each of these is a run that must find a violation.

* `frame_reader_utf8`: `ValidateUtf8Policy::On` is documented as "check utf8 after
  merged" (`mod.rs` 28). Nothing checks a merged text.
* `frame_writer_fragment`: `send` "will auto fragment if auto_fragment_size > 0"
  (`blocking.rs` 90), but every fragment carries the message's opcode, and the masked
  branch always panics.
* `opening_unflushed`: the feature matrix (`README.md` 9) ticks buffered streams for
  servers; over one, `accept` leaves its response in the buffer (`lib.rs` 246) and both
  peers wait. The examples wrap the stream inside `codec_factory`, after the handshake.
* `opening_split`: `Split` for the blocking `BufStream` (`stream.rs` 353) forgets what its
  `BufReader` has read ahead; the documentation of `split` speaks of parts, not of loss.
* `deflate_small`: `send` of a compressed message of four bytes cuts data instead of the
  trailing `00 00 FF FF`, because `compress` makes no room for it (`deflate/mod.rs` 354).

The models contain more that a reader of the code would not expect; the properties are
stated around it and the definitions say where.

* The deflate reader resets its window by the flag of its own role (`deflate/blocking.rs`
  186), where RFC 7692 has the flag of the sender's: with one flag agreed, it may drop a
  context the writer keeps. `MessagesArrive` holds under `KeepsUp`, which excludes exactly
  these agreements; `OneFlagIsContained` says which messages they harm.
* `receive_one` decides by the `rsv1` of each frame (`deflate/blocking.rs` 176): of a
  compressed message in fragments, which RFC 7692 allows, it inflates the first one and
  takes the others as they are (fault `"packed"`, `OthersArrive`).
* `send` of an empty payload compresses it into a vector without capacity
  (`deflate/blocking.rs` 36), and the call fails (`FailsOnlyOnSmall`).
* A decompressor that failed is not reset (`deflate/blocking.rs` 185): even with no context
  takeover on both ends `receive` may return errors from then on (`DamageIsContained`).
* `send` resets its compressor after it has written, `send_owned_frame` before: only what
  the latter could not write stays without effect (`OthersArrive`).
* `send_owned_frame` of up to three bytes may compress to fewer than four and panics in a
  debug build (`FailsOnlyOnSmall`).
* A frame whose length wraps in a `usize` makes `receive` panic, one larger than memory too
  (`PanicsOnlyOnHugeFrames`); a `max_frame_payload_size` low enough excludes both, but it
  is 0 (off) by default.
* Both windows are cut to the smaller one on both sides (`deflate/blocking.rs` 330),
  and the peer is not told; a peer that is not this library keeps the larger one.
* A window of 8 bits passes negotiation and panics in the constructor (`Opens`,
  `FailsOnlyOnSmall`).
* `send_owned_frame` with deflate builds a new header, and its `set_fin` reads the new
  header's own bit (`deflate/blocking.rs` 45): the caller's `fin` is lost. The model sends
  whole messages through it.
* With `auto_fragment_size` set the deflate writer, too, repeats opcode and `rsv1` on every
  chunk (fault `"fragmented"`).
* `gen_low_level_config` (`deflate/mod.rs` 101) takes `max_frame_payload_size` from the
  default, not from the caller.
* `BytesCodec::close` sends a Binary message without its code (`message.rs` 94);
  `MessagesKept` names the case and `CloseEnds` is about `StringCodec` only.
* `set_mask(true)` alone makes the next call that reads the key panic, and the call its
  note asks for is one of these (`PanicsOnlyAfterSetMask`).
* Nothing stops an application from sending after its Close, and the echo loop does.

## Proofs

TLC covers the instances above; the theorems hold for every value of the constants that
satisfies the named assumptions. Every invariant, action property and refinement that a
passing run checks is also a theorem, except three properties of `Deflate` and the four
liveness properties (below). The assumptions only give the constants their types, except
five. `WidthAssumption` of `FrameBuffer` says that a payload length is a `usize`, that
memory is smaller than what a `usize` can count, and that it has room for the initial
buffer and a poll behind a partial header. `CallsAssumption` of `Connection` says that
`FrameCodec` has no `close`, and `LoopsAssumption` that a side which runs an echo or
autobahn loop sends answers only. `PackingsAssumption` of `Deflate` bounds what zlib makes
of a chunk: it codes a byte in nine bits at most and ends the block and the flush in 13,
or it stores the bytes with a header of five; without such a bound the sizes at which
`send` loses bytes (`FirstCutIsSmall`) could not be told. `LongBytesAssumption` of
`HeaderCodec` says that the long form of a length is longer than the short one.

Where a proof needs induction, `SequenceLemmas` states it for sets (`SetInduction`: a
subset of the numbers that has 0 and with each number the next has them all), which needs
no operator parameter. `LeastElement` and `Iterated` (a function defined by
`f[n + 1] = step[f[n]]` exists) follow from it, and with them what the recursive functions
of the modules compute.

`FrameBufferProofs`: `TypeCorrect`, `IndicesSafe`, `PanicsOnlyOnHugeFramesAlways`,
`BytesInOrder`, `BytesContiguous`, `LentRangeIntact`, `MemoryBounded` and `Refinement`
(`Spec => ImplementsQueue`). None of the properties is inductive by itself: that the range
lent last is intact needs the byte order of the whole window behind `consume_idx`, and
that growth is bounded needs to know that a poll only happens with less than a header
unread. The inductive invariant is the conjunction of types, indices, order, contiguity,
the lent range and the memory bound; a lemma about `prepare` (it keeps the unread bytes,
makes room and moves no byte across them) carries every step, so that each action is a
case of `Prepare` followed by `Fill`. That only huge frames panic needs two bounds more:
`buf` never exceeds `Capacity` (`CapacityBound`), and a sum that has wrapped was at least
`Width`, which is more than `Capacity`.

`FrameReaderProofs`: `TypeCorrect`, `RefusalFinal`, `WholeTextsAreUtf8` (`WholeTextValid`)
and `Refinement` (`Spec => ImplementsMessages`). The refinement is a case per action; the
`Assembly` mapping makes the flag `poisoned` the difference between an open and a lost
message, and the invariant it needs is that a closed assembly is never poisoned.

`FrameWriterProofs`: `WriterTypes` (`TypeOK`), `FramesGoOutWhole` (`FramesOnWire`) and
`PanicsOnlyInHeaders`. The types say among other things that the reused buffer never grows
beyond one message and its headers; they need that the chunks of a message and the room
for their headers fit each other (`ChunksFit`, `HeadersWritten`, `SlicesAreCells`). The
invariant (`Orderly`) is that the wire and what is left of the call concatenate to what
was asked for, and that the wire a panic leaves behind ends inside a header (`Torn`). The
lemma that carries it is that the reused buffer, copied over from its start and cut to the
message's length, is the message (`SourceIsPayload`).

`HeaderCodecProofs`: `HeaderTypes`, `HeaderFaithfulAlways`, `PayloadMatchesAlways`,
`PanicsOnlyAfterSetMaskAlways`, `CtorIsNewAlways` and `ParsesBackAlways`, for every width
of a length, every length, key and number of operations. The invariant says byte by byte
what a header is (`IsImage`: first byte, mark and code of the length, the digits of the
length, then the rest) and ties it to what it was told (`Agrees`): while `set_mask` leaves
a bit without a key the rest may be anything that `Framing` allows, and only otherwise is
it the key. `HeaderFaithful` is not inductive because of that state in between, nor is
`PayloadMatches` without it. The lemmas are about the digits (a number below the width is
the value of its digits, `Partial` sums), about the bits of the first two bytes, and about
each setter as a map from images to images.

`OpeningProofs`: `TypeOKAlways`, `NothingSwallowedAlways` and `AgreementAlways`, for every
capacity of the buffers and any number of frames. `NothingSwallowed` alone is not
inductive: the handshake stops at the end of its head only because the tokens ahead are
numbered on from those read (`Reads`), a side writes its head before anything else
(`Writes`), a stream without a buffer reads nothing ahead (`Bare`) and the concatenation
of read, received and underway is what was written (`Kept`). `Agreement` needs that every
response on its way says what the server has done (`Said`) and that a refusing server does
not move again (`Settled`).

`DeflateProofs`: `DeflateTypes` (`TypeOK`), `OneAgreementAlways`,
`OuterWithinInnerAlways`, `FirstCutIsSmallAlways`, `MessagesArriveAlways` and
`DamageIsContainedAlways`. `OneAgreement` rests on `AnswerKeeps`: the answer to any offer
reads back as what `factory` took from the offer, so that `Handshaken`, which ties `conf`
and `header` together through the phases, is inductive; that both ends work with one
window follows from how `Agreed` cuts both numbers to the smaller one, and the statement
about resets from each end's looking at the flag of its own role. `OuterWithinInner`
(`Tidy`) needs that every continuation with `rsv1`, among the chunks still to be written
or on the wire, has been recorded in `faults`.

`MessagesArrive` speaks of what was returned; what is inductive is `Flow`, under the same
condition: the chunks left of the call, the frame on the wire and the flags of both
readers are those of one call (`Course`), the two windows end at the same block
(`Aligned`), and a compressed frame is the whole of the newest block, which the
decompressor waits for (`Intact`). `DamageIsContained` allows blocks that were cut short,
so `Contained` gives up the order of blocks and keeps that both windows begin at the block
to come (`Contextless`), so that no block refers back to another, that what is on the wire
is the beginning of the newest block, and that each result so far is right, spoiled, or an
error behind one that a spoiled message got (`Apart`). A decompressor that failed is not
reset, so `Contextless` allows it once such an error has been returned (`Broken`).
`FirstCut` is an invariant about the capacity of the output while nothing was cut yet; the
arithmetic of the compress loop (`IntoRoom`) is where `PackingsAssumption` enters.

`ConnectionProofs`: `TypeOKAlways`, `MessagesKeptAlways` and `RoundTripAlways`, for all
scripts, codecs, loops and windows. `MessagesKept` speaks of results only; what is
inductive is that the parts in the buffer, in the socket and in the call in progress are
the parts of the messages not received yet, in order, each frame whole (`Pending`, stated
with a numbering of the parts, `Chain`), that each result is what the codec makes of the
message of its number (`Meant`), and that only a Close, or what `BytesCodec` makes of one,
has a code (`ProperAsked`, `ProperScript`). `ReadAsMeant` is the lemma about the codecs
themselves: what any codec reads in a frame any codec wrote. The locks, short writes,
resets and failed sends need no more than that they keep the stream's parts in order.
`RoundTrip` needs besides that an echo loop has sent what it received, one by one, and all
of it unless the loop has ended (`Echoed`); `ReadTwice` then says what is left of a
message after two trips through any codecs.

Only model-checked: `OneFlagIsContained`, `OthersArrive` and `FailsOnlyOnSmall` of
`Deflate`; the four liveness properties,
`HandshakeEnds`, `SendEnds`, `CloseAnswered` and `CloseEnds`, since liveness under
fairness and `ENABLED` are out of the prover's reach; and the runs that expect a
violation.

## Plan

What the project could still add, in this order:

1. A run of `Connection` over `Deflate`'s two directions at once, so that control frames
   and echoes share the windows; today each direction is checked by itself, which is
   sound because the two directions share no state.
2. Header syntax in `Opening`: the checks of `standard_handshake_req_check` and
   `standard_handshake_resp_check` one by one, and sub-protocols.
3. A bound on `fragmented_data`: the code has none (`mod.rs` 377), so there is nothing to
   check yet.
4. Proofs: steps towards the liveness properties, such as a measure that every step of a
   handshake or a send decreases.

## Not modelled

Socket, DNS, proxy and TLS set-up (`connector.rs`, most of `lib.rs` and `simple.rs`), the
web framework adapters, error formatting and the Python binding: straight-line I/O without
state that outlives a call. Of the handshake, header syntax, keys (SHA-1, base64) and
sub-protocols are abstracted to whether a request or response is accepted; of masking, the
bytes; of a poisoned lock, everything. zlib, simdutf8, rustls and http parsing are
external. The model of zlib assumes that a chunk is shorter than zlib's own buffers, so
that a block appears at the flush only.
