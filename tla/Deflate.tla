------------------------------- MODULE Deflate -------------------------------
(***************************************************************************)
(* One direction of a connection with permessage-deflate: the handshake    *)
(* that agrees on it (deflate_handshake_handler, factory, check_fn), the   *)
(* writer (DeflateWriteState) of one end and the reader (DeflateReadState) *)
(* of the other.                                                           *)
(*                                                                         *)
(* The wire holds one frame.  The reader tells the writer nothing, so what *)
(* it makes of a frame does not depend on how far it lags behind.  Frames  *)
(* half written are FrameWriter's subject: a frame is written or not.      *)
(*                                                                         *)
(* Compressed data are the cells of ZLib.  A block may refer back over the *)
(* blocks before it, as far as the window reaches.  What is received is a  *)
(* sequence of pieces: piece <<m, p>> is part p of call m, and Junk stands *)
(* for any other bytes.                                                    *)
(***************************************************************************)
EXTENDS DeflateNegotiation, ZLib

CONSTANTS
    Offers,       \* extension headers a client may send
    Configs,      \* the FrameConfigs of writer and reader
    Opcodes,      \* opcodes the caller sends
    Sizes,        \* payload sizes the caller sends, for each opcode
    Packings,     \* pairs <<n, z>>: n bytes may be packed into a block of z bytes
    Reach,        \* how many earlier blocks a window of so many bits spans
    MaxCalls,     \* bound: calls made on the writer
    MaxFaulty     \* bound: calls made if one of them was faulty

ASSUME OffersAssumption == Offers \subseteq Seq(Extension)

ASSUME ConfigsAssumption ==
    Configs \subseteq [auto_fragment_size : Nat, merge_frame : BOOLEAN,
                       validate_utf8 : {"Off", "FastFail", "On"}]

ASSUME OpcodesAssumption == Opcodes \subseteq {"Text", "Binary", "Ping"}

ASSUME SizesAssumption == Sizes \in [Opcodes -> SUBSET Nat]

\* zlib codes a byte in nine bits at most and ends a block and the flush in 13, or
\* it stores the bytes as they are.
ASSUME PackingsAssumption ==
    /\ Packings \subseteq (Nat \ {0}) \X (Nat \ {0})
    /\ \A p \in Packings :
           \/ 8 * p[2] <= 9 * p[1] + 20
           \/ p[1] > 20 /\ p[2] <= p[1] + 6

ASSUME ReachAssumption == Reach \in [WindowBit -> Nat]

ASSUME MaxCallsAssumption == MaxCalls \in Nat /\ MaxFaulty \in 0 .. MaxCalls

VARIABLES
    phase,      \* of the handshake: "offered", "answered", "open", "refused", "panicked"
    header,     \* the extension header last sent: the offer, then the answer
    conf,       \* the PMDConfig each end works with, NoPMD without the extension
    writer,     \* the end that sends in this direction
    config,     \* FrameConfig of both ends
    com,        \* the compressor: first block in its window, bytes not given out yet
    blocks,     \* history: the blocks the compressor made
    todo,       \* the chunks the call in progress still has to write
    wire,       \* the frame on its way
    low,        \* FrameReadState::fragmented of the inner reader
    up,         \* DeflateReadState::fragmented, fragmented_type, fragmented_data
    de,         \* the decompressor: status, first block in its window, next block
    sent,       \* history: what the reader should return
    got,        \* what receive returned
    faults,     \* history: what has happened that this reader does not make up for
    calls       \* calls made on the writer

handshake == <<phase, header, conf, writer, config>>
reader == <<low, up, de, got>>
vars == <<handshake, com, blocks, todo, wire, reader, sent, faults, calls>>

Roles == {"client", "server"}
Data == {"Text", "Binary"}
Codes == Data \cup {"Ping", "Continue"}

\* "cut": the writer left the end of a message in zlib.  "unsent": it compressed one
\* and could not write it; "unreset": nor has it reset the compressor after that.
\* "fragmented": send cut a message in frames that all have its opcode.  "packed": a
\* peer fragmented a compressed message, as RFC 7692 has it.  "foreign": a peer set
\* rsv1 where RFC 7692 has none; "continued": on a continuation.  "cutchar": a
\* fragment ends within a character, and FastFail checks fragments.
Faults == {"cut", "unsent", "unreset", "fragmented", "packed", "foreign", "continued", "cutchar"}

peer == IF writer = "client" THEN "server" ELSE "client"

Junk == <<0, 0>>
NoFrame == [none |-> TRUE]

\* A block: the call and part it packs, how far it refers back, its size, and
\* whether the writer gave out all of it.
BlockRec == [piece : Nat \X Nat, size : Nat, back : Nat, z : Nat, whole : BOOLEAN,
             via : {"send", "owned", "packed"}]
Chunk == [via : {"send", "owned", "plain", "packed"}, code : Codes, type : Codes, fin : BOOLEAN,
          rsv1 : BOOLEAN, piece : Nat \X Nat, size : Nat, valid : BOOLEAN]
Result == [code : Codes \cup {"err"}, fin : BOOLEAN, body : Seq(Nat \X Nat)]
Frame == [code : Codes, fin : BOOLEAN, rsv1 : BOOLEAN, cells : BOOLEAN, long : BOOLEAN,
          data : Seq(Nat \X Nat), valid : BOOLEAN, due : Seq(Result)]
Error == [code |-> "err", fin |-> TRUE, body |-> <<>>]

TypeOK ==
    /\ phase \in {"offered", "answered", "open", "refused", "panicked"}
    /\ header \in Seq(Extension)
    /\ conf \in [Roles -> PMDConfig \cup {NoPMD}]
    /\ writer \in Roles
    /\ config \in Configs
    /\ com \in [since : Nat, pending : Seq(Nat \X Nat)]
    /\ blocks \in Seq(BlockRec)
    /\ todo \in Seq(Chunk)
    /\ wire \in Frame \cup {NoFrame}
    /\ low \in BOOLEAN
    /\ up \in [fragmented : BOOLEAN, type : Data, data : Seq(Nat \X Nat)]
    /\ de \in [status : {"sync", "lost", "bad"}, since : Nat, next : Nat]
    /\ sent \in Seq(Result)
    /\ got \in Seq(Result)
    /\ faults \subseteq Faults
    /\ calls \in 0 .. MaxCalls

Init ==
    /\ phase = "offered"
    /\ header \in Offers
    /\ conf = [r \in Roles |-> NoPMD]
    /\ writer \in Roles
    /\ config \in Configs
    /\ com = [since |-> 1, pending |-> <<>>]
    /\ blocks = <<>>
    /\ todo = <<>>
    /\ wire = NoFrame
    /\ low = FALSE
    /\ up = [fragmented |-> FALSE, type |-> "Binary", data |-> <<>>]
    /\ de = [status |-> "sync", since |-> 1, next |-> 1]
    /\ sent = <<>>
    /\ got = <<>>
    /\ faults = {}
    /\ calls = 0

-----------------------------------------------------------------------------
(* The handshake. *)

traffic == <<com, blocks, todo, wire, reader, sent, faults, calls>>

(* deflate_handshake_handler refuses an offer it cannot read. *)
ServerRefuses ==
    /\ phase = "offered"
    /\ ParseError(header)
    /\ phase' = "refused"
    /\ UNCHANGED <<header, conf, writer, config, traffic>>

(* The handler answers, then factory builds the codec, which may panic. *)
ServerAnswers ==
    /\ phase = "offered"
    /\ ~ParseError(header)
    /\ header' = Answer(header)
    /\ conf' = [conf EXCEPT !["server"] = Agreed(header)]
    /\ phase' = IF Opens(Agreed(header), "server") THEN "answered" ELSE "panicked"
    /\ UNCHANGED <<writer, config, traffic>>

(* check_fn builds the client's codec from the answer. *)
ClientChecks ==
    /\ phase = "answered"
    /\ conf' = [conf EXCEPT !["client"] = Agreed(header)]
    /\ phase' = IF ParseError(header) THEN "refused"
                ELSE IF Opens(Agreed(header), "client") THEN "open" ELSE "panicked"
    /\ UNCHANGED <<header, writer, config, traffic>>

-----------------------------------------------------------------------------
(* Calls on the writer: what they are going to write, chunk by chunk. *)

Call(chunks, kinds) ==
    /\ phase = "open"
    /\ todo = <<>>
    /\ calls < IF faults = {} THEN MaxCalls ELSE MaxFaulty
    /\ calls' = calls + 1
    /\ todo' = chunks
    /\ faults' = faults \cup kinds
    /\ UNCHANGED <<handshake, com, blocks, wire, reader, sent>>

Deflates(code) == conf[writer] # NoPMD /\ code \in Data

ChunkOf(via, code, n) ==
    [via |-> via, code |-> code, type |-> code, fin |-> TRUE, rsv1 |-> FALSE,
     piece |-> <<calls + 1, 1>>, size |-> n, valid |-> TRUE]

\* payload.chunks(chunk_size), one chunk if fragmenting is off.
ChunkSize(n) == IF config.auto_fragment_size > 0 THEN config.auto_fragment_size ELSE n
Parts(n) == (n + ChunkSize(n) - 1) \div ChunkSize(n)
PartLen(n, p) == Least(ChunkSize(n), n - (p - 1) * ChunkSize(n))

(* send: every chunk goes out under the message's own opcode; only the last has
   fin.  A character may be cut at the end of the first. *)
Send ==
    \E code \in Opcodes, v \in BOOLEAN : \E n \in Sizes[code] \ {0} :
        /\ Parts(n) = 1 => v
        /\ Call([p \in 1 .. Parts(n) |->
                    [ChunkOf("send", code, PartLen(n, p)) EXCEPT
                        !.fin = (p = Parts(n)), !.piece = <<calls + 1, p>>, !.valid = v]],
                IF Parts(n) > 1 THEN {"fragmented"} ELSE {})

(* send_owned_frame, which send uses for empty payloads. *)
SendOwnedFrame ==
    \E code \in Opcodes : \E n \in Sizes[code] : Call(<<ChunkOf("owned", code, n)>>, {})

(* A peer that is not this library fragments a message, perhaps with a ping in
   between.  A character may be cut at the end of the first fragment. *)
PeerCall(first, last, ping, kinds) ==
    LET between == [ChunkOf("plain", "Ping", 0) EXCEPT !.piece = <<calls + 1, 0>>]
    IN Call(<<[first EXCEPT !.fin = FALSE]>> \o (IF ping THEN <<between>> ELSE <<>>)
            \o <<[last EXCEPT !.code = "Continue", !.piece = <<calls + 1, 2>>]>>, kinds)

PeerFragments ==
    \E code \in Opcodes \cap Data, v \in BOOLEAN, ping \in BOOLEAN :
        LET chunk == [ChunkOf("plain", code, 0) EXCEPT !.valid = v]
        IN PeerCall(chunk, chunk, ping,
                    IF ~v /\ code = "Text" /\ config.validate_utf8 = "FastFail"
                    THEN {"cutchar"} ELSE {})

(* The same compressed: RFC 7692 has rsv1 on the first frame of a message only. *)
PeerFragmentsCompressed ==
    \E code \in Opcodes \cap Data : \E n \in Sizes[code] \ {0} :
        LET chunk == ChunkOf("packed", code, n)
        IN /\ Deflates(code)
           /\ PeerCall([chunk EXCEPT !.rsv1 = TRUE], chunk, FALSE, {"packed"})

(* A peer sets rsv1 on what is not compressed, or on a continuation. *)
PeerSetsRsv1 ==
    \E code \in Opcodes :
        LET chunk == ChunkOf("plain", code, 0)
            marked == [chunk EXCEPT !.rsv1 = TRUE]
        IN \/ Call(<<marked>>, {"foreign"})
           \/ code \in Data /\ PeerCall(chunk, marked, FALSE, {"foreign", "continued"})

-----------------------------------------------------------------------------
(* The steps of a call: one chunk each, compressed and written. *)

\* A control frame with more bytes than RFC 6455 allows.  No writer looks.
TooBig(c) == c.code = "Ping" /\ c.size > 125

\* What receive owes its caller when it has read the frame of this chunk.
Due(c) ==
    LET pieces == IF c.piece[2] = 0 THEN <<c.piece>>
                  ELSE [p \in 1 .. c.piece[2] |-> <<c.piece[1], p>>]
    IN IF TooBig(c) THEN <<Error>>
       ELSE IF ~config.merge_frame
       THEN <<[code |-> c.code, fin |-> c.fin, body |-> <<c.piece>>]>>
       ELSE IF c.fin THEN <<[code |-> c.type, fin |-> TRUE, body |-> pieces]>> ELSE <<>>

\* write_all of the header and of the payload.
Write(c, cells, data) ==
    /\ wire' = [code |-> c.code, fin |-> c.fin, rsv1 |-> c.rsv1 \/ (cells /\ c.via # "packed"),
                cells |-> cells, long |-> TooBig(c), data |-> data, valid |-> c.valid,
                due |-> Due(c)]
    /\ sent' = sent \o Due(c)
    /\ todo' = Tail(todo)
    /\ UNCHANGED <<handshake, reader, calls>>

Ready == phase = "open" /\ todo # <<>> /\ wire = NoFrame
Compresses(c) == c.via \in {"send", "owned"} /\ Deflates(c.code)

(* A chunk that is not compressed. *)
WritePlain ==
    /\ Ready
    /\ Head(todo).via # "packed" /\ ~Compresses(Head(todo))
    /\ Write(Head(todo), FALSE, <<Head(todo).piece>>)
    /\ UNCHANGED <<com, blocks, faults>>

\* Faulty variant: the reset keeps what zlib has not given out.
SettledKeeping(pending, b) ==
    [since |-> IF Resets(conf[writer], writer) THEN b + 1 ELSE com.since, pending |-> pending]

(* The compressor after block b, reset if this end works without context. *)
Settled(pending, b) ==
    IF Resets(conf[writer], writer) THEN [since |-> b + 1, pending |-> <<>>]
    ELSE [since |-> com.since, pending |-> pending]

\* Faulty variant: both reserve as much as the payload takes.
CapacityOfPayload(c) == c.size

\* send hands compress an empty vector, send_owned_frame one as large as the payload.
Capacity(c) == IF c.via = "owned" THEN c.size ELSE 0

\* The chunk is fed to the compressor as block b of z bytes.
Fed(c, b, back, z) ==
    /\ <<c.size, z>> \in Packings
    /\ back <= Reach[Window(conf[writer], writer)]
    /\ com.since + back <= b

Packed(c, r, back, z) ==
    Append(blocks, [piece |-> c.piece, size |-> c.size, back |-> back, z |-> z,
                    whole |-> r.pending = <<>>, via |-> c.via])

\* zlib still holds bytes of the block.
Cut(r) == IF r.pending = <<>> THEN {} ELSE {"cut"}

(* compress, drop the last four bytes, write, reset.  Of fewer than four bytes a
   release build drops none, and a debug build panics. *)
WriteCompressed ==
    LET c == Head(todo)
        b == Len(blocks) + 1
    IN /\ Ready
       /\ Compresses(c)
       /\ \E z \in {p[2] : p \in Packings}, back \in 0 .. Len(blocks) :
            LET r == Compress(b, z, c.size, Capacity(c), com.pending)
            IN /\ Fed(c, b, back, z)
               /\ r.ok
               /\ blocks' = Packed(c, r, back, z)
               /\ com' = Settled(r.pending, b)
               /\ faults' = faults \cup Cut(r)
               /\ IF Len(r.out) < TailLen
                  THEN \/ Write(c, TRUE, r.out)
                       \/ /\ phase' = "panicked"
                          /\ UNCHANGED <<header, conf, writer, config, todo, wire, reader, sent,
                                         calls>>
                  ELSE Write(c, TRUE, SubSeq(r.out, 1, Len(r.out) - TailLen))

(* compress fails for want of room: the call returns CompressFailed.  The
   compressor has given out what there was room for, and that is lost. *)
CompressFails ==
    LET c == Head(todo)
        r == Compress(Len(blocks) + 1, 1, c.size, Capacity(c), com.pending)
    IN /\ Ready
       /\ Compresses(c)
       /\ ~r.ok
       /\ com' = [com EXCEPT !.pending = r.pending]
       /\ todo' = <<>>
       /\ faults' = IF r.pending = com.pending THEN faults ELSE faults \cup {"cut"}
       /\ UNCHANGED <<handshake, blocks, wire, reader, sent, calls>>

(* The stream takes nothing of the frame: write_all fails, or the future of an
   asynchronous call is dropped while it waits.  The compressor has moved on;
   send has not come to its reset yet, send_owned_frame is behind it. *)
Unwritten(via) ==
    LET c == Head(todo)
        b == Len(blocks) + 1
    IN /\ Ready
       /\ c.via = via
       /\ Compresses(c)
       /\ \E z \in {p[2] : p \in Packings}, back \in 0 .. Len(blocks) :
            LET r == Compress(b, z, c.size, Capacity(c), com.pending)
            IN /\ Fed(c, b, back, z)
               /\ r.ok
               /\ via = "owned" => Len(r.out) >= TailLen
               /\ blocks' = Packed(c, r, back, z)
               /\ com' = IF via = "owned" THEN Settled(r.pending, b)
                         ELSE [com EXCEPT !.pending = r.pending]
       /\ todo' = <<>>
       /\ faults' = faults \cup (IF via = "owned" THEN {"unsent"} ELSE {"unsent", "unreset"})
       /\ UNCHANGED <<handshake, wire, reader, sent, calls>>

SendUnwritten == Unwritten("send")
OwnedUnwritten == Unwritten("owned")

(* The same of a frame that is not compressed: nothing but the frame is lost. *)
PlainUnwritten ==
    /\ Ready
    /\ Head(todo).via \in {"send", "owned"} /\ ~Compresses(Head(todo))
    /\ todo' = <<>>
    /\ UNCHANGED <<handshake, com, blocks, wire, reader, sent, faults, calls>>

(* The peer's compressed fragments: its block is cut after the first byte. *)
PeerWrites ==
    LET c == Head(todo)
        b == Len(blocks) + 1
    IN /\ Ready
       /\ c.via = "packed"
       /\ IF c.code = "Continue"
          THEN /\ Write(c, TRUE, From(Block(b - 1, blocks[b - 1].z), 1))
               /\ UNCHANGED <<com, blocks>>
          ELSE \E z \in {p[2] : p \in Packings}, back \in 0 .. Len(blocks) :
                 /\ Fed(c, b, back, z)
                 /\ blocks' = Packed(c, com, back, z)
                 /\ com' = Settled(com.pending, b)
                 /\ Write(c, TRUE, SubSeq(Block(b, z), 1, 1))
       /\ UNCHANGED faults

-----------------------------------------------------------------------------
(* receive: one turn of its loop takes one frame. *)

\* The inner reader's check_frame, which works with its own copy of fragmented.
LowError(f) ==
    CASE f.code = "Continue" -> ~low
      [] f.code \in Data     -> low
      [] OTHER               -> ~f.fin \/ f.long

\* Faulty variant: every last frame closes the message, control frames included.
LowAfterAny(f) == IF f.code \in Data THEN low \/ ~f.fin ELSE low /\ ~f.fin

LowAfter(f) ==
    CASE f.code = "Continue" -> low /\ ~f.fin
      [] f.code \in Data     -> low \/ ~f.fin
      [] OTHER               -> low

\* Faulty variant: the reset waits for the last frame of a message.
InflatedAtFin(d) ==
    IF Resets(conf[peer], peer) /\ wire.fin
    THEN [status |-> "sync", since |-> d.next, next |-> d.next]
    ELSE d

\* The decompressor after a frame it did not fail on, reset if this end receives
\* without context.
Inflated(d) ==
    IF Resets(conf[peer], peer) THEN [status |-> "sync", since |-> d.next, next |-> d.next]
    ELSE d

\* What the decompressor holds of the blocks before b, b included, once b is in.
Since(b) == IF b = de.next THEN de.since ELSE b

\* All that block b refers back to is in the window.
Known(b) ==
    /\ blocks[b].back <= Reach[Window(conf[peer], peer)]
    /\ Since(b) + blocks[b].back <= b

Whole(f, b) == f.cells /\ f.data = Block(b, blocks[b].z)

Bad == [ok |-> FALSE, data |-> <<>>, de |-> [de EXCEPT !.status = "bad"]]

\* The reader gets block b of a chunk of send without its end.
Begun(f, b) ==
    /\ f.cells /\ blocks[b].via = "send"
    /\ Len(f.data) \in 1 .. blocks[b].z - 1
    /\ f.data = Block(b, Len(f.data))

Astray(d, status) ==
    [ok |-> TRUE, data |-> <<d>>,
     de |-> Inflated([status |-> status, since |-> Len(blocks) + 1, next |-> Len(blocks) + 1])]

\* Bytes that are no block of this stream: an error for good, or anything.
Garbled(f, status) ==
    {Bad} \cup
    {Astray(d, status) : d \in {Junk} \cup
        {blocks[b].piece : b \in {c \in DOMAIN blocks :
            f.cells /\ \E i \in DOMAIN f.data : f.data[i][1] = c}}}

\* The chunks send cuts are so short that zlib codes them with its fixed tables.
\* Their last byte is zero, like the first of the four the reader appends: if no
\* more is missing the data are right.  The decompressor is left inside a block.
Curtailed(b, missing) ==
    {Astray(d, "lost") : d \in IF missing = 1 THEN {blocks[b].piece} ELSE {blocks[b].piece, Junk}}

(* de_compress of a frame and the four bytes the writer took off. *)
Inflate(f) ==
    LET whole == {b \in DOMAIN blocks : Whole(f, b)}
        begun == {b \in DOMAIN blocks : Begun(f, b) /\ Known(b)}
    IN CASE de.status = "bad"                       -> {Bad}
         [] de.status = "lost"                      -> Garbled(f, "lost")
         [] de.status = "sync" /\ whole # {}        ->
              UNION {IF Known(b)
                     THEN {[ok |-> TRUE, data |-> <<blocks[b].piece>>,
                            de |-> Inflated([status |-> "sync", since |-> Since(b),
                                             next |-> b + 1])]}
                     ELSE Garbled(f, "sync") : b \in whole}
         [] OTHER                                   ->
              IF begun = {} THEN Garbled(f, "lost")
              ELSE UNION {Curtailed(b, blocks[b].z - Len(f.data)) : b \in begun}

(* receive_one on a frame the inner reader accepted: what it may return and leave
   in the decompressor.  Without rsv1 a frame is taken as it is, the rest of a
   compressed message included. *)
ReceiveOne(f) ==
    IF f.rsv1 /\ (f.code = "Ping" \/ conf[peer] = NoPMD)
    THEN {[ok |-> FALSE, data |-> <<>>, de |-> de]}
    ELSE IF f.rsv1 THEN Inflate(f)
    ELSE {[ok |-> TRUE, data |-> IF f.cells THEN <<Junk>> ELSE f.data, de |-> de]}

Return(f, data) == got' = Append(got, [code |-> f.code, fin |-> f.fin, body |-> data])
Fail == got' = Append(got, Error)

Take ==
    /\ wire # NoFrame
    /\ wire' = NoFrame
    /\ low' = LowAfter(wire)
    /\ UNCHANGED <<handshake, com, blocks, todo, sent, faults, calls>>

\* What receive_one may return for the frame, and whether it returns an error.
Returned(ok) ==
    IF wire = NoFrame THEN {} ELSE {r \in ReceiveOne(wire) : ~LowError(wire) /\ r.ok = ok}

(* The inner reader refuses the frame. *)
LowRejects ==
    /\ Take
    /\ LowError(wire)
    /\ Fail
    /\ UNCHANGED <<up, de>>

(* receive_one fails: a compressed control frame, no extension, or bad data. *)
InflateFails ==
    /\ Take
    /\ \E r \in Returned(FALSE) : de' = r.de
    /\ Fail
    /\ UNCHANGED up

(* merge_frame: false. *)
PassFrame ==
    \E r \in Returned(TRUE) :
        /\ Take
        /\ de' = r.de
        /\ ~config.merge_frame
        /\ up' = [up EXCEPT !.data = r.data]
        /\ Return(wire, r.data)

PassControl ==
    \E r \in Returned(TRUE) :
        /\ Take
        /\ de' = r.de
        /\ config.merge_frame
        /\ wire.code = "Ping"
        /\ Return(wire, r.data)
        /\ UNCHANGED up

\* The payload is a text that is checked and is, or may be, no UTF-8.
MayBeInvalid(data) ==
    /\ wire.code = "Text"
    /\ config.validate_utf8 = "FastFail" \/ (wire.fin /\ config.validate_utf8 = "On")
    /\ data = <<Junk>> \/ ~wire.valid

\* Text that cannot be told from a valid one may pass.
MayBeValid(data) == MayBeInvalid(data) => data = <<Junk>> /\ wire.valid

(* The first frame of a message while another one is open, or no UTF-8. *)
MergeRejects ==
    \E r \in Returned(TRUE) :
        /\ Take
        /\ de' = r.de
        /\ config.merge_frame
        /\ \/ wire.code = "Continue" /\ ~up.fragmented /\ UNCHANGED up
           \/ wire.code \in Data /\ up.fragmented /\ UNCHANGED up
           \/ /\ wire.code \in Data /\ ~up.fragmented
              /\ MayBeInvalid(r.data)
              /\ up' = IF wire.fin THEN up
                       ELSE [up EXCEPT !.fragmented = TRUE, !.type = wire.code]
        /\ Fail

(* The first fragment; its data replace those of the message before. *)
MergeStart ==
    \E r \in Returned(TRUE) :
        /\ Take
        /\ de' = r.de
        /\ config.merge_frame
        /\ wire.code \in Data /\ ~wire.fin /\ ~up.fragmented
        /\ MayBeValid(r.data)
        /\ up' = [fragmented |-> TRUE, type |-> wire.code, data |-> r.data]
        /\ UNCHANGED got

MergeWhole ==
    \E r \in Returned(TRUE) :
        /\ Take
        /\ de' = r.de
        /\ config.merge_frame
        /\ wire.code \in Data /\ wire.fin /\ ~up.fragmented
        /\ MayBeValid(r.data)
        /\ up' = [up EXCEPT !.data = r.data]
        /\ Return(wire, r.data)

\* Faulty variant: a continuation leaves its own opcode behind.
MergeContinueTyped ==
    \E r \in Returned(TRUE) :
        /\ Take
        /\ de' = r.de
        /\ config.merge_frame
        /\ wire.code = "Continue" /\ up.fragmented
        /\ up' = [fragmented |-> ~wire.fin, type |-> wire.code, data |-> up.data \o r.data]
        /\ IF wire.fin THEN Return([wire EXCEPT !.code = up.type], up'.data)
           ELSE UNCHANGED got

(* A continuation; the last one hands out the message under its first opcode. *)
MergeContinue ==
    \E r \in Returned(TRUE) :
        /\ Take
        /\ de' = r.de
        /\ config.merge_frame
        /\ wire.code = "Continue" /\ up.fragmented
        /\ up' = [up EXCEPT !.data = up.data \o r.data, !.fragmented = ~wire.fin]
        /\ IF wire.fin THEN Return([wire EXCEPT !.code = up.type], up'.data)
           ELSE UNCHANGED got

-----------------------------------------------------------------------------
Next ==
    \/ ServerRefuses
    \/ ServerAnswers
    \/ ClientChecks
    \/ Send
    \/ SendOwnedFrame
    \/ PeerFragments
    \/ PeerFragmentsCompressed
    \/ PeerSetsRsv1
    \/ WritePlain
    \/ WriteCompressed
    \/ CompressFails
    \/ SendUnwritten
    \/ OwnedUnwritten
    \/ PlainUnwritten
    \/ PeerWrites
    \/ LowRejects
    \/ InflateFails
    \/ PassFrame
    \/ PassControl
    \/ MergeRejects
    \/ MergeStart
    \/ MergeWhole
    \/ MergeContinue

Spec == Init /\ [][Next]_vars

-----------------------------------------------------------------------------
(* Properties. *)

(* An open connection has one agreement: both ends took the same parameters out
   of offer and answer; whoever writes and whoever reads works with the same
   window, no wider than either number of the answer; and after the same messages
   both ends reset their streams exactly if the answer has both flags or none.
   With one flag alone one end resets and the other does not: OneFlagIsContained. *)
OneAgreement ==
    phase = "open" =>
        LET answer == LastConfig(header)
        IN /\ conf["server"] = conf["client"]
           /\ conf["client"] = NoPMD <=> answer = NoPMD
           /\ answer # NoPMD =>
                /\ Window(conf["server"], "server") = Window(conf["client"], "client")
                /\ \A r \in Roles :
                       /\ Window(conf[r], r) <= answer.server_max_window_bits
                       /\ Window(conf[r], r) <= answer.client_max_window_bits
                /\ Resets(conf["server"], "server") = Resets(conf["client"], "client")
                   <=> answer.server_no_context_takeover = answer.client_no_context_takeover

(* A panic needs a window of 8 bits, which zlib refuses, or send_owned_frame with
   less than four bytes: what compress gives out into a vector as small as the
   payload is then shorter than the four bytes to drop.  send never panics.  And
   compress fails on nothing but an empty payload, unless zlib still holds the end
   of a message whose output was too small. *)
FailsOnlyOnSmall ==
    [][/\ phase' = "panicked" /\ phase # "panicked" =>
           \/ \E r \in Roles : ~Opens(conf'[r], r)
           \/ todo # <<>> /\ Head(todo).via = "owned" /\ Head(todo).size < TailLen
       /\ CompressFails => com.pending # <<>> \/ Head(todo).size = 0]_vars

\* The reader drops its context only if the writer drops its own too.
KeepsUp ==
    NoPMD \in {conf[peer], conf[writer]}
    \/ (Resets(conf[peer], peer) => Resets(conf[writer], writer))

Owed == IF wire = NoFrame THEN <<>> ELSE wire.due

(* The reader returns what was sent, whole and in order, and an error for every
   control frame that is too big and for nothing else: the windows of both ends
   stay at the same block through every mixture of compressed, plain, fragmented
   and control frames.  Two conditions: the reader does not reset alone (KeepsUp),
   and none of the faults happened.  OneFlagIsContained, OthersArrive and
   DamageIsContained say how far it goes otherwise. *)
MessagesArrive == faults = {} /\ KeepsUp => sent = got \o Owed

(* The two copies of fragmented agree as far as they must: the outer reader is
   inside a message only if the inner one is.  The exception is a continuation
   with rsv1, which RFC 7692 forbids: if it cannot be inflated the inner reader
   has left the message and the outer one has not. *)
OuterWithinInner == up.fragmented => low \/ "continued" \in faults

Damaged(m) == \E b \in DOMAIN blocks : blocks[b].piece[1] = m /\ ~blocks[b].whole

\* What should be returned is a message that the writer cut short.
Spoiled(result) == result.body # <<>> /\ Damaged(result.body[1][1])

ResetBoth ==
    /\ NoPMD \notin {conf["server"], conf["client"]}
    /\ Resets(conf["server"], "server") /\ Resets(conf["client"], "client")

(* "no context takeover" on both ends contains the damage: with one frame for a
   message, a message the writer cut short spoils no other one.  Only if the
   reader returned an error for it may it return errors from then on, since
   receive_one leaves a decompressor that failed as it is; it never hands out
   anything wrong. *)
DamageIsContained ==
    ResetBoth /\ faults \subseteq {"cut"} =>
        \A i \in DOMAIN got :
            \/ got[i] = sent[i]
            \/ Spoiled(sent[i])
            \/ /\ got[i] = Error
               /\ \E j \in 1 .. i - 1 : got[j] = Error /\ Spoiled(sent[j])

RefersBack(result) ==
    /\ result.body # <<>>
    /\ \E b \in DOMAIN blocks : blocks[b].piece[1] = result.body[1][1] /\ blocks[b].back > 0

(* With one flag agreed and not the other, an end may drop a context its peer
   refers to.  That spoils the messages that refer back and no other ones, whoever
   writes, except that once the decompressor has failed on such a message only
   errors may come. *)
OneFlagIsContained ==
    faults = {} =>
        \A i \in DOMAIN got :
            \/ got[i] = sent[i]
            \/ RefersBack(sent[i])
            \/ /\ got[i] = Error
               /\ \E j \in 1 .. i - 1 : got[j] = Error /\ RefersBack(sent[j])

\* Nothing of the result is from a message that a peer compressed and fragmented.
Unpacked(result) ==
    /\ result # Error
    /\ \A i \in DOMAIN result.body :
           /\ result.body[i] # Junk
           /\ \A b \in DOMAIN blocks :
                  blocks[b].via = "packed" => blocks[b].piece[1] # result.body[i][1]

(* Two more kinds of damage stay where they are if there is no context takeover on
   both ends.  A compressed message in fragments, which RFC 7692 allows, is not put
   together: receive_one takes its continuations as they are.  A message that
   send_owned_frame compressed and could not write is lost, its context with it:
   the reset comes before the write.  (send resets afterwards, and its next message
   may refer back to one the reader never saw.)  Of the other messages none is
   changed, repeated or out of order, and none is missing unless receive has
   returned an error for fragments. *)
OthersArrive ==
    ResetBoth /\ faults \subseteq {"packed", "unsent"} =>
        LET returned == SelectSeq(got \o Owed, Unpacked)
            others == SelectSeq(sent, Unpacked)
        IN /\ \A j \in DOMAIN returned : \E l \in DOMAIN others :
                  /\ returned[j] = others[l]
                  /\ \A i \in 1 .. j - 1 : \E k \in 1 .. l - 1 : returned[i] = others[k]
           /\ \/ returned = others
              \/ "packed" \in faults /\ \E i \in DOMAIN got : got[i] = Error

(* The output of send is large enough for a chunk of one or two bytes and for
   every one of more than four: the first one that is cut has three or four. *)
FirstCutIsSmall ==
    \A b \in DOMAIN blocks :
        /\ blocks[b].via = "send" /\ ~blocks[b].whole
        /\ \A a \in 1 .. b - 1 : blocks[a].whole
        /\ "unsent" \notin faults
        => blocks[b].size \in {3, 4}

(* "send payload": what send and send_owned_frame took without an error arrives,
   whatever its size. *)
AnySizeArrives == faults \subseteq {"cut"} /\ KeepsUp => sent = got \o Owed

=============================================================================
