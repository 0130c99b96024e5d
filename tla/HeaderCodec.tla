----------------------------- MODULE HeaderCodec -----------------------------
(***************************************************************************)
(* Frame headers as bytes (frame.rs): the views HeaderView and Header, the *)
(* setters of Header, OwnedFrame with its payload, ctor_header over a      *)
(* buffer that is used again and again, and parse_frame_header.            *)
(*                                                                         *)
(* A header is a sequence of bytes.  The long form of the length takes     *)
(* LongBytes bytes, eight in the code, and is as wide as usize.  A payload *)
(* is a sequence of parts; of a part matters its length and the keys it is *)
(* XORed with.                                                             *)
(***************************************************************************)
EXTENDS Naturals, Sequences

CONSTANTS
    LongBytes,    \* bytes of the long form of the length
    Lens,         \* payload lengths that occur
    Keys,         \* mask keys, each four bytes
    Codes,        \* opcodes that occur
    MaxOps        \* bound: operations on one header

ASSUME LongBytesAssumption == LongBytes \in Nat /\ LongBytes > 2

\* 256 to the power of i.
Weight[i \in Nat] == IF i = 0 THEN 1 ELSE 256 * Weight[i - 1]

Width == Weight[LongBytes]
Byte == 0 .. 255
OpCode == 0 .. 15

ASSUME LensAssumption == Lens \subseteq 0 .. Width - 1
ASSUME KeysAssumption == Keys \subseteq [1 .. 4 -> Byte]
ASSUME CodesAssumption == Codes \subseteq OpCode
ASSUME MaxOpsAssumption == MaxOps \in Nat

VARIABLES
    user,       \* "frame": an OwnedFrame is worked on; "writer": ctor_header is called
    hdr,        \* the bytes of the Header, empty before there is one
    parts,      \* the payload
    want,       \* history: the fields the header was told to have
    raw,        \* history: "bit": set_mask was called and the length not set since;
                \* "payload": header and payload were told different things, by
                \* with_raw or by set_payload_len
    buf,        \* the writer's header_buf
    slice,      \* what ctor_header returned last
    panicked,   \* an index out of range
    ops         \* operations so far

vars == <<user, hdr, parts, want, raw, buf, slice, panicked, ops>>

NoKey == <<>>
Fields == [fin : BOOLEAN, rsv1 : BOOLEAN, rsv2 : BOOLEAN, rsv3 : BOOLEAN,
           opcode : OpCode, mask : Keys \cup {NoKey}, len : 0 .. Width - 1]

-----------------------------------------------------------------------------
(* Bytes. *)

get_bit(byte, weight) == (byte \div weight) % 2 = 1

\* Faulty variant: the bit is added, not set.
SetBitAdd(byte, weight, val) == IF val THEN byte + weight ELSE byte

set_bit(byte, weight, val) ==
    IF get_bit(byte, weight) = val THEN byte
    ELSE IF val THEN byte + weight ELSE byte - weight

\* Every value of the low four bits is an OpCode.
parse_opcode(byte) == byte % 16

\* The value of a sequence of digits; to the base 1 their sum.
Value(base, digits) ==
    LET upto[i \in 0 .. Len(digits)] == IF i = 0 THEN 0 ELSE base * upto[i - 1] + digits[i]
    IN upto[Len(digits)]

BigEndian(n, width) == [i \in 1 .. width |-> (n \div Weight[width - i]) % 256]
Number(bytes) == Value(256, bytes)

Zeros(n) == [i \in 1 .. n |-> 0]
Resized(s, n) == SubSeq(s \o Zeros(n), 1, n)

\* bytes written at position i of s.
At(s, i, bytes) ==
    [j \in DOMAIN s |-> IF j \in i .. i + Len(bytes) - 1 THEN bytes[j - i + 1] ELSE s[j]]

\* A length's first byte, without the mask bit, and the bytes that follow.
LenCode(n) == IF n <= 125 THEN n ELSE IF n <= 65535 THEN 126 ELSE 127
LenTail(n) == IF n <= 125 THEN <<>> ELSE BigEndian(n, IF n <= 65535 THEN 2 ELSE LongBytes)

header_len(masked, n) == 2 + Len(LenTail(n)) + IF masked THEN 4 ELSE 0

first_byte(f) ==
    f.opcode + (IF f.fin THEN 128 ELSE 0) + (IF f.rsv1 THEN 64 ELSE 0)
             + (IF f.rsv2 THEN 32 ELSE 0) + (IF f.rsv3 THEN 16 ELSE 0)

-----------------------------------------------------------------------------
(* impl_get!: the getters of HeaderView and Header. *)
masked(h) == get_bit(h[2], 128)
TailBytes(h) == CASE h[2] % 128 = 126 -> 2 [] h[2] % 128 = 127 -> LongBytes [] OTHER -> 0

payload_len(h) ==
    IF TailBytes(h) = 0 THEN h[2] % 128 ELSE Number(SubSeq(h, 3, 2 + TailBytes(h)))

\* masking_key panics on a header that ends before its key.
KeyFits(h) == masked(h) => Len(h) >= 6 + TailBytes(h)
masking_key(h) ==
    IF masked(h) /\ KeyFits(h) THEN SubSeq(h, 3 + TailBytes(h), 6 + TailBytes(h)) ELSE NoKey

View(h) ==
    [fin |-> get_bit(h[1], 128), rsv1 |-> get_bit(h[1], 64), rsv2 |-> get_bit(h[1], 32),
     rsv3 |-> get_bit(h[1], 16), opcode |-> parse_opcode(h[1]), mask |-> masking_key(h),
     len |-> payload_len(h)]

\* Faulty variant: the key is not counted.
ParseWithoutKey(h) ==
    [header |-> 2 + TailBytes(h), payload |-> payload_len(h),
     total |-> (2 + TailBytes(h) + payload_len(h)) % Width]

(* parse_frame_header: header_len + payload_len in usize, which wraps. *)
parse_frame_header(h) ==
    LET hl == 2 + TailBytes(h) + IF masked(h) THEN 4 ELSE 0
    IN [header |-> hl, payload |-> payload_len(h), total |-> (hl + payload_len(h)) % Width]

-----------------------------------------------------------------------------
\* Faulty variant: the key stays where it is.
SetPayloadLenInPlace(h, n) ==
    At(Resized(h, header_len(masked(h), n)), 2,
       <<LenCode(n) + IF masked(h) THEN 128 ELSE 0>> \o LenTail(n))

(* Header's setters.  set_payload_len reads the key, makes room and puts the key
   behind the new length. *)
SetPayloadLen(h, n) ==
    LET key == masking_key(h)
        lead == <<h[1], LenCode(n) + IF masked(h) THEN 128 ELSE 0>>
    IN lead \o LenTail(n) \o key

SetOpcode(h, code) == At(h, 1, <<(h[1] \div 16) * 16 + code>>)
SetMaskBit(h, val) == At(h, 2, <<set_bit(h[2], 128, val)>>)

\* Header::new: zeroed bytes, the mask bit, the length, and the key at the end.
NewHeader(f) ==
    LET len == header_len(f.mask # NoKey, f.len)
        h == SetPayloadLen(SetMaskBit(At(Zeros(len), 1, <<first_byte(f)>>), f.mask # NoKey), f.len)
    IN IF f.mask = NoKey THEN h ELSE At(h, len - 3, f.mask)

\* Faulty variant: a header without a key leaves the mask bit as it finds it.
CtorStale(b, f) ==
    LET len == header_len(f.mask # NoKey, f.len)
        coded == At(b, 3, LenTail(f.len))
        led == At(coded, 1, <<first_byte(f),
                              LenCode(f.len) + IF masked(b) \/ f.mask # NoKey THEN 128 ELSE 0>>)
    IN IF f.mask = NoKey THEN led ELSE At(led, len - 3, f.mask)

(* ctor_header: the same bytes, written over what the buffer holds. *)
Ctor(b, f) ==
    LET len == header_len(f.mask # NoKey, f.len)
        coded == At(At(b, 2, <<LenCode(f.len)>>), 3, LenTail(f.len))
        led == SetMaskBit(At(coded, 1, <<first_byte(f)>>), f.mask # NoKey)
    IN IF f.mask = NoKey THEN led ELSE At(led, len - 3, f.mask)

-----------------------------------------------------------------------------
(* OwnedFrame. *)
Toggled(keys, k) == (keys \ {k}) \cup ({k} \ keys)
apply_mask(p, key) == [i \in DOMAIN p |-> [p[i] EXCEPT !.keys = Toggled(p[i].keys, key)]]
PartsLen(p) == Value(1, [i \in DOMAIN p |-> p[i].len])

\* unmask: payload first, then the mask bit and the last four bytes go.
Unmasked(h, p) ==
    IF ~masked(h) THEN [hdr |-> h, parts |-> p]
    ELSE [hdr |-> SubSeq(SetMaskBit(h, FALSE), 1, Len(h) - 4),
          parts |-> apply_mask(p, masking_key(h))]

\* Faulty variant: an old mask is not taken off first.
MaskedTwice(h, p, key) ==
    [hdr |-> (IF masked(h) THEN SubSeq(h, 1, Len(h) - 4) ELSE SetMaskBit(h, TRUE)) \o key,
     parts |-> apply_mask(p, key)]

\* Faulty variant: the key is not appended.
MaskedBitOnly(h, p, key) ==
    LET u == Unmasked(h, p)
    IN [hdr |-> SetMaskBit(u.hdr, TRUE), parts |-> apply_mask(u.parts, key)]

\* mask: the old mask is taken off, the new key appended.
Masked(h, p, key) ==
    LET u == Unmasked(h, p)
    IN [hdr |-> SetMaskBit(u.hdr, TRUE) \o key, parts |-> apply_mask(u.parts, key)]

\* extend_from_slice: unmask, extend, adjust the length, mask with the old key.
Extended(h, p, n) ==
    LET u == Unmasked(h, p)
        more == Append(u.parts, [len |-> n, keys |-> {}])
        long == SetPayloadLen(u.hdr, PartsLen(more))
    IN IF masked(h) THEN Masked(long, more, masking_key(h))
       ELSE [hdr |-> long, parts |-> more]

-----------------------------------------------------------------------------
Init ==
    /\ user \in {"frame", "writer"}
    /\ hdr = <<>>
    /\ parts = <<>>
    /\ want = [fin |-> TRUE, rsv1 |-> FALSE, rsv2 |-> FALSE, rsv3 |-> FALSE, opcode |-> 1,
               mask |-> NoKey, len |-> 0]
    /\ raw = "none"
    /\ buf = Zeros(6 + LongBytes)
    /\ slice = <<>>
    /\ panicked = FALSE
    /\ ops = 0

Step(who) ==
    /\ user = who
    /\ ~panicked
    /\ ops < MaxOps
    /\ ops' = ops + 1
    /\ UNCHANGED user

\* An operation on a frame that exists.
Edit == Step("frame") /\ hdr # <<>> /\ UNCHANGED <<buf, slice>>
Keep == UNCHANGED panicked

\* The keys a payload is XORed with when its header shows mask.
KeysOf(mask) == IF mask = NoKey THEN {} ELSE {mask}

\* The fields of a new frame.
Told(code, mask, n) == [want EXCEPT !.opcode = code, !.mask = mask, !.len = n]

(* OwnedFrame::new: Header::new for the data, which is masked with its key. *)
New ==
    \E code \in Codes, mask \in Keys \cup {NoKey}, n \in Lens :
        /\ Step("frame") /\ hdr = <<>>
        /\ hdr' = NewHeader(Told(code, mask, n))
        /\ parts' = <<[len |-> n, keys |-> KeysOf(mask)]>>
        /\ want' = Told(code, mask, n)
        /\ UNCHANGED <<raw, buf, slice, panicked>>

(* OwnedFrame::with_raw: a header and a payload of any length, masked with any
   key or none, which nobody compares. *)
WithRaw ==
    \E code \in Codes, mask, key \in Keys \cup {NoKey}, n, size \in Lens :
        /\ Step("frame") /\ hdr = <<>>
        /\ hdr' = NewHeader(Told(code, mask, n))
        /\ parts' = <<[len |-> size, keys |-> KeysOf(key)]>>
        /\ want' = Told(code, mask, n)
        /\ raw' = IF key = mask /\ size = n THEN raw ELSE "payload"
        /\ UNCHANGED <<buf, slice, panicked>>

(* set_fin, set_rsv1 to set_rsv3. *)
SetFlag ==
    \E i \in 1 .. 4, val \in BOOLEAN :
        /\ Edit /\ Keep
        /\ hdr' = At(hdr, 1, <<set_bit(hdr[1], <<128, 64, 32, 16>>[i], val)>>)
        /\ want' = CASE i = 1 -> [want EXCEPT !.fin = val]
                     [] i = 2 -> [want EXCEPT !.rsv1 = val]
                     [] i = 3 -> [want EXCEPT !.rsv2 = val]
                     [] i = 4 -> [want EXCEPT !.rsv3 = val]
        /\ UNCHANGED <<parts, raw>>

ChangeOpcode ==
    \E code \in Codes :
        /\ Edit /\ Keep
        /\ hdr' = SetOpcode(hdr, code)
        /\ want' = [want EXCEPT !.opcode = code]
        /\ UNCHANGED <<parts, raw>>

(* set_mask alone: the bit changes and the key's bytes do not. *)
SetMask ==
    \E val \in BOOLEAN :
        /\ Edit /\ Keep
        /\ val # masked(hdr)
        /\ hdr' = SetMaskBit(hdr, val)
        /\ raw' = "bit"
        /\ UNCHANGED <<parts, want>>

\* What reads the key panics on a header that has the bit and no room for a key.
Guarded(h, result) ==
    IF KeyFits(h) THEN result /\ Keep ELSE panicked' = TRUE /\ UNCHANGED <<hdr, parts, want, raw>>

(* set_payload_len: "if change mask bit after setting payload you need to set
   payload again to adjust data frame". *)
ChangePayloadLen ==
    \E n \in Lens :
        /\ Edit
        /\ Guarded(hdr, /\ hdr' = SetPayloadLen(hdr, n)
                        /\ want' = [want EXCEPT !.len = n, !.mask = masking_key(hdr)]
                        /\ raw' = IF raw = "none" /\ n = PartsLen(parts) THEN raw ELSE "payload"
                        /\ UNCHANGED parts)

Unmask ==
    /\ Edit
    /\ Guarded(hdr, /\ hdr' = Unmasked(hdr, parts).hdr
                    /\ parts' = Unmasked(hdr, parts).parts
                    /\ want' = IF masked(hdr) THEN [want EXCEPT !.mask = NoKey] ELSE want
                    /\ UNCHANGED raw)

Mask ==
    \E key \in Keys :
        /\ Edit
        /\ Guarded(hdr, /\ hdr' = Masked(hdr, parts, key).hdr
                        /\ parts' = Masked(hdr, parts, key).parts
                        /\ want' = [want EXCEPT !.mask = key]
                        /\ UNCHANGED raw)

Extend ==
    \E n \in Lens :
        /\ Edit
        /\ PartsLen(parts) + n < Width
        /\ Guarded(hdr, /\ hdr' = Extended(hdr, parts, n).hdr
                        /\ parts' = Extended(hdr, parts, n).parts
                        /\ want' = [want EXCEPT !.len = PartsLen(parts) + n]
                        /\ UNCHANGED raw)

(* The writer sends a frame: ctor_header over its buffer. *)
CtorHeader ==
    \E code \in Codes, fin, rsv1 \in BOOLEAN, mask \in Keys \cup {NoKey}, n \in Lens :
        LET f == [want EXCEPT !.opcode = code, !.fin = fin, !.rsv1 = rsv1, !.mask = mask, !.len = n]
        IN /\ Step("writer")
           /\ want' = f
           /\ buf' = Ctor(buf, f)
           /\ slice' = SubSeq(Ctor(buf, f), 1, header_len(mask # NoKey, n))
           /\ UNCHANGED <<hdr, parts, raw, panicked>>

Next ==
    \/ New
    \/ WithRaw
    \/ SetFlag
    \/ ChangeOpcode
    \/ SetMask
    \/ ChangePayloadLen
    \/ Unmask
    \/ Mask
    \/ Extend
    \/ CtorHeader

Spec == Init /\ [][Next]_vars

-----------------------------------------------------------------------------
(* Properties. *)

TypeOK ==
    /\ user \in {"frame", "writer"}
    /\ hdr \in Seq(Byte)
    /\ parts \in Seq([len : Nat, keys : SUBSET Keys])
    /\ want \in Fields
    /\ raw \in {"none", "bit", "payload"}
    /\ buf \in [1 .. 6 + LongBytes -> Byte]
    /\ slice \in Seq(Byte)
    /\ panicked \in BOOLEAN
    /\ ops \in 0 .. MaxOps

(* Through any sequence of setters, masking and extending, the header says what
   it was last told: no setter disturbs another field, the key moves with the
   length, no byte is left over. *)
HeaderFaithful ==
    hdr # <<>> /\ raw # "bit" => View(hdr) = want /\ Len(hdr) = header_len(want.mask # NoKey, want.len)

(* Every byte of the payload, however it got there, is XORed exactly with the key
   the header shows, and the header counts all of them, unless the caller has
   told header and payload different things: with set_mask alone, with
   set_payload_len and a length that is not the payload's, or by handing with_raw
   a payload that is not masked and counted as its header says. *)
PayloadMatches ==
    hdr # <<>> /\ raw = "none" =>
        /\ \A i \in DOMAIN parts : parts[i].keys = KeysOf(want.mask)
        /\ want.len = PartsLen(parts)

(* Only set_mask(true) without a key to go with it makes a later operation
   panic, and set_payload_len is among these: the note on set_mask asks for the
   very call that panics. *)
PanicsOnlyAfterSetMask == panicked => raw = "bit"

(* test_header for every history of the buffer: ctor_header leaves no trace of
   the headers written before. *)
CtorIsNew == slice # <<>> => slice = NewHeader(want)

(* The reader finds in the bytes what the writer put there, and finds the end of
   the frame unless header and payload do not fit into a usize. *)
ParsesBack ==
    slice # <<>> =>
        LET parsed == parse_frame_header(slice)
        IN /\ View(slice) = want
           /\ parsed.header = Len(slice)
           /\ parsed.payload = want.len
           /\ parsed.total = Len(slice) + want.len \/ Len(slice) + want.len >= Width

=============================================================================
