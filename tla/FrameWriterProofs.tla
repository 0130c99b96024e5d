-------------------------- MODULE FrameWriterProofs --------------------------
(***************************************************************************)
(* What send and send_owned_frame put on the wire, for every configuration *)
(* and payload size, every number of calls and every pattern of short and  *)
(* failing writes.                                                         *)
(***************************************************************************)
EXTENDS FrameWriter, SequenceLemmas

(* The end of a payload is the end of its frame. *)
LEMMA EndOfFrame ==
    ASSUME NEW h \in Seq(Cells), NEW p \in Seq(Cells), NEW n \in 0 .. Len(h \o p),
           Len(h \o p) - n <= Len(p)
    PROVE  SubSeq(p, Len(p) - (Len(h \o p) - n) + 1, Len(p)) = SubSeq(h \o p, n + 1, Len(h \o p))
<1> DEFINE s == h \o p
           from == Len(p) - (Len(s) - n) + 1
           a == SubSeq(p, from, Len(p))
           b == SubSeq(s, n + 1, Len(s))
<1>1. /\ s \in Seq(Cells) /\ Len(s) = Len(h) + Len(p) /\ Len(h) \in Nat /\ Len(p) \in Nat
      /\ \A i \in 1 .. Len(s) : s[i] = IF i <= Len(h) THEN h[i] ELSE p[i - Len(h)]
  BY ConcatProperties, LenProperties
<1>2. from \in 1 .. Len(p) + 1 /\ from = n + 1 - Len(h)
  BY <1>1
<1>3. /\ a \in Seq(Cells) /\ Len(a) = Len(p) - from + 1
      /\ \A i \in 1 .. Len(p) - from + 1 : a[i] = p[from + i - 1]
  <2>1. \A i \in from .. Len(p) : p[i] \in Cells
    BY <1>1, <1>2, ElementOfSeq
  <2>2. from \in Int /\ Len(p) \in Int /\ (from <= Len(p) \/ Len(p) - from + 1 = 0)
    BY <1>1, <1>2
  <2> HIDE DEF from
  <2> QED BY <2>1, <2>2, SubSeqProperties
<1>4. /\ b \in Seq(Cells) /\ Len(b) = Len(s) - n
      /\ \A i \in 1 .. Len(s) - n : b[i] = s[n + 1 + i - 1]
  <2>1. \A i \in n + 1 .. Len(s) : s[i] \in Cells
    BY <1>1, ElementOfSeq
  <2> HIDE DEF s
  <2> QED BY <1>1, <2>1, SubSeqProperties
<1> HIDE DEF s, a, b, from
<1>5. Len(a) = Len(b) /\ \A i \in 1 .. Len(a) : a[i] = b[i]
  BY <1>1, <1>2, <1>3, <1>4
<1>6. a = b
  BY <1>3, <1>4, <1>5, SeqEqual
<1> QED BY <1>6 DEF a, b, s, from

LEMMA PrefixOfConcat ==
    ASSUME NEW s \in Seq(Cells), NEW t \in Seq(Cells)
    PROVE  IsPrefix(s, s \o t)
<1> DEFINE u == s \o t
           c == SubSeq(u, 1, Len(s))
<1>1. /\ u \in Seq(Cells) /\ Len(u) = Len(s) + Len(t) /\ Len(s) \in Nat /\ Len(t) \in Nat
      /\ \A i \in 1 .. Len(s) + Len(t) : u[i] = IF i <= Len(s) THEN s[i] ELSE t[i - Len(s)]
  BY ConcatProperties, LenProperties
<1> HIDE DEF u
<1>2. \A i \in 1 .. Len(s) : u[i] \in Cells /\ u[i] = s[i]
  BY <1>1, ElementOfSeq
<1>3. c \in Seq(Cells) /\ Len(c) = Len(s) /\ \A i \in 1 .. Len(s) : c[i] = u[1 + i - 1]
  BY <1>1, <1>2, SubSeqProperties
<1>4. c = s
  BY <1>1, <1>2, <1>3, SeqEqual
<1>5. SubSeq(s, 1, Len(s)) = s
  BY SubSeqFull
<1> QED BY <1>1, <1>4, <1>5 DEF IsPrefix, u

-----------------------------------------------------------------------------
(* Headers and payloads. *)

LEMMA HeaderCells ==
    ASSUME NEW code \in {"Text", "Continue"}, NEW fin \in BOOLEAN, NEW len \in Nat
    PROVE  /\ Header(code, fin, len) \in Seq(Cells)
           /\ \A i \in 1 .. Len(Header(code, fin, len)) : Header(code, fin, len)[i].kind = "head"
           /\ Header(code, fin, len) # <<>>
<1> DEFINE n == header_len(config.mask, len)
           h == [k \in 1 .. n |-> HeadByte(code, fin, len, k)]
<1>1. n \in Nat /\ n > 0
  BY DEF header_len
<1> HIDE DEF n
<1>2. \A k \in 1 .. n : /\ HeadByte(code, fin, len, k) \in Cells
                        /\ HeadByte(code, fin, len, k).kind = "head"
  BY <1>1 DEF HeadByte, Cells
<1>3. h \in Seq(Cells) /\ Len(h) = n
  BY <1>1, <1>2
<1>4. \A i \in 1 .. Len(h) : h[i].kind = "head"
  BY <1>2, <1>3
<1> QED BY <1>1, <1>3, <1>4 DEF Header, n

LEMMA PayloadCells ==
    ASSUME NEW m \in Nat, NEW len \in Nat
    PROVE  Payload(m, len) \in Seq(Cells) /\ Len(Payload(m, len)) = len
<1>1. \A k \in 1 .. len : Byte(m, k) \in Cells
  BY DEF Byte, Cells
<1> QED BY <1>1 DEF Payload

\* However much an earlier call left in buf, the slice that goes out is the payload.
LEMMA SourceIsPayload ==
    ASSUME NEW len \in Nat, calls \in Nat, buf \in Seq(Cells)
    PROVE  Source(len) = Payload(calls + 1, len) /\ Copied(len) \in Seq(Cells)
<1> DEFINE p == Payload(calls + 1, len)
           old == SubSeq(buf, len + 1, Len(buf))
           all == p \o old
<1>1. p \in Seq(Cells) /\ Len(p) = len
  BY PayloadCells
<1>2. old \in Seq(Cells)
  <2>1. Len(buf) \in Nat /\ \A i \in len + 1 .. Len(buf) : buf[i] \in Cells
    BY LenProperties, ElementOfSeq
  <2> QED BY <2>1, SubSeqProperties
<1> HIDE DEF p, old
<1>3. /\ all \in Seq(Cells) /\ Len(all) = Len(p) + Len(old) /\ Len(old) \in Nat
      /\ \A i \in 1 .. Len(p) : all[i] = p[i]
  <2>1. /\ all \in Seq(Cells) /\ Len(all) = Len(p) + Len(old)
        /\ \A i \in 1 .. Len(p) + Len(old) :
               all[i] = IF i <= Len(p) THEN p[i] ELSE old[i - Len(p)]
    BY <1>1, <1>2, ConcatProperties
  <2>2. Len(old) \in Nat /\ Len(p) \in Nat
    BY <1>1, <1>2, LenProperties
  <2> HIDE DEF all
  <2> QED BY <2>1, <2>2
<1> HIDE DEF all
<1>4. /\ SubSeq(all, 1, len) \in Seq(Cells) /\ Len(SubSeq(all, 1, len)) = len
      /\ \A i \in 1 .. len : SubSeq(all, 1, len)[i] = all[i]
  <2>1. \A i \in 1 .. len : all[i] \in Cells
    BY <1>1, <1>3, ElementOfSeq
  <2> QED BY <2>1, SubSeqProperties
<1>5. SubSeq(all, 1, len) = p
  BY <1>1, <1>3, <1>4, SeqEqual
<1> QED BY <1>3, <1>5 DEF Source, Copied, p, old, all

-----------------------------------------------------------------------------
(* As long as no write failed and nothing was split, the wire and what is left of
   the call make up what was asked for; a panic left the wire inside a header. *)
Torn ==
    /\ IsPrefix(wire, asked)
    /\ Len(wire) < Len(asked)
    /\ asked[Len(wire) + 1].kind = "head"

Sequences == buf \in Seq(Cells) /\ wire \in Seq(Cells) /\ rest \in Seq(Cells) /\ asked \in Seq(Cells)

Orderly ==
    /\ Sequences
    /\ pc = "idle" => rest = <<>>
    /\ IF pc = "panicked" THEN Torn ELSE wire \o rest = asked

Invariant ==
    /\ calls \in Nat
    /\ ~failed /\ ~split => Orderly

LEMMA InitInvariant == Init => Invariant
<1> SUFFICES ASSUME Init PROVE Invariant
  OBVIOUS
<1>1. <<>> \in Seq(Cells) /\ <<>> \o <<>> = <<>>
  BY EmptySeq, ConcatEmptySeq
<1> QED BY <1>1 DEF Init, Invariant, Orderly, Sequences

\* A call starts with wire and asked the same.
LEMMA IdleIsEven ==
    ASSUME Orderly, pc = "idle"
    PROVE  wire = asked /\ rest = <<>>
BY ConcatEmptySeq DEF Orderly, Sequences

(* The first write takes any part of the frame. *)
LEMMA TwoWritesOrderly ==
    ASSUME Orderly, pc = "idle", NEW h \in Seq(Cells), NEW p \in Seq(Cells),
           NEW writing \in {"writing", "sending"},
           \A i \in 1 .. Len(h) : h[i].kind = "head",
           asked' = asked \o (h \o p), buf' \in Seq(Cells),
           TwoWrites(h, p, writing)
    PROVE  Orderly'
<1> DEFINE s == h \o p
<1>0. wire = asked /\ rest = <<>> /\ wire \in Seq(Cells) /\ asked \in Seq(Cells)
  BY IdleIsEven DEF Orderly, Sequences
<1>1. /\ s \in Seq(Cells) /\ Len(s) = Len(h) + Len(p) /\ Len(h) \in Nat /\ Len(p) \in Nat
      /\ Len(asked) \in Nat
      /\ \A i \in 1 .. Len(s) : s[i] = IF i <= Len(h) THEN h[i] ELSE p[i - Len(h)]
  BY <1>0, ConcatProperties, LenProperties
<1>2. PICK n \in 0 .. Len(s) :
        /\ wire' = wire \o SubSeq(s, 1, n)
        /\ IF Len(s) - n <= Len(p)
           THEN Owes(SubSeq(p, Len(p) - (Len(s) - n) + 1, Len(p)), writing)
           ELSE pc' = "panicked" /\ UNCHANGED rest
  BY DEF TwoWrites
<1> DEFINE a == SubSeq(s, 1, n)
           b == SubSeq(s, n + 1, Len(s))
<1>3. a \in Seq(Cells) /\ Len(a) = n /\ b \in Seq(Cells) /\ a \o b = s
  BY <1>1, CutJoins
<1>4. wire' \in Seq(Cells) /\ asked' \in Seq(Cells)
  BY <1>0, <1>1, <1>2, <1>3, ConcatProperties
<1>5. asked' = wire' \o b
  <2>1. asked' = asked \o (a \o b) /\ wire' = asked \o a
    BY <1>0, <1>2, <1>3
  <2> HIDE DEF a, b
  <2>2. a \in Seq(Cells) /\ b \in Seq(Cells) /\ asked \in Seq(Cells) /\ s = a \o b
    BY <1>0, <1>3
  <2> HIDE DEF s
  <2>3. wire' = Cat(asked, a) /\ s = Cat(a, b) /\ asked' = Cat(asked, s)
    BY <2>1, <2>2 DEF Cat
  <2>4. asked' = Cat(wire', b)
    BY <2>2, <2>3, CatAssoc
  <2> QED BY <2>4 DEF Cat, b
<1>6. CASE Len(s) - n <= Len(p)
  <2>1. SubSeq(p, Len(p) - (Len(s) - n) + 1, Len(p)) = b
    BY <1>6, EndOfFrame
  <2>2. rest' = b /\ (pc' = "idle" => b = <<>>) /\ pc' # "panicked"
    BY <1>2, <1>6, <2>1 DEF Owes
  <2> QED BY <1>3, <1>4, <1>5, <2>2 DEF Orderly, Sequences
<1>7. CASE ~(Len(s) - n <= Len(p))
  <2>1. pc' = "panicked" /\ rest' = <<>> /\ n < Len(h)
    BY <1>0, <1>1, <1>2, <1>7
  <2> HIDE DEF s
  <2>2. Len(wire') = Len(wire) + n /\ Len(asked') = Len(wire) + Len(s)
    BY <1>0, <1>1, <1>2, <1>3, ConcatProperties
  <2>3. asked'[Len(wire') + 1] = s[n + 1]
    <3>1. Len(wire') + 1 \in 1 .. Len(asked) + Len(s) /\ Len(wire') + 1 - Len(asked) = n + 1
      BY <1>0, <1>1, <2>1, <2>2
    <3>2. asked'[Len(wire') + 1] = IF Len(wire') + 1 <= Len(asked) THEN asked[Len(wire') + 1]
                                   ELSE s[Len(wire') + 1 - Len(asked)]
      BY <1>0, <1>1, <3>1, ConcatProperties DEF s
    <3> QED BY <1>0, <1>1, <2>2, <3>1, <3>2
  <2>4. s[n + 1].kind = "head"
    <3>1. n + 1 \in 1 .. Len(s) /\ n + 1 \in 1 .. Len(h) /\ n + 1 <= Len(h)
      BY <1>1, <2>1
    <3>2. s[n + 1] = h[n + 1]
      BY <1>1, <3>1
    <3> QED BY <3>1, <3>2
  <2>5. IsPrefix(wire', asked')
    BY <1>3, <1>4, <1>5, PrefixOfConcat
  <2>6. Len(wire') < Len(asked')
    BY <1>0, <1>1, <2>1, <2>2
  <2>7. Torn'
    BY <2>3, <2>4, <2>5, <2>6 DEF Torn
  <2>8. rest' \in Seq(Cells)
    BY <2>1, EmptySeq
  <2> QED BY <1>4, <2>1, <2>7, <2>8 DEF Orderly, Sequences
<1> QED BY <1>6, <1>7

LEMMA SendOrderly ==
    ASSUME Orderly, calls \in Nat, Send
    PROVE  Orderly'
<1>1. PICK len \in Sizes \ {0} :
        /\ Begin(Whole(calls + 1, len))
        /\ TwoWrites(Header("Text", TRUE, len), Source(len), "sending")
        /\ buf' = LET b == IF config.mask THEN Copied(len) ELSE buf
                  IN IF pc' = "idle" THEN Renewed(b) ELSE b
  BY DEF Send
<1>2. len \in Nat /\ buf \in Seq(Cells)
  BY SizesAssumption DEF Orderly, Sequences
<1>3. /\ Source(len) = Payload(calls + 1, len) /\ Copied(len) \in Seq(Cells)
      /\ Payload(calls + 1, len) \in Seq(Cells)
  BY <1>2, SourceIsPayload, PayloadCells
<1>4. buf' \in Seq(Cells)
  BY <1>1, <1>2, <1>3, EmptySeq DEF Renewed
<1>5. asked' = asked \o (Header("Text", TRUE, len) \o Payload(calls + 1, len)) /\ pc = "idle"
  BY <1>1 DEF Begin, Whole
<1> QED BY <1>1, <1>2, <1>3, <1>4, <1>5, HeaderCells, TwoWritesOrderly

LEMMA SendOwnedFrameOrderly ==
    ASSUME Orderly, calls \in Nat, SendOwnedFrame
    PROVE  Orderly'
<1>1. PICK len \in Sizes :
        /\ Begin(Whole(calls + 1, len))
        /\ TwoWrites(Header("Text", TRUE, len), Payload(calls + 1, len), "writing")
        /\ buf' = buf
  BY DEF SendOwnedFrame
<1>2. len \in Nat /\ buf' \in Seq(Cells)
  BY <1>1, SizesAssumption DEF Orderly, Sequences
<1>3. Payload(calls + 1, len) \in Seq(Cells)
  BY <1>2, PayloadCells
<1>4. asked' = asked \o (Header("Text", TRUE, len) \o Payload(calls + 1, len)) /\ pc = "idle"
  BY <1>1 DEF Begin, Whole
<1> QED BY <1>1, <1>2, <1>3, <1>4, HeaderCells, TwoWritesOrderly

(* Calls that are one write_all. *)
LEMMA OwesOrderly ==
    ASSUME Orderly, pc = "idle", NEW cells \in Seq(Cells), NEW writing \in {"writing", "sending"},
           asked' = asked \o cells, Owes(cells, writing), UNCHANGED <<buf, wire>>
    PROVE  Orderly'
<1>1. wire = asked /\ wire \in Seq(Cells) /\ asked \in Seq(Cells) /\ buf' \in Seq(Cells)
  BY IdleIsEven DEF Orderly, Sequences
<1>2. rest' = cells /\ asked' \in Seq(Cells) /\ wire' = wire
  BY <1>1, ConcatProperties DEF Owes
<1>3. pc' # "panicked" /\ (pc' = "idle" => rest' = <<>>)
  BY DEF Owes
<1> QED BY <1>1, <1>2, <1>3 DEF Orderly, Sequences

LEMMA WriteAllCallsOrderly ==
    ASSUME Orderly, calls \in Nat, SendEmpty \/ AsyncSendOwnedFrame
    PROVE  Orderly'
<1>1. CASE SendEmpty
  <2>1. Header("Text", TRUE, 0) \in Seq(Cells)
    BY HeaderCells
  <2>2. Payload(calls + 1, 0) = <<>>
    BY DEF Payload
  <2>3. Whole(calls + 1, 0) = Header("Text", TRUE, 0)
    BY <2>1, <2>2, ConcatEmptySeq DEF Whole
  <2> QED BY <1>1, <2>1, <2>3, OwesOrderly DEF SendEmpty, Begin
<1>2. CASE AsyncSendOwnedFrame
  <2>1. PICK len \in Sizes :
          /\ Begin(Whole(calls + 1, len))
          /\ Owes(Whole(calls + 1, len), "writing")
          /\ UNCHANGED <<buf, wire>>
    BY <1>2 DEF AsyncSendOwnedFrame
  <2>2. len \in Nat /\ calls + 1 \in Nat
    BY SizesAssumption
  <2>3. Header("Text", TRUE, len) \in Seq(Cells)
    BY <2>2, HeaderCells
  <2>4. Payload(calls + 1, len) \in Seq(Cells)
    BY <2>2, PayloadCells
  <2>5. Whole(calls + 1, len) \in Seq(Cells)
    BY <2>3, <2>4, ConcatProperties DEF Whole
  <2> QED BY <2>1, <2>5, OwesOrderly DEF Begin
<1> QED BY <1>1, <1>2

LEMMA WriteAllOrderly ==
    ASSUME Orderly, WriteAll
    PROVE  Orderly'
<1>1. /\ buf \in Seq(Cells) /\ wire \in Seq(Cells) /\ rest \in Seq(Cells) /\ asked \in Seq(Cells)
      /\ wire \o rest = asked /\ Len(rest) \in Nat
  BY LenProperties DEF Orderly, Sequences, WriteAll
<1>2. PICK n \in 1 .. Len(rest) :
        wire' = wire \o SubSeq(rest, 1, n) /\ rest' = SubSeq(rest, n + 1, Len(rest))
  BY DEF WriteAll
<1> DEFINE a == SubSeq(rest, 1, n)
           b == SubSeq(rest, n + 1, Len(rest))
<1>3. a \in Seq(Cells) /\ b \in Seq(Cells) /\ a \o b = rest
  <2>1. n \in 0 .. Len(rest)
    BY <1>1, <1>2
  <2> QED BY <1>1, <2>1, CutJoins
<1>4. wire' = wire \o a /\ rest' = b
  BY <1>2
<1> HIDE DEF a, b
<1>5. wire' \in Seq(Cells) /\ wire' \o rest' = asked
  <2>1. wire' = Cat(wire, a) /\ rest = Cat(a, b) /\ asked = Cat(wire, rest)
    BY <1>1, <1>3, <1>4 DEF Cat
  <2>2. asked = Cat(wire', b)
    BY <1>1, <1>3, <2>1, CatAssoc
  <2>3. wire' \o b = asked
    BY <2>2 DEF Cat
  <2> QED BY <1>1, <1>3, <1>4, <2>3, ConcatProperties
<1>6. /\ buf' \in Seq(Cells) /\ asked' = asked /\ pc' # "panicked"
      /\ pc' = "idle" => rest' = <<>>
  BY <1>1, EmptySeq DEF WriteAll, Renewed
<1> QED BY <1>1, <1>3, <1>4, <1>5, <1>6 DEF Orderly, Sequences

LEMMA NextInvariant == Invariant /\ [Next]_vars => Invariant'
<1> SUFFICES ASSUME Invariant, [Next]_vars PROVE Invariant'
  OBVIOUS
<1>1. CASE Send \/ SendOwnedFrame \/ SendEmpty \/ AsyncSendOwnedFrame
  <2>1. calls' \in Nat /\ failed' = failed /\ split' = split
    <3>1. (\E cells : Begin(cells)) /\ failed' = failed /\ split' = split
      BY <1>1 DEF Send, SendOwnedFrame, SendEmpty, AsyncSendOwnedFrame
    <3> QED BY <3>1 DEF Begin, Invariant
  <2> QED BY <1>1, <2>1, SendOrderly, SendOwnedFrameOrderly, WriteAllCallsOrderly DEF Invariant
<1>2. CASE WriteAll
  <2>1. calls' \in Nat /\ failed' = failed /\ split' = split
    BY <1>2 DEF WriteAll, Invariant
  <2> QED BY <1>2, <2>1, WriteAllOrderly DEF Invariant
<1>3. CASE SendFails \/ WriteFails
  BY <1>3 DEF SendFails, WriteFails, Begin, Invariant
<1>4. CASE FragmentMasked \/ FragmentUnmasked
  <2>1. (\E cells : Begin(cells)) /\ split' = TRUE
    BY <1>4 DEF FragmentMasked, FragmentUnmasked
  <2> QED BY <2>1 DEF Begin, Invariant
<1>5. CASE UNCHANGED vars
  BY <1>5 DEF vars, Invariant, Orderly, Sequences, Torn
<1> QED BY <1>1, <1>2, <1>3, <1>4, <1>5 DEF Next

-----------------------------------------------------------------------------
(* Whatever the sizes and however short the writes, unsplit frames go out whole, in
   order and with nothing in between, until a write fails. *)
THEOREM FramesGoOutWhole == Spec => []FramesOnWire
<1>1. Invariant => FramesOnWire
  BY DEF Invariant, Orderly, Torn, FramesOnWire
<1> QED BY <1>1, InitInvariant, NextInvariant, PTL DEF Spec

(* The one panic of an unsplit call is the underflow after a first write that took
   less than the header. *)
THEOREM PanicsOnlyInHeaders == Spec => []PanicsOnlyInHeader
<1>1. Invariant => PanicsOnlyInHeader
  BY DEF Invariant, Orderly, Torn, PanicsOnlyInHeader
<1> QED BY <1>1, InitInvariant, NextInvariant, PTL DEF Spec

-----------------------------------------------------------------------------
(* What FlattenSeq joins. *)

LEMMA FlattenType ==
    ASSUME NEW S, NEW seqs, seqs \in Seq(Seq(S))
    PROVE  FlattenSeq(seqs) \in Seq(S)
<1> DEFINE len == Len(seqs)
           T == Seq(S)
           Pairs == Nat \X T
           start == <<0, <<>>>>
           more(p) == IF p[1] + 1 \in 1 .. len THEN p[2] \o seqs[p[1] + 1] ELSE p[2]
           step == [p \in Pairs |-> <<p[1] + 1, more(p)>>]
           Body(v) == [i \in 1 .. len |-> IF i = 1 THEN seqs[i] ELSE v[i - 1] \o seqs[i]]
<1>1. len \in Nat /\ \A i \in 1 .. len : seqs[i] \in T
  BY LenProperties, ElementOfSeq
<1>2. \A s, t \in T : s \o t \in T
  BY ConcatProperties
<1>3. <<>> \in T /\ \A t \in T : <<>> \o t = t
  BY ConcatEmptySeq
<1>4. CASE len = 0
  <2>1. seqs = <<>>
    BY <1>4, EmptySeq
  <2> QED BY <1>3, <1>4, <2>1 DEF FlattenSeq
<1>5. CASE len # 0
  <2> HIDE DEF len, T
  <2>1. start \in Pairs /\ step \in [Pairs -> Pairs]
    <3>1. ASSUME NEW p \in Pairs PROVE more(p) \in T
      BY <1>1, <1>2
    <3> HIDE DEF more
    <3> QED BY <1>3, <3>1
  <2>2. PICK g \in [Nat -> Nat \X T] : g[0] = start /\ \A n \in Nat : g[n + 1] = step[g[n]]
    <3>1. \E f \in [Nat -> Pairs] : f[0] = start /\ \A n \in Nat : f[n + 1] = step[f[n]]
      <4> HIDE DEF step, Pairs, start
      <4> QED BY ONLY <2>1, Iterated
    <3> QED BY <3>1
  <2>3. ASSUME NEW n \in Nat
        PROVE  g[n + 1] = <<g[n][1] + 1, more(g[n])>> /\ g[n] \in Nat \X T
    BY <2>2
  <2> HIDE DEF step, more
  <2> DEFINE C == {n \in Nat : g[n][1] = n}
  <2>4. Nat \subseteq C
    <3>1. 0 \in C
      BY <2>2
    <3>2. ASSUME NEW n \in Nat, n \in C PROVE n + 1 \in C
      <4>1. g[n + 1][1] = g[n][1] + 1 /\ g[n][1] = n
        BY <2>3, <3>2
      <4> QED BY <4>1
    <3> HIDE DEF C
    <3> QED BY <3>1, <3>2, SetInduction
  <2> DEFINE f == [i \in 1 .. len |-> g[i][2]]
  <2>5. ASSUME NEW i \in 1 .. len PROVE g[i][2] = IF i = 1 THEN seqs[i] ELSE g[i - 1][2] \o seqs[i]
    <3>1. i - 1 \in Nat /\ (i - 1) + 1 = i
      BY <1>1
    <3>2. g[i - 1][1] + 1 = i /\ g[i - 1] \in Nat \X T
      BY <2>3, <2>4, <3>1
    <3>3. g[i][2] = more(g[i - 1])
      <4>1. g[(i - 1) + 1] = <<g[i - 1][1] + 1, more(g[i - 1])>>
        BY <2>3, <3>1
      <4> QED BY <3>1, <4>1
    <3>4. g[i][2] = g[i - 1][2] \o seqs[i]
      BY <3>2, <3>3 DEF more
    <3>5. CASE i = 1
      <4>1. g[i - 1][2] = <<>>
        BY <2>2, <3>5
      <4> QED BY <1>1, <1>3, <3>4, <3>5, <4>1
    <3> QED BY <3>4, <3>5
  <2>6. f = Body(f)
    <3>1. ASSUME NEW i \in 1 .. len PROVE f[i] = IF i = 1 THEN seqs[i] ELSE f[i - 1] \o seqs[i]
      <4>1. i # 1 => i - 1 \in 1 .. len
        BY <1>1
      <4> QED BY <2>5, <4>1
    <3> QED BY <3>1
  <2> HIDE DEF f
  <2> DEFINE w == CHOOSE v : v = Body(v)
  <2>7. w = Body(w)
    <3>1. \E v : v = Body(v)
      BY <2>6
    <3> HIDE DEF Body
    <3> QED BY <3>1
  <2>8. FlattenSeq(seqs) = w[len]
    BY <1>5 DEF FlattenSeq, len
  <2> HIDE DEF w
  <2>9. ASSUME NEW i \in 1 .. len PROVE w[i] = IF i = 1 THEN seqs[i] ELSE w[i - 1] \o seqs[i]
    BY <2>7
  <2> HIDE DEF Body
  <2> DEFINE D == {n \in Nat : n + 1 <= len => w[n + 1] \in T}
  <2>10. Nat \subseteq D
    <3>1. 0 \in D
      <4>1. 1 \in 1 .. len
        BY <1>1, <1>5
      <4>2. w[1] = seqs[1]
        BY <2>9, <4>1
      <4>3. w[1] \in T
        BY <1>1, <4>1, <4>2
      <4>4. 0 + 1 = 1 /\ 0 \in Nat
        OBVIOUS
      <4>5. w[0 + 1] \in T
        BY <4>3, <4>4
      <4> QED BY <4>4, <4>5
    <3>2. ASSUME NEW n \in Nat, n \in D PROVE n + 1 \in D
      <4> SUFFICES ASSUME (n + 1) + 1 <= len PROVE w[(n + 1) + 1] \in T
        OBVIOUS
      <4>1. (n + 1) + 1 \in 1 .. len /\ (n + 1) + 1 # 1 /\ ((n + 1) + 1) - 1 = n + 1 /\ n + 1 <= len
        BY <1>1
      <4>2. w[(n + 1) + 1] = w[n + 1] \o seqs[(n + 1) + 1]
        BY <2>9, <4>1
      <4>3. w[n + 1] \in T
        BY <3>2, <4>1
      <4> QED BY <1>1, <1>2, <4>1, <4>2, <4>3
    <3> HIDE DEF D
    <3> QED BY <3>1, <3>2, SetInduction
  <2>11. len - 1 \in Nat /\ (len - 1) + 1 = len
    BY <1>1, <1>5
  <2>12. w[len] \in T
    <3>1. ASSUME NEW k \in Nat, k + 1 <= len PROVE w[k + 1] \in T
      BY <2>10, <3>1
    <3>2. PICK k \in Nat : k + 1 = len
      BY <2>11
    <3>3. k + 1 <= len
      BY <1>1, <3>2
    <3>4. w[k + 1] \in T
      BY <3>1, <3>3
    <3> QED BY <3>2, <3>4
  <2> QED BY <2>8, <2>12 DEF T
<1> QED BY <1>4, <1>5

-----------------------------------------------------------------------------
(* Chunks. *)

(* payload.chunks(size) covers the payload and nothing behind it. *)
LEMMA ChunksFit ==
    ASSUME NEW len, len \in Nat, NEW size, size \in Nat, size > 0, len > 0
    PROVE  /\ Chunks(len, size) \in Nat /\ Chunks(len, size) >= 1
           /\ \A i \in 1 .. Chunks(len, size) :
                 /\ (i - 1) * size \in Nat /\ ChunkLen(len, size, i) \in Nat
                 /\ (i - 1) * size + ChunkLen(len, size, i) <= len
<1> DEFINE n == Chunks(len, size)
<1>1. n \in Nat /\ n >= 1 /\ (n - 1) * size < len
  <2> DEFINE a == len + size - 1
  <2>1. a \in Nat /\ a >= size
    OBVIOUS
  <2>2. n = a \div size
    BY DEF Chunks
  <2> HIDE DEF a, n
  <2>3. n \in Nat /\ a = size * n + (a % size) /\ a % size >= 0 /\ a % size < size
    BY <2>1, <2>2
  <2>4. n >= 1
    <3> SUFFICES ASSUME n = 0 PROVE FALSE
      BY <2>3
    <3>1. size * n = 0
      OBVIOUS
    <3>2. a = a % size
      BY <2>1, <2>3, <3>1
    <3> QED BY <2>1, <2>3, <3>2
  <2>5. size * n <= len + size - 1
    <3>1. size * n \in Nat /\ a % size \in Nat
      BY <2>1, <2>3
    <3> HIDE DEF a
    <3>2. size * n <= a
      BY <2>1, <2>3, <3>1
    <3> QED BY <3>2 DEF a
  <2>6. (n - 1) * size = size * n - size
    BY <2>3
  <2>7. size * n \in Nat
    BY <2>3
  <2> QED BY <2>3, <2>4, <2>5, <2>6, <2>7
<1> HIDE DEF n
<1>2. ASSUME NEW i \in 1 .. n
      PROVE  /\ (i - 1) * size \in Nat /\ ChunkLen(len, size, i) \in Nat
             /\ (i - 1) * size + ChunkLen(len, size, i) <= len
  <2>1. i \in Nat /\ i - 1 \in Nat /\ n - i \in Nat
    BY <1>1
  <2>2. (i - 1) * size \in Nat /\ i * size \in Nat /\ i * size = (i - 1) * size + size
    BY <2>1
  <2>3. (i - 1) * size < len
    <3>1. (n - 1) * size = (i - 1) * size + (n - i) * size /\ (n - i) * size \in Nat
      BY <1>1, <2>1
    <3>2. (n - 1) * size \in Nat
      BY <1>1
    <3> QED BY <1>1, <2>2, <3>1, <3>2
  <2>4. CASE i * size <= len
    <3>1. ChunkLen(len, size, i) = size
      BY <2>4 DEF ChunkLen
    <3> QED BY <2>2, <2>4, <3>1
  <2>5. CASE ~(i * size <= len)
    <3>1. ChunkLen(len, size, i) = len % size
      BY <2>5 DEF ChunkLen
    <3> DEFINE r == len - (i - 1) * size
    <3>2. r \in Nat /\ r < size /\ len = size * (i - 1) + r
      BY <2>1, <2>2, <2>3, <2>5
    <3>3. len % size = r
      <4>1. ASSUME NEW q, q \in Nat, NEW b, b \in Nat, b < size PROVE (size * q + b) % size = b
        BY <4>1
      <4> HIDE DEF r
      <4> QED BY <2>1, <3>2, <4>1
    <3>4. (i - 1) * size + r = len
      BY <2>2
    <3> QED BY <2>2, <3>1, <3>2, <3>3, <3>4
  <2> QED BY <2>4, <2>5
<1> QED BY <1>1, <1>2 DEF n

\* A part of a sequence of cells.
LEMMA Slice ==
    ASSUME NEW s, s \in Seq(Cells), NEW a, a \in Nat, NEW b, b \in Nat, b <= Len(s)
    PROVE  /\ SubSeq(s, a + 1, b) \in Seq(Cells)
           /\ Len(SubSeq(s, a + 1, b)) = IF a <= b THEN b - a ELSE 0
<1>1. \A i \in 1 .. Len(s) : s[i] \in Cells
  BY ElementOfSeq
<1>2. a + 1 \in Int /\ b \in Int /\ \A i \in a + 1 .. b : s[i] \in Cells
  BY <1>1, LenProperties
<1>3. /\ SubSeq(s, a + 1, b) \in Seq(Cells)
      /\ Len(SubSeq(s, a + 1, b)) = IF a + 1 <= b THEN b - (a + 1) + 1 ELSE 0
  BY <1>2, SubSeqProperties
<1> QED BY <1>3

LEMMA ChunkCells ==
    ASSUME NEW m, m \in Nat, NEW len, len \in Nat, NEW size, size \in Nat, size > 0, len > 0,
           NEW i, i \in 1 .. Chunks(len, size)
    PROVE  Chunk(m, len, size, i) \in Seq(Cells)
<1> DEFINE a == (i - 1) * size
           b == (i - 1) * size + ChunkLen(len, size, i)
<1>1. a \in Nat /\ ChunkLen(len, size, i) \in Nat /\ b <= len
  BY ChunksFit
<1>2. Payload(m, len) \in Seq(Cells) /\ Len(Payload(m, len)) = len
  BY PayloadCells
<1>3. b \in Nat /\ b <= Len(Payload(m, len))
  BY <1>1, <1>2
<1> HIDE DEF a, b
<1>4. SubSeq(Payload(m, len), a + 1, b) \in Seq(Cells)
  BY <1>1, <1>2, <1>3, Slice
<1> QED BY <1>4 DEF Chunk, a, b

\* The concatenation of n pieces.
LEMMA Joined ==
    ASSUME NEW n, n \in Nat, NEW f, \A i \in 1 .. n : f[i] \in Seq(Cells), DOMAIN f = 1 .. n,
           f = [i \in 1 .. n |-> f[i]]
    PROVE  FlattenSeq(f) \in Seq(Cells)
<1>1. f \in Seq(Seq(Cells))
  <2> DEFINE T == Seq(Cells)
  <2>1. \A i \in 1 .. n : f[i] \in T
    OBVIOUS
  <2> HIDE DEF T
  <2>2. f \in Seq(T)
    BY <2>1
  <2> QED BY <2>2 DEF T
<1> QED BY <1>1, FlattenType

LEMMA FragmentCells ==
    ASSUME NEW m, m \in Nat, NEW len, len \in Nat, len > 0, config.fragment \in Nat, config.fragment > 0
    PROVE  Fragments(m, len) \in Seq(Cells)
<1> DEFINE size == config.fragment
           n == Chunks(len, size)
           f == [i \in 1 .. n |->
                   Header(IF i = 1 THEN "Text" ELSE "Continue", i = n, ChunkLen(len, size, i))
                   \o Chunk(m, len, size, i)]
<1>1. n \in Nat /\ \A i \in 1 .. n : ChunkLen(len, size, i) \in Nat
  BY ChunksFit
<1>2. ASSUME NEW i \in 1 .. n PROVE f[i] \in Seq(Cells)
  <2> DEFINE code == IF i = 1 THEN "Text" ELSE "Continue"
             fin == i = n
             l == ChunkLen(len, size, i)
  <2>1. Chunk(m, len, size, i) \in Seq(Cells)
    BY ChunkCells
  <2>2. code \in {"Text", "Continue"} /\ fin \in BOOLEAN /\ l \in Nat
    BY <1>1
  <2> HIDE DEF n, code, fin, l
  <2>3. Header(code, fin, l) \in Seq(Cells)
    BY <2>2, HeaderCells
  <2>4. f[i] = Header(code, fin, l) \o Chunk(m, len, size, i)
    BY DEF code, fin, l
  <2> QED BY <2>1, <2>3, <2>4, ConcatProperties
<1>3. DOMAIN f = 1 .. n /\ f = [i \in 1 .. n |-> f[i]]
  OBVIOUS
<1>4. Fragments(m, len) = FlattenSeq(f)
  BY DEF Fragments
<1> HIDE DEF f, n
<1> QED BY <1>1, <1>2, <1>3, <1>4, Joined

LEMMA HeaderLengths ==
    ASSUME NEW len, len \in Nat, len > 0, config.fragment \in Nat, config.fragment > 0
    PROVE  /\ HeaderBufLen(len) \in Nat
           /\ ~config.mask => \A i \in 1 .. Chunks(len, config.fragment) :
                 /\ i * header_len(FALSE, config.fragment) \in Nat
                 /\ (i - 1) * header_len(FALSE, config.fragment) \in Nat
                 /\ i * header_len(FALSE, config.fragment) <= HeaderBufLen(len)
<1> DEFINE size == config.fragment
           n == Chunks(len, size)
           hl == header_len(config.mask, size)
           last == IF len % size # 0 THEN header_len(config.mask, len % size) ELSE 0
<1>1. n \in Nat
  BY ChunksFit
<1>2. hl \in Nat /\ last \in Nat
  BY DEF header_len
<1>3. HeaderBufLen(len) = hl * n + last
  BY DEF HeaderBufLen
<1> HIDE DEF n, hl, last
<1>4. hl * n \in Nat
  BY <1>1, <1>2
<1>5. ASSUME NEW i \in 1 .. n
      PROVE  i * hl \in Nat /\ (i - 1) * hl \in Nat /\ i * hl <= HeaderBufLen(len)
  <2>1. i \in Nat /\ n - i \in Nat /\ i - 1 \in Nat
    BY <1>1
  <2>2. hl * n = i * hl + (n - i) * hl
    BY <1>1, <1>2, <2>1
  <2>3. i * hl \in Nat /\ (n - i) * hl \in Nat /\ (i - 1) * hl \in Nat
    BY <1>2, <2>1
  <2> QED BY <1>2, <1>3, <1>4, <2>2, <2>3
<1>6. HeaderBufLen(len) \in Nat
  BY <1>2, <1>3, <1>4
<1>7. ASSUME ~config.mask PROVE hl = header_len(FALSE, config.fragment)
  BY <1>7 DEF hl, header_len
<1> QED BY <1>5, <1>6, <1>7 DEF n

LEMMA GrownCells ==
    ASSUME NEW s, s \in Seq(Cells), NEW n, n \in Nat
    PROVE  /\ Grow(s, n) \in Seq(Cells)
           /\ Len(Grow(s, n)) = IF Len(s) <= n THEN n ELSE Len(s)
<1> DEFINE k == n - Len(s)
           z == [i \in 1 .. k |-> Zero]
<1>1. Len(s) \in Nat
  BY LenProperties
<1>2. Zero \in Cells
  BY DEF Zero, Cells
<1>3. CASE Len(s) <= n
  <2>1. k \in Nat
    BY <1>1, <1>3
  <2>2. Len(s) + k = n
    BY <1>1, <1>3
  <2> HIDE DEF k
  <2>3. z \in Seq(Cells) /\ Len(z) = k
    BY <1>2, <2>1
  <2> HIDE DEF z
  <2>4. s \o z \in Seq(Cells) /\ Len(s \o z) = Len(s) + Len(z)
    BY <2>3, ConcatProperties
  <2> QED BY <1>3, <2>2, <2>3, <2>4 DEF Grow, z, k
<1>4. CASE ~(Len(s) <= n)
  <2>1. 1 .. k = {}
    BY <1>1, <1>4
  <2>2. z = <<>>
    <3>1. 1 .. 0 = {} /\ 0 \in Nat
      OBVIOUS
    <3>2. z = [i \in 1 .. 0 |-> Zero]
      BY <2>1, <3>1
    <3>3. ASSUME NEW j \in Nat
          PROVE  [i \in 1 .. j |-> Zero] \in Seq(Cells) /\ Len([i \in 1 .. j |-> Zero]) = j
      BY <1>2
    <3>4. z \in Seq(Cells) /\ Len(z) = 0
      BY <3>1, <3>2, <3>3
    <3> QED BY <3>4, EmptySeq
  <2>3. s \o <<>> = s
    BY ConcatEmptySeq
  <2> QED BY <1>4, <2>2, <2>3 DEF Grow
<1> QED BY <1>3, <1>4

\* The last header that covers a byte.
LEMMA LastOne ==
    ASSUME NEW n, n \in Nat, NEW T, T \subseteq 1 .. n, T # {}
    PROVE  Max(T) \in T
<1> DEFINE D == {n - x : x \in T}
<1>1. D \subseteq Nat /\ D # {}
  <2>1. \A x \in T : x \in Nat /\ x <= n
    OBVIOUS
  <2>2. \A x \in T : n - x \in Nat
    BY <2>1
  <2>3. PICK x \in T : TRUE
    OBVIOUS
  <2>4. n - x \in D
    BY <2>3
  <2> QED BY <2>2, <2>4
<1>2. PICK d \in D : \A e \in D : d <= e
  <2> HIDE DEF D
  <2> QED BY <1>1, LeastElement
<1>3. PICK x \in T : d = n - x
  OBVIOUS
<1>4. \A y \in T : x >= y
  <2> TAKE y \in T
  <2>1. n - y \in D
    OBVIOUS
  <2>2. n - x <= n - y
    BY <1>2, <1>3, <2>1
  <2> QED BY <2>2
<1> QED BY <1>4 DEF Max

LEMMA HeadersWritten ==
    ASSUME NEW b, b \in Seq(Cells), NEW len, len \in Nat, len > 0,
           config.fragment \in Nat, config.fragment > 0
    PROVE  WithHeaders(b, len) \in Seq(Cells) /\ Len(WithHeaders(b, len)) = Len(b)
<1> DEFINE size == config.fragment
           n == Chunks(len, size)
           covering(p) == {i \in 1 .. n : HeaderAt(i) < p /\ p <= HeaderEnd(len, i)}
           cell(p) == IF covering(p) = {} THEN b[p]
                      ELSE HeadByte("Text", Max(covering(p)) = n, ChunkLen(len, size, Max(covering(p))),
                                    p - HeaderAt(Max(covering(p))))
<1>1. /\ n \in Nat
      /\ \A i \in 1 .. n : HeaderAt(i) \in Nat /\ ChunkLen(len, size, i) \in Nat
  BY ChunksFit DEF HeaderAt
<1>2. Len(b) \in Nat /\ \A p \in 1 .. Len(b) : b[p] \in Cells
  BY LenProperties, ElementOfSeq
<1>3. ASSUME NEW p \in 1 .. Len(b) PROVE cell(p) \in Cells
  <2>1. CASE covering(p) = {}
    BY <1>2, <2>1
  <2>2. CASE covering(p) # {}
    <3> DEFINE T == covering(p)
               i == Max(T)
    <3>1. T \subseteq 1 .. n /\ T # {}
      BY <2>2
    <3>2. i \in T
      <4> HIDE DEF T, n
      <4> QED BY <1>1, <3>1, LastOne
    <3>3. i \in 1 .. n /\ HeaderAt(i) < p
      BY <3>2
    <3> HIDE DEF i, n
    <3>4. HeaderAt(i) \in Nat /\ ChunkLen(len, size, i) \in Nat /\ p \in Nat
      BY <1>1, <1>2, <3>3
    <3>5. p - HeaderAt(i) \in Nat /\ (i = n) \in BOOLEAN
      BY <3>3, <3>4
    <3> DEFINE l == ChunkLen(len, size, i)
               at == p - HeaderAt(i)
               fin == i = n
    <3>6. HeadByte("Text", fin, l, at) \in Cells
      <4>1. l \in Nat /\ at \in Nat /\ fin \in BOOLEAN
        BY <3>4, <3>5
      <4> HIDE DEF l, at, fin
      <4> QED BY <4>1 DEF HeadByte, Cells
    <3> QED BY <2>2, <3>6 DEF i, n
  <2> QED BY <2>1, <2>2
<1>4. WithHeaders(b, len) = [p \in 1 .. Len(b) |-> cell(p)]
  BY DEF WithHeaders
<1> HIDE DEF cell
<1> QED BY <1>2, <1>3, <1>4

\* The slices write_vectored gets.
LEMMA SlicesAreCells ==
    ASSUME NEW b, b \in Seq(Cells), NEW m, m \in Nat, NEW len, len \in Nat, len > 0, ~config.mask,
           config.fragment \in Nat, config.fragment > 0, HeaderBufLen(len) <= Len(b)
    PROVE  LET size == config.fragment
               n == Chunks(len, size)
               hl == header_len(FALSE, size)
           IN FlattenSeq([i \in 1 .. n |->
                SubSeq(b, (i - 1) * hl + 1, IF i = n THEN Len(b) ELSE i * hl)
                \o Chunk(m, len, size, i)]) \in Seq(Cells)
<1> DEFINE size == config.fragment
           n == Chunks(len, size)
           hl == header_len(FALSE, size)
           f == [i \in 1 .. n |->
                   SubSeq(b, (i - 1) * hl + 1, IF i = n THEN Len(b) ELSE i * hl)
                   \o Chunk(m, len, size, i)]
<1>1. n \in Nat
  BY ChunksFit
<1>2. ASSUME NEW i \in 1 .. n PROVE f[i] \in Seq(Cells)
  <2> DEFINE from == (i - 1) * hl
             to == IF i = n THEN Len(b) ELSE i * hl
  <2>1. Chunk(m, len, size, i) \in Seq(Cells)
    BY ChunkCells
  <2>2. HeaderBufLen(len) \in Nat /\ from \in Nat /\ i * hl \in Nat /\ i * hl <= HeaderBufLen(len)
    BY HeaderLengths
  <2>3. Len(b) \in Nat
    BY LenProperties
  <2>4. to \in Nat /\ to <= Len(b)
    <3> DEFINE e == i * hl
    <3>1. e \in Nat /\ e <= HeaderBufLen(len)
      BY <2>2
    <3>2. to = Len(b) \/ to = e
      OBVIOUS
    <3> HIDE DEF e, to
    <3> QED BY <2>2, <2>3, <3>1, <3>2
  <2>5. f[i] = SubSeq(b, from + 1, to) \o Chunk(m, len, size, i)
    OBVIOUS
  <2> HIDE DEF from, to, f
  <2>6. SubSeq(b, from + 1, to) \in Seq(Cells)
    BY <2>2, <2>4, Slice
  <2> QED BY <2>1, <2>5, <2>6, ConcatProperties
<1>3. DOMAIN f = 1 .. n /\ f = [i \in 1 .. n |-> f[i]]
  OBVIOUS
<1>4. FlattenSeq(f) \in Seq(Cells)
  <2> HIDE DEF f, n
  <2> QED BY <1>1, <1>2, <1>3, Joined
<1> QED BY <1>4

-----------------------------------------------------------------------------
(* Types: each action leaves sequences of cells, a buffer within its bound, *)
(* and something left to write exactly while a write_all is in progress.    *)

Bounded(b) == b = <<>> \/ \E len \in Sizes : Len(b) <= Needed(len)

Paced(left, where) ==
    /\ where \in {"idle", "writing", "sending", "panicked"}
    /\ left # <<>> <=> where \in {"writing", "sending"}

LEMMA ConfigIs ==
    ASSUME TypeOK
    PROVE  /\ config.mask \in BOOLEAN /\ config.fragment \in Nat
           /\ calls \in Nat /\ calls + 1 \in Nat /\ Sizes \subseteq Nat
BY ConfigsAssumption, SizesAssumption, MaxCallsAssumption DEF TypeOK

\* What every action has to show.
LEMMA Typing ==
    ASSUME TypeOK, config' = config, calls' \in 0 .. MaxCalls, asked' \in Seq(Cells),
           buf' \in Seq(Cells), Bounded(buf'), wire' \in Seq(Cells), rest' \in Seq(Cells),
           Paced(rest', pc'), failed' \in BOOLEAN, split' \in BOOLEAN
    PROVE  TypeOK'
<1>1. BufBounded'
  <2>1. CASE buf' = <<>>
    BY <2>1 DEF BufBounded
  <2>2. CASE \E len \in Sizes : Len(buf') <= Needed(len)
    <3>1. PICK len \in Sizes : Len(buf') <= Needed(len)
      BY <2>2
    <3>2. Needed(len)' = Needed(len)
      BY DEF Needed, Splits, HeaderBufLen
    <3>3. Len(buf') <= Needed(len)'
      BY <3>1, <3>2
    <3> QED BY <3>3 DEF BufBounded
  <2> QED BY <2>1, <2>2 DEF Bounded
<1>2. config' \in Configs
  BY DEF TypeOK
<1> QED BY <1>1, <1>2 DEF TypeOK, Paced

LEMMA CallTyping ==
    ASSUME TypeOK, NEW cells, cells \in Seq(Cells), Begin(cells),
           buf' \in Seq(Cells), Bounded(buf'), wire' \in Seq(Cells), rest' \in Seq(Cells),
           Paced(rest', pc'), failed' \in BOOLEAN, split' \in BOOLEAN
    PROVE  TypeOK'
<1>1. config' = config /\ calls' = calls + 1 /\ calls < MaxCalls /\ asked' = asked \o cells
  BY DEF Begin
<1>2. calls' \in 0 .. MaxCalls
  BY <1>1, MaxCallsAssumption DEF TypeOK
<1>3. asked' \in Seq(Cells)
  BY <1>1, ConcatProperties DEF TypeOK
<1> QED BY <1>1, <1>2, <1>3, Typing

\* The buffer a call finds, and one it empties.
LEMMA Bounds ==
    ASSUME TypeOK
    PROVE  buf \in Seq(Cells) /\ Bounded(buf)
BY DEF TypeOK, BufBounded, Bounded

LEMMA RenewedBounds ==
    ASSUME NEW b, b \in Seq(Cells), Bounded(b)
    PROVE  Renewed(b) \in Seq(Cells) /\ Bounded(Renewed(b))
<1>1. Renewed(b) = b \/ Renewed(b) = <<>>
  BY DEF Renewed
<1>2. <<>> \in Seq(Cells) /\ Bounded(<<>>)
  BY EmptySeq DEF Bounded
<1> QED BY <1>1, <1>2

LEMMA WholeCells ==
    ASSUME TypeOK, NEW len, len \in Nat
    PROVE  /\ Header("Text", TRUE, len) \in Seq(Cells) /\ Payload(calls + 1, len) \in Seq(Cells)
           /\ Whole(calls + 1, len) \in Seq(Cells)
<1>1. Header("Text", TRUE, len) \in Seq(Cells)
  BY HeaderCells
<1>2. Payload(calls + 1, len) \in Seq(Cells)
  BY ConfigIs, PayloadCells
<1> QED BY <1>1, <1>2, ConcatProperties DEF Whole

LEMMA CopiedBounds ==
    ASSUME TypeOK, NEW len, len \in Sizes
    PROVE  Copied(len) \in Seq(Cells) /\ Bounded(Copied(len))
<1> DEFINE p == Payload(calls + 1, len)
           old == SubSeq(buf, len + 1, Len(buf))
<1>1. len \in Nat /\ calls + 1 \in Nat /\ buf \in Seq(Cells) /\ Bounded(buf) /\ Len(buf) \in Nat
  BY ConfigIs, Bounds, LenProperties
<1>2. p \in Seq(Cells) /\ Len(p) = len
  BY <1>1, PayloadCells
<1>3. old \in Seq(Cells) /\ Len(old) = IF len <= Len(buf) THEN Len(buf) - len ELSE 0
  BY <1>1, Slice
<1> HIDE DEF p, old
<1>4. p \o old \in Seq(Cells) /\ Len(p \o old) = Len(p) + Len(old)
  BY <1>2, <1>3, ConcatProperties
<1>5. Copied(len) = p \o old
  BY DEF Copied, p, old
<1> DEFINE c == Copied(len)
<1>6. c \in Seq(Cells) /\ Len(c) = len + Len(old)
  BY <1>2, <1>4, <1>5
<1> HIDE DEF c
<1>7. CASE len <= Len(buf)
  <2>1. Len(c) = Len(buf)
    BY <1>1, <1>3, <1>6, <1>7
  <2>2. CASE buf = <<>>
    <3>1. Len(c) = 0
      BY <2>1, <2>2
    <3>2. c = <<>>
      BY <1>6, <3>1, EmptySeq
    <3> QED BY <1>6, <3>2 DEF Bounded, c
  <2>3. CASE \E l \in Sizes : Len(buf) <= Needed(l)
    BY <1>6, <2>1, <2>3 DEF Bounded, c
  <2> QED BY <1>1, <2>2, <2>3 DEF Bounded
<1>8. CASE ~(len <= Len(buf))
  <2>1. Len(c) = len
    BY <1>1, <1>3, <1>6, <1>8
  <2>2. len <= Needed(len)
    <3>1. CASE Splits(len)
      <4>1. len > 0 /\ config.fragment > 0 /\ config.fragment \in Nat
        BY <1>1, <3>1, ConfigIs DEF Splits
      <4>2. HeaderBufLen(len) \in Nat
        BY <1>1, <4>1, HeaderLengths
      <4> QED BY <1>1, <3>1, <4>2 DEF Needed
    <3>2. CASE ~Splits(len)
      BY <1>1, <3>2 DEF Needed
    <3> QED BY <3>1, <3>2
  <2> QED BY <1>6, <2>1, <2>2 DEF Bounded, c
<1> QED BY <1>1, <1>7, <1>8

\* What a first write leaves.
LEMMA TwoWritesTyped ==
    ASSUME TypeOK, pc = "idle", NEW h, h \in Seq(Cells), NEW p, p \in Seq(Cells),
           NEW writing, writing \in {"writing", "sending"}, TwoWrites(h, p, writing)
    PROVE  wire' \in Seq(Cells) /\ rest' \in Seq(Cells) /\ Paced(rest', pc')
<1> DEFINE s == h \o p
<1>1. s \in Seq(Cells) /\ Len(s) = Len(h) + Len(p) /\ Len(h) \in Nat /\ Len(p) \in Nat
  BY ConcatProperties, LenProperties
<1>2. PICK n \in 0 .. Len(s) :
        /\ wire' = wire \o SubSeq(s, 1, n)
        /\ IF Len(s) - n <= Len(p)
           THEN Owes(SubSeq(p, Len(p) - (Len(s) - n) + 1, Len(p)), writing)
           ELSE pc' = "panicked" /\ UNCHANGED rest
  BY DEF TwoWrites
<1>3. SubSeq(s, 1, n) \in Seq(Cells)
  BY <1>1, CutJoins
<1>4. wire' \in Seq(Cells)
  <2> DEFINE a == SubSeq(s, 1, n)
  <2>1. a \in Seq(Cells) /\ wire \in Seq(Cells) /\ wire' = wire \o a
    BY <1>2, <1>3 DEF TypeOK
  <2> HIDE DEF a
  <2> QED BY <2>1, ConcatProperties
<1>5. rest = <<>> /\ <<>> \in Seq(Cells)
  BY EmptySeq DEF TypeOK
<1>6. CASE Len(s) - n <= Len(p)
  <2> DEFINE from == Len(p) - (Len(s) - n)
             left == SubSeq(p, from + 1, Len(p))
  <2>1. from \in Nat
    BY <1>1, <1>6
  <2> HIDE DEF from
  <2>2. left \in Seq(Cells)
    BY <1>1, <2>1, Slice
  <2>3. Owes(left, writing)
    BY <1>2, <1>6 DEF from
  <2> HIDE DEF left
  <2> QED BY <1>4, <2>2, <2>3 DEF Owes, Paced
<1>7. CASE ~(Len(s) - n <= Len(p))
  <2>1. pc' = "panicked" /\ rest' = <<>>
    BY <1>2, <1>5, <1>7
  <2> QED BY <1>4, <1>5, <2>1 DEF Paced
<1> QED BY <1>6, <1>7

LEMMA InitTyped == Init => TypeOK
<1> SUFFICES ASSUME Init PROVE TypeOK
  OBVIOUS
<1>1. <<>> \in Seq(Cells)
  BY EmptySeq
<1>2. /\ config \in Configs /\ buf = <<>> /\ wire = <<>> /\ rest = <<>> /\ asked = <<>>
      /\ pc = "idle" /\ failed \in BOOLEAN /\ split \in BOOLEAN
  BY Zenon DEF Init
<1>3. calls = 0
  BY DEF Init
<1>4. calls \in 0 .. MaxCalls
  BY <1>3, MaxCallsAssumption
<1>5. ~(pc \in {"writing", "sending"}) /\ pc \in {"idle", "writing", "sending", "panicked"}
  BY <1>2
<1>6. BufBounded
  BY <1>2 DEF BufBounded
<1> QED BY Zenon, <1>1, <1>2, <1>4, <1>5, <1>6 DEF TypeOK

LEMMA SendTyped == TypeOK /\ Send => TypeOK'
<1> SUFFICES ASSUME TypeOK, Send PROVE TypeOK'
  OBVIOUS
<1>1. PICK len \in Sizes \ {0} :
        /\ Begin(Whole(calls + 1, len))
        /\ TwoWrites(Header("Text", TRUE, len), Source(len), "sending")
        /\ buf' = LET b == IF config.mask THEN Copied(len) ELSE buf
                  IN IF pc' = "idle" THEN Renewed(b) ELSE b
        /\ UNCHANGED <<failed, split>>
  BY DEF Send
<1>2. len \in Nat /\ len \in Sizes /\ calls \in Nat /\ buf \in Seq(Cells) /\ Bounded(buf)
  BY ConfigIs, Bounds
<1>3. /\ Header("Text", TRUE, len) \in Seq(Cells) /\ Payload(calls + 1, len) \in Seq(Cells)
      /\ Whole(calls + 1, len) \in Seq(Cells)
  BY <1>2, WholeCells
<1>4. Source(len) \in Seq(Cells)
  BY <1>2, <1>3, SourceIsPayload
<1>5. Copied(len) \in Seq(Cells) /\ Bounded(Copied(len))
  BY <1>2, CopiedBounds
<1> DEFINE b == IF config.mask THEN Copied(len) ELSE buf
<1>6. b \in Seq(Cells) /\ Bounded(b)
  BY <1>2, <1>5
<1>7. buf' = IF pc' = "idle" THEN Renewed(b) ELSE b
  BY <1>1
<1> HIDE DEF b
<1>8. buf' \in Seq(Cells) /\ Bounded(buf')
  BY <1>6, <1>7, RenewedBounds
<1>9. pc = "idle"
  BY <1>1 DEF Begin
<1>10. wire' \in Seq(Cells) /\ rest' \in Seq(Cells) /\ Paced(rest', pc')
  BY <1>1, <1>3, <1>4, <1>9, TwoWritesTyped
<1>11. failed' \in BOOLEAN /\ split' \in BOOLEAN
  BY <1>1 DEF TypeOK
<1> QED BY <1>1, <1>3, <1>8, <1>10, <1>11, CallTyping

LEMMA SendOwnedFrameTyped == TypeOK /\ SendOwnedFrame => TypeOK'
<1> SUFFICES ASSUME TypeOK, SendOwnedFrame PROVE TypeOK'
  OBVIOUS
<1>1. PICK len \in Sizes :
        /\ Begin(Whole(calls + 1, len))
        /\ TwoWrites(Header("Text", TRUE, len), Payload(calls + 1, len), "writing")
        /\ UNCHANGED <<buf, failed, split>>
  BY DEF SendOwnedFrame
<1>2. len \in Nat /\ buf' \in Seq(Cells) /\ Bounded(buf')
  BY <1>1, ConfigIs, Bounds
<1>3. /\ Header("Text", TRUE, len) \in Seq(Cells) /\ Payload(calls + 1, len) \in Seq(Cells)
      /\ Whole(calls + 1, len) \in Seq(Cells)
  BY <1>2, WholeCells
<1>4. pc = "idle"
  BY <1>1 DEF Begin
<1>5. wire' \in Seq(Cells) /\ rest' \in Seq(Cells) /\ Paced(rest', pc')
  BY <1>1, <1>3, <1>4, TwoWritesTyped
<1>6. failed' \in BOOLEAN /\ split' \in BOOLEAN
  BY <1>1 DEF TypeOK
<1> QED BY <1>1, <1>2, <1>3, <1>5, <1>6, CallTyping

(* Calls that are one write_all, and calls whose first write fails. *)
LEMMA OwesTyped ==
    ASSUME TypeOK, NEW asks, asks \in Seq(Cells), Begin(asks), NEW cells, cells \in Seq(Cells),
           Owes(cells, "writing"), UNCHANGED <<buf, wire, failed, split>>
    PROVE  TypeOK'
<1>1. rest' \in Seq(Cells) /\ Paced(rest', pc')
  BY DEF Owes, Paced
<1>2. /\ buf' \in Seq(Cells) /\ Bounded(buf') /\ wire' \in Seq(Cells)
      /\ failed' \in BOOLEAN /\ split' \in BOOLEAN
  BY Bounds DEF TypeOK
<1> QED BY <1>1, <1>2, CallTyping

LEMMA WriteAllCallsTyped == TypeOK /\ (SendEmpty \/ AsyncSendOwnedFrame) => TypeOK'
<1> SUFFICES ASSUME TypeOK, SendEmpty \/ AsyncSendOwnedFrame PROVE TypeOK'
  OBVIOUS
<1>1. CASE SendEmpty
  <2>1. /\ Begin(Whole(calls + 1, 0)) /\ Owes(Header("Text", TRUE, 0), "writing")
        /\ UNCHANGED <<buf, wire, failed, split>>
    BY <1>1 DEF SendEmpty
  <2>2. Header("Text", TRUE, 0) \in Seq(Cells) /\ Whole(calls + 1, 0) \in Seq(Cells)
    BY WholeCells
  <2> QED BY <2>1, <2>2, OwesTyped
<1>2. CASE AsyncSendOwnedFrame
  <2>1. PICK len \in Sizes :
          /\ Begin(Whole(calls + 1, len))
          /\ Owes(Whole(calls + 1, len), "writing")
          /\ UNCHANGED <<buf, wire, failed, split>>
    BY <1>2 DEF AsyncSendOwnedFrame
  <2>2. len \in Nat
    BY ConfigIs
  <2>3. Whole(calls + 1, len) \in Seq(Cells)
    BY <2>2, WholeCells
  <2> QED BY <2>1, <2>3, OwesTyped
<1> QED BY <1>1, <1>2

LEMMA SendFailsTyped == TypeOK /\ SendFails => TypeOK'
<1> SUFFICES ASSUME TypeOK, SendFails PROVE TypeOK'
  OBVIOUS
<1>1. PICK len \in Sizes :
        /\ Begin(Whole(calls + 1, len))
        /\ failed' = TRUE
        /\ buf' = buf \/ buf' = Copied(len)
        /\ UNCHANGED <<wire, rest, pc, split>>
  BY DEF SendFails
<1>2. len \in Nat
  BY ConfigIs
<1>3. Whole(calls + 1, len) \in Seq(Cells)
  BY <1>2, WholeCells
<1>4. buf' \in Seq(Cells) /\ Bounded(buf')
  BY <1>1, Bounds, CopiedBounds
<1>5. /\ wire' \in Seq(Cells) /\ rest' \in Seq(Cells) /\ Paced(rest', pc')
      /\ failed' \in BOOLEAN /\ split' \in BOOLEAN
  BY <1>1 DEF TypeOK, Paced
<1> QED BY <1>1, <1>3, <1>4, <1>5, CallTyping

LEMMA WriteAllTyped == TypeOK /\ WriteAll => TypeOK'
<1> SUFFICES ASSUME TypeOK, WriteAll PROVE TypeOK'
  OBVIOUS
<1>1. PICK n \in 1 .. Len(rest) :
        wire' = wire \o SubSeq(rest, 1, n) /\ rest' = SubSeq(rest, n + 1, Len(rest))
  BY DEF WriteAll
<1>2. /\ pc \in {"writing", "sending"}
      /\ pc' = IF rest' = <<>> THEN "idle" ELSE pc
      /\ buf' = IF pc = "sending" /\ rest' = <<>> THEN Renewed(buf) ELSE buf
      /\ UNCHANGED <<config, calls, asked, failed, split>>
  BY DEF WriteAll
<1> DEFINE a == SubSeq(rest, 1, n)
           b == SubSeq(rest, n + 1, Len(rest))
<1>3. rest \in Seq(Cells) /\ wire \in Seq(Cells) /\ Len(rest) \in Nat
  BY LenProperties DEF TypeOK
<1>4. a \in Seq(Cells) /\ b \in Seq(Cells)
  <2>1. n \in 0 .. Len(rest)
    BY <1>3
  <2> QED BY <1>3, <2>1, CutJoins
<1>5. wire' = wire \o a /\ rest' = b
  BY <1>1
<1> HIDE DEF a, b
<1>6. wire' \in Seq(Cells) /\ rest' \in Seq(Cells)
  BY <1>3, <1>4, <1>5, ConcatProperties
<1>7. Paced(rest', pc')
  BY <1>2 DEF Paced
<1>8. buf' \in Seq(Cells) /\ Bounded(buf')
  BY <1>2, Bounds, RenewedBounds
<1>9. /\ config' = config /\ calls' \in 0 .. MaxCalls /\ asked' \in Seq(Cells)
      /\ failed' \in BOOLEAN /\ split' \in BOOLEAN
  BY <1>2 DEF TypeOK
<1> QED BY <1>6, <1>7, <1>8, <1>9, Typing

LEMMA WriteFailsTyped == TypeOK /\ WriteFails => TypeOK'
<1> SUFFICES ASSUME TypeOK, WriteFails PROVE TypeOK'
  OBVIOUS
<1>1. /\ rest' = <<>> /\ pc' = "idle" /\ failed' = TRUE
      /\ UNCHANGED <<config, buf, wire, calls, asked, split>>
  BY DEF WriteFails
<1>2. rest' \in Seq(Cells) /\ Paced(rest', pc')
  BY <1>1, EmptySeq DEF Paced
<1>3. buf' \in Seq(Cells) /\ Bounded(buf')
  BY <1>1, Bounds
<1>4. /\ config' = config /\ calls' \in 0 .. MaxCalls /\ asked' \in Seq(Cells)
      /\ wire' \in Seq(Cells) /\ failed' \in BOOLEAN /\ split' \in BOOLEAN
  BY <1>1 DEF TypeOK
<1> QED BY <1>2, <1>3, <1>4, Typing

(* The auto_fragment_size branch. *)

LEMMA SplitIs ==
    ASSUME TypeOK, NEW len, len \in Sizes, Splits(len)
    PROVE  /\ len \in Nat /\ len > 0 /\ config.fragment \in Nat /\ config.fragment > 0
           /\ HeaderBufLen(len) \in Nat /\ Needed(len) = len + HeaderBufLen(len)
           /\ Fragments(calls + 1, len) \in Seq(Cells)
<1>1. len \in Nat /\ len > 0 /\ config.fragment \in Nat /\ config.fragment > 0 /\ calls + 1 \in Nat
  BY ConfigIs DEF Splits
<1>2. HeaderBufLen(len) \in Nat
  BY <1>1, HeaderLengths
<1>3. Fragments(calls + 1, len) \in Seq(Cells)
  BY <1>1, FragmentCells
<1> QED BY <1>1, <1>2, <1>3 DEF Needed

\* The buffer, grown for the headers or for the whole message.
LEMMA GrownBounds ==
    ASSUME TypeOK, NEW len, len \in Sizes, Splits(len), NEW n, n \in Nat, n <= len + HeaderBufLen(len)
    PROVE  Grow(buf, n) \in Seq(Cells) /\ Bounded(Grow(buf, n)) /\ n <= Len(Grow(buf, n))
<1> DEFINE g == Grow(buf, n)
<1>1. buf \in Seq(Cells) /\ Len(buf) \in Nat /\ Bounded(buf)
  BY Bounds, LenProperties
<1>2. g \in Seq(Cells) /\ Len(g) = IF Len(buf) <= n THEN n ELSE Len(buf)
  BY <1>1, GrownCells
<1>3. Needed(len) = len + HeaderBufLen(len)
  BY SplitIs
<1> HIDE DEF g
<1>4. CASE Len(buf) <= n
  <2>1. Len(g) = n
    BY <1>2, <1>4
  <2>2. Len(g) <= Needed(len)
    BY <1>3, <2>1
  <2> QED BY <1>2, <2>1, <2>2 DEF Bounded, g
<1>5. CASE ~(Len(buf) <= n)
  <2>1. Len(g) = Len(buf) /\ Len(buf) > n
    BY <1>1, <1>2, <1>5
  <2>2. buf # <<>>
    BY <2>1
  <2>3. PICK l \in Sizes : Len(buf) <= Needed(l)
    BY <1>1, <2>2 DEF Bounded
  <2> QED BY <1>1, <1>2, <2>1, <2>3 DEF Bounded, g
<1> QED BY <1>1, <1>4, <1>5

LEMMA FragmentMaskedTyped == TypeOK /\ FragmentMasked => TypeOK'
<1> SUFFICES ASSUME TypeOK, FragmentMasked PROVE TypeOK'
  OBVIOUS
<1>1. PICK len \in Sizes :
        /\ Splits(len)
        /\ Begin(Fragments(calls + 1, len))
        /\ buf' = Grow(buf, len + HeaderBufLen(len))
        /\ pc' = "panicked"
        /\ split' = TRUE
        /\ UNCHANGED <<wire, rest, failed>>
  BY DEF FragmentMasked
<1>2. Fragments(calls + 1, len) \in Seq(Cells) /\ len \in Nat /\ HeaderBufLen(len) \in Nat
  BY <1>1, SplitIs
<1>3. buf' \in Seq(Cells) /\ Bounded(buf')
  <2> DEFINE n == len + HeaderBufLen(len)
  <2>1. n \in Nat /\ n <= len + HeaderBufLen(len)
    BY <1>2
  <2>2. Grow(buf, n) \in Seq(Cells) /\ Bounded(Grow(buf, n))
    <3> HIDE DEF n
    <3> QED BY <1>1, <2>1, GrownBounds
  <2> QED BY <1>1, <2>2
<1>4. pc = "idle"
  BY <1>1 DEF Begin
<1>5. /\ wire' \in Seq(Cells) /\ rest' \in Seq(Cells) /\ Paced(rest', pc')
      /\ failed' \in BOOLEAN /\ split' \in BOOLEAN
  BY <1>1, <1>4 DEF TypeOK, Paced
<1> QED BY <1>1, <1>2, <1>3, <1>5, CallTyping

\* The pieces of a split message as write_vectored gets them.
Slices(b, len) ==
    LET size == config.fragment
        n == Chunks(len, size)
        hl == header_len(FALSE, size)
    IN FlattenSeq([i \in 1 .. n |->
           SubSeq(b, (i - 1) * hl + 1, IF i = n THEN Len(b) ELSE i * hl)
           \o Chunk(calls + 1, len, size, i)])

LEMMA FragmentUnmaskedTyped == TypeOK /\ FragmentUnmasked => TypeOK'
<1> SUFFICES ASSUME TypeOK, FragmentUnmasked PROVE TypeOK'
  OBVIOUS
<1>1. PICK len \in Sizes :
        LET b == WithHeaders(Grow(buf, HeaderBufLen(len)), len)
            lastChunk == Chunk(calls + 1, len, config.fragment, Chunks(len, config.fragment))
        IN /\ ~config.mask
           /\ Splits(len)
           /\ Begin(Fragments(calls + 1, len))
           /\ split' = TRUE
           /\ \/ /\ pc' = "panicked"
                 /\ buf' = Grow(buf, HeaderBufLen(len))
                 /\ UNCHANGED <<wire, rest, failed>>
              \/ /\ failed' = TRUE
                 /\ buf' = b
                 /\ UNCHANGED <<wire, rest, pc>>
              \/ /\ \E k \in 0 .. Len(Slices(b, len)) :
                      LET remain == len + HeaderBufLen(len) - k
                      IN /\ wire' = wire \o SubSeq(Slices(b, len), 1, k)
                         /\ IF remain > Len(lastChunk) \/ remain < 0
                            THEN pc' = "panicked" /\ UNCHANGED rest
                            ELSE Owes(SubSeq(lastChunk, Len(lastChunk) - remain + 1,
                                             Len(lastChunk)), "sending")
                 /\ buf' = IF pc' = "idle" THEN Renewed(b) ELSE b
                 /\ UNCHANGED failed
  BY DEF FragmentUnmasked, Slices
<1> DEFINE grown == Grow(buf, HeaderBufLen(len))
           b == WithHeaders(grown, len)
           lastChunk == Chunk(calls + 1, len, config.fragment, Chunks(len, config.fragment))
           hbl == HeaderBufLen(len)
           slices == Slices(b, len)
<1>2. /\ len \in Nat /\ len > 0 /\ config.fragment \in Nat /\ config.fragment > 0
      /\ hbl \in Nat /\ Fragments(calls + 1, len) \in Seq(Cells)
  BY <1>1, SplitIs
<1>3. grown \in Seq(Cells) /\ Bounded(grown) /\ hbl <= Len(grown)
  <2>1. hbl \in Nat /\ hbl <= len + HeaderBufLen(len)
    BY <1>2
  <2> QED BY <1>1, <2>1, GrownBounds
<1> HIDE DEF grown
<1>4. b \in Seq(Cells) /\ Len(b) = Len(grown)
  BY <1>2, <1>3, HeadersWritten
<1>5. Bounded(b)
  <2>1. Len(grown) = 0 => b = <<>>
    BY <1>4, EmptySeq
  <2>2. grown = <<>> => Len(grown) = 0
    OBVIOUS
  <2> HIDE DEF b
  <2> QED BY <1>3, <1>4, <2>1, <2>2 DEF Bounded
<1>6. pc = "idle" /\ rest = <<>> /\ rest \in Seq(Cells) /\ wire \in Seq(Cells)
      /\ failed \in BOOLEAN /\ split' \in BOOLEAN
  <2>1. pc = "idle" /\ split' = TRUE
    BY <1>1 DEF Begin
  <2> QED BY <2>1 DEF TypeOK
<1>7. Begin(Fragments(calls + 1, len))
  BY <1>1
<1>8. CASE pc' = "panicked" /\ buf' = grown /\ UNCHANGED <<wire, rest, failed>>
  <2>1. /\ buf' \in Seq(Cells) /\ Bounded(buf') /\ wire' \in Seq(Cells) /\ rest' \in Seq(Cells)
        /\ failed' \in BOOLEAN /\ Paced(rest', pc')
    BY <1>3, <1>6, <1>8 DEF Paced
  <2> QED BY <1>2, <1>6, <1>7, <2>1, CallTyping
<1>9. CASE failed' = TRUE /\ buf' = b /\ UNCHANGED <<wire, rest, pc>>
  <2>1. /\ buf' \in Seq(Cells) /\ Bounded(buf') /\ wire' \in Seq(Cells) /\ rest' \in Seq(Cells)
        /\ failed' \in BOOLEAN /\ Paced(rest', pc')
    BY <1>4, <1>5, <1>6, <1>9 DEF Paced
  <2> QED BY <1>2, <1>6, <1>7, <2>1, CallTyping
<1>10. ASSUME NEW k \in 0 .. Len(slices),
              wire' = wire \o SubSeq(slices, 1, k),
              LET remain == len + hbl - k
              IN IF remain > Len(lastChunk) \/ remain < 0
                 THEN pc' = "panicked" /\ UNCHANGED rest
                 ELSE Owes(SubSeq(lastChunk, Len(lastChunk) - remain + 1, Len(lastChunk)), "sending"),
              buf' = IF pc' = "idle" THEN Renewed(b) ELSE b, UNCHANGED failed
       PROVE  TypeOK'
  <2>1. buf' \in Seq(Cells) /\ Bounded(buf')
    <3> HIDE DEF b
    <3> QED BY <1>4, <1>5, <1>10, RenewedBounds
  <2>2. slices \in Seq(Cells)
    <3>1. hbl <= Len(b) /\ ~config.mask /\ calls + 1 \in Nat
      BY <1>1, <1>3, <1>4, ConfigIs
    <3> HIDE DEF b
    <3> QED BY <1>2, <1>4, <3>1, SlicesAreCells DEF Slices
  <2>3. wire' \in Seq(Cells)
    <3> DEFINE a == SubSeq(slices, 1, k)
    <3> HIDE DEF slices
    <3>1. a \in Seq(Cells) /\ wire \in Seq(Cells) /\ wire' = wire \o a
      BY <1>6, <1>10, <2>2, CutJoins
    <3> HIDE DEF a
    <3> QED BY <3>1, ConcatProperties
  <2>4. lastChunk \in Seq(Cells) /\ Len(lastChunk) \in Nat
    <3>1. calls + 1 \in Nat /\ Chunks(len, config.fragment) \in 1 .. Chunks(len, config.fragment)
      <4>1. calls + 1 \in Nat
        BY ConfigIs
      <4>2. Chunks(len, config.fragment) \in Nat /\ Chunks(len, config.fragment) >= 1
        BY <1>2, ChunksFit
      <4> QED BY <4>1, <4>2
    <3>2. lastChunk \in Seq(Cells)
      BY <1>2, <3>1, ChunkCells
    <3> QED BY <3>2, LenProperties
  <2> DEFINE remain == len + hbl - k
             from == Len(lastChunk) - remain
             left == SubSeq(lastChunk, from + 1, Len(lastChunk))
  <2>5. CASE remain > Len(lastChunk) \/ remain < 0
    <3>1. pc' = "panicked" /\ rest' = <<>>
      BY <1>6, <1>10, <2>5
    <3> QED BY <1>2, <1>6, <1>7, <1>10, <2>1, <2>3, <3>1, CallTyping DEF Paced
  <2>6. CASE ~(remain > Len(lastChunk) \/ remain < 0)
    <3>1. from \in Nat
      <4>1. k \in Nat
        <5>1. Len(slices) \in Nat
          BY <2>2, LenProperties
        <5> QED BY <5>1
      <4> HIDE DEF lastChunk, hbl
      <4> QED BY <1>2, <2>4, <2>6, <4>1
    <3>2. Owes(left, "sending")
      BY <1>10, <2>6
    <3> HIDE DEF from, lastChunk
    <3>3. left \in Seq(Cells)
      BY <2>4, <3>1, Slice
    <3> HIDE DEF left
    <3>4. rest' \in Seq(Cells) /\ Paced(rest', pc')
      BY <3>2, <3>3 DEF Owes, Paced
    <3> QED BY <1>2, <1>6, <1>7, <1>10, <2>1, <2>3, <3>4, CallTyping
  <2> QED BY <2>5, <2>6
<1> QED BY <1>1, <1>8, <1>9, <1>10 DEF grown

LEMMA NextTyped == TypeOK /\ [Next]_vars => TypeOK'
<1> SUFFICES ASSUME TypeOK, [Next]_vars PROVE TypeOK'
  OBVIOUS
<1>1. CASE UNCHANGED vars
  BY <1>1 DEF vars, TypeOK, BufBounded, Needed, Splits, HeaderBufLen
<1> QED BY <1>1, SendTyped, SendOwnedFrameTyped, WriteAllCallsTyped, SendFailsTyped, WriteAllTyped,
           WriteFailsTyped, FragmentMaskedTyped, FragmentUnmaskedTyped DEF Next

(* Whatever the sizes, the chunk size and the calls: the reused buffer never
   outgrows the largest message, what goes out is header and payload cells and
   the zeroes of a split message's buffer, and cells are owed exactly while a
   write_all is in progress. *)
THEOREM WriterTypes == Spec => []TypeOK
BY InitTyped, NextTyped, PTL DEF Spec

=============================================================================
