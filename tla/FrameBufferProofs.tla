-------------------------- MODULE FrameBufferProofs --------------------------
(***************************************************************************)
(* The read buffer is safe for every initial length, poll size, stream     *)
(* length, set of frame sizes, capacity and width of a usize.  Invariant   *)
(* is inductive: the index facts need the types, order and contiguity need *)
(* the index facts, a lent payload is located relative to the unread bytes *)
(* that follow it, and what makes receive panic needs the capacity bound.  *)
(***************************************************************************)
EXTENDS FrameBuffer, SequenceTheorems, TLAPS

LostBound == lost <= taken

CapacityBound == Len(buf) <= Capacity

Invariant ==
    /\ TypeOK
    /\ IndexOK
    /\ LostBound
    /\ InOrder
    /\ Contiguous
    /\ LentIntact
    /\ MemoryBound
    /\ CapacityBound
    /\ PanicsOnlyOnHugeFrames

-----------------------------------------------------------------------------
(* A function on 1 .. n is a sequence of length n. *)
LEMMA FunctionIsSeq ==
    ASSUME NEW S, NEW n \in Nat, NEW f \in [1 .. n -> S]
    PROVE  f \in Seq(S) /\ Len(f) = n
OBVIOUS

(* Vec::resize keeps what is there, pads with the filler and never shrinks. *)
LEMMA GrowFacts ==
    ASSUME NEW s \in Seq(0 .. StreamLen), NEW n \in Nat
    PROVE  /\ Grow(s, n) \in Seq(0 .. StreamLen)
           /\ Len(Grow(s, n)) = IF n > Len(s) THEN n ELSE Len(s)
           /\ \A i \in 1 .. Len(s) : Grow(s, n)[i] = s[i]
BY SizesAssumption DEF Grow

(* prepare(size): room for size bytes after the write index, the unread bytes
   kept in order right before it, and a length that only changes to what the
   unread bytes and the new ones need together. *)
LEMMA PrepareFacts ==
    ASSUME TypeOK, IndexOK, NEW size \in Nat
    PROVE  LET b == Prepare(size)
           IN /\ b.buf \in Seq(0 .. StreamLen)
              /\ b.produce \in Nat
              /\ b.consume \in Nat
              /\ b.produce - b.consume = AvaLen
              /\ b.produce + size <= Len(b.buf)
              /\ \A i \in 1 .. AvaLen : b.buf[b.consume + i] = buf[consume_idx + i]
              /\ Len(b.buf) = Len(buf) \/ Len(b.buf) = size + AvaLen
<1> DEFINE b == Prepare(size)
<1>1. AvaLen \in Nat /\ Len(buf) \in Nat
  BY DEF TypeOK, IndexOK, AvaLen
<1>2. CASE Len(buf) - produce_idx >= size
  <2>1. b = [buf |-> buf, produce |-> produce_idx, consume |-> consume_idx]
    BY <1>2 DEF Prepare
  <2>2. produce_idx + size <= Len(buf)
    BY <1>1, <1>2 DEF TypeOK
  <2> QED BY <2>1, <2>2 DEF TypeOK, AvaLen
<1>3. CASE ~(Len(buf) - produce_idx >= size)
  <2> DEFINE grown == Grow(buf, size + AvaLen)
             moved == [i \in 1 .. Len(grown) |->
                         IF i <= AvaLen THEN buf[consume_idx + i] ELSE grown[i]]
  <2>1. b = [buf |-> moved, produce |-> AvaLen, consume |-> 0]
    BY <1>3 DEF Prepare
  <2>2. /\ grown \in Seq(0 .. StreamLen)
        /\ Len(grown) = Len(buf) \/ Len(grown) = size + AvaLen
        /\ Len(grown) >= size + AvaLen
        /\ Len(grown) >= Len(buf)
        /\ Len(grown) \in Nat
    <3>1. size + AvaLen \in Nat
      BY <1>1
    <3> HIDE DEF grown
    <3> QED BY <3>1, <1>1, GrowFacts DEF TypeOK, grown
  <2> HIDE DEF grown
  <2>3. \A i \in 1 .. AvaLen : buf[consume_idx + i] \in 0 .. StreamLen
    <3> TAKE i \in 1 .. AvaLen
    <3>1. consume_idx + i \in 1 .. Len(buf)
      BY <1>1 DEF TypeOK, IndexOK, AvaLen
    <3> QED BY <3>1, ElementOfSeq DEF TypeOK
  <2>4. moved \in Seq(0 .. StreamLen) /\ Len(moved) = Len(grown)
    <3>1. \A i \in 1 .. Len(grown) : grown[i] \in 0 .. StreamLen
      BY <2>2, ElementOfSeq
    <3>2. moved \in [1 .. Len(grown) -> 0 .. StreamLen]
      BY <3>1, <2>3, <2>2, <1>1
    <3> QED BY <3>2, <2>2, FunctionIsSeq
  <2>5. \A i \in 1 .. AvaLen : moved[0 + i] = buf[consume_idx + i]
    BY <2>2, <1>1
  <2> HIDE DEF moved
  <2>6. /\ b.buf = moved
        /\ b.produce = AvaLen
        /\ b.consume = 0
    BY <2>1
  <2> HIDE DEF b
  <2> QED BY <2>2, <2>4, <2>5, <2>6, <1>1 DEF b
<1> QED BY <1>2, <1>3

(* A read writes the next stream bytes after the write index and nothing else. *)
LEMMA FillFacts ==
    ASSUME NEW s \in Seq(0 .. StreamLen), NEW at \in Nat, NEW n \in Nat,
           taken \in Nat, taken + n <= StreamLen
    PROVE  /\ Fill(s, at, n) \in Seq(0 .. StreamLen)
           /\ Len(Fill(s, at, n)) = Len(s)
           /\ \A i \in 1 .. at : i <= Len(s) => Fill(s, at, n)[i] = s[i]
           /\ \A i \in 1 .. n : at + i <= Len(s) => Fill(s, at, n)[at + i] = taken + i
<1>1. Len(s) \in Nat /\ \A i \in 1 .. Len(s) : s[i] \in 0 .. StreamLen
  <2>1. Len(s) \in Nat
    BY LenProperties
  <2>2. \A i \in 1 .. Len(s) : s[i] \in 0 .. StreamLen
    <3> TAKE i \in 1 .. Len(s)
    <3> QED BY ElementOfSeq
  <2> QED BY <2>1, <2>2
<1>2. Fill(s, at, n) \in [1 .. Len(s) -> 0 .. StreamLen]
  BY <1>1, SizesAssumption DEF Fill
<1>3. Fill(s, at, n) \in Seq(0 .. StreamLen) /\ Len(Fill(s, at, n)) = Len(s)
  BY <1>1, <1>2, FunctionIsSeq
<1> QED BY <1>1, <1>3 DEF Fill

LEMMA FillNothing ==
    ASSUME NEW s \in Seq(0 .. StreamLen), NEW at \in Nat
    PROVE  Fill(s, at, 0) = s
<1>1. \A i \in 1 .. Len(s) : ~(at < i /\ i <= at + 0)
  BY LenProperties
<1>2. Fill(s, at, 0) = [i \in 1 .. Len(s) |-> s[i]]
  BY <1>1 DEF Fill
<1> QED BY <1>2

-----------------------------------------------------------------------------
(* What the three calls that touch the stream have in common: they prepare size
   bytes, the stream writes n of them and k are counted, which is all of them
   or, after an interruption, none. *)
ReadInto(size, n, k) ==
    LET b == Prepare(size)
    IN /\ buf' = Fill(b.buf, b.produce, n)
       /\ produce_idx' = b.produce + k
       /\ consume_idx' = b.consume
       /\ taken' = taken + n
       /\ lost' = lost + (n - k)
       /\ out' = NoRange
       /\ UNCHANGED <<frame, panicked>>

\* The length buf may take when size bytes are prepared.
Fits(size) ==
    \E f \in Frames : \/ size + AvaLen < f.header + ResizeSize
                      \/ size + AvaLen <= Total(f)

LEMMA ReadPreserves ==
    ASSUME Invariant,
           NEW size \in Nat, NEW n \in 0 .. (StreamLen - taken), NEW k \in {0, n},
           n <= size, Fits(size), RoomFor(size), ReadInto(size, n, k)
    PROVE  Invariant'
<1> DEFINE pbuf == Prepare(size).buf
           pp == Prepare(size).produce
           pc == Prepare(size).consume
<1> USE SizesAssumption
<1>1. /\ pbuf \in Seq(0 .. StreamLen)
      /\ pp \in Nat
      /\ pc \in Nat
      /\ pp - pc = AvaLen
      /\ pp + size <= Len(pbuf)
      /\ \A i \in 1 .. AvaLen : pbuf[pc + i] = buf[consume_idx + i]
      /\ Len(pbuf) = Len(buf) \/ Len(pbuf) = size + AvaLen
  BY PrepareFacts DEF Invariant
<1>2. /\ buf' = Fill(pbuf, pp, n)
      /\ produce_idx' = pp + k
      /\ consume_idx' = pc
      /\ taken' = taken + n
      /\ lost' = lost + (n - k)
      /\ out' = NoRange
      /\ frame' = frame
      /\ panicked' = panicked
      /\ Len(pbuf) <= Capacity
  BY DEF ReadInto, RoomFor
<1> HIDE DEF pbuf, pp, pc
<1>3. /\ AvaLen \in Nat /\ Len(pbuf) \in Nat /\ Len(buf) \in Nat
      /\ taken \in Nat /\ taken <= StreamLen /\ taken + n <= StreamLen
      /\ n \in Nat /\ k \in Nat /\ k <= n
      /\ lost \in Nat /\ lost <= taken
  <2>1. AvaLen \in Nat
    BY DEF Invariant, TypeOK, IndexOK, AvaLen
  <2>2. Len(pbuf) \in Nat /\ Len(buf) \in Nat
    BY <1>1, LenProperties DEF Invariant, TypeOK
  <2>3. taken \in Nat /\ taken <= StreamLen /\ lost \in Nat /\ lost <= taken
    BY DEF Invariant, TypeOK, LostBound
  <2>4. n \in Nat /\ taken + n <= StreamLen
    BY <2>3
  <2> QED BY <2>1, <2>2, <2>3, <2>4
<1>4. /\ buf' \in Seq(0 .. StreamLen)
      /\ Len(buf') = Len(pbuf)
      /\ \A i \in 1 .. pp : i <= Len(pbuf) => buf'[i] = pbuf[i]
      /\ \A i \in 1 .. n : pp + i <= Len(pbuf) => buf'[pp + i] = taken + i
  <2>1. /\ Fill(pbuf, pp, n) \in Seq(0 .. StreamLen)
        /\ Len(Fill(pbuf, pp, n)) = Len(pbuf)
        /\ \A i \in 1 .. pp : i <= Len(pbuf) => Fill(pbuf, pp, n)[i] = pbuf[i]
        /\ \A i \in 1 .. n : pp + i <= Len(pbuf) => Fill(pbuf, pp, n)[pp + i] = taken + i
    <3>1. pbuf \in Seq(0 .. StreamLen) /\ pp \in Nat /\ n \in Nat
          /\ taken \in Nat /\ taken + n <= StreamLen
      BY <1>1, <1>3
    <3> HIDE DEF pbuf, pp
    <3> QED BY ONLY <3>1, FillFacts
  <2> QED BY <1>2, <2>1
<1>5. AvaLen' = AvaLen + k
  BY <1>1, <1>2, <1>3 DEF AvaLen
<1>6. \A i \in 1 .. AvaLen : buf'[consume_idx' + i] = buf[consume_idx + i]
  <2> TAKE i \in 1 .. AvaLen
  <2>1. pc + i \in 1 .. pp /\ pc + i <= Len(pbuf)
    BY <1>1, <1>3
  <2>2. buf'[pc + i] = pbuf[pc + i]
    BY <2>1, <1>4
  <2> QED BY <2>2, <1>1, <1>2
<1>7. \A i \in 1 .. k : buf'[consume_idx' + (AvaLen + i)] = taken + i
  <2> TAKE i \in 1 .. k
  <2>1. i \in 1 .. n /\ pp + i <= Len(pbuf)
    <3>1. n \in Nat /\ k \in Nat /\ k <= n /\ n <= size
      BY <1>3
    <3>2. pp \in Nat /\ Len(pbuf) \in Nat /\ pp + size <= Len(pbuf)
      BY <1>1, <1>3
    <3> QED BY ONLY <3>1, <3>2, size \in Nat, i \in 1 .. k
  <2>2. buf'[pp + i] = taken + i
    BY <2>1, <1>4
  <2>3. pp + i = consume_idx' + (AvaLen + i)
    BY <1>1, <1>2, <1>3
  <2> QED BY <2>2, <2>3
<1>8. TypeOK'
  BY <1>1, <1>2, <1>3, <1>4 DEF TypeOK, Invariant, NoRange
<1>9. IndexOK'
  BY <1>1, <1>2, <1>3, <1>4 DEF IndexOK, NoRange
<1>10. LostBound'
  BY <1>2, <1>3 DEF LostBound
<1>11. InOrder'
  <2> SUFFICES ASSUME NEW i \in 1 .. AvaLen'
               PROVE  /\ buf'[consume_idx' + i] \in 1 .. taken'
                      /\ i < AvaLen' => buf'[consume_idx' + i] < buf'[consume_idx' + (i + 1)]
    <3>1. consume_idx' \in Nat /\ \A i \in 1 .. AvaLen' :
            consume_idx' + (i + 1) = consume_idx' + i + 1
      BY <1>1, <1>2, <1>3, <1>5
    <3> QED BY <3>1 DEF InOrder
  <2>1. /\ \A j \in 1 .. AvaLen : buf[consume_idx + j] \in 1 .. taken
        /\ \A j \in 1 .. AvaLen : j < AvaLen =>
              buf[consume_idx + j] < buf[consume_idx + (j + 1)]
    <3>1. consume_idx \in Nat /\ \A j \in 1 .. AvaLen :
            consume_idx + (j + 1) = consume_idx + j + 1
      BY <1>3 DEF Invariant, TypeOK
    <3> QED BY <3>1 DEF Invariant, InOrder
  <2>2. \A j \in 1 .. AvaLen' :
            \/ j \in 1 .. AvaLen
            \/ j - AvaLen \in 1 .. k /\ buf'[consume_idx' + j] = taken + (j - AvaLen)
    <3> TAKE j \in 1 .. AvaLen'
    <3>1. CASE j <= AvaLen
      BY <3>1, <1>3, <1>5
    <3>2. CASE ~(j <= AvaLen)
      <4>1. j - AvaLen \in 1 .. k
        BY <3>2, <1>3, <1>5
      <4>2. AvaLen + (j - AvaLen) = j
        BY <1>3
      <4> QED BY <4>1, <4>2, <1>7
    <3> QED BY <3>1, <3>2
  <2>3. CASE i < AvaLen
    BY <2>3, <2>1, <1>2, <1>3, <1>6
  <2>4. CASE i = AvaLen
    <3>1. buf'[consume_idx' + i] \in 1 .. taken
      BY <2>4, <2>1, <1>6
    <3>2. ASSUME i < AvaLen'
          PROVE  buf'[consume_idx' + (i + 1)] = taken + 1
      <4>1. 1 \in 1 .. k /\ AvaLen + 1 = i + 1
        BY <3>2, <2>4, <1>3, <1>5
      <4> QED BY <4>1, <1>7
    <3> QED BY <3>1, <3>2, <1>2, <1>3
  <2>5. CASE i > AvaLen
    BY <2>5, <2>2, <1>2, <1>3, <1>5
  <2> QED BY <2>3, <2>4, <2>5, <1>3, <1>5
<1>12. Contiguous'
  <2> SUFFICES ASSUME lost' = 0, NEW i \in 1 .. AvaLen'
               PROVE  buf'[consume_idx' + i] = taken' - AvaLen' + i
    BY DEF Contiguous
  <2>1. lost = 0 /\ k = n
    BY <1>2, <1>3
  <2>2. CASE i <= AvaLen
    <3>1. buf[consume_idx + i] = taken - AvaLen + i
      BY <2>1, <2>2, <1>3 DEF Invariant, Contiguous
    <3> QED BY <3>1, <2>1, <2>2, <1>2, <1>3, <1>5, <1>6
  <2>3. CASE ~(i <= AvaLen)
    <3>1. i - AvaLen \in 1 .. k /\ AvaLen + (i - AvaLen) = i
      BY <2>3, <1>3, <1>5
    <3>2. buf'[consume_idx' + i] = taken + (i - AvaLen)
      BY <3>1, <1>7
    <3> QED BY <3>2, <2>1, <1>2, <1>3, <1>5
  <2> QED BY <2>2, <2>3
<1>13. LentIntact'
  BY <1>2 DEF LentIntact, NoRange
<1>14. MemoryBound'
  BY <1>1, <1>2, <1>3, <1>4 DEF MemoryBound, Invariant, Fits
<1>15. CapacityBound'
  BY <1>2, <1>4 DEF CapacityBound
<1>16. PanicsOnlyOnHugeFrames'
  BY <1>2 DEF PanicsOnlyOnHugeFrames, Invariant
<1> QED BY <1>8, <1>9, <1>10, <1>11, <1>12, <1>13, <1>14, <1>15, <1>16 DEF Invariant

-----------------------------------------------------------------------------
(* The buffer starts empty. *)
LEMMA InitInvariant == Init => Invariant
<1> SUFFICES ASSUME Init PROVE Invariant
  OBVIOUS
<1> USE SizesAssumption
<1>1. AvaLen = 0
  BY DEF Init, AvaLen
<1>2. buf \in Seq(0 .. StreamLen) /\ Len(buf) = InitLen
  <2>1. buf \in [1 .. InitLen -> 0 .. StreamLen]
    BY DEF Init
  <2> QED BY <2>1, FunctionIsSeq
<1>3. TypeOK
  <2>1. panicked \in BOOLEAN
    BY Zenon DEF Init
  <2> QED BY <1>2, <2>1 DEF Init, TypeOK, NoRange
<1>4. IndexOK
  BY <1>2 DEF Init, IndexOK, NoRange
<1>5. LostBound
  BY DEF Init, LostBound
<1>6. InOrder /\ Contiguous
  BY <1>1 DEF InOrder, Contiguous
<1>7. LentIntact
  BY DEF Init, LentIntact, NoRange
<1>8. MemoryBound
  BY <1>2 DEF MemoryBound
<1>9. CapacityBound /\ PanicsOnlyOnHugeFrames
  BY <1>2, WidthAssumption DEF Init, CapacityBound, PanicsOnlyOnHugeFrames
<1> QED BY <1>3, <1>4, <1>5, <1>6, <1>7, <1>8, <1>9 DEF Invariant

(* k % w is k, or k has at least w values below it; it is never more than k. *)
LEMMA Wraps ==
    ASSUME NEW k, k \in Nat, NEW w, w \in Nat, w > 0
    PROVE  k % w \in Nat /\ k % w <= k /\ (k % w # k => w <= k)
<1>1. CASE k < w
  <2>1. k = w * 0 + k /\ 0 <= k /\ k < w
    BY <1>1
  <2> QED BY <1>1, <2>1, SMT
<1>2. CASE k >= w
  <2>1. k % w \in 0 .. (w - 1)
    BY SMT
  <2> QED BY <1>2, <2>1
<1> QED BY <1>1, <1>2

(* A sum of two usizes either is exact or has wrapped. *)
LEMMA TotalFacts ==
    ASSUME NEW f \in Frames
    PROVE  /\ f.header \in Nat /\ f.payload \in Nat /\ f.header >= 2
           /\ Total(f) \in Nat
           /\ Total(f) <= f.header + f.payload
           /\ Total(f) # f.header + f.payload => Width <= f.header + f.payload
<1>1. f.header \in Nat /\ f.payload \in Nat /\ f.header >= 2
  BY FramesAssumption DEF HeaderSizes
<1>2. Width \in Nat /\ Width > 0
  BY <1>1, WidthAssumption
<1> DEFINE sum == f.header + f.payload
<1>3. sum \in Nat
  BY <1>1
<1>4. Total(f) = sum % Width
  BY DEF Total
<1> HIDE DEF sum
<1>5. sum % Width \in Nat /\ sum % Width <= sum /\ (sum % Width # sum => Width <= sum)
  BY <1>2, <1>3, Wraps
<1> QED BY <1>1, <1>4, <1>5 DEF sum

(* There is always room for a poll behind a partial header. *)
LEMMA PollHasRoom ==
    ASSUME Invariant, ~HeaderOk
    PROVE  RoomFor(ResizeSize)
<1>1. /\ Len(Prepare(ResizeSize).buf) = Len(buf)
         \/ Len(Prepare(ResizeSize).buf) = ResizeSize + AvaLen
      /\ AvaLen \in Nat
  BY PrepareFacts, SizesAssumption DEF Invariant, TypeOK, IndexOK, AvaLen
<1>2. Len(buf) <= Capacity /\ ResizeSize \in Nat /\ Capacity \in Nat
  BY SizesAssumption, WidthAssumption DEF Invariant, CapacityBound
<1>3. frame \in Frames /\ frame.header \in Nat /\ frame.header + ResizeSize <= Capacity
  BY TotalFacts, WidthAssumption DEF Invariant, TypeOK
<1> QED BY <1>1, <1>2, <1>3 DEF RoomFor, HeaderOk

(* The numbers a step computes with are numbers. *)
LEMMA FrameFacts ==
    ASSUME Invariant
    PROVE  /\ frame \in Frames /\ frame.header \in Nat /\ frame.payload \in Nat
           /\ frame.header >= 2 /\ Total(frame) \in Nat
           /\ AvaLen \in Nat /\ taken \in Nat /\ lost \in Nat
           /\ Missing \in Int
<1>1. AvaLen \in Nat /\ taken \in Nat /\ lost \in Nat
  BY DEF Invariant, TypeOK, IndexOK, AvaLen
<1> QED BY <1>1, TotalFacts DEF Missing, Invariant, TypeOK

(* A frame that is consumed is whole, and it fits memory. *)
LEMMA ConsumeFacts ==
    ASSUME Invariant, ConsumeFrame
    PROVE  /\ Total(frame) = frame.header + frame.payload
           /\ Total(frame) <= AvaLen
           /\ ~panicked
<1>1. /\ frame.header \in Nat /\ frame.payload \in Nat /\ AvaLen \in Nat
      /\ Total(frame) \in Nat
  BY FrameFacts
<1>2. Total(frame) # frame.header + frame.payload => Width <= frame.header + frame.payload
  BY TotalFacts DEF Invariant, TypeOK
<1>3. AvaLen <= Capacity
  BY LenProperties, WidthAssumption
     DEF Invariant, TypeOK, IndexOK, CapacityBound, AvaLen
<1>4. frame.header + frame.payload <= AvaLen
  BY <1>1 DEF ConsumeFrame, PayloadThere
<1> QED BY <1>1, <1>2, <1>3, <1>4, WidthAssumption
        DEF Invariant, PanicsOnlyOnHugeFrames

(* What the two panics share: nothing moves, and the frame is huge. *)
LEMMA PanicPreserves ==
    ASSUME Invariant,
           UNCHANGED <<buf, produce_idx, consume_idx, frame, taken, lost>>,
           out' = NoRange, panicked' = TRUE,
           frame.header + frame.payload > Capacity
    PROVE  Invariant'
<1>1. TypeOK' /\ IndexOK'
  BY DEF Invariant, TypeOK, IndexOK, NoRange
<1>2. LostBound' /\ InOrder' /\ Contiguous'
  BY DEF Invariant, LostBound, InOrder, Contiguous, AvaLen
<1>3. LentIntact'
  BY DEF LentIntact, NoRange
<1>4. MemoryBound' /\ CapacityBound' /\ PanicsOnlyOnHugeFrames'
  BY DEF Invariant, MemoryBound, CapacityBound, PanicsOnlyOnHugeFrames
<1> QED BY <1>1, <1>2, <1>3, <1>4 DEF Invariant

(* Every step of the reader preserves the invariant: the three reads by
   ReadPreserves, cutting a frame off because it only moves consume_idx over
   bytes that are there. *)
LEMMA NextInvariant == Invariant /\ [Next]_vars => Invariant'
<1> SUFFICES ASSUME Invariant, [Next]_vars PROVE Invariant'
  OBVIOUS
<1> USE SizesAssumption
<1>1. /\ frame \in Frames /\ frame.header \in Nat /\ frame.payload \in Nat
      /\ frame.header >= 2 /\ Total(frame) \in Nat
      /\ AvaLen \in Nat /\ taken \in Nat /\ lost \in Nat
  BY FrameFacts
<1>2. CASE Poll
  <2>1. PICK n \in 1 .. (StreamLen - taken) :
          /\ n <= ResizeSize
          /\ ReadInto(ResizeSize, n, n)
    <3>1. \A n \in 1 .. (StreamLen - taken) : lost + (n - n) = lost
      BY <1>1
    <3> QED BY <1>2, <3>1 DEF Poll, ReadInto
  <2>2. Fits(ResizeSize)
    BY <1>1, <1>2 DEF Poll, HeaderOk, Fits
  <2>3. n \in 0 .. (StreamLen - taken) /\ n \in {0, n}
    OBVIOUS
  <2>4. RoomFor(ResizeSize)
    BY <1>2, PollHasRoom DEF Poll
  <2> QED BY <2>1, <2>2, <2>3, <2>4, ReadPreserves
<1>3. CASE PollFails
  <2>1. Prepare(ResizeSize).buf \in Seq(0 .. StreamLen) /\ Prepare(ResizeSize).produce \in Nat
    BY PrepareFacts DEF Invariant
  <2>2. ReadInto(ResizeSize, 0, 0)
    <3>1. Fill(Prepare(ResizeSize).buf, Prepare(ResizeSize).produce, 0) = Prepare(ResizeSize).buf
      BY <2>1, FillNothing
    <3>2. taken + 0 = taken /\ lost + (0 - 0) = lost
          /\ Prepare(ResizeSize).produce + 0 = Prepare(ResizeSize).produce
      BY <1>1, <2>1
    <3> QED BY <1>3, <3>1, <3>2 DEF PollFails, ReadInto
  <2>3. Fits(ResizeSize)
    BY <1>1, <1>3 DEF PollFails, HeaderOk, Fits
  <2>4. 0 \in 0 .. (StreamLen - taken) /\ 0 \in {0, 0} /\ 0 <= ResizeSize
    BY DEF Invariant, TypeOK
  <2>5. RoomFor(ResizeSize)
    BY <1>3, PollHasRoom DEF PollFails
  <2> QED BY <2>2, <2>3, <2>4, <2>5, ReadPreserves
<1>4. CASE PollOneFrame
  <2>1. /\ Missing \in 0 .. (StreamLen - taken)
        /\ Missing \in Nat /\ Missing \in {0, Missing} /\ Missing <= Missing
    BY <1>1, <1>4 DEF PollOneFrame, Missing
  <2>2. Fits(Missing)
    BY <1>1 DEF Missing, Fits
  <2>3. ReadInto(Missing, Missing, Missing)
    <3>1. lost + (Missing - Missing) = lost
      BY <1>1, <2>1
    <3> QED BY <1>4, <3>1 DEF PollOneFrame, ReadInto
  <2>4. RoomFor(Missing)
    BY <1>4 DEF PollOneFrame
  <2> HIDE DEF Missing
  <2> QED BY <2>1, <2>2, <2>3, <2>4, ReadPreserves
<1>5. CASE PollOneFrameInterrupted
  <2>1. PICK n \in 0 .. (StreamLen - taken) :
          /\ n < Missing
          /\ ReadInto(Missing, n, 0)
    <3>1. \A n \in 0 .. (StreamLen - taken) : n - 0 = n
      BY <1>1
    <3>2. Prepare(Missing).produce + 0 = Prepare(Missing).produce
      <4>1. Missing \in Nat
        BY <1>1, <1>5 DEF PollOneFrameInterrupted, Missing
      <4> QED BY <4>1, PrepareFacts DEF Invariant
    <3> QED BY <1>5, <3>1, <3>2 DEF PollOneFrameInterrupted, ReadInto
  <2>2. Missing \in Nat /\ n <= Missing
    BY <1>1, <1>5, <2>1 DEF PollOneFrameInterrupted, Missing
  <2>3. Fits(Missing)
    BY <1>1 DEF Missing, Fits
  <2>4. RoomFor(Missing)
    BY <1>5 DEF PollOneFrameInterrupted
  <2> HIDE DEF Missing
  <2> QED BY <2>1, <2>2, <2>3, <2>4, ReadPreserves
<1>6. CASE ConsumeFrame
  <2>0. /\ Total(frame) = frame.header + frame.payload
        /\ Total(frame) <= AvaLen
        /\ ~panicked
    BY <1>6, ConsumeFacts
  <2> USE <1>6 DEF ConsumeFrame
  <2>1. /\ AvaLen' = AvaLen - Total(frame)
        /\ AvaLen' \in Nat
        /\ consume_idx' = consume_idx + Total(frame)
        /\ consume_idx \in Nat
    <3>1. /\ consume_idx \in Nat /\ produce_idx \in Nat
          /\ Total(frame) \in Nat /\ Total(frame) <= produce_idx - consume_idx
          /\ produce_idx' = produce_idx /\ consume_idx' = consume_idx + Total(frame)
      BY <1>1, <2>0 DEF AvaLen, Invariant, TypeOK
    <3> QED BY <3>1 DEF AvaLen
  <2>2. \A i \in 1 .. AvaLen' : /\ Total(frame) + i \in 1 .. AvaLen
                                /\ consume_idx' + i = consume_idx + (Total(frame) + i)
                                /\ consume_idx' + i + 1 = consume_idx + (Total(frame) + i) + 1
                                /\ i < AvaLen' => Total(frame) + i < AvaLen
    BY <1>1, <2>1
  <2>3. TypeOK'
    <3>1. panicked' \in BOOLEAN /\ frame' \in Frames
      BY Zenon DEF Invariant, TypeOK
    <3>2. out' \in [s : Nat, e : Nat]
      BY <1>1, <2>1
    <3>3. /\ buf' \in Seq(0 .. StreamLen) /\ produce_idx' \in Nat
          /\ taken' \in 0 .. StreamLen /\ lost' \in 0 .. StreamLen
          /\ consume_idx' \in Nat
      BY <1>1, <2>1 DEF Invariant, TypeOK
    <3> QED BY ONLY <3>1, <3>2, <3>3 DEF TypeOK
  <2>4. IndexOK'
    <3>1. consume_idx' <= produce_idx' /\ produce_idx' <= Len(buf')
      BY <1>1, <2>0, <2>1 DEF Invariant, TypeOK, IndexOK, AvaLen
    <3>2. out'.s <= out'.e /\ out'.e <= consume_idx'
      BY <1>1, <2>0, <2>1
    <3> QED BY <3>1, <3>2 DEF IndexOK
  <2>5. LostBound'
    BY DEF Invariant, LostBound
  <2>6. InOrder'
    BY <2>2 DEF Invariant, InOrder
  <2>7. Contiguous'
    <3> SUFFICES ASSUME lost = 0, NEW i \in 1 .. AvaLen'
                 PROVE  buf[consume_idx' + i] = taken - AvaLen' + i
      BY DEF Contiguous
    <3>1. buf[consume_idx + (Total(frame) + i)] = taken - AvaLen + (Total(frame) + i)
      BY <2>2 DEF Invariant, Contiguous
    <3> QED BY <1>1, <2>1, <2>2, <3>1
  <2>8. LentIntact'
    <3> SUFFICES ASSUME lost = 0, NEW i \in 1 .. (out'.e - out'.s)
                 PROVE  buf[out'.s + i] = taken - AvaLen' - (out'.e - out'.s) + i
      BY DEF LentIntact
    <3>1. /\ out'.s = consume_idx + frame.header
          /\ out'.e - out'.s = frame.payload
      BY <1>1, <2>0, <2>1
    <3>2. frame.header + i \in 1 .. AvaLen /\ i \in 1 .. frame.payload
      BY <1>1, <2>0, <2>1, <3>1
    <3>3. buf[consume_idx + (frame.header + i)] = taken - AvaLen + (frame.header + i)
      BY <3>2 DEF Invariant, Contiguous
    <3>4. consume_idx + (frame.header + i) = out'.s + i
      BY <1>1, <2>1, <3>1, <3>2
    <3> QED BY <1>1, <2>0, <2>1, <3>1, <3>2, <3>3, <3>4
  <2>9. MemoryBound'
    BY DEF Invariant, MemoryBound
  <2>10. CapacityBound' /\ PanicsOnlyOnHugeFrames'
    BY <2>0 DEF Invariant, CapacityBound, PanicsOnlyOnHugeFrames
  <2> QED BY <2>3, <2>4, <2>5, <2>6, <2>7, <2>8, <2>9, <2>10 DEF Invariant
<1>7. CASE UNCHANGED vars
  BY <1>7 DEF vars, Invariant, TypeOK, IndexOK, LostBound, InOrder, Contiguous,
              LentIntact, MemoryBound, CapacityBound, PanicsOnlyOnHugeFrames, AvaLen
<1>8. CASE PreparePanics
  <2>1. Missing \in Nat /\ Capacity \in Nat /\ Len(buf) <= Capacity
    BY <1>1, <1>8, FrameFacts, WidthAssumption
       DEF PreparePanics, Invariant, CapacityBound
  <2>2. Len(Prepare(Missing).buf) = Len(buf) \/ Len(Prepare(Missing).buf) = Missing + AvaLen
    BY <2>1, PrepareFacts DEF Invariant
  <2>3. Len(Prepare(Missing).buf) \in Nat /\ Len(Prepare(Missing).buf) > Capacity
    <3>1. Prepare(Missing).buf \in Seq(0 .. StreamLen)
      BY <2>1, PrepareFacts DEF Invariant
    <3>2. Len(Prepare(Missing).buf) \in Nat
      BY <3>1, LenProperties
    <3> QED BY <1>8, <2>1, <3>2 DEF PreparePanics, RoomFor
  <2>4. Total(frame) > Capacity
    <3>1. Len(buf) \in Nat
      BY LenProperties DEF Invariant, TypeOK
    <3>2. Missing + AvaLen = Total(frame)
      BY <1>1 DEF Missing
    <3> HIDE DEF Missing
    <3> QED BY <2>1, <2>2, <2>3, <3>1, <3>2
  <2>5. frame.header + frame.payload > Capacity
    BY <1>1, <2>1, <2>4, TotalFacts
  <2> QED BY <1>8, <2>5, PanicPreserves DEF PreparePanics
<1>9. CASE ConsumePanics
  <2>1. Total(frame) # frame.header + frame.payload
    BY <1>1, <1>9 DEF ConsumePanics, Missing, PayloadThere
  <2>2. frame.header + frame.payload > Capacity
    BY <1>1, <2>1, TotalFacts, WidthAssumption
  <2> QED BY <1>9, <2>2, PanicPreserves DEF ConsumePanics
<1> QED BY <1>2, <1>3, <1>4, <1>5, <1>6, <1>7, <1>8, <1>9 DEF Next

LEMMA SpecInvariant == Spec => []Invariant
BY InitInvariant, NextInvariant, PTL DEF Spec

(* Types hold in every reachable state. *)
THEOREM TypeCorrect == Spec => []TypeOK
BY SpecInvariant, PTL DEF Invariant

(* The indices never leave the buffer and never cross, whatever reads fail or
   are interrupted and whatever length a header has: the slices of prepare and
   ava_data and their subtractions never panic. *)
THEOREM IndicesSafe == Spec => []IndexOK
BY SpecInvariant, PTL DEF Invariant

(* Where receive does panic, the frame at hand is larger than memory. *)
THEOREM PanicsOnlyOnHugeFramesAlways == Spec => []PanicsOnlyOnHugeFrames
BY SpecInvariant, PTL DEF Invariant

(* Resets, compactions and growth never reorder, repeat or invent bytes. *)
THEOREM BytesInOrder == Spec => []InOrder
BY SpecInvariant, PTL DEF Invariant

(* While no read_exact was interrupted the unread bytes are the latest ones of
   the stream: every frame starts where the one before it ended. *)
THEOREM BytesContiguous == Spec => []Contiguous
BY SpecInvariant, PTL DEF Invariant

(* A payload consume_frame has lent is a run of consecutive stream bytes, right
   before the next unread one. *)
THEOREM LentRangeIntact == Spec => []LentIntact
BY SpecInvariant, PTL DEF Invariant

(* Memory stays bounded by one frame or one poll behind a partial header. *)
THEOREM MemoryBounded == Spec => []MemoryBound
BY SpecInvariant, PTL DEF Invariant

-----------------------------------------------------------------------------
(* The refinement: the buffer implements the FIFO of ByteQueue. *)

LEMMA AvaFacts ==
    ASSUME TypeOK, IndexOK
    PROVE  /\ ava_data \in Seq(0 .. StreamLen)
           /\ Len(ava_data) = AvaLen
           /\ \A i \in 1 .. AvaLen : ava_data[i] = buf[consume_idx + i]
<1>1. /\ consume_idx + 1 \in Int /\ produce_idx \in Int /\ Len(buf) \in Nat
      /\ consume_idx + 1 >= 1 /\ produce_idx <= Len(buf)
      /\ AvaLen \in Nat
  BY LenProperties DEF TypeOK, IndexOK, AvaLen
<1>2. \A i \in (consume_idx + 1) .. produce_idx : buf[i] \in 0 .. StreamLen
  <2> TAKE i \in (consume_idx + 1) .. produce_idx
  <2>1. i \in 1 .. Len(buf)
    BY <1>1 DEF TypeOK
  <2> QED BY <2>1, ElementOfSeq DEF TypeOK
<1>3. /\ ava_data \in Seq(0 .. StreamLen)
      /\ Len(ava_data) = IF consume_idx + 1 <= produce_idx
                         THEN produce_idx - (consume_idx + 1) + 1 ELSE 0
      /\ \A i \in 1 .. produce_idx - (consume_idx + 1) + 1 :
            ava_data[i] = buf[consume_idx + 1 + i - 1]
  BY <1>1, <1>2, SubSeqProperties DEF ava_data
<1>4. Len(ava_data) = AvaLen
  BY <1>1, <1>3 DEF TypeOK, IndexOK, AvaLen
<1>5. \A i \in 1 .. AvaLen : ava_data[i] = buf[consume_idx + i]
  BY <1>1, <1>3 DEF TypeOK, AvaLen
<1> QED BY <1>3, <1>4, <1>5

(* A slice of a slice, empty ones included. *)
LEMMA SliceOfSlice ==
    ASSUME NEW S, NEW s \in Seq(S),
           NEW i \in 1 .. Len(s) + 1, NEW j \in (i - 1) .. Len(s),
           NEW m \in 1 .. (j - i + 2), NEW n \in (m - 1) .. (j - i + 1)
    PROVE  SubSeq(SubSeq(s, i, j), m, n) = SubSeq(s, i + m - 1, i + n - 1)
<1> DEFINE a == SubSeq(s, i, j)
           l == SubSeq(a, m, n)
           p == i + m - 1
           q == i + n - 1
           r == SubSeq(s, p, q)
<1>1. Len(s) \in Nat /\ i \in Int /\ j \in Int /\ m \in Int /\ n \in Int
      /\ p \in Int /\ q \in Int
  BY LenProperties
<1>2. \A x \in 1 .. Len(s) : s[x] \in S
  <2> TAKE x \in 1 .. Len(s)
  <2> QED BY ElementOfSeq
<1>3. \A x \in i .. j : s[x] \in S
  BY <1>1, <1>2
<1>4. /\ a \in Seq(S)
      /\ Len(a) = IF i <= j THEN j - i + 1 ELSE 0
      /\ \A x \in 1 .. j - i + 1 : a[x] = s[i + x - 1]
  BY <1>1, <1>3, SubSeqProperties
<1> HIDE DEF a
<1>5. \A x \in m .. n : a[x] = s[i + x - 1] /\ a[x] \in S
  <2> TAKE x \in m .. n
  <2>1. x \in 1 .. j - i + 1 /\ i + x - 1 \in i .. j
    BY <1>1
  <2> QED BY <2>1, <1>3, <1>4
<1>6. /\ l \in Seq(S)
      /\ Len(l) = IF m <= n THEN n - m + 1 ELSE 0
      /\ \A x \in 1 .. n - m + 1 : l[x] = a[m + x - 1]
  <2>1. \A x \in m .. n : a[x] \in S
    BY <1>5
  <2> QED BY ONLY <2>1, <1>1, SubSeqProperties DEF l
<1>7. /\ r \in Seq(S)
      /\ Len(r) = IF p <= q THEN q - p + 1 ELSE 0
      /\ \A x \in 1 .. q - p + 1 : r[x] = s[p + x - 1]
  <2>1. \A x \in p .. q : s[x] \in S
    BY <1>1, <1>2
  <2>2. p \in Int /\ q \in Int
    BY <1>1
  <2> HIDE DEF p, q
  <2> QED BY ONLY <2>1, <2>2, SubSeqProperties DEF r
<1> HIDE DEF l, r
<1>8. Len(l) = Len(r)
  BY <1>1, <1>6, <1>7
<1>9. \A x \in 1 .. Len(l) : l[x] = r[x]
  <2> TAKE x \in 1 .. Len(l)
  <2>1. /\ x \in 1 .. n - m + 1 /\ m + x - 1 \in m .. n
        /\ x \in 1 .. (i + n - 1) - (i + m - 1) + 1
        /\ i + (m + x - 1) - 1 = (i + m - 1) + x - 1
    BY <1>1, <1>6
  <2>2. l[x] = a[m + x - 1]
    BY <1>6, <2>1
  <2>3. a[m + x - 1] = s[i + (m + x - 1) - 1]
    BY <1>5, <2>1
  <2>4. r[x] = s[(i + m - 1) + x - 1]
    BY <1>7, <2>1
  <2> QED BY <2>1, <2>2, <2>3, <2>4
<1>10. l = r
  BY <1>6, <1>7, <1>8, <1>9, SeqEqual
<1> QED BY <1>10 DEF a, l, r

(* A lent range that is empty is the empty payload. *)
LEMMA NothingLent == SubSeq(buf, NoRange.s + 1, NoRange.e) = <<>>
BY SubSeqEmpty DEF NoRange

(* A read maps to the arrival of the counted bytes, to a loss, or to neither. *)
LEMMA ReadRefines ==
    ASSUME Invariant, Invariant',
           NEW size \in Nat, NEW n \in 0 .. (StreamLen - taken), NEW k \in {0, n},
           n <= size, ReadInto(size, n, k)
    PROVE  Queue!Next
<1> DEFINE pbuf == Prepare(size).buf
           pp == Prepare(size).produce
           pc == Prepare(size).consume
<1> USE SizesAssumption
<1>1. /\ pbuf \in Seq(0 .. StreamLen)
      /\ pp \in Nat /\ pc \in Nat /\ pp - pc = AvaLen
      /\ pp + size <= Len(pbuf)
      /\ \A i \in 1 .. AvaLen : pbuf[pc + i] = buf[consume_idx + i]
  BY PrepareFacts DEF Invariant
<1>2. /\ buf' = Fill(pbuf, pp, n) /\ produce_idx' = pp + k /\ consume_idx' = pc
      /\ taken' = taken + n /\ out' = NoRange
  BY DEF ReadInto
<1> HIDE DEF pbuf, pp, pc
<1>3. taken \in Nat /\ taken + n <= StreamLen /\ n \in Nat /\ k \in Nat /\ k <= n
  BY DEF Invariant, TypeOK
<1>4. /\ \A i \in 1 .. pp : i <= Len(pbuf) => buf'[i] = pbuf[i]
      /\ \A i \in 1 .. n : pp + i <= Len(pbuf) => buf'[pp + i] = taken + i
  <2>1. /\ pbuf \in Seq(0 .. StreamLen) /\ pp \in Nat /\ n \in Nat
        /\ taken \in Nat /\ taken + n <= StreamLen
    BY <1>1, <1>3
  <2>2. /\ \A i \in 1 .. pp : i <= Len(pbuf) => Fill(pbuf, pp, n)[i] = pbuf[i]
        /\ \A i \in 1 .. n : pp + i <= Len(pbuf) => Fill(pbuf, pp, n)[pp + i] = taken + i
    BY ONLY <2>1, FillFacts
  <2> QED BY <1>2, <2>2
<1>5. /\ ava_data \in Seq(0 .. StreamLen)
      /\ Len(ava_data) = AvaLen
      /\ \A i \in 1 .. AvaLen : ava_data[i] = buf[consume_idx + i]
  BY AvaFacts DEF Invariant
<1>6. /\ ava_data' \in Seq(0 .. StreamLen)
      /\ Len(ava_data') = AvaLen'
      /\ \A i \in 1 .. AvaLen' : ava_data'[i] = buf'[consume_idx' + i]
  <2>1. TypeOK' /\ IndexOK'
    BY DEF Invariant
  <2>2. (TypeOK /\ IndexOK =>
           /\ ava_data \in Seq(0 .. StreamLen)
           /\ Len(ava_data) = AvaLen
           /\ \A i \in 1 .. AvaLen : ava_data[i] = buf[consume_idx + i])'
    BY AvaFacts, PTL
  <2> QED BY <2>1, <2>2
<1>7. AvaLen' = AvaLen + k /\ AvaLen \in Nat /\ Len(pbuf) \in Nat
  BY <1>1, <1>2, <1>3, LenProperties DEF AvaLen, Invariant, TypeOK, IndexOK
<1>8. /\ Queue!Run(taken, k) \in Seq(0 .. StreamLen)
      /\ Len(Queue!Run(taken, k)) = k
      /\ \A i \in 1 .. k : Queue!Run(taken, k)[i] = taken + i
  <2>1. Queue!Run(taken, k) \in [1 .. k -> 0 .. StreamLen]
    BY <1>3 DEF Queue!Run
  <2> QED BY <2>1, <1>3, FunctionIsSeq DEF Queue!Run
<1>9. ava_data' = ava_data \o Queue!Run(taken, k)
  <2> DEFINE c == ava_data \o Queue!Run(taken, k)
  <2>1. /\ c \in Seq(0 .. StreamLen)
        /\ Len(c) = AvaLen + k
        /\ \A i \in 1 .. AvaLen + k :
              c[i] = IF i <= AvaLen THEN ava_data[i] ELSE Queue!Run(taken, k)[i - AvaLen]
    <3> DEFINE run == Queue!Run(taken, k)
    <3>1. ava_data \in Seq(0 .. StreamLen) /\ run \in Seq(0 .. StreamLen)
          /\ Len(ava_data) = AvaLen /\ Len(run) = k
      BY <1>5, <1>8
    <3> HIDE DEF run
    <3>2. /\ ava_data \o run \in Seq(0 .. StreamLen)
          /\ Len(ava_data \o run) = Len(ava_data) + Len(run)
          /\ \A i \in 1 .. Len(ava_data) + Len(run) :
                (ava_data \o run)[i] =
                  IF i <= Len(ava_data) THEN ava_data[i] ELSE run[i - Len(ava_data)]
      BY ONLY <3>1, ConcatProperties
    <3> QED BY <3>1, <3>2 DEF run
  <2> HIDE DEF c
  <2>2. \A i \in 1 .. AvaLen + k : ava_data'[i] = c[i]
    <3> TAKE i \in 1 .. AvaLen + k
    <3>1. ava_data'[i] = buf'[pc + i]
      BY <1>2, <1>6, <1>7
    <3>2. CASE i <= AvaLen
      <4>1. pc + i \in 1 .. pp /\ pc + i <= Len(pbuf) /\ i \in 1 .. AvaLen
        BY <3>2, <1>1, <1>7
      <4> QED BY <3>1, <3>2, <4>1, <2>1, <1>1, <1>4, <1>5
    <3>3. CASE ~(i <= AvaLen)
      <4>1. /\ i - AvaLen \in 1 .. k /\ i - AvaLen \in 1 .. n
            /\ pp + (i - AvaLen) <= Len(pbuf)
            /\ pp + (i - AvaLen) = pc + i
        BY <3>3, <1>1, <1>3, <1>7
      <4>2. c[i] = taken + (i - AvaLen)
        BY <3>3, <4>1, <2>1, <1>8
      <4>3. buf'[pp + (i - AvaLen)] = taken + (i - AvaLen)
        BY <4>1, <1>4
      <4> QED BY <3>1, <4>1, <4>2, <4>3
    <3> QED BY <3>2, <3>3
  <2>3. Len(ava_data') = Len(c) /\ \A i \in 1 .. Len(ava_data') : ava_data'[i] = c[i]
    BY <2>1, <2>2, <1>6, <1>7
  <2> QED BY <2>1, <2>3, <1>6, SeqEqual DEF c
<1>10. SubSeq(buf', out'.s + 1, out'.e) = <<>>
  BY <1>2, SubSeqEmpty DEF NoRange
<1>11. CASE n = 0 \/ k = 0
  <2>1. k = 0
    BY <1>11
  <2>2. ava_data' = ava_data
    <3>1. Queue!Run(taken, 0) = <<>>
      BY <2>1, <1>8, EmptySeq
    <3> QED BY <3>1, <2>1, <1>5, <1>9, ConcatEmptySeq
  <2>3. CASE n = 0
    BY <2>2, <2>3, <1>2, <1>3, <1>10 DEF Queue!Next, Queue!Release
  <2>4. CASE n # 0
    <3>1. n \in 1 .. (StreamLen - taken)
      BY <2>4, <1>3
    <3> QED BY <3>1, <2>2, <1>2, <1>10 DEF Queue!Next, Queue!Lose
  <2> QED BY <2>3, <2>4
<1>12. CASE ~(n = 0 \/ k = 0)
  <2>1. k = n /\ n \in 1 .. (StreamLen - taken)
    BY <1>12, <1>3
  <2> QED BY <2>1, <1>2, <1>9, <1>10 DEF Queue!Next, Queue!Arrive
<1> QED BY <1>11, <1>12

(* Cutting a frame off the buffer cuts it off the queue. *)
LEMMA ConsumeRefines ==
    ASSUME Invariant, ConsumeFrame
    PROVE  Queue!TakeFrame
<1> DEFINE h == frame.header
           t == Total(frame)
<1>1. /\ h \in Nat /\ t \in Nat /\ h >= 1 /\ h <= t /\ t <= AvaLen
      /\ AvaLen \in Nat /\ consume_idx \in Nat /\ produce_idx \in Nat
      /\ produce_idx = consume_idx + AvaLen
  <2>1. /\ h \in Nat /\ h >= 1 /\ t \in Nat /\ frame.payload \in Nat
        /\ t = h + frame.payload /\ t <= AvaLen
    BY FrameFacts, ConsumeFacts
  <2>2. /\ AvaLen \in Nat /\ consume_idx \in Nat /\ produce_idx \in Nat
        /\ produce_idx = consume_idx + AvaLen
    BY DEF Invariant, TypeOK, IndexOK, AvaLen
  <2> HIDE DEF h, t
  <2> QED BY <2>1, <2>2
<1>2. /\ out'.s = consume_idx + h /\ out'.e = consume_idx + t
      /\ consume_idx' = consume_idx + t /\ buf' = buf
      /\ produce_idx' = produce_idx /\ taken' = taken
  <2>1. consume_idx + frame.header + frame.payload = consume_idx + t
    BY <1>1, FrameFacts, ConsumeFacts
  <2> QED BY <2>1 DEF ConsumeFrame
<1>3. buf \in Seq(0 .. StreamLen) /\ Len(buf) \in Nat /\ produce_idx <= Len(buf)
  BY LenProperties DEF Invariant, TypeOK, IndexOK
<1>4. Len(ava_data) = AvaLen
  BY AvaFacts DEF Invariant
<1> HIDE DEF h, t
<1>5. SubSeq(buf', out'.s + 1, out'.e) = SubSeq(ava_data, h + 1, t)
  <2>1. /\ consume_idx + 1 \in 1 .. Len(buf) + 1
        /\ produce_idx \in ((consume_idx + 1) - 1) .. Len(buf)
        /\ h + 1 \in 1 .. (produce_idx - (consume_idx + 1) + 2)
        /\ t \in ((h + 1) - 1) .. (produce_idx - (consume_idx + 1) + 1)
    BY <1>1, <1>3
  <2>2. SubSeq(SubSeq(buf, consume_idx + 1, produce_idx), h + 1, t)
          = SubSeq(buf, (consume_idx + 1) + (h + 1) - 1, (consume_idx + 1) + t - 1)
    <3> DEFINE i == consume_idx + 1
               m == h + 1
    <3>1. buf \in Seq(0 .. StreamLen)
      BY <1>3
    <3>2. /\ i \in 1 .. Len(buf) + 1 /\ produce_idx \in (i - 1) .. Len(buf)
          /\ m \in 1 .. (produce_idx - i + 2)
          /\ t \in (m - 1) .. (produce_idx - i + 1)
      BY <2>1
    <3> HIDE DEF i, m
    <3>3. SubSeq(SubSeq(buf, i, produce_idx), m, t) = SubSeq(buf, i + m - 1, i + t - 1)
      BY ONLY <3>1, <3>2, SliceOfSlice
    <3> QED BY <3>3 DEF i, m
  <2>3. /\ (consume_idx + 1) + (h + 1) - 1 = consume_idx + h + 1
        /\ (consume_idx + 1) + t - 1 = consume_idx + t
    BY <1>1
  <2> QED BY <1>2, <2>2, <2>3 DEF ava_data
<1>6. ava_data' = SubSeq(ava_data, t + 1, Len(ava_data))
  <2>1. /\ consume_idx + 1 \in 1 .. Len(buf) + 1
        /\ produce_idx \in ((consume_idx + 1) - 1) .. Len(buf)
        /\ t + 1 \in 1 .. (produce_idx - (consume_idx + 1) + 2)
        /\ AvaLen \in ((t + 1) - 1) .. (produce_idx - (consume_idx + 1) + 1)
    BY <1>1, <1>3
  <2>2. SubSeq(SubSeq(buf, consume_idx + 1, produce_idx), t + 1, AvaLen)
          = SubSeq(buf, (consume_idx + 1) + (t + 1) - 1, (consume_idx + 1) + AvaLen - 1)
    <3> DEFINE i == consume_idx + 1
               m == t + 1
    <3>1. buf \in Seq(0 .. StreamLen)
      BY <1>3
    <3>2. /\ i \in 1 .. Len(buf) + 1 /\ produce_idx \in (i - 1) .. Len(buf)
          /\ m \in 1 .. (produce_idx - i + 2)
          /\ AvaLen \in (m - 1) .. (produce_idx - i + 1)
      BY <2>1
    <3> HIDE DEF i, m
    <3>3. SubSeq(SubSeq(buf, i, produce_idx), m, AvaLen) = SubSeq(buf, i + m - 1, i + AvaLen - 1)
      BY ONLY <3>1, <3>2, SliceOfSlice
    <3> QED BY <3>3 DEF i, m
  <2>3. /\ (consume_idx + 1) + (t + 1) - 1 = consume_idx + t + 1
        /\ (consume_idx + 1) + AvaLen - 1 = produce_idx
    BY <1>1
  <2> QED BY <1>2, <1>4, <2>2, <2>3 DEF ava_data
<1>7. t \in 1 .. Len(ava_data) /\ h \in 1 .. t
  BY <1>1, <1>4
<1> QED BY <1>2, <1>5, <1>6, <1>7 DEF Queue!TakeFrame

LEMMA NextRefines ==
    ASSUME Invariant, Invariant', [Next]_vars
    PROVE  [Queue!Next]_(Queue!vars)
<1> USE SizesAssumption
<1>1. /\ taken \in Nat /\ lost \in Nat /\ AvaLen \in Nat
      /\ 0 \in 0 .. (StreamLen - taken)
  BY DEF Invariant, TypeOK, IndexOK, AvaLen
<1>2. CASE Poll
  <2>1. PICK n \in 1 .. (StreamLen - taken) :
          n <= ResizeSize /\ ReadInto(ResizeSize, n, n)
    <3>1. \A n \in 1 .. (StreamLen - taken) : lost + (n - n) = lost
      BY <1>1
    <3> QED BY <1>2, <3>1 DEF Poll, ReadInto
  <2>2. n \in 0 .. (StreamLen - taken) /\ n \in {0, n}
    OBVIOUS
  <2> QED BY <2>1, <2>2, ReadRefines
<1>3. CASE PollFails
  <2>1. Prepare(ResizeSize).buf \in Seq(0 .. StreamLen) /\ Prepare(ResizeSize).produce \in Nat
    BY PrepareFacts DEF Invariant
  <2>2. ReadInto(ResizeSize, 0, 0)
    <3>1. Fill(Prepare(ResizeSize).buf, Prepare(ResizeSize).produce, 0) = Prepare(ResizeSize).buf
      BY <2>1, FillNothing
    <3>2. taken + 0 = taken /\ lost + (0 - 0) = lost
          /\ Prepare(ResizeSize).produce + 0 = Prepare(ResizeSize).produce
      BY <1>1, <2>1
    <3> QED BY <1>3, <3>1, <3>2 DEF PollFails, ReadInto
  <2>3. 0 <= ResizeSize /\ 0 \in {0, 0}
    OBVIOUS
  <2> QED BY <1>1, <2>2, <2>3, ReadRefines
<1>4. CASE PollOneFrame
  <2>1. /\ Missing \in Nat /\ Missing \in 0 .. (StreamLen - taken)
        /\ Missing \in {0, Missing} /\ Missing <= Missing
    <3>1. Missing \in Int
      BY FrameFacts
    <3> QED BY <1>1, <1>4, <3>1 DEF PollOneFrame
  <2>2. ReadInto(Missing, Missing, Missing)
    <3>1. lost + (Missing - Missing) = lost
      BY <1>1, <2>1
    <3> QED BY <1>4, <3>1 DEF PollOneFrame, ReadInto
  <2> HIDE DEF Missing
  <2> QED BY <2>1, <2>2, ReadRefines
<1>5. CASE PollOneFrameInterrupted
  <2>1. Missing \in Nat
    BY <1>5, FrameFacts DEF PollOneFrameInterrupted
  <2>2. PICK n \in 0 .. (StreamLen - taken) :
          n < Missing /\ ReadInto(Missing, n, 0)
    <3>1. \A n \in 0 .. (StreamLen - taken) : n - 0 = n
      BY <1>1
    <3>2. Prepare(Missing).produce + 0 = Prepare(Missing).produce
      BY <2>1, PrepareFacts DEF Invariant
    <3> QED BY <1>5, <3>1, <3>2 DEF PollOneFrameInterrupted, ReadInto
  <2>3. n <= Missing /\ 0 \in {0, n}
    BY <1>1, <2>1, <2>2
  <2> HIDE DEF Missing
  <2> QED BY <2>1, <2>2, <2>3, ReadRefines
<1>6. CASE ConsumeFrame
  BY <1>6, ConsumeRefines DEF Queue!Next
<1>7. CASE UNCHANGED vars
  BY <1>7 DEF vars, Queue!vars, ava_data
<1>8. CASE PreparePanics \/ ConsumePanics
  <2>1. ava_data' = ava_data /\ taken' = taken /\ SubSeq(buf', out'.s + 1, out'.e) = <<>>
    <3>1. UNCHANGED <<buf, produce_idx, consume_idx, taken>> /\ out' = NoRange
      BY <1>8 DEF PreparePanics, ConsumePanics
    <3> QED BY <3>1, SubSeqEmpty DEF ava_data, NoRange
  <2> QED BY <2>1 DEF Queue!Next, Queue!Release
<1> QED BY <1>2, <1>3, <1>4, <1>5, <1>6, <1>7, <1>8 DEF Next

(* The read buffer implements a FIFO of stream bytes. *)
THEOREM Refinement == Spec => ImplementsQueue
<1>1. Init => Queue!Init
  <2> SUFFICES ASSUME Init PROVE Queue!Init
    OBVIOUS
  <2>1. ava_data = <<>> /\ SubSeq(buf, out.s + 1, out.e) = <<>>
    BY SubSeqEmpty DEF Init, ava_data, NoRange
  <2> QED BY <2>1 DEF Init, Queue!Init
<1>2. Invariant /\ Invariant' /\ [Next]_vars => [Queue!Next]_(Queue!vars)
  BY NextRefines
<1> QED BY <1>1, <1>2, SpecInvariant, PTL DEF Spec, ImplementsQueue, Queue!Spec

=============================================================================
