--------------------------- MODULE ConnectionProofs ---------------------------
(***************************************************************************)
(* Two applications over an open connection, for every setup, every script *)
(* of calls and every size of the sockets: what is received is what was    *)
(* sent, message by message, as the caller meant it.                       *)
(***************************************************************************)
EXTENDS Connection, SequenceLemmas

(* The message codecs. *)

\* The provers enumerate a literal range unless its end has a name.
LEMMA Upto ==
    ASSUME NEW top \in Nat, NEW x
    PROVE  x \in 0 .. top <=> x \in Int /\ 0 <= x /\ x <= top
OBVIOUS

LEMMA InCode ==
    ASSUME NEW x
    PROVE  x \in Code <=> x \in Int /\ 0 <= x /\ x <= 65535
<1> DEFINE top == 65535
<1>1. top \in Nat /\ Code = 0 .. top
  BY DEF Code
<1> HIDE DEF top
<1>2. x \in Code <=> x \in Int /\ 0 <= x /\ x <= top
  BY <1>1, Upto
<1> QED BY <1>2 DEF top

LEMMA InByte ==
    ASSUME NEW x
    PROVE  x \in Byte <=> x \in Int /\ 0 <= x /\ x <= 255
<1> DEFINE top == 255
<1>1. top \in Nat /\ Byte = 0 .. top
  BY DEF Byte
<1> HIDE DEF top
<1>2. x \in Byte <=> x \in Int /\ 0 <= x /\ x <= top
  BY <1>1, Upto
<1> QED BY <1>2 DEF top

LEMMA Remainder ==
    ASSUME NEW n \in Int
    PROVE  n % 256 = n - 256 * (n \div 256)
BY SMT

LEMMA CodeBytes ==
    ASSUME NEW code \in Code
    PROVE  /\ to_be_bytes(code) \in Seq(Byte) /\ Len(to_be_bytes(code)) = 2
           /\ 256 * to_be_bytes(code)[1] + to_be_bytes(code)[2] = code
<1> DEFINE high == code \div 256
           low == code % 256
<1>1. code \in Int /\ 0 <= code /\ code <= 65535
  BY InCode
<1>2. /\ high \in Int /\ 0 <= high /\ high <= 255
      /\ low \in Int /\ 0 <= low /\ low <= 255
  BY <1>1, SMT
<1>3. low = code - 256 * high
  BY <1>1, Remainder
<1>4. to_be_bytes(code) = <<high, low>>
  BY DEF to_be_bytes
<1> HIDE DEF high, low
<1>5. 256 * high + low = code
  BY <1>1, <1>2, <1>3
<1>6. high \in Byte /\ low \in Byte
  BY <1>2, InByte
<1> QED BY <1>4, <1>5, <1>6

LEMMA CodeRead ==
    ASSUME NEW data \in Seq(Byte), Len(data) >= 2
    PROVE  get_u16(data) \in Code
<1> DEFINE high == data[1]
           low == data[2]
<1>1. high \in Byte /\ low \in Byte
  <2>1. 1 \in 1 .. Len(data) /\ 2 \in 1 .. Len(data)
    BY LenProperties
  <2> QED BY <2>1, ElementOfSeq
<1>2. high \in Int /\ 0 <= high /\ high <= 255 /\ low \in Int /\ 0 <= low /\ low <= 255
  BY <1>1, InByte
<1>3. get_u16(data) = 256 * high + low
  BY DEF get_u16
<1> HIDE DEF high, low
<1>4. 256 * high + low \in Int /\ 0 <= 256 * high + low /\ 256 * high + low <= 65535
  BY <1>2
<1> QED BY <1>3, <1>4, InCode

LEMMA AtLeastTwo ==
    ASSUME NEW n \in Nat, n # 0, n # 1
    PROVE  n >= 2
OBVIOUS

LEMMA SmallCodes == NoCode \in Code /\ 1000 \in Code /\ 1002 \in Code /\ 1007 \in Code
BY InCode DEF NoCode

LEMMA CutType ==
    ASSUME NEW S, NEW s \in Seq(S), NEW n \in 1 .. Len(s) + 1
    PROVE  FromByte(s, n) \in Seq(S) /\ Len(FromByte(s, n)) = Len(s) - n + 1
<1> DEFINE lead == SubSeq(s, 1, n - 1)
           rest == SubSeq(s, n, Len(s))
<1>1. n - 1 \in 0 .. Len(s) /\ (n - 1) + 1 = n /\ Len(s) \in Nat /\ n \in Int
  BY LenProperties
<1>2. lead \in Seq(S) /\ Len(lead) = n - 1 /\ rest \in Seq(S) /\ lead \o rest = s
  BY <1>1, CutJoins
<1> HIDE DEF lead, rest
<1>3. Len(s) = (n - 1) + Len(rest) /\ Len(rest) \in Nat
  BY <1>2, ConcatProperties, LenProperties
<1>4. Len(rest) = Len(s) - n + 1
  BY <1>1, <1>3
<1> QED BY <1>2, <1>4 DEF FromByte, rest

LEMMA FrameOfType ==
    ASSUME NEW m \in Message
    PROVE  FrameOf(m) \in Frame
<1>1. m.code \in OpCodes /\ m.data \in Seq(Byte) /\ m.close_code \in Code
  BY DEF Message
<1>2. to_be_bytes(m.close_code) \o m.data \in Seq(Byte)
  BY <1>1, CodeBytes, ConcatProperties
<1> QED BY <1>1, <1>2 DEF FrameOf, Frame

LEMMA MsgType ==
    ASSUME NEW code \in OpCodes, NEW data \in Seq(Byte), NEW close_code \in Code
    PROVE  /\ Msg(code, data, close_code) \in Message
           /\ Msg(code, data, close_code).code = code
           /\ Msg(code, data, close_code).data = data
           /\ Msg(code, data, close_code).close_code = close_code
BY DEF Msg, Message

LEMMA MessageOfType ==
    ASSUME NEW codec \in Codecs, NEW f \in Frame
    PROVE  /\ MessageOf(codec, f) \in Message
           /\ MessageOf(codec, f).code = f.code
           /\ f.code # "Close" => MessageOf(codec, f).close_code = NoCode
<1>1. f.code \in OpCodes /\ f.data \in Seq(Byte) /\ NoCode \in Code /\ 1000 \in Code
  BY SmallCodes DEF Frame
<1>2. CASE codec = "frame" \/ f.code # "Close"
  BY <1>1, <1>2, MsgType DEF MessageOf
<1>3. CASE ~(codec = "frame" \/ f.code # "Close") /\ Len(f.data) >= 2
  <2>1. FromByte(f.data, 3) \in Seq(Byte) /\ get_u16(f.data) \in Code
    <3>1. 3 \in 1 .. Len(f.data) + 1
      BY <1>1, <1>3, LenProperties
    <3> QED BY <1>1, <1>3, <3>1, CutType, CodeRead
  <2> QED BY <1>1, <1>3, <2>1, MsgType DEF MessageOf
<1>4. CASE ~(codec = "frame" \/ f.code # "Close") /\ ~(Len(f.data) >= 2)
  BY <1>1, <1>4, MsgType DEF MessageOf
<1> QED BY <1>2, <1>3, <1>4

(* What a message may be that was handed to a writer: only a Close has a code, or
   what BytesCodec makes of one. *)
Proper(codec, m) ==
    /\ m \in Message
    /\ m.close_code # NoCode => m.code = "Close" \/ (codec = "bytes" /\ m.code = "Binary")

LEMMA ConvertedProper ==
    ASSUME NEW codec \in Codecs, NEW c \in Call, CallOf(codec, c)
    PROVE  Proper(codec, Converted(codec, c))
<1>1. /\ c.msg.code \in OpCodes /\ c.msg.data \in Seq(Byte) /\ c.msg.close_code \in Code
      /\ c.how \in {"data", "code", "close"} /\ NoCode \in Code
  BY SmallCodes DEF Call, Message
<1>2. CASE c.how = "code"
  BY <1>1, <1>2, MsgType DEF Converted, Proper
<1>3. CASE c.how = "data"
  <2>1. Converted(codec, c) = Msg(IF codec = "text" THEN "Text" ELSE "Binary", c.msg.data, NoCode)
    BY <1>3 DEF Converted
  <2>2. (IF codec = "text" THEN "Text" ELSE "Binary") \in OpCodes
    BY DEF OpCodes
  <2> QED BY <1>1, <2>1, <2>2, MsgType DEF Proper
<1>4. CASE c.how = "close"
  <2>1. CASE codec = "text"
    <3>1. Converted(codec, c) = Msg("Close", c.msg.data, c.msg.close_code) /\ "Close" \in OpCodes
      BY <1>4, <2>1 DEF Converted, OpCodes
    <3> QED BY <1>1, <3>1, MsgType DEF Proper
  <2>2. CASE codec = "bytes"
    <3>1. Converted(codec, c) = Msg("Binary", c.msg.data, c.msg.close_code) /\ "Binary" \in OpCodes
      BY <1>4, <2>2 DEF Converted, OpCodes
    <3> QED BY <1>1, <2>2, <3>1, MsgType DEF Proper
  <2> QED BY <1>4, <2>1, <2>2 DEF Codecs, CallOf
<1> QED BY <1>1, <1>2, <1>3, <1>4

LEMMA FailureProper ==
    ASSUME NEW codec \in Codecs, NEW code \in Code
    PROVE  Proper(codec, Failure(code))
<1>1. "Close" \in OpCodes /\ <<>> \in Seq(Byte)
  BY EmptySeq DEF OpCodes
<1> DEFINE none == <<>>
<1>2. none \in Seq(Byte) /\ Failure(code) = Msg("Close", none, code)
  BY <1>1 DEF Failure
<1> HIDE DEF none
<1> QED BY <1>1, <1>2, MsgType DEF Proper

(* Whichever codec reads a frame that is not rejected, the caller's message is in
   it, but for what BytesCodec does to close codes. *)
LEMMA ReadAsMeant ==
    ASSUME NEW codec \in Codecs, NEW from \in Codecs, NEW a, Proper(from, a), ~Rejects(FrameOf(a))
    PROVE  LET m == Normal(MessageOf(codec, FrameOf(a)))
           IN \/ m = Normal(a)
              \/ codec = "bytes" /\ Empty(a) /\ m = [a EXCEPT !.close_code = 1000]
              \/ from = "bytes" /\ a.code = "Binary" /\ m = [a EXCEPT !.close_code = NoCode]
<1> DEFINE f == FrameOf(a)
           r == MessageOf(codec, f)
<1>1. /\ a \in Message /\ a.code \in OpCodes /\ a.data \in Seq(Byte) /\ a.close_code \in Code
      /\ f \in Frame /\ f.code = a.code /\ f.data \in Seq(Byte)
      /\ a = [code |-> a.code, data |-> a.data, close_code |-> a.close_code]
  BY FrameOfType DEF Proper, Message, FrameOf, Frame
<1>2. CASE a.code # "Close"
  <2>1. f.data = a.data /\ r = Msg(a.code, a.data, NoCode)
    BY <1>1, <1>2 DEF FrameOf, MessageOf
  <2>2. Normal(r) = Msg(a.code, a.data, NoCode)
    BY <1>2, <2>1 DEF Normal, MessageOf, Msg
  <2>3. CASE a.close_code = NoCode
    <3>1. Normal(a) = Msg(a.code, a.data, NoCode)
      BY <1>2, <2>3 DEF Normal, MessageOf, Msg
    <3> QED BY <2>2, <3>1
  <2>4. CASE a.close_code # NoCode
    <3>1. from = "bytes" /\ a.code = "Binary"
      BY <1>2, <2>4 DEF Proper
    <3>2. [a EXCEPT !.close_code = NoCode] = Msg(a.code, a.data, NoCode)
      BY <1>1 DEF Msg
    <3> QED BY <2>2, <3>1, <3>2
  <2> QED BY <2>3, <2>4
<1>3. CASE a.code = "Close" /\ a.close_code # NoCode
  <2> DEFINE b == to_be_bytes(a.close_code)
  <2>1. /\ b \in Seq(Byte) /\ Len(b) = 2 /\ 256 * b[1] + b[2] = a.close_code
    BY <1>1, CodeBytes
  <2>2. f.data = b \o a.data /\ Normal(a) = a
    BY <1>3 DEF FrameOf, Normal
  <2> HIDE DEF b
  <2>3. /\ Len(f.data) = 2 + Len(a.data) /\ Len(a.data) \in Nat
        /\ \A i \in 1 .. 2 + Len(a.data) : f.data[i] = IF i <= 2 THEN b[i] ELSE a.data[i - 2]
    <3>1. a.data \in Seq(Byte) /\ b \in Seq(Byte)
      BY <1>1, <2>1
    <3>2. /\ Len(b \o a.data) = Len(b) + Len(a.data)
          /\ \A i \in 1 .. Len(b) + Len(a.data) :
                 (b \o a.data)[i] = IF i <= Len(b) THEN b[i] ELSE a.data[i - Len(b)]
      BY <3>1, ConcatProperties
    <3>3. Len(a.data) \in Nat
      BY <3>1, LenProperties
    <3> QED BY <2>1, <2>2, <3>2, <3>3
  <2>4. get_u16(f.data) = a.close_code
    <3>1. 1 \in 1 .. 2 + Len(a.data) /\ 2 \in 1 .. 2 + Len(a.data)
      BY <2>3
    <3> QED BY <2>1, <2>3, <3>1 DEF get_u16
  <2>5. FromByte(f.data, 3) = a.data
    <3> DEFINE d == f.data
               e == FromByte(d, 3)
    <3>1. /\ d \in Seq(Byte) /\ Len(d) \in Nat /\ 3 \in 1 .. Len(d) + 1
          /\ Len(d) = 2 + Len(a.data)
      BY <1>1, <2>3
    <3> HIDE DEF d
    <3>2. e \in Seq(Byte) /\ Len(e) = Len(a.data)
      BY <2>3, <3>1, CutType
    <3>3. \A i \in 1 .. Len(a.data) : e[i] = d[3 + i - 1]
      <4>1. \A i \in 3 .. Len(d) : d[i] \in Byte
        BY <3>1, ElementOfSeq
      <4>2. \A i \in 1 .. Len(d) - 3 + 1 : e[i] = d[3 + i - 1]
        BY <3>1, <4>1, SubSeqProperties DEF FromByte
      <4> QED BY <2>3, <3>1, <4>2
    <3>4. \A i \in 1 .. Len(a.data) : d[3 + i - 1] = a.data[i]
      <4> TAKE i \in 1 .. Len(a.data)
      <4>1. 3 + i - 1 \in 1 .. 2 + Len(a.data) /\ ~(3 + i - 1 <= 2) /\ (3 + i - 1) - 2 = i
        BY <2>3
      <4> QED BY <2>3, <4>1 DEF d
    <3>5. Len(e) = Len(a.data) /\ \A i \in 1 .. Len(e) : e[i] = a.data[i]
      BY <3>2, <3>3, <3>4
    <3> HIDE DEF e
    <3>6. e = a.data
      BY <1>1, <3>2, <3>5, SeqEqual
    <3> QED BY <3>6 DEF d, e
  <2>6. MessageOf("text", f) = a /\ MessageOf("bytes", f) = a
    <3>1. Len(f.data) >= 2
      BY <2>3
    <3> QED BY <1>1, <1>3, <2>4, <2>5, <3>1 DEF MessageOf, Msg
  <2>7. CASE codec = "frame"
    <3>1. Normal(r) = MessageOf("text", [code |-> f.code, data |-> f.data])
      BY <2>7 DEF Normal, MessageOf, Msg
    <3>2. f = [code |-> f.code, data |-> f.data]
      BY <1>1 DEF Frame
    <3>3. Normal(r) = MessageOf("text", f)
      BY <3>1, <3>2
    <3> DEFINE n == Normal(r)
               o == Normal(a)
    <3>4. n = MessageOf("text", f) /\ MessageOf("text", f) = a /\ o = a
      BY <2>2, <2>6, <3>3
    <3> HIDE DEF n, o
    <3>5. n = o
      BY <3>4
    <3> QED BY <3>5 DEF n, o
  <2>8. CASE codec # "frame"
    BY <2>2, <2>6, <2>8 DEF Codecs
  <2> QED BY <2>7, <2>8
<1>4. CASE a.code = "Close" /\ a.close_code = NoCode
  <2>1. /\ f.data = a.data /\ f = [code |-> a.code, data |-> a.data]
        /\ Normal(a) = MessageOf("text", f)
    BY <1>1, <1>4 DEF FrameOf, Normal
  <2>2. CASE a.data = <<>>
    <3>1. MessageOf("text", f) = a /\ Len(a.data) = 0
      <4>1. Len(<<>>) = 0
        BY EmptySeq
      <4> QED BY <1>1, <1>4, <2>1, <2>2, <4>1 DEF MessageOf, Msg
    <3>2. CASE codec = "bytes"
      <4>1. r = [a EXCEPT !.close_code = 1000]
        BY <1>1, <1>4, <2>1, <3>1, <3>2 DEF MessageOf, Msg
      <4>2. Normal(r) = r
        BY <4>1, <1>1 DEF Normal, NoCode
      <4> QED BY <1>4, <2>2, <3>2, <4>1, <4>2 DEF Empty
    <3>3. CASE codec # "bytes"
      <4>1. r = a
        BY <1>1, <1>4, <2>1, <3>1, <3>3 DEF MessageOf, Msg, Codecs
      <4> QED BY <4>1
    <3> QED BY <3>2, <3>3
  <2>3. CASE a.data # <<>>
    <3>1. Len(f.data) # 1 /\ ValidCode(get_u16(f.data))
      BY <1>1, <1>4, <2>1, <2>3 DEF Rejects
    <3>2. Len(f.data) >= 2 /\ get_u16(f.data) # NoCode
      <4>1. Len(f.data) \in Nat /\ Len(f.data) # 0
        BY <1>1, <2>1, <2>3, LenProperties, EmptySeq
      <4>2. get_u16(f.data) # NoCode
        BY <3>1 DEF ValidCode, NoCode
      <4> QED BY <3>1, <4>1, <4>2, AtLeastTwo
    <3>3. CASE codec = "frame"
      <4>1. r = a
        BY <1>1, <1>4, <2>1, <3>3 DEF MessageOf, Msg
      <4> QED BY <4>1
    <3>4. CASE codec # "frame"
      <4>1. r = MessageOf("text", f) /\ r.close_code # NoCode
        BY <1>1, <1>4, <3>2, <3>4 DEF MessageOf, Msg
      <4> QED BY <2>1, <4>1 DEF Normal
    <3> QED BY <3>3, <3>4
  <2> QED BY <2>2, <2>3
<1> QED BY <1>2, <1>3, <1>4

-----------------------------------------------------------------------------
(* What is on its way: a stream of parts that belong to the messages msgs[n + 1],
   msgs[n + 2] and so on to the last, each as Parts cuts it up. *)

Chained(s, n, msgs, at) ==
    /\ at[1] = n + 1 /\ at[Len(s) + 1] = Len(msgs) + 1
    /\ \A k \in 1 .. Len(s) :
           /\ at[k] \in 1 .. Len(msgs)
           /\ s[k].frame = FrameOf(msgs[at[k]])
           /\ at[k + 1] = IF s[k].last THEN at[k] + 1 ELSE at[k]
           /\ ~s[k].last => k < Len(s) /\ s[k + 1].last

Chain(s, n, msgs) == \E at \in [1 .. Len(s) + 1 -> Nat] : Chained(s, n, msgs, at)

LEMMA PartsAre ==
    ASSUME NEW f \in Frame
    PROVE  /\ Parts(f) \in Seq(Part)
           /\ \A k \in 1 .. Len(Parts(f)) : Parts(f)[k].frame = f
           /\ \/ Len(Parts(f)) = 1 /\ Parts(f)[1].last
              \/ Len(Parts(f)) = 2 /\ ~Parts(f)[1].last /\ Parts(f)[2].last
<1> DEFINE a == [frame |-> f, last |-> FALSE]
           b == [frame |-> f, last |-> TRUE]
<1>1. a \in Part /\ b \in Part /\ a.frame = f /\ b.frame = f /\ ~a.last /\ b.last
  BY DEF Part
<1>2. Parts(f) = <<b>> \/ Parts(f) = <<a, b>>
  BY DEF Parts
<1> HIDE DEF a, b
<1>3. CASE Parts(f) = <<b>>
  BY <1>1, <1>3
<1>4. CASE Parts(f) = <<a, b>>
  BY <1>1, <1>4
<1> QED BY <1>2, <1>3, <1>4

LEMMA Beyond ==
    ASSUME NEW l \in Nat, NEW c, c = 1 \/ c = 2, NEW all, all = l + c
    PROVE  /\ all = l + 1 \/ all = l + 2
           /\ all + 1 \in 1 .. all + 1 /\ ~(all + 1 <= l + 1)
           /\ \A k \in 1 .. l + 1 : k \in 1 .. all + 1 /\ k <= l + 1
           /\ \A k \in 1 .. all + 1 : k <= l + 1 => k \in 1 .. l + 1
           /\ \A k \in 1 .. all : k <= l \/ k = l + 1 \/ (k = l + 2 /\ c = 2)
OBVIOUS

(* A message that is submitted is the next of the chain. *)
LEMMA ChainGrows ==
    ASSUME NEW s \in Seq(Part), NEW n \in Nat, NEW msgs \in Seq(Message), NEW m \in Message,
           Chain(s, n, msgs)
    PROVE  Chain(Cat(s, Parts(FrameOf(m))), n, Append(msgs, m))
<1> DEFINE t == Parts(FrameOf(m))
           st == Cat(s, t)
           more == Append(msgs, m)
           l == Len(s)
           g == Len(msgs)
<1>1. PICK at \in [1 .. Len(s) + 1 -> Nat] : Chained(s, n, msgs, at)
  BY DEF Chain
<1>2. /\ t \in Seq(Part) /\ \A k \in 1 .. Len(t) : t[k].frame = FrameOf(m)
      /\ \/ Len(t) = 1 /\ t[1].last
         \/ Len(t) = 2 /\ ~t[1].last /\ t[2].last
  <2>1. FrameOf(m) \in Frame
    BY FrameOfType
  <2> QED BY <2>1, PartsAre
<1>3. l \in Nat /\ g \in Nat
  BY LenProperties
<1> HIDE DEF t
<1>4. /\ Len(st) = l + Len(t)
      /\ \A k \in 1 .. l + Len(t) : st[k] = IF k <= l THEN s[k] ELSE t[k - l]
  <2>1. t \in Seq(Part)
    BY <1>2
  <2> QED BY <2>1, CatElements
<1>0. Len(st) = l + Len(t) /\ (Len(t) = 1 \/ Len(t) = 2)
  BY <1>2, <1>4
<1>5. /\ Len(more) = g + 1 /\ more[g + 1] = m
      /\ \A i \in 1 .. g : more[i] = msgs[i]
  BY AppendProperties
<1>6. /\ at[1] = n + 1 /\ at[l + 1] = g + 1
      /\ \A k \in 1 .. l : /\ at[k] \in 1 .. g
                           /\ s[k].frame = FrameOf(msgs[at[k]])
                           /\ at[k + 1] = IF s[k].last THEN at[k] + 1 ELSE at[k]
                           /\ ~s[k].last => k < l /\ s[k + 1].last
      /\ \A k \in 1 .. l + 1 : at[k] \in Nat
  BY <1>1 DEF Chained
<1> HIDE DEF st, more, l, g
<1> DEFINE was == [k \in 1 .. Len(st) + 1 |->
                      IF k <= l + 1 THEN at[k] ELSE IF k = Len(st) + 1 THEN g + 2 ELSE g + 1]
<1>7. /\ was \in [1 .. Len(st) + 1 -> Nat]
      /\ \A k \in 1 .. l + 1 : was[k] = at[k]
      /\ was[Len(st) + 1] = g + 2
      /\ Len(st) = l + 2 => was[l + 2] = g + 1
  <2>1. /\ Len(st) = l + 1 \/ Len(st) = l + 2
        /\ Len(st) + 1 \in 1 .. Len(st) + 1 /\ ~(Len(st) + 1 <= l + 1)
        /\ \A k \in 1 .. l + 1 : k \in 1 .. Len(st) + 1 /\ k <= l + 1
        /\ \A k \in 1 .. Len(st) + 1 : k <= l + 1 => k \in 1 .. l + 1
        /\ g + 1 \in Nat /\ g + 2 \in Nat
    <3>1. g + 1 \in Nat /\ g + 2 \in Nat
      BY <1>3
    <3> QED BY <1>0, <1>3, <3>1, Beyond
  <2>2. Len(st) = l + 2 => /\ l + 2 \in 1 .. Len(st) + 1
                           /\ ~(l + 2 <= l + 1) /\ l + 2 # Len(st) + 1
    BY <1>3
  <2>3. \A k \in 1 .. l + 1 : at[k] \in Nat
    BY <1>6
  <2> QED BY <2>1, <2>2, <2>3
<1> HIDE DEF was
<1>8. was[1] = n + 1 /\ was[Len(st) + 1] = Len(more) + 1
  BY <1>3, <1>5, <1>6, <1>7
<1>9. ASSUME NEW k \in 1 .. Len(st)
      PROVE  /\ was[k] \in 1 .. Len(more)
             /\ st[k].frame = FrameOf(more[was[k]])
             /\ was[k + 1] = IF st[k].last THEN was[k] + 1 ELSE was[k]
             /\ ~st[k].last => k < Len(st) /\ st[k + 1].last
  <2>1. CASE k <= l
    <3>1. /\ k \in 1 .. l /\ k \in 1 .. l + 1 /\ k + 1 \in 1 .. l + 1
          /\ was[k] = at[k] /\ was[k + 1] = at[k + 1] /\ st[k] = s[k]
      <4>1. /\ k \in 1 .. l /\ k \in 1 .. l + 1 /\ k + 1 \in 1 .. l + 1
            /\ k \in 1 .. l + Len(t)
        BY <1>0, <1>3, <2>1
      <4> QED BY <1>4, <1>7, <2>1, <4>1
    <3>2. was[k] \in 1 .. Len(more) /\ more[was[k]] = msgs[at[k]]
      <4>1. at[k] \in 1 .. g
        BY <1>6, <3>1
      <4>2. at[k] \in 1 .. g + 1
        BY <1>3, <4>1
      <4> QED BY <1>5, <3>1, <4>1, <4>2
    <3>3. ~st[k].last => k < Len(st) /\ st[k + 1].last
      <4> SUFFICES ASSUME ~s[k].last PROVE k < Len(st) /\ st[k + 1].last
        BY <3>1
      <4>1. k < l /\ s[k + 1].last
        BY <1>6, <3>1
      <4>2. k + 1 \in 1 .. l + Len(t) /\ k + 1 <= l /\ k < Len(st)
        BY <1>2, <1>3, <1>4, <4>1
      <4> QED BY <1>4, <4>1, <4>2
    <3>4. /\ s[k].frame = FrameOf(msgs[at[k]])
          /\ at[k + 1] = IF s[k].last THEN at[k] + 1 ELSE at[k]
      BY <1>6, <3>1
    <3> QED BY <3>1, <3>2, <3>3, <3>4
  <2>2. CASE k = l + 1
    <3>1. /\ was[k] = g + 1 /\ st[k] = t[1] /\ 1 \in 1 .. Len(t)
      <4>1. /\ k \in 1 .. l + 1 /\ k \in 1 .. l + Len(t) /\ ~(k <= l) /\ k - l = 1
            /\ 1 \in 1 .. Len(t)
        BY <1>0, <1>3, <2>2
      <4> QED BY <1>4, <1>6, <1>7, <2>2, <4>1
    <3>2. was[k] \in 1 .. Len(more) /\ more[was[k]] = m /\ st[k].frame = FrameOf(m)
      BY <1>2, <1>3, <1>5, <3>1
    <3>3. CASE Len(t) = 1 /\ t[1].last
      <4>1. was[k + 1] = g + 2
        BY <1>3, <1>4, <1>7, <2>2, <3>3
      <4> QED BY <1>3, <3>1, <3>2, <3>3, <4>1
    <3>4. CASE Len(t) = 2 /\ ~t[1].last /\ t[2].last
      <4>1. was[k + 1] = g + 1 /\ k < Len(st) /\ st[k + 1] = t[2]
        BY <1>3, <1>4, <1>7, <2>2, <3>4
      <4> QED BY <3>1, <3>2, <3>4, <4>1
    <3> QED BY <1>2, <3>3, <3>4
  <2>3. CASE k = l + 2 /\ Len(t) = 2
    <3>1. /\ was[k] = g + 1 /\ st[k] = t[2] /\ 2 \in 1 .. Len(t) /\ t[2].last
          /\ was[k + 1] = g + 2
      BY <1>2, <1>3, <1>4, <1>7, <2>3
    <3>2. was[k] \in 1 .. Len(more) /\ more[was[k]] = m /\ st[k].frame = FrameOf(m)
      BY <1>2, <1>3, <1>5, <3>1
    <3> QED BY <1>3, <3>1, <3>2
  <2>4. k <= l \/ k = l + 1 \/ (k = l + 2 /\ Len(t) = 2)
    <3>1. \A i \in 1 .. Len(st) : i <= l \/ i = l + 1 \/ (i = l + 2 /\ Len(t) = 2)
      <4>1. l \in Nat /\ (Len(t) = 1 \/ Len(t) = 2) /\ Len(st) = l + Len(t)
        BY <1>0, <1>3
      <4> QED BY <4>1, Beyond
    <3> QED BY <3>1
  <2> QED BY <2>1, <2>2, <2>3, <2>4
<1> QED BY <1>7, <1>8, <1>9 DEF Chain, Chained, st, more, t

(* The first frame of the chain is that of message n + 1, and without it the chain
   starts at the next. *)
LEMMA ChainTaken ==
    ASSUME NEW d \in Seq(Part), NEW s \in Seq(Part), NEW n \in Nat, NEW msgs \in Seq(Message),
           (Len(d) = 1 /\ d[1].last) \/ (Len(d) = 2 /\ ~d[1].last), Chain(Cat(d, s), n, msgs)
    PROVE  /\ n + 1 \in 1 .. Len(msgs)
           /\ d[1].frame = FrameOf(msgs[n + 1])
           /\ Chain(s, n + 1, msgs)
<1> DEFINE ds == Cat(d, s)
           l == Len(s)
           g == Len(msgs)
<1>1. PICK at \in [1 .. Len(ds) + 1 -> Nat] : Chained(ds, n, msgs, at)
  BY DEF Chain
<1>2. /\ l \in Nat /\ g \in Nat /\ Len(ds) = Len(d) + l
      /\ \A k \in 1 .. Len(d) + l : ds[k] = IF k <= Len(d) THEN d[k] ELSE s[k - Len(d)]
  BY CatElements, LenProperties
<1>3. /\ at[1] = n + 1 /\ at[Len(ds) + 1] = g + 1
      /\ \A k \in 1 .. Len(ds) : /\ at[k] \in 1 .. g
                                 /\ ds[k].frame = FrameOf(msgs[at[k]])
                                 /\ at[k + 1] = IF ds[k].last THEN at[k] + 1 ELSE at[k]
                                 /\ ~ds[k].last => k < Len(ds) /\ ds[k + 1].last
      /\ \A k \in 1 .. Len(ds) + 1 : at[k] \in Nat
  BY <1>1 DEF Chained
<1> HIDE DEF ds, l, g
<1>4. 1 \in 1 .. Len(ds) /\ ds[1] = d[1]
  BY <1>2
<1>5. n + 1 \in 1 .. g /\ d[1].frame = FrameOf(msgs[n + 1])
  BY <1>3, <1>4
<1>6. at[Len(d) + 1] = n + 2
  <2>1. CASE Len(d) = 1 /\ d[1].last
    BY <1>3, <1>4, <2>1
  <2>2. CASE Len(d) = 2 /\ ~d[1].last
    <3>1. ds[2].last /\ at[2] = n + 1 /\ 2 \in 1 .. Len(ds)
      BY <1>2, <1>3, <1>4, <2>2
    <3> QED BY <1>3, <2>2, <3>1
  <2> QED BY <2>1, <2>2
<1> DEFINE then == [k \in 1 .. l + 1 |-> at[Len(d) + k]]
<1>7. then \in [1 .. l + 1 -> Nat] /\ \A k \in 1 .. l + 1 : then[k] = at[Len(d) + k]
  <2>1. \A k \in 1 .. l + 1 : Len(d) + k \in 1 .. Len(ds) + 1
    BY <1>2
  <2> QED BY <1>3, <2>1
<1> HIDE DEF then
<1>8. then[1] = (n + 1) + 1 /\ then[l + 1] = g + 1
  BY <1>2, <1>3, <1>6, <1>7
<1>9. ASSUME NEW k \in 1 .. l
      PROVE  /\ then[k] \in 1 .. g
             /\ s[k].frame = FrameOf(msgs[then[k]])
             /\ then[k + 1] = IF s[k].last THEN then[k] + 1 ELSE then[k]
             /\ ~s[k].last => k < l /\ s[k + 1].last
  <2> DEFINE j == Len(d) + k
  <2>1. /\ j \in 1 .. Len(ds) /\ ~(j <= Len(d)) /\ j - Len(d) = k
        /\ Len(d) + (k + 1) = j + 1 /\ k \in 1 .. l + 1 /\ k + 1 \in 1 .. l + 1
    BY <1>2
  <2>2. ds[j] = s[k] /\ then[k] = at[j] /\ then[k + 1] = at[j + 1]
    <3>1. j \in 1 .. Len(d) + l
      BY <1>2, <2>1
    <3> HIDE DEF j
    <3>2. ds[j] = s[k]
      BY <1>2, <2>1, <3>1
    <3> QED BY <1>7, <2>1, <3>2 DEF j
  <2>3. j < Len(ds) => k < l /\ ds[j + 1] = s[k + 1]
    <3> SUFFICES ASSUME j < Len(ds) PROVE k < l /\ ds[j + 1] = s[k + 1]
      OBVIOUS
    <3>1. /\ j + 1 \in 1 .. Len(d) + l /\ ~(j + 1 <= Len(d)) /\ (j + 1) - Len(d) = k + 1
          /\ k < l
      BY <1>2, <2>1
    <3> QED BY <1>2, <3>1
  <2> HIDE DEF j
  <2>4. /\ at[j] \in 1 .. g /\ ds[j].frame = FrameOf(msgs[at[j]])
        /\ at[j + 1] = IF ds[j].last THEN at[j] + 1 ELSE at[j]
        /\ ~ds[j].last => j < Len(ds) /\ ds[j + 1].last
    BY <1>3, <2>1
  <2> QED BY <2>2, <2>3, <2>4
<1> QED BY <1>5, <1>7, <1>8, <1>9 DEF Chain, Chained, l, g

-----------------------------------------------------------------------------
(* The invariant. *)

\* The parts on their way to p.
Stream(p) == Cat(Cat(buf[p], net[p]), unsent[Other(p)])

\* They are what p has still to receive, as long as it receives.
Pending(p) == ended[p] = "no" => Chain(Stream(p), Len(returned[p]), asked[Other(p)])

\* The i-th result is what p's codec reads in the i-th message.
Meant(p) ==
    \A i \in 1 .. Len(returned[p]) :
        returned[p][i].ok =>
            /\ i \in 1 .. Len(asked[Other(p)])
            /\ ~Rejects(FrameOf(asked[Other(p)][i]))
            /\ returned[p][i].msg = MessageOf(setup[p].codec, FrameOf(asked[Other(p)][i]))

ProperAsked(p) == \A i \in 1 .. Len(asked[p]) : Proper(setup[p].codec, asked[p][i])
ProperScript(p) == \A i \in 1 .. Len(script[p]) : CallOf(setup[p].codec, script[p][i])

Sound(p) == Pending(p) /\ Meant(p) /\ ProperAsked(p) /\ ProperScript(p)

Invariant == TypeOK /\ \A p \in Peers : Sound(p)

LEMMA Others ==
    ASSUME NEW p \in Peers
    PROVE  Other(p) \in Peers /\ Other(p) # p /\ Other(Other(p)) = p
           /\ \A r \in Peers : r = p \/ r = Other(p)
BY DEF Peers, Other

LEMMA SetupIs ==
    ASSUME TypeOK, NEW p \in Peers
    PROVE  /\ setup[p].codec \in Codecs /\ setup[p].script \in Seq(Call)
           /\ setup[p].loop \in Loops
BY SetupsAssumption DEF TypeOK

LEMMA TypesAre ==
    ASSUME TypeOK, NEW p \in Peers
    PROVE  /\ script[p] \in Seq(Call) /\ unsent[p] \in Seq(Part)
           /\ inside[p] \in SUBSET {"read", "write"} /\ inside[p] # {"read", "write"}
           /\ net[p] \in Seq(Part) /\ Len(net[p]) \in Nat /\ Len(net[p]) <= Window
           /\ buf[p] \in Seq(Part) /\ ended[p] \in {"no", "close", "error"}
           /\ asked[p] \in Seq(Message) /\ returned[p] \in Seq(Result)
           /\ Stream(p) \in Seq(Part)
<1>1. /\ unsent[p] \in Seq(Part) /\ net[p] \in Seq(Part) /\ buf[p] \in Seq(Part)
      /\ unsent[Other(p)] \in Seq(Part) /\ Len(net[p]) <= Window
  BY Others DEF TypeOK
<1>2. Stream(p) \in Seq(Part)
  BY <1>1, CatType DEF Stream
<1>3. Len(net[p]) \in Nat
  BY <1>1, LenProperties
<1> QED BY <1>1, <1>2, <1>3 DEF TypeOK

-----------------------------------------------------------------------------
(* Sending. *)

LEMMA SubmitKept ==
    ASSUME Invariant, NEW p \in Peers, NEW m, Proper(setup[p].codec, m),
           unsent[p] = <<>>, Submit(p, m), setup' = setup,
           buf'[Other(p)] = buf[Other(p)], net'[Other(p)] = net[Other(p)],
           ended'[Other(p)] = ended[Other(p)], returned'[Other(p)] = returned[Other(p)]
    PROVE  /\ Pending(Other(p))' /\ Meant(Other(p))' /\ ProperAsked(p)'
           /\ unsent' \in [Peers -> Seq(Part)] /\ asked' \in [Peers -> Seq(Message)]
           /\ unsent'[Other(p)] = unsent[Other(p)] /\ asked'[Other(p)] = asked[Other(p)]
<1> DEFINE q == Other(p)
           t == Parts(FrameOf(m))
           s == Stream(q)
           msgs == asked[p]
           n == Len(returned[q])
<1>1. /\ TypeOK /\ q \in Peers /\ q # p /\ Other(q) = p /\ Sound(p) /\ Sound(q)
  BY Others DEF Invariant
<1>2. m \in Message /\ FrameOf(m) \in Frame
  BY FrameOfType DEF Proper
<1>3. t \in Seq(Part)
  BY <1>2, PartsAre
<1>4. /\ unsent' = [unsent EXCEPT ![p] = t] /\ asked' = [asked EXCEPT ![p] = Append(msgs, m)]
  BY DEF Submit
<1>5. /\ msgs \in Seq(Message) /\ s \in Seq(Part) /\ n \in Nat
      /\ buf[q] \in Seq(Part) /\ net[q] \in Seq(Part)
  BY <1>1, TypesAre, LenProperties
<1> HIDE DEF t, q
<1>6. /\ unsent' \in [Peers -> Seq(Part)] /\ unsent'[p] = t /\ unsent'[q] = unsent[q]
  BY <1>1, <1>3, <1>4 DEF TypeOK
<1>7. /\ Append(msgs, m) \in Seq(Message) /\ Len(Append(msgs, m)) = Len(msgs) + 1
      /\ Append(msgs, m)[Len(msgs) + 1] = m /\ Len(msgs) \in Nat
      /\ \A i \in 1 .. Len(msgs) : Append(msgs, m)[i] = msgs[i]
  BY <1>2, <1>5, AppendProperties, LenProperties
<1>8. /\ asked' \in [Peers -> Seq(Message)] /\ asked'[p] = Append(msgs, m)
      /\ asked'[q] = asked[q]
  BY <1>1, <1>4, <1>7 DEF TypeOK
<1>9. Pending(q)'
  <2>1. Stream(q)' = Cat(s, t)
    <3> DEFINE bn == Cat(buf[q], net[q])
    <3>1. bn \in Seq(Part)
      BY <1>5, CatType
    <3>2. Stream(q)' = Cat(bn, t)
      BY <1>1, <1>6 DEF Stream, q
    <3> DEFINE none == <<>>
    <3>3. s = Cat(bn, none)
      BY <1>1 DEF Stream
    <3> HIDE DEF bn
    <3>4. Cat(bn, <<>>) = bn
      BY <3>1, CatEmpty
    <3> QED BY <3>2, <3>3, <3>4
  <2>2. SUFFICES ASSUME ended[q] = "no" PROVE Chain(Cat(s, t), n, Append(msgs, m))
    BY <1>1, <1>8, <2>1 DEF Pending, q
  <2>3. Chain(s, n, msgs)
    BY <1>1, <2>2 DEF Sound, Pending
  <2> HIDE DEF s, n, msgs
  <2> QED BY <1>2, <1>5, <2>3, ChainGrows DEF t
<1>10. Meant(q)'
  <2>1. \A i \in 1 .. Len(msgs) : i \in 1 .. Len(msgs) + 1
    BY <1>7
  <2>2. ASSUME NEW i \in 1 .. Len(returned[q]), returned[q][i].ok
        PROVE  /\ i \in 1 .. Len(Append(msgs, m)) /\ ~Rejects(FrameOf(Append(msgs, m)[i]))
               /\ returned[q][i].msg = MessageOf(setup[q].codec, FrameOf(Append(msgs, m)[i]))
    <3>1. /\ i \in 1 .. Len(msgs) /\ ~Rejects(FrameOf(msgs[i]))
          /\ returned[q][i].msg = MessageOf(setup[q].codec, FrameOf(msgs[i]))
      BY <1>1, <2>2 DEF Sound, Meant
    <3> QED BY <1>7, <2>1, <3>1
  <2> QED BY <1>1, <1>8, <2>2 DEF Meant, q
<1>11. ProperAsked(p)'
  <2>1. \A i \in 1 .. Len(msgs) : Proper(setup[p].codec, msgs[i])
    BY <1>1 DEF Sound, ProperAsked
  <2>2. \A i \in 1 .. Len(msgs) + 1 : i \in 1 .. Len(msgs) \/ i = Len(msgs) + 1
    BY <1>7
  <2>3. \A i \in 1 .. Len(msgs) + 1 : Proper(setup[p].codec, Append(msgs, m)[i])
    BY <1>7, <2>1, <2>2
  <2> QED BY <1>7, <1>8, <2>3 DEF ProperAsked
<1> QED BY <1>6, <1>8, <1>9, <1>10, <1>11 DEF q

LEMMA MakeCallKept ==
    ASSUME Invariant, NEW p \in Peers, MakeCall(p)
    PROVE  Invariant'
<1> DEFINE q == Other(p)
           c == Head(script[p])
<1>1. /\ TypeOK /\ q \in Peers /\ q # p /\ Other(q) = p /\ Sound(p) /\ Sound(q)
      /\ \A r \in Peers : r = p \/ r = q
  BY Others DEF Invariant
<1>2. /\ script[p] # <<>> /\ unsent[p] = <<>> /\ Submit(p, Converted(setup[p].codec, c))
      /\ script' = [script EXCEPT ![p] = Tail(@)]
      /\ UNCHANGED <<setup, inside, net, buf, ended, returned>>
  BY DEF MakeCall
<1>3. /\ script[p] \in Seq(Call) /\ setup[p].codec \in Codecs
  BY <1>1, TypesAre, SetupIs
<1>4. /\ Tail(script[p]) \in Seq(Call) /\ c \in Call /\ c = script[p][1]
      /\ Len(script[p]) \in Nat /\ 1 \in 1 .. Len(script[p])
      /\ Len(Tail(script[p])) = Len(script[p]) - 1
      /\ \A i \in 1 .. Len(script[p]) - 1 : Tail(script[p])[i] = script[p][i + 1]
  <2>1. Len(script[p]) \in Nat /\ Len(script[p]) # 0
    BY <1>2, <1>3, LenProperties, EmptySeq
  <2>2. 1 \in 1 .. Len(script[p])
    BY <2>1
  <2> QED BY <1>2, <1>3, <2>1, <2>2, HeadTailProperties
<1>5. Proper(setup[p].codec, Converted(setup[p].codec, c))
  <2>1. CallOf(setup[p].codec, c)
    BY <1>1, <1>4 DEF Sound, ProperScript
  <2> QED BY <1>3, <1>4, <2>1, ConvertedProper
<1>6. /\ Pending(q)' /\ Meant(q)' /\ ProperAsked(p)'
      /\ unsent' \in [Peers -> Seq(Part)] /\ asked' \in [Peers -> Seq(Message)]
      /\ unsent'[q] = unsent[q] /\ asked'[q] = asked[q]
  BY <1>2, <1>5, SubmitKept
<1>7. script' \in [Peers -> Seq(Call)] /\ script'[p] = Tail(script[p]) /\ script'[q] = script[q]
  BY <1>1, <1>2, <1>4 DEF TypeOK
<1>8. TypeOK'
  BY <1>1, <1>2, <1>6, <1>7 DEF TypeOK
<1>9. Pending(p)' /\ Meant(p)'
  BY <1>1, <1>2, <1>6 DEF Sound, Pending, Meant, Stream
<1>10. ProperAsked(q)' /\ ProperScript(q)'
  BY <1>1, <1>2, <1>6, <1>7 DEF Sound, ProperAsked, ProperScript
<1>11. ProperScript(p)'
  <2>1. \A i \in 1 .. Len(script[p]) - 1 : i + 1 \in 1 .. Len(script[p])
    BY <1>4
  <2>2. \A i \in 1 .. Len(script[p]) - 1 : CallOf(setup[p].codec, Tail(script[p])[i])
    BY <1>1, <1>4, <2>1 DEF Sound, ProperScript
  <2> QED BY <1>2, <1>4, <1>7, <2>2 DEF ProperScript
<1> QED BY <1>1, <1>6, <1>8, <1>9, <1>10, <1>11 DEF Invariant, Sound

\* The locks move no part.
LEMMA EnterKept ==
    ASSUME Invariant, NEW p \in Peers, EnterWrite(p) \/ EnterRead(p)
    PROVE  Invariant'
<1>1. PICK half \in {"read", "write"} : inside' = [inside EXCEPT ![p] = {half}]
  BY DEF EnterWrite, EnterRead, Enter
<1>2. UNCHANGED <<setup, script, unsent, net, buf, ended, asked, returned>>
  BY DEF EnterWrite, EnterRead
<1>3. TypeOK'
  <2>1. inside' \in [Peers -> SUBSET {"read", "write"}]
    BY <1>1 DEF Invariant, TypeOK
  <2>2. \A r \in Peers : inside'[r] # {"read", "write"}
    <3>1. "read" # "write" /\ {half} # {"read", "write"}
      OBVIOUS
    <3>2. \A r \in Peers : inside'[r] = IF r = p THEN {half} ELSE inside[r]
      BY <1>1 DEF Invariant, TypeOK
    <3>3. \A r \in Peers : inside[r] # {"read", "write"}
      BY DEF Invariant, TypeOK
    <3> QED BY <3>1, <3>2, <3>3
  <2> QED BY <1>2, <2>1, <2>2 DEF Invariant, TypeOK
<1>4. \A r \in Peers : Sound(r)'
  BY <1>2 DEF Invariant, Sound, Pending, Meant, ProperAsked, ProperScript, Stream
<1> QED BY <1>3, <1>4 DEF Invariant

LEMMA LeaveType ==
    ASSUME TypeOK, NEW p \in Peers, NEW half, Leave(p, half)
    PROVE  /\ inside' \in [Peers -> SUBSET {"read", "write"}]
           /\ \A r \in Peers : inside'[r] # {"read", "write"}
<1>1. /\ inside \in [Peers -> SUBSET {"read", "write"}] /\ inside[p] # {"read", "write"}
      /\ inside' = [inside EXCEPT ![p] = inside[p] \ {half}]
  BY DEF TypeOK, Leave
<1>2. inside[p] \ {half} \in SUBSET {"read", "write"} /\ inside[p] \ {half} # {"read", "write"}
  BY <1>1
<1>3. \A r \in Peers : inside[r] # {"read", "write"}
  BY DEF TypeOK
<1> QED BY <1>1, <1>2, <1>3

(* However much of it write_vectored takes, what is written and what is not are the
   same parts in the same order. *)
LEMMA WrittenKept ==
    ASSUME Invariant, NEW p \in Peers, Written(p)
    PROVE  Invariant'
<1> DEFINE q == Other(p)
           u == unsent[p]
<1>1. /\ TypeOK /\ q \in Peers /\ q # p /\ Other(q) = p /\ Sound(p) /\ Sound(q)
      /\ \A r \in Peers : r = p \/ r = q
  BY Others DEF Invariant
<1>2. /\ Leave(p, "write") /\ UNCHANGED <<setup, script, buf, ended, asked, returned>>
  BY DEF Written
<1>3. PICK n \in 1 .. Len(u) :
        /\ Len(net[q]) + n <= Window
        /\ net' = [net EXCEPT ![q] = @ \o SubSeq(u, 1, n)]
        /\ unsent' = [unsent EXCEPT ![p] = SubSeq(@, n + 1, Len(@))]
  BY DEF Written
<1> DEFINE a == SubSeq(u, 1, n)
           b == SubSeq(u, n + 1, Len(u))
<1>4. /\ u \in Seq(Part) /\ net[q] \in Seq(Part) /\ buf[q] \in Seq(Part)
      /\ Len(net[q]) \in Nat
  BY <1>1, TypesAre
<1>5. a \in Seq(Part) /\ Len(a) = n /\ b \in Seq(Part) /\ Cat(a, b) = u
  <2>1. n \in 0 .. Len(u)
    BY <1>4, LenProperties
  <2> QED BY <1>4, <2>1, CutJoins DEF Cat
<1>6. net' = [net EXCEPT ![q] = Cat(net[q], a)] /\ unsent' = [unsent EXCEPT ![p] = b]
  BY <1>3 DEF Cat
<1>7. Len(net[q]) + Len(a) <= Window
  BY <1>3, <1>5
<1> HIDE DEF a, b, u, q
<1>8. Cat(net[q], a) \in Seq(Part) /\ Len(Cat(net[q], a)) = Len(net[q]) + Len(a)
  BY <1>4, <1>5, CatElements
<1>9. /\ net' \in [Peers -> Seq(Part)] /\ unsent' \in [Peers -> Seq(Part)]
      /\ net'[q] = Cat(net[q], a) /\ net'[p] = net[p]
      /\ unsent'[p] = b /\ unsent'[q] = unsent[q]
  BY <1>1, <1>5, <1>6, <1>8 DEF TypeOK
<1>10. \A r \in Peers : Len(net'[r]) <= Window
  BY <1>1, <1>7, <1>8, <1>9 DEF TypeOK
<1>11. TypeOK'
  <2>1. /\ inside' \in [Peers -> SUBSET {"read", "write"}]
        /\ \A r \in Peers : inside'[r] # {"read", "write"}
    BY <1>1, <1>2, LeaveType
  <2> QED BY <1>1, <1>2, <1>9, <1>10, <2>1 DEF TypeOK
<1>12. Stream(p)' = Stream(p)
  BY <1>2, <1>9 DEF Stream, q
<1>13. Stream(q)' = Stream(q)
  <2>1. Stream(q)' = Cat(Cat(buf[q], Cat(net[q], a)), b)
    BY <1>1, <1>2, <1>9 DEF Stream
  <2>2. Stream(q) = Cat(Cat(buf[q], net[q]), Cat(a, b))
    BY <1>1, <1>5 DEF Stream, u
  <2> DEFINE bn == Cat(buf[q], net[q])
  <2>3. bn \in Seq(Part) /\ Cat(buf[q], Cat(net[q], a)) = Cat(bn, a)
    <3>1. bn \in Seq(Part)
      BY <1>4, CatType
    <3>2. Cat(Cat(buf[q], net[q]), a) = Cat(buf[q], Cat(net[q], a))
      BY <1>4, <1>5, CatAssoc
    <3> QED BY <3>1, <3>2
  <2>4. Stream(q) = Cat(bn, Cat(a, b))
    BY <2>2
  <2> HIDE DEF bn
  <2>5. Cat(Cat(bn, a), b) = Cat(bn, Cat(a, b))
    BY <1>5, <2>3, CatAssoc
  <2> QED BY <2>1, <2>3, <2>4, <2>5
<1>14. Sound(p)' /\ Sound(q)'
  BY <1>1, <1>2, <1>12, <1>13 DEF Sound, Pending, Meant, ProperAsked, ProperScript
<1> QED BY <1>1, <1>11, <1>14 DEF Invariant

(* A failed write cuts the stream off; its reader has already gone. *)
LEMMA WriteFailsKept ==
    ASSUME Invariant, NEW p \in Peers, WriteFails(p)
    PROVE  Invariant'
<1> DEFINE q == Other(p)
           none == <<>>
<1>1. /\ TypeOK /\ q \in Peers /\ q # p /\ Other(q) = p /\ Sound(p) /\ Sound(q)
      /\ \A r \in Peers : r = p \/ r = q
  BY Others DEF Invariant
<1>2. /\ Leave(p, "write") /\ UNCHANGED <<setup, net, buf, asked, returned>>
      /\ unsent' = [unsent EXCEPT ![p] = none] /\ script' = [script EXCEPT ![p] = none]
      /\ ended' = ended \/ ended' = [ended EXCEPT ![p] = "error"]
      /\ ended[q] # "no"
  BY DEF WriteFails, Gone
<1>3. none \in Seq(Part) /\ none \in Seq(Call) /\ Len(none) = 0
  BY EmptySeq
<1> HIDE DEF none, q
<1>4. /\ unsent' \in [Peers -> Seq(Part)] /\ unsent'[q] = unsent[q]
      /\ script' \in [Peers -> Seq(Call)] /\ script'[q] = script[q] /\ script'[p] = none
  BY <1>1, <1>2, <1>3 DEF TypeOK
<1>5. /\ ended' \in [Peers -> {"no", "close", "error"}] /\ ended'[q] # "no"
      /\ ended'[p] = "no" => ended[p] = "no"
  BY <1>1, <1>2 DEF TypeOK
<1>6. TypeOK'
  <2>1. /\ inside' \in [Peers -> SUBSET {"read", "write"}]
        /\ \A r \in Peers : inside'[r] # {"read", "write"}
    BY <1>1, <1>2, LeaveType
  <2> QED BY <1>1, <1>2, <1>4, <1>5, <2>1 DEF TypeOK
<1>7. Pending(q)'
  BY <1>5 DEF Pending
<1>8. Pending(p)'
  BY <1>1, <1>2, <1>4, <1>5 DEF Sound, Pending, Stream, q
<1>9. /\ Meant(p)' /\ Meant(q)' /\ ProperAsked(p)' /\ ProperAsked(q)' /\ ProperScript(q)'
  BY <1>1, <1>2, <1>4 DEF Sound, Meant, ProperAsked, ProperScript
<1>10. ProperScript(p)'
  BY <1>3, <1>4 DEF ProperScript
<1> QED BY <1>1, <1>6, <1>7, <1>8, <1>9, <1>10 DEF Invariant, Sound

-----------------------------------------------------------------------------
(* Receiving. *)

LEMMA ReadSomeKept ==
    ASSUME Invariant, NEW p \in Peers, ReadSome(p)
    PROVE  Invariant'
<1> DEFINE q == Other(p)
           w == net[p]
<1>1. /\ TypeOK /\ q \in Peers /\ q # p /\ Other(q) = p /\ Sound(p) /\ Sound(q)
      /\ \A r \in Peers : r = p \/ r = q
  BY Others DEF Invariant
<1>2. /\ Leave(p, "read") /\ UNCHANGED <<setup, script, unsent, ended, asked, returned>>
  BY DEF ReadSome
<1>3. PICK n \in 1 .. Len(w) :
        /\ buf' = [buf EXCEPT ![p] = @ \o SubSeq(w, 1, n)]
        /\ net' = [net EXCEPT ![p] = SubSeq(@, n + 1, Len(@))]
  BY DEF ReadSome
<1> DEFINE a == SubSeq(w, 1, n)
           b == SubSeq(w, n + 1, Len(w))
<1>4. /\ w \in Seq(Part) /\ buf[p] \in Seq(Part) /\ unsent[q] \in Seq(Part)
      /\ Len(w) \in Nat /\ Len(w) <= Window /\ Window \in Nat
  BY <1>1, TypesAre, WindowAssumption
<1>5. a \in Seq(Part) /\ Len(a) = n /\ b \in Seq(Part) /\ Cat(a, b) = w
  <2>1. n \in 0 .. Len(w)
    BY <1>4
  <2> QED BY <1>4, <2>1, CutJoins DEF Cat
<1>6. buf' = [buf EXCEPT ![p] = Cat(buf[p], a)] /\ net' = [net EXCEPT ![p] = b]
  BY <1>3 DEF Cat
<1> HIDE DEF a, b, w, q
<1>7. Len(b) <= Window
  <2>1. Len(w) = Len(a) + Len(b) /\ Len(a) \in Nat /\ Len(b) \in Nat
    BY <1>5, CatElements, LenProperties
  <2> QED BY <1>4, <2>1
<1>8. Cat(buf[p], a) \in Seq(Part)
  BY <1>4, <1>5, CatType
<1>9. /\ net' \in [Peers -> Seq(Part)] /\ buf' \in [Peers -> Seq(Part)]
      /\ buf'[p] = Cat(buf[p], a) /\ buf'[q] = buf[q]
      /\ net'[p] = b /\ net'[q] = net[q]
  BY <1>1, <1>5, <1>6, <1>8 DEF TypeOK
<1>10. TypeOK'
  <2>1. /\ inside' \in [Peers -> SUBSET {"read", "write"}]
        /\ \A r \in Peers : inside'[r] # {"read", "write"}
    BY <1>1, <1>2, LeaveType
  <2>2. \A r \in Peers : Len(net'[r]) <= Window
    BY <1>1, <1>7, <1>9 DEF TypeOK
  <2> QED BY <1>1, <1>2, <1>9, <2>1, <2>2 DEF TypeOK
<1>11. Stream(q)' = Stream(q)
  BY <1>1, <1>2, <1>9 DEF Stream
<1>12. Stream(p)' = Stream(p)
  <2>1. Stream(p)' = Cat(Cat(Cat(buf[p], a), b), unsent[q])
    BY <1>2, <1>9 DEF Stream, q
  <2>2. Stream(p) = Cat(Cat(buf[p], Cat(a, b)), unsent[q])
    BY <1>5 DEF Stream, q, w
  <2>3. Cat(Cat(buf[p], a), b) = Cat(buf[p], Cat(a, b))
    BY <1>4, <1>5, CatAssoc
  <2> QED BY <2>1, <2>2, <2>3
<1>13. Sound(p)' /\ Sound(q)'
  BY <1>1, <1>2, <1>11, <1>12 DEF Sound, Pending, Meant, ProperAsked, ProperScript
<1> QED BY <1>1, <1>10, <1>13 DEF Invariant

\* The loops answer only when their last answer has gone out.
Answered(p) ==
    \/ Quiet
    \/ /\ unsent[p] = <<>>
       /\ \E m \in Message : Proper(setup[p].codec, m) /\ Submit(p, m)

LEMMA AnsweredTypes ==
    ASSUME Invariant, NEW p \in Peers, Answered(p), setup' = setup,
           buf'[Other(p)] = buf[Other(p)], net'[Other(p)] = net[Other(p)],
           ended'[Other(p)] = ended[Other(p)], returned'[Other(p)] = returned[Other(p)]
    PROVE  /\ Pending(Other(p))' /\ Meant(Other(p))' /\ ProperAsked(p)'
           /\ unsent' \in [Peers -> Seq(Part)] /\ asked' \in [Peers -> Seq(Message)]
           /\ unsent'[Other(p)] = unsent[Other(p)] /\ asked'[Other(p)] = asked[Other(p)]
<1>1. CASE Quiet
  <2>1. Other(p) \in Peers /\ Other(Other(p)) = p /\ Sound(p) /\ Sound(Other(p)) /\ TypeOK
    BY Others DEF Invariant
  <2> QED BY <1>1, <2>1 DEF Quiet, Sound, Pending, Meant, ProperAsked, Stream, TypeOK
<1>2. CASE unsent[p] = <<>> /\ \E m \in Message : Proper(setup[p].codec, m) /\ Submit(p, m)
  BY <1>2, SubmitKept
<1> QED BY <1>1, <1>2 DEF Answered

LEMMA ReturnType ==
    ASSUME TypeOK, NEW p \in Peers, NEW ok \in BOOLEAN, NEW m \in Message, Return(p, ok, m)
    PROVE  /\ returned' \in [Peers -> Seq(Result)]
           /\ returned'[Other(p)] = returned[Other(p)]
           /\ Len(returned'[p]) = Len(returned[p]) + 1 /\ Len(returned[p]) \in Nat
           /\ returned'[p][Len(returned[p]) + 1] = [ok |-> ok, msg |-> m]
           /\ \A i \in 1 .. Len(returned[p]) : returned'[p][i] = returned[p][i]
<1> DEFINE e == [ok |-> ok, msg |-> m]
           g == returned[p]
<1>1. e \in Result /\ g \in Seq(Result)
  BY DEF Result, TypeOK
<1>2. returned' = [returned EXCEPT ![p] = Append(g, e)]
  BY DEF Return
<1> HIDE DEF e
<1>3. /\ Append(g, e) \in Seq(Result) /\ Len(Append(g, e)) = Len(g) + 1 /\ Len(g) \in Nat
      /\ Append(g, e)[Len(g) + 1] = e
      /\ \A i \in 1 .. Len(g) : Append(g, e)[i] = g[i]
  BY <1>1, AppendProperties, LenProperties
<1>4. returned'[p] = Append(g, e) /\ returned'[Other(p)] = returned[Other(p)]
      /\ returned' \in [Peers -> Seq(Result)]
  BY <1>2, <1>3, Others DEF TypeOK
<1> QED BY <1>3, <1>4 DEF e

\* After a failure nothing more is received.
LEMMA ReadFailsKept ==
    ASSUME Invariant, NEW p \in Peers, ReadFails(p)
    PROVE  Invariant'
<1> DEFINE q == Other(p)
           none == <<>>
<1>1. /\ TypeOK /\ q \in Peers /\ q # p /\ Other(q) = p /\ Sound(p) /\ Sound(q)
      /\ \A r \in Peers : r = p \/ r = q
  BY Others DEF Invariant
<1>2. /\ Leave(p, "read") /\ UNCHANGED <<setup, script, buf>>
      /\ net' = [net EXCEPT ![p] = none] /\ Return(p, FALSE, Failure(1000))
      /\ ended' = [ended EXCEPT ![p] = "error"]
  BY DEF Return, ReadFails, End
<1>3. /\ none \in Seq(Part) /\ Len(none) = 0 /\ Window \in Nat
      /\ Failure(1000) \in Message /\ Proper(setup[p].codec, Failure(1000))
  BY <1>1, EmptySeq, WindowAssumption, SmallCodes, SetupIs, FailureProper DEF Proper
<1>4. Answered(p)
  <2>1. CASE setup[p].loop = "autobahn"
    <3>1. unsent[p] = <<>> /\ Submit(p, Failure(1000))
      BY <2>1 DEF ReadFails, Receiving, Answer
    <3> QED BY <1>3, <3>1 DEF Answered
  <2>2. CASE setup[p].loop # "autobahn"
    BY <2>2 DEF ReadFails, Answered
  <2> QED BY <2>1, <2>2
<1> HIDE DEF none, q
<1>5. /\ net' \in [Peers -> Seq(Part)] /\ net'[p] = none /\ net'[q] = net[q]
      /\ ended' \in [Peers -> {"no", "close", "error"}] /\ ended'[p] = "error"
      /\ ended'[q] = ended[q]
  <2>1. /\ net \in [Peers -> Seq(Part)] /\ ended \in [Peers -> {"no", "close", "error"}]
        /\ q \in Peers /\ q # p
    BY <1>1 DEF TypeOK, q
  <2>2. net' \in [Peers -> Seq(Part)] /\ net'[p] = none /\ net'[q] = net[q]
    BY <1>2, <1>3, <2>1
  <2>3. /\ ended' \in [Peers -> {"no", "close", "error"}] /\ ended'[p] = "error"
        /\ ended'[q] = ended[q]
    BY <1>2, <2>1
  <2> QED BY <2>2, <2>3
<1>6. /\ returned' \in [Peers -> Seq(Result)] /\ returned'[q] = returned[q]
      /\ Len(returned'[p]) = Len(returned[p]) + 1 /\ Len(returned[p]) \in Nat
      /\ ~returned'[p][Len(returned[p]) + 1].ok
      /\ \A i \in 1 .. Len(returned[p]) : returned'[p][i] = returned[p][i]
  <2> DEFINE m == Failure(1000)
  <2>1. m \in Message /\ Return(p, FALSE, m) /\ FALSE \in BOOLEAN
    BY <1>2, <1>3 DEF Return
  <2> HIDE DEF m
  <2>2. /\ returned' \in [Peers -> Seq(Result)] /\ returned'[q] = returned[q]
        /\ Len(returned'[p]) = Len(returned[p]) + 1 /\ Len(returned[p]) \in Nat
        /\ returned'[p][Len(returned[p]) + 1] = [ok |-> FALSE, msg |-> m]
        /\ \A i \in 1 .. Len(returned[p]) : returned'[p][i] = returned[p][i]
    BY <1>1, <2>1, ReturnType DEF q
  <2>3. ~[ok |-> FALSE, msg |-> m].ok
    OBVIOUS
  <2> QED BY <2>2, <2>3
<1>7. /\ Pending(q)' /\ Meant(q)' /\ ProperAsked(p)'
      /\ unsent' \in [Peers -> Seq(Part)] /\ asked' \in [Peers -> Seq(Message)]
      /\ unsent'[q] = unsent[q] /\ asked'[q] = asked[q]
  BY <1>2, <1>4, <1>5, <1>6, AnsweredTypes DEF q
<1>8. TypeOK'
  <2>1. /\ inside' \in [Peers -> SUBSET {"read", "write"}]
        /\ \A r \in Peers : inside'[r] # {"read", "write"}
    BY <1>1, <1>2, LeaveType
  <2>2. Len(net'[p]) <= Window
    <3>1. \A x \in Nat : 0 <= x
      OBVIOUS
    <3> QED BY <1>3, <1>5, <3>1
  <2>3. Len(net'[q]) <= Window
    BY <1>1, <1>5, TypesAre
  <2> QED BY <1>1, <1>2, <1>5, <1>6, <1>7, <2>1, <2>2, <2>3 DEF TypeOK
<1>9. Pending(p)'
  BY <1>5 DEF Pending
<1>10. Meant(p)'
  <2>1. \A i \in 1 .. Len(returned[p]) + 1 : i \in 1 .. Len(returned[p]) \/ i = Len(returned[p]) + 1
    BY <1>6
  <2> QED BY <1>1, <1>2, <1>6, <1>7, <2>1 DEF Sound, Meant, q
<1>11. ProperAsked(q)' /\ ProperScript(p)' /\ ProperScript(q)'
  BY <1>1, <1>2, <1>7 DEF Sound, ProperAsked, ProperScript
<1> QED BY <1>1, <1>7, <1>8, <1>9, <1>10, <1>11 DEF Invariant, Sound

(* receive takes the parts of one frame off the buffer. *)
LEMMA TakeIs ==
    ASSUME TypeOK, NEW p \in Peers, NEW f, Take(p, f)
    PROVE  /\ f \in Frame /\ ended[p] = "no"
           /\ buf' \in [Peers -> Seq(Part)] /\ buf'[Other(p)] = buf[Other(p)]
           /\ UNCHANGED <<setup, script, inside, net>>
           /\ \E d \in Seq(Part) :
                 /\ (Len(d) = 1 /\ d[1].last) \/ (Len(d) = 2 /\ ~d[1].last)
                 /\ d[1].frame = f /\ buf[p] = Cat(d, buf'[p])
<1> DEFINE b == buf[p]
           n == IF b[1].last THEN 1 ELSE 2
           d == SubSeq(b, 1, n)
           rest == SubSeq(b, n + 1, Len(b))
<1>1. /\ b \in Seq(Part) /\ Len(b) \in Nat /\ DOMAIN b = 1 .. Len(b)
      /\ \A i \in 1 .. Len(b) : b[i] \in Part
  BY TypesAre, LenProperties, ElementOfSeq
<1>2. /\ f = b[1].frame /\ ended[p] = "no" /\ UNCHANGED <<setup, script, inside, net>>
      /\ buf' = [buf EXCEPT ![p] = rest]
  BY DEF Take, Receiving, FromByte
<1>3. PICK i \in 1 .. Len(b) : b[i].last
  BY <1>1 DEF Take, HasFrame
<1>4. n \in 0 .. Len(b) /\ (n = 1 \/ n = 2) /\ 1 \in 1 .. Len(b)
  <2>1. 1 \in 1 .. Len(b) /\ (i = 1 \/ 2 <= Len(b))
    BY <1>1, <1>3
  <2>2. CASE b[1].last
    BY <1>1, <2>1, <2>2
  <2>3. CASE ~b[1].last
    BY <1>1, <1>3, <2>1, <2>3
  <2> QED BY <2>2, <2>3
<1>5. b[1] \in Part /\ f \in Frame
  BY <1>1, <1>2, <1>4 DEF Part
<1>6. n = 1 <=> b[1].last
  OBVIOUS
<1> HIDE DEF n
<1>7. d \in Seq(Part) /\ Len(d) = n /\ rest \in Seq(Part) /\ Cat(d, rest) = b
  BY <1>1, <1>4, CutJoins DEF Cat
<1>8. d[1] = b[1]
  <2> HIDE DEF b, d, rest
  <2>1. \A k \in 1 .. Len(d) + Len(rest) :
            Cat(d, rest)[k] = IF k <= Len(d) THEN d[k] ELSE rest[k - Len(d)]
    BY <1>7, CatElements
  <2>2. Len(rest) \in Nat /\ 1 <= Len(d) /\ 1 \in 1 .. Len(d) + Len(rest)
    BY <1>4, <1>7, LenProperties
  <2> QED BY <1>7, <2>1, <2>2
<1> HIDE DEF b, d, rest
<1>9. /\ buf' \in [Peers -> Seq(Part)] /\ buf'[p] = rest /\ buf'[Other(p)] = buf[Other(p)]
  BY <1>2, <1>7, Others DEF TypeOK
<1>10. (Len(d) = 1 /\ d[1].last) \/ (Len(d) = 2 /\ ~d[1].last)
  BY <1>4, <1>6, <1>7, <1>8
<1>11. d[1].frame = f /\ buf[p] = Cat(d, buf'[p])
  BY <1>2, <1>7, <1>8, <1>9 DEF b
<1> QED BY <1>2, <1>5, <1>7, <1>9, <1>10, <1>11

LEMMA ReceivedKept ==
    ASSUME Invariant, NEW p \in Peers, NEW f, Take(p, f),
           NEW ok \in BOOLEAN, NEW m \in Message, Return(p, ok, m),
           ok => ~Rejects(f) /\ m = MessageOf(setup[p].codec, f),
           Answered(p),
           ended' = ended \/ \E how \in {"close", "error"} : End(p, how)
    PROVE  Invariant'
<1> DEFINE q == Other(p)
           g == returned[p]
           msgs == asked[q]
<1>1. /\ TypeOK /\ q \in Peers /\ q # p /\ Other(q) = p /\ Sound(p) /\ Sound(q)
      /\ \A r \in Peers : r = p \/ r = q
  BY Others DEF Invariant
<1>2. /\ f \in Frame /\ ended[p] = "no" /\ UNCHANGED <<setup, script, inside, net>>
      /\ buf' \in [Peers -> Seq(Part)] /\ buf'[q] = buf[q]
  BY <1>1, TakeIs
<1>3. PICK d \in Seq(Part) :
          /\ (Len(d) = 1 /\ d[1].last) \/ (Len(d) = 2 /\ ~d[1].last)
          /\ d[1].frame = f /\ buf[p] = Cat(d, buf'[p])
  BY <1>1, TakeIs
<1>4. ended' \in [Peers -> {"no", "close", "error"}] /\ ended'[q] = ended[q]
  BY <1>1 DEF End, TypeOK
<1>5. /\ returned' \in [Peers -> Seq(Result)] /\ returned'[q] = returned[q]
      /\ Len(returned'[p]) = Len(g) + 1 /\ Len(g) \in Nat
      /\ returned'[p][Len(g) + 1] = [ok |-> ok, msg |-> m]
      /\ \A i \in 1 .. Len(g) : returned'[p][i] = g[i]
  BY <1>1, ReturnType
<1>6. /\ Pending(q)' /\ Meant(q)' /\ ProperAsked(p)'
      /\ unsent' \in [Peers -> Seq(Part)] /\ asked' \in [Peers -> Seq(Message)]
      /\ unsent'[q] = unsent[q] /\ asked'[q] = msgs
  BY <1>2, <1>4, <1>5, AnsweredTypes
<1>7. TypeOK'
  BY <1>1, <1>2, <1>4, <1>5, <1>6 DEF TypeOK
<1>8. /\ msgs \in Seq(Message) /\ net[p] \in Seq(Part) /\ unsent[q] \in Seq(Part)
      /\ buf'[p] \in Seq(Part)
  BY <1>1, <1>2, TypesAre
<1> DEFINE s == Cat(Cat(buf'[p], net[p]), unsent[q])
<1>9. s \in Seq(Part) /\ Stream(p)' = s /\ Stream(p) = Cat(d, s)
  <2> DEFINE b == buf'[p]
             bn == Cat(b, net[p])
  <2>1. bn \in Seq(Part) /\ s \in Seq(Part)
    BY <1>8, CatType
  <2>2. Stream(p)' = s
    BY <1>2, <1>6 DEF Stream
  <2>3. Stream(p) = Cat(Cat(Cat(d, b), net[p]), unsent[q])
    BY <1>3 DEF Stream
  <2>4. b \in Seq(Part) /\ s = Cat(bn, unsent[q])
    BY <1>8
  <2>5. Cat(Cat(d, b), net[p]) = Cat(d, bn)
    BY <1>8, <2>4, CatAssoc
  <2> HIDE DEF b, bn, s
  <2>6. Cat(Cat(d, bn), unsent[q]) = Cat(d, Cat(bn, unsent[q]))
    BY <1>8, <2>1, CatAssoc
  <2> QED BY <2>1, <2>2, <2>3, <2>4, <2>5, <2>6
<1> HIDE DEF s, q, g, msgs
<1>10. /\ Len(g) + 1 \in 1 .. Len(msgs) /\ f = FrameOf(msgs[Len(g) + 1])
       /\ Chain(s, Len(g) + 1, msgs)
  <2>1. Chain(Cat(d, s), Len(g), msgs)
    BY <1>1, <1>2, <1>9 DEF Sound, Pending, q, g, msgs
  <2> QED BY <1>3, <1>5, <1>8, <1>9, <2>1, ChainTaken
<1>11. Pending(p)'
  BY <1>5, <1>6, <1>9, <1>10 DEF Pending, q
<1>12. Meant(p)'
  <2>1. \A i \in 1 .. Len(g) + 1 : i \in 1 .. Len(g) \/ i = Len(g) + 1
    BY <1>5
  <2>2. \A i \in 1 .. Len(g) :
            g[i].ok => /\ i \in 1 .. Len(msgs) /\ ~Rejects(FrameOf(msgs[i]))
                       /\ g[i].msg = MessageOf(setup[p].codec, FrameOf(msgs[i]))
    BY <1>1 DEF Sound, Meant, g, msgs, q
  <2>3. ASSUME NEW i \in 1 .. Len(g) + 1, returned'[p][i].ok
        PROVE  /\ i \in 1 .. Len(msgs) /\ ~Rejects(FrameOf(msgs[i]))
               /\ returned'[p][i].msg = MessageOf(setup[p].codec, FrameOf(msgs[i]))
    <3>1. CASE i \in 1 .. Len(g)
      BY <1>5, <2>2, <2>3, <3>1
    <3>2. CASE i = Len(g) + 1
      BY <1>5, <1>10, <2>3, <3>2
    <3> QED BY <2>1, <3>1, <3>2
  <2> QED BY <1>2, <1>5, <1>6, <2>3 DEF Meant, q
<1>13. ProperAsked(q)' /\ ProperScript(p)' /\ ProperScript(q)'
  BY <1>1, <1>2, <1>6 DEF Sound, ProperAsked, ProperScript, msgs
<1> QED BY <1>1, <1>6, <1>7, <1>11, <1>12, <1>13 DEF Invariant, Sound, q

LEMMA Answers ==
    ASSUME TypeOK, NEW p \in Peers, NEW f, Take(p, f), setup[p].loop # "duplex",
           NEW m, Proper(setup[p].codec, m), Answer(p, m)
    PROVE  Answered(p)
<1>1. unsent[p] = <<>>
  BY DEF Take, Receiving
<1>2. m \in Message
  BY DEF Proper
<1> QED BY <1>1, <1>2 DEF Answer, Answered

\* What a codec makes of a frame, and what the loops answer to it.
LEMMA AnswerProper ==
    ASSUME TypeOK, NEW p \in Peers, NEW f, Take(p, f)
    PROVE  /\ MessageOf(setup[p].codec, f) \in Message
           /\ Proper(setup[p].codec, MessageOf(setup[p].codec, f))
           /\ Proper(setup[p].codec, Msg("Pong", f.data, NoCode))
           /\ \A code \in {1000, 1002, 1007} : /\ Failure(code) \in Message
                                               /\ Proper(setup[p].codec, Failure(code))
<1>1. setup[p].codec \in Codecs /\ f \in Frame
  BY SetupIs, TakeIs
<1>2. /\ MessageOf(setup[p].codec, f) \in Message
      /\ Proper(setup[p].codec, MessageOf(setup[p].codec, f))
  BY <1>1, MessageOfType DEF Proper
<1>3. Proper(setup[p].codec, Msg("Pong", f.data, NoCode))
  <2>1. "Pong" \in OpCodes /\ f.data \in Seq(Byte) /\ NoCode \in Code
    BY <1>1, SmallCodes DEF OpCodes, Frame
  <2> QED BY <2>1, MsgType DEF Proper
<1>4. ASSUME NEW code \in {1000, 1002, 1007}
      PROVE  Failure(code) \in Message /\ Proper(setup[p].codec, Failure(code))
  <2>1. code \in Code
    BY <1>4, SmallCodes
  <2> QED BY <1>1, <2>1, FailureProper DEF Proper
<1> QED BY <1>2, <1>3, <1>4

\* receive returned an error of this code.
Fails(p, f, code) ==
    /\ Take(p, f) /\ Return(p, FALSE, Failure(code))
    /\ IF setup[p].loop = "autobahn" THEN Answer(p, Failure(code)) /\ UNCHANGED ended
       ELSE End(p, "error") /\ Quiet

LEMMA FailsAs ==
    ASSUME NEW p \in Peers, ReceiveFails(p)
    PROVE  \E f : \E code \in {1002, 1007} : Fails(p, f, code)
<1> DEFINE Wrong(f) == IF f.code = "Text" \/ (Len(f.data) \in 3 .. 125 /\ ValidCode(get_u16(f.data)))
                       THEN 1007 ELSE 1002
<1>1. PICK f \in {buf[p][i].frame : i \in DOMAIN buf[p]} :
        LET code == Wrong(f)
        IN /\ Take(p, f)
           /\ Rejects(f)
           /\ Return(p, FALSE, Failure(code))
           /\ IF setup[p].loop = "autobahn" THEN Answer(p, Failure(code)) /\ UNCHANGED ended
              ELSE End(p, "error") /\ Quiet
  BY DEF ReceiveFails, Return
<1>2. Wrong(f) \in {1002, 1007}
  OBVIOUS
<1> HIDE DEF Wrong
<1>3. Fails(p, f, Wrong(f))
  BY <1>1 DEF Fails
<1> QED BY <1>2, <1>3

LEMMA ReceiveFailsKept ==
    ASSUME Invariant, NEW p \in Peers, ReceiveFails(p)
    PROVE  Invariant'
<1>0. PICK f : \E code \in {1002, 1007} : Fails(p, f, code)
  BY FailsAs
<1>1. PICK code \in {1002, 1007} : Fails(p, f, code)
  BY <1>0
<1>2. TypeOK /\ FALSE \in BOOLEAN
  BY DEF Invariant
<1>3. Failure(code) \in Message /\ Proper(setup[p].codec, Failure(code))
  BY <1>1, <1>2, AnswerProper DEF Fails
<1>4. Answered(p)
  <2>1. CASE setup[p].loop = "autobahn"
    BY <1>1, <1>2, <1>3, <2>1, Answers DEF Fails
  <2>2. CASE setup[p].loop # "autobahn"
    BY <1>1, <2>2 DEF Answered, Fails
  <2> QED BY <2>1, <2>2
<1>5. ended' = ended \/ \E how \in {"close", "error"} : End(p, how)
  BY <1>1 DEF Fails
<1> DEFINE m == Failure(code)
           no == FALSE
<1>6. m \in Message /\ Return(p, no, m)
  <2>1. Return(p, FALSE, Failure(code))
    BY <1>1 DEF Fails, Return
  <2> QED BY <1>3, <2>1 DEF Return
<1>7. Take(p, f) /\ no \in BOOLEAN /\ ~no
  BY <1>1 DEF Fails
<1> HIDE DEF m, no
<1>8. no => ~Rejects(f) /\ m = MessageOf(setup[p].codec, f)
  BY <1>7
<1> QED BY <1>4, <1>5, <1>6, <1>7, <1>8, ReceivedKept

\* receive returned the message of a frame.
LEMMA ReceiveKept ==
    ASSUME Invariant, NEW p \in Peers, NEW f,
           Receive(p, f, MessageOf(setup[p].codec, f)), Answered(p),
           ended' = ended \/ End(p, "close")
    PROVE  Invariant'
<1> DEFINE m == MessageOf(setup[p].codec, f)
<1>1. /\ Take(p, f) /\ ~Rejects(f) /\ Return(p, TRUE, m)
      /\ m = MessageOf(setup[p].codec, f)
  BY DEF Receive
<1>2. TypeOK /\ TRUE \in BOOLEAN
  BY DEF Invariant
<1>3. m \in Message
  BY <1>1, <1>2, AnswerProper
<1> HIDE DEF m
<1>4. ended' = ended \/ \E how \in {"close", "error"} : End(p, how)
  OBVIOUS
<1> QED BY <1>1, <1>2, <1>3, <1>4, ReceivedKept

LEMMA ReceiveDuplexKept ==
    ASSUME Invariant, NEW p \in Peers, ReceiveDuplex(p)
    PROVE  Invariant'
<1>1. PICK f : /\ Receive(p, f, MessageOf(setup[p].codec, f)) /\ Quiet
               /\ IF f.code = "Close" THEN End(p, "close") ELSE UNCHANGED ended
  BY DEF ReceiveDuplex
<1>2. Answered(p) /\ (ended' = ended \/ End(p, "close"))
  BY <1>1 DEF Answered
<1> QED BY <1>1, <1>2, ReceiveKept

LEMMA ReceiveEchoKept ==
    ASSUME Invariant, NEW p \in Peers, ReceiveEcho(p)
    PROVE  Invariant'
<1>1. PICK f : /\ setup[p].loop = "echo" /\ Receive(p, f, MessageOf(setup[p].codec, f))
               /\ Answer(p, MessageOf(setup[p].codec, f)) /\ ended' = ended
  BY DEF ReceiveEcho
<1>2. TypeOK /\ Take(p, f) /\ setup[p].loop # "duplex"
  BY <1>1 DEF Invariant, Receive
<1>3. Proper(setup[p].codec, MessageOf(setup[p].codec, f))
  BY <1>2, AnswerProper
<1>4. Answered(p)
  BY <1>1, <1>2, <1>3, Answers
<1> QED BY <1>1, <1>4, ReceiveKept

LEMMA AutobahnAnswers ==
    ASSUME Invariant, NEW p \in Peers, ReceiveAutobahn(p)
    PROVE  \E f : /\ setup[p].loop = "autobahn" /\ Receive(p, f, MessageOf(setup[p].codec, f))
                  /\ Answered(p) /\ (ended' = ended \/ End(p, "close"))
<1> DEFINE Reply(f) ==
        CASE f.code \in {"Text", "Binary"} ->
                  Answer(p, MessageOf(setup[p].codec, f)) /\ UNCHANGED ended
          [] f.code = "Ping"  -> Answer(p, Msg("Pong", f.data, NoCode)) /\ UNCHANGED ended
          [] f.code = "Pong"  -> Quiet /\ UNCHANGED ended
          [] f.code = "Close" -> Answer(p, Failure(1000)) /\ End(p, "close")
<1>1. PICK f : /\ setup[p].loop = "autobahn" /\ Receive(p, f, MessageOf(setup[p].codec, f))
               /\ Reply(f)
  BY Zenon DEF ReceiveAutobahn
<1>2. TypeOK /\ Take(p, f) /\ setup[p].loop # "duplex"
  BY <1>1 DEF Invariant, Receive
<1>3. f.code \in OpCodes
  BY <1>2, TakeIs DEF Frame
<1>4. Answered(p) /\ (ended' = ended \/ End(p, "close"))
  <2>1. CASE f.code \in {"Text", "Binary"}
    <3>1. Answer(p, MessageOf(setup[p].codec, f)) /\ UNCHANGED ended
      <4>1. f.code # "Ping" /\ f.code # "Pong" /\ f.code # "Close"
        BY <2>1
      <4> QED BY <1>1, <2>1, <4>1
    <3> QED BY <1>2, <3>1, AnswerProper, Answers
  <2>2. CASE f.code = "Ping"
    <3>1. Answer(p, Msg("Pong", f.data, NoCode)) /\ UNCHANGED ended
      <4>1. f.code \notin {"Text", "Binary"} /\ f.code # "Pong" /\ f.code # "Close"
        BY <2>2
      <4> QED BY <1>1, <2>2, <4>1
    <3> QED BY <1>2, <3>1, AnswerProper, Answers
  <2>3. CASE f.code = "Pong"
    <3>1. Quiet /\ UNCHANGED ended
      <4>1. f.code \notin {"Text", "Binary"} /\ f.code # "Ping" /\ f.code # "Close"
        BY <2>3
      <4> QED BY <1>1, <2>3, <4>1
    <3> QED BY <3>1 DEF Answered
  <2>4. CASE f.code = "Close"
    <3>1. Answer(p, Failure(1000)) /\ End(p, "close")
      <4>1. f.code \notin {"Text", "Binary"} /\ f.code # "Ping" /\ f.code # "Pong"
        BY <2>4
      <4> QED BY <1>1, <2>4, <4>1
    <3>2. Proper(setup[p].codec, Failure(1000))
      BY <1>2, AnswerProper
    <3> QED BY <1>2, <3>1, <3>2, Answers
  <2> QED BY <1>3, <2>1, <2>2, <2>3, <2>4 DEF OpCodes
<1> QED BY <1>1, <1>4

LEMMA ReceiveAutobahnKept ==
    ASSUME Invariant, NEW p \in Peers, ReceiveAutobahn(p)
    PROVE  Invariant'
BY AutobahnAnswers, ReceiveKept


-----------------------------------------------------------------------------
LEMMA InitInvariant ==
    ASSUME Init
    PROVE  Invariant
<1>1. /\ <<>> \in Seq(Call) /\ <<>> \in Seq(Part) /\ <<>> \in Seq(Message)
      /\ <<>> \in Seq(Result) /\ Len(<<>>) = 0
  BY EmptySeq
<1>2. /\ setup \in Setups /\ \A p \in Peers : setup[p].script \in Seq(Call)
  BY SetupsAssumption DEF Init
<1>3. TypeOK
  <2>1. script \in [Peers -> Seq(Call)]
    BY <1>2 DEF Init
  <2>2. /\ inside \in [Peers -> SUBSET {"read", "write"}]
        /\ \A p \in Peers : inside[p] # {"read", "write"}
    BY DEF Init
  <2>3. \A p \in Peers : Len(net[p]) <= Window
    <3>1. \A p \in Peers : Len(net[p]) = 0
      BY <1>1 DEF Init
    <3> QED BY <3>1, WindowAssumption
  <2> QED BY <1>1, <1>2, <2>1, <2>2, <2>3 DEF Init, TypeOK
<1>4. ASSUME NEW p \in Peers
      PROVE  Sound(p)
  <2> DEFINE none == <<>>
  <2>1. /\ none \in Seq(Part) /\ Len(none) = 0 /\ none \in Seq(Message)
    BY <1>1
  <2>2. /\ buf[p] = none /\ net[p] = none /\ unsent[Other(p)] = none
        /\ returned[p] = none /\ asked[p] = none /\ asked[Other(p)] = none
        /\ script[p] = setup[p].script
    BY Others DEF Init
  <2> HIDE DEF none
  <2>3. Stream(p) = none
    <3>1. Cat(none, none) = none
      BY <2>1, CatEmpty DEF none
    <3> QED BY <2>2, <3>1 DEF Stream
  <2>4. Chain(none, 0, none)
    <3> DEFINE at == [k \in 1 .. 1 |-> 1]
    <3>1. at \in [1 .. Len(none) + 1 -> Nat] /\ at[1] = 0 + 1 /\ at[Len(none) + 1] = Len(none) + 1
      BY <2>1
    <3>2. \A k \in 1 .. Len(none) : FALSE
      BY <2>1
    <3> HIDE DEF at
    <3>3. Chained(none, 0, none, at)
      BY <3>1, <3>2 DEF Chained
    <3> QED BY <3>1, <3>3 DEF Chain
  <2>5. Pending(p)
    BY <2>1, <2>2, <2>3, <2>4 DEF Pending
  <2>6. Meant(p) /\ ProperAsked(p)
    BY <2>1, <2>2 DEF Meant, ProperAsked
  <2>7. ProperScript(p)
    <3>1. DOMAIN setup[p].script = 1 .. Len(setup[p].script)
      BY <1>2, LenProperties
    <3>2. \A i \in DOMAIN setup[p].script : CallOf(setup[p].codec, setup[p].script[i])
      BY <1>2, CallsAssumption
    <3> QED BY <2>2, <3>1, <3>2 DEF ProperScript
  <2> QED BY <2>5, <2>6, <2>7 DEF Sound
<1> QED BY <1>3, <1>4 DEF Invariant

LEMMA NextInvariant ==
    ASSUME Invariant, [Next]_vars
    PROVE  Invariant'
<1>1. ASSUME NEW p \in Peers, Writer(p)
      PROVE  Invariant'
  BY <1>1, MakeCallKept, EnterKept, WrittenKept, WriteFailsKept DEF Writer
<1>2. ASSUME NEW p \in Peers, Reader(p)
      PROVE  Invariant'
  BY <1>2, EnterKept, ReadSomeKept, ReadFailsKept, ReceiveFailsKept, ReceiveDuplexKept,
     ReceiveEchoKept, ReceiveAutobahnKept DEF Reader
<1>3. CASE UNCHANGED vars
  <2>1. TypeOK'
    BY <1>3 DEF vars, Invariant, TypeOK
  <2>2. \A p \in Peers : Sound(p)'
    BY <1>3 DEF vars, Invariant, Sound, Pending, Meant, ProperAsked, ProperScript, Stream
  <2> QED BY <2>1, <2>2 DEF Invariant
<1> QED BY <1>1, <1>2, <1>3 DEF Next

LEMMA InvariantAlways == Spec => []Invariant
<1>1. Init => Invariant
  BY InitInvariant
<1>2. Invariant /\ [Next]_vars => Invariant'
  BY NextInvariant
<1> QED BY <1>1, <1>2, PTL DEF Spec

(* The variables have their types: no half of a locked stream is ever in it with the
   other, and no socket holds more parts than its window. *)
THEOREM TypeOKAlways == Spec => []TypeOK
<1>1. Invariant => TypeOK
  BY DEF Invariant
<1> QED BY <1>1, InvariantAlways, PTL

(* Whatever the two sides send, whichever codecs they use and however writes are
   cut and connections die, each message receive returns is the one the other side
   meant, in its order, its close code apart from its reason. *)
THEOREM MessagesKeptAlways == Spec => []MessagesKept
<1>1. Invariant => MessagesKept
  <2> SUFFICES ASSUME Invariant, NEW p \in Peers, NEW i \in DOMAIN returned[p],
                      returned[p][i].ok
               PROVE  LET m == Normal(returned[p][i].msg)
                          a == asked[Other(p)][i]
                      IN \/ m = Normal(a)
                         \/ setup[p].codec = "bytes" /\ Empty(a)
                            /\ m = [a EXCEPT !.close_code = 1000]
                         \/ setup[Other(p)].codec = "bytes" /\ a.code = "Binary"
                            /\ m = [a EXCEPT !.close_code = NoCode]
    BY DEF MessagesKept
  <2> DEFINE a == asked[Other(p)][i]
  <2>1. TypeOK /\ Other(p) \in Peers /\ Sound(p) /\ Sound(Other(p))
    BY Others DEF Invariant
  <2>2. i \in 1 .. Len(returned[p])
    BY <2>1, TypesAre, LenProperties
  <2>3. /\ i \in 1 .. Len(asked[Other(p)]) /\ ~Rejects(FrameOf(a))
        /\ returned[p][i].msg = MessageOf(setup[p].codec, FrameOf(a))
    BY <2>1, <2>2 DEF Sound, Meant
  <2>4. Proper(setup[Other(p)].codec, a)
    BY <2>1, <2>3 DEF Sound, ProperAsked
  <2>5. setup[p].codec \in Codecs /\ setup[Other(p)].codec \in Codecs
    BY <2>1, SetupIs
  <2> HIDE DEF a
  <2>6. LET m == Normal(MessageOf(setup[p].codec, FrameOf(a)))
        IN \/ m = Normal(a)
           \/ setup[p].codec = "bytes" /\ Empty(a) /\ m = [a EXCEPT !.close_code = 1000]
           \/ setup[Other(p)].codec = "bytes" /\ a.code = "Binary"
              /\ m = [a EXCEPT !.close_code = NoCode]
    BY <2>3, <2>4, <2>5, ReadAsMeant
  <2> QED BY <2>3, <2>6 DEF a
<1> QED BY <1>1, InvariantAlways, PTL

-----------------------------------------------------------------------------
(* The echo loop. *)

\* It has sent the messages it received, each of them unless it has ended.
Echoed(q) ==
    setup[q].loop = "echo" =>
        /\ script[q] = <<>>
        /\ Len(asked[q]) <= Len(returned[q])
        /\ ended[q] = "no" => Len(asked[q]) = Len(returned[q])
        /\ \A i \in 1 .. Len(asked[q]) :
               returned[q][i].ok /\ returned[q][i].msg = asked[q][i]

Echoes == \A q \in Peers : Echoed(q)

LEMMA EchoElsewhere ==
    ASSUME Invariant, Echoes, NEW p \in Peers, setup' = setup,
           script' \in [Peers -> Seq(Call)], script'[Other(p)] = script[Other(p)],
           asked'[Other(p)] = asked[Other(p)], returned'[Other(p)] = returned[Other(p)],
           ended'[Other(p)] = ended[Other(p)], Echoed(p)'
    PROVE  Echoes'
<1>1. Other(p) \in Peers /\ \A r \in Peers : r = p \/ r = Other(p)
  BY Others
<1>2. Echoed(Other(p))'
  BY <1>1 DEF Echoes, Echoed
<1> QED BY <1>1, <1>2 DEF Echoes

LEMMA MakeCallEchoes ==
    ASSUME Invariant, Echoes, NEW p \in Peers, MakeCall(p)
    PROVE  Echoes'
<1>1. setup[p].loop # "echo"
  BY DEF MakeCall, Echoes, Echoed
<1>2. /\ setup' = setup /\ script' = [script EXCEPT ![p] = Tail(@)]
      /\ asked' = [asked EXCEPT ![p] = Append(@, Converted(setup[p].codec, Head(script[p])))]
      /\ UNCHANGED <<returned, ended>>
  BY DEF MakeCall, Submit
<1>3. script'[Other(p)] = script[Other(p)] /\ asked'[Other(p)] = asked[Other(p)]
  BY <1>2, Others DEF Invariant, TypeOK
<1>4. Invariant'
  BY MakeCallKept
<1> QED BY <1>1, <1>2, <1>3, <1>4, EchoElsewhere DEF Echoed, Invariant, TypeOK

\* Nothing is handed to send and nothing returned.
LEMMA SilentEchoes ==
    ASSUME Invariant, Echoes, UNCHANGED <<setup, asked, returned>>,
           \A q \in Peers : /\ script'[q] = script[q] \/ script'[q] = <<>>
                            /\ ended'[q] = "no" => ended[q] = "no"
    PROVE  Echoes'
BY DEF Echoes, Echoed

LEMMA WriteFailsEchoes ==
    ASSUME Invariant, Echoes, NEW p \in Peers, WriteFails(p)
    PROVE  Echoes'
<1> DEFINE none == <<>>
<1>1. /\ UNCHANGED <<setup, asked, returned>> /\ script' = [script EXCEPT ![p] = none]
      /\ ended' = ended \/ ended' = [ended EXCEPT ![p] = "error"]
  BY DEF WriteFails
<1>2. \A q \in Peers : script'[q] = script[q] \/ script'[q] = none
  BY <1>1 DEF Invariant, TypeOK
<1>3. \A q \in Peers : ended'[q] = "no" => ended[q] = "no"
  BY <1>1 DEF Invariant, TypeOK
<1> QED BY <1>1, <1>2, <1>3, SilentEchoes

\* receive failed; an echo loop has ended and sends nothing.
LEMMA FailedEchoes ==
    ASSUME Invariant, Echoes, NEW p \in Peers, NEW ok \in BOOLEAN, NEW m \in Message,
           Return(p, ok, m), UNCHANGED <<setup, script>>,
           asked'[Other(p)] = asked[Other(p)], ended'[Other(p)] = ended[Other(p)],
           setup[p].loop = "echo" => asked'[p] = asked[p] /\ ended'[p] # "no"
    PROVE  Echoes'
<1>1. TypeOK
  BY DEF Invariant
<1>2. /\ returned'[Other(p)] = returned[Other(p)]
      /\ Len(returned'[p]) = Len(returned[p]) + 1 /\ Len(returned[p]) \in Nat
      /\ \A i \in 1 .. Len(returned[p]) : returned'[p][i] = returned[p][i]
  BY <1>1, ReturnType
<1>3. Echoed(p)'
  <2> SUFFICES ASSUME setup[p].loop = "echo"
               PROVE  Echoed(p)'
    BY DEF Echoed
  <2>1. /\ script[p] = <<>> /\ Len(asked[p]) <= Len(returned[p])
        /\ \A i \in 1 .. Len(asked[p]) :
               returned[p][i].ok /\ returned[p][i].msg = asked[p][i]
    BY DEF Echoes, Echoed
  <2>2. Len(asked[p]) \in Nat
    BY <1>1, TypesAre, LenProperties
  <2>3. Len(asked[p]) <= Len(returned[p]) + 1
    BY <1>2, <2>1, <2>2
  <2>4. \A i \in 1 .. Len(asked[p]) : i \in 1 .. Len(returned[p])
    BY <1>2, <2>1, <2>2
  <2> QED BY <1>2, <2>1, <2>3, <2>4 DEF Echoed
<1> QED BY <1>1, <1>2, <1>3, EchoElsewhere DEF TypeOK

LEMMA ReceiveEchoEchoes ==
    ASSUME Invariant, Echoes, NEW p \in Peers, ReceiveEcho(p)
    PROVE  Echoes'
<1>1. PICK f : /\ setup[p].loop = "echo" /\ Receive(p, f, MessageOf(setup[p].codec, f))
               /\ Answer(p, MessageOf(setup[p].codec, f)) /\ ended' = ended
  BY DEF ReceiveEcho
<1> DEFINE m == MessageOf(setup[p].codec, f)
           yes == TRUE
<1>2. TypeOK /\ Take(p, f)
  BY <1>1 DEF Invariant, Receive
<1>3. m \in Message
  BY <1>2, AnswerProper
<1>4. Return(p, yes, m) /\ asked' = [asked EXCEPT ![p] = Append(@, m)]
  BY <1>1 DEF Receive, Answer, Submit
<1>5. yes \in BOOLEAN /\ yes
  OBVIOUS
<1>6. UNCHANGED <<setup, script, ended>> /\ ended[p] = "no"
  BY <1>1, <1>2 DEF Take, Receiving
<1> HIDE DEF m, yes
<1>7. /\ returned'[Other(p)] = returned[Other(p)]
      /\ Len(returned'[p]) = Len(returned[p]) + 1 /\ Len(returned[p]) \in Nat
      /\ returned'[p][Len(returned[p]) + 1] = [ok |-> yes, msg |-> m]
      /\ \A i \in 1 .. Len(returned[p]) : returned'[p][i] = returned[p][i]
  BY <1>2, <1>3, <1>4, <1>5, ReturnType
<1>8. /\ asked'[p] = Append(asked[p], m) /\ asked'[Other(p)] = asked[Other(p)]
      /\ asked[p] \in Seq(Message)
  BY <1>2, <1>4, Others DEF TypeOK
<1>9. /\ Len(asked'[p]) = Len(asked[p]) + 1 /\ Len(asked[p]) \in Nat
      /\ asked'[p][Len(asked[p]) + 1] = m
      /\ \A i \in 1 .. Len(asked[p]) : asked'[p][i] = asked[p][i]
  BY <1>3, <1>8, AppendProperties, LenProperties
<1>10. Echoed(p)'
  <2>1. /\ script[p] = <<>> /\ Len(asked[p]) = Len(returned[p])
        /\ \A i \in 1 .. Len(asked[p]) :
               returned[p][i].ok /\ returned[p][i].msg = asked[p][i]
    BY <1>1, <1>6 DEF Echoes, Echoed
  <2>2. /\ returned'[p][Len(returned[p]) + 1].ok
        /\ returned'[p][Len(returned[p]) + 1].msg = asked'[p][Len(asked[p]) + 1]
    BY <1>5, <1>7, <1>9
  <2>3. \A i \in 1 .. Len(asked[p]) + 1 : i \in 1 .. Len(asked[p]) \/ i = Len(asked[p]) + 1
    BY <1>9
  <2>4. \A i \in 1 .. Len(asked'[p]) :
            returned'[p][i].ok /\ returned'[p][i].msg = asked'[p][i]
    BY <1>7, <1>9, <2>1, <2>2, <2>3
  <2>5. Len(asked'[p]) = Len(returned'[p]) /\ Len(asked'[p]) <= Len(returned'[p])
    BY <1>7, <1>9, <2>1
  <2> QED BY <1>6, <2>1, <2>4, <2>5 DEF Echoed
<1> QED BY <1>2, <1>6, <1>7, <1>8, <1>10, EchoElsewhere DEF TypeOK

LEMMA InitEchoes ==
    ASSUME Init
    PROVE  Echoes
<1>1. ASSUME NEW p \in Peers, setup[p].loop = "echo"
      PROVE  script[p] = <<>>
  BY <1>1, LoopsAssumption DEF Init
<1>2. ASSUME NEW p \in Peers
      PROVE  asked[p] = <<>> /\ returned[p] = <<>>
  BY <1>2 DEF Init
<1>3. Len(<<>>) = 0
  OBVIOUS
<1>4. ASSUME NEW p \in Peers, setup[p].loop = "echo"
      PROVE  Echoed(p)
  <2> DEFINE none == <<>>
  <2>1. Len(none) = 0 /\ asked[p] = none /\ returned[p] = none /\ script[p] = none
    BY <1>1, <1>2, <1>3, <1>4
  <2> HIDE DEF none
  <2>2. Len(asked[p]) <= Len(returned[p]) /\ Len(asked[p]) = Len(returned[p])
    BY <2>1
  <2>3. \A i \in 1 .. Len(asked[p]) : FALSE
    BY <2>1
  <2> QED BY <2>1, <2>2, <2>3 DEF Echoed, none
<1>5. ASSUME NEW p \in Peers, setup[p].loop # "echo"
      PROVE  Echoed(p)
  BY <1>5 DEF Echoed
<1> QED BY <1>4, <1>5 DEF Echoes

LEMMA ReadFailsEchoes ==
    ASSUME Invariant, Echoes, NEW p \in Peers, ReadFails(p)
    PROVE  Echoes'
<1> DEFINE m == Failure(1000)
           no == FALSE
<1>1. TypeOK /\ Other(p) \in Peers /\ Other(p) # p
  BY Others DEF Invariant
<1>2. m \in Message /\ no \in BOOLEAN
  BY <1>1, SmallCodes, SetupIs, FailureProper DEF Proper
<1>3. /\ Return(p, no, m) /\ UNCHANGED <<setup, script>>
      /\ ended' = [ended EXCEPT ![p] = "error"]
      /\ setup[p].loop = "echo" => Quiet
      /\ Quiet \/ asked' = [asked EXCEPT ![p] = Append(@, m)]
  BY DEF ReadFails, End, Answer, Submit, Return
<1>4. ended'[p] # "no" /\ ended'[Other(p)] = ended[Other(p)]
  BY <1>1, <1>3 DEF TypeOK
<1>5. asked'[Other(p)] = asked[Other(p)]
  BY <1>1, <1>3 DEF TypeOK, Quiet
<1>6. setup[p].loop = "echo" => asked'[p] = asked[p] /\ ended'[p] # "no"
  BY <1>3, <1>4 DEF Quiet
<1> HIDE DEF m, no
<1> QED BY <1>2, <1>3, <1>4, <1>5, <1>6, FailedEchoes

LEMMA ReceiveFailsEchoes ==
    ASSUME Invariant, Echoes, NEW p \in Peers, ReceiveFails(p)
    PROVE  Echoes'
<1>0. PICK f : \E code \in {1002, 1007} : Fails(p, f, code)
  BY FailsAs
<1>1. PICK code \in {1002, 1007} : Fails(p, f, code)
  BY <1>0
<1>2. Take(p, f)
  BY <1>1 DEF Fails
<1>3. Return(p, FALSE, Failure(code))
  BY <1>1 DEF Fails, Return
<1>4. TypeOK /\ Other(p) \in Peers /\ Other(p) # p
  BY Others DEF Invariant
<1>5. Failure(code) \in Message /\ UNCHANGED <<setup, script>>
  <2>1. Failure(code) \in Message
    BY <1>1, <1>2, <1>4, AnswerProper
  <2>2. UNCHANGED <<setup, script>>
    BY <1>2 DEF Take
  <2> QED BY <2>1, <2>2
<1> DEFINE m == Failure(code)
           no == FALSE
<1>8. no \in BOOLEAN
  OBVIOUS
<1>9. Return(p, no, m)
  BY <1>3 DEF Return
<1>6. \/ /\ setup[p].loop # "echo" /\ ended' = ended
         /\ asked' = [asked EXCEPT ![p] = Append(@, m)]
      \/ ended' = [ended EXCEPT ![p] = "error"] /\ asked' = asked
  BY <1>1 DEF Fails, End, Answer, Submit, Quiet
<1>10. m \in Message
  BY <1>5
<1> HIDE DEF m, no
<1>7. /\ asked'[Other(p)] = asked[Other(p)] /\ ended'[Other(p)] = ended[Other(p)]
      /\ setup[p].loop = "echo" => asked'[p] = asked[p] /\ ended'[p] # "no"
  BY <1>4, <1>6 DEF TypeOK
<1> QED BY <1>5, <1>7, <1>8, <1>9, <1>10, FailedEchoes

\* A message is received by another loop than the echo's.
LEMMA ReceiveEchoes ==
    ASSUME Invariant, Echoes, NEW p \in Peers, NEW f, setup[p].loop # "echo",
           Receive(p, f, MessageOf(setup[p].codec, f)), Answered(p),
           ended' = ended \/ End(p, "close")
    PROVE  Echoes'
<1> DEFINE m == MessageOf(setup[p].codec, f)
           yes == TRUE
<1>1. TypeOK /\ Take(p, f) /\ Other(p) \in Peers /\ Other(p) # p
  BY Others DEF Invariant, Receive
<1>2. m \in Message /\ yes \in BOOLEAN
  BY <1>1, AnswerProper
<1>3. Return(p, yes, m) /\ UNCHANGED <<setup, script>>
  BY DEF Receive, Take
<1>4. ended'[Other(p)] = ended[Other(p)]
  BY <1>1 DEF End, TypeOK
<1>5. asked'[Other(p)] = asked[Other(p)]
  BY <1>1 DEF Answered, Quiet, Submit, TypeOK
<1> HIDE DEF m, yes
<1> QED BY <1>2, <1>3, <1>4, <1>5, FailedEchoes

LEMMA NextEchoes ==
    ASSUME Invariant, Echoes, [Next]_vars
    PROVE  Echoes'
<1>1. ASSUME NEW p \in Peers, EnterWrite(p) \/ EnterRead(p) \/ Written(p) \/ ReadSome(p)
      PROVE  Echoes'
  <2>1. UNCHANGED <<setup, asked, returned, script, ended>>
    BY <1>1 DEF EnterWrite, EnterRead, Written, ReadSome
  <2> QED BY <2>1, SilentEchoes
<1>2. ASSUME NEW p \in Peers, ReceiveDuplex(p)
      PROVE  Echoes'
  <2>1. PICK f : /\ setup[p].loop # "echo" /\ Receive(p, f, MessageOf(setup[p].codec, f))
                 /\ Quiet /\ IF f.code = "Close" THEN End(p, "close") ELSE UNCHANGED ended
    BY <1>2 DEF ReceiveDuplex
  <2>2. Answered(p) /\ (ended' = ended \/ End(p, "close"))
    BY <2>1 DEF Answered
  <2> QED BY <2>1, <2>2, ReceiveEchoes
<1>3. ASSUME NEW p \in Peers, ReceiveAutobahn(p)
      PROVE  Echoes'
  <2>1. PICK f : /\ setup[p].loop = "autobahn" /\ Receive(p, f, MessageOf(setup[p].codec, f))
                 /\ Answered(p) /\ (ended' = ended \/ End(p, "close"))
    BY <1>3, AutobahnAnswers
  <2> QED BY <2>1, ReceiveEchoes
<1>4. CASE UNCHANGED vars
  BY <1>4, SilentEchoes DEF vars
<1>5. ASSUME NEW p \in Peers, Writer(p)
      PROVE  Echoes'
  BY <1>1, <1>5, MakeCallEchoes, WriteFailsEchoes DEF Writer
<1>6. ASSUME NEW p \in Peers, Reader(p)
      PROVE  Echoes'
  BY <1>1, <1>2, <1>3, <1>6, ReadFailsEchoes, ReceiveFailsEchoes, ReceiveEchoEchoes DEF Reader
<1> QED BY <1>4, <1>5, <1>6 DEF Next

LEMMA EchoesAlways == Spec => []Echoes
<1>1. Init => Echoes
  BY InitEchoes
<1>2. Invariant /\ Echoes /\ [Next]_vars => Echoes'
  BY NextEchoes
<1> QED BY <1>1, <1>2, InvariantAlways, PTL DEF Spec

-----------------------------------------------------------------------------
(* There and back again. *)

LEMMA EmptyRead ==
    ASSUME NEW codec \in Codecs, NEW from \in Codecs, NEW a, Proper(from, a),
           ~Rejects(FrameOf(a)), Empty(MessageOf(codec, FrameOf(a)))
    PROVE  Empty(a)
<1> DEFINE f == FrameOf(a)
           r == MessageOf(codec, f)
<1>1. /\ a \in Message /\ a.data \in Seq(Byte) /\ a.close_code \in Code
      /\ f \in Frame /\ f.code = a.code /\ f.data \in Seq(Byte)
  BY FrameOfType DEF Proper, Message, FrameOf, Frame
<1>2. a.code = "Close" /\ r.data = <<>> /\ r.close_code = NoCode
  BY <1>1, MessageOfType DEF Empty
<1>3. f.data = <<>>
  <2>1. CASE codec = "frame"
    BY <1>2, <2>1 DEF MessageOf, Msg
  <2>2. CASE codec # "frame" /\ Len(f.data) >= 2
    <3>1. r.close_code = get_u16(f.data)
      BY <1>1, <1>2, <2>2 DEF MessageOf, Msg
    <3>2. f.data # <<>> => ValidCode(get_u16(f.data))
      BY <1>1, <1>2 DEF Rejects
    <3>3. ~ValidCode(NoCode)
      BY DEF ValidCode, NoCode
    <3> QED BY <1>2, <3>1, <3>2, <3>3
  <2>3. CASE codec # "frame" /\ ~(Len(f.data) >= 2)
    BY <1>1, <1>2, <2>3 DEF MessageOf, Msg
  <2> QED BY <2>1, <2>2, <2>3
<1>4. a.close_code = NoCode
  <2> SUFFICES ASSUME a.close_code # NoCode
               PROVE  FALSE
    OBVIOUS
  <2> DEFINE b == to_be_bytes(a.close_code)
  <2>1. b \in Seq(Byte) /\ Len(b) = 2 /\ f.data = b \o a.data
    BY <1>1, <1>2, CodeBytes DEF FrameOf
  <2>2. Len(f.data) = 0
    BY <1>3, EmptySeq
  <2> HIDE DEF b
  <2>3. Len(b \o a.data) = Len(b) + Len(a.data) /\ Len(a.data) \in Nat
    BY <1>1, <2>1, ConcatProperties, LenProperties
  <2> QED BY <2>1, <2>2, <2>3
<1>5. f.data = a.data
  BY <1>4 DEF FrameOf
<1> QED BY <1>2, <1>3, <1>4, <1>5 DEF Empty

\* A code on what is no Close is not in its bytes.
LEMMA BytesOfData ==
    ASSUME NEW a \in Message, a.code # "Close"
    PROVE  Bytes(Normal(a)) = a.data
<1>1. a = [code |-> a.code, data |-> a.data, close_code |-> a.close_code]
  BY DEF Message
<1>2. Normal(a).code = a.code /\ Normal(a).data = a.data
  BY <1>1 DEF Normal, MessageOf, Msg
<1> QED BY <1>2 DEF Bytes, FrameOf

(* The echo of a message, read by the codec that sent it. *)
LEMMA ReadTwice ==
    ASSUME NEW codec \in Codecs, NEW echo \in Codecs, NEW a, Proper(codec, a),
           ~Rejects(FrameOf(a)), ~Rejects(FrameOf(MessageOf(echo, FrameOf(a))))
    PROVE  \/ Bytes(Normal(MessageOf(codec, FrameOf(MessageOf(echo, FrameOf(a))))))
                = Bytes(Normal(a))
           \/ Empty(a) /\ "bytes" \in {codec, echo}
<1> DEFINE f == FrameOf(a)
           b == MessageOf(echo, f)
           c == MessageOf(codec, FrameOf(b))
<1>1. /\ a \in Message /\ f \in Frame /\ f.code = a.code
      /\ b \in Message /\ b.code = a.code
      /\ b.code # "Close" => b.close_code = NoCode
  <2>1. a \in Message /\ f \in Frame /\ f.code = a.code
    BY FrameOfType DEF Proper, FrameOf
  <2>2. b \in Message /\ b.code = f.code /\ (b.code # "Close" => b.close_code = NoCode)
    BY <2>1, MessageOfType
  <2> QED BY <2>1, <2>2
<1>2. Proper(echo, b)
  BY <1>1 DEF Proper
<1>3. \/ Normal(b) = Normal(a)
      \/ echo = "bytes" /\ Empty(a)
      \/ codec = "bytes" /\ a.code = "Binary" /\ Normal(b) = [a EXCEPT !.close_code = NoCode]
  BY ReadAsMeant
<1> HIDE DEF b
<1>4. \/ Normal(c) = Normal(b)
      \/ codec = "bytes" /\ Empty(b)
      \/ echo = "bytes" /\ b.code = "Binary" /\ Normal(c) = [b EXCEPT !.close_code = NoCode]
  BY <1>2, ReadAsMeant DEF b
<1>5. CASE a.code # "Close"
  <2>1. FrameOf(a).data = a.data /\ b.data = a.data
    BY <1>1, <1>5 DEF FrameOf, MessageOf, Msg, b
  <2>2. FrameOf(b).data = b.data /\ FrameOf(b).code = b.code
    BY <1>1, <1>5 DEF FrameOf
  <2>3. c.data = b.data /\ c.code = b.code /\ c \in Message
    <3>1. FrameOf(b) \in Frame
      BY <1>1, FrameOfType
    <3> QED BY <1>1, <1>5, <2>2, <3>1, MessageOfType DEF MessageOf, Msg
  <2>4. Bytes(Normal(c)) = c.data /\ Bytes(Normal(a)) = a.data
    BY <1>1, <1>5, <2>3, BytesOfData
  <2> QED BY <2>1, <2>3, <2>4 DEF b
<1>6. CASE a.code = "Close"
  <2>1. Empty(b) => Empty(a)
    BY EmptyRead DEF b
  <2>2. (Normal(c) = Normal(b) /\ Normal(b) = Normal(a)) \/ (Empty(a) /\ "bytes" \in {codec, echo})
    BY <1>1, <1>3, <1>4, <1>6, <2>1
  <2> QED BY <2>2 DEF b
<1> QED BY <1>5, <1>6

(* Whatever is sent to an echo server, over any codecs, comes back with the bytes it
   went with, the codes of its Closes included, but for the 1000 in an empty one. *)
THEOREM RoundTripAlways == Spec => []RoundTrip
<1>1. Invariant /\ Echoes => RoundTrip
  <2> SUFFICES ASSUME Invariant, Echoes, NEW p \in Peers, setup[Other(p)].loop = "echo",
                      NEW i \in DOMAIN returned[p], returned[p][i].ok
               PROVE  \/ Bytes(Normal(returned[p][i].msg)) = Bytes(Normal(asked[p][i]))
                      \/ Empty(asked[p][i]) /\ \E q \in Peers : setup[q].codec = "bytes"
    BY DEF RoundTrip
  <2> DEFINE q == Other(p)
             a == asked[p][i]
             b == asked[q][i]
  <2>1. TypeOK /\ q \in Peers /\ Other(q) = p /\ Sound(p) /\ Sound(q) /\ Echoed(q)
    BY Others DEF Invariant, Echoes
  <2>2. i \in 1 .. Len(returned[p])
    BY <2>1, TypesAre, LenProperties
  <2>3. /\ i \in 1 .. Len(asked[q]) /\ ~Rejects(FrameOf(b))
        /\ returned[p][i].msg = MessageOf(setup[p].codec, FrameOf(b))
    BY <2>1, <2>2 DEF Sound, Meant
  <2>4. /\ i \in 1 .. Len(returned[q]) /\ returned[q][i].ok /\ returned[q][i].msg = b
    <3>1. Len(asked[q]) \in Nat /\ Len(returned[q]) \in Nat
      BY <2>1, TypesAre, LenProperties
    <3>2. Len(asked[q]) <= Len(returned[q]) /\ returned[q][i].ok /\ returned[q][i].msg = b
      BY <2>1, <2>3 DEF Echoed
    <3> QED BY <2>3, <3>1, <3>2
  <2>5. /\ i \in 1 .. Len(asked[p]) /\ ~Rejects(FrameOf(a))
        /\ b = MessageOf(setup[q].codec, FrameOf(a))
    BY <2>1, <2>4 DEF Sound, Meant
  <2>6. Proper(setup[p].codec, a)
    BY <2>1, <2>5 DEF Sound, ProperAsked
  <2>7. setup[p].codec \in Codecs /\ setup[q].codec \in Codecs
    BY <2>1, SetupIs
  <2> HIDE DEF a, b, q
  <2>8. \/ Bytes(Normal(MessageOf(setup[p].codec, FrameOf(b)))) = Bytes(Normal(a))
        \/ Empty(a) /\ "bytes" \in {setup[p].codec, setup[q].codec}
    BY <2>3, <2>5, <2>6, <2>7, ReadTwice
  <2> QED BY <2>1, <2>3, <2>8 DEF a
<1> QED BY <1>1, InvariantAlways, EchoesAlways, PTL

=============================================================================
