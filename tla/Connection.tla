----------------------------- MODULE Connection -----------------------------
(***************************************************************************)
(* An open connection between two applications of this library: the        *)
(* message codecs StringCodec and BytesCodec (codec/text, codec/binary,    *)
(* message.rs) over FrameCodec, the halves of a split stream (stream.rs),  *)
(* and the loops of the examples around them.                              *)
(*                                                                         *)
(* A frame is written in two parts, header and payload; an empty payload   *)
(* has no part.  A socket holds Window parts.  Payloads are short          *)
(* sequences of bytes; 255 stands for what is not UTF-8.                   *)
(***************************************************************************)
EXTENDS Naturals, Sequences

CONSTANTS
    Setups,      \* who talks to whom: codec, loop, stream and calls of each side
    Window       \* parts a socket takes before write blocks

Peers == {"client", "server"}
Other(p) == IF p = "client" THEN "server" ELSE "client"

(* The halves of a split stream are free of each other if it is a TcpStream (two
   handles) or asynchronous (tokio's halves lock for one poll), locked if it is a
   blocking TLS stream. *)
Streams == {"free", "locked"}
Codecs == {"text", "bytes", "frame"}

(* "duplex": two threads, one receives until a Close or an error, one makes the
   calls of its script; "echo": the loop of echo_server.rs; "autobahn": the one of
   autobahn_client.rs, with FrameCodec. *)
Loops == {"duplex", "echo", "autobahn"}

Byte == 0 .. 255
NoCode == 0
Code == 0 .. 65535
OpCodes == {"Text", "Binary", "Ping", "Pong", "Close"}
Message == [code : OpCodes, data : Seq(Byte), close_code : Code]
Call == [how : {"data", "code", "close"}, msg : Message]

ASSUME SetupsAssumption ==
    Setups \subseteq [Peers -> [codec : Codecs, loop : Loops, stream : Streams,
                               script : Seq(Call)]]

(* FrameCodec has no close and no conversions; the code close is given is not the
   0 that stands for none here. *)
CallOf(codec, c) ==
    /\ codec = "frame" => c.how = "code"
    /\ c.how = "close" => c.msg.close_code # NoCode

ASSUME CallsAssumption ==
    \A s \in Setups : \A p \in Peers :
        \A i \in DOMAIN s[p].script : CallOf(s[p].codec, s[p].script[i])

\* The loops of the examples send answers only.
ASSUME LoopsAssumption ==
    \A s \in Setups : \A p \in Peers : s[p].loop # "duplex" => s[p].script = <<>>

ASSUME WindowAssumption == Window \in Nat /\ Window > 0

VARIABLES
    setup,      \* of the connection
    script,     \* the calls each application still has to make
    unsent,     \* parts the call in progress has still to write
    inside,     \* the halves that are in a call of a locked stream: "read", "write"
    net,        \* parts on their way to each side
    buf,        \* parts read and not yet received as a frame
    ended,      \* how the receiving loop ended
    asked,      \* history: the messages each side has sent
    returned    \* history: what each side's receive has returned

vars == <<setup, script, unsent, inside, net, buf, ended, asked, returned>>

Frame == [code : OpCodes, data : Seq(Byte)]
Part == [frame : Frame, last : BOOLEAN]
Result == [ok : BOOLEAN, msg : Message]

TypeOK ==
    /\ setup \in Setups
    /\ script \in [Peers -> Seq(Call)]
    /\ unsent \in [Peers -> Seq(Part)]
    /\ inside \in [Peers -> SUBSET {"read", "write"}]
    /\ \A p \in Peers : inside[p] # {"read", "write"}
    /\ net \in [Peers -> Seq(Part)]
    /\ \A p \in Peers : Len(net[p]) <= Window
    /\ buf \in [Peers -> Seq(Part)]
    /\ ended \in [Peers -> {"no", "close", "error"}]
    /\ asked \in [Peers -> Seq(Message)]
    /\ returned \in [Peers -> Seq(Result)]

Init ==
    /\ setup \in Setups
    /\ script = [p \in Peers |-> setup[p].script]
    /\ unsent = [p \in Peers |-> <<>>]
    /\ inside = [p \in Peers |-> {}]
    /\ net = [p \in Peers |-> <<>>]
    /\ buf = [p \in Peers |-> <<>>]
    /\ ended = [p \in Peers |-> "no"]
    /\ asked = [p \in Peers |-> <<>>]
    /\ returned = [p \in Peers |-> <<>>]

-----------------------------------------------------------------------------
(* The message codecs. *)

to_be_bytes(code) == <<code \div 256, code % 256>>
get_u16(data) == 256 * data[1] + data[2]
FromByte(data, i) == SubSeq(data, i, Len(data))

Msg(code, data, close_code) == [code |-> code, data |-> data, close_code |-> close_code]

\* Faulty variant: a text with a code is no Close either.
ConvertedAsData(codec, c) ==
    IF c.how = "code" THEN Msg(c.msg.code, c.msg.data, NoCode)
    ELSE Msg(IF codec = "text" THEN "Text" ELSE "Binary", c.msg.data,
             IF c.how = "data" THEN NoCode ELSE c.msg.close_code)

(* The From implementations: send(data), send((opcode, data)) and
   close(code, data), which is send((code, data)).  Only a text with a code is a
   Close. *)
Converted(codec, c) ==
    CASE c.how = "code" -> Msg(c.msg.code, c.msg.data, NoCode)
      [] c.how = "data" -> Msg(IF codec = "text" THEN "Text" ELSE "Binary", c.msg.data, NoCode)
      [] c.how = "close" /\ codec = "text"  -> Msg("Close", c.msg.data, c.msg.close_code)
      [] c.how = "close" /\ codec = "bytes" -> Msg("Binary", c.msg.data, c.msg.close_code)

\* Faulty variant: a Close without a reason goes without its code.
FrameOfReason(m) ==
    [code |-> m.code,
     data |-> IF m.close_code # NoCode /\ m.data # <<>>
              THEN to_be_bytes(m.close_code) \o m.data ELSE m.data]

\* send: the code of a Close goes in front of its data.
FrameOf(m) ==
    [code |-> m.code,
     data |-> IF m.code = "Close" /\ m.close_code # NoCode
              THEN to_be_bytes(m.close_code) \o m.data ELSE m.data]

\* Faulty variant: the code is read and left in the data.
MessageWithCode(codec, f) ==
    Msg(f.code, f.data,
        IF f.code = "Close" /\ Len(f.data) >= 2 /\ codec # "frame" THEN get_u16(f.data)
        ELSE IF f.code = "Close" /\ codec = "bytes" THEN 1000
        ELSE NoCode)

(* receive: the first two bytes of a Close are its code.  BytesCodec makes it
   1000 if there is none.  FrameCodec leaves the payload alone. *)
MessageOf(codec, f) ==
    IF codec = "frame" \/ f.code # "Close" THEN Msg(f.code, f.data, NoCode)
    ELSE IF Len(f.data) >= 2 THEN Msg("Close", FromByte(f.data, 3), get_u16(f.data))
    ELSE Msg("Close", f.data, IF codec = "bytes" THEN 1000 ELSE NoCode)

Utf8(data) == \A i \in DOMAIN data : data[i] # 255

ValidCode(code) ==
    code \in 1000 .. 4999 /\ code \notin 1004 .. 1006 /\ code \notin 1015 .. 2999

\* A control frame with more bytes than RFC 6455 allows.  No send looks.
TooBig(f) == f.code \notin {"Text", "Binary"} /\ Len(f.data) > 125

(* check_frame under the default configuration, which all codecs use. *)
Rejects(f) ==
    \/ f.code = "Text" /\ ~Utf8(f.data)
    \/ TooBig(f)
    \/ /\ f.code = "Close" /\ f.data # <<>>
       /\ \/ Len(f.data) = 1
          \/ ~ValidCode(get_u16(f.data))
          \/ ~Utf8(FromByte(f.data, 3))

-----------------------------------------------------------------------------
(* Writing. *)

Parts(f) ==
    IF f.data = <<>> THEN <<[frame |-> f, last |-> TRUE]>>
    ELSE <<[frame |-> f, last |-> FALSE], [frame |-> f, last |-> TRUE]>>

Submit(p, m) ==
    /\ unsent' = [unsent EXCEPT ![p] = Parts(FrameOf(m))]
    /\ asked' = [asked EXCEPT ![p] = Append(@, m)]

\* Both threads of a side are through, and its stream is dropped.
Gone(p) == ended[p] # "no" /\ script[p] = <<>> /\ unsent[p] = <<>>

(* The writing thread of a duplex application makes its next call. *)
MakeCall(p) ==
    /\ script[p] # <<>>
    /\ unsent[p] = <<>>
    /\ Submit(p, Converted(setup[p].codec, Head(script[p])))
    /\ script' = [script EXCEPT ![p] = Tail(@)]
    /\ UNCHANGED <<setup, inside, net, buf, ended, returned>>

\* Faulty variant: the lock does not keep the halves apart.
EnterAnyway(p, half) ==
    /\ setup[p].stream = "locked"
    /\ half \notin inside[p]
    /\ inside' = [inside EXCEPT ![p] = @ \cup {half}]

(* WriteHalf and ReadHalf lock the stream for the whole of a read or write. *)
Enter(p, half) ==
    /\ setup[p].stream = "locked"
    /\ inside[p] = {}
    /\ inside' = [inside EXCEPT ![p] = {half}]

Inside(p, half) == setup[p].stream = "locked" => half \in inside[p]

\* Faulty variant: the guard of a write outlives it.
LeaveRead(p, half) == inside' = [inside EXCEPT ![p] = @ \ {"read"}]

Leave(p, half) == inside' = [inside EXCEPT ![p] = @ \ {half}]

EnterWrite(p) ==
    /\ unsent[p] # <<>>
    /\ Enter(p, "write")
    /\ UNCHANGED <<setup, script, unsent, net, buf, ended, asked, returned>>

(* write_vectored takes both parts or one; that of WriteHalf is std's default,
   which writes the first part.  What is left is for write_all. *)
Written(p) ==
    /\ Inside(p, "write")
    /\ \E n \in 1 .. Len(unsent[p]) :
        /\ setup[p].stream = "locked" => n = 1
        /\ Len(net[Other(p)]) + n <= Window
        /\ net' = [net EXCEPT ![Other(p)] = @ \o SubSeq(unsent[p], 1, n)]
        /\ unsent' = [unsent EXCEPT ![p] = SubSeq(@, n + 1, Len(@))]
    /\ Leave(p, "write")
    /\ UNCHANGED <<setup, script, buf, ended, asked, returned>>

(* The peer is gone.  No loop goes on after a failed send. *)
WriteFails(p) ==
    /\ unsent[p] # <<>> /\ Inside(p, "write")
    /\ Gone(Other(p))
    /\ unsent' = [unsent EXCEPT ![p] = <<>>]
    /\ script' = [script EXCEPT ![p] = <<>>]
    /\ ended' = IF setup[p].loop = "duplex" \/ ended[p] # "no" THEN ended
                ELSE [ended EXCEPT ![p] = "error"]
    /\ Leave(p, "write")
    /\ UNCHANGED <<setup, net, buf, asked, returned>>

-----------------------------------------------------------------------------
(* Reading. *)

\* Faulty variant: a payload is waited for even if it is empty.
HasPayload(p) == Len(buf[p]) > 1

\* The buffer starts with a whole frame.
HasFrame(p) == \E i \in DOMAIN buf[p] : buf[p][i].last

\* The receiving thread is in receive; those of the loops send before that.
Receiving(p) == ended[p] = "no" /\ (setup[p].loop = "duplex" \/ unsent[p] = <<>>)

EnterRead(p) ==
    /\ Receiving(p) /\ ~HasFrame(p)
    /\ Enter(p, "read")
    /\ UNCHANGED <<setup, script, unsent, net, buf, ended, asked, returned>>

ReadSome(p) ==
    /\ Receiving(p) /\ ~HasFrame(p) /\ Inside(p, "read")
    /\ \E n \in 1 .. Len(net[p]) :
        /\ buf' = [buf EXCEPT ![p] = @ \o SubSeq(net[p], 1, n)]
        /\ net' = [net EXCEPT ![p] = SubSeq(@, n + 1, Len(@))]
    /\ Leave(p, "read")
    /\ UNCHANGED <<setup, script, unsent, ended, asked, returned>>

Return(p, ok, m) == returned' = [returned EXCEPT ![p] = Append(@, [ok |-> ok, msg |-> m])]
End(p, how) == ended' = [ended EXCEPT ![p] = how]
Quiet == UNCHANGED <<unsent, asked>>

Failure(code) == Msg("Close", <<>>, code)
Answer(p, m) == Submit(p, m)

(* The end of the stream, or a reset, which takes with it what is on its way: the
   peer's socket was closed with bytes in it.  The autobahn loop tries to send a
   Close before it ends. *)
ReadFails(p) ==
    /\ Receiving(p) /\ ~HasFrame(p) /\ Inside(p, "read")
    /\ Gone(Other(p))
    /\ net[p] = <<>> \/ net[Other(p)] # <<>>
    /\ net' = [net EXCEPT ![p] = <<>>]
    /\ Return(p, FALSE, Failure(1000))
    /\ End(p, "error")
    /\ IF setup[p].loop = "autobahn" THEN Answer(p, Failure(1000)) ELSE Quiet
    /\ Leave(p, "read")
    /\ UNCHANGED <<setup, script, buf>>

\* The frame at the head of the buffer, taken off it by receive.
Take(p, f) ==
    /\ Receiving(p) /\ HasFrame(p)
    /\ f = buf[p][1].frame
    /\ buf' = [buf EXCEPT ![p] = FromByte(@, IF buf[p][1].last THEN 2 ELSE 3)]
    /\ UNCHANGED <<setup, script, inside, net>>

(* receive returns a protocol error.  The autobahn loop sends its code to the peer
   and goes on, the others end. *)
ReceiveFails(p) ==
    \E f \in {buf[p][i].frame : i \in DOMAIN buf[p]} :
        LET code == IF f.code = "Text" \/ (Len(f.data) \in 3 .. 125 /\ ValidCode(get_u16(f.data)))
                    THEN 1007 ELSE 1002
        IN /\ Take(p, f)
           /\ Rejects(f)
           /\ Return(p, FALSE, Failure(code))
           /\ IF setup[p].loop = "autobahn" THEN Answer(p, Failure(code)) /\ UNCHANGED ended
              ELSE End(p, "error") /\ Quiet

(* receive returns a message. *)
Receive(p, f, m) ==
    /\ Take(p, f)
    /\ ~Rejects(f)
    /\ m = MessageOf(setup[p].codec, f)
    /\ Return(p, TRUE, m)

ReceiveDuplex(p) ==
    \E f \in {buf[p][i].frame : i \in DOMAIN buf[p]} :
        /\ setup[p].loop = "duplex"
        /\ Receive(p, f, MessageOf(setup[p].codec, f))
        /\ IF f.code = "Close" THEN End(p, "close") ELSE UNCHANGED ended
        /\ Quiet

(* The echo loop sends back whatever it gets, a Close too, and goes on. *)
ReceiveEcho(p) ==
    \E f \in {buf[p][i].frame : i \in DOMAIN buf[p]} :
        /\ setup[p].loop = "echo"
        /\ Receive(p, f, MessageOf(setup[p].codec, f))
        /\ Answer(p, MessageOf(setup[p].codec, f))
        /\ UNCHANGED ended

ReceiveAutobahn(p) ==
    \E f \in {buf[p][i].frame : i \in DOMAIN buf[p]} :
        /\ setup[p].loop = "autobahn"
        /\ Receive(p, f, MessageOf(setup[p].codec, f))
        /\ CASE f.code \in {"Text", "Binary"} ->
                  Answer(p, MessageOf(setup[p].codec, f)) /\ UNCHANGED ended
             [] f.code = "Ping"  -> Answer(p, Msg("Pong", f.data, NoCode)) /\ UNCHANGED ended
             [] f.code = "Pong"  -> Quiet /\ UNCHANGED ended
             [] f.code = "Close" -> Answer(p, Failure(1000)) /\ End(p, "close")

-----------------------------------------------------------------------------
Writer(p) ==
    \/ MakeCall(p)
    \/ EnterWrite(p)
    \/ Written(p)
    \/ WriteFails(p)

Reader(p) ==
    \/ EnterRead(p)
    \/ ReadSome(p)
    \/ ReadFails(p)
    \/ ReceiveFails(p)
    \/ ReceiveDuplex(p)
    \/ ReceiveEcho(p)
    \/ ReceiveAutobahn(p)

Next == \E p \in Peers : Writer(p) \/ Reader(p)

(* The two threads of a side are scheduled, the socket delivers and wakes them.
   Nothing is assumed of the order in which they get the lock. *)
Fairness == \A p \in Peers : WF_vars(Writer(p)) /\ WF_vars(Reader(p))

Spec == Init /\ [][Next]_vars /\ Fairness

-----------------------------------------------------------------------------
(* Properties. *)

\* A Close whose code the caller put in front of the data himself.
Normal(m) == IF m.close_code = NoCode THEN MessageOf("text", [code |-> m.code, data |-> m.data])
             ELSE m

Empty(m) == m.code = "Close" /\ m.data = <<>> /\ m.close_code = NoCode

(* Every message arrives as the caller meant it, in order, its close code apart
   from its reason, whichever way it was given and whichever codec reads it;
   BytesCodec adds 1000 to an empty Close and drops the code of one of its own,
   which it sends as Binary. *)
MessagesKept ==
    \A p \in Peers : \A i \in DOMAIN returned[p] :
        returned[p][i].ok =>
            LET m == Normal(returned[p][i].msg)
                a == asked[Other(p)][i]
            IN \/ m = Normal(a)
               \/ setup[p].codec = "bytes" /\ Empty(a) /\ m = [a EXCEPT !.close_code = 1000]
               \/ setup[Other(p)].codec = "bytes" /\ a.code = "Binary"
                  /\ m = [a EXCEPT !.close_code = NoCode]

Bytes(m) == FrameOf(m).data

(* An echo server with either codec sends back the very payloads it got, close
   codes included, but for the 1000 in an empty Close. *)
RoundTrip ==
    \A p \in Peers :
        setup[Other(p)].loop = "echo" => \A i \in DOMAIN returned[p] :
            returned[p][i].ok =>
                \/ Bytes(Normal(returned[p][i].msg)) = Bytes(Normal(asked[p][i]))
                \/ Empty(asked[p][i]) /\ \E q \in Peers : setup[q].codec = "bytes"

\* Both halves of a locked stream are stuck: the reading one is inside it and gets
\* nothing, or the writing one is inside it and the socket is full.
LockedOut(p) ==
    /\ setup[p].stream = "locked" /\ setup[p].loop = "duplex"
    /\ \/ "read" \in inside[p] /\ net[p] = <<>> /\ unsent[p] # <<>>
       \/ "write" \in inside[p] /\ Len(net[Other(p)]) = Window /\ Receiving(p)

(* A message given to send goes out or fails, unless the lock of a blocking TLS
   stream holds up one of the sides for good. *)
SendEnds ==
    \A p \in Peers :
        [](unsent[p] # <<>> => <>(unsent[p] = <<>> \/ \E q \in Peers : []LockedOut(q)))

\* p has sent a Close, in whole.
SentClose(p) ==
    unsent[p] = <<>> /\ \E i \in DOMAIN asked[p] : asked[p][i].code = "Close"

(* "close response": who sent a Close is answered, or at least sees the end of the
   stream, whatever the other side makes of it and however its stream is locked. *)
CloseAnswered ==
    \A p \in Peers :
        SentClose(p) ~> ended[p] # "no"

(* close of StringCodec starts the closing handshake; it never leaves the
   connection open with nothing left to do, unless the lock of a blocking TLS
   stream holds up one of the sides for good. *)
CloseEnds ==
    \A p \in Peers :
        [](setup[p].codec = "text" /\ script[p] # <<>> /\ Head(script[p]).how = "close"
           => <>(ended[p] # "no" \/ \E q \in Peers : []LockedOut(q)))

=============================================================================
