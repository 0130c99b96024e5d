------------------------------- MODULE Opening -------------------------------
(***************************************************************************)
(* Opening a connection: the HTTP upgrade between a client and a server of *)
(* this library (protocol.rs, lib.rs), over streams that may be buffered   *)
(* (stream.rs, tokio's BufStream), up to the first frames and the split of *)
(* the stream into a read half and a write half.                           *)
(*                                                                         *)
(* A head (request or response) is two tokens, of which the second ends    *)
(* it; a frame is one.  The client is asked for one connection, the server *)
(* serves one.                                                             *)
(***************************************************************************)
EXTENDS Integers, Sequences, FiniteSets

CONSTANTS
    Clients, Servers,   \* the kinds of stream each side may run over
    MaxFrames           \* bound: frames each side sends

(* cap is the capacity of BufReader and BufWriter, 0 for a stream without. *)
Kinds == [async : BOOLEAN, cap : Nat]

ASSUME KindsAssumption == Clients \subseteq Kinds /\ Servers \subseteq Kinds

ASSUME MaxFramesAssumption == MaxFrames \in Nat

Peers == {"client", "server"}
Other(p) == IF p = "client" THEN "server" ELSE "client"

VARIABLES
    kind,       \* the stream of each side
    out,        \* BufWriter: written and not yet sent
    net,        \* on the way to each side
    ahead,      \* BufReader: received and not yet read
    seen,       \* the head read so far, byte by byte
    pc,         \* where with_stream and accept are
    received,   \* frames handed to the codec
    gone,       \* the stream has been dropped
    split,      \* the codec has been split
    wrote       \* history: everything each side has written

vars == <<kind, out, net, ahead, seen, pc, received, gone, split, wrote>>

Token(what, at, says) == [what |-> what, at |-> at, says |-> says]
HttpHead(what, says) == <<Token(what, 1, says), Token(what, 2, says)>>

\* Faulty variant: the first line end is taken for the empty line.
EndsLine(t) == t.what # "frame"

\* ends_with(b"\r\n\r\n").
EndsHead(t) == t.what # "frame" /\ t.at = 2

\* A request that httparse refuses, that standard_handshake_req_check refuses, or neither.
Requests == {"garbled", "illegal", "legal"}
Responses == {"switch", "refuse"}
Frames == [what : {"frame"}, at : 1 .. MaxFrames, says : {"data"}]
Tokens == [what : {"request"}, at : {1, 2}, says : Requests]
          \cup [what : {"response"}, at : {1, 2}, says : Responses]
          \cup Frames

\* "refused": an error response was sent or received; "failed": any other error.
Final == {"open", "refused", "failed"}

Init ==
    /\ kind \in [Peers -> Clients \cup Servers]
    /\ kind["client"] \in Clients /\ kind["server"] \in Servers
    /\ out = [p \in Peers |-> <<>>]
    /\ net = [p \in Peers |-> <<>>]
    /\ ahead = [p \in Peers |-> <<>>]
    /\ seen = [p \in Peers |-> <<>>]
    /\ pc = [p \in Peers |-> IF p = "client" THEN "start" ELSE "reading"]
    /\ received = [p \in Peers |-> <<>>]
    /\ gone = [p \in Peers |-> FALSE]
    /\ split = [p \in Peers |-> FALSE]
    /\ wrote = [p \in Peers |-> <<>>]

-----------------------------------------------------------------------------
(* The streams. *)

(* BufWriter: tokens stay in the buffer while they fit; otherwise the buffer is
   written out first, and what would fill it goes straight through. *)
Buffered(p, ts) ==
    LET cap == kind[p].cap
    IN IF Len(ts) >= cap THEN [keep |-> <<>>, send |-> out[p] \o ts]
       ELSE IF Len(out[p]) + Len(ts) > cap THEN [keep |-> ts, send |-> out[p]]
       ELSE [keep |-> out[p] \o ts, send |-> <<>>]

Write(p, ts) ==
    /\ out' = [out EXCEPT ![p] = Buffered(p, ts).keep]
    /\ net' = [net EXCEPT ![Other(p)] = @ \o Buffered(p, ts).send]
    /\ wrote' = [wrote EXCEPT ![p] = @ \o ts]

WriteAndFlush(p, ts) ==
    /\ out' = [out EXCEPT ![p] = <<>>]
    /\ net' = [net EXCEPT ![Other(p)] = @ \o out[p] \o ts]
    /\ wrote' = [wrote EXCEPT ![p] = @ \o ts]

(* write and then drop: std's BufWriter writes its buffer out when it is
   dropped, tokio's does not. *)
WriteAndDrop(p, ts) ==
    /\ IF kind[p].async THEN Write(p, ts) ELSE WriteAndFlush(p, ts)
    /\ gone' = [gone EXCEPT ![p] = TRUE]

(* Reading one token.  An empty BufReader is filled with what one read of the
   stream returns. *)
Read(p, t) ==
    \/ /\ ahead[p] # <<>>
       /\ t = Head(ahead[p])
       /\ ahead' = [ahead EXCEPT ![p] = Tail(@)]
       /\ UNCHANGED net
    \/ /\ ahead[p] = <<>>
       /\ net[p] # <<>>
       /\ t = Head(net[p])
       /\ \E n \in 1 .. Len(net[p]) :
            /\ n = 1 \/ n <= kind[p].cap
            /\ ahead' = [ahead EXCEPT ![p] = SubSeq(net[p], 2, n)]
            /\ net' = [net EXCEPT ![p] = SubSeq(@, n + 1, Len(@))]

-----------------------------------------------------------------------------
(* The handshake. *)

Goto(p, where) == pc' = [pc EXCEPT ![p] = where]

\* Faulty variant: the request is not flushed.
ReqHandshakeUnflushed ==
    /\ pc["client"] = "start"
    /\ \E says \in Requests : Write("client", HttpHead("request", says))
    /\ Goto("client", "reading")
    /\ UNCHANGED <<kind, ahead, seen, received, gone, split>>

(* req_handshake writes the request and flushes it; async_req_handshake writes
   it and goes on to read. *)
ReqHandshake ==
    /\ pc["client"] = "start"
    /\ \E says \in Requests :
         IF kind["client"].async THEN Write("client", HttpHead("request", says))
         ELSE WriteAndFlush("client", HttpHead("request", says))
    /\ Goto("client", "reading")
    /\ UNCHANGED <<kind, ahead, seen, received, gone, split>>

\* Faulty variant: the head is read in chunks and looked through for its end.
ReadHeadChunk(p) ==
    /\ pc[p] = "reading"
    /\ net[p] # <<>>
    /\ seen' = [seen EXCEPT ![p] = @ \o net[p]]
    /\ net' = [net EXCEPT ![p] = <<>>]
    /\ IF \E i \in DOMAIN net[p] : EndsHead(net[p][i]) THEN Goto(p, "parse") ELSE UNCHANGED pc
    /\ UNCHANGED <<kind, out, ahead, received, gone, split, wrote>>

(* The loops of req_handshake and handle_handshake: read_exact of one byte until
   the empty line. *)
ReadHead(p) ==
    /\ pc[p] = "reading"
    /\ \E t \in Tokens :
         /\ Read(p, t)
         /\ seen' = [seen EXCEPT ![p] = Append(@, t)]
         /\ IF EndsHead(t) THEN Goto(p, "parse") ELSE UNCHANGED pc
    /\ UNCHANGED <<kind, out, received, gone, split, wrote>>

(* The stream ends before the head does: an error, and the stream is dropped. *)
ReadHeadEof(p) ==
    /\ pc[p] = "reading"
    /\ ahead[p] = <<>> /\ net[p] = <<>> /\ gone[Other(p)]
    /\ Goto(p, "failed")
    /\ WriteAndDrop(p, <<>>)
    /\ UNCHANGED <<kind, ahead, seen, received, split>>

\* accept when handle_parse_handshake fails: no response at all.
AcceptGarbled ==
    /\ pc["server"] = "parse"
    /\ seen["server"][1].says = "garbled"
    /\ Goto("server", "failed")
    /\ WriteAndDrop("server", <<>>)
    /\ UNCHANGED <<kind, ahead, seen, received, split>>

(* accept when the handler refuses: write_resp writes the error response, never
   flushes, and returns an error. *)
AcceptRefuses ==
    /\ pc["server"] = "parse"
    /\ seen["server"][1].says = "illegal"
    /\ Goto("server", "refused")
    /\ WriteAndDrop("server", HttpHead("response", "refuse"))
    /\ UNCHANGED <<kind, ahead, seen, received, split>>

(* accept when the handler agrees: the 101 response is written, not flushed, and
   codec_factory takes the stream; it may still fail. *)
Accept ==
    /\ pc["server"] = "parse"
    /\ seen["server"][1].says = "legal"
    /\ \/ /\ Goto("server", "open")
          /\ Write("server", HttpHead("response", "switch"))
          /\ UNCHANGED gone
       \/ /\ Goto("server", "failed")
          /\ WriteAndDrop("server", HttpHead("response", "switch"))
    /\ UNCHANGED <<kind, ahead, seen, received, split>>

\* Faulty variant: any response will do.
CheckRespNoStatus ==
    /\ pc["client"] = "parse"
    /\ Goto("client", "open")
    /\ UNCHANGED <<kind, out, net, ahead, seen, received, gone, split, wrote>>

(* perform_parse_req and check_fn: only a 101 opens the connection.  It may fail
   all the same, in the parser, in check_fn or for its key. *)
CheckResp ==
    /\ pc["client"] = "parse"
    /\ \/ /\ seen["client"][1].says = "switch"
          /\ Goto("client", "open")
          /\ UNCHANGED <<out, net, gone, wrote>>
       \/ /\ seen["client"][1].says = "switch"
          /\ Goto("client", "failed")
          /\ WriteAndDrop("client", <<>>)
       \/ /\ seen["client"][1].says = "refuse"
          /\ Goto("client", "refused")
          /\ WriteAndDrop("client", <<>>)
    /\ UNCHANGED <<kind, ahead, seen, received, split>>

-----------------------------------------------------------------------------
(* The application, once the connection is open. *)

FramesIn(s) == Cardinality({i \in DOMAIN s : s[i].what = "frame"})

SendFrame(p) ==
    /\ pc[p] = "open" /\ ~gone[p]
    /\ FramesIn(wrote[p]) < MaxFrames
    /\ Write(p, <<Token("frame", FramesIn(wrote[p]) + 1, "data")>>)
    /\ UNCHANGED <<kind, ahead, seen, pc, received, gone, split>>

FlushFrames(p) ==
    /\ pc[p] = "open" /\ ~gone[p]
    /\ WriteAndFlush(p, <<>>)
    /\ UNCHANGED <<kind, ahead, seen, pc, received, gone, split>>

ReceiveFrame(p) ==
    /\ pc[p] = "open" /\ ~gone[p]
    /\ \E t \in Tokens :
         /\ Read(p, t)
         /\ received' = [received EXCEPT ![p] = Append(@, t)]
    /\ UNCHANGED <<kind, out, seen, pc, gone, split, wrote>>

(* split: BufReader::into_inner forgets what it has read ahead,
   BufWriter::into_inner writes its buffer out; both halves get new buffers.
   tokio's split shares the buffered stream as it is. *)
Split(p) ==
    /\ pc[p] = "open" /\ ~gone[p] /\ ~split[p]
    /\ split' = [split EXCEPT ![p] = TRUE]
    /\ IF kind[p].async
       THEN UNCHANGED <<out, net, ahead>>
       ELSE /\ out' = [out EXCEPT ![p] = <<>>]
            /\ net' = [net EXCEPT ![Other(p)] = @ \o out[p]]
            /\ ahead' = [ahead EXCEPT ![p] = <<>>]
    /\ UNCHANGED <<kind, seen, pc, received, gone, wrote>>

(* The process of one side dies.  (A write that fails because the other side is
   gone ends the call in the same way.) *)
Crash(p) ==
    /\ ~gone[p]
    /\ gone' = [gone EXCEPT ![p] = TRUE]
    /\ Goto(p, IF pc[p] = "open" THEN "open" ELSE "failed")
    /\ UNCHANGED <<kind, out, net, ahead, seen, received, split, wrote>>

(* The process of one side dies in the middle of writing its head, and the first
   half of it is on its way.  (tokio's BufWriter still holds a head that fits.) *)
DiesWriting(p) ==
    /\ ~kind[p].async \/ kind[p].cap <= 2
    /\ \E where \in {"refused", "failed"}, half \in Tokens :
         /\ half.at = 1
         /\ \/ /\ p = "client" /\ pc[p] = "start"
               /\ half.what = "request" /\ where = "failed"
            \/ /\ p = "server" /\ pc[p] = "parse" /\ half.what = "response"
               /\ \/ /\ seen[p][1].says = "legal"
                     /\ half.says = "switch" /\ where = "failed"
                  \/ /\ seen[p][1].says = "illegal"
                     /\ half.says = "refuse" /\ where = "refused"
         /\ net' = [net EXCEPT ![Other(p)] = Append(@, half)]
         /\ wrote' = [wrote EXCEPT ![p] = Append(@, half)]
         /\ Goto(p, where)
    /\ gone' = [gone EXCEPT ![p] = TRUE]
    /\ UNCHANGED <<kind, out, ahead, seen, received, split>>

Handshake(p) ==
    \/ p = "client" /\ (ReqHandshake \/ CheckResp)
    \/ p = "server" /\ (AcceptGarbled \/ AcceptRefuses \/ Accept)
    \/ ReadHead(p)
    \/ ReadHeadEof(p)

Application(p) ==
    \/ SendFrame(p)
    \/ FlushFrames(p)
    \/ ReceiveFrame(p)
    \/ Split(p)
    \/ Crash(p)
    \/ DiesWriting(p)

Next == \E p \in Peers : Handshake(p) \/ Application(p)

Spec == Init /\ [][Next]_vars

(* A call of with_stream or accept runs on while its stream has something for
   it; nothing obliges the application to send, flush, receive or split. *)
FairSpec == Spec /\ \A p \in Peers : WF_vars(Handshake(p))

-----------------------------------------------------------------------------
(* Properties. *)

TypeOK ==
    /\ kind \in [Peers -> Clients \cup Servers]
    /\ out \in [Peers -> Seq(Tokens)]
    /\ net \in [Peers -> Seq(Tokens)]
    /\ ahead \in [Peers -> Seq(Tokens)]
    /\ seen \in [Peers -> Seq(Tokens)]
    /\ pc \in [Peers -> {"start", "reading", "parse"} \cup Final]
    /\ received \in [Peers -> Seq(Frames)]
    /\ gone \in [Peers -> BOOLEAN]
    /\ split \in [Peers -> BOOLEAN]
    /\ wrote \in [Peers -> Seq(Tokens)]

\* What p has read, and what is still on its way from the other side.
Arrived(p) == seen[p] \o received[p]
Underway(p) == ahead[p] \o net[p] \o out[Other(p)]

(* Until a buffered blocking stream is split nothing is lost, repeated or
   reordered, and the handshake reads its head and not a byte more: frames that
   come in the same packet as the response reach the codec. *)
NothingSwallowed ==
    \A p \in Peers :
        /\ \A i \in DOMAIN seen[p] : seen[p][i].what # "frame"
        /\ (split[p] => kind[p].async \/ kind[p].cap = 0)
           => Arrived(p) \o Underway(p) = wrote[Other(p)]

(* Splitting is for two halves of the same connection: it loses nothing. *)
SplitKeepsBytes ==
    \A p \in Peers : Arrived(p) \o Underway(p) = wrote[Other(p)]

(* The peers agree: a client opens only what the server has agreed to open, and
   is refused only by a server that refused. *)
Agreement ==
    /\ pc["client"] = "open" => pc["server"] \in {"open", "failed"}
    /\ pc["client"] = "refused" => pc["server"] = "refused"

(* The handshake ends for both sides, one way or the other, also when the peer
   dies in the middle of it, or of its head. *)
HandshakeEnds == \A p \in Peers : <>(pc[p] \in Final)

=============================================================================
