------------------------- MODULE DeflateNegotiation -------------------------
(***************************************************************************)
(* permessage-deflate in the handshake's headers (codec/deflate/mod.rs     *)
(* 33-182 and 394-502, factory and check_fn of the codecs): what is        *)
(* offered, how an offer is read, and what each side builds from it.       *)
(*                                                                         *)
(* A header is a sequence of extensions.  Of one extension matters whether *)
(* it is permessage-deflate and, for each parameter, the values it occurs  *)
(* with, in order; NoValue is an occurrence without "=".  The order of     *)
(* different parameters is never looked at.                                *)
(***************************************************************************)
EXTENDS Naturals, Sequences

WindowBit == 8 .. 15
NoValue == 0
Values == 0 .. 16          \* 1 .. 7 and 16: numbers that are no window size

FlagNames == {"server_no_context_takeover", "client_no_context_takeover"}
BitsNames == {"server_max_window_bits", "client_max_window_bits"}
Names == FlagNames \cup BitsNames \cup {"unknown"}

PMDConfig ==
    [server_no_context_takeover : BOOLEAN, client_no_context_takeover : BOOLEAN,
     server_max_window_bits : WindowBit, client_max_window_bits : WindowBit]

NoPMD == [none |-> TRUE]
Extension == [pmd : BOOLEAN, params : [Names -> Seq(Values)]]

-----------------------------------------------------------------------------
(* PMDConfig::parse_str on one extension: unknown and repeated parameters, a
   flag with a value and a window that is no WindowBit are errors. *)
ParsesOK(params) ==
    /\ params["unknown"] = <<>>
    /\ \A n \in FlagNames : params[n] = <<>> \/ params[n] = <<NoValue>>
    /\ \A n \in BitsNames :
           \/ params[n] = <<>>
           \/ Len(params[n]) = 1 /\ params[n][1] \in WindowBit \cup {NoValue}

\* A window that is not given is 15 bits wide.
Bits(values) == IF values = <<>> \/ values = <<NoValue>> THEN 15 ELSE values[1]

Parsed(params) ==
    [server_no_context_takeover |-> params["server_no_context_takeover"] # <<>>,
     client_no_context_takeover |-> params["client_no_context_takeover"] # <<>>,
     server_max_window_bits |-> Bits(params["server_max_window_bits"]),
     client_max_window_bits |-> Bits(params["client_max_window_bits"])]

\* Where in the header permessage-deflate is.
PMDs(header) == {i \in DOMAIN header : header[i].pmd}

ParseError(header) == \E i \in PMDs(header) : ~ParsesOK(header[i].params)

Latest(S) == CHOOSE i \in S : \A j \in S : j <= i

\* The last permessage-deflate of the header, the one configs.pop() takes.
LastConfig(header) ==
    IF PMDs(header) = {} THEN NoPMD ELSE Parsed(header[Latest(PMDs(header))].params)

-----------------------------------------------------------------------------
(* PMDConfig::ext_string: flags only when set, windows always. *)
ExtString(conf) ==
    [pmd |-> TRUE,
     params |-> [n \in Names |->
         CASE n = "unknown" -> <<>>
           [] n \in FlagNames -> IF conf[n] THEN <<NoValue>> ELSE <<>>
           [] n \in BitsNames -> <<conf[n]>>]]

\* Faulty variant: the first offer is answered.
AnswerFirst(header) ==
    IF PMDs(header) = {} THEN <<>>
    ELSE LET first == CHOOSE i \in PMDs(header) : \A j \in PMDs(header) : i <= j
         IN <<ExtString(Parsed(header[first].params))>>

(* deflate_handshake_handler: a request it cannot read is refused, otherwise the
   last offer is answered as it is. *)
Answer(header) == IF LastConfig(header) = NoPMD THEN <<>> ELSE <<ExtString(LastConfig(header))>>

\* Faulty variant: each side keeps the windows as they were offered.
AsOffered(header) == LastConfig(header)

(* factory on the request and check_fn on the response: both windows are cut to
   the smaller one. *)
Agreed(header) ==
    LET conf == LastConfig(header)
        min == IF conf.client_max_window_bits < conf.server_max_window_bits
               THEN conf.client_max_window_bits ELSE conf.server_max_window_bits
    IN IF conf = NoPMD THEN NoPMD
       ELSE [conf EXCEPT !.client_max_window_bits = min, !.server_max_window_bits = min]

-----------------------------------------------------------------------------
(* DeflateWriteState::with_config and DeflateReadState::with_config: both pick
   the client's window on the server and the server's on the client. *)
Window(conf, role) ==
    IF role = "server" THEN conf.client_max_window_bits ELSE conf.server_max_window_bits

(* The condition under which send, send_owned_frame and receive_one reset their
   stream after a message. *)
Resets(conf, role) ==
    \/ role = "server" /\ conf.server_no_context_takeover
    \/ role = "client" /\ conf.client_no_context_takeover

(* zlib has no raw deflate stream with a window of 8 bits: deflateInit2 fails and
   ZLibCompressStream::new asserts. *)
Opens(conf, role) == conf = NoPMD \/ Window(conf, role) # 8

=============================================================================
