---------------------------- MODULE DeflateProofs ----------------------------
(***************************************************************************)
(* permessage-deflate, for every offer, configuration, size and number of  *)
(* calls: what the two ends agree on, and how the two readers' notes of a  *)
(* message in progress relate.                                             *)
(***************************************************************************)
EXTENDS Deflate, SequenceLemmas

(* The handshake: what the server answers reads back as what it works with. *)

LEMMA NoPMDIsNoConfig == NoPMD \notin PMDConfig
<1> SUFFICES ASSUME NoPMD \in PMDConfig PROVE FALSE
  OBVIOUS
<1>1. DOMAIN NoPMD = {"none"}
  BY DEF NoPMD
<1>2. "server_no_context_takeover" \in DOMAIN NoPMD
  BY DEF PMDConfig
<1> QED BY <1>1, <1>2

LEMMA ParsedIsConfig ==
    ASSUME NEW params \in [Names -> Seq(Values)], ParsesOK(params)
    PROVE  Parsed(params) \in PMDConfig
<1>1. \A n \in BitsNames : Bits(params[n]) \in WindowBit
  BY DEF ParsesOK, Bits, WindowBit, NoValue, BitsNames, Names
<1> QED BY <1>1 DEF Parsed, PMDConfig, BitsNames

\* Every set of positions has a last one.
LEMMA LatestIn ==
    ASSUME NEW h \in Seq(Extension), PMDs(h) # {}
    PROVE  Latest(PMDs(h)) \in PMDs(h)
<1> DEFINE Behind == {n \in Nat : \E i \in PMDs(h) : n = Len(h) - i}
<1>1. PMDs(h) \subseteq 1 .. Len(h) /\ Len(h) \in Nat
  BY DEF PMDs
<1>2. PICK i \in PMDs(h) : TRUE
  OBVIOUS
<1>3. Len(h) - i \in Behind
  BY <1>1, <1>2
<1>4. PICK n \in Behind : \A m \in Behind : n <= m
  <2> DEFINE less == OpToRel(<, Nat)
  <2>1. \A m, k \in Nat : m < k => <<m, k>> \in less
    BY DEF OpToRel
  <2> HIDE DEF less
  <2>2. IsWellFoundedOn(less, Nat)
    BY NatLessThanWellFounded DEF less
  <2>3. Behind \subseteq Nat /\ Behind # {}
    BY <1>3
  <2> HIDE DEF Behind
  <2>4. PICK n \in Behind : \A m \in Behind : <<m, n>> \notin less
    BY <2>2, <2>3, WFMin
  <2>5. ASSUME NEW m \in Behind PROVE n <= m
    <3>1. m \in Nat /\ n \in Nat /\ <<m, n>> \notin less
      BY <2>3, <2>4
    <3> QED BY <2>1, <3>1
  <2> QED BY <2>5
<1>5. PICK last \in PMDs(h) : n = Len(h) - last
  BY <1>4
<1>6. \A j \in PMDs(h) : j <= last
  <2> SUFFICES ASSUME NEW j \in PMDs(h) PROVE j <= last
    OBVIOUS
  <2>1. Len(h) - j \in Behind
    BY <1>1
  <2>2. Len(h) - last <= Len(h) - j
    BY <2>1, <1>4, <1>5
  <2> QED BY <2>2, <1>1, <1>5
<1> QED BY <1>5, <1>6 DEF Latest

LEMMA LastConfigType ==
    ASSUME NEW h \in Seq(Extension), ~ParseError(h)
    PROVE  LastConfig(h) \in PMDConfig \cup {NoPMD}
<1>1. CASE PMDs(h) = {}
  BY <1>1 DEF LastConfig
<1>2. CASE PMDs(h) # {}
  <2> DEFINE last == Latest(PMDs(h))
  <2>1. last \in PMDs(h)
    BY <1>2, LatestIn
  <2> HIDE DEF last
  <2>2. h[last] \in Extension /\ ParsesOK(h[last].params)
    BY <2>1 DEF PMDs, ParseError
  <2>3. h[last].params \in [Names -> Seq(Values)]
    BY <2>2 DEF Extension
  <2>4. Parsed(h[last].params) \in PMDConfig
    BY <2>2, <2>3, ParsedIsConfig
  <2> QED BY <2>4, <1>2 DEF LastConfig, last
<1> QED BY <1>1, <1>2

\* ext_string and parse_str are inverse to each other.
LEMMA ParsedExtString ==
    ASSUME NEW c \in PMDConfig
    PROVE  /\ ExtString(c) \in Extension
           /\ ExtString(c).pmd
           /\ Parsed(ExtString(c).params) = c
<1> DEFINE p == ExtString(c).params
<1>1. p = [n \in Names |->
             CASE n = "unknown" -> <<>>
               [] n \in FlagNames -> IF c[n] THEN <<NoValue>> ELSE <<>>
               [] n \in BitsNames -> <<c[n]>>]
  BY DEF ExtString
<1>2. \A n \in FlagNames : p[n] = IF c[n] THEN <<NoValue>> ELSE <<>>
  BY <1>1 DEF Names, FlagNames, BitsNames
<1>3. \A n \in BitsNames : p[n] = <<c[n]>> /\ c[n] \in WindowBit
  BY <1>1 DEF Names, FlagNames, BitsNames, PMDConfig
<1>4. p["unknown"] = <<>>
  BY <1>1 DEF Names, FlagNames, BitsNames
<1>5. \A n \in Names : p[n] \in Seq(Values)
  <2>1. \A n \in FlagNames : p[n] \in Seq(Values)
    <3> SUFFICES ASSUME NEW n \in FlagNames PROVE p[n] \in Seq(Values)
      OBVIOUS
    <3>1. <<>> \in Seq(Values) /\ <<NoValue>> \in Seq(Values)
      BY DEF Values, NoValue
    <3> QED BY <1>2, <3>1
  <2>2. \A n \in BitsNames : p[n] \in Seq(Values)
    <3> SUFFICES ASSUME NEW n \in BitsNames PROVE p[n] \in Seq(Values)
      OBVIOUS
    <3>1. c[n] \in Values
      BY <1>3 DEF Values, WindowBit
    <3>2. p[n] = <<c[n]>>
      BY <1>3
    <3> HIDE DEF p
    <3> QED BY <3>1, <3>2
  <2>3. p["unknown"] \in Seq(Values)
    BY <1>4
  <2> HIDE DEF p
  <2> QED BY <2>1, <2>2, <2>3 DEF Names
<1>6. \A n \in FlagNames : (p[n] # <<>>) = c[n]
  BY <1>2 DEF FlagNames, PMDConfig
<1>7. \A n \in BitsNames : Bits(p[n]) = c[n]
  BY <1>3 DEF Bits, NoValue, WindowBit
<1>8. p \in [Names -> Seq(Values)]
  BY <1>1, <1>5
<1>9. Parsed(p) = [server_no_context_takeover |-> c.server_no_context_takeover,
                   client_no_context_takeover |-> c.client_no_context_takeover,
                   server_max_window_bits |-> c.server_max_window_bits,
                   client_max_window_bits |-> c.client_max_window_bits]
  BY <1>6, <1>7 DEF Parsed, FlagNames, BitsNames
<1>10. Parsed(p) = c
  BY <1>9 DEF PMDConfig
<1> QED BY <1>8, <1>10 DEF ExtString, Extension

\* The answer says what the server read in the offer.
LEMMA AnswerKeeps ==
    ASSUME NEW h \in Seq(Extension), ~ParseError(h)
    PROVE  Answer(h) \in Seq(Extension) /\ Agreed(Answer(h)) = Agreed(h)
<1>1. CASE LastConfig(h) = NoPMD
  <2>1. Answer(h) = <<>>
    BY <1>1 DEF Answer
  <2>2. LastConfig(<<>>) = NoPMD
    BY DEF LastConfig, PMDs
  <2> QED BY <1>1, <2>1, <2>2 DEF Agreed
<1>2. CASE LastConfig(h) # NoPMD
  <2> DEFINE c == LastConfig(h)
             x == ExtString(c)
  <2>1. c \in PMDConfig
    BY <1>2, LastConfigType
  <2>2. Answer(h) = <<x>>
    BY <1>2 DEF Answer
  <2> HIDE DEF c
  <2>3. x \in Extension /\ x.pmd /\ Parsed(x.params) = c
    BY <2>1, ParsedExtString
  <2> HIDE DEF x
  <2>4. PMDs(<<x>>) = {1}
    BY <2>3 DEF PMDs
  <2>5. <<x>> \in Seq(Extension)
    BY <2>3
  <2>6. Latest(PMDs(<<x>>)) = 1
    BY <2>4, <2>5, LatestIn
  <2>7. LastConfig(<<x>>) = c
    <3>1. <<x>>[1] = x /\ PMDs(<<x>>) # {}
      BY <2>4
    <3>2. LastConfig(<<x>>) = Parsed(<<x>>[1].params)
      BY <2>6, <3>1 DEF LastConfig
    <3> QED BY <2>3, <3>1, <3>2
  <2> QED BY <2>2, <2>5, <2>7 DEF Agreed, c
<1> QED BY <1>1, <1>2

-----------------------------------------------------------------------------
(* What the client gets is the answer to an offer the server read. *)
Handshaken ==
    /\ header \in Seq(Extension)
    /\ conf = [r \in Roles |-> conf[r]]
    /\ phase = "answered" => Agreed(header) = conf["server"]
    /\ phase = "open" => /\ conf["server"] = conf["client"]
                         /\ Agreed(header) = conf["client"] /\ ~ParseError(header)

\* Once the connection is open a step can only end it.
LEMMA TrafficKeepsAgreement ==
    ASSUME Next, ~ServerRefuses, ~ServerAnswers, ~ClientChecks
    PROVE  header' = header /\ conf' = conf /\ phase' \in {phase, "panicked"}
<1>1. CASE Send \/ SendOwnedFrame \/ PeerFragments \/ PeerFragmentsCompressed \/ PeerSetsRsv1
  BY <1>1 DEF Send, SendOwnedFrame, PeerFragments, PeerFragmentsCompressed, PeerSetsRsv1,
              PeerCall, Call, handshake
<1>2. CASE WritePlain \/ PlainUnwritten
  BY <1>2 DEF WritePlain, PlainUnwritten, Write, handshake
<1>3. CASE WriteCompressed
  BY <1>3 DEF WriteCompressed, Write, handshake
<1>4. CASE CompressFails
  BY <1>4 DEF CompressFails, handshake
<1>5. CASE SendUnwritten \/ OwnedUnwritten
  BY <1>5 DEF SendUnwritten, OwnedUnwritten, Unwritten, handshake
<1>6. CASE PeerWrites
  BY <1>6 DEF PeerWrites, Write, handshake
<1>7. CASE LowRejects \/ InflateFails \/ PassFrame \/ PassControl
  BY <1>7 DEF LowRejects, InflateFails, PassFrame, PassControl, Take, handshake
<1>8. CASE MergeRejects \/ MergeStart \/ MergeWhole \/ MergeContinue
  BY <1>8 DEF MergeRejects, MergeStart, MergeWhole, MergeContinue, Take, handshake
<1> QED BY <1>1, <1>2, <1>3, <1>4, <1>5, <1>6, <1>7, <1>8 DEF Next

LEMMA HandshakenInductive ==
    /\ Init => Handshaken
    /\ Handshaken /\ [Next]_vars => Handshaken'
<1>1. Init => Handshaken
  BY OffersAssumption DEF Init, Handshaken
<1>2. ASSUME Handshaken, [Next]_vars PROVE Handshaken'
  <2>1. CASE ServerRefuses
    BY <1>2, <2>1 DEF ServerRefuses, Handshaken
  <2>2. CASE ServerAnswers
    <3>1. Answer(header) \in Seq(Extension) /\ Agreed(Answer(header)) = Agreed(header)
      BY <1>2, <2>2, AnswerKeeps DEF ServerAnswers, Handshaken
    <3>2. /\ conf' = [r \in Roles |-> conf'[r]] /\ conf'["server"] = Agreed(header)
          /\ phase' # "open" /\ header' = Answer(header)
      BY <1>2, <2>2 DEF ServerAnswers, Handshaken, Roles
    <3> QED BY <3>1, <3>2 DEF Handshaken
  <2>3. CASE ClientChecks
    <3>1. /\ conf' = [r \in Roles |-> conf'[r]] /\ conf'["client"] = Agreed(header)
          /\ conf'["server"] = conf["server"]
          /\ phase' # "answered" /\ header' = header
      BY <1>2, <2>3 DEF ClientChecks, Handshaken, Roles
    <3> QED BY <1>2, <2>3, <3>1 DEF ClientChecks, Handshaken
  <2>4. CASE Next /\ ~ServerRefuses /\ ~ServerAnswers /\ ~ClientChecks
    <3>1. header' = header /\ conf' = conf /\ phase' \in {phase, "panicked"}
      BY <2>4, TrafficKeepsAgreement
    <3> QED BY <1>2, <3>1 DEF Handshaken
  <2>5. CASE UNCHANGED vars
    BY <1>2, <2>5 DEF vars, handshake, Handshaken
  <2> QED BY <1>2, <2>1, <2>2, <2>3, <2>4, <2>5
<1> QED BY <1>1, <1>2

\* Both windows of what is agreed are the smaller one of the header.
LEMMA AgreedIs ==
    ASSUME NEW h \in Seq(Extension), ~ParseError(h), LastConfig(h) # NoPMD
    PROVE  LET a == LastConfig(h)
               c == Agreed(h)
           IN /\ a \in PMDConfig /\ c \in PMDConfig /\ c # NoPMD
              /\ c.client_max_window_bits = c.server_max_window_bits
              /\ c.server_max_window_bits <= a.server_max_window_bits
              /\ c.server_max_window_bits <= a.client_max_window_bits
              /\ c.server_no_context_takeover = a.server_no_context_takeover
              /\ c.client_no_context_takeover = a.client_no_context_takeover
<1> DEFINE a == LastConfig(h)
           min == IF a.client_max_window_bits < a.server_max_window_bits
                  THEN a.client_max_window_bits ELSE a.server_max_window_bits
<1>1. a \in PMDConfig
  BY LastConfigType
<1>2. Agreed(h) = [a EXCEPT !.client_max_window_bits = min, !.server_max_window_bits = min]
  BY DEF Agreed
<1> HIDE DEF a
<1>3. /\ min \in WindowBit /\ min <= a.server_max_window_bits
      /\ min <= a.client_max_window_bits
  BY <1>1 DEF PMDConfig, WindowBit
<1> HIDE DEF min
<1>4. /\ Agreed(h) \in PMDConfig
      /\ Agreed(h).client_max_window_bits = min /\ Agreed(h).server_max_window_bits = min
      /\ Agreed(h).server_no_context_takeover = a.server_no_context_takeover
      /\ Agreed(h).client_no_context_takeover = a.client_no_context_takeover
  BY <1>1, <1>2, <1>3 DEF PMDConfig
<1> QED BY <1>1, <1>3, <1>4, NoPMDIsNoConfig DEF a

(* Whatever a client offers, both ends of a connection that opens work with the
   same parameters: the answer of deflate_handshake_handler reads back in check_fn
   as what factory took from the offer.  All four streams have the same window, no
   wider than either number of the answer, and both ends reset at the same messages
   exactly if the answer has both flags or none. *)
THEOREM OneAgreementAlways == Spec => []OneAgreement
<1>1. Handshaken => OneAgreement
  <2> SUFFICES ASSUME Handshaken, phase = "open" PROVE OneAgreement
    BY DEF OneAgreement
  <2>1. /\ header \in Seq(Extension) /\ ~ParseError(header)
        /\ conf["server"] = conf["client"] /\ Agreed(header) = conf["client"]
    BY DEF Handshaken
  <2>2. CASE LastConfig(header) = NoPMD
    <3>1. Agreed(header) = NoPMD
      BY <2>2 DEF Agreed
    <3> QED BY <2>1, <2>2, <3>1 DEF OneAgreement
  <2>3. CASE LastConfig(header) # NoPMD
    <3> DEFINE a == LastConfig(header)
               c == conf["client"]
    <3>1. /\ a \in PMDConfig /\ c \in PMDConfig /\ c # NoPMD /\ a # NoPMD
          /\ c.client_max_window_bits = c.server_max_window_bits
          /\ c.server_max_window_bits <= a.server_max_window_bits
          /\ c.server_max_window_bits <= a.client_max_window_bits
          /\ c.server_no_context_takeover = a.server_no_context_takeover
          /\ c.client_no_context_takeover = a.client_no_context_takeover
      BY <2>1, <2>3, AgreedIs
    <3> HIDE DEF a, c
    <3>2. /\ Window(c, "server") = c.client_max_window_bits
          /\ Window(c, "client") = c.server_max_window_bits
          /\ Resets(c, "server") <=> c.server_no_context_takeover
          /\ Resets(c, "client") <=> c.client_no_context_takeover
      BY DEF Window, Resets
    <3>3. \A r \in Roles : /\ Window(conf[r], r) <= a.server_max_window_bits
                           /\ Window(conf[r], r) <= a.client_max_window_bits
      BY <2>1, <3>1, <3>2 DEF Roles, c
    <3>4. (Resets(conf["server"], "server") = Resets(conf["client"], "client"))
          <=> (a.server_no_context_takeover = a.client_no_context_takeover)
      <4>1. Resets(c, "server") \in BOOLEAN /\ Resets(c, "client") \in BOOLEAN
        BY DEF Resets
      <4> QED BY <2>1, <3>1, <3>2, <4>1 DEF PMDConfig, c
    <3> QED BY <2>1, <3>1, <3>2, <3>3, <3>4 DEF OneAgreement, a, c
  <2> QED BY <2>2, <2>3
<1> QED BY <1>1, HandshakenInductive, PTL DEF Spec

-----------------------------------------------------------------------------
(* The two notes of a message in progress. *)

Marked(c) == c.code = "Continue" /\ c.rsv1

Tidy ==
    /\ up = [fragmented |-> up.fragmented, type |-> up.type, data |-> up.data]
    /\ config \in Configs /\ calls \in Nat
    /\ todo = [i \in 1 .. Len(todo) |-> todo[i]] /\ Len(todo) \in Nat
    /\ \A i \in 1 .. Len(todo) : Marked(todo[i]) => "continued" \in faults
    /\ wire = NoFrame \/ (Marked(wire) => "continued" \in faults)
    /\ up.fragmented => config.merge_frame
    /\ OuterWithinInner

LEMMA InitTidy == Init => Tidy
BY DEF Init, Tidy, OuterWithinInner

(* A call brings no marked continuation unless it is the fault. *)
LEMMA CallTidy ==
    ASSUME Tidy, NEW kinds, NEW n \in Nat, NEW chunks,
           chunks = [i \in 1 .. n |-> chunks[i]],
           \A i \in 1 .. n : Marked(chunks[i]) => "continued" \in kinds,
           Call(chunks, kinds)
    PROVE  Tidy'
<1>1. Len(chunks) = n
  OBVIOUS
<1>2. /\ todo' = chunks /\ faults' = faults \cup kinds
      /\ calls' \in Nat /\ wire' = wire /\ low' = low /\ up' = up /\ config' = config
  BY DEF Call, Tidy, reader, handshake
<1>3. \A i \in 1 .. n : Marked(todo'[i]) => "continued" \in faults'
  BY <1>2
<1>4. wire' = NoFrame \/ (Marked(wire') => "continued" \in faults')
  BY <1>2 DEF Tidy
<1> QED BY <1>1, <1>2, <1>3, <1>4 DEF Tidy, OuterWithinInner

LEMMA ChunkType ==
    ASSUME calls \in Nat, NEW via \in {"send", "owned", "plain", "packed"},
           NEW code \in Opcodes \cup {"Ping"}, NEW n \in Nat
    PROVE  ChunkOf(via, code, n) \in Chunk /\ code # "Continue"
           /\ ChunkOf(via, code, n).code = code /\ ~ChunkOf(via, code, n).rsv1
BY OpcodesAssumption DEF ChunkOf, Chunk, Codes, Data

LEMMA PeerCallTidy ==
    ASSUME Tidy, NEW first \in Chunk, NEW last \in Chunk, NEW ping \in BOOLEAN, NEW kinds,
           first.code # "Continue", last.rsv1 => "continued" \in kinds,
           PeerCall(first, last, ping, kinds)
    PROVE  Tidy'
<1> DEFINE between == [ChunkOf("plain", "Ping", 0) EXCEPT !.piece = <<calls + 1, 0>>]
           a == [first EXCEPT !.fin = FALSE]
           z == [last EXCEPT !.code = "Continue", !.piece = <<calls + 1, 2>>]
           chunks == <<a>> \o (IF ping THEN <<between>> ELSE <<>>) \o <<z>>
           Fit == {c \in Chunk : Marked(c) => "continued" \in kinds}
<1>0. calls \in Nat
  BY DEF Tidy
<1>1. between \in Fit
  BY <1>0, ChunkType DEF Marked, ChunkOf, Chunk
<1>2. a \in Fit
  BY DEF Marked, Chunk
<1>3. z \in Fit
  <2>1. <<calls + 1, 2>> \in Nat \X Nat /\ "Continue" \in Codes
    BY <1>0 DEF Codes
  <2>2. z \in Chunk /\ z.rsv1 = last.rsv1
    BY <2>1 DEF Chunk
  <2> QED BY <2>2 DEF Marked
<1>4. Call(chunks, kinds)
  BY DEF PeerCall
<1> HIDE DEF between, a, z
<1> HIDE DEF Fit
<1>5. <<a>> \in Seq(Fit) /\ <<z>> \in Seq(Fit)
      /\ (IF ping THEN <<between>> ELSE <<>>) \in Seq(Fit)
  <2>1. <<a>> \in Seq(Fit)
    BY <1>2
  <2>2. <<z>> \in Seq(Fit)
    BY <1>3
  <2>3. <<between>> \in Seq(Fit) /\ <<>> \in Seq(Fit)
    BY <1>1
  <2> QED BY <2>1, <2>2, <2>3
<1>6. chunks \in Seq(Fit)
  BY <1>5, ConcatProperties
<1> HIDE DEF chunks
<1>7. /\ Len(chunks) \in Nat /\ chunks = [i \in 1 .. Len(chunks) |-> chunks[i]]
      /\ \A i \in 1 .. Len(chunks) : Marked(chunks[i]) => "continued" \in kinds
  BY <1>6 DEF Fit
<1> QED BY <1>4, <1>7, CallTidy

LEMMA PartsNat ==
    ASSUME config \in Configs, NEW n \in Nat \ {0}
    PROVE  Parts(n) \in Nat
<1>1. ChunkSize(n) \in Nat \ {0}
  BY ConfigsAssumption DEF ChunkSize
<1>2. \A c \in Nat \ {0} : (n + c - 1) \div c \in Nat
  OBVIOUS
<1> QED BY <1>1, <1>2 DEF Parts

LEMMA CallsTidy ==
    ASSUME Tidy,
           Send \/ SendOwnedFrame \/ PeerFragments \/ PeerFragmentsCompressed \/ PeerSetsRsv1
    PROVE  Tidy'
<1>0. calls \in Nat /\ config \in Configs
  BY DEF Tidy
<1>1. CASE Send
  <2>1. PICK code \in Opcodes, v \in BOOLEAN, n \in Nat \ {0} :
            Call([p \in 1 .. Parts(n) |->
                     [ChunkOf("send", code, PartLen(n, p)) EXCEPT
                         !.fin = (p = Parts(n)), !.piece = <<calls + 1, p>>, !.valid = v]],
                 IF Parts(n) > 1 THEN {"fragmented"} ELSE {})
    BY <1>1, SizesAssumption DEF Send
  <2> DEFINE chunks == [p \in 1 .. Parts(n) |->
                     [ChunkOf("send", code, PartLen(n, p)) EXCEPT
                         !.fin = (p = Parts(n)), !.piece = <<calls + 1, p>>, !.valid = v]]
             kinds == IF Parts(n) > 1 THEN {"fragmented"} ELSE {}
  <2>2. Call(chunks, kinds)
    BY <2>1
  <2>3. \A i \in 1 .. Parts(n) : ~Marked(chunks[i])
    BY DEF Marked, ChunkOf
  <2>4. chunks = [i \in 1 .. Parts(n) |-> chunks[i]]
    OBVIOUS
  <2>5. Parts(n) \in Nat
    BY <1>0, PartsNat
  <2> HIDE DEF chunks, kinds
  <2> QED BY <2>2, <2>3, <2>4, <2>5, CallTidy
<1>2. CASE SendOwnedFrame
  <2>1. PICK code \in Opcodes, n \in Nat : Call(<<ChunkOf("owned", code, n)>>, {})
    BY <1>2, SizesAssumption DEF SendOwnedFrame
  <2> DEFINE c == ChunkOf("owned", code, n)
  <2>2. ~Marked(c)
    BY DEF Marked, ChunkOf
  <2> HIDE DEF c
  <2>3. <<c>> = [i \in 1 .. 1 |-> <<c>>[i]] /\ \A i \in 1 .. 1 : ~Marked(<<c>>[i])
    BY <2>2
  <2> QED BY <2>1, <2>3, CallTidy DEF c
<1>3. CASE PeerFragments
  <2>1. PICK code \in Opcodes \cap Data, v \in BOOLEAN, ping \in BOOLEAN :
            LET chunk == [ChunkOf("plain", code, 0) EXCEPT !.valid = v]
            IN PeerCall(chunk, chunk, ping,
                        IF ~v /\ code = "Text" /\ config.validate_utf8 = "FastFail"
                        THEN {"cutchar"} ELSE {})
    BY <1>3 DEF PeerFragments
  <2> DEFINE chunk == [ChunkOf("plain", code, 0) EXCEPT !.valid = v]
  <2>2. chunk \in Chunk /\ chunk.code # "Continue" /\ ~chunk.rsv1
    BY <1>0, ChunkType DEF Chunk
  <2> HIDE DEF chunk
  <2> QED BY <2>1, <2>2, PeerCallTidy DEF chunk
<1>4. CASE PeerFragmentsCompressed
  <2>1. PICK code \in Opcodes \cap Data, n \in Nat :
            LET chunk == ChunkOf("packed", code, n)
            IN PeerCall([chunk EXCEPT !.rsv1 = TRUE], chunk, FALSE, {"packed"})
    BY <1>4, SizesAssumption DEF PeerFragmentsCompressed
  <2> DEFINE chunk == ChunkOf("packed", code, n)
  <2>2. chunk \in Chunk /\ chunk.code # "Continue" /\ ~chunk.rsv1
    BY <1>0, ChunkType
  <2> HIDE DEF chunk
  <2>3. [chunk EXCEPT !.rsv1 = TRUE] \in Chunk /\ [chunk EXCEPT !.rsv1 = TRUE].code # "Continue"
    BY <2>2 DEF Chunk
  <2>4. PeerCall([chunk EXCEPT !.rsv1 = TRUE], chunk, FALSE, {"packed"})
    BY <2>1 DEF chunk
  <2> QED BY <2>2, <2>3, <2>4, PeerCallTidy
<1>5. CASE PeerSetsRsv1
  <2>1. PICK code \in Opcodes :
            LET chunk == ChunkOf("plain", code, 0)
                marked == [chunk EXCEPT !.rsv1 = TRUE]
            IN \/ Call(<<marked>>, {"foreign"})
               \/ PeerCall(chunk, marked, FALSE, {"foreign", "continued"})
    BY <1>5 DEF PeerSetsRsv1
  <2> DEFINE chunk == ChunkOf("plain", code, 0)
             marked == [chunk EXCEPT !.rsv1 = TRUE]
  <2>2. chunk \in Chunk /\ chunk.code # "Continue"
    BY <1>0, ChunkType
  <2> HIDE DEF chunk
  <2>3. marked \in Chunk /\ marked.code # "Continue"
    BY <2>2 DEF Chunk
  <2> HIDE DEF marked
  <2>4. CASE Call(<<marked>>, {"foreign"})
    <3>1. /\ <<marked>> = [i \in 1 .. 1 |-> <<marked>>[i]]
          /\ \A i \in 1 .. 1 : ~Marked(<<marked>>[i])
      BY <2>3 DEF Marked
    <3> QED BY <2>4, <3>1, CallTidy
  <2>5. CASE PeerCall(chunk, marked, FALSE, {"foreign", "continued"})
    BY <2>2, <2>3, <2>5, PeerCallTidy
  <2> QED BY <2>1, <2>4, <2>5 DEF chunk, marked
<1> QED BY <1>1, <1>2, <1>3, <1>4, <1>5

-----------------------------------------------------------------------------
LEMMA TailTidy ==
    ASSUME Tidy, todo # <<>>
    PROVE  /\ Tail(todo) = [i \in 1 .. Len(Tail(todo)) |-> Tail(todo)[i]]
           /\ Len(Tail(todo)) \in Nat
           /\ \A i \in 1 .. Len(Tail(todo)) : Marked(Tail(todo)[i]) => "continued" \in faults
           /\ Marked(Head(todo)) => "continued" \in faults
<1> DEFINE Fit == {todo[i] : i \in 1 .. Len(todo)}
<1>1. todo \in Seq(Fit)
  BY DEF Tidy
<1>2. \A c \in Fit : Marked(c) => "continued" \in faults
  BY DEF Tidy
<1> HIDE DEF Fit
<1>3. Head(todo) \in Fit /\ Tail(todo) \in Seq(Fit)
  BY <1>1
<1>4. \A i \in 1 .. Len(Tail(todo)) : Tail(todo)[i] \in Fit
  BY <1>3
<1>5. /\ Tail(todo) = [i \in 1 .. Len(Tail(todo)) |-> Tail(todo)[i]]
      /\ Len(Tail(todo)) \in Nat
  <2>1. \A t \in Seq(Fit) : t = [i \in 1 .. Len(t) |-> t[i]] /\ Len(t) \in Nat
    OBVIOUS
  <2> QED BY <1>3, <2>1
<1>6. \A i \in 1 .. Len(Tail(todo)) : Marked(Tail(todo)[i]) => "continued" \in faults
  BY <1>2, <1>4
<1> QED BY <1>2, <1>3, <1>5, <1>6

(* A frame on the wire is marked only if its chunk was. *)
LEMMA WriteTidy ==
    ASSUME Tidy, todo # <<>>, NEW cells \in BOOLEAN, NEW data, Write(Head(todo), cells, data),
           cells => Head(todo).code # "Continue" \/ Head(todo).via = "packed",
           faults \subseteq faults'
    PROVE  Tidy'
<1>1. /\ todo' = Tail(todo) /\ config' = config /\ calls' = calls /\ low' = low /\ up' = up
      /\ wire'.code = Head(todo).code
      /\ wire'.rsv1 = (Head(todo).rsv1 \/ (cells /\ Head(todo).via # "packed"))
  BY DEF Write, handshake, reader
<1>2. Marked(wire') => Marked(Head(todo))
  BY <1>1 DEF Marked
<1> QED BY <1>1, <1>2, TailTidy DEF Tidy, OuterWithinInner

LEMMA CompressesData ==
    ASSUME NEW c, Compresses(c)
    PROVE  c.code # "Continue"
BY DEF Compresses, Deflates, Data

LEMMA WritesTidy ==
    ASSUME Tidy, \/ WritePlain \/ WriteCompressed \/ PeerWrites
    PROVE  Tidy'
<1>1. CASE WritePlain
  BY <1>1, WriteTidy DEF WritePlain, Ready
<1>2. CASE WriteCompressed
  <2> DEFINE c == Head(todo)
  <2>1. /\ todo # <<>> /\ Compresses(c) /\ faults \subseteq faults'
        /\ \/ \E data : Write(c, TRUE, data)
           \/ UNCHANGED <<config, todo, wire, reader, calls>>
    BY <1>2 DEF WriteCompressed, Ready
  <2>2. ASSUME NEW data, Write(c, TRUE, data) PROVE Tidy'
    BY <2>1, <2>2, WriteTidy, CompressesData
  <2>3. CASE UNCHANGED <<config, todo, wire, reader, calls>>
    BY <2>1, <2>3 DEF Tidy, OuterWithinInner, reader
  <2> QED BY <2>1, <2>2, <2>3
<1>3. CASE PeerWrites
  <2>1. /\ todo # <<>> /\ Head(todo).via = "packed" /\ faults' = faults
        /\ \E data : Write(Head(todo), TRUE, data)
    BY <1>3 DEF PeerWrites, Ready
  <2> QED BY <2>1, WriteTidy
<1> QED BY <1>1, <1>2, <1>3

(* A call that ends early leaves nothing to write. *)
LEMMA GivenUpTidy ==
    ASSUME Tidy, CompressFails \/ SendUnwritten \/ OwnedUnwritten \/ PlainUnwritten
    PROVE  Tidy'
<1>1. /\ todo' = <<>> /\ faults \subseteq faults'
      /\ UNCHANGED <<config, calls, wire, low, up>>
  BY DEF CompressFails, SendUnwritten, OwnedUnwritten, PlainUnwritten, Unwritten, handshake, reader
<1>2. todo' = [i \in 1 .. Len(todo') |-> todo'[i]] /\ Len(todo') = 0
  BY <1>1
<1> QED BY <1>1, <1>2 DEF Tidy, OuterWithinInner

-----------------------------------------------------------------------------
(* What the reader makes of a frame.  Only a frame with rsv1 can fail in
   receive_one. *)
LEMMA FailureIsMarked ==
    ASSUME wire # NoFrame, NEW r \in Returned(FALSE), wire.code = "Continue"
    PROVE  Marked(wire) \/ ~low
BY DEF Returned, ReceiveOne, LowError, Marked

LEMMA TakeKeeps ==
    ASSUME Tidy, Take
    PROVE  /\ config' = config /\ calls' \in Nat /\ todo' = todo /\ faults' = faults
           /\ wire' = NoFrame /\ wire # NoFrame /\ low' = LowAfter(wire)
BY DEF Take, Tidy, handshake

LEMMA ReadTidy ==
    ASSUME Tidy, Take, up' = [fragmented |-> up'.fragmented, type |-> up'.type, data |-> up'.data],
           up'.fragmented => config.merge_frame, OuterWithinInner'
    PROVE  Tidy'
BY TakeKeeps DEF Tidy

LEMMA ReadsTidy ==
    ASSUME Tidy,
           \/ LowRejects \/ InflateFails \/ PassFrame \/ PassControl
           \/ MergeRejects \/ MergeStart \/ MergeWhole \/ MergeContinue
    PROVE  Tidy'
<1> USE TakeKeeps DEF LowAfter, Data, OuterWithinInner
<1>1. CASE LowRejects
  BY <1>1, ReadTidy DEF LowRejects, LowError, Tidy
<1>2. CASE InflateFails
  BY <1>2, ReadTidy, FailureIsMarked DEF InflateFails, Tidy
<1>3. CASE PassFrame
  BY <1>3, ReadTidy DEF PassFrame, Tidy
<1>4. CASE PassControl
  BY <1>4, ReadTidy DEF PassControl, Tidy
<1>5. CASE MergeRejects
  BY <1>5, ReadTidy DEF MergeRejects, Tidy
<1>6. CASE MergeStart
  BY <1>6, ReadTidy DEF MergeStart, Tidy
<1>7. CASE MergeWhole
  BY <1>7, ReadTidy DEF MergeWhole, Tidy
<1>8. CASE MergeContinue
  BY <1>8, ReadTidy DEF MergeContinue, Tidy
<1> QED BY <1>1, <1>2, <1>3, <1>4, <1>5, <1>6, <1>7, <1>8

LEMMA TidyInductive == Tidy /\ [Next]_vars => Tidy'
<1> SUFFICES ASSUME Tidy, [Next]_vars PROVE Tidy'
  OBVIOUS
<1>1. CASE ServerRefuses \/ ServerAnswers \/ ClientChecks
  BY <1>1 DEF ServerRefuses, ServerAnswers, ClientChecks, traffic, reader, Tidy, OuterWithinInner
<1>2. CASE UNCHANGED vars
  BY <1>2 DEF vars, handshake, reader, Tidy, OuterWithinInner
<1> QED BY <1>1, <1>2, CallsTidy, WritesTidy, GivenUpTidy, ReadsTidy DEF Next

(* For every traffic, errors and damage included, DeflateReadState is in the middle
   of a message only while its FrameReadState is, unless the peer marked a
   continuation as compressed. *)
THEOREM OuterWithinInnerAlways == Spec => []OuterWithinInner
<1>1. Tidy => OuterWithinInner
  BY DEF Tidy
<1> QED BY <1>1, InitTidy, TidyInductive, PTL DEF Spec

-----------------------------------------------------------------------------
(* The compressor's loop, for every number of bytes zlib holds. *)

CellSeq == Seq(Nat \X Nat)

\* The states of the loop: it never writes more than the output takes.
TurnStates ==
    {s \in [cap : Nat, len : Nat, out : CellSeq, pending : CellSeq, eaten : BOOLEAN,
            err : BOOLEAN] : Len(s.out) <= s.cap}

LEMMA GrownNat ==
    ASSUME NEW cap \in Nat, NEW len \in Nat
    PROVE  Grown(cap, len) \in Nat /\ Grown(cap, len) >= cap /\ Grown(cap, len) >= len
BY DEF Grown, Greatest

LEMMA BeginType ==
    ASSUME NEW n \in Nat, NEW cap \in Nat, NEW pending \in CellSeq
    PROVE  Begin(n, cap, pending) \in TurnStates
<1> DEFINE len == IF n > 2 * cap + 4 THEN 2 * n + 4 ELSE 0
<1>1. len \in Nat
  OBVIOUS
<1>2. Begin(n, cap, pending) =
          [cap |-> Grown(cap, len), len |-> len, out |-> <<>>, pending |-> pending,
           eaten |-> FALSE, err |-> FALSE]
  BY DEF Begin
<1> HIDE DEF len
<1>3. Grown(cap, len) \in Nat /\ Grown(cap, len) >= 0
  BY <1>1, GrownNat
<1>4. <<>> \in CellSeq /\ Len(<<>>) = 0
  BY DEF CellSeq
<1> QED BY <1>1, <1>2, <1>3, <1>4 DEF TurnStates

\* The first n elements and the others.
LEMMA CutType ==
    ASSUME NEW S, NEW s \in Seq(S), NEW n \in 0 .. Len(s)
    PROVE  /\ SubSeq(s, 1, n) \in Seq(S) /\ Len(SubSeq(s, 1, n)) = n
           /\ From(s, n) \in Seq(S) /\ Len(From(s, n)) = Len(s) - n
<1>1. Len(s) \in Nat /\ \A i \in 1 .. Len(s) : s[i] \in S
  BY LenProperties, ElementOfSeq
<1>2. SubSeq(s, 1, n) \in Seq(S) /\ Len(SubSeq(s, 1, n)) = n
  BY <1>1, SubSeqProperties
<1>3. SubSeq(s, n + 1, Len(s)) \in Seq(S) /\ Len(SubSeq(s, n + 1, Len(s))) = Len(s) - n
  BY <1>1, SubSeqProperties
<1> QED BY <1>2, <1>3 DEF From

LEMMA TurnType ==
    ASSUME NEW n \in Nat, NEW s \in TurnStates
    PROVE  Turn(s, n) \in TurnStates
<1> DEFINE len == IF s.cap <= s.len THEN s.len + 2 * n ELSE s.len
           cap == Grown(s.cap, len)
           avail == cap - Len(s.out)
           given == Least(avail, Len(s.pending))
           more == SubSeq(s.pending, 1, given)
<1>1. /\ s.cap \in Nat /\ s.len \in Nat /\ s.out \in CellSeq /\ s.pending \in CellSeq
      /\ Len(s.out) <= s.cap /\ Len(s.out) \in Nat /\ Len(s.pending) \in Nat
  BY DEF TurnStates, CellSeq
<1>2. len \in Nat
  BY <1>1
<1> HIDE DEF len
<1>3. cap \in Nat /\ cap >= s.cap
  BY <1>1, <1>2, GrownNat
<1> HIDE DEF cap
<1>4. avail \in Nat
  BY <1>1, <1>3
<1>5. given \in 0 .. Len(s.pending) /\ given <= avail
  BY <1>1, <1>4 DEF Least
<1>6. Turn(s, n) = [cap |-> cap, len |-> len, out |-> s.out \o more,
                    pending |-> From(s.pending, given),
                    eaten |-> Len(s.pending) < avail \/ (avail > 0 /\ n = 0),
                    err |-> avail = 0]
  BY DEF Turn, cap, len
<1> HIDE DEF given
<1>7. more \in CellSeq /\ Len(more) = given /\ From(s.pending, given) \in CellSeq
  BY <1>1, <1>5, CutType DEF CellSeq
<1> HIDE DEF more
<1>8. s.out \o more \in CellSeq /\ Len(s.out \o more) = Len(s.out) + given
  BY <1>1, <1>7, ConcatProperties DEF CellSeq
<1>9. Len(s.out \o more) <= cap
  BY <1>1, <1>3, <1>4, <1>5, <1>8
<1>10. \A e, f \in BOOLEAN :
          [cap |-> cap, len |-> len, out |-> s.out \o more, pending |-> From(s.pending, given),
           eaten |-> e, err |-> f] \in TurnStates
  BY <1>2, <1>3, <1>7, <1>8, <1>9 DEF TurnStates
<1> QED BY <1>6, <1>10

(* The loop is its turns one after the other. *)
LEMMA LoopTurns ==
    ASSUME NEW n \in Nat, NEW cap \in Nat, NEW pending \in CellSeq
    PROVE  \E f \in [Nat -> TurnStates] :
               /\ f[0] = Begin(n, cap, pending)
               /\ \A k \in Nat : f[k + 1] = IF f[k].eaten \/ f[k].err THEN f[k] ELSE Turn(f[k], n)
               /\ Loop(n, cap, pending) = f[Len(pending) + 1]
<1> DEFINE N == Len(pending) + 1
           start == Begin(n, cap, pending)
           step == [s \in TurnStates |-> IF s.eaten \/ s.err THEN s ELSE Turn(s, n)]
           Turns(t) == [k \in 0 .. N |->
                           IF k = 0 THEN Begin(n, cap, pending)
                           ELSE IF t[k - 1].eaten \/ t[k - 1].err THEN t[k - 1]
                           ELSE Turn(t[k - 1], n)]
           turn == CHOOSE t : t = Turns(t)
<1>1. N \in Nat
  BY LenProperties DEF CellSeq
<1>2. start \in TurnStates
  BY BeginType
<1>3. step \in [TurnStates -> TurnStates]
  BY TurnType
<1>4. Loop(n, cap, pending) = turn[N]
  BY DEF Loop
<1> HIDE DEF N
<1>5. PICK f \in [Nat -> TurnStates] : f[0] = start /\ \A k \in Nat : f[k + 1] = step[f[k]]
  <2> HIDE DEF start, step
  <2> QED BY <1>2, <1>3, Iterated
<1>6. \A k \in Nat : f[k + 1] = IF f[k].eaten \/ f[k].err THEN f[k] ELSE Turn(f[k], n)
  BY <1>5
<1> HIDE DEF step
<1>7. turn = Turns(turn)
  <2> DEFINE g == [k \in 0 .. N |-> f[k]]
  <2>1. ASSUME NEW k \in 0 .. N PROVE g[k] = Turns(g)[k]
    <3>1. CASE k = 0
      BY <1>5, <3>1
    <3>2. CASE k # 0
      <4>1. k - 1 \in Nat /\ (k - 1) + 1 = k /\ k - 1 \in 0 .. N
        BY <1>1, <3>2
      <4>2. g[k] = f[(k - 1) + 1] /\ g[k - 1] = f[k - 1]
        BY <4>1
      <4> QED BY <1>6, <3>2, <4>1, <4>2
    <3> QED BY <3>1, <3>2
  <2>2. g = Turns(g)
    BY <2>1
  <2>3. \E t : t = Turns(t)
    <3> HIDE DEF g, Turns
    <3> QED BY <2>2
  <2> HIDE DEF Turns
  <2> QED BY <2>3
<1> HIDE DEF turn
<1>8. turn[N] = f[N]
  <2> DEFINE Same == {k \in Nat : k <= N => turn[k] = f[k]}
  <2>1. 0 \in Same
    BY <1>1, <1>5, <1>7
  <2>2. ASSUME NEW k \in Nat, k \in Same PROVE k + 1 \in Same
    <3>1. SUFFICES ASSUME k + 1 <= N PROVE turn[k + 1] = f[k + 1]
      OBVIOUS
    <3>2. k + 1 \in 0 .. N /\ k + 1 # 0 /\ (k + 1) - 1 = k /\ k <= N
      BY <1>1, <3>1
    <3>3. turn[k] = f[k]
      BY <2>2, <3>2
    <3>4. turn[k + 1] = IF turn[k].eaten \/ turn[k].err THEN turn[k] ELSE Turn(turn[k], n)
      BY <1>7, <3>2
    <3> QED BY <1>6, <3>3, <3>4
  <2>3. N \in Same
    <3> HIDE DEF Same
    <3> QED BY <1>1, <2>1, <2>2, SetInduction
  <2> QED BY <1>1, <2>3
<1> QED BY <1>4, <1>5, <1>6, <1>8 DEF N

LEMMA LoopType ==
    ASSUME NEW n \in Nat, NEW cap \in Nat, NEW pending \in CellSeq
    PROVE  Loop(n, cap, pending) \in TurnStates
<1>1. Len(pending) + 1 \in Nat
  BY LenProperties DEF CellSeq
<1>2. PICK f \in [Nat -> TurnStates] : Loop(n, cap, pending) = f[Len(pending) + 1]
  BY LoopTurns
<1> QED BY <1>1, <1>2

LEMMA BlockType ==
    ASSUME NEW b \in Nat, NEW z \in Nat
    PROVE  Block(b, z) \in CellSeq /\ Len(Block(b, z)) = z
BY DEF Block, CellSeq

LEMMA CompressType ==
    ASSUME NEW b \in Nat, NEW z \in Nat, NEW n \in Nat, NEW cap \in Nat, NEW pending \in CellSeq
    PROVE  LET r == Compress(b, z, n, cap, pending)
           IN r.out \in CellSeq /\ r.pending \in CellSeq /\ r.ok \in BOOLEAN
<1> DEFINE s == Loop(n, cap, pending)
           given == Least(s.cap - Len(s.out), z + TailLen)
<1>1. s \in TurnStates
  BY LoopType
<1>2. /\ s.cap \in Nat /\ s.out \in CellSeq /\ s.pending \in CellSeq /\ s.eaten \in BOOLEAN
      /\ Len(s.out) <= s.cap /\ Len(s.out) \in Nat
  BY <1>1 DEF TurnStates, CellSeq
<1>3. /\ Flushed(b, z) \in CellSeq /\ Len(Flushed(b, z)) = z + TailLen
  BY BlockType DEF Flushed, TailLen
<1>4. Compress(b, z, n, cap, pending) =
       IF s.eaten
       THEN [ok |-> TRUE, eaten |-> TRUE,
             out |-> s.out \o SubSeq(Flushed(b, z), 1, given),
             pending |-> s.pending \o From(Flushed(b, z), given)]
       ELSE [ok |-> FALSE, eaten |-> FALSE, out |-> s.out, pending |-> s.pending]
  BY DEF Compress
<1> HIDE DEF s
<1>5. given \in 0 .. z + TailLen
  BY <1>2 DEF Least, TailLen
<1> HIDE DEF given
<1>6. SubSeq(Flushed(b, z), 1, given) \in CellSeq /\ From(Flushed(b, z), given) \in CellSeq
  BY <1>3, <1>5, CutType DEF CellSeq
<1>7. /\ s.out \o SubSeq(Flushed(b, z), 1, given) \in CellSeq
      /\ s.pending \o From(Flushed(b, z), given) \in CellSeq
  BY <1>2, <1>6, ConcatProperties DEF CellSeq
<1> QED BY <1>2, <1>4, <1>7

-----------------------------------------------------------------------------
(* Types.  What a later fragment of a compressed message packs is the end of the
   last block, so that there has to be one. *)

Leads(c) == c.via = "packed" /\ c.code # "Continue"
Follows(c) == c.via = "packed" /\ c.code = "Continue"

InOrder(chunks, begun) ==
    \A i \in DOMAIN chunks : Follows(chunks[i]) => begun \/ \E j \in 1 .. i - 1 : Leads(chunks[j])

Typed ==
    /\ TypeOK
    /\ phase = "answered" => ~ParseError(header)
    /\ InOrder(todo, blocks # <<>>)

DeState == [status : {"sync", "lost", "bad"}, since : Nat, next : Nat]

LEMMA InitTyped == Init => Typed
<1> SUFFICES ASSUME Init PROVE Typed
  OBVIOUS
<1> USE DEF Init
<1>1. header \in Seq(Extension) /\ calls \in 0 .. MaxCalls
  BY OffersAssumption, MaxCallsAssumption
<1>2. conf \in [Roles -> PMDConfig \cup {NoPMD}]
  OBVIOUS
<1>3. com \in [since : Nat, pending : Seq(Nat \X Nat)]
  OBVIOUS
<1>4. up \in [fragmented : BOOLEAN, type : Data, data : Seq(Nat \X Nat)]
  BY DEF Data
<1>5. de \in [status : {"sync", "lost", "bad"}, since : Nat, next : Nat]
  OBVIOUS
<1>6. /\ blocks \in Seq(BlockRec) /\ todo \in Seq(Chunk) /\ sent \in Seq(Result)
      /\ got \in Seq(Result) /\ low \in BOOLEAN /\ faults \subseteq Faults
  <2>1. \A S : <<>> \in Seq(S)
    OBVIOUS
  <2> QED BY <2>1
<1>7. InOrder(todo, blocks # <<>>)
  BY DEF InOrder
<1>8. TypeOK
  BY <1>1, <1>2, <1>3, <1>4, <1>5, <1>6 DEF TypeOK
<1> QED BY <1>7, <1>8 DEF Typed

\* The answer of the server is one the client can read.
LEMMA AnswerParses ==
    ASSUME NEW h \in Seq(Extension), ~ParseError(h)
    PROVE  ~ParseError(Answer(h))
<1>1. CASE LastConfig(h) = NoPMD
  BY <1>1 DEF Answer, ParseError, PMDs
<1>2. CASE LastConfig(h) # NoPMD
  <2> DEFINE c == LastConfig(h)
             x == ExtString(c)
  <2>1. c \in PMDConfig
    BY <1>2, LastConfigType
  <2>2. Answer(h) = <<x>>
    BY <1>2 DEF Answer
  <2> HIDE DEF c
  <2>3. /\ \A n \in FlagNames : x.params[n] = IF c[n] THEN <<NoValue>> ELSE <<>>
        /\ \A n \in BitsNames : x.params[n] = <<c[n]>> /\ c[n] \in WindowBit
        /\ x.params["unknown"] = <<>>
    BY <2>1 DEF ExtString, Names, FlagNames, BitsNames, PMDConfig
  <2> HIDE DEF x
  <2>4. ParsesOK(x.params)
    BY <2>3 DEF ParsesOK
  <2> QED BY <2>2, <2>4 DEF ParseError, PMDs
<1> QED BY <1>1, <1>2

LEMMA AgreedType ==
    ASSUME NEW h \in Seq(Extension), ~ParseError(h)
    PROVE  Agreed(h) \in PMDConfig \cup {NoPMD}
BY LastConfigType DEF Agreed, PMDConfig

LEMMA HandshakeTyped ==
    ASSUME Typed, ServerRefuses \/ ServerAnswers \/ ClientChecks
    PROVE  Typed'
<1>1. CASE ServerRefuses
  BY <1>1 DEF ServerRefuses, Typed, TypeOK, InOrder, traffic, reader
<1>2. CASE ServerAnswers
  <2>1. header \in Seq(Extension) /\ ~ParseError(header)
    BY <1>2 DEF ServerAnswers, Typed, TypeOK
  <2>2. /\ header' \in Seq(Extension) /\ ~ParseError(header')
        /\ Agreed(header) \in PMDConfig \cup {NoPMD}
    BY <1>2, <2>1, AnswerKeeps, AnswerParses, AgreedType DEF ServerAnswers
  <2>3. conf' \in [Roles -> PMDConfig \cup {NoPMD}]
    BY <1>2, <2>2 DEF ServerAnswers, Typed, TypeOK
  <2>4. phase' \in {"answered", "panicked"}
    BY <1>2 DEF ServerAnswers
  <2> QED BY <1>2, <2>2, <2>3, <2>4 DEF ServerAnswers, Typed, TypeOK, InOrder, traffic, reader
<1>3. CASE ClientChecks
  <2>1. header \in Seq(Extension) /\ ~ParseError(header)
    BY <1>3 DEF ClientChecks, Typed, TypeOK
  <2>2. Agreed(header) \in PMDConfig \cup {NoPMD}
    BY <2>1, AgreedType
  <2>3. conf' \in [Roles -> PMDConfig \cup {NoPMD}]
    BY <1>3, <2>2 DEF ClientChecks, Typed, TypeOK
  <2>4. phase' \in {"refused", "open", "panicked"}
    BY <1>3 DEF ClientChecks
  <2> QED BY <1>3, <2>1, <2>3, <2>4 DEF ClientChecks, Typed, TypeOK, InOrder, traffic, reader
<1> QED BY <1>1, <1>2, <1>3

LEMMA CallTyped ==
    ASSUME Typed, NEW chunks \in Seq(Chunk), InOrder(chunks, FALSE),
           NEW kinds \in SUBSET Faults, Call(chunks, kinds)
    PROVE  Typed'
<1>1. calls' \in 0 .. MaxCalls
  BY MaxCallsAssumption DEF Call, Typed, TypeOK
<1>2. /\ todo' = chunks /\ faults' = faults \cup kinds /\ phase' = phase /\ header' = header
      /\ blocks' = blocks
  BY DEF Call, handshake
<1>3. InOrder(todo', blocks' # <<>>)
  BY <1>2 DEF InOrder
<1>4. UNCHANGED <<handshake, com, blocks, wire, reader, sent>>
  BY DEF Call
<1> QED BY <1>1, <1>2, <1>3, <1>4 DEF Typed, TypeOK, handshake, reader

LEMMA SingleInOrder ==
    ASSUME NEW c \in Chunk, ~Follows(c)
    PROVE  <<c>> \in Seq(Chunk) /\ InOrder(<<c>>, FALSE)
BY DEF InOrder

LEMMA PeerCallTyped ==
    ASSUME Typed, NEW first \in Chunk, NEW last \in Chunk, NEW ping \in BOOLEAN,
           NEW kinds \in SUBSET Faults, first.code # "Continue",
           last.via = "packed" => first.via = "packed",
           PeerCall(first, last, ping, kinds)
    PROVE  Typed'
<1> DEFINE between == [ChunkOf("plain", "Ping", 0) EXCEPT !.piece = <<calls + 1, 0>>]
           a == [first EXCEPT !.fin = FALSE]
           z == [last EXCEPT !.code = "Continue", !.piece = <<calls + 1, 2>>]
           m == IF ping THEN <<between>> ELSE <<>>
           chunks == <<a>> \o m \o <<z>>
<1>0. calls \in Nat
  BY DEF Typed, TypeOK
<1>1. between \in Chunk /\ ~Follows(between)
  <2> DEFINE c == ChunkOf("plain", "Ping", 0)
  <2>1. c \in Chunk /\ c.via = "plain" /\ <<calls + 1, 0>> \in Nat \X Nat
    BY <1>0, ChunkType DEF ChunkOf
  <2> HIDE DEF c
  <2>2. [c EXCEPT !.piece = <<calls + 1, 0>>] \in Chunk
    BY <2>1 DEF Chunk
  <2> QED BY <2>1, <2>2 DEF Follows, Chunk, c
<1>2. a \in Chunk /\ ~Follows(a) /\ (last.via = "packed" => Leads(a))
  BY DEF Leads, Follows, Chunk
<1>3. z \in Chunk /\ (Follows(z) => last.via = "packed")
  <2>1. <<calls + 1, 2>> \in Nat \X Nat /\ "Continue" \in Codes
    BY <1>0 DEF Codes
  <2> QED BY <2>1 DEF Follows, Chunk
<1>4. Call(chunks, kinds)
  BY DEF PeerCall
<1> HIDE DEF between, a, z
<1>5. CASE ping
  <2>1. chunks = <<a, between, z>>
    <3>1. m = <<between>>
      BY <1>5
    <3> HIDE DEF m
    <3> QED BY <1>1, <1>2, <1>3, <3>1, JoinedThree
  <2> HIDE DEF chunks
  <2>2. chunks \in Seq(Chunk) /\ InOrder(chunks, FALSE)
    BY <1>1, <1>2, <1>3, <2>1 DEF InOrder
  <2> QED BY <1>4, <2>2, CallTyped
<1>6. CASE ~ping
  <2>1. chunks = <<a, z>>
    <3>1. <<a>> \in Seq(Chunk) /\ m = <<>>
      BY <1>2, <1>6
    <3>2. <<a>> \o m = <<a>>
      BY <3>1, ConcatEmptySeq
    <3> QED BY <1>2, <1>3, <3>2, JoinedTwo
  <2> HIDE DEF chunks
  <2>2. chunks \in Seq(Chunk) /\ InOrder(chunks, FALSE)
    BY <1>1, <1>2, <1>3, <2>1 DEF InOrder
  <2> QED BY <1>4, <2>2, CallTyped
<1> QED BY <1>5, <1>6

(* Chunks of a fragmented message: each but the last is full. *)
LEMMA PartLenNat ==
    ASSUME config \in Configs, NEW n \in Nat \ {0}, NEW p \in 1 .. Parts(n)
    PROVE  PartLen(n, p) \in Nat
<1>1. ChunkSize(n) \in Nat \ {0}
  BY ConfigsAssumption DEF ChunkSize
<1> DEFINE c == ChunkSize(n)
           q == Parts(n)
<1>2. q = (n + c - 1) \div c
  BY DEF Parts
<1> HIDE DEF c, q
<1>3. c \in Nat \ {0} /\ n + c - 1 \in Nat
  BY <1>1 DEF c
<1>4. q \in Nat /\ q * c <= n + c - 1
  BY <1>2, <1>3
<1>5. p \in Nat /\ p - 1 \in Nat /\ p <= q
  BY <1>4 DEF q
<1>6. p * c <= q * c
  BY <1>3, <1>4, <1>5
<1>7. p * c = (p - 1) * c + c /\ (p - 1) * c \in Nat
  BY <1>3, <1>5
<1>8. (p - 1) * c <= n
  BY <1>3, <1>4, <1>6, <1>7
<1>9. n - (p - 1) * c \in Nat
  BY <1>7, <1>8
<1> QED BY <1>3, <1>9 DEF PartLen, Least, c

LEMMA CallsTyped ==
    ASSUME Typed,
           Send \/ SendOwnedFrame \/ PeerFragments \/ PeerFragmentsCompressed \/ PeerSetsRsv1
    PROVE  Typed'
<1>0. calls \in Nat /\ config \in Configs
  BY DEF Typed, TypeOK
<1>1. CASE Send
  <2>1. PICK code \in Opcodes, v \in BOOLEAN, n \in Nat \ {0} :
            Call([p \in 1 .. Parts(n) |->
                     [ChunkOf("send", code, PartLen(n, p)) EXCEPT
                         !.fin = (p = Parts(n)), !.piece = <<calls + 1, p>>, !.valid = v]],
                 IF Parts(n) > 1 THEN {"fragmented"} ELSE {})
    BY <1>1, SizesAssumption DEF Send
  <2> DEFINE chunk(p) == [ChunkOf("send", code, PartLen(n, p)) EXCEPT
                         !.fin = (p = Parts(n)), !.piece = <<calls + 1, p>>, !.valid = v]
             chunks == [p \in 1 .. Parts(n) |-> chunk(p)]
             kinds == IF Parts(n) > 1 THEN {"fragmented"} ELSE {}
  <2>2. Call(chunks, kinds)
    BY <2>1
  <2>3. Parts(n) \in Nat
    BY <1>0, PartsNat
  <2>4. ASSUME NEW p \in 1 .. Parts(n) PROVE chunk(p) \in Chunk /\ ~Follows(chunk(p))
    <3> DEFINE c == ChunkOf("send", code, PartLen(n, p))
    <3>1. PartLen(n, p) \in Nat
      BY <1>0, PartLenNat
    <3>2. c \in Chunk /\ c.via = "send"
      BY <1>0, <3>1, ChunkType DEF ChunkOf
    <3>3. (p = Parts(n)) \in BOOLEAN /\ <<calls + 1, p>> \in Nat \X Nat
      BY <1>0, <2>3
    <3> HIDE DEF c
    <3>4. [c EXCEPT !.fin = (p = Parts(n)), !.piece = <<calls + 1, p>>, !.valid = v] \in Chunk
      BY <3>2, <3>3 DEF Chunk
    <3>5. [c EXCEPT !.fin = (p = Parts(n)), !.piece = <<calls + 1, p>>, !.valid = v].via = "send"
      BY <3>2, <3>3 DEF Chunk
    <3> QED BY <3>4, <3>5 DEF c, Follows
  <2> HIDE DEF chunk
  <2>5. chunks \in Seq(Chunk) /\ InOrder(chunks, FALSE)
    BY <2>3, <2>4 DEF InOrder
  <2>6. kinds \in SUBSET Faults
    BY DEF Faults
  <2> HIDE DEF chunks, kinds
  <2> QED BY <2>2, <2>5, <2>6, CallTyped
<1>2. CASE SendOwnedFrame
  <2>1. PICK code \in Opcodes, n \in Nat : Call(<<ChunkOf("owned", code, n)>>, {})
    BY <1>2, SizesAssumption DEF SendOwnedFrame
  <2> DEFINE c == ChunkOf("owned", code, n)
  <2>2. c \in Chunk /\ ~Follows(c)
    BY <1>0, ChunkType DEF Follows
  <2> HIDE DEF c
  <2>3. <<c>> \in Seq(Chunk) /\ InOrder(<<c>>, FALSE) /\ {} \in SUBSET Faults
    BY <2>2, SingleInOrder
  <2> QED BY <2>1, <2>3, CallTyped DEF c
<1>3. CASE PeerFragments
  <2>1. PICK code \in Opcodes \cap Data, v \in BOOLEAN, ping \in BOOLEAN :
            LET chunk == [ChunkOf("plain", code, 0) EXCEPT !.valid = v]
            IN PeerCall(chunk, chunk, ping,
                        IF ~v /\ code = "Text" /\ config.validate_utf8 = "FastFail"
                        THEN {"cutchar"} ELSE {})
    BY <1>3 DEF PeerFragments
  <2> DEFINE chunk == [ChunkOf("plain", code, 0) EXCEPT !.valid = v]
             kinds == IF ~v /\ code = "Text" /\ config.validate_utf8 = "FastFail"
                      THEN {"cutchar"} ELSE {}
  <2>2. chunk \in Chunk /\ chunk.code # "Continue"
    BY <1>0, ChunkType DEF Chunk
  <2>3. PeerCall(chunk, chunk, ping, kinds)
    BY <2>1
  <2>4. kinds \in SUBSET Faults
    BY DEF Faults
  <2> HIDE DEF chunk, kinds
  <2> QED BY <2>2, <2>3, <2>4, PeerCallTyped
<1>4. CASE PeerFragmentsCompressed
  <2>1. PICK code \in Opcodes \cap Data, n \in Nat :
            LET chunk == ChunkOf("packed", code, n)
            IN PeerCall([chunk EXCEPT !.rsv1 = TRUE], chunk, FALSE, {"packed"})
    BY <1>4, SizesAssumption DEF PeerFragmentsCompressed
  <2> DEFINE chunk == ChunkOf("packed", code, n)
             marked == [chunk EXCEPT !.rsv1 = TRUE]
  <2>2. chunk \in Chunk /\ chunk.code # "Continue" /\ chunk.via = "packed"
    BY <1>0, ChunkType DEF ChunkOf
  <2>3. PeerCall(marked, chunk, FALSE, {"packed"})
    BY <2>1
  <2> HIDE DEF chunk
  <2>4. marked \in Chunk /\ marked.code # "Continue" /\ marked.via = "packed"
    BY <2>2 DEF Chunk
  <2>5. {"packed"} \in SUBSET Faults /\ FALSE \in BOOLEAN
    BY DEF Faults
  <2> HIDE DEF marked
  <2> QED BY <2>2, <2>3, <2>4, <2>5, PeerCallTyped
<1>5. CASE PeerSetsRsv1
  <2>1. PICK code \in Opcodes :
            LET chunk == ChunkOf("plain", code, 0)
                marked == [chunk EXCEPT !.rsv1 = TRUE]
            IN \/ Call(<<marked>>, {"foreign"})
               \/ PeerCall(chunk, marked, FALSE, {"foreign", "continued"})
    BY <1>5 DEF PeerSetsRsv1
  <2> DEFINE chunk == ChunkOf("plain", code, 0)
             marked == [chunk EXCEPT !.rsv1 = TRUE]
  <2>2. chunk \in Chunk /\ chunk.code # "Continue" /\ chunk.via = "plain"
    BY <1>0, ChunkType DEF ChunkOf
  <2> HIDE DEF chunk
  <2>3. marked \in Chunk /\ marked.code # "Continue" /\ marked.via = "plain"
    BY <2>2 DEF Chunk
  <2>4. {"foreign"} \in SUBSET Faults /\ {"foreign", "continued"} \in SUBSET Faults
        /\ FALSE \in BOOLEAN
    BY DEF Faults
  <2>5. Call(<<marked>>, {"foreign"}) \/ PeerCall(chunk, marked, FALSE, {"foreign", "continued"})
    BY <2>1 DEF chunk
  <2> HIDE DEF marked
  <2>6. ~Follows(marked)
    BY <2>3 DEF Follows
  <2>7. CASE Call(<<marked>>, {"foreign"})
    BY <2>3, <2>4, <2>6, <2>7, SingleInOrder, CallTyped
  <2>8. CASE PeerCall(chunk, marked, FALSE, {"foreign", "continued"})
    BY <2>2, <2>3, <2>4, <2>8, PeerCallTyped
  <2> QED BY <2>5, <2>7, <2>8
<1> QED BY <1>1, <1>2, <1>3, <1>4, <1>5

-----------------------------------------------------------------------------
LEMMA ErrorType == Error \in Result
<1>1. <<>> \in Seq(Nat \X Nat)
  OBVIOUS
<1> QED BY <1>1 DEF Error, Result

LEMMA DueType ==
    ASSUME NEW c \in Chunk
    PROVE  Due(c) \in Seq(Result)
<1> DEFINE pieces == IF c.piece[2] = 0 THEN <<c.piece>>
                     ELSE [p \in 1 .. c.piece[2] |-> <<c.piece[1], p>>]
           passed == [code |-> c.code, fin |-> c.fin, body |-> <<c.piece>>]
           merged == [code |-> c.type, fin |-> TRUE, body |-> pieces]
<1>1. /\ c.piece \in Nat \X Nat /\ c.code \in Codes /\ c.type \in Codes /\ c.fin \in BOOLEAN
      /\ c.piece[1] \in Nat /\ c.piece[2] \in Nat
  BY DEF Chunk
<1>2. <<c.piece>> \in Seq(Nat \X Nat)
  BY <1>1
<1>3. [p \in 1 .. c.piece[2] |-> <<c.piece[1], p>>] \in Seq(Nat \X Nat)
  BY <1>1
<1>4. pieces \in Seq(Nat \X Nat)
  BY <1>2, <1>3
<1> HIDE DEF pieces
<1>5. passed \in Result /\ merged \in Result
  BY <1>1, <1>2, <1>4 DEF Result
<1>6. Due(c) \in {<<passed>>, <<merged>>, <<>>, <<Error>>}
  BY DEF Due, pieces
<1> HIDE DEF passed, merged
<1>7. /\ <<passed>> \in Seq(Result) /\ <<merged>> \in Seq(Result) /\ <<>> \in Seq(Result)
      /\ <<Error>> \in Seq(Result)
  BY <1>5, ErrorType
<1> QED BY <1>6, <1>7

\* The chunks after the first one.
LEMMA TailInOrder ==
    ASSUME NEW chunks \in Seq(Chunk), chunks # <<>>, NEW begun \in BOOLEAN, NEW after \in BOOLEAN,
           InOrder(chunks, begun), begun \/ Leads(Head(chunks)) => after
    PROVE  /\ Head(chunks) \in Chunk /\ Tail(chunks) \in Seq(Chunk)
           /\ InOrder(Tail(chunks), after)
<1>1. Len(chunks) \in Nat \ {0}
  BY EmptySeq, LenProperties
<1>2. /\ Head(chunks) \in Chunk /\ Tail(chunks) \in Seq(Chunk) /\ Head(chunks) = chunks[1]
      /\ DOMAIN Tail(chunks) = 1 .. Len(chunks) - 1
      /\ \A i \in 1 .. Len(chunks) - 1 : Tail(chunks)[i] = chunks[i + 1]
  BY <1>1
<1>3. ASSUME NEW i \in DOMAIN Tail(chunks), Follows(Tail(chunks)[i]), ~after
      PROVE  \E j \in 1 .. i - 1 : Leads(Tail(chunks)[j])
  <2>1. i + 1 \in DOMAIN chunks /\ Follows(chunks[i + 1])
    BY <1>1, <1>2, <1>3
  <2>2. PICK j \in 1 .. (i + 1) - 1 : Leads(chunks[j])
    BY <1>3, <2>1 DEF InOrder
  <2>3. j # 1
    BY <1>2, <1>3, <2>2
  <2>4. j - 1 \in 1 .. i - 1 /\ j - 1 \in 1 .. Len(chunks) - 1 /\ Tail(chunks)[j - 1] = chunks[j]
    BY <1>1, <1>2, <1>3, <2>2, <2>3
  <2> QED BY <2>2, <2>4
<1> QED BY <1>2, <1>3 DEF InOrder

LEMMA WriteTyped ==
    ASSUME Typed, todo # <<>>, NEW cells \in BOOLEAN, NEW data \in CellSeq,
           Write(Head(todo), cells, data),
           phase' = phase, com' \in [since : Nat, pending : CellSeq], blocks' \in Seq(BlockRec),
           blocks # <<>> \/ Leads(Head(todo)) => blocks' # <<>>, faults' \in SUBSET Faults
    PROVE  Typed'
<1> DEFINE c == Head(todo)
<1>1. c \in Chunk /\ Tail(todo) \in Seq(Chunk) /\ InOrder(Tail(todo), blocks' # <<>>)
  BY TailInOrder DEF Typed, TypeOK
<1>2. Due(c) \in Seq(Result)
  BY <1>1, DueType
<1>3. /\ wire' = [code |-> c.code, fin |-> c.fin, rsv1 |-> c.rsv1 \/ (cells /\ c.via # "packed"),
                  cells |-> cells, long |-> TooBig(c), data |-> data, valid |-> c.valid, due |-> Due(c)]
      /\ sent' = sent \o Due(c) /\ todo' = Tail(todo)
      /\ UNCHANGED <<handshake, reader, calls>>
  BY DEF Write
<1> HIDE DEF c
<1>4. wire' \in Frame
  <2>1. TooBig(c) \in BOOLEAN
    BY DEF TooBig
  <2> QED BY <1>1, <1>2, <1>3, <2>1 DEF Frame, Chunk, CellSeq
<1>5. sent' \in Seq(Result)
  BY <1>2, <1>3, ConcatProperties DEF Typed, TypeOK
<1>6. InOrder(todo', blocks' # <<>>) /\ todo' \in Seq(Chunk)
  BY <1>1, <1>3
<1> QED BY <1>3, <1>4, <1>5, <1>6 DEF Typed, TypeOK, handshake, reader, CellSeq

\* The compressor and the history of its blocks after a chunk.
LEMMA FedType ==
    ASSUME Typed, NEW c \in Chunk, c.via # "plain", NEW z, NEW back \in Nat,
           <<c.size, z>> \in Packings,
           NEW r, r.pending \in CellSeq
    PROVE  /\ Packed(c, r, back, z) \in Seq(BlockRec) /\ Packed(c, r, back, z) # <<>>
           /\ Settled(r.pending, Len(blocks) + 1) \in [since : Nat, pending : CellSeq]
           /\ [com EXCEPT !.pending = r.pending] \in [since : Nat, pending : CellSeq]
           /\ Cut(r) \in SUBSET Faults
<1>1. Len(blocks) \in Nat /\ blocks \in Seq(BlockRec) /\ com \in [since : Nat, pending : CellSeq]
  BY LenProperties DEF Typed, TypeOK, CellSeq
<1>2. z \in Nat /\ c.size \in Nat /\ c.piece \in Nat \X Nat /\ c.via \in {"send", "owned", "packed"}
  BY PackingsAssumption DEF Chunk
<1> DEFINE rec == [piece |-> c.piece, size |-> c.size, back |-> back, z |-> z,
                   whole |-> r.pending = <<>>, via |-> c.via]
<1>3. rec \in BlockRec
  <2>1. (r.pending = <<>>) \in BOOLEAN
    OBVIOUS
  <2> QED BY <1>2, <2>1 DEF BlockRec
<1>4. Packed(c, r, back, z) = Append(blocks, rec)
  BY DEF Packed
<1> HIDE DEF rec
<1>5. Append(blocks, rec) \in Seq(BlockRec) /\ Len(Append(blocks, rec)) = Len(blocks) + 1
  BY <1>1, <1>3, AppendProperties
<1>6. Packed(c, r, back, z) # <<>>
  BY <1>1, <1>4, <1>5
<1>7. <<>> \in CellSeq
  BY DEF CellSeq
<1>8. Settled(r.pending, Len(blocks) + 1) \in [since : Nat, pending : CellSeq]
  BY <1>1, <1>7 DEF Settled
<1>9. [com EXCEPT !.pending = r.pending] \in [since : Nat, pending : CellSeq]
  BY <1>1
<1>10. Cut(r) \in SUBSET Faults
  BY DEF Cut, Faults
<1> QED BY <1>4, <1>5, <1>6, <1>8, <1>9, <1>10

LEMMA WritesTyped ==
    ASSUME Typed, WritePlain \/ WriteCompressed \/ PeerWrites
    PROVE  Typed'
<1> DEFINE c == Head(todo)
<1>1. todo # <<>> /\ phase = "open" /\ c \in Chunk /\ <<c.piece>> \in CellSeq
  <2>1. todo # <<>> /\ phase = "open"
    BY DEF WritePlain, WriteCompressed, PeerWrites, Ready
  <2>2. c \in Chunk
    BY <2>1, HeadTailProperties DEF Typed, TypeOK
  <2> QED BY <2>1, <2>2 DEF Chunk, CellSeq
<1>2. /\ com \in [since : Nat, pending : CellSeq] /\ blocks \in Seq(BlockRec)
      /\ faults \in SUBSET Faults /\ Len(blocks) \in Nat
  BY LenProperties DEF Typed, TypeOK, CellSeq
<1>3. CASE WritePlain
  <2>1. Write(c, FALSE, <<c.piece>>) /\ com' = com /\ blocks' = blocks /\ faults' = faults
        /\ ~Leads(c)
    BY <1>3 DEF WritePlain, Leads
  <2>2. phase' = phase
    BY <2>1 DEF Write, handshake
  <2> QED BY <1>1, <1>2, <2>1, <2>2, WriteTyped
<1>4. CASE WriteCompressed
  <2> DEFINE b == Len(blocks) + 1
  <2>1. PICK z \in {p[2] : p \in Packings}, back \in 0 .. Len(blocks) :
            LET r == Compress(b, z, c.size, Capacity(c), com.pending)
            IN /\ Fed(c, b, back, z)
               /\ blocks' = Packed(c, r, back, z)
               /\ com' = Settled(r.pending, b)
               /\ faults' = faults \cup Cut(r)
               /\ IF Len(r.out) < TailLen
                  THEN \/ Write(c, TRUE, r.out)
                       \/ /\ phase' = "panicked"
                          /\ UNCHANGED <<header, conf, writer, config, todo, wire, reader, sent,
                                         calls>>
                  ELSE Write(c, TRUE, SubSeq(r.out, 1, Len(r.out) - TailLen))
    BY <1>4 DEF WriteCompressed
  <2> DEFINE r == Compress(b, z, c.size, Capacity(c), com.pending)
  <2>2. c.via \in {"send", "owned"} /\ <<c.size, z>> \in Packings /\ back \in Nat
    BY <1>2, <1>4, <2>1 DEF WriteCompressed, Compresses, Fed
  <2>3. r.out \in CellSeq /\ r.pending \in CellSeq
    <3>1. z \in Nat /\ c.size \in Nat /\ Capacity(c) \in Nat /\ com.pending \in CellSeq /\ b \in Nat
      BY <1>1, <1>2, <2>2, PackingsAssumption DEF Chunk, Capacity
    <3> QED BY <3>1, CompressType
  <2>4. /\ blocks' = Packed(c, r, back, z) /\ com' = Settled(r.pending, b)
        /\ faults' = faults \cup Cut(r)
        /\ IF Len(r.out) < TailLen
           THEN \/ Write(c, TRUE, r.out)
                \/ /\ phase' = "panicked"
                   /\ UNCHANGED <<header, conf, writer, config, todo, wire, reader, sent, calls>>
           ELSE Write(c, TRUE, SubSeq(r.out, 1, Len(r.out) - TailLen))
    BY <2>1
  <2> HIDE DEF r
  <2>5. /\ blocks' \in Seq(BlockRec) /\ blocks' # <<>> /\ com' \in [since : Nat, pending : CellSeq]
        /\ faults' \in SUBSET Faults
    BY <1>1, <1>2, <2>2, <2>3, <2>4, FedType
  <2>6. ASSUME NEW data \in CellSeq, Write(c, TRUE, data) PROVE Typed'
    <3>1. phase' = phase
      BY <2>6 DEF Write, handshake
    <3> QED BY <1>1, <2>5, <2>6, <3>1, WriteTyped
  <2>7. CASE Len(r.out) >= TailLen /\ Write(c, TRUE, SubSeq(r.out, 1, Len(r.out) - TailLen))
    <3>1. Len(r.out) \in Nat
      BY <2>3, LenProperties DEF CellSeq
    <3>2. Len(r.out) - TailLen \in 0 .. Len(r.out)
      BY <2>7, <3>1 DEF TailLen
    <3>3. SubSeq(r.out, 1, Len(r.out) - TailLen) \in CellSeq
      BY <2>3, <3>2, CutType DEF CellSeq
    <3> QED BY <2>6, <2>7, <3>3
  <2>8. CASE /\ phase' = "panicked"
             /\ UNCHANGED <<header, conf, writer, config, todo, wire, reader, sent, calls>>
    <3>1. InOrder(todo', blocks' # <<>>)
      BY <2>5, <2>8 DEF InOrder
    <3> QED BY <2>5, <2>8, <3>1 DEF Typed, TypeOK, reader, CellSeq
  <2>9. Len(r.out) < TailLen \/ Len(r.out) >= TailLen
    <3>1. Len(r.out) \in Nat
      BY <2>3, LenProperties DEF CellSeq
    <3> QED BY <3>1 DEF TailLen
  <2>10. CASE Len(r.out) < TailLen /\ Write(c, TRUE, r.out)
    BY <2>3, <2>6, <2>10
  <2>11. ~(Len(r.out) < TailLen) => Len(r.out) >= TailLen
    BY <2>9
  <2> QED BY <2>4, <2>7, <2>8, <2>10, <2>11
<1>5. CASE PeerWrites
  <2> DEFINE b == Len(blocks) + 1
  <2>1. c.via = "packed" /\ faults' = faults
    BY <1>5 DEF PeerWrites
  <2>2. CASE c.code = "Continue"
    <3> DEFINE data == From(Block(b - 1, blocks[b - 1].z), 1)
    <3>1. Write(c, TRUE, data) /\ com' = com /\ blocks' = blocks
      BY <1>5, <2>2 DEF PeerWrites
    <3>2. blocks # <<>>
      <4>1. Len(todo) \in Nat \ {0} /\ Head(todo) = todo[1] /\ 1 \in DOMAIN todo
        BY <1>1, EmptySeq, LenProperties DEF Typed, TypeOK
      <4>2. Follows(todo[1])
        BY <2>1, <2>2, <4>1 DEF Follows
      <4>3. \A j \in 1 .. 1 - 1 : FALSE
        OBVIOUS
      <4> QED BY <4>1, <4>2, <4>3 DEF Typed, InOrder
    <3>3. blocks[b - 1].z \in Nat /\ b - 1 \in Nat
      <4>1. Len(blocks) \in 1 .. Len(blocks) /\ b - 1 = Len(blocks)
        BY <1>2, <3>2, EmptySeq
      <4>2. blocks[Len(blocks)] \in BlockRec
        BY <1>2, <4>1, ElementOfSeq
      <4> QED BY <1>2, <4>1, <4>2 DEF BlockRec
    <3>4. data \in CellSeq
      <4> DEFINE k == Block(b - 1, blocks[b - 1].z)
      <4>1. k \in CellSeq
        BY <3>3, BlockType
      <4> HIDE DEF k
      <4>2. Len(k) \in Nat /\ \A i \in 1 .. Len(k) : k[i] \in Nat \X Nat
        BY <4>1, LenProperties, ElementOfSeq DEF CellSeq
      <4>3. SubSeq(k, 1 + 1, Len(k)) \in CellSeq
        BY <4>2, SubSeqProperties DEF CellSeq
      <4> QED BY <4>3 DEF From, k
    <3>5. phase' = phase
      BY <3>1 DEF Write, handshake
    <3> HIDE DEF data
    <3> QED BY <1>1, <1>2, <2>1, <3>1, <3>2, <3>4, <3>5, WriteTyped
  <2>3. CASE c.code # "Continue"
    <3>1. PICK z \in {p[2] : p \in Packings}, back \in 0 .. Len(blocks) :
                 /\ Fed(c, b, back, z)
                 /\ blocks' = Packed(c, com, back, z)
                 /\ com' = Settled(com.pending, b)
                 /\ Write(c, TRUE, SubSeq(Block(b, z), 1, 1))
      BY <1>5, <2>3 DEF PeerWrites
    <3>2. <<c.size, z>> \in Packings /\ back \in Nat /\ b \in Nat
      BY <1>2, <3>1 DEF Fed
    <3>3. z \in Nat /\ z >= 1
      BY <3>2, PackingsAssumption
    <3>4. SubSeq(Block(b, z), 1, 1) \in CellSeq
      <4> DEFINE k == Block(b, z)
      <4>1. k \in CellSeq /\ Len(k) = z
        BY <3>2, <3>3, BlockType
      <4> HIDE DEF k
      <4>2. 1 \in 0 .. Len(k)
        BY <3>3, <4>1
      <4> QED BY <4>1, <4>2, CutType DEF CellSeq, k
    <3>5. com.pending \in CellSeq
      BY <1>2
    <3>6. /\ blocks' \in Seq(BlockRec) /\ blocks' # <<>>
          /\ com' \in [since : Nat, pending : CellSeq]
      BY <1>1, <2>1, <3>1, <3>2, <3>5, FedType
    <3>7. phase' = phase
      BY <3>1 DEF Write, handshake
    <3> QED BY <1>1, <1>2, <2>1, <3>1, <3>4, <3>6, <3>7, WriteTyped
  <2> QED BY <2>2, <2>3
<1> QED BY <1>3, <1>4, <1>5

LEMMA GivenUpTyped ==
    ASSUME Typed, CompressFails \/ SendUnwritten \/ OwnedUnwritten \/ PlainUnwritten
    PROVE  Typed'
<1> DEFINE c == Head(todo)
<1>1. c \in Chunk
  <2>1. todo # <<>>
    BY DEF CompressFails, SendUnwritten, OwnedUnwritten, PlainUnwritten, Unwritten, Ready
  <2> QED BY <2>1, HeadTailProperties DEF Typed, TypeOK
<1>2. /\ com \in [since : Nat, pending : CellSeq] /\ blocks \in Seq(BlockRec)
      /\ faults \in SUBSET Faults /\ Len(blocks) \in Nat
  BY LenProperties DEF Typed, TypeOK, CellSeq
<1>3. todo' = <<>> /\ UNCHANGED <<handshake, wire, reader, sent, calls>>
  BY DEF CompressFails, SendUnwritten, OwnedUnwritten, PlainUnwritten, Unwritten
<1>4. /\ com' \in [since : Nat, pending : CellSeq] /\ blocks' \in Seq(BlockRec)
      /\ faults' \in SUBSET Faults
  <2>1. CASE CompressFails
    <3> DEFINE r == Compress(Len(blocks) + 1, 1, c.size, Capacity(c), com.pending)
    <3>1. com' = [com EXCEPT !.pending = r.pending] /\ blocks' = blocks
          /\ faults' \in {faults, faults \cup {"cut"}}
      BY <2>1 DEF CompressFails
    <3>2. c.size \in Nat /\ Capacity(c) \in Nat /\ com.pending \in CellSeq
          /\ Len(blocks) + 1 \in Nat /\ 1 \in Nat
      BY <1>1, <1>2 DEF Chunk, Capacity
    <3>3. r.pending \in CellSeq
      BY <3>2, CompressType
    <3> HIDE DEF r
    <3> QED BY <1>2, <3>1, <3>3 DEF Faults
  <2>2. ASSUME NEW via \in {"send", "owned"}, Unwritten(via)
        PROVE  /\ com' \in [since : Nat, pending : CellSeq] /\ blocks' \in Seq(BlockRec)
               /\ faults' \in SUBSET Faults
    <3> DEFINE b == Len(blocks) + 1
    <3>1. PICK z \in {p[2] : p \in Packings}, back \in 0 .. Len(blocks) :
            LET r == Compress(b, z, c.size, Capacity(c), com.pending)
            IN /\ Fed(c, b, back, z)
               /\ blocks' = Packed(c, r, back, z)
               /\ com' = IF via = "owned" THEN Settled(r.pending, b)
                         ELSE [com EXCEPT !.pending = r.pending]
      BY <2>2 DEF Unwritten
    <3> DEFINE r == Compress(b, z, c.size, Capacity(c), com.pending)
    <3>2. /\ blocks' = Packed(c, r, back, z)
          /\ com' = IF via = "owned" THEN Settled(r.pending, b)
                    ELSE [com EXCEPT !.pending = r.pending]
          /\ <<c.size, z>> \in Packings /\ back \in Nat /\ c.via \in {"send", "owned"}
          /\ faults' = faults \cup (IF via = "owned" THEN {"unsent"} ELSE {"unsent", "unreset"})
      BY <1>2, <2>2, <3>1 DEF Unwritten, Fed
    <3>3. r.pending \in CellSeq
      <4>1. /\ z \in Nat /\ c.size \in Nat /\ Capacity(c) \in Nat /\ com.pending \in CellSeq
            /\ b \in Nat
        BY <1>1, <1>2, <3>2, PackingsAssumption DEF Chunk, Capacity
      <4> QED BY <4>1, CompressType
    <3> HIDE DEF r
    <3> QED BY <1>1, <1>2, <3>2, <3>3, FedType DEF Faults
  <2>3. CASE PlainUnwritten
    BY <1>2, <2>3 DEF PlainUnwritten
  <2> QED BY <2>1, <2>2, <2>3 DEF CompressFails, SendUnwritten, OwnedUnwritten, PlainUnwritten
<1>5. InOrder(todo', blocks' # <<>>) /\ todo' \in Seq(Chunk)
  BY <1>3 DEF InOrder
<1> QED BY <1>3, <1>4, <1>5 DEF Typed, TypeOK, handshake, reader, CellSeq

-----------------------------------------------------------------------------
(* What receive_one may return. *)

Received == [ok : BOOLEAN, data : CellSeq, de : DeState]

LEMMA InflatedType ==
    ASSUME NEW d \in DeState
    PROVE  Inflated(d) \in DeState
BY DEF Inflated, DeState

LEMMA AstrayType ==
    ASSUME Typed, NEW piece \in Nat \X Nat, NEW status \in {"sync", "lost"}
    PROVE  Astray(piece, status) \in Received
<1> DEFINE d == [status |-> status, since |-> Len(blocks) + 1, next |-> Len(blocks) + 1]
<1>1. Len(blocks) \in Nat
  BY LenProperties DEF Typed, TypeOK
<1>2. d \in DeState
  BY <1>1 DEF DeState
<1>3. Astray(piece, status) = [ok |-> TRUE, data |-> <<piece>>, de |-> Inflated(d)]
  BY DEF Astray
<1> HIDE DEF d
<1>4. Inflated(d) \in DeState /\ <<piece>> \in CellSeq
  BY <1>2, InflatedType DEF CellSeq
<1> QED BY <1>3, <1>4 DEF Received

LEMMA BadType ==
    ASSUME Typed
    PROVE  Bad \in Received
<1>1. [de EXCEPT !.status = "bad"] \in DeState
  BY DEF Typed, TypeOK, DeState
<1>2. <<>> \in CellSeq
  BY DEF CellSeq
<1> QED BY <1>1, <1>2 DEF Bad, Received

LEMMA PieceType ==
    ASSUME Typed, NEW b \in DOMAIN blocks
    PROVE  /\ blocks[b] \in BlockRec /\ blocks[b].piece \in Nat \X Nat /\ b \in Nat
           /\ blocks[b].z \in Nat /\ blocks[b].back \in Nat
<1>1. blocks[b] \in BlockRec /\ b \in Nat
  BY ElementOfSeq, LenProperties DEF Typed, TypeOK
<1> QED BY <1>1 DEF BlockRec

LEMMA GarbledType ==
    ASSUME Typed, NEW f, NEW status \in {"sync", "lost"}
    PROVE  Garbled(f, status) \subseteq Received
<1>1. Junk \in Nat \X Nat
  BY DEF Junk
<1>2. \A b \in DOMAIN blocks : blocks[b].piece \in Nat \X Nat
  BY PieceType
<1> QED BY <1>1, <1>2, BadType, AstrayType DEF Garbled

LEMMA CurtailedType ==
    ASSUME Typed, NEW b \in DOMAIN blocks, NEW missing
    PROVE  Curtailed(b, missing) \subseteq Received
<1>1. Junk \in Nat \X Nat /\ blocks[b].piece \in Nat \X Nat
  BY PieceType DEF Junk
<1> QED BY <1>1, AstrayType DEF Curtailed

LEMMA InflateType ==
    ASSUME Typed, NEW f
    PROVE  Inflate(f) \subseteq Received
<1> DEFINE whole == {b \in DOMAIN blocks : Whole(f, b)}
           begun == {b \in DOMAIN blocks : Begun(f, b) /\ Known(b)}
           read(b) == [ok |-> TRUE, data |-> <<blocks[b].piece>>,
                       de |-> Inflated([status |-> "sync", since |-> Since(b), next |-> b + 1])]
           wholes == UNION {IF Known(b) THEN {read(b)} ELSE Garbled(f, "sync") : b \in whole}
           beguns == UNION {Curtailed(b, blocks[b].z - Len(f.data)) : b \in begun}
<1>1. ASSUME NEW b \in DOMAIN blocks PROVE read(b) \in Received
  <2> DEFINE d == [status |-> "sync", since |-> Since(b), next |-> b + 1]
  <2>1. blocks[b].piece \in Nat \X Nat /\ b \in Nat
    BY PieceType
  <2>2. Since(b) \in Nat
    BY <2>1 DEF Since, Typed, TypeOK
  <2>3. d \in DeState /\ <<blocks[b].piece>> \in CellSeq
    BY <2>1, <2>2 DEF DeState, CellSeq
  <2> HIDE DEF d
  <2>4. Inflated(d) \in DeState
    BY <2>3, InflatedType
  <2>5. [ok |-> TRUE, data |-> <<blocks[b].piece>>, de |-> Inflated(d)] \in Received
    BY <2>3, <2>4 DEF Received
  <2> QED BY <2>5 DEF d
<1>2. Inflate(f) = CASE de.status = "bad"                  -> {Bad}
                     [] de.status = "lost"                 -> Garbled(f, "lost")
                     [] de.status = "sync" /\ whole # {}   -> wholes
                     [] OTHER -> IF begun = {} THEN Garbled(f, "lost") ELSE beguns
  BY DEF Inflate
<1> HIDE DEF read
<1>3. wholes \subseteq Received
  BY <1>1, GarbledType
<1>4. beguns \subseteq Received
  BY CurtailedType
<1> HIDE DEF whole, begun, wholes, beguns
<1>5. Garbled(f, "lost") \subseteq Received /\ {Bad} \subseteq Received
  BY BadType, GarbledType
<1>6. de.status \in {"sync", "lost", "bad"}
  BY DEF Typed, TypeOK
<1> QED BY <1>2, <1>3, <1>4, <1>5, <1>6

LEMMA ReturnedType ==
    ASSUME Typed, NEW ok, NEW r \in Returned(ok)
    PROVE  /\ r \in Received /\ r.data \in CellSeq /\ r.de \in DeState
           /\ wire \in Frame /\ r \in ReceiveOne(wire) /\ ~LowError(wire) /\ r.ok = ok
<1>1. wire \in Frame /\ r \in ReceiveOne(wire) /\ ~LowError(wire) /\ r.ok = ok
  BY DEF Returned, Typed, TypeOK
<1>2. de \in DeState /\ wire.data \in CellSeq /\ <<Junk>> \in CellSeq /\ <<>> \in CellSeq
  BY <1>1 DEF Typed, TypeOK, DeState, Frame, CellSeq, Junk
<1>3. ReceiveOne(wire) \subseteq Received
  <2> DEFINE x == IF wire.cells THEN <<Junk>> ELSE wire.data
  <2>1. x \in CellSeq
    BY <1>2
  <2> HIDE DEF x
  <2>2. [ok |-> FALSE, data |-> <<>>, de |-> de] \in Received
    BY <1>2 DEF Received
  <2>3. [ok |-> TRUE, data |-> x, de |-> de] \in Received
    BY <1>2, <2>1 DEF Received
  <2>4. Inflate(wire) \subseteq Received
    BY InflateType
  <2>5. \/ ReceiveOne(wire) = {[ok |-> FALSE, data |-> <<>>, de |-> de]}
        \/ ReceiveOne(wire) = Inflate(wire)
        \/ ReceiveOne(wire) = {[ok |-> TRUE, data |-> x, de |-> de]}
    BY DEF ReceiveOne, x
  <2> QED BY <2>2, <2>3, <2>4, <2>5
<1>4. r \in Received
  BY <1>1, <1>3
<1> QED BY <1>1, <1>4 DEF Received

\* Every turn of receive.
LEMMA ReadTyped ==
    ASSUME Typed, Take, got' \in Seq(Result), de' \in DeState,
           up' \in [fragmented : BOOLEAN, type : Data, data : CellSeq]
    PROVE  Typed'
<1>1. wire \in Frame /\ low' \in BOOLEAN
  BY DEF Take, Typed, TypeOK, LowAfter, Frame
<1>2. wire' = NoFrame /\ UNCHANGED <<handshake, com, blocks, todo, sent, faults, calls>>
  BY DEF Take
<1>3. InOrder(todo, blocks # <<>>)' /\ (phase' = "answered" => ~ParseError(header'))
  BY <1>2 DEF Typed, InOrder, handshake
<1> QED BY <1>1, <1>2, <1>3 DEF Typed, TypeOK, handshake, DeState, CellSeq

LEMMA AppendResult ==
    ASSUME got \in Seq(Result), NEW f, f.code \in Codes, f.fin \in BOOLEAN, NEW data \in CellSeq
    PROVE  /\ Return(f, data) => got' \in Seq(Result)
           /\ Fail => got' \in Seq(Result)
<1>1. [code |-> f.code, fin |-> f.fin, body |-> data] \in Result
  BY DEF Result, CellSeq
<1>2. Error \in Result
  BY ErrorType
<1>3. \A r \in Result : Append(got, r) \in Seq(Result)
  BY AppendProperties
<1> QED BY <1>1, <1>2, <1>3 DEF Return, Fail

LEMMA ReadsTyped ==
    ASSUME Typed,
           \/ LowRejects \/ InflateFails \/ PassFrame \/ PassControl
           \/ MergeRejects \/ MergeStart \/ MergeWhole \/ MergeContinue
    PROVE  Typed'
<1> DEFINE Up == [fragmented : BOOLEAN, type : Data, data : CellSeq]
<1>1. /\ got \in Seq(Result) /\ de \in DeState /\ up \in Up /\ wire \in Frame
      /\ wire.code \in Codes /\ wire.fin \in BOOLEAN /\ Take
  <2>1. Take
    BY DEF LowRejects, InflateFails, PassFrame, PassControl, MergeRejects, MergeStart, MergeWhole,
           MergeContinue
  <2>2. wire \in Frame
    BY <2>1 DEF Take, Typed, TypeOK
  <2> QED BY <2>1, <2>2 DEF Typed, TypeOK, DeState, CellSeq, Frame
<1>2. Fail => got' \in Seq(Result)
  <2>1. <<>> \in CellSeq
    BY DEF CellSeq
  <2> QED BY <1>1, <2>1, AppendResult
<1>3. \A data \in CellSeq : Return(wire, data) => got' \in Seq(Result)
  BY <1>1, AppendResult
<1>4. \A data \in CellSeq, code \in Data :
          /\ [up EXCEPT !.data = data] \in Up
          /\ [fragmented |-> TRUE, type |-> code, data |-> data] \in Up
          /\ [up EXCEPT !.fragmented = TRUE, !.type = code] \in Up
          /\ [up EXCEPT !.data = data, !.fragmented = ~wire.fin] \in Up
  BY <1>1
<1> HIDE DEF Up
<1>5. CASE LowRejects
  BY <1>1, <1>2, <1>5, ReadTyped DEF LowRejects, Up
<1>6. CASE InflateFails
  <2>1. PICK r \in Returned(FALSE) : de' = r.de
    BY <1>6 DEF InflateFails
  <2>2. Fail /\ up' = up
    BY <1>6 DEF InflateFails
  <2> QED BY <1>1, <1>2, <2>1, <2>2, ReturnedType, ReadTyped DEF Up
<1>7. CASE PassFrame
  <2>1. PICK r \in Returned(TRUE) :
            de' = r.de /\ up' = [up EXCEPT !.data = r.data] /\ Return(wire, r.data)
    BY <1>7 DEF PassFrame
  <2>2. r.data \in CellSeq /\ r.de \in DeState
    BY ReturnedType
  <2>3. up' \in Up
    BY <1>4, <2>1, <2>2 DEF Data
  <2> QED BY <1>1, <1>3, <2>1, <2>2, <2>3, ReadTyped DEF Up
<1>8. CASE PassControl
  <2>1. PICK r \in Returned(TRUE) : de' = r.de /\ up' = up /\ Return(wire, r.data)
    BY <1>8 DEF PassControl
  <2>2. r.data \in CellSeq /\ r.de \in DeState
    BY ReturnedType
  <2> QED BY <1>1, <1>3, <2>1, <2>2, ReadTyped DEF Up
<1>9. CASE MergeRejects
  <2>1. PICK r \in Returned(TRUE) :
            /\ de' = r.de /\ Fail
            /\ \/ up' = up
               \/ wire.code \in Data /\ up' = [up EXCEPT !.fragmented = TRUE, !.type = wire.code]
    BY <1>9 DEF MergeRejects
  <2>2. r.data \in CellSeq /\ r.de \in DeState
    BY ReturnedType
  <2>3. up' \in Up
    BY <1>1, <1>4, <2>1, <2>2
  <2> QED BY <1>1, <1>2, <2>1, <2>2, <2>3, ReadTyped DEF Up
<1>10. CASE MergeStart
  <2>1. PICK r \in Returned(TRUE) :
            /\ de' = r.de /\ got' = got
            /\ wire.code \in Data
            /\ up' = [fragmented |-> TRUE, type |-> wire.code, data |-> r.data]
    BY <1>10 DEF MergeStart
  <2>2. r.data \in CellSeq /\ r.de \in DeState
    BY ReturnedType
  <2>3. up' \in Up
    BY <1>4, <2>1, <2>2
  <2> QED BY <1>1, <2>1, <2>2, <2>3, ReadTyped DEF Up
<1>11. CASE MergeWhole
  <2>1. PICK r \in Returned(TRUE) :
            de' = r.de /\ up' = [up EXCEPT !.data = r.data] /\ Return(wire, r.data)
    BY <1>11 DEF MergeWhole
  <2>2. r.data \in CellSeq /\ r.de \in DeState
    BY ReturnedType
  <2>3. up' \in Up
    BY <1>4, <2>1, <2>2 DEF Data
  <2> QED BY <1>1, <1>3, <2>1, <2>2, <2>3, ReadTyped DEF Up
<1>12. CASE MergeContinue
  <2>1. PICK r \in Returned(TRUE) :
            /\ de' = r.de
            /\ up' = [up EXCEPT !.data = up.data \o r.data, !.fragmented = ~wire.fin]
            /\ \/ got' = got
               \/ Return([wire EXCEPT !.code = up.type], up'.data)
    BY <1>12 DEF MergeContinue
  <2>2. r.data \in CellSeq /\ r.de \in DeState
    BY ReturnedType
  <2>3. up.data \in CellSeq /\ up.type \in Data
    BY <1>1 DEF Up
  <2>4. up.data \o r.data \in CellSeq
    BY <2>2, <2>3, ConcatProperties DEF CellSeq
  <2>5. up' \in Up /\ up'.data \in CellSeq
    <3>1. up' \in Up
      BY <1>4, <2>1, <2>3, <2>4
    <3> QED BY <3>1 DEF Up
  <2>6. got' \in Seq(Result)
    <3> DEFINE f == [wire EXCEPT !.code = up.type]
    <3>1. f.code \in Codes /\ f.fin \in BOOLEAN
      BY <1>1, <2>3 DEF Frame, Codes
    <3> HIDE DEF f
    <3>2. Return(f, up'.data) => got' \in Seq(Result)
      BY <1>1, <2>5, <3>1, AppendResult
    <3> QED BY <1>1, <2>1, <3>2 DEF f
  <2> QED BY <1>1, <2>1, <2>2, <2>5, <2>6, ReadTyped DEF Up
<1> QED BY <1>5, <1>6, <1>7, <1>8, <1>9, <1>10, <1>11, <1>12

LEMMA TypedInductive == Typed /\ [Next]_vars => Typed'
<1> SUFFICES ASSUME Typed, [Next]_vars PROVE Typed'
  OBVIOUS
<1>1. CASE UNCHANGED vars
  BY <1>1 DEF vars, handshake, reader, Typed, TypeOK, InOrder
<1> QED BY <1>1, HandshakeTyped, CallsTyped, WritesTyped, GivenUpTyped, ReadsTyped DEF Next

(* Types: above all, the loop of compress never writes behind its output, and a
   packed continuation always has a block to end. *)
THEOREM DeflateTypes == Spec => []TypeOK
<1>1. Typed => TypeOK
  BY DEF Typed
<1> QED BY <1>1, InitTyped, TypedInductive, PTL DEF Spec

-----------------------------------------------------------------------------
(* A compressor that holds nothing back: what compress makes of a chunk. *)

\* The capacity of the output when the block is flushed into it.
Room(n, cap) == Turn(Begin(n, cap, <<>>), n).cap

LEMMA LoopOfNothing ==
    ASSUME NEW n \in Nat, NEW cap \in Nat
    PROVE  LET s == Loop(n, cap, <<>>)
           IN /\ s.cap = Room(n, cap) /\ s.cap \in Nat
              /\ s.out = <<>> /\ s.pending = <<>> /\ s.eaten = (s.cap > 0)
<1> DEFINE start == Begin(n, cap, <<>>)
           s == Turn(start, n)
<1>1. <<>> \in CellSeq /\ Len(<<>>) = 0
  BY DEF CellSeq
<1>2. PICK f \in [Nat -> TurnStates] :
          /\ f[0] = start
          /\ \A k \in Nat : f[k + 1] = IF f[k].eaten \/ f[k].err THEN f[k] ELSE Turn(f[k], n)
          /\ Loop(n, cap, <<>>) = f[Len(<<>>) + 1]
  BY <1>1, LoopTurns
<1>3. /\ start.out = <<>> /\ start.pending = <<>> /\ ~start.eaten /\ ~start.err
      /\ start \in TurnStates
  BY <1>1, BeginType DEF Begin
<1> HIDE DEF start
<1>4. Loop(n, cap, <<>>) = s
  <2>1. Loop(n, cap, <<>>) = f[0 + 1]
    BY <1>1, <1>2
  <2>2. f[0 + 1] = IF f[0].eaten \/ f[0].err THEN f[0] ELSE Turn(f[0], n)
    BY <1>2
  <2> QED BY <1>2, <1>3, <2>1, <2>2
<1>5. s \in TurnStates
  BY <1>3, TurnType
<1>6. s.cap \in Nat
  BY <1>5 DEF TurnStates
<1> DEFINE len == IF start.cap <= start.len THEN start.len + 2 * n ELSE start.len
           given == Least(Grown(start.cap, len) - Len(start.out), Len(start.pending))
<1>7. /\ s.cap = Grown(start.cap, len)
      /\ s.out = start.out \o SubSeq(start.pending, 1, given)
      /\ s.pending = From(start.pending, given)
      /\ s.eaten = (Len(start.pending) < s.cap - Len(start.out)
                    \/ (s.cap - Len(start.out) > 0 /\ n = 0))
  BY DEF Turn
<1>8. given = 0
  <2>1. Grown(start.cap, len) - Len(start.out) \in Nat
    BY <1>1, <1>3, <1>6, <1>7
  <2>2. Len(start.pending) = 0
    BY <1>1, <1>3
  <2> HIDE DEF len
  <2> QED BY <2>1, <2>2 DEF Least
<1> HIDE DEF given, len, s
<1>9. SubSeq(<<>>, 1, 0) = <<>> /\ From(<<>>, 0) = <<>>
  BY DEF From
<1>10. <<>> \o <<>> = <<>>
  BY <1>1, ConcatEmptySeq DEF CellSeq
<1>11. s.out = <<>> /\ s.pending = <<>>
  BY <1>3, <1>7, <1>8, <1>9, <1>10
<1>12. s.eaten = (s.cap > 0)
  BY <1>1, <1>3, <1>6, <1>7
<1> QED BY <1>4, <1>6, <1>11, <1>12 DEF Room, s, start

\* Block b of z bytes flushed into so much room.
IntoRoom(r, b, z, room) ==
    /\ r.ok = (room > 0)
    /\ ~r.ok => r.pending = <<>>
    /\ r.ok => /\ r.out = SubSeq(Flushed(b, z), 1, Least(room, z + TailLen))
               /\ r.pending = From(Flushed(b, z), Least(room, z + TailLen))

LEMMA FreshCompress ==
    ASSUME NEW b \in Nat, NEW z \in Nat, NEW n \in Nat, NEW cap \in Nat
    PROVE  Room(n, cap) \in Nat /\ IntoRoom(Compress(b, z, n, cap, <<>>), b, z, Room(n, cap))
<1> DEFINE s == Loop(n, cap, <<>>)
           given == Least(Room(n, cap), z + TailLen)
           out == SubSeq(Flushed(b, z), 1, given)
           left == From(Flushed(b, z), given)
           r == Compress(b, z, n, cap, <<>>)
<1>1. /\ s.cap = Room(n, cap) /\ s.cap \in Nat
      /\ s.out = <<>> /\ s.pending = <<>> /\ s.eaten = (s.cap > 0)
  BY LoopOfNothing
<1> HIDE DEF s
<1>2. s.cap - Len(s.out) = Room(n, cap) /\ Room(n, cap) \in Nat
  <2>1. Len(<<>>) = 0
    OBVIOUS
  <2> QED BY <1>1, <2>1
<1>3. Compress(b, z, n, cap, <<>>) =
          IF s.eaten
          THEN [ok |-> TRUE, eaten |-> TRUE, out |-> s.out \o out, pending |-> s.pending \o left]
          ELSE [ok |-> FALSE, eaten |-> FALSE, out |-> s.out, pending |-> s.pending]
  BY <1>2 DEF Compress, s
<1>4. out \in CellSeq /\ left \in CellSeq
  <2>1. Flushed(b, z) \in CellSeq /\ Len(Flushed(b, z)) = z + TailLen
    BY BlockType DEF Flushed, TailLen
  <2>2. given \in 0 .. z + TailLen
    BY <1>2 DEF Least, TailLen
  <2> HIDE DEF given
  <2> QED BY <2>1, <2>2, CutType DEF CellSeq
<1> HIDE DEF out, left
<1>5. s.out \o out = out /\ s.pending \o left = left
  BY <1>1, <1>4, ConcatEmptySeq DEF CellSeq
<1>6. CASE s.cap > 0
  <2>1. Compress(b, z, n, cap, <<>>) = [ok |-> TRUE, eaten |-> TRUE, out |-> out, pending |-> left]
    BY <1>1, <1>3, <1>5, <1>6
  <2>2. r.ok = TRUE /\ r.out = out /\ r.pending = left
    BY <2>1
  <2>3. (Room(n, cap) > 0) = TRUE
    BY <1>1, <1>6
  <2> HIDE DEF r
  <2> QED BY <1>2, <2>2, <2>3 DEF out, left, r, IntoRoom
<1>7. CASE ~(s.cap > 0)
  <2>1. Compress(b, z, n, cap, <<>>) =
            [ok |-> FALSE, eaten |-> FALSE, out |-> <<>>, pending |-> <<>>]
    BY <1>1, <1>3, <1>7
  <2>2. r.ok = FALSE /\ r.pending = <<>>
    BY <2>1
  <2>3. (Room(n, cap) > 0) = FALSE
    BY <1>1, <1>7
  <2> HIDE DEF r
  <2> QED BY <1>2, <2>2, <2>3 DEF r, IntoRoom
<1> QED BY <1>6, <1>7

(* compress makes eight bytes of room for a chunk of at most four bytes, and more
   than the block can take for a longer one. *)
LEMMA RoomOfSend ==
    ASSUME NEW n \in Nat \ {0}
    PROVE  /\ n <= 4 => Room(n, 0) = 8
           /\ n > 4 => Room(n, 0) = 4 * n + 8
<1>1. n <= 4 => Begin(n, 0, <<>>).cap = 0 /\ Begin(n, 0, <<>>).len = 0
  BY DEF Begin, Grown, Greatest
<1>2. n > 4 => Begin(n, 0, <<>>).cap = 2 * n + 4 /\ Begin(n, 0, <<>>).len = 2 * n + 4
  BY DEF Begin, Grown, Greatest
<1>3. \A s : Turn(s, n).cap = Grown(s.cap, IF s.cap <= s.len THEN s.len + 2 * n ELSE s.len)
  BY DEF Turn
<1>4. n <= 4 => Room(n, 0) = 8
  BY <1>1, <1>3 DEF Room, Grown, Greatest
<1>5. n > 4 => Room(n, 0) = 4 * n + 8
  BY <1>2, <1>3 DEF Room, Grown, Greatest
<1> QED BY <1>4, <1>5

\* Nothing is kept of a block that fits.
LEMMA WholeIfRoom ==
    ASSUME NEW b \in Nat, NEW z \in Nat, NEW room \in Nat
    PROVE  /\ From(Flushed(b, z), Least(room, z + TailLen)) = <<>> <=> room >= z + TailLen
           /\ room >= z + TailLen =>
                  SubSeq(Flushed(b, z), 1, Least(room, z + TailLen)) = Flushed(b, z)
<1> DEFINE f == Flushed(b, z)
           given == Least(room, z + TailLen)
<1>1. f \in CellSeq /\ Len(f) = z + TailLen
  BY BlockType DEF Flushed, TailLen
<1>2. given \in 0 .. z + TailLen /\ (given = z + TailLen <=> room >= z + TailLen)
  BY DEF Least, TailLen
<1> HIDE DEF f, given
<1>3. From(f, given) \in CellSeq /\ Len(From(f, given)) = Len(f) - given
  <2>1. given \in 0 .. Len(f)
    BY <1>1, <1>2
  <2> QED BY <1>1, <2>1, CutType DEF CellSeq
<1>4. From(f, given) = <<>> <=> given = z + TailLen
  <2>1. From(f, given) = <<>> <=> Len(From(f, given)) = 0
    BY <1>3, EmptySeq DEF CellSeq
  <2> QED BY <1>1, <1>2, <1>3, <2>1 DEF TailLen
<1>5. SubSeq(f, 1, Len(f)) = f
  BY <1>1, SubSeqFull DEF CellSeq
<1> QED BY <1>1, <1>2, <1>4, <1>5 DEF f, given

-----------------------------------------------------------------------------
(* The first block send cuts. *)

AllWhole == \A b \in DOMAIN blocks : blocks[b].whole

\* zlib holds nothing back as long as every block was given out and written.
FirstCut ==
    /\ "unsent" \notin faults /\ AllWhole => com.pending = <<>>
    /\ FirstCutIsSmall

LEMMA CutOfSend ==
    ASSUME NEW b \in Nat, NEW n, NEW z, <<n, z>> \in Packings,
           Compress(b, z, n, 0, <<>>).ok, Compress(b, z, n, 0, <<>>).pending # <<>>
    PROVE  n \in {3, 4}
<1>1. /\ n \in Nat \ {0} /\ z \in Nat \ {0}
      /\ 8 * z <= 9 * n + 20 \/ (n > 20 /\ z <= n + 6)
  BY PackingsAssumption
<1>2. Room(n, 0) \in Nat /\ From(Flushed(b, z), Least(Room(n, 0), z + TailLen)) # <<>>
  <2>1. n \in Nat /\ z \in Nat /\ 0 \in Nat
    BY <1>1
  <2>2. Room(n, 0) \in Nat /\ IntoRoom(Compress(b, z, n, 0, <<>>), b, z, Room(n, 0))
    BY <2>1, FreshCompress
  <2> QED BY <2>2 DEF IntoRoom
<1>3. ~(Room(n, 0) >= z + TailLen)
  BY <1>1, <1>2, WholeIfRoom
<1>4. n <= 4 => z > 4
  BY <1>1, <1>3, RoomOfSend DEF TailLen
<1>5. n > 4 => z > 4 * n + 4
  BY <1>1, <1>3, RoomOfSend DEF TailLen
<1> QED BY <1>1, <1>4, <1>5

\* The history with one more block.
LEMMA PackedIs ==
    ASSUME Typed, NEW c \in Chunk, c.via # "plain", NEW z, NEW back \in Nat,
           <<c.size, z>> \in Packings, NEW r, r.pending \in CellSeq
    PROVE  LET p == Packed(c, r, back, z)
           IN /\ p \in Seq(BlockRec) /\ Len(p) = Len(blocks) + 1 /\ Len(blocks) \in Nat
              /\ DOMAIN p = 1 .. Len(blocks) + 1 /\ DOMAIN blocks = 1 .. Len(blocks)
              /\ \A i \in 1 .. Len(blocks) : p[i] = blocks[i]
              /\ p[Len(blocks) + 1].piece = c.piece /\ p[Len(blocks) + 1].size = c.size
              /\ p[Len(blocks) + 1].back = back /\ p[Len(blocks) + 1].z = z
              /\ p[Len(blocks) + 1].via = c.via
              /\ p[Len(blocks) + 1].whole <=> r.pending = <<>>
<1> DEFINE w == (r.pending = <<>>)
           rec == [piece |-> c.piece, size |-> c.size, back |-> back, z |-> z,
                   whole |-> w, via |-> c.via]
<1>1. Len(blocks) \in Nat /\ blocks \in Seq(BlockRec)
  BY LenProperties DEF Typed, TypeOK
<1>2. z \in Nat /\ c.size \in Nat /\ c.piece \in Nat \X Nat /\ c.via \in {"send", "owned", "packed"}
  BY PackingsAssumption DEF Chunk
<1>3. rec \in BlockRec
  <2>1. w \in BOOLEAN
    OBVIOUS
  <2> HIDE DEF w
  <2> QED BY <1>2, <2>1 DEF BlockRec
<1>4. Packed(c, r, back, z) = Append(blocks, rec)
  BY DEF Packed
<1>7. /\ rec.piece = c.piece /\ rec.size = c.size /\ rec.back = back /\ rec.z = z
      /\ rec.via = c.via /\ rec.whole = w
  OBVIOUS
<1> HIDE DEF rec
<1>5. /\ Append(blocks, rec) \in Seq(BlockRec) /\ Len(Append(blocks, rec)) = Len(blocks) + 1
      /\ \A i \in 1 .. Len(blocks) : Append(blocks, rec)[i] = blocks[i]
      /\ Append(blocks, rec)[Len(blocks) + 1] = rec
  BY <1>1, <1>3, AppendProperties
<1>6. DOMAIN Append(blocks, rec) = 1 .. Len(blocks) + 1 /\ DOMAIN blocks = 1 .. Len(blocks)
  BY <1>1, <1>5
<1>8. rec.whole <=> r.pending = <<>>
  BY <1>7
<1> HIDE DEF w
<1> QED BY <1>1, <1>4, <1>5, <1>6, <1>7, <1>8

LEMMA FirstCutPacked ==
    ASSUME Typed, FirstCut, NEW c \in Chunk, c.via # "plain", NEW z, NEW back \in Nat,
           <<c.size, z>> \in Packings, NEW r, r.pending \in CellSeq,
           blocks' = Packed(c, r, back, z), faults \subseteq faults',
           com.pending = <<>> /\ r.pending = <<>> => com'.pending = <<>>,
           com.pending = <<>> /\ c.via = "send" /\ r.pending # <<>> => c.size \in {3, 4}
    PROVE  FirstCut'
<1> DEFINE n == Len(blocks)
<1>1. /\ n \in Nat /\ DOMAIN blocks' = 1 .. n + 1 /\ DOMAIN blocks = 1 .. n
      /\ \A i \in 1 .. n : blocks'[i] = blocks[i]
      /\ (blocks'[n + 1].whole <=> r.pending = <<>>) /\ blocks'[n + 1].via = c.via
      /\ blocks'[n + 1].size = c.size
  <2> DEFINE p == Packed(c, r, back, z)
  <2>1. LET q == Packed(c, r, back, z)
        IN /\ q \in Seq(BlockRec) /\ Len(q) = Len(blocks) + 1 /\ Len(blocks) \in Nat
           /\ DOMAIN q = 1 .. Len(blocks) + 1 /\ DOMAIN blocks = 1 .. Len(blocks)
           /\ \A i \in 1 .. Len(blocks) : q[i] = blocks[i]
           /\ q[Len(blocks) + 1].piece = c.piece /\ q[Len(blocks) + 1].size = c.size
           /\ q[Len(blocks) + 1].back = back /\ q[Len(blocks) + 1].z = z
           /\ q[Len(blocks) + 1].via = c.via
           /\ q[Len(blocks) + 1].whole <=> r.pending = <<>>
    BY PackedIs
  <2>2. /\ n \in Nat /\ DOMAIN p = 1 .. n + 1 /\ DOMAIN blocks = 1 .. n
        /\ \A i \in 1 .. n : p[i] = blocks[i]
        /\ p[n + 1].via = c.via /\ p[n + 1].size = c.size
        /\ p[n + 1].whole <=> r.pending = <<>>
    BY <2>1
  <2> HIDE DEF p, n
  <2>3. blocks' = p
    BY DEF p
  <2> QED BY <2>2, <2>3
<1> HIDE DEF n
<1>2. "unsent" \notin faults' => "unsent" \notin faults
  OBVIOUS
<1>3. ASSUME "unsent" \notin faults', AllWhole' PROVE com'.pending = <<>>
  <2>1. AllWhole /\ r.pending = <<>>
    BY <1>1, <1>3 DEF AllWhole
  <2> QED BY <1>2, <1>3, <2>1 DEF FirstCut
<1>4. ASSUME NEW b \in DOMAIN blocks', blocks'[b].via = "send", ~blocks'[b].whole,
             \A a \in 1 .. b - 1 : blocks'[a].whole, "unsent" \notin faults'
      PROVE  blocks'[b].size \in {3, 4}
  <2>1. CASE b = n + 1
    <3>1. AllWhole
      BY <1>1, <1>4, <2>1 DEF AllWhole
    <3>2. com.pending = <<>>
      BY <1>2, <1>4, <3>1 DEF FirstCut
    <3> QED BY <1>1, <1>4, <2>1, <3>2
  <2>2. CASE b \in 1 .. n
    <3>1. blocks'[b] = blocks[b] /\ b \in DOMAIN blocks
      BY <1>1, <2>2
    <3>2. \A a \in 1 .. b - 1 : blocks[a].whole
      BY <1>1, <1>4, <2>2
    <3> QED BY <1>2, <1>4, <3>1, <3>2 DEF FirstCut, FirstCutIsSmall
  <2> QED BY <1>1, <1>4, <2>1, <2>2
<1> QED BY <1>3, <1>4 DEF FirstCut, FirstCutIsSmall

\* What compress gets and gives for the chunk at hand.
LEMMA CompressedChunk ==
    ASSUME Typed, todo # <<>>, Compresses(Head(todo)), NEW z, NEW back \in 0 .. Len(blocks),
           Fed(Head(todo), Len(blocks) + 1, back, z)
    PROVE  LET c == Head(todo)
               r == Compress(Len(blocks) + 1, z, c.size, Capacity(c), com.pending)
           IN /\ c \in Chunk /\ c.via \in {"send", "owned"} /\ c.size \in Nat
              /\ Capacity(c) \in Nat /\ Len(blocks) \in Nat /\ z \in Nat \ {0}
              /\ <<c.size, z>> \in Packings /\ back \in Nat
              /\ r.out \in CellSeq /\ r.pending \in CellSeq
<1> DEFINE c == Head(todo)
<1>1. c \in Chunk
  BY HeadTailProperties DEF Typed, TypeOK
<1>2. c.via \in {"send", "owned"} /\ c.size \in Nat /\ <<c.size, z>> \in Packings
  BY <1>1 DEF Compresses, Fed, Chunk
<1>3. /\ com.pending \in CellSeq /\ Len(blocks) \in Nat /\ Capacity(c) \in Nat
      /\ z \in Nat \ {0} /\ back \in Nat
  BY <1>2, PackingsAssumption, LenProperties DEF Typed, TypeOK, CellSeq, Capacity
<1>4. Len(blocks) + 1 \in Nat /\ z \in Nat
  BY <1>3
<1> QED BY <1>1, <1>2, <1>3, <1>4, CompressType

LEMMA FirstCutInductive ==
    /\ Init => FirstCut
    /\ Typed /\ FirstCut /\ [Next]_vars => FirstCut'
<1>1. Init => FirstCut
  BY DEF Init, FirstCut, FirstCutIsSmall
<1>2. ASSUME Typed, FirstCut, [Next]_vars PROVE FirstCut'
  <2> DEFINE c == Head(todo)
             n == Len(blocks)
  <2>1. CASE UNCHANGED <<blocks, com>> /\ faults \subseteq faults'
    BY <1>2, <2>1 DEF FirstCut, FirstCutIsSmall, AllWhole
  <2>2. CASE WriteCompressed
    <3>1. PICK z \in {p[2] : p \in Packings}, back \in 0 .. n :
              LET r == Compress(n + 1, z, c.size, Capacity(c), com.pending)
              IN /\ Fed(c, n + 1, back, z)
                 /\ r.ok
                 /\ blocks' = Packed(c, r, back, z)
                 /\ com' = Settled(r.pending, n + 1)
                 /\ faults' = faults \cup Cut(r)
      BY <2>2 DEF WriteCompressed
    <3> DEFINE r == Compress(n + 1, z, c.size, Capacity(c), com.pending)
    <3>2. /\ c \in Chunk /\ c.via \in {"send", "owned"} /\ <<c.size, z>> \in Packings
          /\ n \in Nat /\ back \in Nat /\ r.pending \in CellSeq
      BY <1>2, <2>2, <3>1, CompressedChunk DEF WriteCompressed, Ready
    <3>3. r.pending = <<>> => com'.pending = <<>>
      BY <3>1 DEF Settled
    <3>4. com.pending = <<>> /\ c.via = "send" /\ r.pending # <<>> => c.size \in {3, 4}
      <4>1. c.via = "send" => Capacity(c) = 0
        BY DEF Capacity
      <4>2. n + 1 \in Nat
        BY <3>2
      <4> QED BY <3>1, <3>2, <4>1, <4>2, CutOfSend
    <3>5. blocks' = Packed(c, r, back, z) /\ faults \subseteq faults'
      BY <3>1
    <3> HIDE DEF r, n, c
    <3> QED BY <1>2, <3>2, <3>3, <3>4, <3>5, FirstCutPacked
  <2>3. CASE CompressFails
    <3> DEFINE r == Compress(n + 1, 1, c.size, Capacity(c), com.pending)
    <3>1. /\ blocks' = blocks /\ com' = [com EXCEPT !.pending = r.pending] /\ ~r.ok
          /\ faults \subseteq faults' /\ todo # <<>> /\ c.via \in {"send", "owned"}
      BY <2>3 DEF CompressFails, Ready, Compresses
    <3>2. com.pending = <<>> => r.pending = <<>>
      <4>1. c \in Chunk
        BY <1>2, <3>1, HeadTailProperties DEF Typed, TypeOK
      <4>2. n + 1 \in Nat /\ c.size \in Nat /\ Capacity(c) \in Nat /\ 1 \in Nat
        <5>1. c.size \in Nat /\ Capacity(c) \in Nat
          BY <4>1 DEF Chunk, Capacity
        <5>2. n \in Nat
          BY <1>2, LenProperties DEF Typed, TypeOK
        <5> QED BY <5>1, <5>2
      <4> HIDE DEF n, c
      <4>3. IntoRoom(Compress(n + 1, 1, c.size, Capacity(c), <<>>), n + 1, 1,
                     Room(c.size, Capacity(c)))
        BY <4>2, FreshCompress
      <4> QED BY <3>1, <4>3 DEF IntoRoom
    <3>3. com'.pending = r.pending
      BY <1>2, <3>1 DEF Typed, TypeOK
    <3> HIDE DEF r
    <3> QED BY <1>2, <3>1, <3>2, <3>3 DEF FirstCut, FirstCutIsSmall, AllWhole
  <2>4. CASE SendUnwritten \/ OwnedUnwritten
    <3>1. "unsent" \in faults'
      BY <2>4 DEF SendUnwritten, OwnedUnwritten, Unwritten
    <3> QED BY <3>1 DEF FirstCut, FirstCutIsSmall
  <2>5. CASE PeerWrites
    <3>1. CASE c.code = "Continue"
      BY <2>1, <2>5, <3>1 DEF PeerWrites
    <3>2. CASE c.code # "Continue"
      <4>1. PICK z \in {p[2] : p \in Packings}, back \in 0 .. n :
                 /\ Fed(c, n + 1, back, z)
                 /\ blocks' = Packed(c, com, back, z)
                 /\ com' = Settled(com.pending, n + 1)
        BY <2>5, <3>2 DEF PeerWrites
      <4>2. c \in Chunk
        BY <1>2, <2>5, HeadTailProperties DEF Typed, TypeOK, PeerWrites, Ready
      <4>3. c.via = "packed" /\ <<c.size, z>> \in Packings /\ faults' = faults
        BY <2>5, <4>1 DEF PeerWrites, Fed
      <4>4. back \in Nat /\ com.pending \in CellSeq
        BY <1>2, LenProperties DEF Typed, TypeOK, CellSeq
      <4>5. com.pending = <<>> => com'.pending = <<>>
        BY <4>1 DEF Settled
      <4> HIDE DEF n, c
      <4> QED BY <1>2, <4>1, <4>2, <4>3, <4>4, <4>5, FirstCutPacked
    <3> QED BY <3>1, <3>2
  <2>6. CASE ServerRefuses \/ ServerAnswers \/ ClientChecks
    BY <2>1, <2>6 DEF ServerRefuses, ServerAnswers, ClientChecks, traffic
  <2>7. CASE Send \/ SendOwnedFrame \/ PeerFragments \/ PeerFragmentsCompressed \/ PeerSetsRsv1
    BY <2>1, <2>7 DEF Send, SendOwnedFrame, PeerFragments, PeerFragmentsCompressed, PeerSetsRsv1,
                      PeerCall, Call
  <2>8. CASE WritePlain \/ PlainUnwritten
    BY <2>1, <2>8 DEF WritePlain, PlainUnwritten
  <2>9. CASE LowRejects \/ InflateFails \/ PassFrame \/ PassControl
             \/ MergeRejects \/ MergeStart \/ MergeWhole \/ MergeContinue
    BY <2>1, <2>9 DEF LowRejects, InflateFails, PassFrame, PassControl, MergeRejects, MergeStart,
                      MergeWhole, MergeContinue, Take
  <2>10. CASE UNCHANGED vars
    BY <2>1, <2>10 DEF vars
  <2> QED BY <1>2, <2>2, <2>3, <2>4, <2>5, <2>6, <2>7, <2>8, <2>9, <2>10 DEF Next
<1> QED BY <1>1, <1>2

(* The capacities compress asks for are enough for every chunk send is given but
   those of three or four bytes: whatever the sizes, the first block that zlib
   cannot give out whole is one of these. *)
THEOREM FirstCutIsSmallAlways == Spec => []FirstCutIsSmall
<1>1. FirstCut => FirstCutIsSmall
  BY DEF FirstCut
<1> QED BY <1>1, InitTyped, TypedInductive, FirstCutInductive, PTL DEF Spec

-----------------------------------------------------------------------------
(* Messages without damage.  Flow describes what is under way between the caller
   of send and the caller of receive as long as no fault happened and the reader
   keeps up: the chunks that are left, the frame on the wire, and how far the
   windows of both ends reach back. *)

LowNow == IF wire = NoFrame THEN low ELSE LowAfter(wire)

\* The message in progress as the outer reader will know it once it took the frame.
TypeNow == IF wire # NoFrame /\ wire.code \in Data THEN wire.code ELSE up.type
DataNow == IF wire # NoFrame /\ wire.code \in Data THEN wire.data ELSE up.data

Genuine(c) == ~c.rsv1 /\ c.piece \in Nat \X Nat /\ c.piece[1] >= 1

WholeChunk(c) ==
    /\ Genuine(c) /\ c.piece[2] = 1
    /\ c.via \in {"send", "owned"} /\ c.code \in Data \cup {"Ping"} /\ c.type = c.code
    /\ c.fin /\ c.valid

FirstChunk(c) ==
    /\ Genuine(c) /\ c.piece[2] = 1
    /\ c.via = "plain" /\ c.code \in Data /\ c.type = c.code /\ ~c.fin
    /\ c.code = "Text" /\ config.validate_utf8 = "FastFail" => c.valid

PingChunk(c) ==
    /\ Genuine(c) /\ c.piece[2] = 0
    /\ c.via = "plain" /\ c.code = "Ping" /\ c.type = "Ping" /\ c.fin

LastChunk(c) ==
    /\ Genuine(c) /\ c.piece[2] = 2
    /\ c.via = "plain" /\ c.code = "Continue" /\ c.type \in Data /\ c.fin

Paired(first, last) == last.type = first.code /\ last.piece[1] = first.piece[1]

\* The chunks that are left, inside a fragmented message or not.
Lined(chunks, inside) ==
    \/ ~inside /\ Len(chunks) = 0
    \/ ~inside /\ Len(chunks) = 1 /\ WholeChunk(chunks[1])
    \/ ~inside /\ Len(chunks) = 2 /\ FirstChunk(chunks[1]) /\ LastChunk(chunks[2])
               /\ Paired(chunks[1], chunks[2])
    \/ ~inside /\ Len(chunks) = 3 /\ FirstChunk(chunks[1]) /\ PingChunk(chunks[2])
               /\ LastChunk(chunks[3]) /\ Paired(chunks[1], chunks[3])
    \/ inside /\ Len(chunks) = 2 /\ PingChunk(chunks[1]) /\ LastChunk(chunks[2])
    \/ inside /\ Len(chunks) = 1 /\ LastChunk(chunks[1])

\* The last fragment belongs to the message the reader has begun.
Begins(last) == last.type = TypeNow /\ DataNow = <<<<last.piece[1], 1>>>>

\* What receive returns for a frame with these data.
Expected(f, data) ==
    IF f.long THEN <<Error>>
    ELSE IF ~config.merge_frame \/ f.code \notin Data \cup {"Continue"} \/ (f.code \in Data /\ f.fin)
    THEN <<[code |-> f.code, fin |-> f.fin, body |-> data]>>
    ELSE IF f.code \in Data THEN <<>>
    ELSE <<[code |-> up.type, fin |-> TRUE, body |-> up.data \o data]>>

Last == Len(blocks)
Newest == blocks[Last]

\* The piece of a call that a frame carries.
Piece(f) == IF f.cells THEN blocks[Last].piece ELSE f.data[1]

OnWire(f) ==
    /\ \/ f.code = "Continue" /\ low /\ f.fin
       \/ f.code \in Data /\ ~low
       \/ f.code = "Ping" /\ f.fin
    /\ f.rsv1 = f.cells
    /\ f.long => f.code = "Ping"
    /\ f.cells => f.code \in Data /\ f.fin /\ conf[writer] # NoPMD /\ Last >= 1
    /\ ~f.cells => f.data = <<Piece(f)>>
    /\ f.code = "Text" /\ (config.validate_utf8 = "FastFail" \/ (f.fin /\ config.validate_utf8 = "On"))
         => f.valid
    /\ Piece(f) \in Nat \X Nat /\ Piece(f)[1] >= 1 /\ f.due = Expected(f, <<Piece(f)>>)

\* The chunks, the frame and the notes of both readers are those of one call.
Course ==
    /\ config.merge_frame => up.fragmented = low
    /\ wire # NoFrame => OnWire(wire)
    /\ Lined(todo, LowNow)
    /\ LowNow /\ config.merge_frame => Begins(todo[Len(todo)])

\* The windows of both ends.
Aligned ==
    /\ com.pending = <<>>
    /\ de.status = "sync"
    /\ de.since <= com.since /\ com.since <= Last + 1
    /\ conf[writer] # NoPMD /\ Resets(conf[writer], writer) => com.since = Last + 1
    /\ \A b \in DOMAIN blocks : blocks[b].z >= 1 /\ blocks[b].back <= Reach[Window(conf[writer], writer)]
    /\ wire = NoFrame \/ ~wire.cells => de.next = Last + 1

\* The frame is the whole of the last block, which the reader waits for.
Intact ==
    wire # NoFrame /\ wire.cells =>
        /\ wire.data = Block(Last, blocks[Last].z)
        /\ de.next = Last /\ de.since + blocks[Last].back <= Last

Flow == sent = got \o Owed /\ Course /\ Aligned /\ Intact

\* Nothing has been sent yet.
Unused ==
    /\ com = [since |-> 1, pending |-> <<>>] /\ blocks = <<>> /\ todo = <<>> /\ wire = NoFrame
    /\ low = FALSE /\ up.fragmented = FALSE
    /\ de = [status |-> "sync", since |-> 1, next |-> 1]
    /\ sent = <<>> /\ got = <<>> /\ faults = {} /\ calls = 0

OneWindow(c) == c # NoPMD => c.client_max_window_bits = c.server_max_window_bits

Flowing ==
    /\ OneWindow(conf["server"])
    /\ phase \in {"offered", "answered"} => Unused
    /\ \/ Unused
       \/ conf["server"] = conf["client"] /\ (faults = {} /\ KeepsUp => Flow)

LEMMA AgreedWindow ==
    ASSUME NEW h \in Seq(Extension), ~ParseError(h)
    PROVE  OneWindow(Agreed(h))
BY LastConfigType DEF Agreed, OneWindow, PMDConfig

LEMMA InitFlowing == Init => Flowing
BY DEF Init, Flowing, Unused, OneWindow, Roles

LEMMA HandshakeFlowing ==
    ASSUME Typed, Flowing, ServerRefuses \/ ServerAnswers \/ ClientChecks
    PROVE  Flowing'
<1>1. Unused
  BY DEF Flowing, ServerRefuses, ServerAnswers, ClientChecks
<1>2. Unused'
  BY <1>1 DEF Unused, ServerRefuses, ServerAnswers, ClientChecks, traffic, reader
<1>3. OneWindow(conf'["server"])
  <2>1. CASE ServerRefuses
    BY <2>1 DEF ServerRefuses, Flowing
  <2>2. CASE ServerAnswers
    <3>1. OneWindow(Agreed(header))
      BY <2>2, AgreedWindow DEF ServerAnswers, Typed, TypeOK
    <3>2. conf'["server"] = Agreed(header)
      BY <2>2 DEF ServerAnswers, Typed, TypeOK, Roles
    <3> QED BY <3>1, <3>2
  <2>3. CASE ClientChecks
    BY <2>3 DEF ClientChecks, Flowing, Typed, TypeOK, Roles
  <2> QED BY <2>1, <2>2, <2>3
<1> QED BY <1>2, <1>3 DEF Flowing

\* An unused connection is in order.
LEMMA UnusedFlows ==
    ASSUME Unused
    PROVE  Flow
<1>1. Last = 0 /\ DOMAIN blocks = {} /\ Len(todo) = 0
  BY DEF Unused, Last
<1>2. Aligned
  BY <1>1 DEF Unused, Aligned
<1>3. sent = got \o Owed
  <2>1. <<>> \o <<>> = <<>>
    BY ConcatEmptySeq
  <2> QED BY <2>1 DEF Unused, Owed
<1>4. LowNow = FALSE
  BY DEF Unused, LowNow
<1>5. Lined(todo, LowNow)
  BY <1>1, <1>4 DEF Lined
<1>6. Course /\ Intact
  BY <1>4, <1>5 DEF Unused, Course, Intact
<1> QED BY <1>2, <1>3, <1>6 DEF Flow

-----------------------------------------------------------------------------
(* Calls. *)

LEMMA CallCourse ==
    ASSUME Typed, Course, NEW chunks, NEW kinds, Call(chunks, kinds), Lined(chunks, FALSE)
    PROVE  Course'
<1>1. /\ todo' = chunks /\ todo = <<>>
      /\ UNCHANGED <<conf, writer, config, com, blocks, wire, low, up, de, got, sent>>
  BY DEF Call, handshake, reader
<1>2. LowNow' = LowNow /\ LowNow = FALSE
  <2>1. LowNow \in BOOLEAN
    BY DEF LowNow, LowAfter, Typed, TypeOK
  <2>2. LowNow' = LowNow
    BY <1>1 DEF LowNow, LowAfter
  <2>3. Len(todo) = 0
    BY <1>1
  <2> QED BY <2>1, <2>2, <2>3 DEF Course, Lined
<1>3. Lined(todo, LowNow)'
  BY <1>1, <1>2 DEF Lined, FirstChunk
<1>4. wire # NoFrame => OnWire(wire)
  BY DEF Course
<1>5. wire' # NoFrame => OnWire(wire)'
  BY <1>1, <1>4 DEF OnWire, Expected, Piece, Last
<1>6. (config.merge_frame => up.fragmented = low)'
  BY <1>1 DEF Course
<1> QED BY <1>2, <1>3, <1>5, <1>6 DEF Course

LEMMA PeerChunks ==
    ASSUME calls \in Nat, NEW first \in Chunk, NEW last \in Chunk, NEW ping \in BOOLEAN, NEW kinds,
           PeerCall(first, last, ping, kinds)
    PROVE  LET between == [ChunkOf("plain", "Ping", 0) EXCEPT !.piece = <<calls + 1, 0>>]
               a == [first EXCEPT !.fin = FALSE]
               z == [last EXCEPT !.code = "Continue", !.piece = <<calls + 1, 2>>]
           IN /\ between \in Chunk /\ a \in Chunk /\ z \in Chunk
              /\ IF ping THEN Call(<<a, between, z>>, kinds) ELSE Call(<<a, z>>, kinds)
<1> DEFINE between == [ChunkOf("plain", "Ping", 0) EXCEPT !.piece = <<calls + 1, 0>>]
           a == [first EXCEPT !.fin = FALSE]
           z == [last EXCEPT !.code = "Continue", !.piece = <<calls + 1, 2>>]
           m == IF ping THEN <<between>> ELSE <<>>
<1>1. between \in Chunk
  <2> DEFINE c == ChunkOf("plain", "Ping", 0)
  <2>1. c \in Chunk /\ <<calls + 1, 0>> \in Nat \X Nat
    BY ChunkType
  <2> HIDE DEF c
  <2>2. [c EXCEPT !.piece = <<calls + 1, 0>>] \in Chunk
    BY <2>1 DEF Chunk
  <2> QED BY <2>2 DEF c
<1>2. a \in Chunk
  BY DEF Chunk
<1>3. z \in Chunk
  <2>1. <<calls + 1, 2>> \in Nat \X Nat /\ "Continue" \in Codes
    BY DEF Codes
  <2> QED BY <2>1 DEF Chunk
<1>4. Call(<<a>> \o m \o <<z>>, kinds)
  BY DEF PeerCall
<1> HIDE DEF between, a, z
<1>5. CASE ping
  <2>1. m = <<between>>
    BY <1>5
  <2> HIDE DEF m
  <2>2. <<a>> \o m \o <<z>> = <<a, between, z>>
    BY <1>1, <1>2, <1>3, <2>1, JoinedThree
  <2> QED BY <1>1, <1>2, <1>3, <1>4, <1>5, <2>2 DEF between, a, z
<1>6. CASE ~ping
  <2>1. <<a>> \in Seq(Chunk) /\ m = <<>>
    BY <1>2, <1>6
  <2>2. <<a>> \o m = <<a>>
    BY <2>1, ConcatEmptySeq
  <2>3. <<a>> \o m \o <<z>> = <<a, z>>
    BY <1>2, <1>3, <2>2, JoinedTwo
  <2> HIDE DEF m
  <2> QED BY <1>1, <1>2, <1>3, <1>4, <1>6, <2>3 DEF between, a, z
<1> QED BY <1>5, <1>6

LEMMA ChunkFields ==
    ASSUME calls \in Nat, NEW via \in {"send", "owned", "plain", "packed"},
           NEW code \in Opcodes \cup {"Ping"}, NEW n \in Nat
    PROVE  LET c == ChunkOf(via, code, n)
           IN /\ c \in Chunk /\ c.via = via /\ c.code = code /\ c.type = code /\ c.fin /\ ~c.rsv1
              /\ c.valid /\ c.piece = <<calls + 1, 1>> /\ code \in Data \cup {"Ping"}
BY ChunkType, OpcodesAssumption DEF ChunkOf, Data

\* The pieces of a call.
LEMMA PieceOfCall ==
    ASSUME calls \in Nat, NEW k \in Nat
    PROVE  /\ <<calls + 1, k>> \in Nat \X Nat /\ <<calls + 1, k>>[1] = calls + 1
           /\ <<calls + 1, k>>[2] = k /\ calls + 1 >= 1
OBVIOUS

\* The fragments of a text that is checked as it comes are cut between characters.
LEMMA PeerFragmentsLined ==
    ASSUME calls \in Nat, NEW code \in Opcodes \cap Data, NEW v \in BOOLEAN, NEW ping \in BOOLEAN,
           ~v /\ code = "Text" => config.validate_utf8 # "FastFail",
           LET chunk == [ChunkOf("plain", code, 0) EXCEPT !.valid = v]
           IN PeerCall(chunk, chunk, ping, {})
    PROVE  \E chunks : Call(chunks, {}) /\ Lined(chunks, FALSE)
<1> DEFINE chunk == [ChunkOf("plain", code, 0) EXCEPT !.valid = v]
           between == [ChunkOf("plain", "Ping", 0) EXCEPT !.piece = <<calls + 1, 0>>]
           a == [chunk EXCEPT !.fin = FALSE]
           z == [chunk EXCEPT !.code = "Continue", !.piece = <<calls + 1, 2>>]
<1>1. /\ chunk \in Chunk /\ chunk.via = "plain" /\ chunk.code = code /\ chunk.type = code
      /\ chunk.fin /\ ~chunk.rsv1 /\ chunk.piece = <<calls + 1, 1>> /\ chunk.valid = v
  <2> DEFINE c == ChunkOf("plain", code, 0)
  <2>1. /\ c \in Chunk /\ c.via = "plain" /\ c.code = code /\ c.type = code /\ c.fin /\ ~c.rsv1
        /\ c.piece = <<calls + 1, 1>>
    BY ChunkFields
  <2> HIDE DEF c
  <2>2. [c EXCEPT !.valid = v] \in Chunk
    BY <2>1 DEF Chunk
  <2>3. \A r \in Chunk : /\ [r EXCEPT !.valid = v].via = r.via
                         /\ [r EXCEPT !.valid = v].code = r.code
                         /\ [r EXCEPT !.valid = v].type = r.type
                         /\ [r EXCEPT !.valid = v].fin = r.fin
                         /\ [r EXCEPT !.valid = v].rsv1 = r.rsv1
                         /\ [r EXCEPT !.valid = v].piece = r.piece
                         /\ [r EXCEPT !.valid = v].valid = v
    BY DEF Chunk
  <2>4. /\ [c EXCEPT !.valid = v].via = c.via /\ [c EXCEPT !.valid = v].code = c.code
        /\ [c EXCEPT !.valid = v].type = c.type /\ [c EXCEPT !.valid = v].fin = c.fin
        /\ [c EXCEPT !.valid = v].rsv1 = c.rsv1 /\ [c EXCEPT !.valid = v].piece = c.piece
        /\ [c EXCEPT !.valid = v].valid = v
    BY <2>1, <2>3
  <2>5. chunk = [c EXCEPT !.valid = v]
    BY DEF c
  <2> HIDE DEF chunk
  <2> QED BY <2>1, <2>2, <2>4, <2>5
<1> HIDE DEF chunk
<1>2. <<calls + 1, 2>> \in Nat \X Nat
  BY PieceOfCall
<1>3. /\ a.via = "plain" /\ a.code = code /\ a.type = code /\ ~a.fin /\ ~a.rsv1
      /\ a.piece = <<calls + 1, 1>> /\ a.valid = v
  BY <1>1 DEF Chunk
<1>4. /\ z.via = "plain" /\ z.code = "Continue" /\ z.type = code /\ z.fin /\ ~z.rsv1
      /\ z.piece = <<calls + 1, 2>>
  BY <1>1 DEF Chunk
<1>5. /\ between.via = "plain" /\ between.code = "Ping" /\ between.type = "Ping"
      /\ between.fin /\ ~between.rsv1 /\ between.piece = <<calls + 1, 0>>
  <2> DEFINE c == ChunkOf("plain", "Ping", 0)
  <2>1. /\ c \in Chunk /\ c.via = "plain" /\ c.code = "Ping" /\ c.type = "Ping" /\ c.fin
        /\ ~c.rsv1
    BY ChunkFields
  <2> HIDE DEF c
  <2> QED BY <2>1 DEF Chunk, c
<1>6. IF ping THEN Call(<<a, between, z>>, {}) ELSE Call(<<a, z>>, {})
  <2>1. PeerCall(chunk, chunk, ping, {})
    BY DEF chunk
  <2> QED BY <1>1, <2>1, PeerChunks
<1> HIDE DEF a, z, between
<1>7. \A k \in {0, 1, 2} : /\ <<calls + 1, k>> \in Nat \X Nat /\ <<calls + 1, k>>[1] = calls + 1
                          /\ <<calls + 1, k>>[2] = k /\ calls + 1 >= 1
  BY PieceOfCall
<1>8. FirstChunk(a)
  BY <1>3, <1>7 DEF FirstChunk, Genuine
<1>9. LastChunk(z) /\ Paired(a, z)
  BY <1>3, <1>4, <1>7 DEF LastChunk, Genuine, Paired
<1>10. PingChunk(between)
  BY <1>5, <1>7 DEF PingChunk, Genuine
<1>11. CASE ping
  <2>1. Lined(<<a, between, z>>, FALSE)
    BY <1>8, <1>9, <1>10 DEF Lined
  <2> QED BY <1>6, <1>11, <2>1
<1>12. CASE ~ping
  <2>1. Lined(<<a, z>>, FALSE)
    BY <1>8, <1>9 DEF Lined
  <2> QED BY <1>6, <1>12, <2>1
<1> QED BY <1>11, <1>12

LEMMA CallsCourse ==
    ASSUME Typed, Course, faults' \subseteq {"cut"},
           Send \/ SendOwnedFrame \/ PeerFragments \/ PeerFragmentsCompressed \/ PeerSetsRsv1
    PROVE  Course'
<1>0. /\ calls \in Nat /\ config \in Configs
      /\ ~({"foreign"} \subseteq {"cut"}) /\ ~({"foreign", "continued"} \subseteq {"cut"})
      /\ ~({"packed"} \subseteq {"cut"})
  BY DEF Typed, TypeOK
<1>1. \A kinds : \A chunks : Call(chunks, kinds) => kinds \subseteq {"cut"}
  BY DEF Call
<1>2. CASE Send
  <2>1. PICK code \in Opcodes, v \in BOOLEAN, n \in Nat \ {0} :
            /\ Parts(n) = 1 => v
            /\ Call([p \in 1 .. Parts(n) |->
                     [ChunkOf("send", code, PartLen(n, p)) EXCEPT
                         !.fin = (p = Parts(n)), !.piece = <<calls + 1, p>>, !.valid = v]],
                    IF Parts(n) > 1 THEN {"fragmented"} ELSE {})
    BY <1>2, SizesAssumption DEF Send
  <2> DEFINE chunk(p) == [ChunkOf("send", code, PartLen(n, p)) EXCEPT
                         !.fin = (p = Parts(n)), !.piece = <<calls + 1, p>>, !.valid = v]
             chunks == [p \in 1 .. Parts(n) |-> chunk(p)]
  <2>2. Parts(n) \in {0, 1} /\ Call(chunks, {})
    <3>1. Parts(n) \in Nat
      BY <1>0, PartsNat
    <3>2. (IF Parts(n) > 1 THEN {"fragmented"} ELSE {}) = {}
      BY <1>1, <2>1
    <3>3. ~(Parts(n) > 1)
      BY <3>2
    <3>4. Parts(n) \in {0, 1}
      BY <3>1, <3>3
    <3> QED BY <2>1, <3>2, <3>4
  <2>3. Parts(n) = 1 => WholeChunk(chunk(1))
    <3> SUFFICES ASSUME Parts(n) = 1 PROVE WholeChunk(chunk(1))
      OBVIOUS
    <3> DEFINE c == ChunkOf("send", code, PartLen(n, 1))
    <3>1. PartLen(n, 1) \in Nat
      BY <1>0, PartLenNat
    <3>2. /\ c \in Chunk /\ c.via = "send" /\ c.code = code /\ c.type = code /\ ~c.rsv1
          /\ code \in Data \cup {"Ping"}
      BY <1>0, <3>1, ChunkFields
    <3>3. (1 = Parts(n)) = TRUE /\ v = TRUE
      BY <2>1
    <3>4. chunk(1) = [c EXCEPT !.fin = TRUE, !.piece = <<calls + 1, 1>>, !.valid = TRUE]
      BY <3>3
    <3> HIDE DEF c, chunk
    <3>5. /\ chunk(1).via = "send" /\ chunk(1).code = code /\ chunk(1).type = code
          /\ ~chunk(1).rsv1 /\ chunk(1).fin /\ chunk(1).valid
          /\ chunk(1).piece = <<calls + 1, 1>>
      BY <3>2, <3>4 DEF Chunk
    <3>6. /\ chunk(1).piece \in Nat \X Nat /\ chunk(1).piece[1] = calls + 1
          /\ chunk(1).piece[2] = 1 /\ calls + 1 >= 1
      <4>1. \A k \in {1} : /\ <<calls + 1, k>> \in Nat \X Nat /\ <<calls + 1, k>>[1] = calls + 1
                          /\ <<calls + 1, k>>[2] = k /\ calls + 1 >= 1
        BY <1>0, PieceOfCall
      <4> QED BY <3>5, <4>1
    <3> QED BY <3>2, <3>5, <3>6 DEF WholeChunk, Genuine
  <2> HIDE DEF chunk
  <2>4. Lined(chunks, FALSE)
    <3>1. Len(chunks) = Parts(n) /\ (Parts(n) = 1 => chunks[1] = chunk(1))
      BY <2>2
    <3> HIDE DEF chunks
    <3> QED BY <2>2, <2>3, <3>1 DEF Lined
  <2> HIDE DEF chunks
  <2> QED BY <2>2, <2>4, CallCourse
<1>3. CASE SendOwnedFrame
  <2>1. PICK code \in Opcodes, n \in Nat : Call(<<ChunkOf("owned", code, n)>>, {})
    BY <1>3, SizesAssumption DEF SendOwnedFrame
  <2> DEFINE c == ChunkOf("owned", code, n)
  <2>2. WholeChunk(c)
    <3>1. /\ <<calls + 1, 1>> \in Nat \X Nat /\ <<calls + 1, 1>>[1] = calls + 1
          /\ <<calls + 1, 1>>[2] = 1 /\ calls + 1 >= 1
      BY <1>0
    <3>2. code \in Data \cup {"Ping"}
      BY OpcodesAssumption DEF Data
    <3> QED BY <3>1, <3>2 DEF WholeChunk, Genuine, ChunkOf
  <2> HIDE DEF c
  <2>3. Lined(<<c>>, FALSE)
    BY <2>2 DEF Lined
  <2> QED BY <2>1, <2>3, CallCourse DEF c
<1>4. CASE PeerFragments
  <2>1. PICK code \in Opcodes \cap Data, v \in BOOLEAN, ping \in BOOLEAN :
            LET chunk == [ChunkOf("plain", code, 0) EXCEPT !.valid = v]
            IN PeerCall(chunk, chunk, ping,
                        IF ~v /\ code = "Text" /\ config.validate_utf8 = "FastFail"
                        THEN {"cutchar"} ELSE {})
    BY <1>4 DEF PeerFragments
  <2> DEFINE chunk == [ChunkOf("plain", code, 0) EXCEPT !.valid = v]
             cut == ~v /\ code = "Text" /\ config.validate_utf8 = "FastFail"
  <2>2. PeerCall(chunk, chunk, ping, IF cut THEN {"cutchar"} ELSE {})
    BY <2>1
  <2> HIDE DEF chunk, cut
  <2>3. (IF cut THEN {"cutchar"} ELSE {}) = {}
    BY <1>1, <2>2 DEF PeerCall
  <2>4. ~cut /\ PeerCall(chunk, chunk, ping, {})
    BY <2>2, <2>3
  <2>5. \E chunks : Call(chunks, {}) /\ Lined(chunks, FALSE)
    BY <1>0, <2>4, PeerFragmentsLined DEF chunk, cut
  <2> QED BY <2>5, CallCourse
<1>5. CASE PeerFragmentsCompressed
  BY <1>0, <1>1, <1>5 DEF PeerFragmentsCompressed, PeerCall
<1>6. CASE PeerSetsRsv1
  BY <1>0, <1>1, <1>6 DEF PeerSetsRsv1, PeerCall
<1> QED BY <1>2, <1>3, <1>4, <1>5, <1>6

\* A call leaves everything else alone.
LEMMA CallsKeep ==
    ASSUME Send \/ SendOwnedFrame \/ PeerFragments \/ PeerFragmentsCompressed \/ PeerSetsRsv1
    PROVE  /\ UNCHANGED <<phase, conf, writer, config, com, blocks, wire, low, up, de, got, sent>>
           /\ faults \subseteq faults'
BY DEF Send, SendOwnedFrame, PeerFragments, PeerFragmentsCompressed, PeerSetsRsv1, PeerCall, Call,
       handshake, reader

LEMMA CallsFlow ==
    ASSUME Typed, Flow, faults' = {},
           Send \/ SendOwnedFrame \/ PeerFragments \/ PeerFragmentsCompressed \/ PeerSetsRsv1
    PROVE  Flow'
<1>1. Course'
  BY CallsCourse DEF Flow
<1>2. UNCHANGED <<conf, writer, com, blocks, wire, de, got, sent>>
  BY CallsKeep
<1>3. Aligned' /\ Intact' /\ (sent = got \o Owed)'
  BY <1>2 DEF Flow, Aligned, Intact, Owed, Last
<1> QED BY <1>1, <1>3 DEF Flow

-----------------------------------------------------------------------------
(* Writes. *)

LEMMA LinedHead ==
    ASSUME NEW chunks \in Seq(Chunk), chunks # <<>>, NEW inside \in BOOLEAN, Lined(chunks, inside)
    PROVE  LET c == Head(chunks)
               rest == Tail(chunks)
           IN /\ c \in Chunk
              /\ ~inside => \/ WholeChunk(c) /\ Lined(rest, FALSE)
                            \/ FirstChunk(c) /\ Lined(rest, TRUE) /\ Paired(c, rest[Len(rest)])
              /\ inside => \/ /\ PingChunk(c) /\ Lined(rest, TRUE)
                              /\ rest[Len(rest)] = chunks[Len(chunks)]
                           \/ LastChunk(c) /\ Lined(rest, FALSE) /\ chunks[Len(chunks)] = c
<1> DEFINE c == Head(chunks)
           rest == Tail(chunks)
<1>1. /\ c = chunks[1] /\ Len(chunks) \in Nat \ {0} /\ c \in Chunk
      /\ Len(rest) = Len(chunks) - 1
      /\ \A i \in 1 .. Len(rest) : rest[i] = chunks[i + 1]
  BY HeadTailProperties, EmptySeq, LenProperties
<1> HIDE DEF c, rest
<1>2. Len(chunks) = 1 => Len(rest) = 0
  BY <1>1
<1>3. Len(chunks) = 2 => Len(rest) = 1 /\ rest[1] = chunks[2]
  BY <1>1
<1>4. Len(chunks) = 3 => Len(rest) = 2 /\ rest[1] = chunks[2] /\ rest[2] = chunks[3]
  BY <1>1
<1>5. CASE ~inside
  <2>1. CASE Len(chunks) = 1 /\ WholeChunk(chunks[1])
    BY <1>1, <1>2, <1>5, <2>1 DEF Lined, c, rest
  <2>2. CASE /\ Len(chunks) = 2 /\ FirstChunk(chunks[1]) /\ LastChunk(chunks[2])
             /\ Paired(chunks[1], chunks[2])
    BY <1>1, <1>3, <1>5, <2>2 DEF Lined, c, rest
  <2>3. CASE /\ Len(chunks) = 3 /\ FirstChunk(chunks[1]) /\ PingChunk(chunks[2])
             /\ LastChunk(chunks[3]) /\ Paired(chunks[1], chunks[3])
    BY <1>1, <1>4, <1>5, <2>3 DEF Lined, c, rest
  <2> QED BY <1>1, <1>5, <2>1, <2>2, <2>3 DEF Lined
<1>6. CASE inside
  <2>1. CASE Len(chunks) = 2 /\ PingChunk(chunks[1]) /\ LastChunk(chunks[2])
    BY <1>1, <1>3, <1>6, <2>1 DEF Lined, c, rest
  <2>2. CASE Len(chunks) = 1 /\ LastChunk(chunks[1])
    BY <1>1, <1>2, <1>6, <2>2 DEF Lined, c, rest
  <2> QED BY <1>1, <1>6, <2>1, <2>2 DEF Lined
<1> QED BY <1>5, <1>6

\* What receive owes for each kind of chunk.
LEMMA DueOfChunk ==
    ASSUME NEW c
    PROVE  /\ WholeChunk(c) \/ PingChunk(c) =>
                  Due(c) = IF TooBig(c) THEN <<Error>>
                           ELSE <<[code |-> c.code, fin |-> c.fin, body |-> <<c.piece>>]>>
           /\ FirstChunk(c) =>
                  Due(c) = IF config.merge_frame THEN <<>>
                           ELSE <<[code |-> c.code, fin |-> c.fin, body |-> <<c.piece>>]>>
           /\ LastChunk(c) =>
                  Due(c) = IF config.merge_frame
                           THEN <<[code |-> c.type, fin |-> TRUE,
                                   body |-> <<<<c.piece[1], 1>>>> \o <<c.piece>>]>>
                           ELSE <<[code |-> c.code, fin |-> c.fin, body |-> <<c.piece>>]>>
<1> DEFINE pieces == [p \in 1 .. c.piece[2] |-> <<c.piece[1], p>>]
<1>1. Genuine(c) => c.piece \in Nat \X Nat /\ c.piece = <<c.piece[1], c.piece[2]>>
  BY DEF Genuine
<1>2. ASSUME Genuine(c), c.piece[2] = 1 PROVE pieces = <<c.piece>>
  BY <1>1, <1>2
<1>3. ASSUME Genuine(c), c.piece[2] = 2 PROVE pieces = <<<<c.piece[1], 1>>>> \o <<c.piece>>
  <2>1. pieces = [p \in 1 .. 2 |-> <<c.piece[1], p>>]
    BY <1>3
  <2>2. pieces = <<<<c.piece[1], 1>>, <<c.piece[1], 2>>>>
    BY <2>1
  <2>3. <<c.piece[1], 2>> = c.piece
    BY <1>1, <1>3
  <2>4. pieces = <<<<c.piece[1], 1>>, c.piece>>
    BY <2>2, <2>3
  <2> HIDE DEF pieces
  <2>5. <<<<c.piece[1], 1>>>> \o <<c.piece>> = <<<<c.piece[1], 1>>, c.piece>>
    <3>1. <<c.piece[1], 1>> \in Nat \X Nat /\ c.piece \in Nat \X Nat
      BY <1>1, <1>3
    <3> QED BY <3>1, JoinedTwo
  <2> QED BY <2>4, <2>5
<1> HIDE DEF pieces
<1>4. Due(c) = IF TooBig(c) THEN <<Error>>
               ELSE IF ~config.merge_frame
               THEN <<[code |-> c.code, fin |-> c.fin, body |-> <<c.piece>>]>>
               ELSE IF c.fin
               THEN <<[code |-> c.type, fin |-> TRUE,
                       body |-> IF c.piece[2] = 0 THEN <<c.piece>> ELSE pieces]>>
               ELSE <<>>
  BY DEF Due, pieces
<1>5. ASSUME WholeChunk(c)
      PROVE  Due(c) = IF TooBig(c) THEN <<Error>>
                      ELSE <<[code |-> c.code, fin |-> c.fin, body |-> <<c.piece>>]>>
  <2>1. Genuine(c) /\ c.piece[2] = 1 /\ c.fin /\ c.type = c.code
    BY <1>5 DEF WholeChunk
  <2> QED BY <1>2, <1>4, <2>1
<1>6. ASSUME PingChunk(c)
      PROVE  Due(c) = IF TooBig(c) THEN <<Error>>
                      ELSE <<[code |-> c.code, fin |-> c.fin, body |-> <<c.piece>>]>>
  BY <1>4, <1>6 DEF PingChunk
<1>7. ASSUME FirstChunk(c)
      PROVE  Due(c) = IF config.merge_frame THEN <<>>
                      ELSE <<[code |-> c.code, fin |-> c.fin, body |-> <<c.piece>>]>>
  BY <1>4, <1>7 DEF FirstChunk, TooBig, Data
<1>8. ASSUME LastChunk(c)
      PROVE  Due(c) = IF config.merge_frame
                      THEN <<[code |-> c.type, fin |-> TRUE,
                              body |-> <<<<c.piece[1], 1>>>> \o <<c.piece>>]>>
                      ELSE <<[code |-> c.code, fin |-> c.fin, body |-> <<c.piece>>]>>
  <2>1. Genuine(c) /\ c.piece[2] = 2 /\ c.fin /\ ~TooBig(c)
    BY <1>8 DEF LastChunk, TooBig
  <2>2. pieces = <<<<c.piece[1], 1>>>> \o <<c.piece>> /\ ~(c.piece[2] = 0)
    BY <1>3, <2>1
  <2>3. CASE config.merge_frame
    BY <1>4, <2>1, <2>2, <2>3
  <2>4. CASE ~config.merge_frame
    BY <1>4, <2>1, <2>4
  <2> QED BY <2>3, <2>4
<1> QED BY <1>5, <1>6, <1>7, <1>8

\* The frame that carries a genuine chunk is as it should be.
LEMMA WrittenFrame ==
    ASSUME NEW c \in Chunk, NEW cells \in BOOLEAN, NEW data, Write(c, cells, data), ~c.rsv1,
           c.via # "packed"
    PROVE  /\ wire' # NoFrame /\ wire'.code = c.code /\ wire'.fin = c.fin /\ wire'.rsv1 = cells
           /\ wire'.cells = cells /\ wire'.data = data /\ wire'.valid = c.valid
           /\ wire'.long = TooBig(c) /\ wire'.due = Due(c)
<1> DEFINE f == [code |-> c.code, fin |-> c.fin, rsv1 |-> c.rsv1 \/ (cells /\ c.via # "packed"),
                 cells |-> cells, long |-> TooBig(c), data |-> data, valid |-> c.valid, due |-> Due(c)]
<1>1. wire' = f
  BY DEF Write
<1>2. (c.rsv1 \/ (cells /\ c.via # "packed")) = cells
  OBVIOUS
<1>3. /\ f.code = c.code /\ f.fin = c.fin /\ f.rsv1 = cells /\ f.cells = cells /\ f.data = data
      /\ f.long = TooBig(c) /\ f.valid = c.valid /\ f.due = Due(c) /\ "code" \in DOMAIN f
  BY <1>2
<1>4. DOMAIN NoFrame = {"none"}
  BY DEF NoFrame
<1> HIDE DEF f
<1> QED BY <1>1, <1>3, <1>4

\* A frame of a chunk in its turn.
LEMMA WriteCourse ==
    ASSUME Typed, Course, Ready, NEW c, c = Head(todo), NEW cells \in BOOLEAN, NEW data,
           Write(c, cells, data),
           cells => /\ WholeChunk(c) /\ c.code \in Data /\ conf[writer] # NoPMD
                    /\ Last' >= 1 /\ blocks'[Last'].piece = c.piece,
           ~cells => data = <<c.piece>>
    PROVE  Course'
<1>1. /\ UNCHANGED <<phase, conf, writer, config, low, up, de, got>>
      /\ sent' = sent \o Due(c) /\ todo' = Tail(todo)
  BY DEF Write, handshake, reader
<1>2. /\ todo \in Seq(Chunk) /\ todo # <<>> /\ wire = NoFrame /\ low \in BOOLEAN
      /\ LowNow = low /\ TypeNow = up.type /\ DataNow = up.data
  BY DEF Ready, Typed, TypeOK, LowNow, TypeNow, DataNow
<1>3. /\ c \in Chunk
      /\ ~low => \/ WholeChunk(c) /\ Lined(todo', FALSE)
                 \/ FirstChunk(c) /\ Lined(todo', TRUE) /\ Paired(c, todo'[Len(todo')])
      /\ low => \/ /\ PingChunk(c) /\ Lined(todo', TRUE)
                   /\ todo'[Len(todo')] = todo[Len(todo)]
                \/ LastChunk(c) /\ Lined(todo', FALSE) /\ todo[Len(todo)] = c
  BY <1>1, <1>2, LinedHead DEF Course
<1>4. ~c.rsv1 /\ c.via # "packed" /\ c.piece \in Nat \X Nat /\ c.piece[1] >= 1
  BY <1>2, <1>3 DEF WholeChunk, FirstChunk, PingChunk, LastChunk, Genuine
<1>5. /\ wire' # NoFrame /\ wire'.code = c.code /\ wire'.fin = c.fin /\ wire'.rsv1 = cells
      /\ wire'.cells = cells /\ wire'.data = data /\ wire'.valid = c.valid
      /\ wire'.long = TooBig(c) /\ wire'.due = Due(c)
  BY <1>3, <1>4, WrittenFrame
<1>6. Piece(wire)' = c.piece
  BY <1>5 DEF Piece
<1>7. config'.merge_frame => up'.fragmented = low'
  BY <1>1 DEF Course
<1>8. LowNow' = LowAfter(wire)' /\ \A chunks, inside : Lined(chunks, inside)' <=> Lined(chunks, inside)
  BY <1>1, <1>5 DEF LowNow, Lined, FirstChunk
<1>9. LowAfter(wire)' = CASE c.code = "Continue" -> low /\ ~c.fin
                          [] c.code \in Data     -> low \/ ~c.fin
                          [] OTHER               -> low
  BY <1>1, <1>5 DEF LowAfter
<1>10. \A p : Expected(wire, <<p>>)' =
           IF TooBig(c) THEN <<Error>>
           ELSE IF ~config.merge_frame \/ c.code \notin Data \cup {"Continue"} \/ (c.code \in Data /\ c.fin)
           THEN <<[code |-> c.code, fin |-> c.fin, body |-> <<p>>]>>
           ELSE IF c.code \in Data THEN <<>>
           ELSE <<[code |-> up.type, fin |-> TRUE, body |-> up.data \o <<p>>]>>
  BY <1>1, <1>5 DEF Expected
<1>11. SUFFICES /\ Lined(todo', LowNow')
                /\ LowNow' /\ config.merge_frame =>
                       todo'[Len(todo')].type = TypeNow' /\
                       DataNow' = <<<<todo'[Len(todo')].piece[1], 1>>>>
                /\ \/ c.code = "Continue" /\ low /\ c.fin
                   \/ c.code \in Data /\ ~low
                   \/ c.code = "Ping" /\ c.fin
                /\ cells => c.code \in Data /\ c.fin
                /\ c.code = "Text" /\ (config.validate_utf8 = "FastFail"
                                       \/ (c.fin /\ config.validate_utf8 = "On")) => c.valid
                /\ Due(c) = Expected(wire, <<c.piece>>)'
  <2> SUFFICES ASSUME /\ Lined(todo', LowNow')
                      /\ LowNow' /\ config.merge_frame =>
                             todo'[Len(todo')].type = TypeNow' /\
                             DataNow' = <<<<todo'[Len(todo')].piece[1], 1>>>>
                      /\ \/ c.code = "Continue" /\ low /\ c.fin
                         \/ c.code \in Data /\ ~low
                         \/ c.code = "Ping" /\ c.fin
                      /\ cells => c.code \in Data /\ c.fin
                      /\ c.code = "Text" /\ (config.validate_utf8 = "FastFail"
                                       \/ (c.fin /\ config.validate_utf8 = "On")) => c.valid
                      /\ Due(c) = Expected(wire, <<c.piece>>)'
               PROVE  Course'
    OBVIOUS
  <2>1. OnWire(wire)'
    BY <1>1, <1>4, <1>5, <1>6 DEF OnWire, TooBig
  <2>2. Begins(todo[Len(todo)])' \/ ~(LowNow' /\ config'.merge_frame)
    BY <1>1 DEF Begins
  <2>3. Lined(todo, LowNow)'
    BY <1>8
  <2> QED BY <1>7, <2>1, <2>2, <2>3 DEF Course
<1>12. CASE WholeChunk(c) /\ ~low /\ Lined(todo', FALSE)
  <2>1. c.fin = TRUE /\ c.valid = TRUE /\ c.code \in Data \cup {"Ping"}
    BY <1>3, <1>12 DEF WholeChunk, Chunk
  <2>2. LowNow' = FALSE
    BY <1>2, <1>8, <1>9, <1>12, <2>1 DEF Data
  <2>3. Due(c) = Expected(wire, <<c.piece>>)'
    BY <1>10, <1>12, <2>1, DueOfChunk DEF Data
  <2> QED BY <1>12, <2>1, <2>2, <2>3
<1>13. CASE FirstChunk(c) /\ ~low /\ Lined(todo', TRUE) /\ Paired(c, todo'[Len(todo')])
  <2>1. /\ c.fin = FALSE /\ c.code \in Data /\ c.via = "plain" /\ ~cells /\ c.piece = <<c.piece[1], 1>>
    BY <1>3, <1>13 DEF FirstChunk, Genuine, Chunk, WholeChunk
  <2>2. LowNow' = TRUE
    BY <1>2, <1>8, <1>9, <1>13, <2>1 DEF Data
  <2>3. TypeNow' = c.code /\ DataNow' = <<c.piece>>
    BY <1>5, <2>1 DEF TypeNow, DataNow
  <2>4. Due(c) = Expected(wire, <<c.piece>>)'
    BY <1>10, <1>13, <2>1, DueOfChunk DEF Data, TooBig
  <2>5. c.code = "Text" /\ config.validate_utf8 = "FastFail" => c.valid
    BY <1>13 DEF FirstChunk
  <2> QED BY <1>13, <2>1, <2>2, <2>3, <2>4, <2>5 DEF Paired
<1>14. CASE PingChunk(c) /\ low /\ Lined(todo', TRUE) /\ todo'[Len(todo')] = todo[Len(todo)]
  <2>1. c.fin = TRUE /\ c.code = "Ping" /\ ~cells
    BY <1>3, <1>14 DEF PingChunk, Chunk, WholeChunk
  <2>2. LowNow' = TRUE
    BY <1>2, <1>8, <1>9, <1>14, <2>1 DEF Data
  <2>3. TypeNow' = up.type /\ DataNow' = up.data
    BY <1>1, <1>5, <2>1 DEF TypeNow, DataNow, Data
  <2>4. Due(c) = Expected(wire, <<c.piece>>)'
    BY <1>10, <1>14, <2>1, DueOfChunk DEF Data
  <2>5. config.merge_frame => Begins(todo[Len(todo)])
    BY <1>2, <1>14 DEF Course
  <2> QED BY <1>2, <1>14, <2>1, <2>2, <2>3, <2>4, <2>5 DEF Begins
<1>15. CASE LastChunk(c) /\ low /\ Lined(todo', FALSE) /\ todo[Len(todo)] = c
  <2>1. c.fin = TRUE /\ c.code = "Continue" /\ ~cells
    BY <1>3, <1>15 DEF LastChunk, Chunk, WholeChunk
  <2>2. LowNow' = FALSE
    BY <1>2, <1>8, <1>9, <1>15, <2>1 DEF Data
  <2>3. config.merge_frame => up.type = c.type /\ up.data = <<<<c.piece[1], 1>>>>
    BY <1>2, <1>15 DEF Course, Begins
  <2>4. Due(c) = Expected(wire, <<c.piece>>)'
    <3>1. CASE config.merge_frame
      <4>1. Expected(wire, <<c.piece>>)' =
                <<[code |-> up.type, fin |-> TRUE, body |-> up.data \o <<c.piece>>]>>
        BY <1>10, <2>1, <3>1 DEF Data, TooBig
      <4>2. up.data \o <<c.piece>> = <<<<c.piece[1], 1>>>> \o <<c.piece>> /\ up.type = c.type
        BY <2>3, <3>1
      <4>3. Due(c) = <<[code |-> c.type, fin |-> TRUE,
                        body |-> <<<<c.piece[1], 1>>>> \o <<c.piece>>]>>
        BY <1>15, <3>1, DueOfChunk
      <4> QED BY <4>1, <4>2, <4>3
    <3>2. CASE ~config.merge_frame
      BY <1>10, <1>15, <2>1, <3>2, DueOfChunk DEF Data, TooBig
    <3> QED BY <3>1, <3>2
  <2> QED BY <1>15, <2>1, <2>2, <2>4
<1> QED BY <1>2, <1>3, <1>12, <1>13, <1>14, <1>15

\* What is owed is what the frame owes.
LEMMA WriteOwes ==
    ASSUME Typed, Ready, NEW c \in Chunk, NEW cells, NEW data, Write(c, cells, data)
    PROVE  sent' = sent \o Due(c) /\ Owed' = Due(c) /\ got' = got /\ Owed = <<>>
<1>1. wire' = [code |-> c.code, fin |-> c.fin, rsv1 |-> c.rsv1 \/ (cells /\ c.via # "packed"),
               cells |-> cells, long |-> TooBig(c), data |-> data, valid |-> c.valid, due |-> Due(c)]
  BY DEF Write
<1>2. "code" \in DOMAIN wire' /\ wire'.due = Due(c)
  BY <1>1
<1>3. DOMAIN NoFrame = {"none"}
  BY DEF NoFrame
<1>4. wire' # NoFrame
  BY <1>2, <1>3
<1>5. Owed' = Due(c)
  BY <1>2, <1>4 DEF Owed
<1>6. sent' = sent \o Due(c) /\ got' = got /\ wire = NoFrame
  BY DEF Write, reader, Ready
<1> QED BY <1>5, <1>6 DEF Owed

LEMMA WriteFlow ==
    ASSUME Typed, Flow, Ready, NEW c \in Chunk, NEW cells, NEW data, Write(c, cells, data),
           Course', Aligned', Intact'
    PROVE  Flow'
<1>1. sent' = sent \o Due(c) /\ Owed' = Due(c) /\ got' = got /\ Owed = <<>>
  BY WriteOwes
<1>2. sent = got \o <<>> /\ got \in Seq(Result)
  BY <1>1 DEF Flow, Typed, TypeOK
<1>3. sent = got
  BY <1>2, ConcatEmptySeq
<1> QED BY <1>1, <1>3 DEF Flow

\* The chunk at hand is one of an undamaged call.
LEMMA HeadGenuine ==
    ASSUME Typed, Course, Ready
    PROVE  LET c == Head(todo)
           IN /\ c \in Chunk /\ ~c.rsv1 /\ c.via # "packed" /\ c.piece \in Nat \X Nat
              /\ c.via \in {"send", "owned"} => WholeChunk(c)
<1>1. /\ todo \in Seq(Chunk) /\ todo # <<>> /\ low \in BOOLEAN /\ LowNow = low
  BY DEF Ready, Typed, TypeOK, LowNow
<1>2. Lined(todo, low)
  BY <1>1 DEF Course
<1> DEFINE c == Head(todo)
<1>3. c \in Chunk /\ (WholeChunk(c) \/ FirstChunk(c) \/ PingChunk(c) \/ LastChunk(c))
  BY <1>1, <1>2, LinedHead
<1> HIDE DEF c
<1>4. /\ c \in Chunk /\ ~c.rsv1 /\ c.via # "packed" /\ c.piece \in Nat \X Nat
      /\ c.via \in {"send", "owned"} => WholeChunk(c)
  BY <1>3 DEF WholeChunk, FirstChunk, PingChunk, LastChunk, Genuine
<1> QED BY <1>4 DEF c

LEMMA WritePlainCourse ==
    ASSUME Typed, Course, WritePlain
    PROVE  /\ Course' /\ wire' # NoFrame /\ ~wire'.cells
           /\ UNCHANGED <<phase, conf, writer, com, blocks, de, faults>> /\ Ready
           /\ Head(todo) \in Chunk /\ Write(Head(todo), FALSE, <<Head(todo).piece>>)
<1> SUFFICES ASSUME NEW c, c = Head(todo)
             PROVE  /\ Course' /\ wire' # NoFrame /\ ~wire'.cells
                    /\ UNCHANGED <<phase, conf, writer, com, blocks, de, faults>> /\ Ready
                    /\ c \in Chunk /\ Write(c, FALSE, <<c.piece>>)
  OBVIOUS
<1>1. /\ c \in Chunk /\ ~c.rsv1 /\ c.via # "packed" /\ c.piece \in Nat \X Nat
  BY HeadGenuine DEF WritePlain
<1>2. Ready /\ Write(c, FALSE, <<c.piece>>) /\ UNCHANGED <<com, blocks, faults>>
  BY DEF WritePlain
<1>3. wire' # NoFrame /\ wire'.cells = FALSE
  BY <1>1, <1>2, WrittenFrame
<1>4. UNCHANGED <<phase, conf, writer, de>>
  BY <1>2 DEF Write, handshake, reader
<1>5. Course'
  BY <1>2, WriteCourse
<1> QED BY <1>1, <1>2, <1>3, <1>4, <1>5

LEMMA WritePlainFlow ==
    ASSUME Typed, Flow, WritePlain
    PROVE  Flow'
<1>1. Course
  BY DEF Flow
<1>2. /\ Course' /\ wire' # NoFrame /\ ~wire'.cells
      /\ UNCHANGED <<conf, writer, com, blocks, de>> /\ Ready
      /\ Head(todo) \in Chunk /\ Write(Head(todo), FALSE, <<Head(todo).piece>>)
  BY <1>1, WritePlainCourse
<1>3. Aligned' /\ Intact'
  BY <1>2 DEF Flow, Aligned, Intact, Last, Ready
<1> QED BY <1>2, <1>3, WriteFlow

\* The block of a call that went without a fault.
LEMMA WholeCompress ==
    ASSUME NEW b \in Nat, NEW z \in Nat, NEW n \in Nat, NEW cap \in Nat,
           NEW r, r = Compress(b, z, n, cap, <<>>), r.ok, r.pending = <<>>
    PROVE  Len(r.out) = z + TailLen /\ SubSeq(r.out, 1, Len(r.out) - TailLen) = Block(b, z)
<1>1. Room(n, cap) \in Nat /\ IntoRoom(r, b, z, Room(n, cap))
  BY FreshCompress
<1>3. r.out = Flushed(b, z)
  <2> DEFINE room == Room(n, cap)
  <2> HIDE DEF room
  <2>1. /\ room \in Nat /\ r.out = SubSeq(Flushed(b, z), 1, Least(room, z + TailLen))
        /\ From(Flushed(b, z), Least(room, z + TailLen)) = <<>>
    BY <1>1 DEF IntoRoom, room
  <2>2. room >= z + TailLen
    BY <2>1, WholeIfRoom
  <2> QED BY <2>1, <2>2, WholeIfRoom
<1>4. Flushed(b, z) = [k \in 1 .. z + 4 |-> <<b, k>>] /\ z + 4 \in Nat
  BY DEF Flushed, Block, TailLen
<1>5. Len(Flushed(b, z)) = z + 4 /\ \A k \in 1 .. z + 4 : Flushed(b, z)[k] = <<b, k>>
  BY <1>4
<1>6. SubSeq(Flushed(b, z), 1, z) = [k \in 1 .. z |-> <<b, k>>]
  BY <1>5
<1>7. Len(r.out) = z + TailLen /\ Len(r.out) - TailLen = z
  BY <1>3, <1>5 DEF TailLen
<1>8. SubSeq(r.out, 1, Len(r.out) - TailLen) = Block(b, z)
  BY <1>3, <1>6, <1>7 DEF Block
<1> QED BY <1>7, <1>8

\* A chunk written as a block, or as what send gives out of it.
LEMMA BlockCourse ==
    ASSUME Typed, Course, Ready, NEW c \in Chunk, c = Head(todo), Compresses(c),
           NEW z \in Nat \ {0}, NEW back \in Nat,
           Fed(c, Len(blocks) + 1, back, z), NEW r, r.pending \in CellSeq,
           blocks' = Packed(c, r, back, z), NEW data, Write(c, TRUE, data)
    PROVE  /\ Course' /\ wire' # NoFrame /\ wire'.cells /\ wire'.data = data
           /\ UNCHANGED <<phase, conf, writer, de>> /\ wire = NoFrame
           /\ WholeChunk(c) /\ c.code \in Data
           /\ Len(blocks') = Len(blocks) + 1 /\ DOMAIN blocks' = 1 .. Len(blocks) + 1
           /\ DOMAIN blocks = 1 .. Len(blocks)
           /\ \A i \in 1 .. Len(blocks) : blocks'[i] = blocks[i]
           /\ Newest'.z = z /\ Newest'.back = back /\ (Newest'.whole <=> r.pending = <<>>)
<1>0. Len(blocks) \in Nat
  BY LenProperties DEF Typed, TypeOK
<1> SUFFICES ASSUME NEW n \in Nat, n = Len(blocks)
             PROVE  /\ Course' /\ wire' # NoFrame /\ wire'.cells /\ wire'.data = data
                    /\ UNCHANGED <<phase, conf, writer, de>> /\ wire = NoFrame
                    /\ WholeChunk(c) /\ c.code \in Data
                    /\ Len(blocks') = n + 1 /\ DOMAIN blocks' = 1 .. n + 1
                    /\ DOMAIN blocks = 1 .. n
                    /\ \A i \in 1 .. n : blocks'[i] = blocks[i]
                    /\ Newest'.z = z /\ Newest'.back = back
                    /\ (Newest'.whole <=> r.pending = <<>>)
  BY <1>0
<1>1. <<c.size, z>> \in Packings
  BY DEF Fed
<1>2. /\ ~c.rsv1 /\ WholeChunk(c) /\ conf[writer] # NoPMD /\ c.code \in Data
      /\ c.via \notin {"plain", "packed"}
  BY HeadGenuine DEF Compresses, Deflates
<1>3. /\ wire' # NoFrame /\ wire'.cells = TRUE /\ wire'.data = data
  BY <1>2, WrittenFrame
<1>4. UNCHANGED <<phase, conf, writer, de>> /\ wire = NoFrame
  BY DEF Write, handshake, reader, Ready
<1>5. /\ Len(blocks') = n + 1 /\ DOMAIN blocks' = 1 .. n + 1 /\ DOMAIN blocks = 1 .. n
      /\ \A i \in 1 .. n : blocks'[i] = blocks[i]
      /\ blocks'[n + 1].z = z /\ blocks'[n + 1].back = back /\ blocks'[n + 1].piece = c.piece
      /\ blocks'[n + 1].whole <=> r.pending = <<>>
  <2>1. /\ Typed /\ c \in Chunk /\ c.via # "plain" /\ back \in Nat
        /\ <<c.size, z>> \in Packings /\ r.pending \in CellSeq
    BY <1>1, <1>2
  <2>2. LET q == Packed(c, r, back, z)
        IN /\ q \in Seq(BlockRec) /\ Len(q) = Len(blocks) + 1 /\ Len(blocks) \in Nat
           /\ DOMAIN q = 1 .. Len(blocks) + 1 /\ DOMAIN blocks = 1 .. Len(blocks)
           /\ \A i \in 1 .. Len(blocks) : q[i] = blocks[i]
           /\ q[Len(blocks) + 1].piece = c.piece /\ q[Len(blocks) + 1].size = c.size
           /\ q[Len(blocks) + 1].back = back /\ q[Len(blocks) + 1].z = z
           /\ q[Len(blocks) + 1].via = c.via
           /\ q[Len(blocks) + 1].whole <=> r.pending = <<>>
    BY <2>1, PackedIs
  <2> QED BY <2>2
<1>6. Course'
  <2>1. Last' >= 1 /\ blocks'[Last'].piece = c.piece
    BY <1>5 DEF Last
  <2> QED BY <1>2, <2>1, WriteCourse
<1>7. Newest' = blocks'[n + 1]
  BY <1>5 DEF Newest, Last
<1> QED BY <1>2, <1>3, <1>4, <1>5, <1>6, <1>7

LEMMA BlockFlow ==
    ASSUME Typed, Flow, Ready, NEW c \in Chunk, c = Head(todo), Compresses(c),
           NEW n \in Nat, n = Len(blocks), NEW z \in Nat \ {0}, NEW back \in Nat,
           Fed(c, n + 1, back, z), NEW r, r.pending \in CellSeq, r.pending = <<>>,
           blocks' = Packed(c, r, back, z), com' = Settled(r.pending, n + 1),
           Write(c, TRUE, Block(n + 1, z))
    PROVE  Flow'
<1> SUFFICES ASSUME NEW data, data = Block(n + 1, z), Write(c, TRUE, data),
                    Fed(c, Len(blocks) + 1, back, z)
             PROVE  Flow'
  OBVIOUS
<1>1. Course
  BY DEF Flow
<1>2. /\ Course' /\ wire' # NoFrame /\ wire'.cells /\ wire'.data = data
      /\ UNCHANGED <<phase, conf, writer, de>> /\ wire = NoFrame
      /\ WholeChunk(c) /\ c.code \in Data
      /\ Len(blocks') = n + 1 /\ DOMAIN blocks' = 1 .. n + 1 /\ DOMAIN blocks = 1 .. n
      /\ \A i \in 1 .. n : blocks'[i] = blocks[i]
      /\ blocks'[n + 1].z = z /\ blocks'[n + 1].back = back
  <2>1. Course' /\ wire' # NoFrame /\ wire'.cells /\ wire'.data = data
    BY <1>1, BlockCourse
  <2>2. UNCHANGED <<phase, conf, writer, de>> /\ wire = NoFrame /\ WholeChunk(c) /\ c.code \in Data
    BY <1>1, BlockCourse
  <2>3. /\ Len(blocks') = n + 1 /\ DOMAIN blocks' = 1 .. n + 1 /\ DOMAIN blocks = 1 .. n
        /\ \A i \in 1 .. n : blocks'[i] = blocks[i]
    BY <1>1, BlockCourse
  <2>4. Newest'.z = z /\ Newest'.back = back
    BY <1>1, BlockCourse
  <2>5. Newest' = blocks'[n + 1]
    BY <2>3 DEF Newest, Last
  <2> QED BY <2>1, <2>2, <2>3, <2>4, <2>5
<1>3. /\ com.since \in Nat /\ de.since \in Nat /\ de.status = "sync" /\ de.next = n + 1
      /\ de.since <= com.since /\ com.since <= n + 1 /\ com.since + back <= n + 1
      /\ back <= Reach[Window(conf[writer], writer)]
      /\ \A b \in 1 .. n : blocks[b].z >= 1 /\ blocks[b].back <= Reach[Window(conf[writer], writer)]
  BY <1>2 DEF Flow, Aligned, Typed, TypeOK, Last, Fed
<1>4. /\ com'.pending = <<>> /\ com'.since \in {n + 2, com.since}
      /\ Resets(conf[writer], writer) => com'.since = n + 2
  BY DEF Settled
<1>5. Aligned'
  <2>1. \A b \in DOMAIN blocks' : /\ blocks'[b].z >= 1
                                  /\ blocks'[b].back <= Reach[Window(conf[writer], writer)]
    <3> SUFFICES ASSUME NEW b \in 1 .. n + 1
                 PROVE  /\ blocks'[b].z >= 1
                        /\ blocks'[b].back <= Reach[Window(conf[writer], writer)]
      BY <1>2
    <3>1. CASE b = n + 1
      BY <1>2, <1>3, <3>1
    <3>2. CASE b \in 1 .. n
      BY <1>2, <1>3, <3>2
    <3> QED BY <3>1, <3>2
  <2>2. de'.since <= com'.since /\ com'.since <= n + 2 /\ Len(blocks') + 1 = n + 2
    BY <1>2, <1>3, <1>4
  <2> QED BY <1>2, <1>3, <1>4, <2>1, <2>2 DEF Aligned, Last
<1>6. Intact'
  <2>1. de.since + back <= n + 1
    BY <1>3
  <2> QED BY <1>2, <1>3, <2>1 DEF Intact, Last
<1> QED BY <1>2, <1>5, <1>6, WriteFlow

LEMMA WriteCompressedFlow ==
    ASSUME Typed, Flow, WriteCompressed, faults' = {}
    PROVE  Flow'
<1>1. Ready /\ Compresses(Head(todo)) /\ com.pending = <<>>
  BY DEF WriteCompressed, Flow, Aligned
<1>2. /\ Head(todo) \in Chunk /\ Head(todo).size \in Nat /\ Capacity(Head(todo)) \in Nat
      /\ Len(blocks) \in Nat
  <2>1. Head(todo) \in Chunk /\ Len(blocks) \in Nat
    BY <1>1, HeadGenuine, LenProperties DEF Typed, TypeOK, Flow
  <2> QED BY <2>1 DEF Capacity, Chunk
<1> SUFFICES ASSUME NEW c \in Chunk, c = Head(todo), NEW n \in Nat, n = Len(blocks),
                    NEW size \in Nat, size = c.size, NEW cap \in Nat, cap = Capacity(c)
             PROVE  Flow'
  BY <1>2
<1>3. PICK y \in {p[2] : p \in Packings}, back \in 0 .. n :
          LET r == Compress(n + 1, y, size, cap, <<>>)
          IN /\ Fed(c, n + 1, back, y)
             /\ r.ok
             /\ blocks' = Packed(c, r, back, y)
             /\ com' = Settled(r.pending, n + 1)
             /\ faults' = faults \cup Cut(r)
             /\ IF Len(r.out) < TailLen
                THEN \/ Write(c, TRUE, r.out)
                     \/ phase' = "panicked"
                ELSE Write(c, TRUE, SubSeq(r.out, 1, Len(r.out) - TailLen))
  BY <1>1 DEF WriteCompressed
<1>4. y \in Nat \ {0} /\ back \in Nat /\ n + 1 \in Nat
  BY PackingsAssumption
<1> SUFFICES ASSUME NEW z \in Nat, z = y, z # 0, NEW b \in Nat, b = n + 1,
                    NEW r, r = Compress(b, z, size, cap, <<>>)
             PROVE  Flow'
  BY <1>4
<1>5. /\ r.ok /\ Fed(c, b, back, z) /\ blocks' = Packed(c, r, back, z)
      /\ com' = Settled(r.pending, b) /\ r.pending = <<>>
  BY <1>3 DEF Cut
<1>6. Len(r.out) = z + TailLen /\ SubSeq(r.out, 1, Len(r.out) - TailLen) = Block(b, z)
  <2>1. r = Compress(b, z, size, cap, <<>>) /\ r.ok /\ r.pending = <<>>
    BY <1>5
  <2> QED BY ONLY <2>1, WholeCompress
<1>7. Write(c, TRUE, Block(b, z))
  <2>1. ~(Len(r.out) < TailLen)
    BY <1>6 DEF TailLen
  <2> QED BY <1>3, <1>6, <2>1
<1>8. r.pending \in CellSeq
  <2>1. \A S : <<>> \in Seq(S)
    OBVIOUS
  <2> QED BY <1>5, <2>1 DEF CellSeq
<1> QED BY <1>1, <1>4, <1>5, <1>7, <1>8, BlockFlow

LEMMA GivenUpCourse ==
    ASSUME Typed, Course, PlainUnwritten \/ CompressFails
    PROVE  Course'
<1>1. /\ Ready /\ Head(todo).via \in {"send", "owned"} /\ todo' = <<>>
      /\ UNCHANGED <<conf, writer, config, blocks, wire, low, up, de>>
  BY DEF PlainUnwritten, CompressFails, Compresses, handshake, reader
<1>2. /\ todo \in Seq(Chunk) /\ todo # <<>> /\ wire = NoFrame /\ low \in BOOLEAN /\ LowNow = low
  BY <1>1 DEF Ready, Typed, TypeOK, LowNow
<1>3. low = FALSE
  <2>1. low => PingChunk(Head(todo)) \/ LastChunk(Head(todo))
    BY <1>2, LinedHead DEF Course
  <2> QED BY <1>1, <1>2, <2>1 DEF PingChunk, LastChunk
<1>4. Lined(todo, LowNow)' /\ LowNow' = FALSE
  <2>1. Len(todo') = 0
    BY <1>1
  <2> QED BY <1>1, <1>2, <1>3, <2>1 DEF Lined, LowNow
<1> QED BY <1>1, <1>2, <1>4 DEF Course

LEMMA GivenUpFlow ==
    ASSUME Typed, Flow, PlainUnwritten \/ CompressFails, faults' = {}
    PROVE  Flow'
<1>1. Course'
  BY GivenUpCourse DEF Flow
<1>2. UNCHANGED <<conf, writer, com, blocks, wire, de, got, sent>>
  <2>1. CASE PlainUnwritten
    BY <2>1 DEF PlainUnwritten, handshake, reader
  <2>2. CASE CompressFails
    <3>1. PICK r : /\ com' = [com EXCEPT !.pending = r.pending]
                   /\ faults' = IF r.pending = com.pending THEN faults ELSE faults \cup {"cut"}
      BY <2>2 DEF CompressFails
    <3>2. com' = com
      BY <3>1 DEF Typed, TypeOK
    <3> QED BY <2>2, <3>2 DEF CompressFails, handshake, reader
  <2> QED BY <2>1, <2>2
<1>3. Aligned' /\ Intact' /\ (sent = got \o Owed)'
  BY <1>2 DEF Flow, Aligned, Intact, Owed, Last
<1> QED BY <1>1, <1>3 DEF Flow

LEMMA WritesFlow ==
    ASSUME Typed, Flow, faults' = {},
           \/ WritePlain \/ WriteCompressed \/ CompressFails \/ SendUnwritten \/ OwnedUnwritten
           \/ PlainUnwritten \/ PeerWrites
    PROVE  Flow'
<1>2. ~SendUnwritten /\ ~OwnedUnwritten
  BY DEF SendUnwritten, OwnedUnwritten, Unwritten
<1>3. ~PeerWrites
  BY HeadGenuine DEF PeerWrites, Flow
<1> QED BY <1>2, <1>3, WritePlainFlow, WriteCompressedFlow, GivenUpFlow

-----------------------------------------------------------------------------
(* Reads. *)

\* Both ends work with the same parameters.
Agree ==
    /\ conf["server"] = conf["client"] /\ OneWindow(conf["server"])

LEMMA SameParameters ==
    ASSUME Typed, Agree
    PROVE  /\ conf[peer] = conf[writer] /\ writer \in Roles /\ peer \in Roles
           /\ conf[writer] # NoPMD => Window(conf[peer], peer) = Window(conf[writer], writer)
<1>1. writer \in {"client", "server"} /\ peer \in {"client", "server"} /\ peer # writer
  BY DEF Typed, TypeOK, Roles, peer
<1>2. conf[peer] = conf[writer] /\ conf[writer] = conf["server"]
  BY <1>1 DEF Agree
<1> QED BY <1>1, <1>2 DEF Agree, OneWindow, Window, Roles

\* A block is known by its first cell.
LEMMA OnlyItsBlock ==
    ASSUME NEW b \in Nat, NEW y \in Nat \ {0}, NEW c \in Nat, NEW z \in Nat \ {0},
           Block(b, y) = Block(c, z)
    PROVE  b = c
<1>1. 1 \in 1 .. y /\ 1 \in 1 .. z
  OBVIOUS
<1>2. Block(b, y)[1] = <<b, 1>> /\ Block(c, z)[1] = <<c, 1>>
  BY <1>1 DEF Block
<1>3. <<b, 1>> = <<c, 1>>
  BY <1>2
<1> QED BY <1>3

\* The inner reader takes the frame, and what is returned is the piece it carries.
Good(r) == r.ok = TRUE /\ r.data = <<Piece(wire)>>

\* The decompressor follows.
Kept(r) == r.de.status = "sync" /\ r.de.next = Last + 1 /\ r.de.since <= com.since

LEMMA PlainGood ==
    ASSUME Typed, Course, wire # NoFrame, ~wire.cells, NEW r \in ReceiveOne(wire)
    PROVE  Good(r) /\ r.de = de
<1>1. OnWire(wire) /\ wire.rsv1 = FALSE /\ wire.cells = FALSE
  BY DEF Course, OnWire, Typed, TypeOK, Frame
<1>2. r = [ok |-> TRUE, data |-> wire.data, de |-> de]
  BY <1>1 DEF ReceiveOne
<1>3. wire.data = <<Piece(wire)>>
  BY <1>1 DEF OnWire
<1> QED BY <1>2, <1>3 DEF Good

\* The one block that a whole frame can be.
LEMMA WholeGood ==
    ASSUME Typed, Course, conf[peer] # NoPMD, wire # NoFrame, wire.cells,
           wire.data = Block(Last, blocks[Last].z), \A b \in DOMAIN blocks : blocks[b].z >= 1,
           de.status = "sync", Known(Last), NEW r \in ReceiveOne(wire)
    PROVE  /\ Good(r)
           /\ r.de = Inflated([status |-> "sync", since |-> Since(Last), next |-> Last + 1])
<1>1. OnWire(wire) /\ wire.rsv1 = TRUE /\ wire.cells = TRUE /\ wire.code # "Ping" /\ Last >= 1
  BY DEF Course, OnWire, Typed, TypeOK, Frame, Data
<1>2. /\ Last \in Nat /\ DOMAIN blocks = 1 .. Last
      /\ \A b \in DOMAIN blocks : blocks[b].z \in Nat \ {0}
  <2>1. blocks \in Seq(BlockRec) /\ DOMAIN blocks = 1 .. Last /\ Last \in Nat
    BY LenProperties DEF Typed, TypeOK, Last
  <2>2. \A b \in DOMAIN blocks : blocks[b] \in BlockRec
    BY <2>1
  <2>3. \A b \in DOMAIN blocks : blocks[b].z \in Nat
    BY <2>2 DEF BlockRec
  <2> QED BY <2>1, <2>3
<1>3. {b \in DOMAIN blocks : Whole(wire, b)} = {Last}
  <2>1. Last \in DOMAIN blocks /\ Whole(wire, Last)
    BY <1>1, <1>2 DEF Whole
  <2>2. ASSUME NEW b \in DOMAIN blocks, Whole(wire, b) PROVE b = Last
    <3>1. Block(Last, blocks[Last].z) = Block(b, blocks[b].z)
      BY <2>2 DEF Whole
    <3>2. b \in Nat /\ blocks[b].z \in Nat \ {0} /\ blocks[Last].z \in Nat \ {0}
      BY <1>2, <2>1
    <3> QED BY <1>2, <3>1, <3>2, OnlyItsBlock
  <2> QED BY <2>1, <2>2
<1> DEFINE d == Inflated([status |-> "sync", since |-> Since(Last), next |-> Last + 1])
           good == [ok |-> TRUE, data |-> <<blocks[Last].piece>>, de |-> d]
<1>4. ReceiveOne(wire) = Inflate(wire)
  BY <1>1 DEF ReceiveOne
<1>5. Inflate(wire) = {good}
  <2> DEFINE step(b) == IF Known(b)
                        THEN {[ok |-> TRUE, data |-> <<blocks[b].piece>>,
                               de |-> Inflated([status |-> "sync", since |-> Since(b),
                                                next |-> b + 1])]}
                        ELSE Garbled(wire, "sync")
             whole == {b \in DOMAIN blocks : Whole(wire, b)}
  <2>1. step(Last) = {good}
    OBVIOUS
  <2> HIDE DEF step, good
  <2>2. UNION {step(b) : b \in whole} = {good}
    BY <1>3, <2>1
  <2>3. Inflate(wire) = UNION {step(b) : b \in whole}
    <3>1. whole # {}
      BY <1>3
    <3> HIDE DEF whole
    <3>2. Inflate(wire) =
              CASE de.status = "bad"                -> {Bad}
                [] de.status = "lost"               -> Garbled(wire, "lost")
                [] de.status = "sync" /\ whole # {} -> UNION {step(b) : b \in whole}
                [] OTHER ->
                     IF {b \in DOMAIN blocks : Begun(wire, b) /\ Known(b)} = {}
                     THEN Garbled(wire, "lost")
                     ELSE UNION {Curtailed(b, blocks[b].z - Len(wire.data)) :
                                   b \in {c \in DOMAIN blocks : Begun(wire, c) /\ Known(c)}}
      BY DEF Inflate, whole, step
    <3> QED BY <3>1, <3>2
  <2> QED BY <2>2, <2>3
<1> HIDE DEF d
<1>6. r.ok = TRUE /\ r.data = <<blocks[Last].piece>> /\ r.de = d
  BY <1>4, <1>5
<1> QED BY <1>1, <1>6 DEF Good, Piece, d

LEMMA CellsGood ==
    ASSUME Typed, Flow, Agree, KeepsUp, wire # NoFrame, wire.cells, NEW r \in ReceiveOne(wire)
    PROVE  Good(r) /\ Kept(r)
<1>1. conf[writer] # NoPMD /\ Last >= 1
  BY DEF Flow, Course, OnWire
<1>2. conf[peer] # NoPMD /\ Window(conf[peer], peer) = Window(conf[writer], writer)
  BY <1>1, SameParameters
<1>3. /\ wire.data = Block(Last, blocks[Last].z)
      /\ de.next = Last /\ de.since + blocks[Last].back <= Last
  BY DEF Flow, Intact
<1>4. /\ Last \in DOMAIN blocks /\ Last \in Nat /\ de.status = "sync" /\ de.since \in Nat
      /\ de.since <= com.since
      /\ \A b \in DOMAIN blocks : /\ blocks[b].z >= 1
                                  /\ blocks[b].back <= Reach[Window(conf[writer], writer)]
  <2>1. Last \in Nat /\ DOMAIN blocks = 1 .. Last /\ de.since \in Nat
    BY LenProperties DEF Typed, TypeOK, Last
  <2> QED BY <1>1, <2>1 DEF Flow, Aligned
<1>5. Known(Last) /\ Since(Last) = de.since
  BY <1>2, <1>3, <1>4 DEF Known, Since
<1> DEFINE d == [status |-> "sync", since |-> de.since, next |-> Last + 1]
<1>6. Good(r) /\ r.de = Inflated(d)
  <2>1. Course /\ \A b \in DOMAIN blocks : blocks[b].z >= 1
    BY <1>4 DEF Flow
  <2> QED BY <1>2, <1>3, <1>4, <1>5, <2>1, WholeGood
<1>7. /\ Inflated(d).status = "sync" /\ Inflated(d).next = Last + 1
      /\ Inflated(d).since <= com.since
  <2>1. CASE Resets(conf[peer], peer)
    <3>1. Resets(conf[writer], writer)
      BY <1>1, <1>2, <2>1 DEF KeepsUp
    <3>2. com.since = Last + 1
      BY <1>1, <3>1 DEF Flow, Aligned
    <3>3. Inflated(d) = [status |-> "sync", since |-> Last + 1, next |-> Last + 1]
      BY <2>1 DEF Inflated
    <3> QED BY <1>4, <3>2, <3>3
  <2>2. CASE ~Resets(conf[peer], peer)
    <3>1. Inflated(d) = d
      BY <2>2 DEF Inflated
    <3> QED BY <1>4, <3>1
  <2> QED BY <2>1, <2>2
<1> HIDE DEF d
<1> QED BY <1>6, <1>7 DEF Kept

LEMMA FlowGood ==
    ASSUME Typed, Flow, Agree, KeepsUp, wire # NoFrame, NEW r \in ReceiveOne(wire)
    PROVE  Good(r) /\ Kept(r)
<1>1. CASE wire.cells
  BY <1>1, CellsGood
<1>2. CASE ~wire.cells
  <2>1. Good(r) /\ r.de = de
    BY <1>2, PlainGood DEF Flow
  <2> QED BY <1>2, <2>1 DEF Flow, Aligned, Kept
<1> QED BY <1>1, <1>2

\* The inner reader accepts the frame.
LEMMA LowAccepts ==
    ASSUME Course, wire # NoFrame
    PROVE  LowError(wire) <=> wire.long
BY DEF Course, OnWire, LowError, Data

\* A frame is taken, and the outer reader notes what it has to.
LEMMA ReadCourse ==
    ASSUME Typed, Course, Take,
           config.merge_frame =>
               /\ up'.fragmented = LowAfter(wire)
               /\ LowAfter(wire) => up'.type = TypeNow /\ up'.data = DataNow
    PROVE  Course'
<1>1. /\ wire # NoFrame /\ wire' = NoFrame /\ low' = LowAfter(wire)
      /\ UNCHANGED <<config, todo>>
  BY DEF Take, handshake
<1>2. LowNow' = LowNow /\ LowNow = LowAfter(wire)
  BY <1>1 DEF LowNow
<1>3. Lined(todo, LowNow)'
  BY <1>1, <1>2 DEF Course, Lined, FirstChunk
<1>4. TypeNow' = up'.type /\ DataNow' = up'.data
  BY <1>1 DEF TypeNow, DataNow
<1>5. (LowNow /\ config.merge_frame => Begins(todo[Len(todo)]))'
  <2>1. LowNow /\ config.merge_frame => Begins(todo[Len(todo)])
    BY DEF Course
  <2> QED BY <1>1, <1>2, <1>4, <2>1 DEF Begins
<1>6. (config.merge_frame => up.fragmented = low)'
  BY <1>1
<1> QED BY <1>1, <1>3, <1>5, <1>6 DEF Course

\* The inner reader refuses a control frame that is too big and forgets it.
LEMMA LongReadsCourse ==
    ASSUME Typed, Course, wire # NoFrame, wire.long,
           \/ LowRejects \/ InflateFails \/ PassFrame \/ PassControl
           \/ MergeRejects \/ MergeStart \/ MergeWhole \/ MergeContinue
    PROVE  /\ Course' /\ Take /\ got' = got \o wire.due
           /\ \E r \in ReceiveOne(wire) : de' = r.de
<1>1. /\ LowError(wire) /\ OnWire(wire) /\ wire.code = "Ping" /\ wire \in Frame
      /\ low \in BOOLEAN /\ got \in Seq(Result)
  BY LowAccepts DEF Course, OnWire, Typed, TypeOK
<1>2. \A ok : Returned(ok) = {}
  BY <1>1 DEF Returned
<1>3. LowRejects
  BY <1>2 DEF InflateFails, PassFrame, PassControl, MergeRejects, MergeStart, MergeWhole,
              MergeContinue
<1>4. Take /\ Fail /\ UNCHANGED <<up, de>>
  BY <1>3 DEF LowRejects
<1>5. got' = got \o wire.due
  <2>1. Error \in Result
    BY ErrorType
  <2>2. wire.due = <<Error>>
    BY <1>1 DEF OnWire, Expected
  <2>3. Append(got, Error) = got \o <<Error>>
    BY <1>1, <2>1, AppendIsConcat
  <2> QED BY <1>4, <2>2, <2>3 DEF Fail
<1>6. LowAfter(wire) = low /\ TypeNow = up.type /\ DataNow = up.data
  BY <1>1 DEF LowAfter, TypeNow, DataNow, Data
<1>7. Course'
  BY <1>4, <1>6, ReadCourse DEF Course
<1>8. \E r \in ReceiveOne(wire) : de' = r.de
  <2>1. wire.rsv1 = FALSE
    BY <1>1 DEF OnWire, Frame, Data
  <2> QED BY <1>4, <2>1 DEF ReceiveOne
<1> QED BY <1>4, <1>5, <1>7, <1>8

\* A turn of receive on a good frame returns what the frame owes.
LEMMA ShortReadsCourse ==
    ASSUME Typed, Course, wire # NoFrame, ~wire.long, \A r \in ReceiveOne(wire) : Good(r),
           \/ LowRejects \/ InflateFails \/ PassFrame \/ PassControl
           \/ MergeRejects \/ MergeStart \/ MergeWhole \/ MergeContinue
    PROVE  /\ Course' /\ Take /\ got' = got \o wire.due
           /\ \E r \in ReceiveOne(wire) : de' = r.de
<1>1. Take /\ wire # NoFrame
  BY DEF LowRejects, InflateFails, PassFrame, PassControl, MergeRejects, MergeStart, MergeWhole,
         MergeContinue, Take
<1>2. /\ ~LowError(wire) /\ OnWire(wire) /\ wire \in Frame /\ low \in BOOLEAN
      /\ up \in [fragmented : BOOLEAN, type : Data, data : CellSeq] /\ got \in Seq(Result)
      /\ wire.fin \in BOOLEAN /\ wire.valid \in BOOLEAN
  BY <1>1, LowAccepts DEF Course, Typed, TypeOK, CellSeq, Frame
<1>3. \A ok : \A r \in Returned(ok) : r.ok = ok /\ r \in ReceiveOne(wire) /\ Good(r)
  BY <1>1 DEF Returned
<1>4. config.merge_frame => up.fragmented = low
  BY DEF Course
<1>5. ~LowRejects
  BY <1>2 DEF LowRejects
<1>6. ~InflateFails
  BY <1>3 DEF InflateFails, Good
<1>7. \A code \in Codes, fin \in BOOLEAN, body \in CellSeq :
          Append(got, [code |-> code, fin |-> fin, body |-> body])
              = got \o <<[code |-> code, fin |-> fin, body |-> body]>>
  <2>1. \A code \in Codes, fin \in BOOLEAN, body \in CellSeq :
            [code |-> code, fin |-> fin, body |-> body] \in Result
    BY DEF Result, CellSeq
  <2>2. \A x \in Result : Append(got, x) = got \o <<x>>
    BY <1>2, AppendIsConcat
  <2> QED BY <2>1, <2>2
<1>8. \A ok : \A r \in Returned(ok) : r.data \in CellSeq
  BY ReturnedType
<1>9. \A ok : \A r \in Returned(ok) :
          /\ r.data # <<Junk>> /\ wire.due = Expected(wire, r.data)
          /\ wire.code \in Data /\ ~wire.fin => r.data = wire.data
  <2> SUFFICES ASSUME NEW ok, NEW r \in Returned(ok)
               PROVE  /\ r.data # <<Junk>> /\ wire.due = Expected(wire, r.data)
                      /\ wire.code \in Data /\ ~wire.fin => r.data = wire.data
    OBVIOUS
  <2>1. Good(r) /\ r \in ReceiveOne(wire)
    BY <1>3
  <2>2. r.data = <<Piece(wire)>>
    BY <2>1 DEF Good
  <2>3. Piece(wire) # Junk /\ wire.due = Expected(wire, <<Piece(wire)>>)
    BY <1>2 DEF OnWire, Junk
  <2>4. wire.code \in Data /\ ~wire.fin => r.data = wire.data
    <3>1. wire.code \in Data /\ ~wire.fin => wire.cells = FALSE /\ wire.rsv1 = FALSE
      BY <1>2 DEF OnWire, Frame
    <3> QED BY <2>1, <3>1 DEF ReceiveOne
  <2>5. <<Piece(wire)>> # <<Junk>>
    <3>1. <<Piece(wire)>>[1] # <<Junk>>[1]
      BY <2>3
    <3> QED BY <3>1
  <2> QED BY <2>2, <2>3, <2>4, <2>5
<1>10. LowAfter(wire) = CASE wire.code = "Continue" -> FALSE
                          [] wire.code \in Data -> ~wire.fin
                          [] OTHER -> low
  BY <1>2 DEF LowAfter, OnWire, Data
<1>11. CASE PassFrame
  <2>1. PICK r \in Returned(TRUE) : de' = r.de /\ ~config.merge_frame /\ Return(wire, r.data)
    BY <1>11 DEF PassFrame
  <2>2. wire.due = <<[code |-> wire.code, fin |-> wire.fin, body |-> r.data]>>
    BY <1>9, <2>1 DEF Expected
  <2>3. got' = got \o wire.due
    BY <1>2, <1>7, <1>8, <2>1, <2>2 DEF Return, Frame
  <2> QED BY <1>1, <1>3, <2>1, <2>3, ReadCourse
<1>12. CASE PassControl
  <2>1. PICK r \in Returned(TRUE) : de' = r.de /\ Return(wire, r.data)
    BY <1>12 DEF PassControl
  <2>2. wire.code = "Ping" /\ up' = up /\ wire.code \notin Data
    BY <1>12 DEF PassControl, Data
  <2>3. wire.due = <<[code |-> wire.code, fin |-> wire.fin, body |-> r.data]>>
    BY <1>9, <2>1, <2>2 DEF Expected, Data
  <2>4. got' = got \o wire.due
    BY <1>2, <1>7, <1>8, <2>1, <2>3 DEF Return, Frame
  <2>5. /\ config.merge_frame => up'.fragmented = LowAfter(wire)
        /\ up'.type = TypeNow /\ up'.data = DataNow
    BY <1>4, <1>10, <2>2 DEF TypeNow, DataNow
  <2> QED BY <1>1, <1>3, <2>1, <2>4, <2>5, ReadCourse
<1>13. ~MergeRejects
  <2> SUFFICES ASSUME MergeRejects PROVE FALSE
    OBVIOUS
  <2>1. PICK r \in Returned(TRUE) :
            /\ config.merge_frame
            /\ \/ wire.code = "Continue" /\ ~up.fragmented
               \/ wire.code \in Data /\ up.fragmented
               \/ MayBeInvalid(r.data)
    BY DEF MergeRejects
  <2>2. ~MayBeInvalid(r.data)
    BY <1>2, <1>9 DEF MayBeInvalid, OnWire
  <2> QED BY <1>2, <1>4, <2>1, <2>2 DEF OnWire, Data
<1>14. CASE MergeStart
  <2>1. PICK r \in Returned(TRUE) :
            de' = r.de /\ up' = [fragmented |-> TRUE, type |-> wire.code, data |-> r.data]
    BY <1>14 DEF MergeStart
  <2>2. wire.code \in Data /\ ~wire.fin /\ got' = got /\ config.merge_frame
    BY <1>14 DEF MergeStart
  <2>3. wire.due = <<>>
    BY <1>9, <2>1, <2>2 DEF Expected
  <2>4. got' = got \o wire.due
    BY <1>2, <2>2, <2>3, ConcatEmptySeq
  <2>5. LowAfter(wire) = TRUE
    BY <1>10, <2>2 DEF Data
  <2>6. up'.fragmented = TRUE /\ up'.type = wire.code /\ up'.data = wire.data
    BY <1>9, <2>1, <2>2
  <2>7. up'.fragmented = LowAfter(wire) /\ up'.type = TypeNow /\ up'.data = DataNow
    BY <1>1, <2>2, <2>5, <2>6 DEF TypeNow, DataNow
  <2> QED BY <1>1, <1>3, <2>1, <2>4, <2>7, ReadCourse
<1>15. CASE MergeWhole
  <2>1. PICK r \in Returned(TRUE) :
            de' = r.de /\ up' = [up EXCEPT !.data = r.data] /\ Return(wire, r.data)
    BY <1>15 DEF MergeWhole
  <2>2. wire.code \in Data /\ wire.fin /\ ~up.fragmented
    BY <1>15 DEF MergeWhole
  <2>3. wire.due = <<[code |-> wire.code, fin |-> wire.fin, body |-> r.data]>>
    BY <1>9, <2>1, <2>2 DEF Expected
  <2>4. got' = got \o wire.due
    BY <1>2, <1>7, <1>8, <2>1, <2>3 DEF Return, Frame
  <2>5. LowAfter(wire) = FALSE
    BY <1>10, <2>2 DEF Data
  <2>6. up'.fragmented = FALSE
    BY <1>2, <2>1, <2>2
  <2> QED BY <1>1, <1>3, <2>1, <2>4, <2>5, <2>6, ReadCourse
<1>16. CASE MergeContinue
  <2>1. wire.code = "Continue" /\ config.merge_frame /\ wire.fin = TRUE
    BY <1>2, <1>16 DEF MergeContinue, OnWire, Data
  <2>2. PICK r \in Returned(TRUE) :
            /\ de' = r.de
            /\ up' = [up EXCEPT !.data = up.data \o r.data, !.fragmented = ~wire.fin]
            /\ Return([wire EXCEPT !.code = up.type], up'.data)
    BY <1>16, <2>1 DEF MergeContinue
  <2>3. up'.fragmented = FALSE /\ up'.data = up.data \o r.data
    BY <1>2, <2>1, <2>2
  <2>4. up.type \in Codes /\ up.data \o r.data \in CellSeq
    <3>1. up.data \in CellSeq /\ r.data \in CellSeq
      BY <1>2, <1>8
    <3>2. up.data \o r.data \in CellSeq
      BY <3>1, ConcatProperties DEF CellSeq
    <3> QED BY <1>2, <3>2 DEF Codes
  <2>5. wire.due = <<[code |-> up.type, fin |-> TRUE, body |-> up.data \o r.data]>>
    BY <1>9, <2>1, <2>2 DEF Expected, Data
  <2>6. /\ [wire EXCEPT !.code = up.type].code = up.type
        /\ [wire EXCEPT !.code = up.type].fin = wire.fin
    BY <1>2 DEF Frame
  <2>7. got' = Append(got, [code |-> up.type, fin |-> TRUE, body |-> up.data \o r.data])
    BY <2>1, <2>2, <2>3, <2>6 DEF Return
  <2>8. got' = got \o wire.due
    BY <1>7, <2>4, <2>5, <2>7
  <2>9. LowAfter(wire) = FALSE
    BY <1>10, <2>1
  <2> QED BY <1>1, <1>3, <2>2, <2>3, <2>8, <2>9, ReadCourse
<1> QED BY <1>5, <1>6, <1>11, <1>12, <1>13, <1>14, <1>15, <1>16

LEMMA ReadsCourse ==
    ASSUME Typed, Course, wire # NoFrame, \A r \in ReceiveOne(wire) : Good(r),
           \/ LowRejects \/ InflateFails \/ PassFrame \/ PassControl
           \/ MergeRejects \/ MergeStart \/ MergeWhole \/ MergeContinue
    PROVE  /\ Course' /\ Take /\ got' = got \o wire.due
           /\ \E r \in ReceiveOne(wire) : de' = r.de
BY LongReadsCourse, ShortReadsCourse

LEMMA ReadsFlow ==
    ASSUME Typed, Flow, Agree, KeepsUp,
           \/ LowRejects \/ InflateFails \/ PassFrame \/ PassControl
           \/ MergeRejects \/ MergeStart \/ MergeWhole \/ MergeContinue
    PROVE  Flow'
<1>1. wire # NoFrame
  BY DEF LowRejects, InflateFails, PassFrame, PassControl, MergeRejects, MergeStart, MergeWhole,
         MergeContinue, Take
<1>2. Course /\ \A r \in ReceiveOne(wire) : Good(r) /\ Kept(r)
  BY <1>1, FlowGood DEF Flow
<1>3. Course' /\ Take /\ got' = got \o wire.due
  BY <1>1, <1>2, ReadsCourse
<1>4. \E r \in ReceiveOne(wire) : de' = r.de
  BY <1>1, <1>2, ReadsCourse
<1>5. /\ wire' = NoFrame /\ UNCHANGED <<conf, writer, com, blocks, sent>>
  BY <1>3 DEF Take, handshake
<1>6. de'.status = "sync" /\ de'.next = Last + 1 /\ de'.since <= com.since
  BY <1>2, <1>4 DEF Kept
<1>7. Aligned' /\ Intact'
  BY <1>5, <1>6 DEF Flow, Aligned, Intact, Last
<1>8. got' \in Seq(Result) /\ sent' = got' /\ Owed' = <<>>
  <2>1. wire.due \in Seq(Result) /\ got \in Seq(Result)
    BY <1>1 DEF Typed, TypeOK, Frame
  <2>2. got' \in Seq(Result)
    BY <1>3, <2>1, ConcatProperties
  <2> QED BY <1>1, <1>3, <1>5, <2>2 DEF Flow, Owed
<1>9. (sent = got \o Owed)'
  BY <1>8, ConcatEmptySeq
<1> QED BY <1>3, <1>7, <1>9 DEF Flow

LEMMA TrafficSteps ==
    ASSUME Next, ~ServerRefuses, ~ServerAnswers, ~ClientChecks
    PROVE  writer' = writer /\ faults \subseteq faults' /\ (phase = "open" \/ wire # NoFrame)
<1>1. CASE Send \/ SendOwnedFrame \/ PeerFragments \/ PeerFragmentsCompressed \/ PeerSetsRsv1
  BY <1>1 DEF Send, SendOwnedFrame, PeerFragments, PeerFragmentsCompressed, PeerSetsRsv1,
              PeerCall, Call, handshake
<1>2. CASE WritePlain \/ PlainUnwritten
  BY <1>2 DEF WritePlain, PlainUnwritten, Write, handshake, Ready
<1>3. CASE WriteCompressed
  BY <1>3 DEF WriteCompressed, Write, handshake, Ready
<1>4. CASE CompressFails
  BY <1>4 DEF CompressFails, handshake, Ready
<1>5. CASE SendUnwritten \/ OwnedUnwritten
  BY <1>5 DEF SendUnwritten, OwnedUnwritten, Unwritten, handshake, Ready
<1>6. CASE PeerWrites
  BY <1>6 DEF PeerWrites, Write, handshake, Ready
<1>7. CASE LowRejects \/ InflateFails \/ PassFrame \/ PassControl
  BY <1>7 DEF LowRejects, InflateFails, PassFrame, PassControl, Take, handshake
<1>8. CASE MergeRejects \/ MergeStart \/ MergeWhole \/ MergeContinue
  BY <1>8 DEF MergeRejects, MergeStart, MergeWhole, MergeContinue, Take, handshake
<1> QED BY <1>1, <1>2, <1>3, <1>4, <1>5, <1>6, <1>7, <1>8 DEF Next

LEMMA FlowingInductive == Typed /\ Handshaken /\ Flowing /\ [Next]_vars => Flowing'
<1> SUFFICES ASSUME Typed, Handshaken, Flowing, [Next]_vars PROVE Flowing'
  OBVIOUS
<1>1. CASE ServerRefuses \/ ServerAnswers \/ ClientChecks
  BY <1>1, HandshakeFlowing
<1>2. CASE UNCHANGED vars
  <2>1. UNCHANGED <<phase, header, conf, writer, config, com, blocks, todo, wire, low, up, de, got,
                    sent, faults, calls>>
    BY <1>2 DEF vars, handshake, reader
  <2>2. Unused' <=> Unused
    BY <2>1 DEF Unused
  <2>3. KeepsUp' <=> KeepsUp
    BY <2>1 DEF KeepsUp, peer
  <2>4. Flow => Flow'
    <3>1. OnWire(wire)' <=> OnWire(wire)
      BY <2>1 DEF OnWire, Expected, Piece, Last
    <3>2. (Aligned' <=> Aligned) /\ (Intact' <=> Intact)
      BY <2>1 DEF Aligned, Intact, Last
    <3>3. LowNow' = LowNow /\ (Lined(todo, LowNow)' <=> Lined(todo, LowNow))
      BY <2>1 DEF LowNow, LowAfter, Lined, FirstChunk
    <3>4. Begins(todo[Len(todo)])' <=> Begins(todo[Len(todo)])
      BY <2>1 DEF Begins, TypeNow, DataNow
    <3> QED BY <2>1, <3>1, <3>2, <3>3, <3>4 DEF Flow, Course, Owed
  <2> QED BY <2>1, <2>2, <2>3, <2>4 DEF Flowing
<1>3. CASE Next /\ ~ServerRefuses /\ ~ServerAnswers /\ ~ClientChecks
  <2>1. /\ conf' = conf /\ writer' = writer /\ faults \subseteq faults'
        /\ phase' \in {phase, "panicked"} /\ (phase = "open" \/ wire # NoFrame)
    BY <1>3, TrafficKeepsAgreement, TrafficSteps
  <2>2. phase \notin {"offered", "answered"}
    BY <2>1 DEF Flowing, Unused
  <2>3. conf["server"] = conf["client"]
    BY <2>1 DEF Flowing, Unused, Handshaken
  <2>4. Agree
    BY <2>3 DEF Agree, Flowing
  <2>5. ASSUME faults' = {}, KeepsUp' PROVE Flow'
    <3>1. KeepsUp /\ faults = {}
      BY <2>1, <2>5 DEF KeepsUp, peer
    <3>2. Flow
      BY <3>1, UnusedFlows DEF Flowing
    <3> QED BY <1>3, <2>4, <2>5, <3>1, <3>2, CallsFlow, WritesFlow, ReadsFlow DEF Next
  <2> QED BY <2>1, <2>2, <2>3, <2>5 DEF Flowing
<1> QED BY <1>1, <1>2, <1>3

(* As long as nothing was damaged and the reader keeps up, the reader returns what
   was sent, whole and in order, through every mixture of compressed, plain,
   fragmented and control frames, for every window, size and number of calls. *)
THEOREM MessagesArriveAlways == Spec => []MessagesArrive
<1>1. Flowing => MessagesArrive
  <2> SUFFICES ASSUME Flowing, faults = {}, KeepsUp PROVE sent = got \o Owed
    BY DEF MessagesArrive
  <2>1. Flow
    BY UnusedFlows DEF Flowing
  <2> QED BY <2>1 DEF Flow
<1> QED BY <1>1, InitTyped, TypedInductive, HandshakenInductive, InitFlowing, FlowingInductive,
           PTL DEF Spec

-----------------------------------------------------------------------------
(* Damage without context takeover.  Both ends forget every block, so that a block
   the writer cut short leaves no trace in the windows: the decompressor waits for
   the next block whatever it made of this one, unless it failed for good.  Then
   every compressed message is an error, and the message it failed on was cut. *)

\* An error was returned for a message that was cut short.
Broken == \E j \in 1 .. Len(got) : got[j] = Error /\ Spoiled(sent[j])

\* The windows of both ends begin with the block to come.
Contextless ==
    /\ com.pending = <<>> /\ com.since = Last + 1
    /\ \/ /\ de.status = "sync" /\ de.since = de.next
          /\ de.next = IF wire # NoFrame /\ wire.cells THEN Last ELSE Last + 1
       \/ de.status = "bad" /\ Broken

\* The frame holds the beginning of the last block, all of it if it was given out whole.
FromNewest ==
    wire # NoFrame /\ wire.cells =>
        /\ Newest.whole => wire.data = Block(Last, Newest.z)
        /\ wire.data # <<>> => wire.data[1] = <<Last, 1>>

\* What was returned is what was sent, but for the messages that were cut short
\* and the errors that follow an error for one of them.
Apart(i) ==
    \/ got[i] = sent[i]
    \/ Spoiled(sent[i])
    \/ got[i] = Error /\ \E j \in 1 .. i - 1 : got[j] = Error /\ Spoiled(sent[j])

Matched ==
    /\ Len(sent) = Len(got) + Len(Owed)
    /\ \A i \in 1 .. Len(got) : Apart(i)
    /\ \A i \in 1 .. Len(Owed) : sent[Len(got) + i] = Owed[i]

Contained ==
    /\ Matched
    /\ \A b \in DOMAIN blocks : blocks[b].z >= 1 /\ blocks[b].back = 0
    /\ phase = "open" => Course /\ Contextless /\ FromNewest
    /\ phase # "open" => wire = NoFrame

Containing == ResetBoth /\ faults \subseteq {"cut"} => Unused \/ Contained

LEMMA ResetEnds ==
    ASSUME Typed, ResetBoth
    PROVE  /\ conf[writer] # NoPMD /\ Resets(conf[writer], writer)
           /\ conf[peer] # NoPMD /\ Resets(conf[peer], peer)
           /\ Reach[Window(conf[peer], peer)] \in Nat
<1>1. writer \in {"client", "server"} /\ peer \in {"client", "server"}
  BY DEF Typed, TypeOK, Roles, peer
<1>2. conf[peer] \in PMDConfig /\ conf[peer] # NoPMD /\ conf[writer] # NoPMD
  BY <1>1 DEF Typed, TypeOK, Roles, ResetBoth
<1>3. Window(conf[peer], peer) \in WindowBit
  BY <1>1, <1>2 DEF Window, PMDConfig
<1> QED BY <1>1, <1>2, <1>3, ReachAssumption DEF ResetBoth

LEMMA UnusedContained ==
    ASSUME Unused
    PROVE  Contained
<1>1. Last = 0 /\ DOMAIN blocks = {} /\ Len(sent) = 0 /\ Len(got) = 0 /\ wire = NoFrame
  BY DEF Unused, Last
<1>2. Owed = <<>> /\ Len(Owed) = 0
  BY <1>1 DEF Owed
<1>3. Matched
  BY <1>1, <1>2 DEF Matched
<1>4. Contextless /\ FromNewest
  BY <1>1 DEF Unused, Contextless, FromNewest
<1>5. Course
  BY UnusedFlows DEF Flow
<1> QED BY <1>1, <1>3, <1>4, <1>5 DEF Contained

-----------------------------------------------------------------------------
(* What is matched stays matched. *)

\* The history grows.
Longer ==
    /\ DOMAIN blocks \subseteq DOMAIN blocks'
    /\ \A b \in DOMAIN blocks : blocks'[b] = blocks[b]

LEMMA HistoryGrows ==
    ASSUME Longer, Len(got) \in Nat, Len(got') \in Nat, Len(got) <= Len(got'),
           \A k \in 1 .. Len(got) : got'[k] = got[k] /\ sent'[k] = sent[k]
    PROVE  /\ \A i \in 1 .. Len(got) : Apart(i) => Apart(i)'
           /\ Broken => Broken'
<1>1. \A m : Damaged(m) => Damaged(m)'
  BY DEF Longer, Damaged
<1>2. \A x : Spoiled(x) => Spoiled(x)'
  BY <1>1 DEF Spoiled
<1>3. \A k \in 1 .. Len(got) : Spoiled(sent[k]) => Spoiled(sent[k])'
  BY <1>2
<1>4. ASSUME NEW i \in 1 .. Len(got), Apart(i) PROVE Apart(i)'
  <2>1. CASE got[i] = sent[i] \/ Spoiled(sent[i])
    BY <1>3, <1>4, <2>1 DEF Apart
  <2>2. CASE got[i] = Error /\ \E j \in 1 .. i - 1 : got[j] = Error /\ Spoiled(sent[j])
    <3>1. PICK j \in 1 .. i - 1 : got[j] = Error /\ Spoiled(sent[j])
      BY <2>2
    <3>2. j \in 1 .. Len(got) /\ Error' = Error
      BY <1>4 DEF Error
    <3>3. got'[i] = Error' /\ got'[j] = Error' /\ Spoiled(sent[j])'
      BY <1>3, <1>4, <2>2, <3>1, <3>2
    <3> QED BY <3>3 DEF Apart
  <2> QED BY <1>4, <2>1, <2>2 DEF Apart
<1>5. ASSUME Broken PROVE Broken'
  <2>1. PICK j \in 1 .. Len(got) : got[j] = Error /\ Spoiled(sent[j])
    BY <1>5 DEF Broken
  <2>2. j \in 1 .. Len(got') /\ got'[j] = Error' /\ Spoiled(sent[j])'
    BY <1>3, <2>1 DEF Error
  <2> QED BY <2>2 DEF Broken
<1> QED BY <1>4, <1>5

LEMMA MatchedKept ==
    ASSUME Len(got) \in Nat, Matched, Longer, UNCHANGED <<sent, got, wire>>
    PROVE  Matched' /\ (Broken => Broken')
<1>1. \A i \in 1 .. Len(got) : Apart(i)'
  BY HistoryGrows DEF Matched
<1>2. Owed' = Owed
  BY DEF Owed
<1>3. Broken => Broken'
  BY HistoryGrows
<1> QED BY <1>1, <1>2, <1>3 DEF Matched

LEMMA OwedType ==
    ASSUME Typed
    PROVE  /\ Owed \in Seq(Result) /\ got \in Seq(Result) /\ sent \in Seq(Result)
           /\ Len(Owed) \in Nat /\ Len(got) \in Nat /\ Len(sent) \in Nat
<1>1. \A S : <<>> \in Seq(S)
  OBVIOUS
<1>2. Owed \in Seq(Result) /\ got \in Seq(Result) /\ sent \in Seq(Result)
  BY <1>1 DEF Typed, TypeOK, Owed, Frame
<1> QED BY <1>2, LenProperties

LEMMA MatchedWritten ==
    ASSUME Typed, Ready, Matched, Longer, NEW c \in Chunk, NEW cells, NEW data,
           Write(c, cells, data)
    PROVE  Matched' /\ (Broken => Broken')
<1> DEFINE due == Due(c)
<1>1. sent' = sent \o due /\ Owed' = due /\ got' = got /\ Owed = <<>>
  BY WriteOwes
<1>2. due \in Seq(Result)
  BY DueType
<1> HIDE DEF due
<1>3. /\ sent \in Seq(Result) /\ Len(got) \in Nat /\ Len(sent) \in Nat /\ Len(due) \in Nat
      /\ Len(sent) = Len(got)
  <2>1. Len(Owed) = 0
    BY <1>1
  <2> QED BY <1>2, <2>1, OwedType, LenProperties DEF Matched
<1>4. /\ Len(sent \o due) = Len(sent) + Len(due)
      /\ \A i \in 1 .. Len(sent) + Len(due) :
             (sent \o due)[i] = IF i <= Len(sent) THEN sent[i] ELSE due[i - Len(sent)]
  BY <1>2, <1>3, ConcatProperties
<1>5. \A i \in 1 .. Len(got) : sent'[i] = sent[i]
  BY <1>1, <1>3, <1>4
<1>6. \A i \in 1 .. Len(due) : sent'[Len(got) + i] = due[i]
  BY <1>1, <1>3, <1>4
<1>7. /\ \A i \in 1 .. Len(got) : Apart(i) => Apart(i)'
      /\ Broken => Broken'
  BY <1>1, <1>3, <1>5, HistoryGrows
<1>8. \A i \in 1 .. Len(got) : Apart(i)
  BY DEF Matched
<1>9. (\A i \in 1 .. Len(got) : Apart(i))'
  BY <1>1, <1>7, <1>8
<1>10. (Len(sent) = Len(got) + Len(Owed))'
  BY <1>1, <1>3, <1>4
<1>11. (\A i \in 1 .. Len(Owed) : sent[Len(got) + i] = Owed[i])'
  BY <1>1, <1>6
<1> QED BY <1>7, <1>9, <1>10, <1>11 DEF Matched

\* The reader returns what is owed.
LEMMA MatchedRead ==
    ASSUME Typed, Matched, UNCHANGED <<sent, blocks>>, got' = got \o Owed, wire' = NoFrame
    PROVE  Matched' /\ (Broken => Broken')
<1>1. Owed' = <<>> /\ Len(<<>>) = 0 /\ Longer
  BY DEF Owed, Longer
<1> DEFINE due == Owed
<1>2. due \in Seq(Result) /\ got \in Seq(Result) /\ Len(due) \in Nat /\ Len(got) \in Nat
  BY OwedType
<1>3. /\ Len(sent) = Len(got) + Len(due)
      /\ \A i \in 1 .. Len(got) : Apart(i)
      /\ \A i \in 1 .. Len(due) : sent[Len(got) + i] = due[i]
  BY DEF Matched
<1>6. got' = got \o due
  BY DEF due
<1> HIDE DEF due
<1>4. /\ Len(got') = Len(got) + Len(due)
      /\ \A i \in 1 .. Len(got) + Len(due) :
             got'[i] = IF i <= Len(got) THEN got[i] ELSE due[i - Len(got)]
  BY <1>2, <1>6, ConcatProperties
<1>5. /\ \A i \in 1 .. Len(got) : Apart(i) => Apart(i)'
      /\ Broken => Broken'
  <2>1. \A k \in 1 .. Len(got) : got'[k] = got[k]
    BY <1>2, <1>4
  <2>2. Len(got') \in Nat /\ Len(got) <= Len(got')
    BY <1>2, <1>4
  <2> QED BY <1>1, <1>2, <2>1, <2>2, HistoryGrows
<1>7. \A i \in 1 .. Len(got) + Len(due) : Apart(i)'
  <2> SUFFICES ASSUME NEW i \in 1 .. Len(got) + Len(due)
               PROVE  Apart(i)'
    OBVIOUS
  <2>1. CASE i <= Len(got)
    BY <1>2, <1>3, <1>5, <2>1
  <2>2. CASE ~(i <= Len(got))
    <3>1. i - Len(got) \in 1 .. Len(due) /\ Len(got) + (i - Len(got)) = i
      BY <1>2, <2>2
    <3>2. sent[Len(got) + (i - Len(got))] = due[i - Len(got)]
      BY <1>3, <3>1
    <3>3. got'[i] = sent'[i]
      BY <1>4, <2>2, <3>1, <3>2
    <3> QED BY <3>3 DEF Apart
  <2> QED BY <2>1, <2>2
<1>8. (Len(sent) = Len(got) + Len(Owed))'
  BY <1>1, <1>2, <1>3, <1>4
<1>9. (\A i \in 1 .. Len(got) : Apart(i))'
  BY <1>4, <1>7
<1>10. (\A i \in 1 .. Len(Owed) : sent[Len(got) + i] = Owed[i])'
  BY <1>1
<1> QED BY <1>5, <1>8, <1>9, <1>10 DEF Matched

\* The reader returns something else for a message the writer cut short, or an error
\* once it is broken.
LEMMA MatchedOther ==
    ASSUME Typed, Matched, UNCHANGED <<sent, blocks>>, NEW m \in Result, got' = Append(got, m),
           wire' = NoFrame, Len(Owed) = 1, Spoiled(Owed[1]) \/ (m = Error /\ Broken)
    PROVE  Matched' /\ (m = Error \/ Broken => Broken')
<1> SUFFICES ASSUME NEW n \in Nat, n = Len(got)
             PROVE  Matched' /\ (m = Error \/ Broken => Broken')
  BY OwedType
<1>1. Owed' = <<>> /\ Len(<<>>) = 0 /\ Longer /\ Error' = Error
  BY DEF Owed, Longer, Error
<1>2. got \in Seq(Result) /\ Len(got) \in Nat
  BY OwedType
<1>3. /\ Len(got') = Len(got) + 1 /\ got'[Len(got) + 1] = m
      /\ \A i \in 1 .. Len(got) : got'[i] = got[i]
  BY <1>2, AppendProperties
<1>4. /\ Len(sent) = Len(got) + 1
      /\ \A i \in 1 .. Len(got) : Apart(i)
      /\ sent[Len(got) + 1] = Owed[1]
  BY DEF Matched
<1>5. /\ \A i \in 1 .. Len(got) : Apart(i) => Apart(i)'
      /\ Broken => Broken'
  BY <1>1, <1>2, <1>3, HistoryGrows
<1>6. \A x : Spoiled(x) => Spoiled(x)'
  BY DEF Spoiled, Damaged
<1>7. Apart(n + 1)'
  <2>1. CASE Spoiled(Owed[1])
    BY <1>4, <1>6, <2>1 DEF Apart
  <2>2. CASE m = Error /\ Broken
    <3>1. PICK j \in 1 .. Len(got) : got[j] = Error /\ Spoiled(sent[j])
      BY <2>2 DEF Broken
    <3>2. j \in 1 .. (n + 1) - 1 /\ got'[j] = Error' /\ Spoiled(sent[j])'
      BY <1>1, <1>2, <1>3, <1>6, <3>1
    <3>3. got'[n + 1] = Error'
      BY <1>1, <1>3, <2>2
    <3> QED BY <3>2, <3>3 DEF Apart
  <2> QED BY <2>1, <2>2
<1>8. \A i \in 1 .. n + 1 : Apart(i)'
  <2> SUFFICES ASSUME NEW i \in 1 .. n + 1 PROVE Apart(i)'
    OBVIOUS
  <2>1. CASE i \in 1 .. n
    BY <1>4, <1>5, <2>1
  <2>2. CASE i = n + 1
    BY <1>7, <2>2
  <2> QED BY <1>2, <2>1, <2>2
<1>9. ASSUME m = Error, Spoiled(Owed[1]) PROVE Broken'
  <2>1. n + 1 \in 1 .. Len(got')
    BY <1>2, <1>3
  <2>2. got'[n + 1] = Error' /\ Spoiled(sent[n + 1])'
    BY <1>1, <1>3, <1>4, <1>6, <1>9
  <2> QED BY <2>1, <2>2 DEF Broken
<1>10. (\A i \in 1 .. Len(got) : Apart(i))'
  BY <1>3, <1>8
<1> QED BY <1>1, <1>2, <1>3, <1>4, <1>5, <1>9, <1>10 DEF Matched

-----------------------------------------------------------------------------
(* Calls and writes. *)

LEMMA CallsContained ==
    ASSUME Typed, Contained, phase = "open", faults' \subseteq {"cut"},
           Send \/ SendOwnedFrame \/ PeerFragments \/ PeerFragmentsCompressed \/ PeerSetsRsv1
    PROVE  Contained'
<1>1. Course'
  BY CallsCourse DEF Contained
<1>2. UNCHANGED <<phase, conf, writer, com, blocks, wire, de, got, sent>>
  BY CallsKeep
<1>3. Matched' /\ (Broken => Broken')
  BY <1>2, OwedType, MatchedKept DEF Contained, Longer
<1>4. Contextless' /\ FromNewest'
  BY <1>2, <1>3 DEF Contained, Contextless, FromNewest, Newest, Last
<1> QED BY <1>1, <1>2, <1>3, <1>4 DEF Contained

LEMMA WritePlainContained ==
    ASSUME Typed, Contained, WritePlain
    PROVE  Contained'
<1>1. phase = "open"
  BY DEF WritePlain, Ready
<1>2. /\ Course' /\ wire' # NoFrame /\ ~wire'.cells
      /\ UNCHANGED <<phase, conf, writer, com, blocks, de, faults>> /\ Ready
      /\ Head(todo) \in Chunk /\ Write(Head(todo), FALSE, <<Head(todo).piece>>)
  BY <1>1, WritePlainCourse DEF Contained
<1>3. Longer
  BY <1>2 DEF Longer
<1>4. Matched' /\ (Broken => Broken')
  <2> SUFFICES ASSUME NEW c \in Chunk, NEW data, Write(c, FALSE, data)
               PROVE  Matched' /\ (Broken => Broken')
    BY <1>2
  <2> QED BY <1>2, <1>3, MatchedWritten DEF Contained
<1>5. Contextless'
  BY <1>1, <1>2, <1>4 DEF Contained, Contextless, Last, Ready
<1>6. FromNewest'
  BY <1>2 DEF FromNewest
<1> QED BY <1>1, <1>2, <1>4, <1>5, <1>6 DEF Contained

\* The history after a block without context.
LEMMA BlockIsNext ==
    ASSUME Typed, ResetBoth, Contained, Ready, NEW c \in Chunk, c.via # "plain",
           NEW n \in Nat, n = Len(blocks), NEW z, NEW back \in Nat, Fed(c, n + 1, back, z),
           NEW r, r.pending \in CellSeq, blocks' = Packed(c, r, back, z)
    PROVE  /\ Longer /\ Len(blocks') = n + 1
           /\ \A b \in DOMAIN blocks' : blocks'[b].z >= 1 /\ blocks'[b].back = 0
<1>1. /\ Typed /\ c \in Chunk /\ c.via # "plain" /\ back \in Nat
      /\ <<c.size, z>> \in Packings /\ r.pending \in CellSeq
  BY DEF Fed
<1>2. LET q == Packed(c, r, back, z)
      IN /\ q \in Seq(BlockRec) /\ Len(q) = Len(blocks) + 1 /\ Len(blocks) \in Nat
         /\ DOMAIN q = 1 .. Len(blocks) + 1 /\ DOMAIN blocks = 1 .. Len(blocks)
         /\ \A i \in 1 .. Len(blocks) : q[i] = blocks[i]
         /\ q[Len(blocks) + 1].piece = c.piece /\ q[Len(blocks) + 1].size = c.size
         /\ q[Len(blocks) + 1].back = back /\ q[Len(blocks) + 1].z = z
         /\ q[Len(blocks) + 1].via = c.via
         /\ q[Len(blocks) + 1].whole <=> r.pending = <<>>
  BY ONLY <1>1, PackedIs
<1>3. /\ Len(blocks') = n + 1 /\ DOMAIN blocks' = 1 .. n + 1 /\ DOMAIN blocks = 1 .. n
      /\ \A i \in 1 .. n : blocks'[i] = blocks[i]
      /\ blocks'[n + 1].back = back /\ blocks'[n + 1].z = z
  BY <1>2
<1>4. z >= 1
  BY <1>1, PackingsAssumption
<1>5. back = 0
  <2>1. com.since = n + 1
    BY DEF Contained, Contextless, Ready, Last
  <2> QED BY <2>1 DEF Fed
<1>6. \A b \in 1 .. n : blocks[b].z >= 1 /\ blocks[b].back = 0
  BY <1>3 DEF Contained
<1>7. \A b \in 1 .. n + 1 : blocks'[b].z >= 1 /\ blocks'[b].back = 0
  <2> SUFFICES ASSUME NEW b \in 1 .. n + 1 PROVE blocks'[b].z >= 1 /\ blocks'[b].back = 0
    OBVIOUS
  <2>1. CASE b = n + 1
    BY <1>3, <1>4, <1>5, <2>1
  <2>2. CASE b \in 1 .. n
    BY <1>3, <1>6, <2>2
  <2> QED BY <2>1, <2>2
<1>8. Longer
  BY <1>3 DEF Longer
<1> QED BY <1>3, <1>7, <1>8

LEMMA BlockContained ==
    ASSUME Typed, ResetBoth, Contained, Ready, NEW c \in Chunk, c = Head(todo), Compresses(c),
           NEW n \in Nat, n = Len(blocks), NEW z \in Nat \ {0}, NEW back \in Nat,
           Fed(c, n + 1, back, z), NEW r, r.pending \in CellSeq,
           blocks' = Packed(c, r, back, z), com' = Settled(r.pending, n + 1),
           NEW data, Write(c, TRUE, data), r.pending = <<>> => data = Block(n + 1, z),
           data # <<>> => data[1] = <<n + 1, 1>>
    PROVE  Contained'
<1>1. Course /\ phase = "open" /\ Contextless /\ Matched
  BY DEF Contained, Ready
<1>2. Fed(c, Len(blocks) + 1, back, z)
  OBVIOUS
<1>3. /\ Longer /\ Len(blocks') = n + 1
      /\ \A b \in DOMAIN blocks' : blocks'[b].z >= 1 /\ blocks'[b].back = 0
  <2>1. c.via # "plain"
    BY DEF Compresses
  <2> QED BY <2>1, BlockIsNext
<1>4. Course' /\ wire' # NoFrame /\ wire'.cells /\ wire'.data = data
  BY <1>1, <1>2, BlockCourse
<1>5. UNCHANGED <<phase, conf, writer, de>> /\ wire = NoFrame
  BY <1>1, <1>2, BlockCourse
<1>6. Newest'.z = z /\ (Newest'.whole <=> r.pending = <<>>)
  BY <1>1, <1>2, BlockCourse
<1>7. Matched' /\ (Broken => Broken')
  BY <1>1, <1>3, MatchedWritten
<1>8. Contextless'
  <2>1. com'.pending = <<>> /\ com'.since = n + 2
    BY ResetEnds DEF Settled
  <2>2. Last' = n + 1 /\ Last = n
    BY <1>3 DEF Last
  <2>3. \/ de.status = "sync" /\ de.since = de.next /\ de.next = n + 1
        \/ de.status = "bad" /\ Broken
    BY <1>1, <1>5, <2>2 DEF Contextless
  <2> QED BY <1>4, <1>5, <1>7, <2>1, <2>2, <2>3 DEF Contextless
<1>9. FromNewest'
  <2>1. Last' = n + 1
    BY <1>3 DEF Last
  <2> QED BY <1>4, <1>6, <2>1 DEF FromNewest
<1> QED BY <1>1, <1>3, <1>4, <1>5, <1>7, <1>8, <1>9 DEF Contained

\* What compress gives out begins with the first cell of the block.
LEMMA BeginsBlock ==
    ASSUME NEW b \in Nat, NEW z \in Nat \ {0}, NEW n \in Nat, NEW cap \in Nat,
           NEW r, r = Compress(b, z, n, cap, <<>>), r.ok
    PROVE  /\ Len(r.out) \in Nat
           /\ \A m \in 0 .. Len(r.out) :
                  SubSeq(r.out, 1, m) # <<>> => SubSeq(r.out, 1, m)[1] = <<b, 1>>
           /\ r.out # <<>> => r.out[1] = <<b, 1>>
<1> DEFINE given == Least(Room(n, cap), z + TailLen)
           f == Flushed(b, z)
<1>1. Room(n, cap) \in Nat /\ r.out = SubSeq(f, 1, given)
  <2>1. z \in Nat
    OBVIOUS
  <2>2. Room(n, cap) \in Nat /\ IntoRoom(Compress(b, z, n, cap, <<>>), b, z, Room(n, cap))
    BY <2>1, FreshCompress
  <2> QED BY <2>2 DEF IntoRoom
<1>2. given \in 0 .. z + 4
  BY <1>1 DEF Least, TailLen
<1>3. f = [k \in 1 .. z + 4 |-> <<b, k>>] /\ f \in Seq(Nat \X Nat) /\ Len(f) = z + 4
  <2>1. f = [k \in 1 .. z + 4 |-> <<b, k>>]
    BY DEF Flushed, Block, TailLen
  <2>2. f \in CellSeq /\ Len(f) = z + 4
    BY BlockType DEF Flushed, TailLen
  <2> QED BY <2>1, <2>2 DEF CellSeq
<1> HIDE DEF f, given
<1>4. r.out = [k \in 1 .. given |-> <<b, k>>] /\ given \in Nat
  <2>1. \A m \in 0 .. z + 4 : SubSeq(f, 1, m) = [k \in 1 .. m |-> <<b, k>>]
    BY <1>3
  <2>2. SubSeq(f, 1, given) = [k \in 1 .. given |-> <<b, k>>]
    BY ONLY <1>2, <2>1
  <2>3. given \in Nat
    BY <1>2
  <2> QED BY ONLY <1>1, <2>2, <2>3
<1>5. Len(r.out) = given
  BY <1>4
<1>6. \A m \in 0 .. given : SubSeq(r.out, 1, m) = [k \in 1 .. m |-> <<b, k>>]
  BY <1>4
<1>7. \A m \in Nat : LET s == [k \in 1 .. m |-> <<b, k>>] IN s # <<>> => s[1] = <<b, 1>>
  <2> SUFFICES ASSUME NEW m \in Nat, [k \in 1 .. m |-> <<b, k>>] # <<>>
               PROVE  [k \in 1 .. m |-> <<b, k>>][1] = <<b, 1>>
    OBVIOUS
  <2>1. m # 0
    OBVIOUS
  <2> QED BY <2>1
<1> QED BY <1>2, <1>4, <1>5, <1>6, <1>7

LEMMA WriteCompressedContained ==
    ASSUME Typed, ResetBoth, Contained, WriteCompressed
    PROVE  Contained'
<1>1. Ready /\ Compresses(Head(todo)) /\ com.pending = <<>> /\ phase = "open"
  BY DEF WriteCompressed, Contained, Contextless, Ready
<1>2. /\ Head(todo) \in Chunk /\ Head(todo).size \in Nat /\ Capacity(Head(todo)) \in Nat
      /\ Len(blocks) \in Nat
  <2>1. Head(todo) \in Chunk /\ Len(blocks) \in Nat
    BY <1>1, HeadGenuine, LenProperties DEF Typed, TypeOK, Contained
  <2> QED BY <2>1 DEF Capacity, Chunk
<1> SUFFICES ASSUME NEW c \in Chunk, c = Head(todo), NEW n \in Nat, n = Len(blocks),
                    NEW size \in Nat, size = c.size, NEW cap \in Nat, cap = Capacity(c)
             PROVE  Contained'
  BY <1>2
<1>3. PICK y \in {p[2] : p \in Packings}, back \in 0 .. n :
          LET r == Compress(n + 1, y, size, cap, <<>>)
          IN /\ Fed(c, n + 1, back, y)
             /\ r.ok
             /\ blocks' = Packed(c, r, back, y)
             /\ com' = Settled(r.pending, n + 1)
             /\ IF Len(r.out) < TailLen
                THEN \/ Write(c, TRUE, r.out)
                     \/ /\ phase' = "panicked"
                        /\ UNCHANGED <<header, conf, writer, config, todo, wire, reader, sent, calls>>
                ELSE Write(c, TRUE, SubSeq(r.out, 1, Len(r.out) - TailLen))
  BY <1>1 DEF WriteCompressed
<1>4. y \in Nat \ {0} /\ back \in Nat /\ n + 1 \in Nat
  BY PackingsAssumption
<1> SUFFICES ASSUME NEW z \in Nat, z = y, z # 0, NEW b \in Nat, b = n + 1,
                    NEW r, r = Compress(b, z, size, cap, <<>>)
             PROVE  Contained'
  BY <1>4
<1>5. /\ r.ok /\ Fed(c, b, back, z) /\ blocks' = Packed(c, r, back, z)
      /\ com' = Settled(r.pending, b)
  BY <1>3
<1>6. r.pending \in CellSeq /\ r.out \in CellSeq
  <2>1. Fed(Head(todo), Len(blocks) + 1, back, z) /\ back \in 0 .. Len(blocks)
    BY <1>5
  <2>2. LET q == Compress(Len(blocks) + 1, z, Head(todo).size, Capacity(Head(todo)), com.pending)
        IN q.out \in CellSeq /\ q.pending \in CellSeq
    BY <1>1, <2>1, CompressedChunk DEF Ready
  <2> QED BY <1>1, <2>2
<1>7. /\ Len(r.out) \in Nat /\ (r.out # <<>> => r.out[1] = <<b, 1>>)
      /\ \A m \in 0 .. Len(r.out) : SubSeq(r.out, 1, m) # <<>> => SubSeq(r.out, 1, m)[1] = <<b, 1>>
  <2>1. r = Compress(b, z, size, cap, <<>>) /\ r.ok /\ z \in Nat \ {0}
    BY <1>5
  <2> QED BY ONLY <2>1, BeginsBlock
<1>8. r.pending = <<>> =>
          Len(r.out) = z + TailLen /\ SubSeq(r.out, 1, Len(r.out) - TailLen) = Block(b, z)
  <2> SUFFICES ASSUME r.pending = <<>>
               PROVE  Len(r.out) = z + TailLen
                      /\ SubSeq(r.out, 1, Len(r.out) - TailLen) = Block(b, z)
    OBVIOUS
  <2>1. r = Compress(b, z, size, cap, <<>>) /\ r.ok /\ r.pending = <<>>
    BY <1>5
  <2> QED BY ONLY <2>1, WholeCompress
<1>9. CASE Len(r.out) < TailLen /\ ~Write(c, TRUE, r.out)
  <2>1. phase' = "panicked" /\ UNCHANGED <<wire, reader, sent>>
    BY <1>3, <1>9
  <2>2. c.via # "plain"
    BY <1>1 DEF Compresses
  <2>3. Longer /\ \A i \in DOMAIN blocks' : blocks'[i].z >= 1 /\ blocks'[i].back = 0
    BY <1>1, <1>4, <1>5, <1>6, <2>2, BlockIsNext
  <2>4. Matched'
    BY <2>1, <2>3, OwedType, MatchedKept DEF Contained, reader
  <2>5. wire' = NoFrame
    BY <1>1, <2>1 DEF Ready
  <2> QED BY <2>1, <2>3, <2>4, <2>5 DEF Contained
<1>10. CASE Len(r.out) < TailLen /\ Write(c, TRUE, r.out)
  <2> DEFINE data == r.out
  <2>1. r.pending # <<>>
    BY <1>8, <1>10 DEF TailLen
  <2>2. Write(c, TRUE, data) /\ (data # <<>> => data[1] = <<b, 1>>)
    BY <1>7, <1>10
  <2> HIDE DEF data
  <2>3. /\ Fed(c, n + 1, back, z) /\ com' = Settled(r.pending, n + 1)
        /\ data # <<>> => data[1] = <<n + 1, 1>>
        /\ r.pending = <<>> => data = Block(n + 1, z)
    BY <1>5, <2>1, <2>2
  <2> QED BY <1>1, <1>4, <1>5, <1>6, <2>2, <2>3, BlockContained
<1>11. CASE ~(Len(r.out) < TailLen)
  <2> DEFINE data == SubSeq(r.out, 1, Len(r.out) - TailLen)
  <2>1. Len(r.out) - TailLen \in 0 .. Len(r.out)
    BY <1>7, <1>11 DEF TailLen
  <2>2. Write(c, TRUE, data) /\ (data # <<>> => data[1] = <<b, 1>>)
    BY <1>3, <1>7, <1>11, <2>1
  <2>3. r.pending = <<>> => data = Block(b, z)
    BY <1>8
  <2> HIDE DEF data
  <2>4. /\ Fed(c, n + 1, back, z) /\ com' = Settled(r.pending, n + 1)
        /\ data # <<>> => data[1] = <<n + 1, 1>>
        /\ r.pending = <<>> => data = Block(n + 1, z)
    BY <1>5, <2>2, <2>3
  <2> QED BY <1>1, <1>4, <1>5, <1>6, <2>2, <2>4, BlockContained
<1> QED BY <1>9, <1>10, <1>11

LEMMA GivenUpContained ==
    ASSUME Typed, Contained, PlainUnwritten \/ CompressFails
    PROVE  Contained'
<1>1. phase = "open" /\ wire = NoFrame /\ Course /\ todo # <<>>
  BY DEF Contained, PlainUnwritten, CompressFails, Ready
<1>2. Course'
  BY <1>1, GivenUpCourse
<1>3. UNCHANGED <<phase, conf, writer, blocks, wire, de, got, sent>>
  BY DEF PlainUnwritten, CompressFails, handshake, reader
<1>4. com' = com
  <2>1. CASE PlainUnwritten
    BY <2>1 DEF PlainUnwritten
  <2>2. CASE CompressFails
    <3> DEFINE c == Head(todo)
               n == Len(blocks)
               r == Compress(n + 1, 1, c.size, Capacity(c), <<>>)
    <3>1. com.pending = <<>>
      BY <1>1 DEF Contained, Contextless
    <3>2. ~r.ok /\ com' = [com EXCEPT !.pending = r.pending]
      BY <2>2, <3>1 DEF CompressFails
    <3>3. c \in Chunk /\ n \in Nat
      BY <1>1, HeadTailProperties, LenProperties DEF Typed, TypeOK
    <3>4. n + 1 \in Nat /\ c.size \in Nat /\ Capacity(c) \in Nat /\ 1 \in Nat
      BY <3>3 DEF Chunk, Capacity
    <3> HIDE DEF n, c
    <3>5. IntoRoom(Compress(n + 1, 1, c.size, Capacity(c), <<>>), n + 1, 1,
                   Room(c.size, Capacity(c)))
      BY <3>4, FreshCompress
    <3>6. r.pending = <<>>
      BY <3>2, <3>5 DEF IntoRoom
    <3> HIDE DEF r
    <3> QED BY <3>1, <3>2, <3>6 DEF Typed, TypeOK
  <2> QED BY <2>1, <2>2
<1>5. Matched' /\ (Broken => Broken')
  BY <1>3, OwedType, MatchedKept DEF Contained, Longer
<1>6. Contextless' /\ FromNewest'
  BY <1>1, <1>3, <1>4, <1>5 DEF Contained, Contextless, FromNewest, Newest, Last
<1> QED BY <1>2, <1>3, <1>5, <1>6 DEF Contained

LEMMA WritesContained ==
    ASSUME Typed, ResetBoth, Contained, faults' \subseteq {"cut"},
           \/ WritePlain \/ WriteCompressed \/ CompressFails \/ SendUnwritten \/ OwnedUnwritten
           \/ PlainUnwritten \/ PeerWrites
    PROVE  Contained'
<1>1. ~SendUnwritten /\ ~OwnedUnwritten
  BY DEF SendUnwritten, OwnedUnwritten, Unwritten
<1>2. ~PeerWrites
  BY HeadGenuine DEF PeerWrites, Contained, Ready
<1> QED BY <1>1, <1>2, WritePlainContained, WriteCompressedContained, GivenUpContained

-----------------------------------------------------------------------------
(* Reads. *)

\* The decompressor at the beginning of the block to come.
Fresh(d) == d.status = "sync" /\ d.since = Last + 1 /\ d.next = Last + 1

LEMMA InflatedFresh ==
    ASSUME Resets(conf[peer], peer), NEW d, d.next = Last + 1
    PROVE  Fresh(Inflated(d))
BY DEF Inflated, Fresh

LEMMA AstrayFresh ==
    ASSUME Resets(conf[peer], peer), NEW d, NEW status
    PROVE  Fresh(Astray(d, status).de)
<1> DEFINE s == [status |-> status, since |-> Len(blocks) + 1, next |-> Len(blocks) + 1]
<1>1. s.next = Last + 1
  BY DEF Last
<1> HIDE DEF s
<1>2. Fresh(Inflated(s))
  BY <1>1, InflatedFresh
<1>3. Astray(d, status).de = Inflated(s)
  BY DEF Astray, s
<1> QED BY <1>2, <1>3

LEMMA GarbledFresh ==
    ASSUME Resets(conf[peer], peer), NEW f, NEW status, NEW r \in Garbled(f, status), r.ok
    PROVE  Fresh(r.de)
<1>1. r # Bad
  BY DEF Bad
<1>2. PICK d : r = Astray(d, status)
  BY <1>1 DEF Garbled
<1> QED BY <1>2, AstrayFresh

\* What fails leaves the decompressor bad.
LEMMA InflateBad ==
    ASSUME NEW r \in Inflate(wire), r.ok = FALSE
    PROVE  r = Bad
<1>1. \A d, status : Astray(d, status).ok = TRUE
  BY DEF Astray
<1>2. \A f, status : \A q \in Garbled(f, status) : q = Bad \/ q.ok = TRUE
  BY <1>1 DEF Garbled
<1>3. \A b, missing : \A q \in Curtailed(b, missing) : q.ok = TRUE
  BY <1>1 DEF Curtailed
<1> DEFINE whole == {b \in DOMAIN blocks : Whole(wire, b)}
           begun == {b \in DOMAIN blocks : Begun(wire, b) /\ Known(b)}
           step(b) == IF Known(b)
                      THEN {[ok |-> TRUE, data |-> <<blocks[b].piece>>,
                             de |-> Inflated([status |-> "sync", since |-> Since(b),
                                              next |-> b + 1])]}
                      ELSE Garbled(wire, "sync")
           rest(b) == Curtailed(b, blocks[b].z - Len(wire.data))
<1>4. \A b : \A q \in step(b) : q = Bad \/ q.ok = TRUE
  BY <1>2
<1>5. \A b : \A q \in rest(b) : q.ok = TRUE
  BY <1>3
<1>6. Inflate(wire) =
          CASE de.status = "bad"                -> {Bad}
            [] de.status = "lost"               -> Garbled(wire, "lost")
            [] de.status = "sync" /\ whole # {} -> UNION {step(b) : b \in whole}
            [] OTHER -> IF begun = {} THEN Garbled(wire, "lost")
                        ELSE UNION {rest(b) : b \in begun}
  BY DEF Inflate
<1> HIDE DEF whole, begun, step, rest
<1>7. \/ r = Bad \/ r \in Garbled(wire, "lost")
      \/ (\E b \in whole : r \in step(b)) \/ (\E b \in begun : r \in rest(b))
  BY <1>6
<1> QED BY <1>2, <1>4, <1>5, <1>7

LEMMA CurtailedFresh ==
    ASSUME Resets(conf[peer], peer), NEW b, NEW missing, NEW r \in Curtailed(b, missing)
    PROVE  Fresh(r.de)
<1>1. PICK d : r = Astray(d, "lost")
  BY DEF Curtailed
<1> QED BY <1>1, AstrayFresh

(* Whatever the decompressor makes of a frame with cells, if it does not fail it
   waits for the next block. *)
LEMMA InflateFresh ==
    ASSUME Typed, ResetBoth, Contained, phase = "open", wire # NoFrame, wire.cells,
           de.status = "sync", NEW r \in Inflate(wire), r.ok
    PROVE  Fresh(r.de)
<1>1. Resets(conf[peer], peer)
  BY ResetEnds
<1>2. de.status = "sync"
  OBVIOUS
<1> DEFINE whole == {b \in DOMAIN blocks : Whole(wire, b)}
           begun == {b \in DOMAIN blocks : Begun(wire, b) /\ Known(b)}
           step(b) == IF Known(b)
                      THEN {[ok |-> TRUE, data |-> <<blocks[b].piece>>,
                             de |-> Inflated([status |-> "sync", since |-> Since(b),
                                              next |-> b + 1])]}
                      ELSE Garbled(wire, "sync")
           rest(b) == Curtailed(b, blocks[b].z - Len(wire.data))
<1>3. whole \subseteq {Last}
  <2> SUFFICES ASSUME NEW b \in DOMAIN blocks, Whole(wire, b) PROVE b = Last
    OBVIOUS
  <2>1. b \in Nat /\ blocks[b].z \in Nat \ {0}
    <3>1. b \in Nat /\ blocks[b].z \in Nat
      BY PieceType
    <3> QED BY <3>1 DEF Contained
  <2>2. wire.data = Block(b, blocks[b].z) /\ 1 \in 1 .. blocks[b].z
    BY <2>1 DEF Whole
  <2>3. wire.data[1] = <<b, 1>> /\ wire.data # <<>>
    <3>1. wire.data = [k \in 1 .. blocks[b].z |-> <<b, k>>]
      BY <2>2 DEF Block
    <3> QED BY <2>2, <3>1
  <2>4. wire.data[1] = <<Last, 1>>
    BY <2>3 DEF Contained, FromNewest
  <2>5. <<b, 1>> = <<Last, 1>>
    BY <2>3, <2>4
  <2> QED BY <2>5
<1>4. r \in Garbled(wire, "lost") \/ (\E b \in whole : r \in step(b)) \/ (\E b \in begun : r \in rest(b))
  <2>1. Inflate(wire) = IF whole # {} THEN UNION {step(b) : b \in whole}
                        ELSE IF begun = {} THEN Garbled(wire, "lost")
                        ELSE UNION {rest(b) : b \in begun}
    <3> HIDE DEF whole, begun
    <3>1. Inflate(wire) =
              CASE de.status = "bad"                -> {Bad}
                [] de.status = "lost"               -> Garbled(wire, "lost")
                [] de.status = "sync" /\ whole # {} -> UNION {step(b) : b \in whole}
                [] OTHER -> IF begun = {} THEN Garbled(wire, "lost")
                            ELSE UNION {rest(b) : b \in begun}
      BY DEF Inflate, whole, begun
    <3> HIDE DEF step, rest
    <3> QED BY <1>2, <3>1
  <2> HIDE DEF whole, begun, step, rest
  <2> QED BY <2>1
<1> HIDE DEF whole, begun
<1>5. CASE r \in Garbled(wire, "lost")
  BY <1>1, <1>5, GarbledFresh
<1>6. CASE \E b \in begun : r \in rest(b)
  BY <1>1, <1>6, CurtailedFresh
<1>7. CASE \E b \in whole : r \in step(b)
  <2>1. r \in step(Last)
    BY <1>3, <1>7
  <2>2. CASE ~Known(Last)
    BY <1>1, <2>1, <2>2, GarbledFresh
  <2>3. CASE Known(Last)
    <3> DEFINE d == [status |-> "sync", since |-> Since(Last), next |-> Last + 1]
    <3>1. r.de = Inflated(d)
      BY <2>1, <2>3
    <3>2. d.next = Last + 1
      OBVIOUS
    <3> HIDE DEF d
    <3> QED BY <1>1, <3>1, <3>2, InflatedFresh
  <2> QED BY <2>2, <2>3
<1> QED BY <1>4, <1>5, <1>6, <1>7

\* The reader is where it was when it has taken the frame.
LEMMA TakenContained ==
    ASSUME Typed, Contained, phase = "open", Take, Course', Matched',
           Fresh(de') \/ (de'.status = "bad" /\ Broken')
    PROVE  Contained'
<1>1. wire' = NoFrame /\ UNCHANGED <<phase, conf, writer, com, blocks>>
  BY DEF Take, handshake
<1>2. Contextless' /\ FromNewest'
  BY <1>1 DEF Contained, Contextless, FromNewest, Fresh, Last
<1> QED BY <1>1, <1>2 DEF Contained

LEMMA GoodReadContained ==
    ASSUME Typed, Contained, phase = "open", wire # NoFrame,
           \A r \in ReceiveOne(wire) :
               Good(r) /\ (Fresh(r.de) \/ (r.de.status = "bad" /\ Broken)),
           \/ LowRejects \/ InflateFails \/ PassFrame \/ PassControl
           \/ MergeRejects \/ MergeStart \/ MergeWhole \/ MergeContinue
    PROVE  Contained'
<1>1. Course /\ \A r \in ReceiveOne(wire) : Good(r)
  BY DEF Contained
<1>2. Course' /\ Take /\ got' = got \o wire.due
  BY <1>1, ReadsCourse
<1>3. \E r \in ReceiveOne(wire) : de' = r.de
  BY <1>1, ReadsCourse
<1>4. Fresh(de') \/ (de'.status = "bad" /\ Broken)
  BY <1>3
<1>5. wire' = NoFrame /\ UNCHANGED <<sent, blocks>> /\ got' = got \o Owed
  BY <1>2 DEF Take, Owed
<1>6. Matched' /\ (Broken => Broken')
  BY <1>5, MatchedRead DEF Contained
<1> QED BY <1>2, <1>4, <1>6, TakenContained

\* A frame that is no part of a block that was cut short, for a decompressor that
\* has not failed, or a frame that is not compressed.
LEMMA SoundReadContained ==
    ASSUME Typed, ResetBoth, Contained, phase = "open", wire # NoFrame,
           ~wire.cells \/ (Newest.whole /\ de.status = "sync"),
           \/ LowRejects \/ InflateFails \/ PassFrame \/ PassControl
           \/ MergeRejects \/ MergeStart \/ MergeWhole \/ MergeContinue
    PROVE  Contained'
<1>1. Course /\ Contextless /\ FromNewest
  BY DEF Contained
<1>2. ASSUME ~wire.cells, NEW r \in ReceiveOne(wire)
      PROVE  Good(r) /\ (Fresh(r.de) \/ (r.de.status = "bad" /\ Broken))
  <2>1. Good(r) /\ r.de = de
    BY <1>1, <1>2, PlainGood
  <2> QED BY <1>1, <1>2, <2>1 DEF Contextless, Fresh
<1>3. ASSUME wire.cells, NEW r \in ReceiveOne(wire) PROVE Good(r) /\ Fresh(r.de)
  <2>1. /\ Last >= 1 /\ Last \in Nat /\ Last \in DOMAIN blocks /\ de.since = Last /\ de.next = Last
        /\ de.status = "sync" /\ wire.data = Block(Last, blocks[Last].z)
    <3>1. Last \in Nat /\ DOMAIN blocks = 1 .. Last
      BY LenProperties DEF Typed, TypeOK, Last
    <3>2. Last >= 1
      BY <1>1, <1>3 DEF Course, OnWire
    <3> QED BY <1>1, <1>3, <3>1, <3>2 DEF Contextless, FromNewest, Newest
  <2>2. Known(Last)
    <3>1. blocks[Last].back = 0
      BY <2>1 DEF Contained
    <3> QED BY <2>1, <3>1, ResetEnds DEF Known, Since
  <2>3. \A b \in DOMAIN blocks : blocks[b].z >= 1
    BY DEF Contained
  <2> DEFINE d == [status |-> "sync", since |-> Since(Last), next |-> Last + 1]
  <2>4. Good(r) /\ r.de = Inflated(d)
    BY <1>1, <1>3, <2>1, <2>2, <2>3, ResetEnds, WholeGood
  <2>5. d.next = Last + 1
    OBVIOUS
  <2> HIDE DEF d
  <2> QED BY <2>4, <2>5, ResetEnds, InflatedFresh
<1> QED BY <1>2, <1>3, GoodReadContained

\* A compressed frame is a whole message, and the reader is between two messages.
LEMMA CellsFrame ==
    ASSUME Typed, Contained, phase = "open", wire # NoFrame, wire.cells
    PROVE  /\ wire.code \in Data /\ wire.fin = TRUE /\ wire.rsv1 = TRUE /\ wire.long = FALSE
           /\ wire.code # "Ping" /\ wire.code # "Continue" /\ wire \in Frame
           /\ ~LowError(wire) /\ LowAfter(wire) = FALSE
           /\ config.merge_frame => up.fragmented = FALSE
           /\ Len(Owed) = 1 /\ (~Newest.whole => Spoiled(Owed[1]))
<1>1. /\ Course /\ OnWire(wire) /\ wire.code \in Data /\ wire.fin = TRUE /\ low = FALSE
      /\ wire.rsv1 = TRUE /\ wire.code # "Ping" /\ wire.code # "Continue" /\ wire \in Frame
      /\ wire.long = FALSE
  BY DEF Contained, Course, OnWire, Data, Typed, TypeOK, Frame
<1>2. ~LowError(wire) /\ LowAfter(wire) = FALSE
  BY <1>1, LowAccepts DEF LowAfter
<1>3. config.merge_frame => up.fragmented = FALSE
  BY <1>1 DEF Course
<1>4. Owed = <<[code |-> wire.code, fin |-> wire.fin, body |-> <<Piece(wire)>>]>>
  BY <1>1 DEF Owed, OnWire, Expected
<1>5. Len(Owed) = 1 /\ Owed[1].body = <<Piece(wire)>>
  BY <1>4
<1>6. ASSUME ~Newest.whole PROVE Spoiled(Owed[1])
  <2>1. Last \in DOMAIN blocks
    BY <1>1, LenProperties DEF OnWire, Last, Typed, TypeOK
  <2>2. Damaged(Piece(wire)[1])
    BY <1>6, <2>1 DEF Damaged, Piece, Newest
  <2>3. Owed[1].body # <<>> /\ Owed[1].body[1] = Piece(wire)
    BY <1>5
  <2> QED BY <2>2, <2>3 DEF Spoiled
<1> QED BY <1>1, <1>2, <1>3, <1>5, <1>6

\* The reader takes a compressed frame and returns an error.
LEMMA ErrorContained ==
    ASSUME Typed, Contained, phase = "open", wire # NoFrame, wire.cells, Take, Fail, up' = up,
           ~Newest.whole \/ Broken, Fresh(de') \/ de'.status = "bad"
    PROVE  Contained'
<1>1. /\ LowAfter(wire) = FALSE /\ (config.merge_frame => up.fragmented = FALSE)
      /\ Len(Owed) = 1 /\ (~Newest.whole => Spoiled(Owed[1]))
  BY CellsFrame
<1>2. Course'
  BY <1>1, ReadCourse DEF Contained
<1>3. Matched' /\ Broken'
  <2>1. Error \in Result /\ got' = Append(got, Error)
    BY ErrorType DEF Fail
  <2>2. wire' = NoFrame /\ UNCHANGED <<sent, blocks>>
    BY DEF Take
  <2> QED BY <1>1, <2>1, <2>2, MatchedOther DEF Contained
<1> QED BY <1>2, <1>3, TakenContained

\* A decompressor that failed fails on every compressed frame.
LEMMA BrokenReadContained ==
    ASSUME Typed, ResetBoth, Contained, phase = "open", wire # NoFrame, wire.cells,
           de.status = "bad",
           \/ LowRejects \/ InflateFails \/ PassFrame \/ PassControl
           \/ MergeRejects \/ MergeStart \/ MergeWhole \/ MergeContinue
    PROVE  Contained'
<1>1. wire.rsv1 = TRUE /\ wire.code # "Ping" /\ ~LowError(wire)
  BY CellsFrame
<1>2. ReceiveOne(wire) = {Bad}
  <2>1. ReceiveOne(wire) = Inflate(wire)
    BY <1>1, ResetEnds DEF ReceiveOne
  <2>2. Inflate(wire) = {Bad}
    BY DEF Inflate
  <2> QED BY <2>1, <2>2
<1>3. Returned(TRUE) = {}
  BY <1>2 DEF Returned, Bad
<1>4. InflateFails
  BY <1>1, <1>3 DEF LowRejects, PassFrame, PassControl, MergeRejects, MergeStart, MergeWhole,
                    MergeContinue
<1>5. Take /\ Fail /\ up' = up /\ de' = Bad.de
  BY <1>2, <1>4 DEF InflateFails, Returned
<1>6. de'.status = "bad"
  BY <1>5 DEF Bad, Typed, TypeOK
<1>7. Broken
  BY DEF Contained, Contextless
<1> QED BY <1>5, <1>6, <1>7, ErrorContained

\* A message the writer cut short is returned, be it right or wrong, or an error.
LEMMA SpoiledReadContained ==
    ASSUME Typed, ResetBoth, Contained, phase = "open", wire # NoFrame, wire.cells,
           ~Newest.whole, de.status = "sync",
           \/ LowRejects \/ InflateFails \/ PassFrame \/ PassControl
           \/ MergeRejects \/ MergeStart \/ MergeWhole \/ MergeContinue
    PROVE  Contained'
<1>1. Take
  BY DEF LowRejects, InflateFails, PassFrame, PassControl, MergeRejects, MergeStart, MergeWhole,
         MergeContinue
<1>2. /\ wire.code \in Data /\ wire.fin = TRUE /\ wire.rsv1 = TRUE
      /\ wire.code # "Ping" /\ wire.code # "Continue" /\ wire \in Frame
      /\ ~LowError(wire) /\ LowAfter(wire) = FALSE
      /\ config.merge_frame => up.fragmented = FALSE
      /\ Len(Owed) = 1 /\ Spoiled(Owed[1])
  BY CellsFrame
<1>3. \A ok : \A r \in Returned(ok) : r \in Inflate(wire) /\ r.ok = ok /\ r.data \in CellSeq
  <2> SUFFICES ASSUME NEW ok, NEW r \in Returned(ok)
               PROVE  r \in Inflate(wire) /\ r.ok = ok /\ r.data \in CellSeq
    OBVIOUS
  <2>1. r \in ReceiveOne(wire) /\ r.ok = ok
    BY DEF Returned
  <2>2. conf[peer] # NoPMD
    BY ResetEnds
  <2> QED BY <1>2, <2>1, <2>2, ReturnedType DEF ReceiveOne
<1>4. \A r \in Returned(TRUE) : Fresh(r.de)
  BY <1>3, InflateFresh
<1>5. CASE InflateFails
  <2>1. PICK r \in Returned(FALSE) : de' = r.de /\ Fail /\ up' = up
    BY <1>5 DEF InflateFails
  <2>2. r \in Inflate(wire) /\ r.ok = FALSE
    BY <1>3, <2>1
  <2>3. r = Bad
    BY <2>2, InflateBad
  <2>4. de'.status = "bad"
    BY <2>1, <2>3 DEF Bad, Typed, TypeOK
  <2> QED BY <1>1, <2>1, <2>4, ErrorContained
<1>6. CASE MergeRejects
  <2>1. PICK r \in Returned(TRUE) : de' = r.de /\ Fail /\ up' = up
    BY <1>2, <1>6 DEF MergeRejects
  <2> QED BY <1>1, <1>4, <2>1, ErrorContained
<1>7. CASE PassFrame \/ MergeWhole
  <2>1. PICK r \in Returned(TRUE) :
            de' = r.de /\ Return(wire, r.data) /\ (config.merge_frame => up'.fragmented = FALSE)
    <3>1. CASE PassFrame
      BY <3>1 DEF PassFrame
    <3>2. CASE MergeWhole
      <4>1. PICK r \in Returned(TRUE) : /\ de' = r.de /\ up' = [up EXCEPT !.data = r.data]
                                        /\ Return(wire, r.data) /\ ~up.fragmented
        BY <3>2 DEF MergeWhole
      <4>2. up'.fragmented = FALSE
        BY <4>1 DEF Typed, TypeOK
      <4> QED BY <4>1, <4>2
    <3> QED BY <1>7, <3>1, <3>2
  <2>2. Course'
    BY <1>1, <1>2, <2>1, ReadCourse DEF Contained
  <2>3. Matched'
    <3> DEFINE m == [code |-> wire.code, fin |-> wire.fin, body |-> r.data]
    <3>1. m \in Result
      BY <1>2, <1>3 DEF Result, Frame, CellSeq
    <3>2. got' = Append(got, m)
      BY <2>1 DEF Return
    <3> HIDE DEF m
    <3>3. wire' = NoFrame /\ UNCHANGED <<sent, blocks>>
      BY <1>1 DEF Take
    <3> QED BY <1>2, <3>1, <3>2, <3>3, MatchedOther DEF Contained
  <2> QED BY <1>1, <1>4, <2>1, <2>2, <2>3, TakenContained
<1>8. ~LowRejects /\ ~PassControl /\ ~MergeStart /\ ~MergeContinue
  BY <1>2 DEF LowRejects, PassControl, MergeStart, MergeContinue
<1> QED BY <1>5, <1>6, <1>7, <1>8

LEMMA ReadsContained ==
    ASSUME Typed, ResetBoth, Contained,
           \/ LowRejects \/ InflateFails \/ PassFrame \/ PassControl
           \/ MergeRejects \/ MergeStart \/ MergeWhole \/ MergeContinue
    PROVE  Contained'
<1>1. wire # NoFrame
  BY DEF LowRejects, InflateFails, PassFrame, PassControl, MergeRejects, MergeStart, MergeWhole,
         MergeContinue, Take
<1>2. phase = "open"
  BY <1>1 DEF Contained
<1>3. de.status \in {"sync", "bad"}
  BY <1>2 DEF Contained, Contextless
<1> QED BY <1>1, <1>2, <1>3, SoundReadContained, SpoiledReadContained, BrokenReadContained

-----------------------------------------------------------------------------
(* Containing is inductive, together with Flowing, from which it takes that nothing
   was sent before the connection is open. *)
LEMMA ContainingInductive ==
    /\ Init => Containing
    /\ Typed /\ Handshaken /\ Flowing /\ Containing /\ [Next]_vars => Containing'
<1>1. Init => Containing
  BY DEF Init, Containing, ResetBoth, NoPMD, Roles
<1>2. ASSUME Typed, Handshaken, Flowing, Containing, [Next]_vars PROVE Containing'
  <2>1. CASE ServerRefuses \/ ServerAnswers \/ ClientChecks
    <3>1. Unused
      BY <1>2, <2>1 DEF Flowing, ServerRefuses, ServerAnswers, ClientChecks
    <3>2. Unused'
      BY <2>1, <3>1 DEF Unused, ServerRefuses, ServerAnswers, ClientChecks, traffic, reader
    <3> QED BY <3>2 DEF Containing
  <2>2. CASE UNCHANGED vars
    <3>1. UNCHANGED <<phase, header, conf, writer, config, com, blocks, todo, wire, low, up, de, got,
                      sent, faults, calls>>
      BY <2>2 DEF vars, handshake, reader
    <3>2. (Unused' <=> Unused) /\ (ResetBoth' <=> ResetBoth)
      BY <3>1 DEF Unused, ResetBoth
    <3>3. Contained => Contained'
      <4>1. Matched => Matched' /\ (Broken => Broken')
        BY <1>2, <3>1, OwedType, MatchedKept DEF Longer
      <4>2. (Matched /\ Contextless => Contextless') /\ (FromNewest' <=> FromNewest)
        BY <3>1, <4>1 DEF Contextless, FromNewest, Newest, Last
      <4>3. OnWire(wire)' <=> OnWire(wire)
        BY <3>1 DEF OnWire, Expected, Piece, Last
      <4>4. LowNow' = LowNow /\ (Lined(todo, LowNow)' <=> Lined(todo, LowNow))
        BY <3>1 DEF LowNow, LowAfter, Lined, FirstChunk
      <4>5. Begins(todo[Len(todo)])' <=> Begins(todo[Len(todo)])
        BY <3>1 DEF Begins, TypeNow, DataNow
      <4>6. Course => Course'
        BY <3>1, <4>3, <4>4, <4>5 DEF Course
      <4> QED BY <3>1, <4>1, <4>2, <4>6 DEF Contained
    <3> QED BY <1>2, <3>1, <3>2, <3>3 DEF Containing
  <2>3. CASE Next /\ ~ServerRefuses /\ ~ServerAnswers /\ ~ClientChecks
    <3> SUFFICES ASSUME ResetBoth', faults' \subseteq {"cut"} PROVE Contained'
      BY DEF Containing
    <3>1. /\ conf' = conf /\ faults \subseteq faults'
          /\ phase' \in {phase, "panicked"} /\ (phase = "open" \/ wire # NoFrame)
      BY <1>2, <2>3, TrafficKeepsAgreement, TrafficSteps
    <3>2. ResetBoth /\ faults \subseteq {"cut"}
      BY <3>1 DEF ResetBoth
    <3>3. Contained
      BY <1>2, <3>2, UnusedContained DEF Containing
    <3>4. phase = "open"
      BY <3>1, <3>3 DEF Contained
    <3> QED BY <1>2, <2>3, <3>2, <3>3, <3>4, CallsContained, WritesContained, ReadsContained DEF Next
  <2> QED BY <1>2, <2>1, <2>2, <2>3
<1> QED BY <1>1, <1>2

(* Without context takeover at both ends a message the writer cut short spoils no
   other one, for every window, size and number of calls: what is not returned as it
   was sent is such a message, or an error after an error for one. *)
THEOREM DamageIsContainedAlways == Spec => []DamageIsContained
<1>1. Typed /\ Containing => DamageIsContained
  <2> SUFFICES ASSUME Typed, Containing, ResetBoth, faults \subseteq {"cut"}
               PROVE  \A i \in DOMAIN got : Apart(i)
    BY DEF DamageIsContained, Apart
  <2>1. Contained
    BY UnusedContained DEF Containing
  <2>2. DOMAIN got = 1 .. Len(got)
    BY LenProperties DEF Typed, TypeOK
  <2> QED BY <2>1, <2>2 DEF Contained, Matched
<1> QED BY <1>1, InitTyped, TypedInductive, HandshakenInductive, InitFlowing, FlowingInductive,
           ContainingInductive, PTL DEF Spec

=============================================================================
