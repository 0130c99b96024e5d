---------------------------- MODULE OpeningProofs ----------------------------
(***************************************************************************)
(* The opening handshake over every kind of stream, with any capacity of   *)
(* the buffers, any number of frames and crashes anywhere: the head is     *)
(* read to its end and no further, nothing is lost before a split, and the *)
(* two sides agree.                                                        *)
(***************************************************************************)
EXTENDS Opening, SequenceLemmas, FiniteSetTheorems

Places == {"start", "reading", "parse"} \cup Final

Types ==
    /\ kind \in [Peers -> Clients \cup Servers]
    /\ out \in [Peers -> Seq(Tokens)]
    /\ net \in [Peers -> Seq(Tokens)]
    /\ ahead \in [Peers -> Seq(Tokens)]
    /\ seen \in [Peers -> Seq(Tokens)]
    /\ pc \in [Peers -> Places]
    /\ received \in [Peers -> Seq(Frames)]
    /\ gone \in [Peers -> BOOLEAN]
    /\ split \in [Peers -> BOOLEAN]
    /\ wrote \in [Peers -> Seq(Tokens)]

LEMMA Others ==
    ASSUME NEW p \in Peers
    PROVE  Other(p) \in Peers /\ Other(p) # p /\ Other(Other(p)) = p
           /\ \A r \in Peers : r = p \/ r = Other(p)
BY DEF Peers, Other

LEMMA FramesAreTokens ==
    ASSUME NEW s \in Seq(Frames)
    PROVE  s \in Seq(Tokens)
<1>1. Frames \subseteq Tokens
  BY DEF Tokens
<1> QED BY <1>1, SeqMonotonic

LEMMA UnderwayIs ==
    ASSUME Types, NEW p \in Peers
    PROVE  /\ Underway(p) = Cat(Cat(ahead[p], net[p]), out[Other(p)])
           /\ Underway(p) \in Seq(Tokens)
<1>1. Underway(p) = Cat(Cat(ahead[p], net[p]), out[Other(p)])
  BY DEF Underway, Cat
<1>2. ahead[p] \in Seq(Tokens) /\ net[p] \in Seq(Tokens) /\ out[Other(p)] \in Seq(Tokens)
  BY Others DEF Types
<1> QED BY <1>1, <1>2, CatType

-----------------------------------------------------------------------------
(* Whatever a buffer keeps, a write appends to what is underway. *)

LEMMA BufferedJoins ==
    ASSUME Types, NEW p \in Peers, NEW ts \in Seq(Tokens)
    PROVE  /\ Buffered(p, ts).keep \in Seq(Tokens) /\ Buffered(p, ts).send \in Seq(Tokens)
           /\ Cat(Buffered(p, ts).send, Buffered(p, ts).keep) = Cat(out[p], ts)
<1>1. /\ out[p] \in Seq(Tokens) /\ out[p] \o ts = Cat(out[p], ts)
      /\ Cat(out[p], ts) \in Seq(Tokens) /\ <<>> \in Seq(Tokens)
  <2>1. out[p] \in Seq(Tokens)
    BY DEF Types
  <2> QED BY <2>1, CatType, EmptySeq DEF Cat
<1>2. /\ Cat(Cat(out[p], ts), <<>>) = Cat(out[p], ts)
      /\ Cat(<<>>, Cat(out[p], ts)) = Cat(out[p], ts)
  BY <1>1, CatEmpty
<1>3. Buffered(p, ts) \in {[keep |-> <<>>, send |-> Cat(out[p], ts)], [keep |-> ts, send |-> out[p]],
                           [keep |-> Cat(out[p], ts), send |-> <<>>]}
  BY <1>1 DEF Buffered
<1> DEFINE b == Buffered(p, ts)
<1> HIDE DEF b
<1>4. /\ b.keep \in Seq(Tokens) /\ b.send \in Seq(Tokens)
      /\ Cat(b.send, b.keep) = Cat(out[p], ts)
  <2>1. CASE b = [keep |-> <<>>, send |-> Cat(out[p], ts)]
    BY <1>1, <1>2, <2>1
  <2>2. CASE b = [keep |-> ts, send |-> out[p]]
    BY <1>1, <2>2
  <2>3. CASE b = [keep |-> Cat(out[p], ts), send |-> <<>>]
    BY <1>1, <1>2, <2>3
  <2> QED BY <1>3, <2>1, <2>2, <2>3 DEF b
<1> QED BY <1>4 DEF b

LEMMA WriteAppends ==
    ASSUME Types, NEW p \in Peers, NEW ts \in Seq(Tokens), UNCHANGED ahead,
           Write(p, ts) \/ WriteAndFlush(p, ts)
    PROVE  /\ out' \in [Peers -> Seq(Tokens)] /\ net' \in [Peers -> Seq(Tokens)]
           /\ wrote' \in [Peers -> Seq(Tokens)]
           /\ Underway(Other(p))' = Cat(Underway(Other(p)), ts)
           /\ Underway(p)' = Underway(p)
           /\ wrote'[p] = Cat(wrote[p], ts) /\ wrote'[Other(p)] = wrote[Other(p)]
<1> DEFINE q == Other(p)
<1>0. /\ q \in Peers /\ q # p /\ Other(q) = p
      /\ out[p] \in Seq(Tokens) /\ net[q] \in Seq(Tokens) /\ ahead[q] \in Seq(Tokens)
      /\ wrote[p] \in Seq(Tokens) /\ <<>> \in Seq(Tokens)
  BY Others, EmptySeq DEF Types
<1> HIDE DEF q
<1>1. PICK keep \in Seq(Tokens), send \in Seq(Tokens) :
        /\ out' = [out EXCEPT ![p] = keep]
        /\ net' = [net EXCEPT ![q] = Cat(net[q], send)]
        /\ Cat(send, keep) = Cat(out[p], ts)
  <2>1. CASE Write(p, ts)
    BY <2>1, BufferedJoins DEF Write, Cat, q
  <2>2. CASE WriteAndFlush(p, ts)
    <3>1. net' = [net EXCEPT ![q] = Cat(Cat(net[q], out[p]), ts)] /\ out' = [out EXCEPT ![p] = <<>>]
      BY <2>2 DEF WriteAndFlush, Cat, q
    <3>2. Cat(Cat(net[q], out[p]), ts) = Cat(net[q], Cat(out[p], ts))
      BY <1>0, CatAssoc
    <3>3. Cat(out[p], ts) \in Seq(Tokens) /\ Cat(Cat(out[p], ts), <<>>) = Cat(out[p], ts)
      BY <1>0, CatType, CatEmpty
    <3> QED BY <1>0, <3>1, <3>2, <3>3
  <2> QED BY <2>1, <2>2
<1>2. wrote' = [wrote EXCEPT ![p] = Cat(wrote[p], ts)] /\ Cat(wrote[p], ts) \in Seq(Tokens)
  BY <1>0, CatType DEF Write, WriteAndFlush, Cat
<1>3. Cat(net[q], send) \in Seq(Tokens)
  BY <1>0, <1>1, CatType
<1>4. /\ out' \in [Peers -> Seq(Tokens)] /\ net' \in [Peers -> Seq(Tokens)]
      /\ wrote' \in [Peers -> Seq(Tokens)]
  BY <1>0, <1>1, <1>2, <1>3 DEF Types
<1>5. Underway(p)' = Underway(p)
  BY <1>0, <1>1 DEF Underway, Types, q
<1>6. Underway(q)' = Cat(Cat(ahead[q], Cat(net[q], send)), keep)
  BY <1>0, <1>1 DEF Underway, Types, Cat
<1>7. Cat(Cat(ahead[q], Cat(net[q], send)), keep) = Cat(Cat(Cat(ahead[q], net[q]), out[p]), ts)
  <2> DEFINE an == Cat(ahead[q], net[q])
  <2>0. an \in Seq(Tokens)
    BY <1>0, CatType
  <2>1. an \in Seq(Tokens) /\ Cat(ahead[q], Cat(net[q], send)) = Cat(an, send)
    BY <1>0, <1>1, <2>0, CatAssoc
  <2> HIDE DEF an
  <2>2. Cat(Cat(an, send), keep) = Cat(an, Cat(send, keep))
    BY <1>1, <2>1, CatAssoc
  <2>3. Cat(an, Cat(out[p], ts)) = Cat(Cat(an, out[p]), ts)
    BY <1>0, <2>1, CatAssoc
  <2> QED BY <1>1, <2>1, <2>2, <2>3 DEF an
<1>8. Underway(q) = Cat(Cat(ahead[q], net[q]), out[p])
  BY <1>0, UnderwayIs
<1> QED BY <1>0, <1>2, <1>4, <1>5, <1>6, <1>7, <1>8 DEF Types, q

(* However many tokens one read of the stream brings, one comes out. *)
LEMMA ReadTakes ==
    ASSUME Types, NEW p \in Peers, NEW t, Read(p, t), UNCHANGED out
    PROVE  /\ net' \in [Peers -> Seq(Tokens)] /\ ahead' \in [Peers -> Seq(Tokens)] /\ t \in Tokens
           /\ Underway(p) = Cat(<<t>>, Underway(p)')
           /\ Underway(Other(p))' = Underway(Other(p))
<1> DEFINE q == Other(p)
           a == ahead[p]
           n == net[p]
           o == out[q]
<1>0. /\ q \in Peers /\ q # p /\ Other(q) = p
      /\ a \in Seq(Tokens) /\ n \in Seq(Tokens) /\ o \in Seq(Tokens) /\ <<>> \in Seq(Tokens)
  BY Others, EmptySeq DEF Types
<1>1. PICK a2 \in Seq(Tokens), n2 \in Seq(Tokens) :
        /\ ahead' = [ahead EXCEPT ![p] = a2]
        /\ net' = [net EXCEPT ![p] = n2]
        /\ t \in Tokens
        /\ Cat(a, n) = Cat(<<t>>, Cat(a2, n2))
  <2>1. CASE ahead[p] # <<>> /\ t = Head(ahead[p]) /\ ahead' = [ahead EXCEPT ![p] = Tail(@)]
             /\ UNCHANGED net
    <3> DEFINE a2 == Tail(a)
    <3>1. t \in Tokens /\ a2 \in Seq(Tokens) /\ a = Cat(<<t>>, a2)
      BY <1>0, <2>1, CatHead
    <3>2. ahead' = [ahead EXCEPT ![p] = a2] /\ net' = [net EXCEPT ![p] = n]
      BY <2>1 DEF Types
    <3> HIDE DEF a2
    <3> DEFINE t1 == <<t>>
    <3>3. t1 \in Seq(Tokens) /\ a = Cat(t1, a2)
      BY <3>1
    <3> HIDE DEF t1
    <3>4. Cat(Cat(t1, a2), n) = Cat(t1, Cat(a2, n))
      BY <1>0, <3>1, <3>3, CatAssoc
    <3> QED BY <1>0, <3>1, <3>2, <3>3, <3>4 DEF t1
  <2>2. CASE /\ ahead[p] = <<>> /\ net[p] # <<>> /\ t = Head(net[p])
             /\ \E k \in 1 .. Len(net[p]) :
                    /\ ahead' = [ahead EXCEPT ![p] = SubSeq(net[p], 2, k)]
                    /\ net' = [net EXCEPT ![p] = SubSeq(@, k + 1, Len(@))]
    <3>1. PICK k \in 1 .. Len(n) :
                    /\ ahead' = [ahead EXCEPT ![p] = SubSeq(n, 2, k)]
                    /\ net' = [net EXCEPT ![p] = SubSeq(n, k + 1, Len(n))]
      BY <2>2
    <3> DEFINE a2 == SubSeq(n, 2, k)
               n2 == SubSeq(n, k + 1, Len(n))
    <3>2. t \in Tokens /\ n = Cat(<<t>>, Tail(n)) /\ Tail(n) = SubSeq(n, 2, Len(n))
      BY <1>0, <2>2, CatHead, TailIsSubSeq
    <3>3. a2 \in Seq(Tokens) /\ n2 \in Seq(Tokens)
      <4>1. Len(n) \in Nat /\ k \in Int /\ k + 1 \in Int
            /\ \A i \in 1 .. Len(n) : n[i] \in Tokens
        BY <1>0, LenProperties, ElementOfSeq
      <4>2. (\A i \in 2 .. k : n[i] \in Tokens) /\ \A i \in k + 1 .. Len(n) : n[i] \in Tokens
        BY <4>1
      <4> QED BY <4>1, <4>2, SubSeqProperties
    <3>4. Cat(a2, n2) = SubSeq(n, 2, Len(n))
      <4>1. Len(n) \in Nat
        BY <1>0, LenProperties
      <4>2. 2 \in 1 .. Len(n) + 1 /\ k \in 2 - 1 .. Len(n) /\ Len(n) \in k .. Len(n)
        BY <4>1
      <4> QED BY <1>0, <4>2, ConcatAdjacentSubSeq DEF Cat
    <3>5. Cat(a, n) = n
      BY <1>0, <2>2, CatEmpty
    <3> QED BY <3>1, <3>2, <3>3, <3>4, <3>5
  <2> QED BY <2>1, <2>2 DEF Read
<1>2. Underway(p)' = Cat(Cat(a2, n2), o)
  BY <1>0, <1>1 DEF Underway, Types, Cat
<1>3. Underway(p) = Cat(Cat(a, n), o)
  BY UnderwayIs
<1>4. Cat(Cat(<<t>>, Cat(a2, n2)), o) = Cat(<<t>>, Cat(Cat(a2, n2), o))
  <2> DEFINE t1 == <<t>>
  <2>1. t1 \in Seq(Tokens)
    BY <1>1
  <2>2. Cat(a2, n2) \in Seq(Tokens)
    BY <1>1, CatType
  <2> HIDE DEF t1
  <2>3. Cat(Cat(t1, Cat(a2, n2)), o) = Cat(t1, Cat(Cat(a2, n2), o))
    BY <1>0, <2>1, <2>2, CatAssoc
  <2> QED BY <2>3 DEF t1
<1>5. Underway(q)' = Underway(q)
  BY <1>0, <1>1 DEF Underway, Types
<1>6. net' \in [Peers -> Seq(Tokens)] /\ ahead' \in [Peers -> Seq(Tokens)]
  BY <1>1 DEF Types
<1> QED BY <1>1, <1>2, <1>3, <1>4, <1>5, <1>6

-----------------------------------------------------------------------------
(* The invariant. *)

\* The first two tokens of a stream are its head, the others frames.
Place(t, i) == IF i <= 2 THEN t.what # "frame" /\ t.at = i ELSE t.what = "frame"

\* How far p has come in what the other side wrote.
Reads(p) ==
    /\ Len(seen[p]) <= 2
    /\ \A i \in 1 .. Len(seen[p]) : Place(seen[p][i], i)
    /\ \A i \in 1 .. Len(Underway(p)) : Place(Underway(p)[i], Len(seen[p]) + i)
    /\ pc[p] \in {"start", "reading"} => Len(seen[p]) < 2
    /\ pc[p] \in {"parse", "open"} => Len(seen[p]) = 2
    /\ pc[p] \in {"start", "reading", "parse"} => received[p] = <<>>

Unwritten(p) ==
    pc[p] \in IF p = "client" THEN {"start"} ELSE {"start", "reading", "parse"}
Written(p) ==
    pc[p] \in IF p = "client" THEN {"reading", "parse", "open"} ELSE {"open"}

\* What p has written, as the other side sees it.
Writes(p) ==
    /\ Unwritten(p) => seen[Other(p)] = <<>> /\ Underway(Other(p)) = <<>>
    /\ Written(p) => Len(seen[Other(p)]) + Len(Underway(Other(p))) >= 2

Intact(p) == split[p] => kind[p].async \/ kind[p].cap = 0
Kept(p) == Intact(p) => Cat(Cat(seen[p], received[p]), Underway(p)) = wrote[Other(p)]

\* A stream without a buffer reads nothing ahead.
Bare(p) == kind[p].cap = 0 => ahead[p] = <<>>

\* The responses on their way to the client are the server's.
Fit(t, where) ==
    /\ t.says = "switch" => where \in {"open", "failed"}
    /\ t.says = "refuse" => where = "refused"
Said ==
    /\ \A i \in 1 .. Len(seen["client"]) : Fit(seen["client"][i], pc["server"])
    /\ \A i \in 1 .. Len(Underway("client")) : Fit(Underway("client")[i], pc["server"])

Settled ==
    /\ Agreement
    /\ \A p \in Peers : pc[p] = "refused" => gone[p]

Streams == \A p \in Peers : Reads(p) /\ Writes(p) /\ Kept(p) /\ Bare(p)

Invariant == Types /\ Streams /\ Said /\ Settled

-----------------------------------------------------------------------------
(* p goes on in its handshake, and reads nothing. *)
Onward(p) ==
    /\ pc' = [pc EXCEPT ![p] = pc'[p]] /\ pc'[p] \in Places
    /\ pc'[p] \in {"start", "reading"} => pc[p] \in {"start", "reading"}
    /\ pc'[p] \in {"parse", "open"} => pc[p] \in {"parse", "open"}
    /\ pc'[p] \in {"start", "reading", "parse"} => pc[p] \in {"start", "reading", "parse"}

\* What the server has said stays true.
Steady ==
    /\ pc["server"] \in {"open", "failed"} => pc'["server"] \in {"open", "failed"}
    /\ pc["server"] = "refused" => pc'["server"] = "refused"

(* ts is appended to what is underway from p. *)
Appends(p, ts) ==
    /\ out' \in [Peers -> Seq(Tokens)] /\ net' \in [Peers -> Seq(Tokens)]
    /\ wrote' \in [Peers -> Seq(Tokens)]
    /\ Underway(Other(p))' = Cat(Underway(Other(p)), ts)
    /\ Underway(p)' = Underway(p)
    /\ wrote'[p] = Cat(wrote[p], ts) /\ wrote'[Other(p)] = wrote[Other(p)]

LEMMA NothingAppended ==
    ASSUME Types, NEW p \in Peers, UNCHANGED <<out, net, ahead, wrote>>
    PROVE  Appends(p, <<>>)
<1>1. Underway(p) \in Seq(Tokens) /\ Underway(Other(p)) \in Seq(Tokens) /\ wrote[p] \in Seq(Tokens)
  BY UnderwayIs, Others DEF Types
<1>2. Underway(p)' = Underway(p) /\ Underway(Other(p))' = Underway(Other(p))
  BY DEF Underway
<1>3. Cat(Underway(Other(p)), <<>>) = Underway(Other(p)) /\ Cat(wrote[p], <<>>) = wrote[p]
  BY <1>1, CatEmpty
<1> QED BY <1>2, <1>3 DEF Appends, Types

LEMMA TypesKept ==
    ASSUME Types, NEW p \in Peers, NEW ts \in Seq(Tokens), Appends(p, ts), Onward(p),
           UNCHANGED <<kind, ahead, seen, received, split>>, gone' \in [Peers -> BOOLEAN]
    PROVE  Types'
<1>1. pc' \in [Peers -> Places]
  BY DEF Onward, Types
<1> QED BY <1>1 DEF Types, Appends

LEMMA StreamsKept ==
    ASSUME Types, Streams, NEW p \in Peers, NEW ts \in Seq(Tokens), Appends(p, ts), Onward(p),
           UNCHANGED <<kind, ahead, seen, received, split>>,
           Unwritten(p)' => Unwritten(p) /\ ts = <<>>,
           Written(p)' => \/ Written(p)
                         \/ Len(seen[Other(p)]) + Len(Underway(Other(p))) + Len(ts) >= 2,
           \A i \in 1 .. Len(ts) :
               Place(ts[i], Len(seen[Other(p)]) + Len(Underway(Other(p))) + i)
    PROVE  Streams'
<1> DEFINE q == Other(p)
           u == Underway(q)
           k == Len(seen[q])
<1>0. /\ q \in Peers /\ q # p /\ Other(q) = p /\ \A r \in Peers : r = p \/ r = q
      /\ u \in Seq(Tokens) /\ k \in Nat /\ Len(u) \in Nat /\ Len(ts) \in Nat
      /\ <<>> \in Seq(Tokens) /\ pc'[q] = pc[q]
  <2>1. u \in Seq(Tokens) /\ seen[q] \in Seq(Tokens)
    BY Others, UnderwayIs DEF Types
  <2> QED BY <2>1, Others, LenProperties, EmptySeq DEF Onward, Types
<1>1. /\ Cat(u, ts) \in Seq(Tokens) /\ Len(Cat(u, ts)) = Len(u) + Len(ts)
      /\ \A i \in 1 .. Len(u) + Len(ts) :
             Cat(u, ts)[i] = IF i <= Len(u) THEN u[i] ELSE ts[i - Len(u)]
  BY <1>0, CatElements
<1>2. Underway(q)' = Cat(u, ts) /\ Underway(p)' = Underway(p)
  BY DEF Appends
<1> HIDE DEF u, q
<1>3. Reads(p)'
  BY <1>2 DEF Streams, Reads, Onward
<1>4. Reads(q)'
  <2>1. \A i \in 1 .. Len(Cat(u, ts)) : Place(Cat(u, ts)[i], k + i)
    <3> SUFFICES ASSUME NEW i \in 1 .. Len(Cat(u, ts)) PROVE Place(Cat(u, ts)[i], k + i)
      OBVIOUS
    <3>1. CASE i <= Len(u)
      <4>1. i \in 1 .. Len(u) /\ Cat(u, ts)[i] = u[i]
        BY <1>0, <1>1, <3>1
      <4>2. Place(u[i], k + i)
        BY <1>0, <4>1 DEF Streams, Reads, u
      <4> QED BY <4>1, <4>2
    <3>2. CASE ~(i <= Len(u))
      <4>1. i - Len(u) \in 1 .. Len(ts) /\ Cat(u, ts)[i] = ts[i - Len(u)]
        BY <1>0, <1>1, <3>2
      <4>2. Place(ts[i - Len(u)], k + Len(u) + (i - Len(u)))
        BY <4>1 DEF u, q
      <4>3. k + Len(u) + (i - Len(u)) = k + i
        BY <1>0, <4>1
      <4> QED BY <4>1, <4>2, <4>3
    <3> QED BY <3>1, <3>2
  <2> QED BY <1>0, <1>2, <2>1 DEF Streams, Reads
<1>5. Writes(q)'
  BY <1>0, <1>2 DEF Streams, Writes, Unwritten, Written
<1>6. Writes(p)'
  <2>1. Unwritten(p)' => seen[q] = <<>> /\ Cat(u, ts) = <<>>
    <3>1. Cat(<<>>, <<>>) = <<>>
      BY <1>0, CatEmpty
    <3> QED BY <3>1 DEF Streams, Writes, u, q
  <2>2. Written(p)' => k + Len(Cat(u, ts)) >= 2
    <3>1. Written(p) => k + Len(u) >= 2
      BY DEF Streams, Writes, u, q
    <3>2. Written(p)' => Written(p) \/ k + Len(u) + Len(ts) >= 2
      BY DEF u, q
    <3>3. k + Len(u) >= 2 => k + Len(u) + Len(ts) >= 2
      BY <1>0
    <3>4. Len(Cat(u, ts)) = Len(u) + Len(ts)
      BY <1>1
    <3> HIDE DEF k
    <3> QED BY <1>0, <3>1, <3>2, <3>3, <3>4
  <2> QED BY <1>2, <2>1, <2>2 DEF Writes, q
<1>7. Kept(p)'
  BY <1>2 DEF Streams, Kept, Intact, Appends
<1>8. Kept(q)'
  <2> DEFINE a == Cat(seen[q], received[q])
  <2>1. a \in Seq(Tokens)
    <3>1. seen[q] \in Seq(Tokens) /\ received[q] \in Seq(Frames)
      BY <1>0 DEF Types
    <3> QED BY <3>1, FramesAreTokens, CatType
  <2> HIDE DEF a
  <2>2. Cat(Cat(a, u), ts) = Cat(a, Cat(u, ts))
    BY <1>0, <2>1, CatAssoc
  <2>3. Intact(q) => Cat(a, u) = wrote[p]
    BY <1>0 DEF Streams, Kept, a, u
  <2>4. wrote'[p] = Cat(wrote[p], ts)
    BY DEF Appends
  <2> QED BY <1>0, <1>2, <2>2, <2>3, <2>4 DEF Kept, Intact, a
<1>9. Bare(p)' /\ Bare(q)'
  BY <1>0 DEF Streams, Bare
<1> QED BY <1>0, <1>3, <1>4, <1>5, <1>6, <1>7, <1>8, <1>9 DEF Streams

LEMMA SaidKept ==
    ASSUME Types, Said, NEW p \in Peers, NEW ts \in Seq(Tokens), Appends(p, ts), UNCHANGED seen,
           Steady, p = "server" => \A i \in 1 .. Len(ts) : Fit(ts[i], pc'["server"])
    PROVE  Said'
<1> DEFINE u == Underway("client")
<1>0. u \in Seq(Tokens) /\ Len(u) \in Nat /\ Len(ts) \in Nat
  BY UnderwayIs, LenProperties DEF Peers
<1> DEFINE was == pc["server"]
           is == pc'["server"]
<1>1. \A t : Fit(t, was) => Fit(t, is)
  BY DEF Fit, Steady
<1> HIDE DEF was, is
<1>2. \A i \in 1 .. Len(seen["client"]) : Fit(seen["client"][i], is)
  BY <1>1 DEF Said, was
<1>3. \A i \in 1 .. Len(u) : Fit(u[i], is)
  BY <1>1 DEF Said, was
<1>4. CASE p = "client"
  <2>1. Underway("client")' = u
    BY <1>4 DEF Appends
  <2> QED BY <1>2, <1>3, <2>1 DEF Said, is
<1>5. CASE p = "server"
  <2>1. Underway("client")' = Cat(u, ts)
    BY <1>5 DEF Appends, Other
  <2>2. /\ Len(Cat(u, ts)) = Len(u) + Len(ts)
        /\ \A i \in 1 .. Len(u) + Len(ts) :
               Cat(u, ts)[i] = IF i <= Len(u) THEN u[i] ELSE ts[i - Len(u)]
    BY <1>0, CatElements
  <2>3. \A i \in 1 .. Len(ts) : Fit(ts[i], is)
    BY <1>5 DEF is
  <2> HIDE DEF u
  <2>4. ASSUME NEW i \in 1 .. Len(Cat(u, ts)) PROVE Fit(Cat(u, ts)[i], is)
    <3>1. CASE i <= Len(u)
      <4>1. i \in 1 .. Len(u) /\ Cat(u, ts)[i] = u[i]
        BY <1>0, <2>2, <3>1
      <4> QED BY <1>3, <4>1
    <3>2. CASE ~(i <= Len(u))
      <4>1. i - Len(u) \in 1 .. Len(ts) /\ Cat(u, ts)[i] = ts[i - Len(u)]
        BY <1>0, <2>2, <3>2
      <4> QED BY <2>3, <4>1
    <3> QED BY <3>1, <3>2
  <2> QED BY <1>2, <2>1, <2>4 DEF Said, is
<1> QED BY <1>4, <1>5 DEF Peers

LEMMA QuietKept ==
    ASSUME Invariant, NEW p \in Peers, Appends(p, <<>>), Onward(p),
           UNCHANGED <<kind, ahead, seen, received, split>>, gone' \in [Peers -> BOOLEAN],
           Unwritten(p)' => Unwritten(p), Written(p)' => Written(p), Steady
    PROVE  Types' /\ Streams' /\ Said'
<1> DEFINE none == <<>>
<1>1. none \in Seq(Tokens) /\ none = <<>> /\ \A i \in 1 .. Len(none) : FALSE
  BY EmptySeq
<1>0. Appends(p, none) /\ Types /\ Streams /\ Said
  BY DEF Invariant
<1> HIDE DEF none
<1>2. Types'
  BY <1>0, <1>1, TypesKept
<1>3. Streams'
  BY <1>0, <1>1, StreamsKept
<1>4. Said'
  BY <1>0, <1>1, SaidKept
<1> QED BY <1>2, <1>3, <1>4

LEMMA HeadIsTokens ==
    ASSUME NEW says \in Requests \cup Responses, NEW what \in {"request", "response"},
           what = "request" => says \in Requests, what = "response" => says \in Responses
    PROVE  /\ HttpHead(what, says) \in Seq(Tokens) /\ Len(HttpHead(what, says)) = 2
           /\ \A i \in 1 .. 2 : Place(HttpHead(what, says)[i], i)
           /\ \A i \in 1 .. 2 : HttpHead(what, says)[i].says = says
<1>1. Token(what, 1, says) \in Tokens /\ Token(what, 2, says) \in Tokens
  BY DEF Token, Tokens
<1>2. HttpHead(what, says) \in Seq(Tokens) /\ Len(HttpHead(what, says)) = 2
  BY <1>1 DEF HttpHead
<1> QED BY <1>2 DEF HttpHead, Place, Token

\* A head is the first thing its side writes.
LEMMA HeadKept ==
    ASSUME Invariant, NEW p \in Peers, NEW says \in Requests \cup Responses,
           NEW what \in {"request", "response"},
           what = "request" => says \in Requests, what = "response" => says \in Responses,
           Unwritten(p), ~Unwritten(p)',
           Appends(p, HttpHead(what, says)), Onward(p),
           UNCHANGED <<kind, ahead, seen, received, split>>, gone' \in [Peers -> BOOLEAN],
           Steady,
           p = "server" => \A i \in 1 .. 2 : Fit(HttpHead(what, says)[i], pc'["server"])
    PROVE  Types' /\ Streams' /\ Said'
<1> DEFINE ts == HttpHead(what, says)
<1>1. ts \in Seq(Tokens) /\ Len(ts) = 2 /\ \A i \in 1 .. 2 : Place(ts[i], i)
  BY HeadIsTokens
<1>2. seen[Other(p)] = <<>> /\ Underway(Other(p)) = <<>> /\ Len(<<>>) = 0
  BY EmptySeq DEF Invariant, Streams, Writes
<1> HIDE DEF ts
<1>3. Types'
  BY <1>1, TypesKept DEF Invariant, ts
<1>4. Streams'
  <2>1. \A i \in 1 .. Len(ts) : Place(ts[i], Len(seen[Other(p)]) + Len(Underway(Other(p))) + i)
    BY <1>1, <1>2
  <2>2. Len(seen[Other(p)]) + Len(Underway(Other(p))) + Len(ts) >= 2
    BY <1>1, <1>2
  <2>3. Appends(p, ts) /\ Types /\ Streams
    BY DEF Invariant, ts
  <2> QED BY <1>1, <2>1, <2>2, <2>3, StreamsKept
<1>5. Said'
  BY <1>1, SaidKept DEF Invariant, ts
<1> QED BY <1>3, <1>4, <1>5

-----------------------------------------------------------------------------
(* The steps that write. *)

LEMMA WriteIs ==
    ASSUME Types, NEW p \in Peers, NEW ts \in Seq(Tokens), UNCHANGED ahead,
           Write(p, ts) \/ WriteAndFlush(p, ts)
    PROVE  Appends(p, ts)
BY WriteAppends DEF Appends

LEMMA DropIs ==
    ASSUME Types, NEW p \in Peers, NEW ts \in Seq(Tokens), UNCHANGED ahead, WriteAndDrop(p, ts)
    PROVE  Appends(p, ts) /\ gone' \in [Peers -> BOOLEAN] /\ gone' = [gone EXCEPT ![p] = TRUE]
BY WriteIs DEF WriteAndDrop, Types

LEMMA ReqHandshakeKept ==
    ASSUME Invariant, ReqHandshake
    PROVE  Invariant'
<1>0. "client" \in Peers /\ "server" \in Peers
  BY DEF Peers
<1>1. PICK says \in Requests : Write("client", HttpHead("request", says))
                                \/ WriteAndFlush("client", HttpHead("request", says))
  BY DEF ReqHandshake
<1>2. /\ pc["client"] = "start" /\ pc' = [pc EXCEPT !["client"] = "reading"]
      /\ UNCHANGED <<kind, ahead, seen, received, gone, split>>
  BY DEF ReqHandshake, Goto
<1>3. /\ pc'["client"] = "reading" /\ pc'["server"] = pc["server"]
      /\ pc["server"] \in Places
  BY <1>0, <1>2 DEF Invariant, Types
<1>4. Appends("client", HttpHead("request", says))
  BY <1>0, <1>1, <1>2, HeadIsTokens, WriteIs DEF Invariant
<1>5. /\ Onward("client") /\ Steady
      /\ Unwritten("client") /\ ~Unwritten("client")'
  <2>1. Onward("client")
    BY <1>2, <1>3 DEF Onward, Places
  <2>2. Steady
    BY <1>3 DEF Steady
  <2>3. Unwritten("client") /\ ~Unwritten("client")'
    BY <1>2, <1>3 DEF Unwritten
  <2> QED BY <2>1, <2>2, <2>3
<1>6. Types' /\ Streams' /\ Said'
  BY <1>0, <1>2, <1>4, <1>5, HeadKept DEF Invariant, Types
<1>7. Settled'
  BY <1>2, <1>3 DEF Invariant, Settled, Agreement, Peers
<1> QED BY <1>6, <1>7 DEF Invariant

(* The server answers, and opens the connection, refuses it or fails. *)
LEMMA AnswerKept ==
    ASSUME Invariant, NEW says \in Responses, NEW where \in {"open", "refused", "failed"},
           pc["server"] = "parse", pc' = [pc EXCEPT !["server"] = where],
           UNCHANGED <<kind, ahead, seen, received, split>>,
           Write("server", HttpHead("response", says))
           \/ WriteAndFlush("server", HttpHead("response", says)),
           says = "switch" => where # "refused", says = "refuse" => where = "refused",
           gone' = IF where = "open" THEN gone ELSE [gone EXCEPT !["server"] = TRUE]
    PROVE  Invariant'
<1>0. "client" \in Peers /\ "server" \in Peers
  BY DEF Peers
<1>1. pc'["server"] = where /\ pc'["client"] = pc["client"] /\ gone' \in [Peers -> BOOLEAN]
  BY <1>0 DEF Invariant, Types
<1>2. Appends("server", HttpHead("response", says))
  BY <1>0, HeadIsTokens, WriteIs DEF Invariant
<1>3. Onward("server")
  BY <1>1 DEF Onward, Places, Final
<1>4. Steady
  BY <1>1 DEF Steady
<1>5. Unwritten("server") /\ ~Unwritten("server")'
  BY <1>1 DEF Unwritten
<1>6. \A i \in 1 .. 2 : Fit(HttpHead("response", says)[i], pc'["server"])
  BY <1>1, HeadIsTokens DEF Fit
<1>7. Types' /\ Streams' /\ Said'
  BY <1>0, <1>1, <1>2, <1>3, <1>4, <1>5, <1>6, HeadKept
<1>8. Settled'
  BY <1>0, <1>1 DEF Invariant, Settled, Agreement, Peers, Types
<1> QED BY <1>7, <1>8 DEF Invariant

LEMMA AcceptKept ==
    ASSUME Invariant, Accept \/ AcceptRefuses
    PROVE  Invariant'
<1>1. CASE Accept
  <2>1. CASE /\ Goto("server", "open") /\ UNCHANGED gone
             /\ Write("server", HttpHead("response", "switch"))
    BY <1>1, <2>1, AnswerKept DEF Accept, Goto, Responses
  <2>2. CASE Goto("server", "failed") /\ WriteAndDrop("server", HttpHead("response", "switch"))
    BY <1>1, <2>2, AnswerKept DEF Accept, Goto, WriteAndDrop, Responses
  <2> QED BY <1>1, <2>1, <2>2 DEF Accept
<1>2. CASE AcceptRefuses
  BY <1>2, AnswerKept DEF AcceptRefuses, Goto, WriteAndDrop, Responses
<1> QED BY <1>1, <1>2

(* Steps that write nothing: the stream is dropped, or only flushed. *)
LEMMA DropKept ==
    ASSUME Invariant, NEW p \in Peers, NEW where \in {"refused", "failed"},
           Appends(p, <<>>), gone' = [gone EXCEPT ![p] = TRUE],
           pc' = [pc EXCEPT ![p] = where], pc[p] \notin {"open", "refused"},
           UNCHANGED <<kind, ahead, seen, received, split>>,
           where = "refused" => p = "client" /\ pc["server"] = "refused"
    PROVE  Invariant'
<1>1. pc'[p] = where /\ pc'[Other(p)] = pc[Other(p)] /\ gone' \in [Peers -> BOOLEAN]
  BY Others DEF Invariant, Types
<1>2. Onward(p)
  BY <1>1 DEF Onward, Places, Final
<1>3. Steady
  BY <1>1 DEF Steady, Peers, Other
<1>4. ~Unwritten(p)' /\ ~Written(p)'
  BY <1>1 DEF Unwritten, Written
<1>5. Types' /\ Streams' /\ Said'
  BY <1>1, <1>2, <1>3, <1>4, QuietKept
<1>6. Settled'
  BY <1>1 DEF Invariant, Settled, Agreement, Peers, Other, Types
<1> QED BY <1>5, <1>6 DEF Invariant

LEMMA ReadHeadEofKept ==
    ASSUME Invariant, NEW p \in Peers, ReadHeadEof(p) \/ (p = "server" /\ AcceptGarbled)
    PROVE  Invariant'
<1>1. /\ WriteAndDrop(p, <<>>) /\ pc' = [pc EXCEPT ![p] = "failed"]
      /\ pc[p] \notin {"open", "refused"}
      /\ UNCHANGED <<kind, ahead, seen, received, split>>
  BY DEF ReadHeadEof, AcceptGarbled, Goto
<1>2. Appends(p, <<>>) /\ gone' = [gone EXCEPT ![p] = TRUE]
  BY <1>1, DropIs, EmptySeq DEF Invariant
<1> QED BY <1>1, <1>2, DropKept

LEMMA CheckRespKept ==
    ASSUME Invariant, CheckResp
    PROVE  Invariant'
<1>0. "client" \in Peers /\ "server" \in Peers
  BY DEF Peers
<1>1. pc["client"] = "parse" /\ Len(seen["client"]) = 2
  BY <1>0 DEF CheckResp, Invariant, Streams, Reads
<1>2. Fit(seen["client"][1], pc["server"])
  BY <1>1 DEF Invariant, Said
<1>3. CASE /\ seen["client"][1].says = "switch" /\ Goto("client", "open")
           /\ UNCHANGED <<out, net, gone, wrote>>
  <2>1. /\ pc'["client"] = "open" /\ pc'["server"] = pc["server"]
        /\ pc["server"] \in {"open", "failed"}
    BY <1>0, <1>2, <1>3 DEF Goto, Fit, Invariant, Types
  <2>2. Appends("client", <<>>)
    BY <1>0, <1>3, NothingAppended DEF CheckResp, Invariant
  <2>3. Onward("client")
    BY <1>1, <1>3, <2>1 DEF Onward, Goto, Places, Final
  <2>4. Steady
    BY <2>1 DEF Steady
  <2>5. ~Unwritten("client")' /\ Written("client")
    BY <1>1, <2>1 DEF Unwritten, Written
  <2>6. Types' /\ Streams' /\ Said'
    <3>1. gone' \in [Peers -> BOOLEAN] /\ UNCHANGED <<kind, ahead, seen, received, split>>
      BY <1>3 DEF CheckResp, Invariant, Types
    <3> QED BY <1>0, <2>2, <2>3, <2>4, <2>5, <3>1, QuietKept
  <2>7. Settled'
    BY <1>3, <2>1 DEF Invariant, Settled, Agreement, Peers
  <2> QED BY <2>6, <2>7 DEF Invariant
<1>4. CASE Goto("client", "failed") /\ WriteAndDrop("client", <<>>)
  <2>1. Appends("client", <<>>) /\ gone' = [gone EXCEPT !["client"] = TRUE]
    BY <1>0, <1>4, DropIs, EmptySeq DEF CheckResp, Invariant
  <2> QED BY <1>0, <1>1, <1>4, <2>1, DropKept DEF CheckResp, Goto
<1>5. CASE /\ seen["client"][1].says = "refuse" /\ Goto("client", "refused")
           /\ WriteAndDrop("client", <<>>)
  <2>1. pc["server"] = "refused"
    BY <1>2, <1>5 DEF Fit
  <2>2. Appends("client", <<>>) /\ gone' = [gone EXCEPT !["client"] = TRUE]
    BY <1>0, <1>5, DropIs, EmptySeq DEF CheckResp, Invariant
  <2> QED BY <1>0, <1>1, <1>5, <2>1, <2>2, DropKept DEF CheckResp, Goto
<1> QED BY <1>3, <1>4, <1>5 DEF CheckResp

LEMMA CrashKept ==
    ASSUME Invariant, NEW p \in Peers, Crash(p)
    PROVE  Invariant'
<1>1. /\ ~gone[p] /\ gone' = [gone EXCEPT ![p] = TRUE]
      /\ pc' = [pc EXCEPT ![p] = IF pc[p] = "open" THEN "open" ELSE "failed"]
      /\ UNCHANGED <<kind, out, net, ahead, seen, received, split, wrote>>
  BY DEF Crash, Goto
<1>2. Appends(p, <<>>)
  BY <1>1, NothingAppended DEF Invariant
<1>3. pc[p] # "refused"
  BY <1>1 DEF Invariant, Settled
<1>4. CASE pc[p] # "open"
  BY <1>1, <1>2, <1>3, <1>4, DropKept
<1>5. CASE pc[p] = "open"
  <2>1. pc' = pc /\ gone' \in [Peers -> BOOLEAN]
    BY <1>1, <1>5 DEF Invariant, Types
  <2>2. Onward(p)
    BY <1>5, <2>1 DEF Onward, Invariant, Types, Places, Final
  <2>3. Steady /\ (Unwritten(p)' => Unwritten(p)) /\ (Written(p)' => Written(p))
    BY <2>1 DEF Steady, Unwritten, Written
  <2>4. Types' /\ Streams' /\ Said'
    BY <1>1, <1>2, <2>1, <2>2, <2>3, QuietKept
  <2>5. Settled'
    BY <1>1, <2>1 DEF Invariant, Settled, Agreement, Types
  <2> QED BY <2>4, <2>5 DEF Invariant
<1> QED BY <1>4, <1>5

(* Half a head is underway when its side dies, and nothing after it. *)
LEMMA DiesWritingKept ==
    ASSUME Invariant, NEW p \in Peers, DiesWriting(p)
    PROVE  Invariant'
<1> DEFINE q == Other(p)
<1>0. /\ q \in Peers /\ q # p /\ Other(q) = p /\ "server" \in Peers /\ "client" \in Peers
      /\ Types /\ Streams /\ Said /\ Settled
  BY Others DEF Peers, Invariant
<1>1. PICK where \in {"refused", "failed"}, half \in Tokens :
         /\ half.at = 1 /\ half.what # "frame"
         /\ \/ /\ p = "client" /\ pc[p] = "start" /\ where = "failed"
            \/ /\ p = "server" /\ pc[p] = "parse"
               /\ \/ half.says = "switch" /\ where = "failed"
                  \/ half.says = "refuse" /\ where = "refused"
         /\ net' = [net EXCEPT ![q] = Append(@, half)]
         /\ wrote' = [wrote EXCEPT ![p] = Append(@, half)]
         /\ pc' = [pc EXCEPT ![p] = where]
  BY DEF DiesWriting, Goto
<1>2. UNCHANGED <<kind, out, ahead, seen, received, split>> /\ gone' = [gone EXCEPT ![p] = TRUE]
  BY DEF DiesWriting
<1> DEFINE ts == <<half>>
<1>3. ts \in Seq(Tokens) /\ Len(ts) = 1 /\ ts[1] = half
  BY <1>1
<1>4. pc'[p] = where /\ pc'[q] = pc[q] /\ gone' \in [Peers -> BOOLEAN] /\ gone'[p] = TRUE
  BY <1>0, <1>1, <1>2 DEF Types
<1>5. Unwritten(p) /\ ~Unwritten(p)' /\ ~Written(p)'
  BY <1>1, <1>4 DEF Unwritten, Written
<1>6. seen[q] = <<>> /\ Underway(q) = <<>> /\ Len(<<>>) = 0
  BY <1>0, <1>5, EmptySeq DEF Streams, Writes
<1>7. out[p] = <<>>
  <2>1. Underway(q) = Cat(Cat(ahead[q], net[q]), out[p])
    BY <1>0, UnderwayIs
  <2>2. ahead[q] \in Seq(Tokens) /\ net[q] \in Seq(Tokens) /\ out[p] \in Seq(Tokens)
    BY <1>0 DEF Types
  <2>3. Cat(ahead[q], net[q]) \in Seq(Tokens)
    BY <2>2, CatType
  <2>4. Len(Underway(q)) = Len(Cat(ahead[q], net[q])) + Len(out[p])
    BY <2>1, <2>2, <2>3, CatElements
  <2>5. Len(out[p]) = 0
    <3> DEFINE before == Len(Cat(ahead[q], net[q]))
               kept == Len(out[p])
    <3>1. before \in Nat /\ kept \in Nat
      BY <2>2, <2>3, LenProperties
    <3>2. 0 = before + kept
      BY <1>6, <2>4
    <3> HIDE DEF before, kept
    <3>3. kept = 0
      BY <3>1, <3>2
    <3> QED BY <3>3 DEF kept
  <2> QED BY <2>2, <2>5, EmptySeq
<1> HIDE DEF ts
<1>8. Appends(p, ts)
  <2>1. /\ net[q] \in Seq(Tokens) /\ wrote[p] \in Seq(Tokens) /\ ahead[q] \in Seq(Tokens)
        /\ out[p] \in Seq(Tokens)
    BY <1>0 DEF Types
  <2>2. /\ Append(net[q], half) = Cat(net[q], ts) /\ Cat(net[q], ts) \in Seq(Tokens)
        /\ Append(wrote[p], half) = Cat(wrote[p], ts) /\ Cat(wrote[p], ts) \in Seq(Tokens)
    BY <1>1, <1>3, <2>1, AppendIsConcat, CatType DEF Cat, ts
  <2>3. net' = [net EXCEPT ![q] = Cat(net[q], ts)] /\ wrote' = [wrote EXCEPT ![p] = Cat(wrote[p], ts)]
    BY <1>1, <2>2
  <2>4. WriteAndFlush(p, ts)
    <3>1. net[q] \o out[p] \o ts = Cat(net[q], ts)
      <4>1. Cat(net[q], <<>>) = net[q]
        BY <2>1, CatEmpty
      <4> QED BY <1>7, <4>1 DEF Cat
    <3>2. wrote[p] \o ts = Cat(wrote[p], ts)
      BY DEF Cat
    <3>3. out' = [out EXCEPT ![p] = <<>>]
      BY <1>0, <1>2, <1>7 DEF Types
    <3> QED BY <2>3, <3>1, <3>2, <3>3 DEF WriteAndFlush
  <2> QED BY <1>0, <1>2, <1>3, <2>4, WriteIs
<1>9. Onward(p) /\ Steady
  <2>1. Onward(p)
    BY <1>1, <1>4 DEF Onward, Places, Final
  <2>2. Steady
    BY <1>0, <1>1, <1>4 DEF Steady, Peers
  <2> QED BY <2>1, <2>2
<1>10. Types'
  BY <1>0, <1>2, <1>3, <1>4, <1>8, <1>9, TypesKept
<1>11. Streams'
  <2>1. \A i \in 1 .. Len(ts) : Place(ts[i], Len(seen[q]) + Len(Underway(q)) + i)
    BY <1>1, <1>3, <1>6 DEF Place
  <2> HIDE DEF q
  <2> QED BY <1>0, <1>2, <1>3, <1>5, <1>8, <1>9, <2>1, StreamsKept DEF q
<1>12. Said'
  <2>1. p = "server" => \A i \in 1 .. Len(ts) : Fit(ts[i], pc'["server"])
    BY <1>1, <1>3, <1>4 DEF Fit
  <2> QED BY <1>0, <1>2, <1>3, <1>8, <1>9, <2>1, SaidKept
<1>13. Settled'
  BY <1>0, <1>1, <1>2, <1>4 DEF Settled, Agreement, Peers, Types
<1> QED BY <1>10, <1>11, <1>12, <1>13 DEF Invariant

\* The frames of an open connection follow the head.
LEMMA SendFrameKept ==
    ASSUME Invariant, NEW p \in Peers, SendFrame(p)
    PROVE  Invariant'
<1> DEFINE t == Token("frame", FramesIn(wrote[p]) + 1, "data")
           ts == <<t>>
           q == Other(p)
<1>1. t \in Frames
  <2>1. wrote[p] \in Seq(Tokens) /\ MaxFrames \in Nat /\ FramesIn(wrote[p]) < MaxFrames
    BY MaxFramesAssumption DEF SendFrame, Invariant, Types
  <2>2. FramesIn(wrote[p]) \in Nat
    <3> DEFINE all == 1 .. Len(wrote[p])
               some == {i \in DOMAIN wrote[p] : wrote[p][i].what = "frame"}
    <3>1. Len(wrote[p]) \in Int /\ DOMAIN wrote[p] = all
      BY <2>1, LenProperties
    <3>2. IsFiniteSet(all)
      BY <3>1, FS_Interval
    <3>3. some \subseteq all
      BY <3>1
    <3> HIDE DEF all, some
    <3>4. Cardinality(some) \in Nat
      BY <3>2, <3>3, FS_Subset, FS_CardinalityType
    <3> QED BY <3>4 DEF FramesIn, some
  <2> QED BY <2>1, <2>2 DEF Token, Frames
<1>2. /\ ts \in Seq(Tokens) /\ Len(ts) = 1 /\ ts[1] = t
      /\ t.what = "frame" /\ t.says = "data"
  BY <1>1 DEF Tokens, Frames
<1>3. /\ pc[p] = "open" /\ Write(p, ts)
      /\ UNCHANGED <<kind, ahead, seen, pc, received, gone, split>>
  BY DEF SendFrame
<1>4. Types /\ Streams /\ Said /\ Settled
  BY DEF Invariant
<1> HIDE DEF t, ts
<1>5. Appends(p, ts)
  BY <1>2, <1>3, <1>4, WriteIs
<1>6. /\ Onward(p) /\ Steady /\ gone' \in [Peers -> BOOLEAN]
      /\ ~Unwritten(p)' /\ Written(p)
  BY <1>3, <1>4 DEF Onward, Steady, Unwritten, Written, Types, Places, Final
<1>7. Len(seen[q]) \in Nat /\ Len(Underway(q)) \in Nat
      /\ Len(seen[q]) + Len(Underway(q)) >= 2
  BY <1>4, <1>6, Others, UnderwayIs, LenProperties DEF Streams, Writes, Types
<1>8. \A i \in 1 .. Len(ts) : Place(ts[i], Len(seen[q]) + Len(Underway(q)) + i)
  BY <1>2, <1>7 DEF Place
<1>9. \A i \in 1 .. Len(ts) : Fit(ts[i], pc'["server"])
  BY <1>2 DEF Fit
<1>10. Types'
  BY <1>2, <1>3, <1>4, <1>5, <1>6, TypesKept
<1>11. Streams'
  BY <1>2, <1>3, <1>4, <1>5, <1>6, <1>8, StreamsKept
<1>12. Said'
  BY <1>2, <1>3, <1>4, <1>5, <1>6, <1>9, SaidKept
<1>13. Settled'
  BY <1>3, <1>4 DEF Settled, Agreement
<1> QED BY <1>10, <1>11, <1>12, <1>13 DEF Invariant

LEMMA FlushFramesKept ==
    ASSUME Invariant, NEW p \in Peers, FlushFrames(p)
    PROVE  Invariant'
<1>1. /\ pc[p] = "open" /\ WriteAndFlush(p, <<>>)
      /\ UNCHANGED <<kind, ahead, seen, pc, received, gone, split>>
  BY DEF FlushFrames
<1>2. Appends(p, <<>>)
  BY <1>1, WriteIs, EmptySeq DEF Invariant
<1>3. Onward(p) /\ Steady /\ gone' \in [Peers -> BOOLEAN] /\ ~Unwritten(p)' /\ Written(p)
  BY <1>1 DEF Invariant, Types, Onward, Steady, Unwritten, Written, Places, Final
<1>4. Types' /\ Streams' /\ Said'
  BY <1>1, <1>2, <1>3, QuietKept
<1>5. Settled'
  BY <1>1 DEF Invariant, Settled, Agreement
<1> QED BY <1>4, <1>5 DEF Invariant

-----------------------------------------------------------------------------
(* The steps that read. *)

LEMMA BelowTwo ==
    ASSUME NEW n \in Nat, n < 2
    PROVE  (n = 0 \/ n = 1) /\ n + 1 <= 2 /\ (n + 1 = 2 <=> n = 1)
OBVIOUS

\* What is left underway is the rest of what was, one place further.
LEMMA ReadLeaves ==
    ASSUME Types, NEW p \in Peers, NEW t, Read(p, t), UNCHANGED out
    PROVE  /\ Underway(p)' \in Seq(Tokens)
           /\ Len(Underway(p)') \in Nat /\ Len(Underway(p)) = Len(Underway(p)') + 1
           /\ t = Underway(p)[1]
           /\ \A i \in 1 .. Len(Underway(p)') : Underway(p)'[i] = Underway(p)[i + 1]
<1> DEFINE u == Underway(p)'
           t1 == <<t>>
<1>1. u \in Seq(Tokens)
  <2>1. u = Cat(Cat(ahead'[p], net'[p]), out'[Other(p)])
    BY DEF Underway, Cat
  <2>2. ahead'[p] \in Seq(Tokens) /\ net'[p] \in Seq(Tokens) /\ out'[Other(p)] \in Seq(Tokens)
    BY ReadTakes, Others DEF Types
  <2> QED BY <2>1, <2>2, CatType
<1>2. t1 \in Seq(Tokens) /\ Len(t1) = 1 /\ t1[1] = t
  <2>1. t \in Tokens
    BY ReadTakes
  <2> QED BY <2>1
<1>3. Underway(p) = Cat(t1, u)
  BY ReadTakes
<1> HIDE DEF u, t1
<1>4. /\ Len(Cat(t1, u)) = Len(t1) + Len(u) /\ Len(u) \in Nat
      /\ \A i \in 1 .. Len(t1) + Len(u) :
             Cat(t1, u)[i] = IF i <= Len(t1) THEN t1[i] ELSE u[i - Len(t1)]
  BY <1>1, <1>2, CatElements, LenProperties
<1>5. Len(Cat(t1, u)) = Len(u) + 1 /\ Cat(t1, u)[1] = t
  BY <1>2, <1>4
<1>6. ASSUME NEW i \in 1 .. Len(u) PROVE u[i] = Cat(t1, u)[i + 1]
  <2>1. i + 1 \in 1 .. Len(t1) + Len(u) /\ ~(i + 1 <= Len(t1)) /\ (i + 1) - Len(t1) = i
    BY <1>2, <1>4
  <2> QED BY <1>4, <2>1
<1> QED BY <1>1, <1>3, <1>4, <1>5, <1>6 DEF u

LEMMA ReadBare ==
    ASSUME Types, NEW p \in Peers, NEW t, Read(p, t), UNCHANGED kind, Bare(p), Bare(Other(p))
    PROVE  Bare(p)' /\ Bare(Other(p))'
<1>1. Bare(Other(p))'
  BY Others DEF Read, Bare, Types
<1>2. Bare(p)'
  <2> SUFFICES ASSUME kind[p].cap = 0 PROVE ahead'[p] = <<>>
    BY DEF Bare
  <2>1. PICK n \in 1 .. Len(net[p]) :
            /\ n = 1 \/ n <= kind[p].cap
            /\ ahead' = [ahead EXCEPT ![p] = SubSeq(net[p], 2, n)]
    BY DEF Read, Bare
  <2>2. n = 1
    BY <2>1
  <2>3. SubSeq(net[p], 2, 1) = <<>>
    BY SubSeqEmpty DEF Types
  <2> QED BY <2>1, <2>2, <2>3 DEF Types
<1> QED BY <1>1, <1>2

(* Reading changes nothing on the other side's stream. *)
LEMMA ReadStreams ==
    ASSUME Types, Streams, NEW p \in Peers, NEW t, Read(p, t), UNCHANGED <<kind, out, split, wrote>>,
           seen'[Other(p)] = seen[Other(p)], received'[Other(p)] = received[Other(p)],
           pc'[Other(p)] = pc[Other(p)],
           Unwritten(p)' => Unwritten(p), Written(p)' => Written(p),
           Written(Other(p)) => Len(seen'[p]) + Len(Underway(p)') >= 2,
           Reads(p)', Kept(p)'
    PROVE  Streams'
<1> DEFINE q == Other(p)
<1>0. /\ q \in Peers /\ q # p /\ Other(q) = p /\ \A r \in Peers : r = p \/ r = q
      /\ Underway(q)' = Underway(q)
  BY Others, ReadTakes
<1>1. Underway(p) # <<>>
  <2>1. Len(Underway(p)) # 0
    BY ReadLeaves
  <2> QED BY <2>1, EmptySeq
<1> HIDE DEF q
<1>2. Reads(q)'
  BY <1>0 DEF Streams, Reads, q
<1>3. Writes(p)'
  BY <1>0 DEF Streams, Writes, q
<1>4. Writes(q)'
  <2>1. ~Unwritten(q)
    BY <1>0, <1>1 DEF Streams, Writes
  <2>2. (Unwritten(q)' => Unwritten(q)) /\ (Written(q)' => Written(q))
    BY DEF Unwritten, Written, q
  <2> QED BY <1>0, <2>1, <2>2 DEF Writes, q
<1>5. Kept(q)'
  BY <1>0 DEF Streams, Kept, Intact, q
<1>6. Bare(p)' /\ Bare(q)'
  BY <1>0, ReadBare DEF Streams, q
<1> QED BY <1>0, <1>2, <1>3, <1>4, <1>5, <1>6 DEF Streams

LEMMA ReadHeadKept ==
    ASSUME Invariant, NEW p \in Peers, ReadHead(p)
    PROVE  Invariant'
<1> DEFINE s == seen[p]
           u == Underway(p)
           v == Underway(p)'
           q == Other(p)
<1>1. PICK t \in Tokens :
         /\ Read(p, t)
         /\ seen' = [seen EXCEPT ![p] = Append(s, t)]
         /\ pc' = IF EndsHead(t) THEN [pc EXCEPT ![p] = "parse"] ELSE pc
  BY DEF ReadHead, Goto
<1>2. /\ pc[p] = "reading" /\ UNCHANGED <<kind, out, received, gone, split, wrote>>
      /\ Types /\ Streams /\ Said /\ Settled
      /\ q \in Peers /\ q # p /\ Other(q) = p
  BY Others DEF ReadHead, Invariant
<1>3. /\ s \in Seq(Tokens) /\ u \in Seq(Tokens) /\ v \in Seq(Tokens)
      /\ Len(s) \in Nat /\ Len(v) \in Nat /\ Len(u) = Len(v) + 1
      /\ t = u[1] /\ \A i \in 1 .. Len(v) : v[i] = u[i + 1]
      /\ <<>> \in Seq(Tokens)
  BY <1>1, <1>2, ReadLeaves, UnderwayIs, LenProperties, EmptySeq DEF Types
<1>4. /\ Len(s) < 2 /\ received[p] = <<>>
      /\ \A i \in 1 .. Len(s) : Place(s[i], i)
      /\ \A i \in 1 .. Len(u) : Place(u[i], Len(s) + i)
  BY <1>2 DEF Streams, Reads
<1> DEFINE r == Append(s, t)
<1>5. /\ r \in Seq(Tokens) /\ Len(r) = Len(s) + 1 /\ r[Len(s) + 1] = t
      /\ \A i \in 1 .. Len(s) : r[i] = s[i]
  BY <1>3, AppendProperties
<1>6. seen'[p] = r /\ \A o \in Peers : o # p => seen'[o] = seen[o]
  BY <1>1, <1>2 DEF Types
<1> HIDE DEF s, u, v, r, q
<1>7. Place(t, Len(s) + 1)
  BY <1>3, <1>4
<1>8. EndsHead(t) <=> Len(s) = 1
  <2>0. Len(s) \in Nat /\ Len(s) < 2
    BY <1>3, <1>4
  <2>1. Len(s) + 1 <= 2 /\ (Len(s) + 1 = 2 <=> Len(s) = 1)
    BY <2>0, BelowTwo
  <2>2. t.what # "frame" /\ t.at = Len(s) + 1
    BY <1>7, <2>1 DEF Place
  <2> QED BY <2>1, <2>2 DEF EndsHead
<1>9. /\ pc'[p] = IF Len(s) = 1 THEN "parse" ELSE "reading"
      /\ \A o \in Peers : o # p => pc'[o] = pc[o]
  BY <1>1, <1>2, <1>8 DEF Types
<1>10. Types'
  <2>1. pc' \in [Peers -> Places] /\ seen' \in [Peers -> Seq(Tokens)]
    BY <1>1, <1>2, <1>5 DEF Types, Places, r
  <2>2. net' \in [Peers -> Seq(Tokens)] /\ ahead' \in [Peers -> Seq(Tokens)]
    BY <1>1, <1>2, ReadTakes
  <2> QED BY <1>2, <2>1, <2>2 DEF Types
<1>11. Reads(p)'
  <2>1. \A i \in 1 .. Len(r) : Place(r[i], i)
    BY <1>3, <1>4, <1>5, <1>7
  <2>2. ASSUME NEW i \in 1 .. Len(v) PROVE Place(v[i], Len(r) + i)
    <3>1. i + 1 \in 1 .. Len(u) /\ Len(s) + (i + 1) = Len(r) + i
      BY <1>3, <1>5
    <3> QED BY <1>3, <1>4, <3>1
  <2>3. /\ Len(r) <= 2
        /\ pc'[p] \in {"start", "reading"} => Len(r) < 2
        /\ pc'[p] \in {"parse", "open"} => Len(r) = 2
    <3>1. Len(s) \in Nat /\ Len(s) < 2 /\ Len(r) = Len(s) + 1
      BY <1>3, <1>4, <1>5
    <3>2. CASE Len(s) = 1
      BY <1>9, <3>1, <3>2
    <3>3. CASE Len(s) = 0
      BY <1>9, <3>1, <3>3
    <3> QED BY <3>1, <3>2, <3>3, BelowTwo
  <2>4. received'[p] = <<>>
    BY <1>2, <1>4
  <2> QED BY <1>6, <2>1, <2>2, <2>3, <2>4 DEF Reads, v
<1>12. Kept(p)'
  <2> DEFINE t1 == <<t>>
  <2>1. t1 \in Seq(Tokens) /\ r = Cat(s, t1)
    BY <1>1, <1>3, AppendIsConcat DEF Cat, r
  <2>2. u = Cat(t1, v)
    BY <1>1, <1>2, ReadTakes DEF u, v
  <2> HIDE DEF t1
  <2>3. Cat(Cat(s, t1), v) = Cat(s, Cat(t1, v))
    BY <1>3, <2>1, CatAssoc
  <2> DEFINE none == <<>>
  <2>4. Cat(s, none) = s /\ Cat(r, none) = r
    BY <1>3, <1>5, CatEmpty
  <2>5. received[p] = none
    BY <1>4
  <2> HIDE DEF none
  <2>6. Cat(Cat(r, received[p]), v) = Cat(Cat(s, received[p]), u)
    BY <2>1, <2>2, <2>3, <2>4, <2>5
  <2> QED BY <1>2, <1>6, <2>6 DEF Streams, Kept, Intact, s, u, v
<1>13. Streams'
  <2>1. Written(q) => Len(s) + Len(u) >= 2
    BY <1>2 DEF Streams, Writes, s, u
  <2>2. Written(q) => Len(seen'[p]) + Len(Underway(p)') >= 2
    BY <1>3, <1>5, <1>6, <2>1 DEF v
  <2>3. (Unwritten(p)' => Unwritten(p)) /\ (Written(p)' => Written(p))
    BY <1>2, <1>9 DEF Unwritten, Written
  <2> QED BY <1>1, <1>2, <1>6, <1>9, <1>11, <1>12, <2>2, <2>3, ReadStreams DEF q
<1>14. Said'
  <2>1. CASE p = "client"
    <3>1. pc'["server"] = pc["server"]
      BY <1>9, <2>1 DEF Peers
    <3>2. (\A i \in 1 .. Len(s) : Fit(s[i], pc["server"]))
          /\ \A i \in 1 .. Len(u) : Fit(u[i], pc["server"])
      BY <1>2, <2>1 DEF Said, s, u
    <3>3. \A i \in 1 .. Len(r) : Fit(r[i], pc["server"])
      <4>1. 1 \in 1 .. Len(u)
        BY <1>3
      <4>2. Fit(t, pc["server"])
        BY <1>3, <3>2, <4>1
      <4> QED BY <1>3, <1>5, <3>2, <4>2
    <3>4. \A i \in 1 .. Len(v) : Fit(v[i], pc["server"])
      <4>1. \A i \in 1 .. Len(v) : i + 1 \in 1 .. Len(u)
        BY <1>3
      <4> QED BY <1>3, <3>2, <4>1
    <3> QED BY <1>6, <2>1, <3>1, <3>3, <3>4 DEF Said, v
  <2>2. CASE p = "server"
    <3>1. seen'["client"] = seen["client"] /\ Underway("client")' = Underway("client")
      BY <1>1, <1>2, <1>6, <2>2, ReadTakes DEF Other, Peers
    <3>2. \A x : Fit(x, pc["server"]) => Fit(x, pc'["server"])
      BY <1>2, <1>9, <2>2 DEF Fit
    <3> QED BY <1>2, <3>1, <3>2 DEF Said
  <2> QED BY <2>1, <2>2 DEF Peers
<1>15. Settled'
  BY <1>2, <1>9 DEF Settled, Agreement, Peers
<1> QED BY <1>10, <1>13, <1>14, <1>15 DEF Invariant

LEMMA ReceiveFrameKept ==
    ASSUME Invariant, NEW p \in Peers, ReceiveFrame(p)
    PROVE  Invariant'
<1> DEFINE s == seen[p]
           u == Underway(p)
           v == Underway(p)'
           q == Other(p)
           g == received[p]
<1>1. PICK t \in Tokens : Read(p, t) /\ received' = [received EXCEPT ![p] = Append(g, t)]
  BY DEF ReceiveFrame
<1>2. /\ pc[p] = "open" /\ UNCHANGED <<kind, out, seen, pc, gone, split, wrote>>
      /\ Types /\ Streams /\ Said /\ Settled
      /\ q \in Peers /\ q # p /\ Other(q) = p
  BY Others DEF ReceiveFrame, Invariant
<1>3. /\ s \in Seq(Tokens) /\ u \in Seq(Tokens) /\ v \in Seq(Tokens) /\ g \in Seq(Frames)
      /\ Len(v) \in Nat /\ Len(u) = Len(v) + 1
      /\ t = u[1] /\ \A i \in 1 .. Len(v) : v[i] = u[i + 1]
  BY <1>1, <1>2, ReadLeaves, UnderwayIs DEF Types
<1>4. /\ Len(s) = 2 /\ \A i \in 1 .. Len(s) : Place(s[i], i)
      /\ \A i \in 1 .. Len(u) : Place(u[i], Len(s) + i)
  BY <1>2 DEF Streams, Reads
<1> HIDE DEF s, u, v, g, q
<1>5. t \in Frames
  <2>1. Place(t, 3)
    BY <1>3, <1>4
  <2> QED BY <2>1 DEF Place, Tokens, Frames
<1>6. received'[p] = Append(g, t) /\ received'[q] = received[q]
      /\ Append(g, t) \in Seq(Frames)
  BY <1>1, <1>2, <1>3, <1>5, AppendProperties DEF Types
<1>7. Types'
  <2>1. received' \in [Peers -> Seq(Frames)]
    BY <1>1, <1>2, <1>6 DEF Types
  <2>2. net' \in [Peers -> Seq(Tokens)] /\ ahead' \in [Peers -> Seq(Tokens)]
    BY <1>1, <1>2, ReadTakes
  <2> QED BY <1>2, <2>1, <2>2 DEF Types
<1>8. Reads(p)'
  <2>1. ASSUME NEW i \in 1 .. Len(v) PROVE Place(v[i], Len(s) + i)
    <3>1. i + 1 \in 1 .. Len(u) /\ Len(s) + (i + 1) > 2 /\ Len(s) + i > 2
      BY <1>3, <1>4
    <3>2. Place(u[i + 1], Len(s) + (i + 1))
      BY <1>4, <3>1
    <3> QED BY <1>3, <1>4, <3>1, <3>2 DEF Place
  <2> QED BY <1>2, <1>4, <2>1 DEF Reads, s, v
<1>9. Kept(p)'
  <2> DEFINE t1 == <<t>>
             sg == Cat(s, g)
  <2>1. t1 \in Seq(Tokens) /\ Append(g, t) = Cat(g, t1) /\ g \in Seq(Tokens)
    BY <1>1, <1>3, <1>5, AppendIsConcat, FramesAreTokens DEF Cat
  <2>2. u = Cat(t1, v)
    BY <1>1, <1>2, ReadTakes DEF u, v
  <2> HIDE DEF t1
  <2>3. Cat(s, Cat(g, t1)) = Cat(sg, t1) /\ sg \in Seq(Tokens)
    BY <1>3, <2>1, CatAssoc, CatType
  <2> HIDE DEF sg
  <2>4. Cat(Cat(sg, t1), v) = Cat(sg, Cat(t1, v))
    BY <1>3, <2>1, <2>3, CatAssoc
  <2>5. Cat(Cat(s, Append(g, t)), v) = Cat(Cat(s, g), u)
    BY <2>1, <2>2, <2>3, <2>4 DEF sg
  <2> QED BY <1>2, <1>6, <2>5 DEF Streams, Kept, Intact, s, u, v, g
<1>10. Streams'
  <2>1. Len(seen'[p]) + Len(Underway(p)') >= 2
    BY <1>2, <1>3, <1>4 DEF s, v
  <2>2. (Unwritten(p)' => Unwritten(p)) /\ (Written(p)' => Written(p))
    BY <1>2 DEF Unwritten, Written
  <2> QED BY <1>1, <1>2, <1>6, <1>8, <1>9, <2>1, <2>2, ReadStreams DEF q
<1>11. Said'
  <2>1. CASE p = "client"
    <3>1. \A i \in 1 .. Len(u) : Fit(u[i], pc["server"])
      BY <1>2, <2>1 DEF Said, u
    <3>2. \A i \in 1 .. Len(v) : i + 1 \in 1 .. Len(u)
      BY <1>3
    <3>3. \A i \in 1 .. Len(v) : Fit(v[i], pc["server"])
      BY <1>3, <3>1, <3>2
    <3> QED BY <1>2, <2>1, <3>3 DEF Said, v
  <2>2. CASE p = "server"
    <3>1. Underway("client")' = Underway("client")
      BY <1>1, <1>2, <2>2, ReadTakes DEF Other, Peers
    <3> QED BY <1>2, <3>1 DEF Said
  <2> QED BY <2>1, <2>2 DEF Peers
<1>12. Settled'
  BY <1>2 DEF Settled, Agreement
<1> QED BY <1>7, <1>10, <1>11, <1>12 DEF Invariant

(* Splitting a blocking stream throws away what was read ahead; an unbuffered
   one reads nothing ahead. *)
LEMMA SplitKept ==
    ASSUME Invariant, NEW p \in Peers, Split(p)
    PROVE  Invariant'
<1> DEFINE s == seen[p]
           u == Underway(p)
           v == Underway(p)'
           q == Other(p)
           a == ahead[p]
           no == Cat(net[p], out[q])
<1>1. /\ pc[p] = "open" /\ split' = [split EXCEPT ![p] = TRUE]
      /\ UNCHANGED <<kind, seen, pc, received, gone, wrote>>
      /\ Types /\ Streams /\ Said /\ Settled
      /\ q \in Peers /\ q # p /\ Other(q) = p /\ \A r \in Peers : r = p \/ r = q
  BY Others DEF Split, Invariant
<1>2. \A r \in Peers : Intact(r)' => Intact(r)
  BY <1>1 DEF Intact, Types
<1>3. Settled'
  BY <1>1 DEF Settled, Agreement
<1>4. CASE kind[p].async
  <2>1. UNCHANGED <<out, net, ahead>>
    BY <1>4 DEF Split
  <2>2. \A r \in Peers : Underway(r)' = Underway(r)
    BY <2>1 DEF Underway
  <2>3. Types'
    BY <1>1, <2>1 DEF Types
  <2>4. Streams'
    BY <1>1, <1>2, <2>1, <2>2 DEF Streams, Reads, Writes, Unwritten, Written, Kept, Bare, Other, Peers
  <2>5. Said'
    BY <1>1, <2>2 DEF Said, Peers
  <2> QED BY <1>3, <2>3, <2>4, <2>5 DEF Invariant
<1>5. CASE ~kind[p].async
  <2>1. /\ out' = [out EXCEPT ![p] = <<>>]
        /\ net' = [net EXCEPT ![q] = Cat(net[q], out[p])]
        /\ ahead' = [ahead EXCEPT ![p] = <<>>]
    BY <1>5 DEF Split, Cat
  <2>2. /\ a \in Seq(Tokens) /\ net[p] \in Seq(Tokens) /\ out[q] \in Seq(Tokens)
        /\ ahead[q] \in Seq(Tokens) /\ net[q] \in Seq(Tokens) /\ out[p] \in Seq(Tokens)
        /\ Cat(net[q], out[p]) \in Seq(Tokens) /\ no \in Seq(Tokens) /\ <<>> \in Seq(Tokens)
    <3>1. /\ a \in Seq(Tokens) /\ net[p] \in Seq(Tokens) /\ out[q] \in Seq(Tokens)
          /\ ahead[q] \in Seq(Tokens) /\ net[q] \in Seq(Tokens) /\ out[p] \in Seq(Tokens)
      BY <1>1 DEF Types
    <3> QED BY <3>1, CatType, EmptySeq
  <2>3. Types'
    BY <1>1, <2>1, <2>2 DEF Types
  <2>4. v = no
    <3>1. v = Cat(Cat(<<>>, net[p]), out[q])
      BY <1>1, <2>1 DEF Underway, Types, Cat
    <3> QED BY <2>2, <3>1, CatEmpty
  <2>5. Underway(q)' = Underway(q)
    <3> DEFINE b == Cat(Cat(ahead[q], net[q]), out[p])
    <3>1. Underway(q)' = Cat(Cat(ahead[q], Cat(net[q], out[p])), <<>>)
      BY <1>1, <2>1 DEF Underway, Types, Cat
    <3>2. Cat(ahead[q], Cat(net[q], out[p])) = b
      BY <2>2, CatAssoc
    <3>3. b \in Seq(Tokens)
      BY <2>2, CatType
    <3> HIDE DEF b
    <3>4. Cat(b, <<>>) = b
      BY <3>3, CatEmpty
    <3>5. Underway(q) = b
      BY <1>1, UnderwayIs DEF b
    <3> QED BY <3>1, <3>2, <3>4, <3>5
  <2>6. u = Cat(a, no)
    <3>1. u = Cat(Cat(a, net[p]), out[q])
      BY <1>1, UnderwayIs
    <3> QED BY <2>2, <3>1, CatAssoc
  <2> HIDE DEF no, a
  <2>7. /\ Len(a) \in Nat /\ Len(no) \in Nat /\ Len(u) = Len(a) + Len(no)
        /\ \A i \in 1 .. Len(no) : Len(a) + i \in 1 .. Len(u) /\ no[i] = u[Len(a) + i]
    <3>1. /\ Len(Cat(a, no)) = Len(a) + Len(no)
          /\ \A i \in 1 .. Len(a) + Len(no) :
                 Cat(a, no)[i] = IF i <= Len(a) THEN a[i] ELSE no[i - Len(a)]
      BY <2>2, CatElements
    <3>2. Len(a) \in Nat /\ Len(no) \in Nat
      BY <2>2, LenProperties
    <3> HIDE DEF u
    <3>3. ASSUME NEW i \in 1 .. Len(no)
          PROVE  Len(a) + i \in 1 .. Len(a) + Len(no) /\ no[i] = Cat(a, no)[Len(a) + i]
      <4>1. /\ Len(a) + i \in 1 .. Len(a) + Len(no) /\ ~(Len(a) + i <= Len(a))
            /\ (Len(a) + i) - Len(a) = i
        BY <3>2
      <4> QED BY <3>1, <4>1
    <3> QED BY <2>6, <3>1, <3>2, <3>3
  <2>8. /\ Len(s) = 2 /\ \A i \in 1 .. Len(s) : Place(s[i], i)
        /\ \A i \in 1 .. Len(u) : Place(u[i], Len(s) + i)
    BY <1>1 DEF Streams, Reads
  <2> HIDE DEF s, u, v, q
  <2>9. Reads(p)'
    <3>1. ASSUME NEW i \in 1 .. Len(no) PROVE Place(no[i], Len(s) + i)
      <4>1. Len(s) + (Len(a) + i) > 2 /\ Len(s) + i > 2
        BY <2>7, <2>8
      <4>2. Place(u[Len(a) + i], Len(s) + (Len(a) + i)) /\ no[i] = u[Len(a) + i]
        BY <2>7, <2>8
      <4> QED BY <2>8, <4>1, <4>2 DEF Place
    <3> QED BY <1>1, <2>4, <2>8, <3>1 DEF Reads, s, v
  <2>10. Reads(q)'
    BY <1>1, <2>5 DEF Streams, Reads, q
  <2>11. Writes(p)'
    BY <1>1, <2>5 DEF Streams, Writes, Unwritten, Written, q
  <2>12. Writes(q)'
    <3>1. s # <<>>
      <4>1. Len(<<>>) = 0
        BY EmptySeq
      <4> QED BY <2>8, <4>1
    <3>2. ~Unwritten(q)
      BY <1>1, <3>1 DEF Streams, Writes, s
    <3>3. Len(s) + Len(no) >= 2
      BY <2>7, <2>8
    <3> QED BY <1>1, <2>4, <3>2, <3>3 DEF Writes, Unwritten, s, v
  <2>13. Kept(p)'
    <3>1. Intact(p)' => kind[p].cap = 0
      BY <1>1, <1>5 DEF Intact, Types
    <3>2. kind[p].cap = 0 => u = no
      <4>1. kind[p].cap = 0 => a = <<>>
        BY <1>1 DEF Streams, Bare, a
      <4>2. Cat(<<>>, no) = no
        BY <2>2, CatEmpty
      <4> QED BY <2>6, <4>1, <4>2
    <3>3. Intact(p) => Cat(Cat(seen[p], received[p]), u) = wrote[q]
      BY <1>1 DEF Streams, Kept, u, q
    <3> QED BY <1>1, <1>2, <2>4, <3>1, <3>2, <3>3 DEF Kept, v, q
  <2>14. Kept(q)'
    BY <1>1, <1>2, <2>5 DEF Streams, Kept, q
  <2>15. Bare(p)' /\ Bare(q)'
    BY <1>1, <2>1 DEF Streams, Bare, Types
  <2>16. Said'
    <3>1. CASE p = "client"
      <4>1. \A i \in 1 .. Len(u) : Fit(u[i], pc["server"])
        BY <1>1, <3>1 DEF Said, u
      <4>2. \A i \in 1 .. Len(no) : Fit(no[i], pc["server"])
        BY <2>7, <4>1
      <4> QED BY <1>1, <2>4, <3>1, <4>2 DEF Said, v
    <3>2. CASE p = "server"
      <4>1. Underway("client")' = Underway("client")
        BY <2>5, <3>2 DEF Other, q
      <4> QED BY <1>1, <4>1 DEF Said
    <3> QED BY <3>1, <3>2 DEF Peers
  <2>17. Streams'
    BY <1>1, <2>9, <2>10, <2>11, <2>12, <2>13, <2>14, <2>15 DEF Streams
  <2> QED BY <1>3, <2>3, <2>16, <2>17 DEF Invariant
<1> QED BY <1>4, <1>5

-----------------------------------------------------------------------------
(* The theorems. *)

LEMMA InitInvariant ==
    ASSUME Init
    PROVE  Invariant
<1> DEFINE none == <<>>
<1>1. none \in Seq(Tokens) /\ none \in Seq(Frames) /\ Len(none) = 0 /\ Cat(none, none) = none
  <2>1. none \in Seq(Tokens) /\ none \in Seq(Frames) /\ Len(none) = 0
    BY EmptySeq
  <2> HIDE DEF none
  <2>2. Cat(none, <<>>) = none
    BY <2>1, CatEmpty
  <2> QED BY <2>1, <2>2 DEF none
<1>2. \A p \in Peers : /\ out[p] = none /\ net[p] = none /\ ahead[p] = none /\ seen[p] = none
                       /\ received[p] = none /\ wrote[p] = none /\ Other(p) \in Peers
                       /\ gone[p] = FALSE /\ split[p] = FALSE
                       /\ pc[p] = IF p = "client" THEN "start" ELSE "reading"
  BY Others DEF Init
<1>3. Types
  BY <1>1 DEF Init, Types, Places, Final
<1>4. \A p \in Peers : Underway(p) = none
  BY <1>1, <1>2 DEF Underway, Cat
<1> HIDE DEF none
<1>5. Streams
  <2> SUFFICES ASSUME NEW p \in Peers PROVE Reads(p) /\ Writes(p) /\ Kept(p) /\ Bare(p)
    BY DEF Streams
  <2>1. Reads(p)
    BY <1>1, <1>2, <1>4 DEF Reads, none
  <2>2. Writes(p)
    BY <1>2, <1>4 DEF Writes, Written, none
  <2>3. Kept(p)
    BY <1>1, <1>2, <1>4 DEF Kept
  <2>4. Bare(p)
    BY <1>2 DEF Bare, none
  <2> QED BY <2>1, <2>2, <2>3, <2>4
<1>6. Said
  BY <1>1, <1>2, <1>4 DEF Said, Peers
<1>7. Settled
  BY <1>2 DEF Settled, Agreement, Peers
<1> QED BY <1>3, <1>5, <1>6, <1>7 DEF Invariant

LEMMA StillInvariant ==
    ASSUME Invariant, UNCHANGED vars
    PROVE  Invariant'
<1> USE DEF vars
<1>1. Types' /\ Settled'
  BY DEF Invariant, Types, Settled, Agreement
<1>2. \A p : Underway(p)' = Underway(p)
  BY DEF Underway
<1>3. Streams'
  BY <1>2 DEF Invariant, Streams, Reads, Writes, Unwritten, Written, Kept, Intact, Bare
<1>4. Said'
  BY <1>2 DEF Invariant, Said
<1> QED BY <1>1, <1>3, <1>4 DEF Invariant

LEMMA NextInvariant ==
    ASSUME Invariant, [Next]_vars
    PROVE  Invariant'
<1>1. CASE UNCHANGED vars
  BY <1>1, StillInvariant
<1>2. ASSUME NEW p \in Peers, Handshake(p)
      PROVE  Invariant'
  BY <1>2, ReqHandshakeKept, CheckRespKept, AcceptKept, ReadHeadKept, ReadHeadEofKept DEF Handshake
<1>3. ASSUME NEW p \in Peers, Application(p)
      PROVE  Invariant'
  BY <1>3, SendFrameKept, FlushFramesKept, ReceiveFrameKept, SplitKept, CrashKept,
     DiesWritingKept DEF Application
<1> QED BY <1>1, <1>2, <1>3 DEF Next

LEMMA InvariantAlways == Spec => []Invariant
<1>1. Init => Invariant
  BY InitInvariant
<1>2. Invariant /\ [Next]_vars => Invariant'
  BY NextInvariant
<1> QED BY <1>1, <1>2, PTL DEF Spec

(* Tokens are the only thing the streams ever carry, and frames the only thing the
   codec is ever handed. *)
THEOREM TypeOKAlways == Spec => []TypeOK
<1>1. Invariant => TypeOK
  BY DEF Invariant, Types, TypeOK, Places
<1> QED BY <1>1, InvariantAlways, PTL

(* Over every kind of stream, until a buffered blocking one is split, the handshake
   reads its head and no more, and what arrives is what was written, in order. *)
THEOREM NothingSwallowedAlways == Spec => []NothingSwallowed
<1>1. ASSUME Invariant PROVE NothingSwallowed
  <2> SUFFICES ASSUME NEW p \in Peers
               PROVE  /\ \A i \in DOMAIN seen[p] : seen[p][i].what # "frame"
                      /\ Intact(p) => Arrived(p) \o Underway(p) = wrote[Other(p)]
    BY DEF NothingSwallowed, Intact
  <2>1. seen[p] \in Seq(Tokens) /\ Reads(p) /\ Kept(p)
    BY <1>1 DEF Invariant, Types, Streams
  <2>2. \A i \in DOMAIN seen[p] : seen[p][i].what # "frame"
    <3>1. Len(seen[p]) \in Nat /\ DOMAIN seen[p] = 1 .. Len(seen[p]) /\ Len(seen[p]) <= 2
          /\ \A i \in 1 .. Len(seen[p]) : Place(seen[p][i], i)
      BY <2>1, LenProperties DEF Reads
    <3>2. \A i \in 1 .. Len(seen[p]) : i <= 2
      BY <3>1
    <3> QED BY <3>1, <3>2 DEF Place
  <2>3. Intact(p) => Arrived(p) \o Underway(p) = wrote[Other(p)]
    BY <2>1 DEF Kept, Arrived, Cat
  <2> QED BY <2>2, <2>3
<1> QED BY <1>1, InvariantAlways, PTL

(* Wherever either side stops, a client that is open has a server that agreed, and
   a refused client a server that refused. *)
THEOREM AgreementAlways == Spec => []Agreement
<1>1. Invariant => Agreement
  BY DEF Invariant, Settled
<1> QED BY <1>1, InvariantAlways, PTL

=============================================================================
