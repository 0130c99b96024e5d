--------------------------- MODULE SequenceLemmas ---------------------------
(***************************************************************************)
(* Facts about concatenation.  Cat is \o under a name the provers do not   *)
(* look into: chains of it are rearranged by the lemmas alone.  And        *)
(* induction over the naturals, stated for sets instead of predicates.     *)
(***************************************************************************)
EXTENDS Integers, Sequences, SequenceTheorems, WellFoundedInduction, TLAPS

Cat(s, t) == s \o t

LEMMA CatElements ==
    ASSUME NEW S, NEW s \in Seq(S), NEW t \in Seq(S)
    PROVE  /\ Cat(s, t) \in Seq(S)
           /\ Len(Cat(s, t)) = Len(s) + Len(t)
           /\ \A i \in 1 .. Len(s) + Len(t) :
                  Cat(s, t)[i] = IF i <= Len(s) THEN s[i] ELSE t[i - Len(s)]
BY ConcatProperties DEF Cat

LEMMA CatType ==
    ASSUME NEW S, NEW s \in Seq(S), NEW t \in Seq(S)
    PROVE  Cat(s, t) \in Seq(S)
BY CatElements

LEMMA CatEmpty ==
    ASSUME NEW S, NEW s \in Seq(S)
    PROVE  Cat(s, <<>>) = s /\ Cat(<<>>, s) = s
BY ConcatEmptySeq DEF Cat

LEMMA CatAssoc ==
    ASSUME NEW S, NEW s \in Seq(S), NEW t \in Seq(S), NEW u \in Seq(S)
    PROVE  Cat(Cat(s, t), u) = Cat(s, Cat(t, u))
<1> DEFINE st == Cat(s, t)
           tu == Cat(t, u)
           l == Cat(st, u)
           r == Cat(s, tu)
<1>1. /\ Len(s) \in Nat /\ Len(t) \in Nat /\ Len(u) \in Nat
  BY LenProperties
<1>2. /\ st \in Seq(S) /\ Len(st) = Len(s) + Len(t)
      /\ \A i \in 1 .. Len(s) + Len(t) : st[i] = IF i <= Len(s) THEN s[i] ELSE t[i - Len(s)]
  BY CatElements
<1>3. /\ tu \in Seq(S) /\ Len(tu) = Len(t) + Len(u)
      /\ \A i \in 1 .. Len(t) + Len(u) : tu[i] = IF i <= Len(t) THEN t[i] ELSE u[i - Len(t)]
  BY CatElements
<1>4. /\ l \in Seq(S) /\ Len(l) = Len(st) + Len(u)
      /\ \A i \in 1 .. Len(st) + Len(u) : l[i] = IF i <= Len(st) THEN st[i] ELSE u[i - Len(st)]
  <2> HIDE DEF st
  <2>1. st \in Seq(S) /\ u \in Seq(S)
    BY <1>2
  <2> QED BY <2>1, CatElements
<1>5. /\ r \in Seq(S) /\ Len(r) = Len(s) + Len(tu)
      /\ \A i \in 1 .. Len(s) + Len(tu) : r[i] = IF i <= Len(s) THEN s[i] ELSE tu[i - Len(s)]
  BY <1>3, CatElements
<1> HIDE DEF st, tu, l, r
<1>6. Len(l) = Len(r) /\ \A i \in 1 .. Len(l) : l[i] = r[i]
  <2>1. Len(l) = Len(r)
    BY <1>1, <1>2, <1>3, <1>4, <1>5
  <2>2. ASSUME NEW i \in 1 .. Len(l) PROVE l[i] = r[i]
    <3>0. i \in Nat /\ i >= 1 /\ i <= Len(s) + Len(t) + Len(u)
          /\ i \in 1 .. Len(st) + Len(u) /\ i \in 1 .. Len(s) + Len(tu)
      BY <1>1, <1>2, <1>3, <1>4
    <3>1. CASE i <= Len(s)
      <4>1. i \in 1 .. Len(s) + Len(t) /\ i <= Len(st)
        BY <1>1, <1>2, <3>0, <3>1
      <4>2. l[i] = s[i]
        BY <1>2, <1>4, <3>0, <3>1, <4>1
      <4>3. r[i] = s[i]
        BY <1>5, <3>0, <3>1
      <4> QED BY <4>2, <4>3
    <3>2. CASE Len(s) < i /\ i <= Len(s) + Len(t)
      <4>1. i \in 1 .. Len(s) + Len(t) /\ i <= Len(st) /\ ~(i <= Len(s))
            /\ i - Len(s) \in 1 .. Len(t) + Len(u) /\ i - Len(s) <= Len(t)
        BY <1>1, <1>2, <3>0, <3>2
      <4>2. l[i] = t[i - Len(s)]
        BY <1>2, <1>4, <3>0, <4>1
      <4>3. r[i] = t[i - Len(s)]
        BY <1>3, <1>5, <3>0, <4>1
      <4> QED BY <4>2, <4>3
    <3>3. CASE i > Len(s) + Len(t)
      <4>1. /\ ~(i <= Len(st)) /\ ~(i <= Len(s)) /\ i - Len(s) \in 1 .. Len(t) + Len(u)
            /\ ~(i - Len(s) <= Len(t)) /\ i - Len(st) = i - Len(s) - Len(t)
        BY <1>1, <1>2, <3>0, <3>3
      <4>2. l[i] = u[i - Len(st)]
        BY <1>4, <3>0, <4>1
      <4>3. r[i] = u[i - Len(s) - Len(t)]
        BY <1>3, <1>5, <3>0, <4>1
      <4> QED BY <4>1, <4>2, <4>3
    <3> QED BY <1>1, <3>0, <3>1, <3>2, <3>3
  <2> QED BY <2>1, <2>2
<1>7. l = r
  BY <1>4, <1>5, <1>6, SeqEqual
<1> QED BY <1>7 DEF l, r, st, tu

LEMMA CutJoins ==
    ASSUME NEW S, NEW s \in Seq(S), NEW n \in 0 .. Len(s)
    PROVE  /\ SubSeq(s, 1, n) \in Seq(S) /\ Len(SubSeq(s, 1, n)) = n
           /\ SubSeq(s, n + 1, Len(s)) \in Seq(S)
           /\ SubSeq(s, 1, n) \o SubSeq(s, n + 1, Len(s)) = s
<1>1. Len(s) \in Nat /\ \A i \in 1 .. Len(s) : s[i] \in S
  BY LenProperties, ElementOfSeq
<1>2. SubSeq(s, 1, n) \in Seq(S) /\ Len(SubSeq(s, 1, n)) = n
  BY <1>1, SubSeqProperties
<1>3. SubSeq(s, n + 1, Len(s)) \in Seq(S)
  BY <1>1, SubSeqProperties
<1>4. SubSeq(s, 1, n) \o SubSeq(s, n + 1, Len(s)) = SubSeq(s, 1, Len(s))
  <2>1. 1 \in 1 .. Len(s) + 1 /\ n \in 1 - 1 .. Len(s) /\ Len(s) \in n .. Len(s)
    BY <1>1
  <2> QED BY <2>1, ConcatAdjacentSubSeq
<1> QED BY <1>2, <1>3, <1>4, SubSeqFull

LEMMA CatHead ==
    ASSUME NEW S, NEW s \in Seq(S), s # <<>>
    PROVE  Head(s) \in S /\ Tail(s) \in Seq(S) /\ s = Cat(<<Head(s)>>, Tail(s))
<1>1. Len(s) \in Nat \ {0}
  BY EmptySeq
<1>2. Tail(s) = SubSeq(s, 2, Len(s)) /\ Head(s) \in S /\ Tail(s) \in Seq(S)
  BY TailIsSubSeq, HeadTailProperties
<1>3. SubSeq(s, 1, Len(s)) = <<s[1]>> \o SubSeq(s, 2, Len(s))
  <2>1. 1 \in 1 .. Len(s) /\ Len(s) \in 1 .. Len(s)
    BY <1>1
  <2> QED BY <2>1, SubSeqRecursiveFirst
<1>4. SubSeq(s, 1, Len(s)) = s /\ Head(s) = s[1]
  BY SubSeqFull
<1> QED BY <1>2, <1>3, <1>4 DEF Cat

LEMMA JoinedTwo ==
    ASSUME NEW S, NEW x \in S, NEW y \in S
    PROVE  <<x>> \o <<y>> = <<x, y>> /\ <<x, y>> \in Seq(S)
<1>1. Append(<<x>>, y) = <<x>> \o <<y>>
  <2>1. <<x>> \in Seq(S)
    OBVIOUS
  <2> QED BY <2>1, AppendIsConcat
<1>2. /\ Append(<<x>>, y) \in Seq(S) /\ <<x, y>> \in Seq(S)
      /\ Len(<<x, y>>) = 2 /\ Len(Append(<<x>>, y)) = 2
  OBVIOUS
<1>3. \A i \in 1 .. 2 : Append(<<x>>, y)[i] = <<x, y>>[i]
  OBVIOUS
<1> QED BY <1>1, <1>2, <1>3, SeqEqual

LEMMA JoinedThree ==
    ASSUME NEW S, NEW x \in S, NEW y \in S, NEW z \in S
    PROVE  <<x>> \o <<y>> \o <<z>> = <<x, y, z>> /\ <<x, y, z>> \in Seq(S)
<1>1. Append(<<x, y>>, z) = <<x>> \o <<y>> \o <<z>>
  <2>1. <<x>> \o <<y>> = <<x, y>> /\ <<x, y>> \in Seq(S)
    BY JoinedTwo
  <2> QED BY <2>1, AppendIsConcat
<1>2. /\ Append(<<x, y>>, z) \in Seq(S) /\ <<x, y, z>> \in Seq(S)
      /\ Len(<<x, y, z>>) = 3 /\ Len(Append(<<x, y>>, z)) = 3
  OBVIOUS
<1>3. \A i \in 1 .. 3 : Append(<<x, y>>, z)[i] = <<x, y, z>>[i]
  OBVIOUS
<1> QED BY <1>1, <1>2, <1>3, SeqEqual

-----------------------------------------------------------------------------
(* Induction over the naturals, for a set instead of a predicate. *)

LEMMA LeastElement ==
    ASSUME NEW T, T \subseteq Nat, T # {}
    PROVE  \E x \in T : \A y \in T : x <= y
<1> DEFINE less == OpToRel(<, Nat)
<1>1. \A m, k \in Nat : m < k => <<m, k>> \in less
  BY DEF OpToRel
<1> HIDE DEF less
<1>2. IsWellFoundedOn(less, Nat)
  BY NatLessThanWellFounded DEF less
<1>3. PICK x \in T : \A y \in T : <<y, x>> \notin less
  BY <1>2, WFMin
<1>4. ASSUME NEW y \in T PROVE x <= y
  <2>1. x \in Nat /\ y \in Nat /\ <<y, x>> \notin less
    BY <1>3
  <2> QED BY <1>1, <2>1
<1> QED BY <1>4

LEMMA SetInduction ==
    ASSUME NEW S, 0 \in S, \A n \in Nat : n \in S => n + 1 \in S
    PROVE  Nat \subseteq S
<1> SUFFICES ASSUME ~(Nat \subseteq S) PROVE FALSE
  OBVIOUS
<1> DEFINE T == Nat \ S
<1>1. PICK x \in T : \A y \in T : x <= y
  <2>1. T \subseteq Nat /\ T # {}
    OBVIOUS
  <2> HIDE DEF T
  <2> QED BY <2>1, LeastElement
<1>2. x \in Nat /\ x # 0
  BY <1>1
<1>3. x - 1 \in Nat /\ ~(x <= x - 1) /\ (x - 1) + 1 = x
  BY <1>2
<1>4. x - 1 \in S
  BY <1>1, <1>3
<1> QED BY <1>1, <1>3, <1>4

(* A function iterated on Nat exists, and all its values are in the set. *)
LEMMA Iterated ==
    ASSUME NEW T, NEW start \in T, NEW step \in [T -> T]
    PROVE  \E f \in [Nat -> T] : f[0] = start /\ \A n \in Nat : f[n + 1] = step[f[n]]
<1> DEFINE Is(n, g) == /\ g \in [0 .. n -> T]
                       /\ g[0] = start
                       /\ \A k \in Nat : k < n => g[k + 1] = step[g[k]]
           Begun == {n \in Nat : \E g : Is(n, g)}
<1>1. Nat \subseteq Begun
  <2>1. 0 \in Begun
    <3>1. Is(0, [k \in 0 .. 0 |-> start])
      OBVIOUS
    <3> QED BY <3>1
  <2>2. ASSUME NEW n \in Nat, n \in Begun PROVE n + 1 \in Begun
    <3>1. PICK g : Is(n, g)
      BY <2>2
    <3> DEFINE h == [k \in 0 .. n + 1 |-> IF k <= n THEN g[k] ELSE step[g[n]]]
    <3>2. g[n] \in T
      BY <3>1
    <3>3. h \in [0 .. n + 1 -> T]
      BY <3>1, <3>2
    <3>4. h[0] = start
      BY <3>1
    <3>5. ASSUME NEW k \in Nat, k < n + 1 PROVE h[k + 1] = step[h[k]]
      <4>1. h[k] = g[k]
        BY <3>5
      <4>2. CASE k = n
        BY <4>1, <4>2
      <4>3. CASE k < n
        BY <3>1, <4>1, <4>3
      <4> QED BY <3>5, <4>2, <4>3
    <3>6. Is(n + 1, h)
      <4> HIDE DEF h
      <4> QED BY <3>3, <3>4, <3>5
    <3>7. n + 1 \in Nat /\ \E e : Is(n + 1, e)
      <4> HIDE DEF Is, h
      <4> QED BY <3>6
    <3> HIDE DEF Is, h
    <3> QED BY <3>7
  <2> HIDE DEF Begun
  <2> QED BY <2>1, <2>2, SetInduction
<1> DEFINE G == [n \in Nat |-> CHOOSE g : Is(n, g)]
<1>2. \A n \in Nat : Is(n, G[n])
  <2> SUFFICES ASSUME NEW n \in Nat PROVE Is(n, G[n])
    OBVIOUS
  <2>1. \E g : Is(n, g)
    BY <1>1
  <2> HIDE DEF Is
  <2> QED BY <2>1
<1> HIDE DEF G
<1>3. ASSUME NEW m \in Nat, NEW n \in Nat, m <= n PROVE G[n][m] = G[m][m]
  <2> DEFINE Same == {k \in Nat : k <= m => G[n][k] = G[m][k]}
  <2>1. 0 \in Same
    BY <1>2
  <2>2. ASSUME NEW k \in Nat, k \in Same PROVE k + 1 \in Same
    <3>1. CASE k < m
      <4>1. G[n][k + 1] = step[G[n][k]] /\ G[m][k + 1] = step[G[m][k]]
        BY <1>2, <1>3, <3>1
      <4> QED BY <2>2, <3>1, <4>1
    <3> QED BY <3>1
  <2>3. m \in Same
    <3> HIDE DEF Same
    <3> QED BY <2>1, <2>2, SetInduction
  <2> QED BY <2>3
<1> DEFINE f == [n \in Nat |-> G[n][n]]
<1>4. f \in [Nat -> T]
  BY <1>2
<1>5. f[0] = start
  BY <1>2
<1>6. ASSUME NEW n \in Nat PROVE f[n + 1] = step[f[n]]
  <2>1. G[n + 1][n + 1] = step[G[n + 1][n]]
    BY <1>2
  <2>2. G[n + 1][n] = G[n][n]
    BY <1>3
  <2> QED BY <2>1, <2>2
<1> HIDE DEF f
<1> QED BY <1>4, <1>5, <1>6

=============================================================================
