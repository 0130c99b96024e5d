-------------------------- MODULE HeaderCodecProofs --------------------------
(***************************************************************************)
(* What holds of the bytes of a header for every width of the long form,   *)
(* every length, key and number of operations: a header is the image of    *)
(* the fields it was told to have (IsImage), followed by nothing but keys. *)
(***************************************************************************)
EXTENDS HeaderCodec, SequenceLemmas

-----------------------------------------------------------------------------
(* Functions defined by recursion. *)

(* Like Iterated, for numbers; the step may look at the index. *)
LEMMA Accumulated ==
    ASSUME NEW step, step \in [Nat \X Nat -> Nat]
    PROVE  \E f \in [Nat -> Nat] : f[0] = 0 /\ \A n \in Nat : f[n + 1] = step[<<n + 1, f[n]>>]
<1> DEFINE next == [p \in Nat \X Nat |-> <<p[1] + 1, step[<<p[1] + 1, p[2]>>]>>]
           Pairs == Nat \X Nat
           first == <<0, 0>>
<1>1. first \in Pairs /\ next \in [Pairs -> Pairs]
  OBVIOUS
<1>2. PICK g \in [Nat -> Nat \X Nat] : g[0] = first /\ \A n \in Nat : g[n + 1] = next[g[n]]
  <2>1. \E f \in [Nat -> Pairs] : f[0] = first /\ \A n \in Nat : f[n + 1] = next[f[n]]
    <3> HIDE DEF next, Pairs, first
    <3> QED BY ONLY <1>1, Iterated
  <2> QED BY <2>1
<1>3. ASSUME NEW n \in Nat
      PROVE  /\ g[n + 1][1] = g[n][1] + 1
             /\ g[n + 1][2] = step[<<g[n][1] + 1, g[n][2]>>]
  <2>1. g[n] \in Nat \X Nat /\ g[n + 1] = next[g[n]]
    BY <1>2
  <2>2. next[g[n]] = <<g[n][1] + 1, step[<<g[n][1] + 1, g[n][2]>>]>>
    BY <2>1
  <2> QED BY <2>1, <2>2
<1> HIDE DEF next
<1> DEFINE S == {n \in Nat : g[n][1] = n}
<1>4. Nat \subseteq S
  <2>1. 0 \in S
    BY <1>2
  <2>2. ASSUME NEW n \in Nat, n \in S PROVE n + 1 \in S
    <3>1. g[n + 1][1] = g[n][1] + 1 /\ g[n][1] = n
      BY <1>3, <2>2
    <3> QED BY <3>1
  <2> HIDE DEF S
  <2> QED BY <2>1, <2>2, SetInduction
<1> DEFINE f == [n \in Nat |-> g[n][2]]
<1>5. f \in [Nat -> Nat]
  BY <1>2
<1>6. f[0] = 0
  BY <1>2
<1>7. ASSUME NEW n \in Nat PROVE f[n + 1] = step[<<n + 1, f[n]>>]
  <2>1. g[n][1] = n
    BY <1>4
  <2>2. f[n + 1] = g[n + 1][2] /\ f[n] = g[n][2]
    OBVIOUS
  <2> QED BY <1>3, <2>1, <2>2
<1> QED BY <1>5, <1>6, <1>7

LEMMA WeightIs ==
    /\ Weight[0] = 1 /\ Weight \in [Nat -> Nat \ {0}]
    /\ \A i \in Nat : Weight[i + 1] = 256 * Weight[i]
<1> DEFINE step == [x \in Nat |-> 256 * x]
           Body(w) == [i \in Nat |-> IF i = 0 THEN 1 ELSE 256 * w[i - 1]]
<1>1. step \in [Nat -> Nat] /\ 1 \in Nat
  OBVIOUS
<1> HIDE DEF step
<1>2. PICK f \in [Nat -> Nat] : f[0] = 1 /\ \A n \in Nat : f[n + 1] = step[f[n]]
  <2> DEFINE N == Nat
             one == 1
  <2>1. one \in N /\ step \in [N -> N]
    BY <1>1
  <2>2. \E f \in [Nat -> N] : f[0] = one /\ \A n \in Nat : f[n + 1] = step[f[n]]
    <3> HIDE DEF N, one
    <3> QED BY <2>1, Iterated
  <2> QED BY <2>2
<1>3. f = Body(f)
  <2>1. ASSUME NEW i \in Nat PROVE f[i] = IF i = 0 THEN 1 ELSE 256 * f[i - 1]
    <3>1. CASE i = 0
      BY <1>2, <3>1
    <3>2. CASE i # 0
      <4>1. i - 1 \in Nat /\ (i - 1) + 1 = i
        BY <3>2
      <4>2. f[i] = step[f[i - 1]]
        BY <1>2, <4>1
      <4> QED BY <3>2, <4>1, <4>2 DEF step
    <3> QED BY <3>1, <3>2
  <2> QED BY <2>1
<1>4. Weight = CHOOSE w : w = Body(w)
  BY DEF Weight
<1>5. Weight = Body(Weight)
  <2>1. \E w : w = Body(w)
    BY <1>3
  <2> HIDE DEF Body
  <2> QED BY <1>4, <2>1
<1>6. Weight[0] = 1 /\ \A i \in Nat : Weight[i + 1] = 256 * Weight[i]
  BY <1>5
<1> DEFINE S == {n \in Nat : Weight[n] \in Nat \ {0}}
<1>7. Nat \subseteq S
  <2>1. 0 \in S
    BY <1>6
  <2>2. ASSUME NEW n \in Nat, n \in S PROVE n + 1 \in S
    BY <1>6, <2>2
  <2> HIDE DEF S
  <2> QED BY <2>1, <2>2, SetInduction
<1>8. Weight \in [Nat -> Nat \ {0}]
  BY <1>5, <1>7
<1> QED BY <1>6, <1>8

(* The value of a sequence of digits, digit by digit. *)
Partial(base, digits, f) ==
    /\ f \in [0 .. Len(digits) -> Nat]
    /\ f[0] = 0
    /\ \A i \in 0 .. Len(digits) - 1 : f[i + 1] = base * f[i] + digits[i + 1]

LEMMA ValueIs ==
    ASSUME NEW base, base \in Nat, NEW digits, digits \in Seq(Nat)
    PROVE  \E f : Partial(base, digits, f) /\ Value(base, digits) = f[Len(digits)]
<1> DEFINE len == Len(digits)
           Body(v) == [i \in 0 .. len |-> IF i = 0 THEN 0 ELSE base * v[i - 1] + digits[i]]
           step == [p \in Nat \X Nat |->
                      base * p[2] + (IF p[1] \in 1 .. len THEN digits[p[1]] ELSE 0)]
<1>1. len \in Nat /\ \A i \in 1 .. len : digits[i] \in Nat
  BY LenProperties, ElementOfSeq
<1>0. \A x, y, z \in Nat : x * y + z \in Nat
  OBVIOUS
<1> HIDE DEF len
<1>2. step \in [Nat \X Nat -> Nat]
  <2> SUFFICES ASSUME NEW p \in Nat \X Nat
               PROVE  base * p[2] + (IF p[1] \in 1 .. len THEN digits[p[1]] ELSE 0) \in Nat
    OBVIOUS
  <2>1. base * p[2] \in Nat
    OBVIOUS
  <2>2. (IF p[1] \in 1 .. len THEN digits[p[1]] ELSE 0) \in Nat
    BY <1>1
  <2> QED BY <2>1, <2>2
<1>3. PICK g \in [Nat -> Nat] : g[0] = 0 /\ \A n \in Nat : g[n + 1] = step[<<n + 1, g[n]>>]
  <2> HIDE DEF step
  <2> QED BY <1>2, Accumulated
<1> DEFINE f == [i \in 0 .. len |-> g[i]]
<1>4. f = Body(f)
  <2>1. ASSUME NEW i \in 0 .. len
        PROVE  f[i] = IF i = 0 THEN 0 ELSE base * f[i - 1] + digits[i]
    <3>1. CASE i = 0
      BY <1>1, <1>3, <3>1
    <3>2. CASE i # 0
      <4>1. i - 1 \in Nat /\ (i - 1) + 1 = i /\ i \in 1 .. len /\ i - 1 \in 0 .. len
        BY <1>1, <3>2
      <4>2. g[(i - 1) + 1] = step[<<(i - 1) + 1, g[i - 1]>>]
        BY <1>3, <4>1
      <4>3. g[i] = step[<<i, g[i - 1]>>] /\ g[i - 1] \in Nat /\ i \in Nat
        BY <1>3, <4>1, <4>2
      <4>4. g[i] = base * g[i - 1] + digits[i]
        BY <4>1, <4>3
      <4> QED BY <3>2, <4>1, <4>4
    <3> QED BY <3>1, <3>2
  <2> HIDE DEF step
  <2> QED BY <2>1
<1> HIDE DEF f
<1>5. Value(base, digits) = (CHOOSE v : v = Body(v))[len]
  BY DEF Value, len
<1> DEFINE w == CHOOSE v : v = Body(v)
<1>6. w = Body(w)
  <2>1. \E v : v = Body(v)
    BY <1>4
  <2> HIDE DEF Body
  <2> QED BY <2>1
<1> HIDE DEF w, step
<1>7. /\ w[0] = 0 /\ DOMAIN w = 0 .. len
      /\ \A i \in 0 .. len - 1 : w[i + 1] = base * w[i] + digits[i + 1]
  <2>1. w[0] = 0 /\ DOMAIN w = 0 .. len
    BY <1>1, <1>6
  <2>2. ASSUME NEW i \in 0 .. len - 1 PROVE w[i + 1] = base * w[i] + digits[i + 1]
    <3>1. i + 1 \in 0 .. len /\ i + 1 # 0 /\ (i + 1) - 1 = i
      BY <1>1
    <3>2. w[i + 1] = Body(w)[i + 1]
      BY <1>6
    <3> QED BY <3>1, <3>2
  <2> QED BY <2>1, <2>2
<1> HIDE DEF Body
<1> DEFINE S == {n \in Nat : n <= len => w[n] \in Nat}
<1>8. Nat \subseteq S
  <2>1. 0 \in S
    BY <1>7
  <2>2. ASSUME NEW n \in Nat, n \in S PROVE n + 1 \in S
    <3> SUFFICES ASSUME n + 1 <= len PROVE w[n + 1] \in Nat
      OBVIOUS
    <3>1. n \in 0 .. len - 1 /\ n + 1 \in 1 .. len /\ n <= len
      BY <1>1
    <3>2. w[n] \in Nat /\ digits[n + 1] \in Nat /\ w[n + 1] = base * w[n] + digits[n + 1]
      BY <1>1, <1>7, <2>2, <3>1
    <3> QED BY <1>0, <3>2
  <2> HIDE DEF S
  <2> QED BY <2>1, <2>2, SetInduction
<1>9. \A i \in 0 .. len : w[i] \in Nat
  BY <1>1, <1>8
<1>10. w = [i \in 0 .. len |-> w[i]]
  BY <1>6 DEF Body
<1>11. w \in [0 .. len -> Nat]
  BY <1>9, <1>10
<1>12. Partial(base, digits, w) /\ Value(base, digits) = w[Len(digits)]
  BY <1>5, <1>7, <1>11 DEF Partial, len, w
<1> QED BY <1>12

-----------------------------------------------------------------------------
(* Numbers and bytes. *)

LEMMA Divided ==
    ASSUME NEW n, n \in Nat, NEW k, k \in Nat, k # 0
    PROVE  /\ n \div k \in Nat /\ (n \div k) % 256 \in Byte
           /\ n < k => n \div k = 0
           /\ n \div 1 = n
<1>1. n \div k \in Nat
  OBVIOUS
<1>2. \A q \in Nat : q % 256 \in 0 .. 255
  OBVIOUS
<1>3. n < k => n \div k = 0
  OBVIOUS
<1> QED BY <1>1, <1>2, <1>3 DEF Byte

LEMMA DividedOnce ==
    \A n, k \in Nat : k # 0 => 256 * (n \div (256 * k)) + ((n \div k) % 256) = n \div k
<1> SUFFICES ASSUME NEW n \in Nat, NEW k \in Nat, k # 0
             PROVE  256 * (n \div (256 * k)) + ((n \div k) % 256) = n \div k
  OBVIOUS
<1> DEFINE q == n \div k
           p == n \div (256 * k)
<1>1. q \in Nat /\ k * q <= n /\ n < k * q + k
  OBVIOUS
<1>2. p \in Nat /\ 256 * k * p <= n /\ n < 256 * k * p + 256 * k
  <2>1. 256 * k \in Nat /\ 256 * k # 0
    OBVIOUS
  <2>2. \A z \in Nat : z # 0 => /\ n \div z \in Nat
                                /\ z * (n \div z) <= n /\ n < z * (n \div z) + z
    OBVIOUS
  <2>3. p \in Nat /\ (256 * k) * p <= n /\ n < (256 * k) * p + 256 * k
    BY <2>1, <2>2
  <2> QED BY <2>3
<1> HIDE DEF p, q
<1>3. q \div 256 = p
  <2>1. \A a, b \in Nat : k * a < k * b => a < b
    OBVIOUS
  <2>2. k * (256 * p) < k * (q + 1)
    BY <1>1, <1>2
  <2>3. k * q < k * (256 * p + 256)
    BY <1>1, <1>2
  <2>4. 256 * p < q + 1 /\ q < 256 * p + 256
    BY <1>1, <1>2, <2>1, <2>2, <2>3
  <2> QED BY <1>1, <1>2, <2>4
<1>4. q % 256 = q - 256 * (q \div 256)
  BY <1>1
<1>5. 256 * p + (q % 256) = q
  BY <1>1, <1>2, <1>3, <1>4
<1> QED BY <1>5 DEF p, q

LEMMA BytesAreNumbers == ASSUME NEW s \in Seq(Byte) PROVE s \in Seq(Nat)
<1>1. Len(s) \in Nat /\ DOMAIN s = 1 .. Len(s) /\ \A i \in 1 .. Len(s) : s[i] \in Byte
  BY LenProperties, ElementOfSeq
<1>2. s = [i \in 1 .. Len(s) |-> s[i]]
  BY <1>1, LenProperties
<1>3. \A i \in 1 .. Len(s) : s[i] \in Nat
  <2>1. \A x \in Byte : x \in Nat
    BY DEF Byte
  <2> QED BY <1>1, <2>1
<1> QED BY <1>1, <1>2, <1>3

LEMMA BigEndianIs ==
    ASSUME NEW n, n \in Nat, NEW w, w \in Nat
    PROVE  /\ BigEndian(n, w) \in Seq(Byte) /\ Len(BigEndian(n, w)) = w
           /\ DOMAIN BigEndian(n, w) = 1 .. w
<1>1. ASSUME NEW i \in 1 .. w PROVE (n \div Weight[w - i]) % 256 \in Byte
  <2>1. w - i \in Nat
    OBVIOUS
  <2>2. Weight[w - i] \in Nat \ {0}
    BY <2>1, WeightIs
  <2> QED BY <2>2, Divided
<1> QED BY <1>1 DEF BigEndian

(* The reader's number is the writer's. *)
LEMMA NumberOfBigEndian ==
    ASSUME NEW n, n \in Nat, NEW w, w \in Nat, n < Weight[w]
    PROVE  Number(BigEndian(n, w)) = n
<1> DEFINE d == BigEndian(n, w)
<1>1. d \in Seq(Nat) /\ Len(d) = w
  BY BigEndianIs, BytesAreNumbers
<1>2. \A i \in 1 .. w : d[i] = (n \div Weight[w - i]) % 256
  BY DEF BigEndian
<1> HIDE DEF d
<1>3. PICK f : Partial(256, d, f) /\ Value(256, d) = f[Len(d)]
  <2>1. 256 \in Nat
    OBVIOUS
  <2> QED BY <1>1, <2>1, ValueIs
<1> DEFINE S == {i \in Nat : i <= w => f[i] = n \div Weight[w - i]}
<1>4. Nat \subseteq S
  <2>1. 0 \in S
    <3>1. Weight[w] \in Nat \ {0} /\ w - 0 = w
      BY WeightIs
    <3>2. n \div Weight[w] = 0
      <4>1. ASSUME NEW k \in Nat, k # 0, n < k PROVE n \div k = 0
        BY ONLY n \in Nat, <4>1, Divided
      <4> QED BY <3>1, <4>1
    <3>3. f[0] = 0
      BY <1>3 DEF Partial
    <3> QED BY <3>1, <3>2, <3>3
  <2>2. ASSUME NEW i \in Nat, i \in S PROVE i + 1 \in S
    <3> SUFFICES ASSUME i + 1 <= w PROVE f[i + 1] = n \div Weight[w - (i + 1)]
      OBVIOUS
    <3> DEFINE j == w - (i + 1)
    <3>1. j \in Nat /\ j + 1 = w - i /\ i \in 0 .. w - 1 /\ i + 1 \in 1 .. w
      OBVIOUS
    <3>2. Weight[w - i] = 256 * Weight[j] /\ Weight[j] \in Nat /\ Weight[j] # 0
      <4>1. Weight[j + 1] = 256 * Weight[j] /\ Weight[j] \in Nat \ {0}
        BY <3>1, WeightIs
      <4> QED BY <3>1, <4>1
    <3>3. f[i] = n \div (256 * Weight[j])
      BY <2>2, <3>1, <3>2
    <3>4. f[i + 1] = 256 * f[i] + d[i + 1]
      BY <1>1, <1>3, <3>1 DEF Partial
    <3>5. d[i + 1] = (n \div Weight[j]) % 256
      BY <1>2, <3>1
    <3>6. 256 * (n \div (256 * Weight[j])) + ((n \div Weight[j]) % 256) = n \div Weight[j]
      <4>1. ASSUME NEW k \in Nat, k # 0
            PROVE  256 * (n \div (256 * k)) + ((n \div k) % 256) = n \div k
        BY ONLY n \in Nat, <4>1, DividedOnce
      <4> QED BY <3>2, <4>1
    <3>7. f[i + 1] = n \div Weight[j]
      <4> DEFINE a == n \div (256 * Weight[j])
                 b == ((n \div Weight[j]) % 256)
                 c == n \div Weight[j]
      <4>1. f[i] = a /\ d[i + 1] = b /\ 256 * a + b = c
        BY <3>3, <3>5, <3>6
      <4>2. f[i + 1] = c
        <5> HIDE DEF a, b, c, j
        <5> QED BY <3>4, <4>1
      <4> QED BY <4>2
    <3> QED BY <3>7
  <2> HIDE DEF S
  <2> QED BY <2>1, <2>2, SetInduction
<1>5. f[w] = n \div Weight[w - w] /\ w - w = 0
  BY <1>4
<1>6. f[w] = n
  BY <1>5, WeightIs, Divided
<1> QED BY <1>1, <1>3, <1>6 DEF Number, d

(* A length takes seven bits, two bytes or LongBytes bytes. *)
LEMMA LenTailIs ==
    ASSUME NEW n, n \in Nat
    PROVE  /\ LenTail(n) \in Seq(Byte) /\ Len(LenTail(n)) \in Nat
           /\ Len(LenTail(n)) = IF n <= 125 THEN 0 ELSE IF n <= 65535 THEN 2 ELSE LongBytes
           /\ LenCode(n) \in Nat /\ LenCode(n) <= 127
           /\ LenCode(n) = IF n <= 125 THEN n ELSE IF n <= 65535 THEN 126 ELSE 127
<1>1. CASE n <= 125
  <2>1. LenTail(n) = <<>>
    BY <1>1 DEF LenTail
  <2>2. <<>> \in Seq(Byte) /\ Len(<<>>) = 0
    OBVIOUS
  <2> QED BY <1>1, <2>1, <2>2 DEF LenCode
<1>2. CASE n > 125 /\ n <= 65535
  <2>1. LenTail(n) = BigEndian(n, 2)
    BY <1>2 DEF LenTail
  <2>2. BigEndian(n, 2) \in Seq(Byte) /\ Len(BigEndian(n, 2)) = 2
    BY BigEndianIs
  <2> QED BY <1>2, <2>1, <2>2 DEF LenCode
<1>3. CASE n > 65535
  <2>1. LenTail(n) = BigEndian(n, LongBytes)
    BY <1>3 DEF LenTail
  <2>2. BigEndian(n, LongBytes) \in Seq(Byte) /\ Len(BigEndian(n, LongBytes)) = LongBytes
    BY BigEndianIs, LongBytesAssumption
  <2> QED BY <1>3, <2>1, <2>2, LongBytesAssumption DEF LenCode
<1> QED BY <1>1, <1>2, <1>3

(* The value read from the bytes that follow the second one. *)
LEMMA TailNumber ==
    ASSUME NEW n, n \in 0 .. Width - 1, n > 125
    PROVE  Number(LenTail(n)) = n
<1>1. Width \in Nat /\ Weight[2] = 65536
  <2>1. Weight[1] = 256 * Weight[0] /\ Weight[2] = 256 * Weight[1] /\ Weight[0] = 1
    <3>1. Weight[0 + 1] = 256 * Weight[0] /\ Weight[1 + 1] = 256 * Weight[1] /\ Weight[0] = 1
      BY WeightIs
    <3> QED BY <3>1
  <2> QED BY <2>1, WeightIs, LongBytesAssumption DEF Width
<1>2. CASE n <= 65535
  <2>1. LenTail(n) = BigEndian(n, 2) /\ n < Weight[2] /\ n \in Nat /\ 2 \in Nat
    BY <1>1, <1>2 DEF LenTail
  <2> QED BY <2>1, NumberOfBigEndian
<1>3. CASE n > 65535
  <2>1. /\ LenTail(n) = BigEndian(n, LongBytes) /\ n < Weight[LongBytes] /\ n \in Nat
        /\ LongBytes \in Nat
    BY <1>1, <1>3, LongBytesAssumption DEF LenTail, Width
  <2> QED BY <2>1, NumberOfBigEndian
<1> QED BY <1>1, <1>2, <1>3

-----------------------------------------------------------------------------
(* Bits of the first two bytes. *)

\* The second byte: a length, and whether a key follows.
Marks == {"key", "plain"}
Second(n, mark) == LenCode(n) + IF mark = "key" THEN 128 ELSE 0

LEMMA SecondByte ==
    ASSUME NEW n, n \in Nat, NEW mark, mark \in Marks
    PROVE  /\ Second(n, mark) \in Byte /\ Second(n, mark) % 128 = LenCode(n)
           /\ set_bit(Second(n, mark), 128, TRUE) = Second(n, "key")
           /\ set_bit(Second(n, mark), 128, FALSE) = Second(n, "plain")
<1> DEFINE l == LenCode(n)
           c == Second(n, mark)
<1>1. /\ l \in Nat /\ l <= 127 /\ c = l + (IF mark = "key" THEN 128 ELSE 0)
      /\ Second(n, "key") = l + 128 /\ Second(n, "plain") = l
  BY LenTailIs DEF Second
<1> HIDE DEF l, c
<1>2. /\ l \div 128 = 0 /\ (l + 128) \div 128 = 1
      /\ l % 128 = l /\ (l + 128) % 128 = l
  BY <1>1
<1>3. 0 % 2 # 1 /\ 1 % 2 = 1
  OBVIOUS
<1>4. CASE mark = "key"
  <2>1. c = l + 128
    BY <1>1, <1>4
  <2>2. c - 128 = l /\ c \in Byte /\ c % 128 = l
    BY <1>1, <1>2, <2>1 DEF Byte
  <2>3. (c \div 128) % 2 = 1
    BY <1>2, <1>3, <2>1
  <2>5. set_bit(c, 128, TRUE) = c /\ set_bit(c, 128, FALSE) = c - 128
    BY <2>3 DEF get_bit, set_bit
  <2> QED BY <1>1, <1>4, <2>1, <2>2, <2>5 DEF l, c
<1>5. CASE mark = "plain"
  <2>1. c = l /\ c + 128 = l + 128
    BY <1>1, <1>5
  <2>2. c \in Byte /\ c % 128 = l
    BY <1>1, <1>2, <2>1 DEF Byte
  <2>3. (c \div 128) % 2 # 1
    BY <1>2, <1>3, <2>1
  <2>5. set_bit(c, 128, TRUE) = c + 128 /\ set_bit(c, 128, FALSE) = c
    BY <2>3 DEF get_bit, set_bit
  <2> QED BY <1>1, <2>1, <2>2, <2>5 DEF l, c
<1> QED BY <1>4, <1>5 DEF Marks

LEMMA SecondBit ==
    ASSUME NEW n, n \in Nat, NEW mark, mark \in Marks
    PROVE  get_bit(Second(n, mark), 128) <=> mark = "key"
<1>1. /\ LenCode(n) \in Nat /\ LenCode(n) <= 127
      /\ Second(n, mark) = LenCode(n) + (IF mark = "key" THEN 128 ELSE 0)
  BY LenTailIs DEF Second
<1>2. (LenCode(n) \div 128) = 0 /\ (LenCode(n) + 128) \div 128 = 1 /\ 0 % 2 # 1 /\ 1 % 2 = 1
  BY <1>1
<1>3. CASE mark = "key"
  BY <1>1, <1>2, <1>3 DEF get_bit
<1>4. CASE mark = "plain"
  <2>1. Second(n, mark) = LenCode(n) /\ mark # "key"
    BY <1>1, <1>4
  <2> QED BY <1>2, <2>1 DEF get_bit
<1> QED BY <1>3, <1>4 DEF Marks

(* The first byte holds four flags and the opcode. *)
LEMMA FirstByteBits ==
    ASSUME NEW o, o \in OpCode, NEW a, a \in {0, 128}, NEW b, b \in {0, 64},
           NEW c, c \in {0, 32}, NEW d, d \in {0, 16},
           NEW x, x = o + a + b + c + d
    PROVE  /\ x \in Byte /\ x % 16 = o /\ (x \div 16) * 16 = a + b + c + d
           /\ (x \div 128) % 2 = 1 <=> a = 128
           /\ (x \div 64) % 2 = 1 <=> b = 64
           /\ (x \div 32) % 2 = 1 <=> c = 32
           /\ (x \div 16) % 2 = 1 <=> d = 16
<1>0. o \in Nat /\ o <= 15
  BY DEF OpCode
<1>1. x \in Byte
  BY <1>0 DEF Byte
<1>2. x % 16 = o /\ (x \div 16) * 16 = a + b + c + d
  BY <1>0
<1>3. (x \div 128) % 2 = 1 <=> a = 128
  BY <1>0
<1>4. (x \div 64) % 2 = 1 <=> b = 64
  BY <1>0
<1>5. (x \div 32) % 2 = 1 <=> c = 32
  BY <1>0
<1>6. (x \div 16) % 2 = 1 <=> d = 16
  BY <1>0
<1> QED BY <1>1, <1>2, <1>3, <1>4, <1>5, <1>6

-----------------------------------------------------------------------------
(* Bytes written at a place. *)
LEMMA AtIs ==
    ASSUME NEW s, s \in Seq(Byte), NEW i, i \in Nat \ {0}, NEW t, t \in Seq(Byte),
           i + Len(t) <= Len(s) + 1
    PROVE  /\ At(s, i, t) \in Seq(Byte) /\ Len(At(s, i, t)) = Len(s)
           /\ \A j \in 1 .. Len(s) :
                  At(s, i, t)[j] = IF i <= j /\ j < i + Len(t) THEN t[j - i + 1] ELSE s[j]
<1>1. /\ Len(s) \in Nat /\ Len(t) \in Nat /\ DOMAIN s = 1 .. Len(s)
      /\ \A j \in 1 .. Len(s) : s[j] \in Byte
      /\ \A j \in 1 .. Len(t) : t[j] \in Byte
  BY LenProperties, ElementOfSeq
<1> DEFINE new(j) == IF j \in i .. i + Len(t) - 1 THEN t[j - i + 1] ELSE s[j]
<1>2. ASSUME NEW j \in 1 .. Len(s)
      PROVE  /\ new(j) \in Byte
             /\ new(j) = IF i <= j /\ j < i + Len(t) THEN t[j - i + 1] ELSE s[j]
  <2>1. CASE i <= j /\ j < i + Len(t)
    <3>1. j \in i .. i + Len(t) - 1 /\ j - i + 1 \in 1 .. Len(t)
      BY <1>1, <2>1
    <3> QED BY <1>1, <2>1, <3>1
  <2>2. CASE ~(i <= j /\ j < i + Len(t))
    <3>1. j \notin i .. i + Len(t) - 1
      BY <1>1, <2>2
    <3> QED BY <1>1, <2>2, <3>1
  <2> QED BY <2>1, <2>2
<1>3. At(s, i, t) = [j \in 1 .. Len(s) |-> new(j)]
  BY <1>1 DEF At
<1> HIDE DEF new
<1>4. At(s, i, t) \in Seq(Byte) /\ Len(At(s, i, t)) = Len(s)
  BY <1>1, <1>2, <1>3
<1> QED BY <1>2, <1>3, <1>4

LEMMA AtOne ==
    ASSUME NEW s, s \in Seq(Byte), NEW i, i \in 1 .. Len(s), NEW x, x \in Byte
    PROVE  /\ At(s, i, <<x>>) \in Seq(Byte) /\ Len(At(s, i, <<x>>)) = Len(s)
           /\ \A j \in 1 .. Len(s) : At(s, i, <<x>>)[j] = IF j = i THEN x ELSE s[j]
<1>1. <<x>> \in Seq(Byte) /\ Len(<<x>>) = 1 /\ <<x>>[1] = x /\ Len(s) \in Nat
  BY LenProperties
<1>2. i \in Nat \ {0} /\ i + Len(<<x>>) <= Len(s) + 1
  BY <1>1
<1> DEFINE t == <<x>>
           r == At(s, i, t)
<1>3. /\ r \in Seq(Byte) /\ Len(r) = Len(s)
      /\ \A j \in 1 .. Len(s) : r[j] = IF i <= j /\ j < i + Len(t) THEN t[j - i + 1] ELSE s[j]
  <2>1. t \in Seq(Byte) /\ i \in Nat \ {0} /\ i + Len(t) <= Len(s) + 1
    BY <1>1, <1>2
  <2> HIDE DEF t
  <2> QED BY <2>1, AtIs
<1>4. Len(t) = 1 /\ t[1] = x
  BY <1>1
<1> HIDE DEF t, r
<1>5. ASSUME NEW j \in 1 .. Len(s) PROVE r[j] = IF j = i THEN x ELSE s[j]
  <2>1. CASE j = i
    <3>1. j - i + 1 = 1 /\ i <= j /\ j < i + Len(t)
      BY <1>1, <1>4, <2>1
    <3> QED BY <1>3, <1>4, <2>1, <3>1
  <2>2. CASE j # i
    <3>1. ~(i <= j /\ j < i + Len(t))
      BY <1>1, <1>4, <2>2
    <3> QED BY <1>3, <2>2, <3>1
  <2> QED BY <2>1, <2>2
<1> QED BY <1>3, <1>5 DEF r, t

-----------------------------------------------------------------------------
(* Headers as images of what they say. *)

Lengths == 0 .. Width - 1

\* h is the header with the first byte x, the length n and the mask bit given, and
\* rest behind the length.
IsImage(h, x, n, mark, rest) ==
    /\ h \in Seq(Byte)
    /\ Len(h) = 2 + Len(LenTail(n)) + Len(rest)
    /\ h[1] = x
    /\ h[2] = Second(n, mark)
    /\ \A i \in 1 .. Len(LenTail(n)) : h[2 + i] = LenTail(n)[i]
    /\ \A i \in 1 .. Len(rest) : h[2 + Len(LenTail(n)) + i] = rest[i]

LEMMA SameSequence ==
    ASSUME NEW q, q \in Seq(Byte), NEW p, p \in Seq(Byte), NEW k, Len(q) = k, Len(p) = k,
           \A i \in 1 .. k : q[i] = p[i]
    PROVE  q = p
BY SeqEqual

LEMMA LengthsAreNumbers == ASSUME NEW n \in Lengths PROVE n \in Nat
<1>1. Width \in Nat
  BY WeightIs, LongBytesAssumption DEF Width
<1> QED BY <1>1 DEF Lengths

(* The fields say all of it. *)
LEMMA ImageUnique ==
    ASSUME NEW n, n \in Nat, NEW rest, rest \in Seq(Byte), NEW x, NEW mark, NEW h, NEW g,
           IsImage(h, x, n, mark, rest), IsImage(g, x, n, mark, rest)
    PROVE  h = g
<1> DEFINE t == Len(LenTail(n))
           r == Len(rest)
<1>1. t \in Nat /\ r \in Nat
  BY LenTailIs, LenProperties
<1>2. /\ h \in Seq(Byte) /\ g \in Seq(Byte) /\ Len(h) = 2 + t + r /\ Len(g) = 2 + t + r
      /\ h[1] = g[1] /\ h[2] = g[2]
      /\ \A i \in 1 .. t : h[2 + i] = g[2 + i]
      /\ \A i \in 1 .. r : h[2 + t + i] = g[2 + t + i]
  BY DEF IsImage
<1> HIDE DEF t, r
<1>3. ASSUME NEW i \in 1 .. 2 + t + r PROVE h[i] = g[i]
  <2>1. CASE i <= 2
    <3>1. i = 1 \/ i = 2
      BY <1>1, <2>1
    <3> QED BY <1>2, <3>1
  <2>2. CASE i > 2 /\ i <= 2 + t
    <3>1. i - 2 \in 1 .. t /\ 2 + (i - 2) = i
      BY <1>1, <2>2
    <3>2. h[2 + (i - 2)] = g[2 + (i - 2)]
      BY <1>2, <3>1
    <3> QED BY <3>1, <3>2
  <2>3. CASE i > 2 + t
    <3>1. i - 2 - t \in 1 .. r /\ 2 + t + (i - 2 - t) = i
      BY <1>1, <2>3
    <3>2. h[2 + t + (i - 2 - t)] = g[2 + t + (i - 2 - t)]
      BY <1>2, <3>1
    <3> QED BY <3>1, <3>2
  <2> QED BY <1>1, <2>1, <2>2, <2>3
<1> QED BY <1>2, <1>3, SeqEqual

(* What the getters find. *)
LEMMA ImageReads ==
    ASSUME NEW x, NEW n, n \in Lengths, NEW mark, mark \in Marks,
           NEW rest, rest \in Seq(Byte), NEW h,
           IsImage(h, x, n, mark, rest)
    PROVE  /\ masked(h) <=> mark = "key"
           /\ TailBytes(h) = Len(LenTail(n))
           /\ payload_len(h) = n
           /\ Len(h) \in Nat /\ Len(h) >= 2
           /\ KeyFits(h) <=> (mark = "key" => Len(rest) >= 4)
           /\ masking_key(h) = IF mark = "key" /\ Len(rest) >= 4 THEN SubSeq(rest, 1, 4) ELSE NoKey
<1> DEFINE t == Len(LenTail(n))
           r == Len(rest)
<1>1. n \in Nat /\ LongBytes \in Nat /\ LongBytes > 2 /\ r \in Nat
  BY LengthsAreNumbers, LongBytesAssumption, LenProperties
<1>2. /\ t \in Nat /\ t = (IF n <= 125 THEN 0 ELSE IF n <= 65535 THEN 2 ELSE LongBytes)
      /\ LenTail(n) \in Seq(Byte)
      /\ LenCode(n) \in Nat /\ LenCode(n) <= 127
      /\ LenCode(n) = IF n <= 125 THEN n ELSE IF n <= 65535 THEN 126 ELSE 127
  BY <1>1, LenTailIs
<1>3. /\ h \in Seq(Byte) /\ Len(h) = 2 + t + r /\ h[2] = Second(n, mark)
      /\ \A i \in 1 .. t : h[2 + i] = LenTail(n)[i]
      /\ \A i \in 1 .. r : h[2 + t + i] = rest[i]
  BY DEF IsImage
<1>4. Second(n, mark) % 128 = LenCode(n) /\ h[2] % 128 = LenCode(n)
  BY <1>1, <1>3, SecondByte
<1>5. masked(h) <=> mark = "key"
  <2>1. get_bit(Second(n, mark), 128) <=> mark = "key"
    <3>1. n \in Nat
      BY <1>1
    <3> QED BY ONLY <3>1, mark \in Marks, SecondBit
  <2>2. h[2] = Second(n, mark)
    BY <1>3
  <2> QED BY ONLY <2>1, <2>2 DEF masked
<1>6. TailBytes(h) = t
  <2>1. CASE n <= 125
    BY <1>1, <1>2, <1>4, <2>1 DEF TailBytes
  <2>2. CASE n > 125 /\ n <= 65535
    BY <1>1, <1>2, <1>4, <2>2 DEF TailBytes
  <2>3. CASE n > 65535
    BY <1>1, <1>2, <1>4, <2>3 DEF TailBytes
  <2> QED BY <1>1, <2>1, <2>2, <2>3
<1>7. payload_len(h) = n
  <2>1. CASE n <= 125
    BY <1>1, <1>2, <1>4, <1>6, <2>1 DEF payload_len
  <2>2. CASE n > 125
    <3>1. t # 0 /\ 3 \in Nat /\ 2 + t \in Nat /\ 3 <= 2 + t + 1 /\ 2 + t <= Len(h)
      BY <1>1, <1>2, <1>3, <2>2
    <3>2. /\ SubSeq(h, 3, 2 + t) \in Seq(Byte) /\ Len(SubSeq(h, 3, 2 + t)) = t
          /\ \A i \in 1 .. t : SubSeq(h, 3, 2 + t)[i] = h[2 + i]
      <4>1. 3 \in 1 .. Len(h) + 1 /\ 2 + t \in 3 - 1 .. Len(h)
        BY <1>1, <1>2, <1>3
      <4>2. /\ SubSeq(h, 3, 2 + t) \in Seq(Byte)
            /\ Len(SubSeq(h, 3, 2 + t)) = 2 + t - 3 + 1
            /\ \A i \in 1 .. 2 + t - 3 + 1 : SubSeq(h, 3, 2 + t)[i] = h[3 + i - 1]
        BY <1>3, <4>1, SubSeqProperties
      <4>3. 2 + t - 3 + 1 = t /\ \A i \in 1 .. t : 3 + i - 1 = 2 + i
        BY <1>2
      <4> QED BY <4>2, <4>3
    <3>3. SubSeq(h, 3, 2 + t) = LenTail(n)
      <4> DEFINE q == SubSeq(h, 3, 2 + t)
                 p == LenTail(n)
      <4>1. q \in Seq(Byte) /\ Len(q) = t /\ p \in Seq(Byte) /\ Len(p) = t
        BY <1>2, <3>2
      <4>2. \A i \in 1 .. t : q[i] = p[i]
        BY <1>3, <3>2
      <4> HIDE DEF p, q, t
      <4>3. q = p
        BY <4>1, <4>2, SameSequence
      <4> QED BY <4>3 DEF p, q
    <3>4. Number(LenTail(n)) = n
      BY <2>2, TailNumber DEF Lengths
    <3> QED BY <1>6, <3>1, <3>3, <3>4 DEF payload_len
  <2> QED BY <1>1, <2>1, <2>2
<1>8. KeyFits(h) <=> (mark = "key" => r >= 4)
  <2>1. Len(h) >= 6 + t <=> r >= 4
    BY <1>1, <1>2, <1>3
  <2> QED BY <1>5, <1>6, <2>1 DEF KeyFits
<1>9. masking_key(h) = IF mark = "key" /\ r >= 4 THEN SubSeq(rest, 1, 4) ELSE NoKey
  <2>1. CASE ~(mark = "key" /\ r >= 4)
    BY <1>5, <1>8, <2>1 DEF masking_key
  <2>2. CASE mark = "key" /\ r >= 4
    <3>1. 3 + t \in 1 .. Len(h) + 1 /\ 6 + t \in (3 + t) - 1 .. Len(h)
      BY <1>1, <1>2, <1>3, <2>2
    <3> DEFINE q == SubSeq(h, 3 + t, 6 + t)
               p == SubSeq(rest, 1, 4)
    <3>2. /\ q \in Seq(Byte) /\ Len(q) = 6 + t - (3 + t) + 1
          /\ \A i \in 1 .. 6 + t - (3 + t) + 1 : q[i] = h[3 + t + i - 1]
      BY <1>3, <3>1, SubSeqProperties
    <3>3. 1 \in 1 .. Len(rest) + 1 /\ 4 \in 1 - 1 .. Len(rest)
      BY <1>1, <2>2
    <3>4. p \in Seq(Byte) /\ Len(p) = 4 - 1 + 1 /\ \A i \in 1 .. 4 - 1 + 1 : p[i] = rest[1 + i - 1]
      BY <3>3, SubSeqProperties
    <3> HIDE DEF p, q
    <3>5. 6 + t - (3 + t) + 1 = 4 /\ 4 - 1 + 1 = 4
      BY <1>2
    <3>6. ASSUME NEW i \in 1 .. 4 PROVE q[i] = p[i]
      <4>1. 3 + t + i - 1 = 2 + t + i /\ 1 + i - 1 = i /\ i \in 1 .. r
        BY <1>1, <1>2, <2>2
      <4>2. q[i] = h[3 + t + i - 1] /\ p[i] = rest[1 + i - 1]
        BY <3>2, <3>4, <3>5
      <4> QED BY <1>3, <4>1, <4>2
    <3>7. q = p
      <4>1. q \in Seq(Byte) /\ Len(q) = 4 /\ p \in Seq(Byte) /\ Len(p) = 4
        BY <3>2, <3>4, <3>5
      <4> QED BY <3>6, <4>1, SameSequence
    <3>8. masking_key(h) = q
      BY <1>5, <1>6, <1>8, <2>2 DEF masking_key, q
    <3> QED BY <2>2, <3>7, <3>8 DEF p
  <2> QED BY <2>1, <2>2
<1> QED BY <1>1, <1>2, <1>3, <1>5, <1>6, <1>7, <1>8, <1>9

LEMMA FirstBytes ==
    ASSUME NEW s, s \in Seq(Byte), NEW k, k \in Nat, k <= Len(s)
    PROVE  /\ SubSeq(s, 1, k) \in Seq(Byte) /\ Len(SubSeq(s, 1, k)) = k
           /\ \A i \in 1 .. k : SubSeq(s, 1, k)[i] = s[i]
<1>1. 1 \in 1 .. Len(s) + 1 /\ k \in 1 - 1 .. Len(s)
  BY LenProperties
<1>2. /\ SubSeq(s, 1, k) \in Seq(Byte) /\ Len(SubSeq(s, 1, k)) = k - 1 + 1
      /\ \A i \in 1 .. k - 1 + 1 : SubSeq(s, 1, k)[i] = s[1 + i - 1]
  BY <1>1, SubSeqProperties
<1>3. k - 1 + 1 = k /\ \A i \in 1 .. k : 1 + i - 1 = i
  OBVIOUS
<1> QED BY <1>2, <1>3

(* An image, taken apart for the steps that change it. *)
LEMMA ImageParts ==
    ASSUME NEW x, NEW n, n \in Nat, NEW mark, NEW rest, rest \in Seq(Byte), NEW h,
           IsImage(h, x, n, mark, rest)
    PROVE  /\ Len(LenTail(n)) \in Nat /\ Len(rest) \in Nat
           /\ h \in Seq(Byte) /\ Len(h) = 2 + Len(LenTail(n)) + Len(rest)
           /\ 1 \in 1 .. Len(h) /\ 2 \in 1 .. Len(h)
<1>1. Len(LenTail(n)) \in Nat /\ Len(rest) \in Nat
  BY LenTailIs, LenProperties
<1>2. h \in Seq(Byte) /\ Len(h) = 2 + Len(LenTail(n)) + Len(rest)
  BY DEF IsImage
<1> QED BY <1>1, <1>2

(* Another first byte. *)
LEMMA ImageFirst ==
    ASSUME NEW x, NEW n, n \in Nat, NEW mark, NEW rest, rest \in Seq(Byte), NEW h,
           IsImage(h, x, n, mark, rest), NEW y, y \in Byte
    PROVE  IsImage(At(h, 1, <<y>>), y, n, mark, rest)
<1> DEFINE g == At(h, 1, <<y>>)
           t == Len(LenTail(n))
           r == Len(rest)
<1>1. /\ t \in Nat /\ r \in Nat /\ h \in Seq(Byte) /\ Len(h) = 2 + t + r
      /\ 1 \in 1 .. Len(h) /\ 2 \in 1 .. Len(h)
  BY ImageParts
<1>2. g \in Seq(Byte) /\ Len(g) = Len(h) /\ \A j \in 1 .. Len(h) : g[j] = IF j = 1 THEN y ELSE h[j]
  <2>1. h \in Seq(Byte) /\ 1 \in 1 .. Len(h)
    BY <1>1
  <2> QED BY ONLY <2>1, y \in Byte, AtOne
<1> HIDE DEF g
<1>3. g[1] = y /\ g[2] = h[2]
  BY <1>1, <1>2
<1>4. ASSUME NEW i \in 1 .. t PROVE g[2 + i] = h[2 + i]
  BY <1>1, <1>2
<1>5. ASSUME NEW i \in 1 .. r PROVE g[2 + t + i] = h[2 + t + i]
  BY <1>1, <1>2
<1>6. IsImage(g, y, n, mark, rest)
  BY <1>1, <1>2, <1>3, <1>4, <1>5 DEF IsImage
<1> QED BY <1>6 DEF g

(* Another mask bit. *)
LEMMA ImageSecond ==
    ASSUME NEW x, NEW n, n \in Nat, NEW mark, NEW rest, rest \in Seq(Byte), NEW h,
           IsImage(h, x, n, mark, rest), NEW other, other \in Marks
    PROVE  IsImage(At(h, 2, <<Second(n, other)>>), x, n, other, rest)
<1> DEFINE y == Second(n, other)
           g == At(h, 2, <<y>>)
           t == Len(LenTail(n))
           r == Len(rest)
<1>1. /\ t \in Nat /\ r \in Nat /\ h \in Seq(Byte) /\ Len(h) = 2 + t + r
      /\ 1 \in 1 .. Len(h) /\ 2 \in 1 .. Len(h)
  BY ImageParts
<1>2. y \in Byte
  BY ONLY n \in Nat, other \in Marks, SecondByte
<1>3. g \in Seq(Byte) /\ Len(g) = Len(h) /\ \A j \in 1 .. Len(h) : g[j] = IF j = 2 THEN y ELSE h[j]
  <2>1. h \in Seq(Byte) /\ 2 \in 1 .. Len(h)
    BY <1>1
  <2> HIDE DEF y
  <2> QED BY ONLY <2>1, <1>2, AtOne
<1>4. g[1] = h[1] /\ g[2] = y
  <2> HIDE DEF y
  <2> QED BY <1>1, <1>3
<1> HIDE DEF g
<1>5. ASSUME NEW i \in 1 .. t PROVE g[2 + i] = h[2 + i]
  BY <1>1, <1>3
<1>6. ASSUME NEW i \in 1 .. r PROVE g[2 + t + i] = h[2 + t + i]
  BY <1>1, <1>3
<1>7. IsImage(g, x, n, other, rest)
  BY <1>1, <1>3, <1>4, <1>5, <1>6 DEF IsImage
<1> QED BY <1>7 DEF g

LEMMA ImageMaskBit ==
    ASSUME NEW x, NEW n, n \in Nat, NEW mark, mark \in Marks, NEW rest, rest \in Seq(Byte), NEW h,
           IsImage(h, x, n, mark, rest)
    PROVE  /\ IsImage(SetMaskBit(h, TRUE), x, n, "key", rest)
           /\ IsImage(SetMaskBit(h, FALSE), x, n, "plain", rest)
<1>1. h[2] = Second(n, mark)
  BY DEF IsImage
<1>2. /\ set_bit(Second(n, mark), 128, TRUE) = Second(n, "key")
      /\ set_bit(Second(n, mark), 128, FALSE) = Second(n, "plain")
  BY ONLY n \in Nat, mark \in Marks, SecondByte
<1>3. /\ SetMaskBit(h, TRUE) = At(h, 2, <<Second(n, "key")>>)
      /\ SetMaskBit(h, FALSE) = At(h, 2, <<Second(n, "plain")>>)
  BY <1>1, <1>2 DEF SetMaskBit
<1>4. "key" \in Marks /\ "plain" \in Marks
  BY DEF Marks
<1>5. IsImage(At(h, 2, <<Second(n, "key")>>), x, n, "key", rest)
  BY <1>4, ImageSecond
<1>6. IsImage(At(h, 2, <<Second(n, "plain")>>), x, n, "plain", rest)
  BY <1>4, ImageSecond
<1> QED BY <1>3, <1>5, <1>6

(* A key at the end. *)
LEMMA ImageLonger ==
    ASSUME NEW x, NEW n, n \in Nat, NEW mark, NEW rest, rest \in Seq(Byte), NEW h,
           IsImage(h, x, n, mark, rest), NEW key, key \in Seq(Byte)
    PROVE  IsImage(h \o key, x, n, mark, rest \o key)
<1> DEFINE t == Len(LenTail(n))
           r == Len(rest)
           k == Len(key)
           g == h \o key
           q == rest \o key
<1>1. t \in Nat /\ r \in Nat /\ k \in Nat /\ h \in Seq(Byte) /\ Len(h) = 2 + t + r
  BY ImageParts, LenProperties
<1>2. /\ g \in Seq(Byte) /\ Len(g) = Len(h) + k
      /\ \A i \in 1 .. Len(h) + k : g[i] = IF i <= Len(h) THEN h[i] ELSE key[i - Len(h)]
  BY <1>1, ConcatProperties
<1>3. /\ q \in Seq(Byte) /\ Len(q) = r + k
      /\ \A i \in 1 .. r + k : q[i] = IF i <= r THEN rest[i] ELSE key[i - r]
  BY ConcatProperties
<1>4. /\ h[1] = x /\ h[2] = Second(n, mark)
      /\ \A i \in 1 .. t : h[2 + i] = LenTail(n)[i]
      /\ \A i \in 1 .. r : h[2 + t + i] = rest[i]
  BY DEF IsImage
<1> HIDE DEF g, q, r, k, t
<1>5. g[1] = x /\ g[2] = Second(n, mark)
  BY <1>1, <1>2, <1>4
<1>6. ASSUME NEW i \in 1 .. t PROVE g[2 + i] = LenTail(n)[i]
  <2>1. 2 + i \in 1 .. Len(h) + k /\ 2 + i <= Len(h)
    BY <1>1
  <2> QED BY <1>2, <1>4, <2>1
<1>7. ASSUME NEW i \in 1 .. r + k PROVE g[2 + t + i] = q[i]
  <2>1. 2 + t + i \in 1 .. Len(h) + k /\ (i <= r <=> 2 + t + i <= Len(h))
        /\ 2 + t + i - Len(h) = i - r
    BY <1>1
  <2>2. CASE i <= r
    <3>1. i \in 1 .. r
      BY <1>1, <2>2
    <3> QED BY <1>2, <1>3, <1>4, <2>1, <2>2, <3>1
  <2>3. CASE ~(i <= r)
    <3>1. ASSUME NEW j \in 1 .. Len(h) + k, ~(j <= Len(h)) PROVE g[j] = key[j - Len(h)]
      BY <1>2, <3>1
    <3>2. ~(2 + t + i <= Len(h))
      BY <2>1, <2>3
    <3>3. g[2 + t + i] = key[2 + t + i - Len(h)]
      BY <1>1, <2>1, <3>1, <3>2
    <3>4. q[i] = key[i - r]
      BY <1>3, <2>3
    <3> QED BY <2>1, <3>3, <3>4
  <2> QED BY <2>2, <2>3
<1>8. Len(g) = 2 + t + (r + k)
  BY <1>1, <1>2
<1>9. IsImage(g, x, n, mark, q)
  BY <1>2, <1>3, <1>5, <1>6, <1>7, <1>8 DEF IsImage, t
<1> QED BY <1>9 DEF g, q

(* Without the last four bytes. *)
LEMMA ImageShorter ==
    ASSUME NEW x, NEW n, n \in Nat, NEW mark, NEW rest, rest \in Seq(Byte), NEW h,
           IsImage(h, x, n, mark, rest), Len(rest) >= 4
    PROVE  IsImage(SubSeq(h, 1, Len(h) - 4), x, n, mark, SubSeq(rest, 1, Len(rest) - 4))
<1> DEFINE t == Len(LenTail(n))
           r == Len(rest)
           g == SubSeq(h, 1, Len(h) - 4)
           q == SubSeq(rest, 1, r - 4)
<1>1. t \in Nat /\ r \in Nat /\ h \in Seq(Byte) /\ Len(h) = 2 + t + r
  BY ImageParts
<1>2. g \in Seq(Byte) /\ Len(g) = Len(h) - 4 /\ \A i \in 1 .. Len(h) - 4 : g[i] = h[i]
  BY <1>1, FirstBytes
<1>3. q \in Seq(Byte) /\ Len(q) = r - 4 /\ \A i \in 1 .. r - 4 : q[i] = rest[i]
  <2>1. r - 4 \in Nat /\ r - 4 <= Len(rest)
    BY <1>1
  <2>2. ASSUME NEW k, k \in Nat, k <= Len(rest)
        PROVE  /\ SubSeq(rest, 1, k) \in Seq(Byte) /\ Len(SubSeq(rest, 1, k)) = k
               /\ \A i \in 1 .. k : SubSeq(rest, 1, k)[i] = rest[i]
    BY <2>2, FirstBytes
  <2> HIDE DEF r
  <2> QED BY <2>1, <2>2
<1>4. /\ h[1] = x /\ h[2] = Second(n, mark)
      /\ \A i \in 1 .. t : h[2 + i] = LenTail(n)[i]
      /\ \A i \in 1 .. r : h[2 + t + i] = rest[i]
  BY DEF IsImage
<1>0. r >= 4
  OBVIOUS
<1> HIDE DEF g, q, r, t
<1>5. g[1] = x /\ g[2] = Second(n, mark)
  BY <1>0, <1>1, <1>2, <1>4
<1>6. ASSUME NEW i \in 1 .. t PROVE g[2 + i] = LenTail(n)[i]
  BY <1>0, <1>1, <1>2, <1>4
<1>7. ASSUME NEW i \in 1 .. r - 4 PROVE g[2 + t + i] = q[i]
  <2>1. 2 + t + i \in 1 .. Len(h) - 4 /\ i \in 1 .. r
    BY <1>0, <1>1
  <2> QED BY <1>2, <1>3, <1>4, <2>1
<1>8. Len(g) = 2 + t + (r - 4)
  BY <1>1, <1>2
<1>9. IsImage(g, x, n, mark, q)
  BY <1>2, <1>3, <1>5, <1>6, <1>7, <1>8 DEF IsImage, t
<1> QED BY <1>9 DEF g, q, r

(* Another length: what is behind the length gives way to the key. *)
LEMMA ImageLen ==
    ASSUME NEW x, NEW n, n \in Lengths, NEW mark, mark \in Marks,
           NEW rest, rest \in Seq(Byte), NEW h,
           IsImage(h, x, n, mark, rest), NEW m, m \in Nat, x \in Byte, masking_key(h) \in Seq(Byte)
    PROVE  IsImage(SetPayloadLen(h, m), x, m, mark, masking_key(h))
<1> DEFINE y == Second(m, mark)
           lead == <<x, y>>
           tail == LenTail(m)
           t == Len(tail)
           g == lead \o tail
<1>1. (masked(h) <=> mark = "key") /\ h[1] = x
  <2>1. masked(h) <=> mark = "key"
    BY ImageReads
  <2>2. h[1] = x
    BY DEF IsImage
  <2> QED BY <2>1, <2>2
<1>2. LenCode(m) + (IF masked(h) THEN 128 ELSE 0) = y
  BY <1>1 DEF Second
<1>3. SetPayloadLen(h, m) = (lead \o tail) \o masking_key(h)
  BY <1>1, <1>2 DEF SetPayloadLen
<1>4. y \in Byte
  BY ONLY m \in Nat, mark \in Marks, SecondByte
<1> HIDE DEF y
<1>5. lead \in Seq(Byte) /\ Len(lead) = 2 /\ lead[1] = x /\ lead[2] = y
  BY <1>4
<1>6. tail \in Seq(Byte) /\ t \in Nat
  BY LenTailIs
<1> HIDE DEF lead, tail
<1>7. /\ g \in Seq(Byte) /\ Len(g) = 2 + t
      /\ \A i \in 1 .. 2 + t : g[i] = IF i <= 2 THEN lead[i] ELSE tail[i - 2]
  <2>1. /\ g \in Seq(Byte) /\ Len(g) = Len(lead) + Len(tail)
        /\ \A i \in 1 .. Len(lead) + Len(tail) :
               g[i] = IF i <= Len(lead) THEN lead[i] ELSE tail[i - Len(lead)]
    BY <1>5, <1>6, ConcatProperties
  <2> HIDE DEF g
  <2> QED BY <1>5, <2>1
<1>8. g[1] = x /\ g[2] = y
  BY <1>5, <1>6, <1>7
<1>9. ASSUME NEW i \in 1 .. t PROVE g[2 + i] = tail[i]
  <2>1. 2 + i \in 1 .. 2 + t /\ ~(2 + i <= 2) /\ (2 + i) - 2 = i
    BY <1>6
  <2>2. ASSUME NEW j \in 1 .. 2 + t, ~(j <= 2) PROVE g[j] = tail[j - 2]
    BY <1>7, <2>2
  <2>3. g[2 + i] = tail[(2 + i) - 2]
    BY <2>1, <2>2
  <2> QED BY <2>1, <2>3
<1> HIDE DEF g
<1>10. IsImage(g, x, m, mark, <<>>)
  <2>1. Len(<<>>) = 0
    OBVIOUS
  <2>2. Len(g) = 2 + Len(LenTail(m)) + Len(<<>>)
    BY <1>6, <1>7, <2>1 DEF tail
  <2>3. \A i \in 1 .. Len(<<>>) : g[2 + Len(LenTail(m)) + i] = <<>>[i]
    BY <2>1
  <2> QED BY <1>7, <1>8, <1>9, <2>2, <2>3 DEF IsImage, y, tail
<1>11. <<>> \in Seq(Byte) /\ <<>> \o masking_key(h) = masking_key(h)
  BY ConcatEmptySeq
<1>12. IsImage(g \o masking_key(h), x, m, mark, <<>> \o masking_key(h))
  BY <1>10, <1>11, ImageLonger
<1> QED BY <1>3, <1>11, <1>12 DEF g

-----------------------------------------------------------------------------
(* Keys. *)

\* Behind the length there are keys and nothing else: set_mask alone leaves them there.
Keyed(rest) ==
    /\ rest \in Seq(Byte)
    /\ Len(rest) % 4 = 0
    /\ rest # <<>> => SubSeq(rest, 1, 4) \in Keys

LEMMA KeyIs ==
    ASSUME NEW key, key \in Keys
    PROVE  /\ key \in Seq(Byte) /\ Len(key) = 4 /\ SubSeq(key, 1, 4) = key
           /\ key # NoKey /\ Keyed(key)
<1>1. key \in [1 .. 4 -> Byte]
  BY KeysAssumption
<1>2. key \in Seq(Byte) /\ Len(key) = 4
  <2>1. key \in Seq(Byte)
    <3>1. key = [i \in 1 .. 4 |-> key[i]] /\ \A i \in 1 .. 4 : key[i] \in Byte
      BY <1>1
    <3> QED BY <3>1
  <2>2. DOMAIN key = 1 .. 4 /\ DOMAIN key = 1 .. Len(key) /\ Len(key) \in Nat
    BY <1>1, <2>1, LenProperties
  <2> QED BY <2>1, <2>2
<1>3. SubSeq(key, 1, 4) = key
  BY <1>2, SubSeqFull
<1>4. key # <<>>
  BY <1>2
<1>5. 4 % 4 = 0
  OBVIOUS
<1> QED BY <1>2, <1>3, <1>4, <1>5 DEF Keyed, NoKey

LEMMA NoKeyKeyed == <<>> \in Seq(Byte) /\ Len(<<>>) = 0 /\ Keyed(<<>>)
<1>1. <<>> \in Seq(Byte) /\ Len(<<>>) = 0 /\ 0 % 4 = 0
  OBVIOUS
<1> QED BY <1>1 DEF Keyed

LEMMA KeyedLength ==
    ASSUME NEW rest, Keyed(rest)
    PROVE  /\ rest \in Seq(Byte) /\ Len(rest) \in Nat
           /\ Len(rest) >= 4 => SubSeq(rest, 1, 4) \in Keys
           /\ Len(rest) >= 4 \/ rest = <<>>
<1>1. rest \in Seq(Byte) /\ Len(rest) \in Nat /\ Len(rest) % 4 = 0
  BY LenProperties DEF Keyed
<1>2. Len(rest) >= 4 \/ Len(rest) = 0
  BY <1>1
<1>3. Len(rest) = 0 <=> rest = <<>>
  BY <1>1, EmptySeq
<1>4. Len(rest) >= 4 => rest # <<>>
  BY <1>1, <1>3
<1> QED BY <1>1, <1>2, <1>3, <1>4 DEF Keyed

LEMMA KeyedShorter ==
    ASSUME NEW rest, Keyed(rest), Len(rest) >= 4
    PROVE  Keyed(SubSeq(rest, 1, Len(rest) - 4))
<1> DEFINE k == Len(rest) - 4
           q == SubSeq(rest, 1, k)
<1>1. /\ rest \in Seq(Byte) /\ Len(rest) \in Nat /\ Len(rest) % 4 = 0
      /\ SubSeq(rest, 1, 4) \in Keys
  BY KeyedLength DEF Keyed
<1>2. k \in Nat /\ k <= Len(rest) /\ k % 4 = 0 /\ (k = 0 \/ k >= 4)
  <2>1. k \in Nat /\ k <= Len(rest)
    BY <1>1
  <2>2. k % 4 = 0
    BY <1>1
  <2>3. k = 0 \/ k >= 4
    <3> HIDE DEF k
    <3> QED BY <2>1, <2>2
  <2> QED BY <2>1, <2>2, <2>3
<1>3. ASSUME NEW j, j \in Nat, j <= Len(rest)
      PROVE  /\ SubSeq(rest, 1, j) \in Seq(Byte) /\ Len(SubSeq(rest, 1, j)) = j
             /\ \A i \in 1 .. j : SubSeq(rest, 1, j)[i] = rest[i]
  BY <1>1, <1>3, FirstBytes
<1> HIDE DEF k
<1>4. q \in Seq(Byte) /\ Len(q) = k /\ \A i \in 1 .. k : q[i] = rest[i]
  BY <1>2, <1>3
<1> HIDE DEF q
<1>5. ASSUME q # <<>> PROVE SubSeq(q, 1, 4) \in Keys
  <2>1. k # 0
    BY <1>4, <1>5, EmptySeq
  <2>2. k >= 4
    BY <1>2, <2>1
  <2>3. /\ SubSeq(q, 1, 4) \in Seq(Byte) /\ Len(SubSeq(q, 1, 4)) = 4
        /\ \A i \in 1 .. 4 : SubSeq(q, 1, 4)[i] = q[i]
    BY <1>2, <1>4, <2>2, FirstBytes
  <2>4. /\ SubSeq(rest, 1, 4) \in Seq(Byte) /\ Len(SubSeq(rest, 1, 4)) = 4
        /\ \A i \in 1 .. 4 : SubSeq(rest, 1, 4)[i] = rest[i]
    BY <1>1, <1>3
  <2> DEFINE u == SubSeq(q, 1, 4)
             v == SubSeq(rest, 1, 4)
  <2>5. \A i \in 1 .. 4 : u[i] = v[i]
    BY <1>2, <1>4, <2>2, <2>3, <2>4
  <2>6. u = v
    <3>1. u \in Seq(Byte) /\ Len(u) = 4 /\ v \in Seq(Byte) /\ Len(v) = 4
      BY <2>3, <2>4
    <3> HIDE DEF u, v
    <3> QED BY ONLY <2>5, <3>1, SameSequence
  <2> QED BY <1>1, <2>6
<1>6. Keyed(q)
  BY <1>2, <1>4, <1>5 DEF Keyed
<1> QED BY <1>6 DEF q, k

LEMMA KeyedLonger ==
    ASSUME NEW rest, Keyed(rest), NEW key, key \in Keys
    PROVE  Keyed(rest \o key)
<1> DEFINE q == rest \o key
           r == Len(rest)
<1>1. /\ rest \in Seq(Byte) /\ r \in Nat /\ r % 4 = 0
      /\ r >= 4 \/ rest = <<>>
      /\ r >= 4 => SubSeq(rest, 1, 4) \in Keys
  BY KeyedLength DEF Keyed
<1>2. key \in Seq(Byte) /\ Len(key) = 4
  BY KeyIs
<1>3. CASE rest = <<>>
  <2>1. q = key
    BY <1>2, <1>3, ConcatEmptySeq
  <2> QED BY <2>1, KeyIs
<1>4. CASE r >= 4
  <2>1. /\ q \in Seq(Byte) /\ Len(q) = r + 4
        /\ \A i \in 1 .. r + 4 : q[i] = IF i <= r THEN rest[i] ELSE key[i - r]
    <3>1. /\ q \in Seq(Byte) /\ Len(q) = Len(rest) + Len(key)
          /\ \A i \in 1 .. Len(rest) + Len(key) :
                 q[i] = IF i <= Len(rest) THEN rest[i] ELSE key[i - Len(rest)]
      <4>1. rest \in Seq(Byte) /\ key \in Seq(Byte)
        BY <1>1, <1>2
      <4> QED BY ONLY <4>1, ConcatProperties
    <3> HIDE DEF q
    <3> QED BY <1>2, <3>1
  <2> HIDE DEF q
  <2>2. /\ SubSeq(q, 1, 4) \in Seq(Byte) /\ Len(SubSeq(q, 1, 4)) = 4
        /\ \A i \in 1 .. 4 : SubSeq(q, 1, 4)[i] = q[i]
    BY <1>1, <2>1, FirstBytes
  <2>3. /\ SubSeq(rest, 1, 4) \in Seq(Byte) /\ Len(SubSeq(rest, 1, 4)) = 4
        /\ \A i \in 1 .. 4 : SubSeq(rest, 1, 4)[i] = rest[i]
    BY <1>1, <1>4, FirstBytes
  <2> DEFINE u == SubSeq(q, 1, 4)
             v == SubSeq(rest, 1, 4)
  <2>4. \A i \in 1 .. 4 : u[i] = v[i]
    BY <1>1, <1>4, <2>1, <2>2, <2>3
  <2>5. u = v
    <3>1. u \in Seq(Byte) /\ Len(u) = 4 /\ v \in Seq(Byte) /\ Len(v) = 4
      BY <2>2, <2>3
    <3> HIDE DEF u, v
    <3> QED BY ONLY <2>4, <3>1, SameSequence
  <2>6. Len(q) % 4 = 0
    BY <1>1, <2>1
  <2>7. Keyed(q)
    BY <1>1, <1>4, <2>1, <2>5, <2>6 DEF Keyed
  <2> QED BY <2>7 DEF q
<1> QED BY <1>1, <1>3, <1>4

-----------------------------------------------------------------------------
(* The first byte and the fields. *)

On(flag, weight) == IF flag THEN weight ELSE 0

LEMMA FieldsAre ==
    ASSUME NEW f, f \in Fields
    PROVE  /\ f.fin \in BOOLEAN /\ f.rsv1 \in BOOLEAN /\ f.rsv2 \in BOOLEAN /\ f.rsv3 \in BOOLEAN
           /\ f.opcode \in OpCode /\ f.mask \in Keys \cup {NoKey} /\ f.len \in Lengths
           /\ f.len \in Nat
           /\ f = [fin |-> f.fin, rsv1 |-> f.rsv1, rsv2 |-> f.rsv2, rsv3 |-> f.rsv3,
                   opcode |-> f.opcode, mask |-> f.mask, len |-> f.len]
<1>1. f.len \in Lengths
  BY DEF Fields, Lengths
<1>2. f.len \in Nat
  BY <1>1, LengthsAreNumbers
<1> QED BY <1>1, <1>2 DEF Fields

LEMMA FirstByteSum ==
    ASSUME NEW f, f \in Fields
    PROVE  /\ f.opcode \in OpCode
           /\ On(f.fin, 128) \in {0, 128} /\ On(f.rsv1, 64) \in {0, 64}
           /\ On(f.rsv2, 32) \in {0, 32} /\ On(f.rsv3, 16) \in {0, 16}
           /\ first_byte(f) = f.opcode + On(f.fin, 128) + On(f.rsv1, 64)
                                  + On(f.rsv2, 32) + On(f.rsv3, 16)
BY FieldsAre DEF On, first_byte

LEMMA FirstByteIs ==
    ASSUME NEW f, f \in Fields
    PROVE  /\ first_byte(f) \in Byte /\ first_byte(f) % 16 = f.opcode
           /\ (first_byte(f) \div 16) * 16 = On(f.fin, 128) + On(f.rsv1, 64)
                                                 + On(f.rsv2, 32) + On(f.rsv3, 16)
           /\ (first_byte(f) \div 128) % 2 = 1 <=> On(f.fin, 128) = 128
           /\ (first_byte(f) \div 64) % 2 = 1 <=> On(f.rsv1, 64) = 64
           /\ (first_byte(f) \div 32) % 2 = 1 <=> On(f.rsv2, 32) = 32
           /\ (first_byte(f) \div 16) % 2 = 1 <=> On(f.rsv3, 16) = 16
<1> DEFINE o == f.opcode
           a == On(f.fin, 128)
           b == On(f.rsv1, 64)
           c == On(f.rsv2, 32)
           d == On(f.rsv3, 16)
           x == first_byte(f)
<1>1. /\ o \in OpCode /\ a \in {0, 128} /\ b \in {0, 64} /\ c \in {0, 32} /\ d \in {0, 16}
      /\ x = o + a + b + c + d
  BY FirstByteSum
<1>2. /\ x \in Byte /\ x % 16 = o /\ (x \div 16) * 16 = a + b + c + d
      /\ (x \div 128) % 2 = 1 <=> a = 128
      /\ (x \div 64) % 2 = 1 <=> b = 64
      /\ (x \div 32) % 2 = 1 <=> c = 32
      /\ (x \div 16) % 2 = 1 <=> d = 16
  <2> HIDE DEF o, a, b, c, d, x
  <2> QED BY ONLY <1>1, FirstByteBits
<1> QED BY <1>2

(* What the getters find in the first byte. *)
LEMMA FlagsRead ==
    ASSUME NEW f, f \in Fields
    PROVE  /\ get_bit(first_byte(f), 128) = f.fin
           /\ get_bit(first_byte(f), 64) = f.rsv1
           /\ get_bit(first_byte(f), 32) = f.rsv2
           /\ get_bit(first_byte(f), 16) = f.rsv3
           /\ parse_opcode(first_byte(f)) = f.opcode
<1> DEFINE x == first_byte(f)
<1>1. f.fin \in BOOLEAN /\ f.rsv1 \in BOOLEAN /\ f.rsv2 \in BOOLEAN /\ f.rsv3 \in BOOLEAN
  BY FieldsAre
<1>2. /\ x % 16 = f.opcode
      /\ (x \div 128) % 2 = 1 <=> On(f.fin, 128) = 128
      /\ (x \div 64) % 2 = 1 <=> On(f.rsv1, 64) = 64
      /\ (x \div 32) % 2 = 1 <=> On(f.rsv2, 32) = 32
      /\ (x \div 16) % 2 = 1 <=> On(f.rsv3, 16) = 16
  BY FirstByteIs
<1> HIDE DEF x
<1>3. get_bit(x, 128) = f.fin
  BY <1>1, <1>2 DEF get_bit, On
<1>4. get_bit(x, 64) = f.rsv1
  BY <1>1, <1>2 DEF get_bit, On
<1>5. get_bit(x, 32) = f.rsv2
  BY <1>1, <1>2 DEF get_bit, On
<1>6. get_bit(x, 16) = f.rsv3
  BY <1>1, <1>2 DEF get_bit, On
<1> QED BY <1>2, <1>3, <1>4, <1>5, <1>6 DEF parse_opcode, x

(* set_fin and its sisters change their field and no other. *)
WithFlag(f, i, val) ==
    CASE i = 1 -> [f EXCEPT !.fin = val]
      [] i = 2 -> [f EXCEPT !.rsv1 = val]
      [] i = 3 -> [f EXCEPT !.rsv2 = val]
      [] i = 4 -> [f EXCEPT !.rsv3 = val]

LEMMA FlagSet ==
    ASSUME NEW f, f \in Fields, NEW i, i \in 1 .. 4, NEW val, val \in BOOLEAN
    PROVE  /\ WithFlag(f, i, val) \in Fields
           /\ WithFlag(f, i, val).len = f.len /\ WithFlag(f, i, val).mask = f.mask
           /\ first_byte(WithFlag(f, i, val)) = set_bit(first_byte(f), <<128, 64, 32, 16>>[i], val)
<1> DEFINE o == f.opcode
           a == On(f.fin, 128)
           b == On(f.rsv1, 64)
           c == On(f.rsv2, 32)
           d == On(f.rsv3, 16)
           x == first_byte(f)
           g == WithFlag(f, i, val)
<1>1. /\ o \in Nat /\ a \in Nat /\ b \in Nat /\ c \in Nat /\ d \in Nat /\ x \in Nat
      /\ x = o + a + b + c + d
  <2>1. o \in OpCode /\ a \in {0, 128} /\ b \in {0, 64} /\ c \in {0, 32} /\ d \in {0, 16}
    BY FirstByteSum
  <2>2. x = o + a + b + c + d
    BY FirstByteSum
  <2>3. o \in Nat
    BY <2>1 DEF OpCode
  <2> HIDE DEF o, a, b, c, d, x
  <2> QED BY <2>1, <2>2, <2>3
<1>2. /\ (x \div 128) % 2 = 1 <=> a = 128
      /\ (x \div 64) % 2 = 1 <=> b = 64
      /\ (x \div 32) % 2 = 1 <=> c = 32
      /\ (x \div 16) % 2 = 1 <=> d = 16
  BY FirstByteIs
<1>3. f.fin \in BOOLEAN /\ f.rsv1 \in BOOLEAN /\ f.rsv2 \in BOOLEAN /\ f.rsv3 \in BOOLEAN
  BY FieldsAre
<1> HIDE DEF x
<1>4. CASE i = 1
  <2>1. g = [f EXCEPT !.fin = val] /\ <<128, 64, 32, 16>>[i] = 128
    BY <1>4 DEF WithFlag
  <2>2. g \in Fields /\ g.len = f.len /\ g.mask = f.mask
    BY <2>1 DEF Fields
  <2>3. first_byte(g) = o + On(val, 128) + b + c + d
    BY <2>1, <2>2, FirstByteSum DEF Fields
  <2> DEFINE other == o + b + c + d
  <2>4. other \in Nat /\ x = other + a /\ On(val, 128) \in Nat
    BY <1>1 DEF On
  <2>5. first_byte(g) = other + On(val, 128)
    BY <1>1, <2>3, <2>4
  <2>6. set_bit(x, 128, val) = other + On(val, 128)
    <3> HIDE DEF other
    <3>1. CASE f.fin = TRUE
      <4>1. x = other + 128 /\ (x \div 128) % 2 = 1 /\ x - 128 = other
        BY <1>2, <2>4, <3>1 DEF On
      <4>2. set_bit(x, 128, TRUE) = x /\ set_bit(x, 128, FALSE) = x - 128
        BY <4>1 DEF set_bit, get_bit
      <4>3. other + On(TRUE, 128) = other + 128 /\ other + On(FALSE, 128) = other
        BY <2>4 DEF On
      <4>4. val = TRUE \/ val = FALSE
        OBVIOUS
      <4> QED BY <4>1, <4>2, <4>3, <4>4
    <3>2. CASE f.fin = FALSE
      <4>1. x = other /\ (x \div 128) % 2 # 1
        BY <1>2, <2>4, <3>2 DEF On
      <4>2. set_bit(x, 128, TRUE) = x + 128 /\ set_bit(x, 128, FALSE) = x
        BY <4>1 DEF set_bit, get_bit
      <4>3. other + On(TRUE, 128) = other + 128 /\ other + On(FALSE, 128) = other
        BY <2>4 DEF On
      <4>4. val = TRUE \/ val = FALSE
        OBVIOUS
      <4> QED BY <4>1, <4>2, <4>3, <4>4
    <3> QED BY <1>3, <3>1, <3>2
  <2> QED BY <2>1, <2>2, <2>5, <2>6 DEF x
<1>5. CASE i = 2
  <2>1. g = [f EXCEPT !.rsv1 = val] /\ <<128, 64, 32, 16>>[i] = 64
    BY <1>5 DEF WithFlag
  <2>2. g \in Fields /\ g.len = f.len /\ g.mask = f.mask
    BY <2>1 DEF Fields
  <2>3. first_byte(g) = o + a + On(val, 64) + c + d
    BY <2>1, <2>2, FirstByteSum DEF Fields
  <2> DEFINE other == o + a + c + d
  <2>4. other \in Nat /\ x = other + b /\ On(val, 64) \in Nat
    BY <1>1 DEF On
  <2>5. first_byte(g) = other + On(val, 64)
    BY <1>1, <2>3, <2>4
  <2>6. set_bit(x, 64, val) = other + On(val, 64)
    <3> HIDE DEF other
    <3>1. CASE f.rsv1 = TRUE
      <4>1. x = other + 64 /\ (x \div 64) % 2 = 1 /\ x - 64 = other
        BY <1>2, <2>4, <3>1 DEF On
      <4>2. set_bit(x, 64, TRUE) = x /\ set_bit(x, 64, FALSE) = x - 64
        BY <4>1 DEF set_bit, get_bit
      <4>3. other + On(TRUE, 64) = other + 64 /\ other + On(FALSE, 64) = other
        BY <2>4 DEF On
      <4>4. val = TRUE \/ val = FALSE
        OBVIOUS
      <4> QED BY <4>1, <4>2, <4>3, <4>4
    <3>2. CASE f.rsv1 = FALSE
      <4>1. x = other /\ (x \div 64) % 2 # 1
        BY <1>2, <2>4, <3>2 DEF On
      <4>2. set_bit(x, 64, TRUE) = x + 64 /\ set_bit(x, 64, FALSE) = x
        BY <4>1 DEF set_bit, get_bit
      <4>3. other + On(TRUE, 64) = other + 64 /\ other + On(FALSE, 64) = other
        BY <2>4 DEF On
      <4>4. val = TRUE \/ val = FALSE
        OBVIOUS
      <4> QED BY <4>1, <4>2, <4>3, <4>4
    <3> QED BY <1>3, <3>1, <3>2
  <2> QED BY <2>1, <2>2, <2>5, <2>6 DEF x
<1>6. CASE i = 3
  <2>1. g = [f EXCEPT !.rsv2 = val] /\ <<128, 64, 32, 16>>[i] = 32
    BY <1>6 DEF WithFlag
  <2>2. g \in Fields /\ g.len = f.len /\ g.mask = f.mask
    BY <2>1 DEF Fields
  <2>3. first_byte(g) = o + a + b + On(val, 32) + d
    BY <2>1, <2>2, FirstByteSum DEF Fields
  <2> DEFINE other == o + a + b + d
  <2>4. other \in Nat /\ x = other + c /\ On(val, 32) \in Nat
    BY <1>1 DEF On
  <2>5. first_byte(g) = other + On(val, 32)
    BY <1>1, <2>3, <2>4
  <2>6. set_bit(x, 32, val) = other + On(val, 32)
    <3> HIDE DEF other
    <3>1. CASE f.rsv2 = TRUE
      <4>1. x = other + 32 /\ (x \div 32) % 2 = 1 /\ x - 32 = other
        BY <1>2, <2>4, <3>1 DEF On
      <4>2. set_bit(x, 32, TRUE) = x /\ set_bit(x, 32, FALSE) = x - 32
        BY <4>1 DEF set_bit, get_bit
      <4>3. other + On(TRUE, 32) = other + 32 /\ other + On(FALSE, 32) = other
        BY <2>4 DEF On
      <4>4. val = TRUE \/ val = FALSE
        OBVIOUS
      <4> QED BY <4>1, <4>2, <4>3, <4>4
    <3>2. CASE f.rsv2 = FALSE
      <4>1. x = other /\ (x \div 32) % 2 # 1
        BY <1>2, <2>4, <3>2 DEF On
      <4>2. set_bit(x, 32, TRUE) = x + 32 /\ set_bit(x, 32, FALSE) = x
        BY <4>1 DEF set_bit, get_bit
      <4>3. other + On(TRUE, 32) = other + 32 /\ other + On(FALSE, 32) = other
        BY <2>4 DEF On
      <4>4. val = TRUE \/ val = FALSE
        OBVIOUS
      <4> QED BY <4>1, <4>2, <4>3, <4>4
    <3> QED BY <1>3, <3>1, <3>2
  <2> QED BY <2>1, <2>2, <2>5, <2>6 DEF x
<1>7. CASE i = 4
  <2>1. g = [f EXCEPT !.rsv3 = val] /\ <<128, 64, 32, 16>>[i] = 16
    BY <1>7 DEF WithFlag
  <2>2. g \in Fields /\ g.len = f.len /\ g.mask = f.mask
    BY <2>1 DEF Fields
  <2>3. first_byte(g) = o + a + b + c + On(val, 16)
    BY <2>1, <2>2, FirstByteSum DEF Fields
  <2> DEFINE other == o + a + b + c
  <2>4. other \in Nat /\ x = other + d /\ On(val, 16) \in Nat
    BY <1>1 DEF On
  <2>5. first_byte(g) = other + On(val, 16)
    BY <1>1, <2>3, <2>4
  <2>6. set_bit(x, 16, val) = other + On(val, 16)
    <3> HIDE DEF other
    <3>1. CASE f.rsv3 = TRUE
      <4>1. x = other + 16 /\ (x \div 16) % 2 = 1 /\ x - 16 = other
        BY <1>2, <2>4, <3>1 DEF On
      <4>2. set_bit(x, 16, TRUE) = x /\ set_bit(x, 16, FALSE) = x - 16
        BY <4>1 DEF set_bit, get_bit
      <4>3. other + On(TRUE, 16) = other + 16 /\ other + On(FALSE, 16) = other
        BY <2>4 DEF On
      <4>4. val = TRUE \/ val = FALSE
        OBVIOUS
      <4> QED BY <4>1, <4>2, <4>3, <4>4
    <3>2. CASE f.rsv3 = FALSE
      <4>1. x = other /\ (x \div 16) % 2 # 1
        BY <1>2, <2>4, <3>2 DEF On
      <4>2. set_bit(x, 16, TRUE) = x + 16 /\ set_bit(x, 16, FALSE) = x
        BY <4>1 DEF set_bit, get_bit
      <4>3. other + On(TRUE, 16) = other + 16 /\ other + On(FALSE, 16) = other
        BY <2>4 DEF On
      <4>4. val = TRUE \/ val = FALSE
        OBVIOUS
      <4> QED BY <4>1, <4>2, <4>3, <4>4
    <3> QED BY <1>3, <3>1, <3>2
  <2> QED BY <2>1, <2>2, <2>5, <2>6 DEF x
<1> QED BY <1>4, <1>5, <1>6, <1>7

(* set_opcode likewise. *)
LEMMA OpcodeSet ==
    ASSUME NEW f, f \in Fields, NEW code, code \in OpCode
    PROVE  /\ [f EXCEPT !.opcode = code] \in Fields
           /\ first_byte([f EXCEPT !.opcode = code]) = (first_byte(f) \div 16) * 16 + code
<1> DEFINE g == [f EXCEPT !.opcode = code]
           x == (first_byte(f) \div 16) * 16
<1>1. g \in Fields
  BY DEF Fields
<1>2. first_byte(g) = code + On(f.fin, 128) + On(f.rsv1, 64) + On(f.rsv2, 32) + On(f.rsv3, 16)
  BY <1>1, FirstByteSum DEF Fields
<1>3. x = On(f.fin, 128) + On(f.rsv1, 64) + On(f.rsv2, 32) + On(f.rsv3, 16)
  BY FirstByteIs
<1>4. /\ On(f.fin, 128) \in Nat /\ On(f.rsv1, 64) \in Nat
      /\ On(f.rsv2, 32) \in Nat /\ On(f.rsv3, 16) \in Nat /\ code \in Nat
  BY DEF On, OpCode
<1> HIDE DEF x
<1> QED BY <1>1, <1>2, <1>3, <1>4 DEF x

-----------------------------------------------------------------------------
(* Headers of fields. *)

Mark(f) == IF f.mask = NoKey THEN "plain" ELSE "key"

LEMMA MaskIs ==
    ASSUME NEW f, f \in Fields
    PROVE  /\ f.mask \in Seq(Byte) /\ Mark(f) \in Marks /\ Keyed(f.mask)
           /\ Mark(f) = "key" <=> f.mask # NoKey
           /\ f.mask = NoKey => Len(f.mask) = 0
           /\ f.mask # NoKey => f.mask \in Keys /\ Len(f.mask) = 4 /\ SubSeq(f.mask, 1, 4) = f.mask
<1>1. f.mask \in Keys \/ f.mask = NoKey
  BY FieldsAre
<1>2. CASE f.mask = NoKey
  BY <1>2, NoKeyKeyed DEF NoKey, Mark, Marks
<1>3. CASE f.mask \in Keys
  BY <1>3, KeyIs DEF Mark, Marks
<1> QED BY <1>1, <1>2, <1>3

(* A header with nothing but its key behind the length says its fields. *)
LEMMA ImageView ==
    ASSUME NEW f, f \in Fields, NEW h, IsImage(h, first_byte(f), f.len, Mark(f), f.mask)
    PROVE  View(h) = f /\ Len(h) = header_len(f.mask # NoKey, f.len)
<1>1. /\ f.len \in Lengths /\ f.len \in Nat /\ f.mask \in Seq(Byte) /\ Mark(f) \in Marks
      /\ f = [fin |-> f.fin, rsv1 |-> f.rsv1, rsv2 |-> f.rsv2, rsv3 |-> f.rsv3,
              opcode |-> f.opcode, mask |-> f.mask, len |-> f.len]
  BY FieldsAre, MaskIs
<1>2. h[1] = first_byte(f) /\ Len(h) = 2 + Len(LenTail(f.len)) + Len(f.mask)
  BY DEF IsImage
<1>3. payload_len(h) = f.len
  BY <1>1, ImageReads
<1>4. masking_key(h) = f.mask
  <2>1. masking_key(h) = IF Mark(f) = "key" /\ Len(f.mask) >= 4 THEN SubSeq(f.mask, 1, 4) ELSE NoKey
    BY <1>1, ImageReads
  <2>2. CASE f.mask = NoKey
    BY <2>1, <2>2 DEF Mark
  <2>3. CASE f.mask # NoKey
    <3>1. Mark(f) = "key" /\ Len(f.mask) = 4 /\ SubSeq(f.mask, 1, 4) = f.mask
      BY <2>3, MaskIs
    <3> QED BY <2>1, <3>1
  <2> QED BY <2>2, <2>3
<1>5. View(h) = f
  <2>1. /\ get_bit(h[1], 128) = f.fin /\ get_bit(h[1], 64) = f.rsv1
        /\ get_bit(h[1], 32) = f.rsv2 /\ get_bit(h[1], 16) = f.rsv3
        /\ parse_opcode(h[1]) = f.opcode
    BY <1>2, FlagsRead
  <2> QED BY <1>1, <1>3, <1>4, <2>1 DEF View
<1>6. Len(h) = header_len(f.mask # NoKey, f.len)
  BY <1>2, MaskIs DEF header_len
<1> QED BY <1>5, <1>6

\* A key written right behind the length n, and what a header of that length is then.
KeyPut(h, n, key) == At(h, 3 + Len(LenTail(n)), key)
UpToKey(h, n) == SubSeq(h, 1, 6 + Len(LenTail(n)))

(* A key written over the first four bytes behind the length. *)
LEMMA ImageKeyAt ==
    ASSUME NEW x, NEW n, n \in Nat, NEW mark, NEW rest, rest \in Seq(Byte), NEW h,
           IsImage(h, x, n, mark, rest), Len(rest) >= 4, NEW key, key \in Keys
    PROVE  /\ IsImage(UpToKey(KeyPut(h, n, key), n), x, n, mark, key)
           /\ KeyPut(h, n, key) \in Seq(Byte) /\ Len(KeyPut(h, n, key)) = Len(h)
<1> DEFINE t == Len(LenTail(n))
           r == Len(rest)
           g == At(h, 3 + t, key)
           q == SubSeq(g, 1, 6 + t)
<1>1. t \in Nat /\ r \in Nat /\ h \in Seq(Byte) /\ Len(h) = 2 + t + r /\ r >= 4
  BY ImageParts
<1>2. key \in Seq(Byte) /\ Len(key) = 4
  BY KeyIs
<1>3. /\ g \in Seq(Byte) /\ Len(g) = Len(h)
      /\ \A j \in 1 .. Len(h) :
             g[j] = IF 3 + t <= j /\ j < 3 + t + Len(key) THEN key[j - (3 + t) + 1] ELSE h[j]
  <2> DEFINE k == 3 + t
  <2>1. k \in Nat \ {0} /\ k + Len(key) <= Len(h) + 1
    BY <1>1, <1>2
  <2>2. /\ At(h, k, key) \in Seq(Byte) /\ Len(At(h, k, key)) = Len(h)
        /\ \A j \in 1 .. Len(h) :
               At(h, k, key)[j] = IF k <= j /\ j < k + Len(key) THEN key[j - k + 1] ELSE h[j]
    <3> HIDE DEF k
    <3>1. h \in Seq(Byte) /\ key \in Seq(Byte)
      BY <1>1, <1>2
    <3> QED BY ONLY <2>1, <3>1, AtIs
  <2> QED BY <2>2
<1>4. /\ h[1] = x /\ h[2] = Second(n, mark)
      /\ \A i \in 1 .. t : h[2 + i] = LenTail(n)[i]
  BY DEF IsImage
<1> HIDE DEF g, r
<1>5. q \in Seq(Byte) /\ Len(q) = 6 + t /\ \A i \in 1 .. 6 + t : q[i] = g[i]
  <2> DEFINE k == 6 + t
  <2>1. k \in Nat /\ k <= Len(g)
    BY <1>1, <1>3
  <2>2. /\ SubSeq(g, 1, k) \in Seq(Byte) /\ Len(SubSeq(g, 1, k)) = k
        /\ \A i \in 1 .. k : SubSeq(g, 1, k)[i] = g[i]
    <3> HIDE DEF k
    <3>1. g \in Seq(Byte)
      BY <1>3
    <3> QED BY ONLY <2>1, <3>1, FirstBytes
  <2> QED BY <2>2
<1> HIDE DEF q, t
<1>6. q[1] = x /\ q[2] = Second(n, mark)
  BY <1>1, <1>2, <1>3, <1>4, <1>5
<1>7. ASSUME NEW i \in 1 .. t PROVE q[2 + i] = LenTail(n)[i]
  <2>1. 2 + i \in 1 .. Len(h) /\ ~(3 + t <= 2 + i) /\ 2 + i \in 1 .. 6 + t
    BY <1>1
  <2>2. g[2 + i] = h[2 + i] /\ q[2 + i] = g[2 + i]
    BY <1>3, <1>5, <2>1
  <2> QED BY <1>4, <2>2
<1>8. ASSUME NEW i \in 1 .. 4 PROVE q[2 + t + i] = key[i]
  <2>1. 2 + t + i \in 1 .. Len(h) /\ 3 + t <= 2 + t + i /\ 2 + t + i < 3 + t + 4
        /\ 2 + t + i - (3 + t) + 1 = i /\ 2 + t + i \in 1 .. 6 + t
    BY <1>1
  <2>2. ASSUME NEW j \in 1 .. Len(h), 3 + t <= j, j < 3 + t + 4 PROVE g[j] = key[j - (3 + t) + 1]
    BY <1>2, <1>3, <2>2
  <2>3. g[2 + t + i] = key[2 + t + i - (3 + t) + 1] /\ q[2 + t + i] = g[2 + t + i]
    BY <1>1, <1>5, <2>1, <2>2
  <2> QED BY <2>1, <2>3
<1>9. Len(q) = 2 + t + Len(key)
  BY <1>1, <1>2, <1>5
<1>10. IsImage(q, x, n, mark, key)
  BY <1>2, <1>5, <1>6, <1>7, <1>8, <1>9 DEF IsImage, t
<1> QED BY <1>3, <1>10 DEF q, g, t, KeyPut, UpToKey

LEMMA ZerosAre ==
    ASSUME NEW n, n \in Nat
    PROVE  Zeros(n) \in Seq(Byte) /\ Len(Zeros(n)) = n /\ \A i \in 1 .. n : Zeros(n)[i] = 0
<1>1. 0 \in Byte
  BY DEF Byte
<1> QED BY <1>1 DEF Zeros

(* Header::new makes the header of its fields. *)
LEMMA NewIsImage ==
    ASSUME NEW f, f \in Fields
    PROVE  IsImage(NewHeader(f), first_byte(f), f.len, Mark(f), f.mask)
<1> DEFINE x == first_byte(f)
           n == f.len
           t == Len(LenTail(n))
           k == Len(f.mask)
           len == header_len(f.mask # NoKey, n)
           zeros == Zeros(len)
           begun == At(zeros, 1, <<x>>)
           marked == SetMaskBit(begun, f.mask # NoKey)
           long == SetPayloadLen(marked, n)
<1>1. /\ n \in Lengths /\ n \in Nat /\ t \in Nat /\ f.mask \in Seq(Byte) /\ Mark(f) \in Marks
      /\ k \in Nat /\ x \in Byte
  BY FieldsAre, MaskIs, FirstByteIs, LenTailIs, LenProperties
<1>2. len = 2 + t + k /\ (f.mask # NoKey => k = 4) /\ (f.mask = NoKey => k = 0)
  BY MaskIs DEF header_len
<1>3. NewHeader(f) = IF f.mask = NoKey THEN long ELSE At(long, len - 3, f.mask)
  BY DEF NewHeader
<1> HIDE DEF x, len
<1>4. /\ len \in Nat /\ len >= 2 /\ zeros \in Seq(Byte) /\ Len(zeros) = len
      /\ \A i \in 1 .. len : zeros[i] = 0
  <2>1. len \in Nat /\ len >= 2
    <3>1. t \in Nat /\ k \in Nat /\ len = 2 + t + k
      BY <1>1, <1>2
    <3> HIDE DEF t, k
    <3> QED BY <3>1
  <2> QED BY <2>1, ZerosAre
<1> HIDE DEF zeros
<1>5. PICK rest : rest \in Seq(Byte) /\ Len(rest) = len - 2 /\ IsImage(begun, x, 0, "plain", rest)
  <2>1. /\ begun \in Seq(Byte) /\ Len(begun) = len
        /\ \A j \in 1 .. len : begun[j] = IF j = 1 THEN x ELSE zeros[j]
    <3>1. zeros \in Seq(Byte) /\ 1 \in 1 .. Len(zeros) /\ x \in Byte
      BY <1>1, <1>4
    <3>2. /\ begun \in Seq(Byte) /\ Len(begun) = Len(zeros)
          /\ \A j \in 1 .. Len(zeros) : begun[j] = IF j = 1 THEN x ELSE zeros[j]
      BY ONLY <3>1, AtOne
    <3> QED BY <1>4, <3>2
  <2> DEFINE rest == Zeros(len - 2)
  <2>2. rest \in Seq(Byte) /\ Len(rest) = len - 2 /\ \A i \in 1 .. len - 2 : rest[i] = 0
    <3>1. len - 2 \in Nat
      BY <1>4
    <3> DEFINE m == len - 2
    <3> HIDE DEF m
    <3>2. Zeros(m) \in Seq(Byte) /\ Len(Zeros(m)) = m /\ \A i \in 1 .. m : Zeros(m)[i] = 0
      BY <3>1, ZerosAre DEF m
    <3> QED BY <3>2 DEF m
  <2> HIDE DEF rest, begun
  <2>3. Len(LenTail(0)) = 0 /\ LenCode(0) = 0
    BY LenTailIs
  <2>4. Second(0, "plain") = 0
    BY <2>3 DEF Second
  <2>5. /\ begun[1] = x /\ begun[2] = Second(0, "plain")
        /\ Len(begun) = 2 + Len(LenTail(0)) + Len(rest)
    BY <1>4, <2>1, <2>2, <2>3, <2>4
  <2>6. ASSUME NEW i \in 1 .. Len(rest) PROVE begun[2 + Len(LenTail(0)) + i] = rest[i]
    BY <1>4, <2>1, <2>2, <2>3
  <2>7. IsImage(begun, x, 0, "plain", rest)
    BY <2>1, <2>3, <2>5, <2>6 DEF IsImage
  <2> QED BY <2>2, <2>7
<1> HIDE DEF begun
<1>6. IsImage(marked, x, 0, Mark(f), rest)
  <2>1. 0 \in Nat /\ "plain" \in Marks
    BY DEF Marks
  <2>2. /\ IsImage(SetMaskBit(begun, TRUE), x, 0, "key", rest)
        /\ IsImage(SetMaskBit(begun, FALSE), x, 0, "plain", rest)
    BY ONLY <1>5, <2>1, ImageMaskBit
  <2>3. CASE f.mask = NoKey
    <3>1. (f.mask # NoKey) = FALSE /\ Mark(f) = "plain"
      BY <2>3 DEF Mark
    <3> QED BY <2>2, <3>1
  <2>4. CASE f.mask # NoKey
    <3>1. (f.mask # NoKey) = TRUE /\ Mark(f) = "key"
      BY <2>4 DEF Mark
    <3> QED BY <2>2, <3>1
  <2> QED BY <2>3, <2>4
<1> HIDE DEF marked
<1>7. /\ masking_key(marked) \in Seq(Byte)
      /\ Len(masking_key(marked)) = k
      /\ k = 0 => masking_key(marked) = f.mask
  <2>1. 0 \in Lengths
    <3>1. Width \in Nat \ {0}
      BY WeightIs, LongBytesAssumption DEF Width
    <3> QED BY <3>1 DEF Lengths
  <2>2. masking_key(marked) = IF Mark(f) = "key" /\ Len(rest) >= 4 THEN SubSeq(rest, 1, 4) ELSE NoKey
    BY ONLY <1>1, <1>5, <1>6, <2>1, ImageReads
  <2>3. CASE f.mask = NoKey
    <3>1. masking_key(marked) = NoKey /\ k = 0
      BY <1>2, <2>2, <2>3 DEF Mark
    <3> QED BY <2>3, <3>1, NoKeyKeyed DEF NoKey
  <2>4. CASE f.mask # NoKey
    <3>1. k = 4 /\ Len(rest) >= 4 /\ Mark(f) = "key"
      <4>1. k = 4 /\ t \in Nat /\ len = 2 + t + k /\ Len(rest) = len - 2
        BY <1>1, <1>2, <1>5, <2>4
      <4>2. Mark(f) = "key"
        BY <2>4 DEF Mark
      <4> HIDE DEF k, t
      <4> QED BY <4>1, <4>2
    <3>2. SubSeq(rest, 1, 4) \in Seq(Byte) /\ Len(SubSeq(rest, 1, 4)) = 4
      BY <1>5, <3>1, FirstBytes
    <3> QED BY <2>2, <3>1, <3>2
  <2> QED BY <2>3, <2>4
<1>8. IsImage(long, x, n, Mark(f), masking_key(marked))
  <2>1. 0 \in Lengths
    <3>1. Width \in Nat \ {0}
      BY WeightIs, LongBytesAssumption DEF Width
    <3> QED BY <3>1 DEF Lengths
  <2> HIDE DEF n
  <2>2. /\ n \in Nat /\ Mark(f) \in Marks /\ x \in Byte /\ rest \in Seq(Byte)
        /\ masking_key(marked) \in Seq(Byte)
    BY <1>1, <1>5, <1>7
  <2> QED BY ONLY <1>6, <2>1, <2>2, ImageLen
<1> HIDE DEF long
<1>9. CASE f.mask = NoKey
  <2>1. masking_key(marked) = f.mask /\ NewHeader(f) = long
    BY <1>2, <1>3, <1>7, <1>9
  <2> QED BY <1>8, <2>1 DEF x
<1>10. CASE f.mask # NoKey
  <2>1. f.mask \in Keys /\ k = 4
    BY <1>2, <1>10, MaskIs
  <2>2. len - 3 = 3 + t /\ NewHeader(f) = At(long, 3 + t, f.mask) /\ Len(long) = 6 + t
    <3>1. len - 3 = 3 + t
      BY <1>1, <1>2, <2>1
    <3>2. Len(long) = 2 + t + k
      BY <1>7, <1>8 DEF IsImage
    <3> QED BY <1>1, <1>3, <1>10, <2>1, <3>1, <3>2
  <2> DEFINE g == At(long, 3 + t, f.mask)
  <2>3. IsImage(SubSeq(g, 1, 6 + t), x, n, Mark(f), f.mask) /\ g \in Seq(Byte) /\ Len(g) = Len(long)
    <3>1. Len(masking_key(marked)) >= 4
      BY <1>7, <2>1
    <3>2. n \in Nat /\ masking_key(marked) \in Seq(Byte)
      BY <1>1, <1>7
    <3> HIDE DEF x, n
    <3>3. /\ IsImage(UpToKey(KeyPut(long, n, f.mask), n), x, n, Mark(f), f.mask)
          /\ KeyPut(long, n, f.mask) \in Seq(Byte) /\ Len(KeyPut(long, n, f.mask)) = Len(long)
      <4>1. ASSUME NEW l, NEW mark, NEW r, r \in Seq(Byte), Len(r) >= 4, IsImage(l, x, n, mark, r),
                   NEW key, key \in Keys
            PROVE  /\ IsImage(UpToKey(KeyPut(l, n, key), n), x, n, mark, key)
                   /\ KeyPut(l, n, key) \in Seq(Byte) /\ Len(KeyPut(l, n, key)) = Len(l)
        <5>1. n \in Nat
          BY <3>2
        <5> QED BY ONLY <5>1, <4>1, ImageKeyAt
      <4> QED BY ONLY <1>8, <2>1, <3>1, <3>2, <4>1
    <3> QED BY <3>3 DEF KeyPut, UpToKey
  <2> HIDE DEF g
  <2>4. SubSeq(g, 1, 6 + t) = g
    BY <2>2, <2>3, SubSeqFull
  <2> QED BY <2>2, <2>3, <2>4 DEF x, g
<1> QED BY <1>9, <1>10

(* What ctor_header leaves in its buffer, and what it returns of it. *)
LEMMA ImageBare ==
    ASSUME NEW x, NEW n, n \in Nat, NEW mark, NEW rest, rest \in Seq(Byte), NEW h,
           IsImage(h, x, n, mark, rest)
    PROVE  IsImage(SubSeq(h, 1, 2 + Len(LenTail(n))), x, n, mark, <<>>)
<1> DEFINE t == Len(LenTail(n))
           k == 2 + t
           q == SubSeq(h, 1, k)
<1>1. t \in Nat /\ h \in Seq(Byte) /\ k \in Nat /\ k <= Len(h)
  BY ImageParts
<1>2. q \in Seq(Byte) /\ Len(q) = k /\ \A i \in 1 .. k : q[i] = h[i]
  <2>1. h \in Seq(Byte) /\ k \in Nat /\ k <= Len(h)
    BY <1>1
  <2> HIDE DEF k
  <2> QED BY ONLY <2>1, FirstBytes
<1>3. h[1] = x /\ h[2] = Second(n, mark) /\ \A i \in 1 .. t : h[2 + i] = LenTail(n)[i]
  BY DEF IsImage
<1> HIDE DEF q, t
<1>4. q[1] = x /\ q[2] = Second(n, mark)
  BY <1>1, <1>2, <1>3
<1>5. ASSUME NEW i \in 1 .. t PROVE q[2 + i] = LenTail(n)[i]
  <2>1. 2 + i \in 1 .. 2 + t
    BY <1>1
  <2> QED BY <1>2, <1>3, <2>1
<1>6. Len(q) = 2 + t + Len(<<>>) /\ \A i \in 1 .. Len(<<>>) : q[2 + t + i] = <<>>[i]
  <2>1. Len(<<>>) = 0
    OBVIOUS
  <2> QED BY <1>1, <1>2, <2>1
<1>7. IsImage(q, x, n, mark, <<>>)
  BY <1>2, <1>4, <1>5, <1>6 DEF IsImage, t
<1> QED BY <1>7 DEF q, t

LEMMA TailAtMost ==
    ASSUME NEW n, n \in Nat
    PROVE  /\ LenCode(n) \in Byte /\ Second(n, "plain") = LenCode(n)
           /\ Len(LenTail(n)) <= LongBytes
<1>1. LenCode(n) \in Nat /\ LenCode(n) <= 127 /\ LongBytes \in Nat /\ LongBytes > 2
  BY LenTailIs, LongBytesAssumption
<1>2. Len(LenTail(n)) = IF n <= 125 THEN 0 ELSE IF n <= 65535 THEN 2 ELSE LongBytes
  BY <1>1, LenTailIs
<1>3. Len(LenTail(n)) <= LongBytes
  BY <1>1, <1>2
<1>4. LenCode(n) + 0 = LenCode(n) /\ LenCode(n) \in Byte
  BY <1>1 DEF Byte
<1>5. Second(n, "plain") = LenCode(n) + 0
  BY DEF Second
<1> QED BY <1>3, <1>4, <1>5

LEMMA CtorIsImage ==
    ASSUME NEW f, f \in Fields, NEW b, b \in Seq(Byte), Len(b) = 6 + LongBytes
    PROVE  /\ Ctor(b, f) \in Seq(Byte) /\ Len(Ctor(b, f)) = 6 + LongBytes
           /\ IsImage(SubSeq(Ctor(b, f), 1, header_len(f.mask # NoKey, f.len)),
                      first_byte(f), f.len, Mark(f), f.mask)
<1> DEFINE x == first_byte(f)
           n == f.len
           tail == LenTail(n)
           t == Len(tail)
           size == 6 + LongBytes
           c == LenCode(n)
           b1 == At(b, 2, <<c>>)
           b2 == At(b1, 3, tail)
           b3 == At(b2, 1, <<x>>)
           led == SetMaskBit(b3, f.mask # NoKey)
           len == header_len(f.mask # NoKey, n)
<1>1. /\ n \in Lengths /\ n \in Nat /\ x \in Byte /\ tail \in Seq(Byte) /\ t \in Nat
      /\ size \in Nat /\ LongBytes \in Nat /\ LongBytes > 2
  BY FieldsAre, FirstByteIs, LenTailIs, LongBytesAssumption
<1>2. c \in Byte /\ Second(n, "plain") = c /\ t <= LongBytes
  BY <1>1, TailAtMost
<1>3. Ctor(b, f) = IF f.mask = NoKey THEN led ELSE At(led, len - 3, f.mask)
  BY DEF Ctor
<1> HIDE DEF x, tail, c, len
<1>4. b1 \in Seq(Byte) /\ Len(b1) = size /\ b1[2] = c
  <2>1. b \in Seq(Byte) /\ 2 \in 1 .. Len(b) /\ c \in Byte
    BY <1>1, <1>2
  <2>2. /\ b1 \in Seq(Byte) /\ Len(b1) = Len(b)
        /\ \A j \in 1 .. Len(b) : b1[j] = IF j = 2 THEN c ELSE b[j]
    BY ONLY <2>1, AtOne
  <2> HIDE DEF b1
  <2> QED BY <2>1, <2>2
<1> HIDE DEF b1
<1>5. /\ b2 \in Seq(Byte) /\ Len(b2) = size /\ b2[2] = c
      /\ \A i \in 1 .. t : b2[2 + i] = tail[i]
  <2>1. b1 \in Seq(Byte) /\ tail \in Seq(Byte) /\ 3 + Len(tail) <= Len(b1) + 1 /\ 3 \in Nat \ {0}
    BY <1>1, <1>2, <1>4
  <2>2. /\ b2 \in Seq(Byte) /\ Len(b2) = Len(b1)
        /\ \A j \in 1 .. Len(b1) :
               b2[j] = IF 3 <= j /\ j < 3 + Len(tail) THEN tail[j - 3 + 1] ELSE b1[j]
    <3> DEFINE k == 3
    <3>1. k \in Nat \ {0} /\ k + Len(tail) <= Len(b1) + 1
      BY <2>1
    <3>2. /\ At(b1, k, tail) \in Seq(Byte) /\ Len(At(b1, k, tail)) = Len(b1)
          /\ \A j \in 1 .. Len(b1) :
                 At(b1, k, tail)[j] = IF k <= j /\ j < k + Len(tail) THEN tail[j - k + 1] ELSE b1[j]
      <4> HIDE DEF k
      <4>1. b1 \in Seq(Byte) /\ tail \in Seq(Byte)
        BY <2>1
      <4> QED BY ONLY <3>1, <4>1, AtIs
    <3> QED BY <3>2
  <2> HIDE DEF b2
  <2>3. b2[2] = c
    BY <1>1, <1>4, <2>2
  <2>4. ASSUME NEW i \in 1 .. t PROVE b2[2 + i] = tail[i]
    <3>1. 2 + i \in 1 .. Len(b1) /\ 3 <= 2 + i /\ 2 + i < 3 + Len(tail) /\ 2 + i - 3 + 1 = i
      BY <1>1, <1>2, <1>4
    <3>2. ASSUME NEW j \in 1 .. Len(b1), 3 <= j, j < 3 + Len(tail) PROVE b2[j] = tail[j - 3 + 1]
      BY <2>2, <3>2
    <3>3. b2[2 + i] = tail[2 + i - 3 + 1]
      BY <1>1, <3>1, <3>2
    <3> QED BY <3>1, <3>3
  <2> QED BY <1>4, <2>2, <2>3, <2>4
<1> HIDE DEF b2
<1>6. /\ b3 \in Seq(Byte) /\ Len(b3) = size /\ b3[1] = x /\ b3[2] = c
      /\ \A i \in 1 .. t : b3[2 + i] = tail[i]
  <2>1. b2 \in Seq(Byte) /\ 1 \in 1 .. Len(b2) /\ x \in Byte
    BY <1>1, <1>5
  <2>2. /\ b3 \in Seq(Byte) /\ Len(b3) = Len(b2)
        /\ \A j \in 1 .. Len(b2) : b3[j] = IF j = 1 THEN x ELSE b2[j]
    BY ONLY <2>1, AtOne
  <2> HIDE DEF b3
  <2>3. b3[1] = x /\ b3[2] = c
    BY <1>1, <1>5, <2>2
  <2>4. ASSUME NEW i \in 1 .. t PROVE b3[2 + i] = tail[i]
    <3>1. 2 + i \in 1 .. Len(b2) /\ 2 + i # 1
      BY <1>1, <1>2, <1>5
    <3> QED BY <1>5, <2>2, <3>1
  <2> QED BY <1>5, <2>2, <2>3, <2>4
<1> HIDE DEF b3
<1>7. PICK rest : /\ rest \in Seq(Byte) /\ Len(rest) >= 4 /\ Len(rest) \in Nat
                  /\ IsImage(b3, x, n, "plain", rest)
  <2> DEFINE m == size - 2 - t
             rest == [i \in 1 .. m |-> b3[2 + t + i]]
  <2>1. m \in Nat /\ m >= 4 /\ size = 2 + t + m
    <3> HIDE DEF t
    <3> QED BY <1>1, <1>2
  <2> HIDE DEF m, t
  <2>2. ASSUME NEW i \in 1 .. m PROVE b3[2 + t + i] \in Byte
    <3>1. 2 + t + i \in 1 .. Len(b3)
      BY <1>1, <1>6, <2>1
    <3> QED BY <1>6, <3>1, ElementOfSeq
  <2>3. rest \in Seq(Byte) /\ Len(rest) = m /\ \A i \in 1 .. m : rest[i] = b3[2 + t + i]
    BY <2>1, <2>2
  <2> HIDE DEF rest
  <2>4. Len(b3) = 2 + t + Len(rest)
    BY <1>6, <2>1, <2>3
  <2>5. IsImage(b3, x, n, "plain", rest)
    BY <1>2, <1>6, <2>3, <2>4 DEF IsImage, t, tail
  <2> QED BY <2>1, <2>3, <2>5
<1>8. IsImage(led, x, n, Mark(f), rest)
  <2>0. n \in Nat /\ rest \in Seq(Byte) /\ "plain" \in Marks
    BY <1>1, <1>7 DEF Marks
  <2>1. IsImage(b3, x, n, "plain", rest)
    BY <1>7
  <2>2. /\ IsImage(SetMaskBit(b3, TRUE), x, n, "key", rest)
        /\ IsImage(SetMaskBit(b3, FALSE), x, n, "plain", rest)
    BY ONLY <2>0, <2>1, ImageMaskBit
  <2>3. CASE f.mask = NoKey
    <3>1. (f.mask # NoKey) = FALSE /\ Mark(f) = "plain"
      BY <2>3 DEF Mark
    <3> QED BY <2>2, <3>1
  <2>4. CASE f.mask # NoKey
    <3>1. (f.mask # NoKey) = TRUE /\ Mark(f) = "key"
      BY <2>4 DEF Mark
    <3> QED BY <2>2, <3>1
  <2> QED BY <2>3, <2>4
<1> HIDE DEF led
<1>9. led \in Seq(Byte) /\ Len(led) = size
  <2>1. Len(b3) = 2 + t + Len(rest) /\ Len(led) = 2 + t + Len(rest) /\ led \in Seq(Byte)
    BY <1>7, <1>8 DEF IsImage, t, tail
  <2> QED BY <1>6, <2>1
<1>10. CASE f.mask = NoKey
  <2>1. Ctor(b, f) = led /\ len = 2 + t /\ f.mask = <<>>
    BY <1>1, <1>3, <1>10 DEF len, header_len, tail, NoKey
  <2>2. IsImage(SubSeq(led, 1, 2 + Len(LenTail(n))), x, n, Mark(f), <<>>)
    <3>1. n \in Nat /\ rest \in Seq(Byte)
      BY <1>1, <1>7
    <3> HIDE DEF n
    <3> QED BY ONLY <1>8, <3>1, ImageBare
  <2> QED BY <1>9, <2>1, <2>2 DEF len, x, tail
<1>11. CASE f.mask # NoKey
  <2>1. f.mask \in Keys
    BY <1>11, MaskIs
  <2>2. len = 6 + t /\ len - 3 = 3 + t /\ Ctor(b, f) = At(led, 3 + t, f.mask)
    <3>1. len = 2 + t + 4
      BY <1>11 DEF len, header_len, tail
    <3>2. len = 6 + t /\ len - 3 = 3 + t
      <4> HIDE DEF t
      <4> QED BY <1>1, <3>1
    <3> QED BY <1>3, <1>11, <3>2
  <2>3. /\ IsImage(UpToKey(KeyPut(led, n, f.mask), n), x, n, Mark(f), f.mask)
        /\ KeyPut(led, n, f.mask) \in Seq(Byte) /\ Len(KeyPut(led, n, f.mask)) = Len(led)
    <3>1. n \in Nat
      BY <1>1
    <3>2. rest \in Seq(Byte) /\ Len(rest) >= 4
      BY <1>7
    <3> HIDE DEF n
    <3>3. ASSUME NEW l, NEW mark, NEW r, r \in Seq(Byte), Len(r) >= 4, IsImage(l, x, n, mark, r),
                 NEW key, key \in Keys
          PROVE  /\ IsImage(UpToKey(KeyPut(l, n, key), n), x, n, mark, key)
                 /\ KeyPut(l, n, key) \in Seq(Byte) /\ Len(KeyPut(l, n, key)) = Len(l)
      BY ONLY <3>1, <3>3, ImageKeyAt
    <3> QED BY ONLY <1>8, <2>1, <3>2, <3>3
  <2>4. KeyPut(led, n, f.mask) = Ctor(b, f)
    BY <2>2 DEF KeyPut, tail
  <2>5. UpToKey(KeyPut(led, n, f.mask), n) = SubSeq(Ctor(b, f), 1, len)
    BY <2>2, <2>4 DEF UpToKey, tail
  <2> QED BY <1>9, <2>3, <2>4, <2>5 DEF len, x
<1> QED BY <1>10, <1>11

-----------------------------------------------------------------------------
(* The payload. *)

Part == [len : Nat, keys : SUBSET Keys]

LEMMA ValueAppend ==
    ASSUME NEW digits, digits \in Seq(Nat), NEW d, d \in Nat
    PROVE  Value(1, Append(digits, d)) = Value(1, digits) + d /\ Value(1, digits) \in Nat
<1> DEFINE len == Len(digits)
           more == Append(digits, d)
<1>1. /\ len \in Nat /\ more \in Seq(Nat) /\ Len(more) = len + 1 /\ more[len + 1] = d
      /\ \A i \in 1 .. len : more[i] = digits[i]
  BY AppendProperties, LenProperties
<1>2. PICK f : Partial(1, digits, f) /\ Value(1, digits) = f[len]
  <2>1. 1 \in Nat
    OBVIOUS
  <2> QED BY <2>1, ValueIs
<1>3. PICK g : Partial(1, more, g) /\ Value(1, more) = g[len + 1]
  <2>1. 1 \in Nat /\ more \in Seq(Nat) /\ Len(more) = len + 1
    BY <1>1
  <2> HIDE DEF more, len
  <2>2. \E g : Partial(1, more, g) /\ Value(1, more) = g[Len(more)]
    BY ONLY <2>1, ValueIs
  <2> QED BY <2>1, <2>2
<1>4. /\ f[0] = 0 /\ \A i \in 0 .. len : f[i] \in Nat
      /\ \A i \in 0 .. len - 1 : f[i + 1] = 1 * f[i] + digits[i + 1]
  BY <1>2 DEF Partial
<1>5. /\ g[0] = 0 /\ \A i \in 0 .. len + 1 : g[i] \in Nat
      /\ \A i \in 0 .. len : g[i + 1] = 1 * g[i] + more[i + 1]
  <2>1. (len + 1) - 1 = len
    BY <1>1
  <2> QED BY <1>1, <1>3, <2>1 DEF Partial
<1> HIDE DEF more, len
<1> DEFINE S == {i \in Nat : i <= len => g[i] = f[i]}
<1>6. Nat \subseteq S
  <2>1. 0 \in S
    BY <1>4, <1>5
  <2>2. ASSUME NEW i \in Nat, i \in S PROVE i + 1 \in S
    <3> SUFFICES ASSUME i + 1 <= len PROVE g[i + 1] = f[i + 1]
      OBVIOUS
    <3>1. i \in 0 .. len - 1 /\ i \in 0 .. len /\ i + 1 \in 1 .. len /\ i <= len
      BY <1>1
    <3>2. f[i + 1] = 1 * f[i] + digits[i + 1]
      BY <1>4, <3>1
    <3>3. g[i + 1] = 1 * g[i] + more[i + 1]
      BY <1>5, <3>1
    <3>4. more[i + 1] = digits[i + 1] /\ g[i] = f[i]
      BY <1>1, <2>2, <3>1
    <3> QED BY <3>2, <3>3, <3>4
  <2> HIDE DEF S
  <2> QED BY <2>1, <2>2, SetInduction
<1>7. g[len] = f[len] /\ f[len] \in Nat /\ len \in 0 .. len
  BY <1>1, <1>4, <1>6
<1>8. g[len + 1] = 1 * g[len] + more[len + 1]
  BY <1>5, <1>7
<1>9. g[len + 1] = f[len] + d
  BY <1>1, <1>7, <1>8
<1> QED BY <1>2, <1>3, <1>7, <1>9 DEF more

LEMMA ValueEmpty == Value(1, <<>>) = 0
<1>1. 1 \in Nat /\ <<>> \in Seq(Nat) /\ Len(<<>>) = 0
  OBVIOUS
<1>2. PICK f : Partial(1, <<>>, f) /\ Value(1, <<>>) = f[Len(<<>>)]
  BY <1>1, ValueIs
<1> QED BY <1>1, <1>2 DEF Partial

\* The lengths of the parts.
LensOf(p) == [i \in DOMAIN p |-> p[i].len]

LEMMA LensOfIs ==
    ASSUME NEW p, p \in Seq(Part)
    PROVE  /\ LensOf(p) \in Seq(Nat) /\ Len(LensOf(p)) = Len(p)
           /\ \A i \in 1 .. Len(p) : LensOf(p)[i] = p[i].len
<1>1. Len(p) \in Nat /\ DOMAIN p = 1 .. Len(p) /\ \A i \in 1 .. Len(p) : p[i] \in Part
  BY LenProperties, ElementOfSeq
<1>2. \A i \in 1 .. Len(p) : p[i].len \in Nat
  BY <1>1 DEF Part
<1>3. LensOf(p) = [i \in 1 .. Len(p) |-> p[i].len]
  BY <1>1 DEF LensOf
<1> QED BY <1>1, <1>2, <1>3

(* A part more. *)
LEMMA PartsLenAppend ==
    ASSUME NEW p, p \in Seq(Part), NEW part, part \in Part
    PROVE  /\ PartsLen(p) \in Nat /\ PartsLen(Append(p, part)) = PartsLen(p) + part.len
           /\ Append(p, part) \in Seq(Part)
<1> DEFINE q == Append(p, part)
           d == part.len
<1>1. /\ Len(p) \in Nat /\ q \in Seq(Part) /\ Len(q) = Len(p) + 1 /\ q[Len(p) + 1] = part
      /\ \A i \in 1 .. Len(p) : q[i] = p[i]
  BY AppendProperties, LenProperties
<1>2. d \in Nat
  BY DEF Part
<1> HIDE DEF q
<1>3. /\ LensOf(p) \in Seq(Nat) /\ Len(LensOf(p)) = Len(p)
      /\ \A i \in 1 .. Len(p) : LensOf(p)[i] = p[i].len
  BY LensOfIs
<1>4. /\ LensOf(q) \in Seq(Nat) /\ Len(LensOf(q)) = Len(q)
      /\ \A i \in 1 .. Len(q) : LensOf(q)[i] = q[i].len
  BY <1>1, LensOfIs
<1> DEFINE u == LensOf(p)
           v == LensOf(q)
           w == Append(u, d)
<1>5. /\ w \in Seq(Nat) /\ Len(w) = Len(u) + 1 /\ w[Len(u) + 1] = d
      /\ \A i \in 1 .. Len(u) : w[i] = u[i]
  BY <1>2, <1>3, AppendProperties
<1> HIDE DEF u, v, w
<1>6. v = w
  <2>1. v \in Seq(Nat) /\ Len(v) = Len(p) + 1 /\ w \in Seq(Nat) /\ Len(w) = Len(p) + 1
    BY <1>1, <1>3, <1>4, <1>5 DEF u, v
  <2>2. ASSUME NEW i \in 1 .. Len(p) + 1 PROVE v[i] = w[i]
    <3>1. v[i] = q[i].len
      BY <1>1, <1>4 DEF v
    <3>2. CASE i = Len(p) + 1
      BY <1>1, <1>3, <1>5, <3>1, <3>2 DEF u
    <3>3. CASE i # Len(p) + 1
      <4>1. i \in 1 .. Len(p)
        BY <1>1, <3>3
      <4> QED BY <1>1, <1>3, <1>5, <3>1, <4>1 DEF u
    <3> QED BY <3>2, <3>3
  <2> QED BY <2>1, <2>2, SeqEqual
<1>7. Value(1, w) = Value(1, u) + d /\ Value(1, u) \in Nat
  BY <1>2, <1>3, ValueAppend DEF u, w
<1>8. PartsLen(p) = Value(1, u) /\ PartsLen(q) = Value(1, v)
  BY DEF PartsLen, u, v, LensOf
<1> QED BY <1>1, <1>6, <1>7, <1>8 DEF q

LEMMA PartsLenOne ==
    ASSUME NEW part, part \in Part
    PROVE  PartsLen(<<part>>) = part.len /\ <<part>> \in Seq(Part)
<1>1. PartsLen(<<>>) = 0
  <2>1. [i \in DOMAIN <<>> |-> <<>>[i].len] = <<>>
    OBVIOUS
  <2> QED BY <2>1, ValueEmpty DEF PartsLen
<1>2. <<>> \in Seq(Part) /\ Append(<<>>, part) = <<part>>
  OBVIOUS
<1>3. PartsLen(Append(<<>>, part)) = PartsLen(<<>>) + part.len
  BY <1>2, PartsLenAppend
<1>4. part.len \in Nat
  BY DEF Part
<1>5. <<part>> \in Seq(Part)
  OBVIOUS
<1> QED BY <1>1, <1>2, <1>3, <1>4, <1>5

(* Masking changes the keys of every part and nothing else. *)
LEMMA MaskApplied ==
    ASSUME NEW p, p \in Seq(Part), NEW key, key \in Keys
    PROVE  /\ apply_mask(p, key) \in Seq(Part) /\ PartsLen(apply_mask(p, key)) = PartsLen(p)
           /\ DOMAIN apply_mask(p, key) = DOMAIN p
           /\ \A i \in DOMAIN p : apply_mask(p, key)[i].keys = Toggled(p[i].keys, key)
<1> DEFINE q == apply_mask(p, key)
<1>1. Len(p) \in Nat /\ DOMAIN p = 1 .. Len(p) /\ \A i \in 1 .. Len(p) : p[i] \in Part
  BY LenProperties, ElementOfSeq
<1>2. ASSUME NEW i \in 1 .. Len(p)
      PROVE  /\ [p[i] EXCEPT !.keys = Toggled(p[i].keys, key)] \in Part
             /\ [p[i] EXCEPT !.keys = Toggled(p[i].keys, key)].len = p[i].len
             /\ [p[i] EXCEPT !.keys = Toggled(p[i].keys, key)].keys = Toggled(p[i].keys, key)
  <2>1. Toggled(p[i].keys, key) \in SUBSET Keys
    BY <1>1 DEF Toggled, Part
  <2> HIDE DEF Toggled
  <2> QED BY <1>1, <2>1 DEF Part
<1>3. q = [i \in 1 .. Len(p) |-> [p[i] EXCEPT !.keys = Toggled(p[i].keys, key)]]
  BY <1>1 DEF apply_mask
<1>4. q \in Seq(Part)
  <2> DEFINE new(i) == [p[i] EXCEPT !.keys = Toggled(p[i].keys, key)]
  <2>1. q = [i \in 1 .. Len(p) |-> new(i)] /\ \A i \in 1 .. Len(p) : new(i) \in Part
    BY <1>2, <1>3
  <2> HIDE DEF new, q
  <2> QED BY <1>1, <2>1
<1>5. /\ DOMAIN q = 1 .. Len(p)
      /\ \A i \in 1 .. Len(p) : q[i].len = p[i].len /\ q[i].keys = Toggled(p[i].keys, key)
  BY <1>2, <1>3
<1> HIDE DEF q
<1>6. [i \in DOMAIN q |-> q[i].len] = [i \in DOMAIN p |-> p[i].len]
  BY <1>1, <1>5
<1>7. PartsLen(q) = PartsLen(p)
  BY <1>6 DEF PartsLen
<1> QED BY <1>1, <1>4, <1>5, <1>7 DEF q

\* Every part is XORed with the key and nothing else.
Sealed(p, key) == \A i \in DOMAIN p : p[i].keys = IF key = NoKey THEN {} ELSE {key}

LEMMA MaskSeals ==
    ASSUME NEW p, p \in Seq(Part), NEW key, key \in Keys
    PROVE  /\ Sealed(p, key) => Sealed(apply_mask(p, key), NoKey)
           /\ Sealed(p, NoKey) => Sealed(apply_mask(p, key), key)
<1> DEFINE q == apply_mask(p, key)
<1>1. DOMAIN q = DOMAIN p /\ \A i \in DOMAIN p : q[i].keys = Toggled(p[i].keys, key)
  BY MaskApplied
<1>2. key # NoKey
  BY KeyIs
<1> HIDE DEF q
<1>3. Toggled({key}, key) = {} /\ Toggled({}, key) = {key}
  BY DEF Toggled
<1>4. Sealed(p, key) => Sealed(q, NoKey)
  BY <1>1, <1>2, <1>3 DEF Sealed
<1>5. Sealed(p, NoKey) => Sealed(q, key)
  BY <1>1, <1>2, <1>3 DEF Sealed
<1> QED BY <1>4, <1>5 DEF q

-----------------------------------------------------------------------------
(* unmask, mask and extend_from_slice. *)

\* What is behind the length when the mask is off.
Bare(mark, rest) == IF mark = "key" THEN SubSeq(rest, 1, Len(rest) - 4) ELSE rest

\* What an operation on a frame starts from.
Framing(h, x, n, mark, rest) ==
    /\ n \in Lengths /\ x \in Byte /\ mark \in Marks /\ Keyed(rest)
    /\ IsImage(h, x, n, mark, rest)

\* The same for one that masking_key does not panic on.
Whole(h, x, n, mark, rest) ==
    /\ Framing(h, x, n, mark, rest)
    /\ mark = "key" => Len(rest) >= 4

LEMMA FramingReads ==
    ASSUME NEW h, NEW x, NEW n, NEW mark, NEW rest, Framing(h, x, n, mark, rest)
    PROVE  /\ n \in Nat /\ rest \in Seq(Byte) /\ Len(rest) \in Nat /\ mark \in {"key", "plain"}
           /\ masked(h) <=> mark = "key"
           /\ KeyFits(h) => Whole(h, x, n, mark, rest)
           /\ ~KeyFits(h) => mark = "key" /\ rest = NoKey
<1>1. n \in Lengths /\ mark \in Marks /\ Keyed(rest) /\ IsImage(h, x, n, mark, rest)
  BY DEF Framing
<1>2. n \in Nat /\ rest \in Seq(Byte) /\ Len(rest) \in Nat /\ (Len(rest) >= 4 \/ rest = <<>>)
  BY <1>1, LengthsAreNumbers, KeyedLength
<1>3. masked(h) <=> mark = "key"
  BY <1>1, <1>2, ImageReads
<1>4. KeyFits(h) <=> (mark = "key" => Len(rest) >= 4)
  BY <1>1, <1>2, ImageReads
<1> QED BY <1>1, <1>2, <1>3, <1>4 DEF Whole, NoKey, Marks

LEMMA WholeReads ==
    ASSUME NEW h, NEW x, NEW n, NEW mark, NEW rest, Whole(h, x, n, mark, rest)
    PROVE  /\ masking_key(h) = IF mark = "key" THEN SubSeq(rest, 1, 4) ELSE NoKey
           /\ masking_key(h) \in Seq(Byte) /\ Keyed(masking_key(h))
           /\ mark = "key" => masking_key(h) \in Keys
           /\ mark = "plain" => masking_key(h) = NoKey
<1>1. /\ n \in Lengths /\ mark \in Marks /\ Keyed(rest) /\ IsImage(h, x, n, mark, rest)
      /\ mark = "key" => Len(rest) >= 4
  BY DEF Whole, Framing
<1>2. rest \in Seq(Byte) /\ (Len(rest) >= 4 => SubSeq(rest, 1, 4) \in Keys)
  BY <1>1, KeyedLength
<1>3. masking_key(h) = IF mark = "key" /\ Len(rest) >= 4 THEN SubSeq(rest, 1, 4) ELSE NoKey
  BY <1>1, <1>2, ImageReads
<1>4. CASE mark = "key"
  <2>1. masking_key(h) = SubSeq(rest, 1, 4) /\ masking_key(h) \in Keys
    BY <1>1, <1>2, <1>3, <1>4
  <2>2. masking_key(h) \in Seq(Byte) /\ Keyed(masking_key(h))
    BY <2>1, KeyIs
  <2> QED BY <1>4, <2>1, <2>2
<1>5. CASE mark = "plain"
  <2>1. masking_key(h) = <<>>
    BY <1>3, <1>5 DEF NoKey
  <2>2. masking_key(h) \in Seq(Byte) /\ Keyed(masking_key(h))
    BY <2>1, NoKeyKeyed
  <2> QED BY <1>5, <2>1, <2>2 DEF NoKey
<1>6. mark = "key" \/ mark = "plain"
  BY <1>1 DEF Marks
<1> QED BY <1>4, <1>5, <1>6

LEMMA UnmaskedHeader ==
    ASSUME NEW h, NEW x, NEW n, NEW mark, NEW rest, Whole(h, x, n, mark, rest), NEW p
    PROVE  Framing(Unmasked(h, p).hdr, x, n, "plain", Bare(mark, rest))
<1>1. /\ n \in Lengths /\ mark \in Marks /\ Keyed(rest) /\ IsImage(h, x, n, mark, rest)
      /\ x \in Byte
      /\ mark = "key" => Len(rest) >= 4
      /\ Framing(h, x, n, mark, rest)
  BY DEF Whole, Framing
<1>2. n \in Nat /\ rest \in Seq(Byte) /\ mark \in {"key", "plain"} /\ (masked(h) <=> mark = "key")
  BY <1>1, FramingReads
<1>3. CASE mark = "plain"
  <2>1. Unmasked(h, p).hdr = h
    BY <1>2, <1>3 DEF Unmasked
  <2>2. Bare(mark, rest) = rest
    BY <1>3 DEF Bare
  <2> QED BY <1>1, <1>3, <2>1, <2>2
<1>4. CASE mark = "key"
  <2> DEFINE g == SetMaskBit(h, FALSE)
             q == SubSeq(rest, 1, Len(rest) - 4)
  <2>1. Len(rest) >= 4
    BY <1>1, <1>4
  <2>2. IsImage(g, x, n, "plain", rest)
    BY <1>1, <1>2, ImageMaskBit
  <2>3. Len(g) = Len(h)
    BY <1>1, <2>2 DEF IsImage
  <2>4. Unmasked(h, p).hdr = SubSeq(g, 1, Len(g) - 4)
    BY <1>2, <1>4, <2>3 DEF Unmasked
  <2> HIDE DEF g
  <2>5. IsImage(SubSeq(g, 1, Len(g) - 4), x, n, "plain", q)
    BY <1>2, <2>1, <2>2, ImageShorter
  <2>6. Keyed(q)
    BY <1>1, <2>1, KeyedShorter
  <2>7. Bare(mark, rest) = q
    BY <1>4 DEF Bare
  <2>8. "plain" \in Marks
    BY DEF Marks
  <2> HIDE DEF q
  <2> QED BY <1>1, <2>4, <2>5, <2>6, <2>7, <2>8 DEF Framing
<1> QED BY <1>2, <1>3, <1>4

LEMMA UnmaskedParts ==
    ASSUME NEW h, NEW x, NEW n, NEW mark, NEW rest, Whole(h, x, n, mark, rest),
           NEW p, p \in Seq(Part)
    PROVE  /\ Unmasked(h, p).parts \in Seq(Part) /\ PartsLen(Unmasked(h, p).parts) = PartsLen(p)
           /\ Sealed(p, masking_key(h)) => Sealed(Unmasked(h, p).parts, NoKey)
<1>1. mark \in {"key", "plain"} /\ (masked(h) <=> mark = "key")
  BY FramingReads DEF Whole
<1>2. CASE mark = "plain"
  <2>1. Unmasked(h, p).parts = p
    BY <1>1, <1>2 DEF Unmasked
  <2>2. masking_key(h) = NoKey
    BY <1>2, WholeReads
  <2> QED BY <2>1, <2>2
<1>3. CASE mark = "key"
  <2>1. masking_key(h) \in Keys
    BY <1>3, WholeReads
  <2>2. Unmasked(h, p).parts = apply_mask(p, masking_key(h))
    BY <1>1, <1>3 DEF Unmasked
  <2>3. ASSUME NEW key, key \in Keys
        PROVE  /\ apply_mask(p, key) \in Seq(Part) /\ PartsLen(apply_mask(p, key)) = PartsLen(p)
               /\ Sealed(p, key) => Sealed(apply_mask(p, key), NoKey)
    BY <2>3, MaskApplied, MaskSeals
  <2> QED BY <2>1, <2>2, <2>3
<1> QED BY <1>1, <1>2, <1>3

LEMMA MaskedHeader ==
    ASSUME NEW h, NEW x, NEW n, NEW mark, NEW rest, Whole(h, x, n, mark, rest), NEW p,
           NEW key, key \in Keys
    PROVE  Whole(Masked(h, p, key).hdr, x, n, "key", Bare(mark, rest) \o key)
<1> DEFINE u == Unmasked(h, p).hdr
           q == Bare(mark, rest)
           g == SetMaskBit(u, TRUE)
<1>1. n \in Lengths /\ x \in Byte /\ Keyed(q) /\ IsImage(u, x, n, "plain", q)
  BY UnmaskedHeader DEF Framing
<1>2. Masked(h, p, key).hdr = g \o key
  BY DEF Masked
<1>3. n \in Nat /\ q \in Seq(Byte) /\ Len(q) \in Nat /\ key \in Seq(Byte) /\ Len(key) = 4
  BY <1>1, LengthsAreNumbers, KeyedLength, KeyIs
<1> HIDE DEF u, q
<1>4. "plain" \in Marks /\ "key" \in Marks
  BY DEF Marks
<1>5. IsImage(g, x, n, "key", q)
  BY <1>1, <1>3, <1>4, ImageMaskBit
<1> HIDE DEF g
<1>6. IsImage(g \o key, x, n, "key", q \o key)
  BY <1>3, <1>5, ImageLonger
<1>7. Keyed(q \o key)
  BY <1>1, KeyedLonger
<1>8. Len(q \o key) = Len(q) + Len(key)
  BY <1>3, ConcatProperties
<1>9. Len(q \o key) >= 4
  BY <1>3, <1>8
<1>10. Whole(g \o key, x, n, "key", q \o key)
  BY <1>1, <1>4, <1>6, <1>7, <1>9 DEF Whole, Framing
<1> QED BY <1>2, <1>10 DEF q

LEMMA MaskedParts ==
    ASSUME NEW h, NEW x, NEW n, NEW mark, NEW rest, Whole(h, x, n, mark, rest),
           NEW p, p \in Seq(Part), NEW key, key \in Keys
    PROVE  /\ Masked(h, p, key).parts \in Seq(Part)
           /\ PartsLen(Masked(h, p, key).parts) = PartsLen(p)
           /\ Sealed(p, masking_key(h)) => Sealed(Masked(h, p, key).parts, key)
<1> DEFINE u == Unmasked(h, p).parts
<1>1. /\ u \in Seq(Part) /\ PartsLen(u) = PartsLen(p)
      /\ Sealed(p, masking_key(h)) => Sealed(u, NoKey)
  BY UnmaskedParts
<1>2. Masked(h, p, key).parts = apply_mask(u, key)
  BY DEF Masked
<1> HIDE DEF u
<1>3. /\ apply_mask(u, key) \in Seq(Part) /\ PartsLen(apply_mask(u, key)) = PartsLen(u)
      /\ Sealed(u, NoKey) => Sealed(apply_mask(u, key), key)
  BY <1>1, MaskApplied, MaskSeals
<1> QED BY <1>1, <1>2, <1>3

(* set_payload_len on a frame that masking_key does not panic on. *)
LEMMA LongHeader ==
    ASSUME NEW h, NEW x, NEW n, NEW mark, NEW rest, Whole(h, x, n, mark, rest), NEW m, m \in Lengths
    PROVE  Whole(SetPayloadLen(h, m), x, m, mark, masking_key(h))
<1>1. /\ n \in Lengths /\ x \in Byte /\ mark \in Marks /\ Keyed(rest)
      /\ IsImage(h, x, n, mark, rest)
  BY DEF Whole, Framing
<1>2. rest \in Seq(Byte) /\ m \in Nat
  BY <1>1, KeyedLength, LengthsAreNumbers
<1>3. /\ masking_key(h) \in Seq(Byte) /\ Keyed(masking_key(h))
      /\ mark = "key" => masking_key(h) \in Keys
  BY WholeReads
<1>4. IsImage(SetPayloadLen(h, m), x, m, mark, masking_key(h))
  BY <1>1, <1>2, <1>3, ImageLen
<1>5. mark = "key" => Len(masking_key(h)) >= 4
  <2>1. ASSUME NEW key, key \in Keys PROVE Len(key) = 4
    BY <2>1, KeyIs
  <2> QED BY <1>3, <2>1
<1> QED BY <1>1, <1>3, <1>4, <1>5 DEF Whole, Framing

LEMMA ExtendedHeader ==
    ASSUME NEW h, NEW x, NEW n, NEW mark, NEW rest, Whole(h, x, n, mark, rest),
           NEW p, p \in Seq(Part), NEW m, m \in Nat, PartsLen(p) + m \in Lengths
    PROVE  Whole(Extended(h, p, m).hdr, x, PartsLen(p) + m, mark, masking_key(h))
<1> DEFINE u == Unmasked(h, p).hdr
           v == Unmasked(h, p).parts
           part == [len |-> m, keys |-> {}]
           more == Append(v, part)
           total == PartsLen(p) + m
           long == SetPayloadLen(u, total)
           key == masking_key(h)
<1>1. v \in Seq(Part) /\ PartsLen(v) = PartsLen(p)
  BY UnmaskedParts
<1>2. part \in Part /\ part.len = m
  BY DEF Part
<1>3. more \in Seq(Part) /\ PartsLen(more) = total
  <2> HIDE DEF part, v
  <2>1. PartsLen(more) = PartsLen(v) + part.len /\ more \in Seq(Part)
    BY <1>1, <1>2, PartsLenAppend
  <2> QED BY <1>1, <1>2, <2>1
<1>4. Whole(u, x, n, "plain", Bare(mark, rest))
  <2>1. Framing(u, x, n, "plain", Bare(mark, rest))
    BY UnmaskedHeader
  <2> QED BY <2>1 DEF Whole
<1>5. masking_key(u) = NoKey
  <2> HIDE DEF u
  <2> QED BY <1>4, WholeReads
<1>6. Whole(long, x, total, "plain", NoKey)
  <2>1. total \in Lengths
    OBVIOUS
  <2> HIDE DEF u, total
  <2>2. Whole(SetPayloadLen(u, total), x, total, "plain", masking_key(u))
    BY <1>4, <2>1, LongHeader
  <2> QED BY <1>5, <2>2
<1>7. /\ mark \in {"key", "plain"} /\ (masked(h) <=> mark = "key")
      /\ mark = "key" => key \in Keys
      /\ mark = "plain" => key = NoKey
  BY FramingReads, WholeReads DEF Whole
<1>8. Extended(h, p, m).hdr = IF masked(h) THEN Masked(long, more, key).hdr ELSE long
  BY <1>3 DEF Extended
<1> HIDE DEF long, more, key, total
<1>9. CASE mark = "key"
  <2>1. Whole(Masked(long, more, key).hdr, x, total, "key", Bare("plain", NoKey) \o key)
    BY <1>6, <1>7, <1>9, MaskedHeader
  <2>2. key \in Keys
    BY <1>7, <1>9
  <2>3. key \in Seq(Byte)
    BY <2>2, KeyIs
  <2>4. Bare("plain", NoKey) \o key = key
    BY <2>3, ConcatEmptySeq DEF Bare, NoKey
  <2> QED BY <1>7, <1>8, <1>9, <2>1, <2>4 DEF total, key
<1>10. CASE mark = "plain"
  BY <1>6, <1>7, <1>8, <1>10 DEF total, key
<1> QED BY <1>7, <1>9, <1>10

LEMMA ExtendedParts ==
    ASSUME NEW h, NEW x, NEW n, NEW mark, NEW rest, Whole(h, x, n, mark, rest),
           NEW p, p \in Seq(Part), NEW m, m \in Nat, PartsLen(p) + m \in Lengths
    PROVE  /\ Extended(h, p, m).parts \in Seq(Part)
           /\ PartsLen(Extended(h, p, m).parts) = PartsLen(p) + m
           /\ Sealed(p, masking_key(h)) => Sealed(Extended(h, p, m).parts, masking_key(h))
<1> DEFINE u == Unmasked(h, p).hdr
           v == Unmasked(h, p).parts
           part == [len |-> m, keys |-> {}]
           more == Append(v, part)
           total == PartsLen(p) + m
           long == SetPayloadLen(u, total)
           key == masking_key(h)
<1>1. /\ v \in Seq(Part) /\ PartsLen(v) = PartsLen(p)
      /\ Sealed(p, key) => Sealed(v, NoKey)
  BY UnmaskedParts
<1>2. part \in Part /\ part.len = m /\ part.keys = {}
  BY DEF Part
<1>3. more \in Seq(Part) /\ PartsLen(more) = total
  <2> HIDE DEF part, v
  <2>1. PartsLen(more) = PartsLen(v) + part.len /\ more \in Seq(Part)
    BY <1>1, <1>2, PartsLenAppend
  <2> QED BY <1>1, <1>2, <2>1
<1>4. Sealed(p, key) => Sealed(more, NoKey)
  <2> SUFFICES ASSUME Sealed(p, key) PROVE Sealed(more, NoKey)
    OBVIOUS
  <2>1. Sealed(v, NoKey)
    BY <1>1
  <2> HIDE DEF part, v
  <2>2. /\ Len(v) \in Nat /\ DOMAIN v = 1 .. Len(v) /\ DOMAIN more = 1 .. Len(v) + 1
        /\ more[Len(v) + 1] = part /\ \A i \in 1 .. Len(v) : more[i] = v[i]
    BY <1>1, <1>2, AppendProperties, LenProperties
  <2>3. ASSUME NEW i \in DOMAIN more PROVE more[i].keys = {}
    <3>1. CASE i = Len(v) + 1
      BY <1>2, <2>2, <3>1
    <3>2. CASE i # Len(v) + 1
      <4>1. i \in DOMAIN v /\ more[i] = v[i]
        BY <2>2, <3>2
      <4> QED BY <2>1, <4>1 DEF Sealed
    <3> QED BY <3>1, <3>2
  <2> QED BY <2>3 DEF Sealed
<1>5. Whole(u, x, n, "plain", Bare(mark, rest))
  <2>1. Framing(u, x, n, "plain", Bare(mark, rest))
    BY UnmaskedHeader
  <2> QED BY <2>1 DEF Whole
<1>6. masking_key(u) = NoKey
  <2> HIDE DEF u
  <2> QED BY <1>5, WholeReads
<1>7. Whole(long, x, total, "plain", NoKey)
  <2>1. total \in Lengths
    OBVIOUS
  <2> HIDE DEF u, total
  <2>2. Whole(SetPayloadLen(u, total), x, total, "plain", masking_key(u))
    BY <1>5, <2>1, LongHeader
  <2> QED BY <1>6, <2>2
<1>8. /\ mark \in {"key", "plain"} /\ (masked(h) <=> mark = "key")
      /\ mark = "key" => key \in Keys
      /\ mark = "plain" => key = NoKey
  BY FramingReads, WholeReads DEF Whole
<1>9. Extended(h, p, m).parts = IF masked(h) THEN Masked(long, more, key).parts ELSE more
  BY <1>3 DEF Extended
<1> HIDE DEF long, more, key, total
<1>10. CASE mark = "key"
  <2>1. masking_key(long) = NoKey
    BY <1>7, WholeReads
  <2>2. /\ Masked(long, more, key).parts \in Seq(Part)
        /\ PartsLen(Masked(long, more, key).parts) = PartsLen(more)
        /\ Sealed(more, masking_key(long)) => Sealed(Masked(long, more, key).parts, key)
    BY <1>3, <1>7, <1>8, <1>10, MaskedParts
  <2> QED BY <1>3, <1>4, <1>8, <1>9, <1>10, <2>1, <2>2 DEF total, key
<1>11. CASE mark = "plain"
  BY <1>3, <1>4, <1>8, <1>9, <1>11 DEF total, key
<1> QED BY <1>8, <1>10, <1>11

-----------------------------------------------------------------------------
(* What a frame's header, its history and its payload have to do with each   *)
(* other.                                                                    *)

Raws == {"none", "bit", "payload"}

Shown(h, f, r) ==
    \E mark \in Marks, rest \in Seq(Byte) :
        /\ Framing(h, first_byte(f), f.len, mark, rest)
        /\ r # "bit" => rest = f.mask /\ mark = Mark(f)

Agrees(h, f, r, p) ==
    /\ f \in Fields /\ r \in Raws /\ p \in Seq(Part)
    /\ Shown(h, f, r)
    /\ r = "none" => Sealed(p, f.mask) /\ f.len = PartsLen(p)

LEMMA ShownIs ==
    ASSUME NEW h, NEW f, NEW r, Shown(h, f, r)
    PROVE  h \in Seq(Byte)
BY DEF Shown, Framing, IsImage

LEMMA NewAgrees ==
    ASSUME NEW f, f \in Fields, NEW r, r \in Raws, NEW part, part \in Part,
           r = "none" => part.len = f.len /\ part.keys = KeysOf(f.mask)
    PROVE  Agrees(NewHeader(f), f, r, <<part>>)
<1>1. /\ f.len \in Lengths /\ f.len \in Nat /\ f.mask \in Keys \cup {NoKey}
      /\ f.mask \in Seq(Byte) /\ Mark(f) \in Marks /\ Keyed(f.mask) /\ first_byte(f) \in Byte
  BY FieldsAre, MaskIs, FirstByteIs
<1>2. IsImage(NewHeader(f), first_byte(f), f.len, Mark(f), f.mask)
  BY NewIsImage
<1>3. Framing(NewHeader(f), first_byte(f), f.len, Mark(f), f.mask)
  BY <1>1, <1>2 DEF Framing
<1>4. Shown(NewHeader(f), f, r)
  BY <1>1, <1>3 DEF Shown
<1>5. PartsLen(<<part>>) = part.len /\ <<part>> \in Seq(Part)
  BY PartsLenOne
<1>6. r = "none" => Sealed(<<part>>, f.mask)
  BY DEF Sealed, KeysOf
<1> QED BY <1>4, <1>5, <1>6 DEF Agrees

(* A setter of the first byte. *)
LEMMA FirstAgrees ==
    ASSUME NEW h, NEW f, NEW r, NEW p, Agrees(h, f, r, p), NEW g, g \in Fields,
           g.len = f.len, g.mask = f.mask
    PROVE  Agrees(At(h, 1, <<first_byte(g)>>), g, r, p)
<1> DEFINE y == first_byte(g)
           new == At(h, 1, <<y>>)
<1>1. PICK mark \in Marks, rest \in Seq(Byte) :
          /\ Framing(h, first_byte(f), f.len, mark, rest)
          /\ r # "bit" => rest = f.mask /\ mark = Mark(f)
  BY DEF Agrees, Shown
<1>2. /\ f.len \in Lengths /\ Keyed(rest) /\ IsImage(h, first_byte(f), f.len, mark, rest)
  BY <1>1 DEF Framing
<1>3. y \in Byte
  BY FirstByteIs
<1>4. f.len \in Nat
  BY <1>2, LengthsAreNumbers
<1> HIDE DEF y
<1>5. IsImage(new, y, f.len, mark, rest)
  <2>1. rest \in Seq(Byte)
    OBVIOUS
  <2> QED BY ONLY <1>2, <1>3, <1>4, <2>1, ImageFirst
<1>6. Framing(new, y, g.len, mark, rest)
  BY <1>2, <1>3, <1>5 DEF Framing
<1>7. Mark(g) = Mark(f)
  BY DEF Mark
<1>8. Shown(new, g, r)
  BY <1>1, <1>6, <1>7 DEF Shown, y
<1> QED BY <1>8 DEF Agrees, y

LEMMA FlagAgrees ==
    ASSUME NEW h, NEW f, NEW r, NEW p, Agrees(h, f, r, p),
           NEW i, i \in 1 .. 4, NEW val, val \in BOOLEAN
    PROVE  Agrees(At(h, 1, <<set_bit(h[1], <<128, 64, 32, 16>>[i], val)>>), WithFlag(f, i, val), r, p)
<1> DEFINE g == WithFlag(f, i, val)
<1>1. f \in Fields /\ h[1] = first_byte(f)
  BY DEF Agrees, Shown, Framing, IsImage
<1>2. /\ g \in Fields /\ g.len = f.len /\ g.mask = f.mask
      /\ first_byte(g) = set_bit(first_byte(f), <<128, 64, 32, 16>>[i], val)
  BY ONLY <1>1, i \in 1 .. 4, val \in BOOLEAN, FlagSet
<1> HIDE DEF g
<1>3. Agrees(At(h, 1, <<first_byte(g)>>), g, r, p)
  BY <1>2, FirstAgrees
<1> QED BY <1>1, <1>2, <1>3 DEF g

LEMMA OpcodeAgrees ==
    ASSUME NEW h, NEW f, NEW r, NEW p, Agrees(h, f, r, p), NEW code, code \in OpCode
    PROVE  Agrees(SetOpcode(h, code), [f EXCEPT !.opcode = code], r, p)
<1> DEFINE g == [f EXCEPT !.opcode = code]
<1>1. f \in Fields /\ h[1] = first_byte(f)
  BY DEF Agrees, Shown, Framing, IsImage
<1>2. g \in Fields /\ first_byte(g) = (first_byte(f) \div 16) * 16 + code
  BY <1>1, OpcodeSet
<1>3. g.len = f.len /\ g.mask = f.mask
  BY <1>1 DEF Fields
<1> HIDE DEF g
<1>4. Agrees(At(h, 1, <<first_byte(g)>>), g, r, p)
  BY <1>2, <1>3, FirstAgrees
<1> QED BY <1>1, <1>2, <1>4 DEF g, SetOpcode

LEMMA MaskBitAgrees ==
    ASSUME NEW h, NEW f, NEW r, NEW p, Agrees(h, f, r, p), NEW val, val \in BOOLEAN
    PROVE  Agrees(SetMaskBit(h, val), f, "bit", p)
<1>1. PICK mark \in Marks, rest \in Seq(Byte) : Framing(h, first_byte(f), f.len, mark, rest)
  BY DEF Agrees, Shown
<1>2. /\ f.len \in Lengths /\ first_byte(f) \in Byte /\ Keyed(rest)
      /\ IsImage(h, first_byte(f), f.len, mark, rest)
  BY <1>1 DEF Framing
<1>3. f.len \in Nat
  BY <1>2, LengthsAreNumbers
<1>4. /\ IsImage(SetMaskBit(h, TRUE), first_byte(f), f.len, "key", rest)
      /\ IsImage(SetMaskBit(h, FALSE), first_byte(f), f.len, "plain", rest)
  BY <1>2, <1>3, ImageMaskBit
<1>5. "key" \in Marks /\ "plain" \in Marks
  BY DEF Marks
<1>6. /\ Framing(SetMaskBit(h, TRUE), first_byte(f), f.len, "key", rest)
      /\ Framing(SetMaskBit(h, FALSE), first_byte(f), f.len, "plain", rest)
  BY <1>2, <1>4, <1>5 DEF Framing
<1>7. Shown(SetMaskBit(h, TRUE), f, "bit") /\ Shown(SetMaskBit(h, FALSE), f, "bit")
  BY <1>5, <1>6 DEF Shown
<1>8. Shown(SetMaskBit(h, val), f, "bit")
  <2>1. val = TRUE \/ val = FALSE
    OBVIOUS
  <2> QED BY <1>7, <2>1
<1>9. f \in Fields /\ p \in Seq(Part) /\ "bit" \in Raws /\ "bit" # "none"
  BY DEF Agrees, Raws
<1> QED BY <1>8, <1>9 DEF Agrees

(* masking_key panics after set_mask only; where it does not, the header is  *)
(* whole and, set_mask aside, its key is the one it was told.                *)
LEMMA AgreesReads ==
    ASSUME NEW h, NEW f, NEW r, NEW p, Agrees(h, f, r, p)
    PROVE  /\ ~KeyFits(h) => r = "bit"
           /\ KeyFits(h) => \E mark \in Marks, rest \in Seq(Byte) :
                 /\ Whole(h, first_byte(f), f.len, mark, rest)
                 /\ r # "bit" => rest = f.mask /\ mark = Mark(f) /\ masking_key(h) = f.mask
<1>1. PICK mark \in Marks, rest \in Seq(Byte) :
          /\ Framing(h, first_byte(f), f.len, mark, rest)
          /\ r # "bit" => rest = f.mask /\ mark = Mark(f)
  BY DEF Agrees, Shown
<1> DEFINE x == first_byte(f)
           n == f.len
<1>2. Framing(h, x, n, mark, rest)
  BY <1>1
<1>3. f \in Fields
  BY DEF Agrees
<1>4. f.mask = NoKey \/ (f.mask # NoKey /\ SubSeq(f.mask, 1, 4) = f.mask)
  BY <1>3, MaskIs
<1> HIDE DEF x, n
<1>5. /\ KeyFits(h) => Whole(h, x, n, mark, rest)
      /\ ~KeyFits(h) => mark = "key" /\ rest = NoKey
  BY <1>2, FramingReads
<1>6. ASSUME ~KeyFits(h) PROVE r = "bit"
  BY <1>1, <1>5, <1>6 DEF Mark
<1>7. ASSUME KeyFits(h), r # "bit" PROVE masking_key(h) = f.mask
  <2>1. masking_key(h) = IF mark = "key" THEN SubSeq(rest, 1, 4) ELSE NoKey
    BY <1>5, <1>7, WholeReads
  <2> QED BY <1>1, <1>4, <1>7, <2>1 DEF Mark
<1> QED BY <1>1, <1>5, <1>6, <1>7 DEF x, n

LEMMA LenAgrees ==
    ASSUME NEW h, NEW f, NEW r, NEW p, Agrees(h, f, r, p), KeyFits(h), NEW m, m \in Lengths
    PROVE  Agrees(SetPayloadLen(h, m), [f EXCEPT !.len = m, !.mask = masking_key(h)],
                  IF r = "none" /\ m = PartsLen(p) THEN r ELSE "payload", p)
<1> DEFINE x == first_byte(f)
           n == f.len
           key == masking_key(h)
           g == [f EXCEPT !.len = m, !.mask = key]
           new == SetPayloadLen(h, m)
           raised == IF r = "none" /\ m = PartsLen(p) THEN r ELSE "payload"
<1>1. PICK mark \in Marks, rest \in Seq(Byte) :
          /\ Whole(h, x, n, mark, rest)
          /\ r # "bit" => rest = f.mask /\ mark = Mark(f) /\ masking_key(h) = f.mask
  BY AgreesReads
<1>2. /\ f \in Fields /\ r \in Raws /\ p \in Seq(Part)
      /\ r = "none" => Sealed(p, f.mask) /\ f.len = PartsLen(p)
  BY DEF Agrees
<1>3. /\ key \in Seq(Byte) /\ (mark = "key" => key \in Keys) /\ (mark = "plain" => key = NoKey)
  BY <1>1, WholeReads
<1>4. mark = "key" \/ mark = "plain"
  BY DEF Marks
<1>5. Whole(new, x, m, mark, key)
  <2> HIDE DEF x, n
  <2> QED BY <1>1, LongHeader
<1>6. g \in Fields /\ first_byte(g) = x /\ g.len = m /\ g.mask = key
  <2>1. key \in Keys \cup {NoKey}
    BY <1>3, <1>4
  <2> HIDE DEF key
  <2> QED BY <1>2, <2>1 DEF Fields, Lengths, first_byte
<1>7. Mark(g) = mark
  <2>1. ASSUME NEW k, k \in Keys PROVE k # NoKey
    BY <2>1, KeyIs
  <2> HIDE DEF g, key
  <2> QED BY <1>3, <1>4, <1>6, <2>1 DEF Mark
<1> HIDE DEF g, new, key, x
<1>8. Shown(new, g, raised)
  <2>1. Framing(new, first_byte(g), g.len, mark, key)
    BY <1>5, <1>6 DEF Whole
  <2> QED BY <1>3, <1>6, <1>7, <2>1 DEF Shown
<1>9. raised \in Raws
  BY <1>2 DEF Raws
<1>10. ASSUME raised = "none" PROVE Sealed(p, g.mask) /\ g.len = PartsLen(p)
  <2>1. r = "none" /\ m = PartsLen(p)
    BY <1>10
  <2> QED BY <1>1, <1>2, <1>6, <2>1 DEF key
<1> HIDE DEF raised
<1>11. Agrees(new, g, raised, p)
  BY <1>2, <1>6, <1>8, <1>9, <1>10 DEF Agrees
<1> QED BY <1>11 DEF new, g, raised, key

LEMMA UnmaskAgrees ==
    ASSUME NEW h, NEW f, NEW r, NEW p, Agrees(h, f, r, p), KeyFits(h)
    PROVE  Agrees(Unmasked(h, p).hdr, IF masked(h) THEN [f EXCEPT !.mask = NoKey] ELSE f,
                  r, Unmasked(h, p).parts)
<1> DEFINE x == first_byte(f)
           n == f.len
           g == IF masked(h) THEN [f EXCEPT !.mask = NoKey] ELSE f
           new == Unmasked(h, p).hdr
           bare == Unmasked(h, p).parts
<1>1. PICK mark \in Marks, rest \in Seq(Byte) :
          /\ Whole(h, x, n, mark, rest)
          /\ r # "bit" => rest = f.mask /\ mark = Mark(f) /\ masking_key(h) = f.mask
  BY AgreesReads
<1>2. /\ f \in Fields /\ r \in Raws /\ p \in Seq(Part)
      /\ r = "none" => Sealed(p, f.mask) /\ f.len = PartsLen(p)
  BY DEF Agrees
<1>3. Framing(new, x, n, "plain", Bare(mark, rest))
  <2> HIDE DEF x, n
  <2> QED BY <1>1, UnmaskedHeader
<1>4. /\ bare \in Seq(Part) /\ PartsLen(bare) = PartsLen(p)
      /\ Sealed(p, masking_key(h)) => Sealed(bare, NoKey)
  <2> HIDE DEF x, n
  <2> QED BY <1>1, <1>2, UnmaskedParts
<1>5. masked(h) <=> mark = "key"
  <2> HIDE DEF x, n
  <2> QED BY <1>1, FramingReads DEF Whole
<1>6. g \in Fields /\ first_byte(g) = x /\ g.len = n
  BY <1>2 DEF Fields, first_byte
<1>7. CASE r = "bit"
  <2>1. "plain" \in Marks /\ Bare(mark, rest) \in Seq(Byte)
    BY <1>3 DEF Framing, Keyed
  <2> HIDE DEF g, new, bare, x, n
  <2>2. Shown(new, g, r)
    BY <1>3, <1>6, <1>7, <2>1 DEF Shown
  <2> QED BY <1>2, <1>4, <1>6, <1>7, <2>2 DEF Agrees, g, new, bare
<1>8. CASE r # "bit"
  <2>1. /\ rest = f.mask /\ mark = Mark(f) /\ masking_key(h) = f.mask
    BY <1>1, <1>8
  <2>2. g.mask = NoKey
    BY <1>2, <1>5, <2>1 DEF Fields, Mark
  <2>3. Bare(mark, rest) = NoKey
    <3>1. CASE mark = "key"
      <4>1. Len(rest) = 4
        BY <1>2, <2>1, <3>1, MaskIs
      <4>2. 4 - 4 = 0 /\ SubSeq(rest, 1, 0) = <<>>
        BY SubSeqEmpty
      <4> QED BY <3>1, <4>1, <4>2 DEF Bare, NoKey
    <3>2. CASE mark # "key"
      BY <2>1, <3>2 DEF Bare, Mark
    <3> QED BY <3>1, <3>2
  <2>4. NoKey \in Seq(Byte) /\ "plain" \in Marks
    BY DEF NoKey, Marks
  <2> HIDE DEF g, new, bare, x, n
  <2>5. Mark(g) = "plain"
    BY <2>2 DEF Mark
  <2>6. Shown(new, g, r)
    BY <1>3, <1>6, <2>2, <2>3, <2>4, <2>5 DEF Shown
  <2>7. r = "none" => Sealed(bare, g.mask) /\ g.len = PartsLen(bare)
    BY <1>2, <1>4, <1>6, <2>1, <2>2 DEF n
  <2> QED BY <1>2, <1>4, <1>6, <2>6, <2>7 DEF Agrees, g, new, bare
<1> QED BY <1>7, <1>8

LEMMA MaskAgrees ==
    ASSUME NEW h, NEW f, NEW r, NEW p, Agrees(h, f, r, p), KeyFits(h), NEW key, key \in Keys
    PROVE  Agrees(Masked(h, p, key).hdr, [f EXCEPT !.mask = key], r, Masked(h, p, key).parts)
<1> DEFINE x == first_byte(f)
           n == f.len
           g == [f EXCEPT !.mask = key]
           new == Masked(h, p, key).hdr
           sealed == Masked(h, p, key).parts
<1>1. PICK mark \in Marks, rest \in Seq(Byte) :
          /\ Whole(h, x, n, mark, rest)
          /\ r # "bit" => rest = f.mask /\ mark = Mark(f) /\ masking_key(h) = f.mask
  BY AgreesReads
<1>2. /\ f \in Fields /\ r \in Raws /\ p \in Seq(Part)
      /\ r = "none" => Sealed(p, f.mask) /\ f.len = PartsLen(p)
  BY DEF Agrees
<1>3. Whole(new, x, n, "key", Bare(mark, rest) \o key)
  <2> HIDE DEF x, n
  <2> QED BY <1>1, MaskedHeader
<1>4. /\ sealed \in Seq(Part) /\ PartsLen(sealed) = PartsLen(p)
      /\ Sealed(p, masking_key(h)) => Sealed(sealed, key)
  <2> HIDE DEF x, n
  <2> QED BY <1>1, <1>2, MaskedParts
<1>5. g \in Fields /\ first_byte(g) = x /\ g.len = n /\ g.mask = key
  BY <1>2 DEF Fields, first_byte
<1>6. Mark(g) = "key"
  <2>1. key # NoKey
    BY KeyIs
  <2> HIDE DEF g
  <2> QED BY <1>5, <2>1 DEF Mark
<1>7. "key" \in Marks /\ Bare(mark, rest) \o key \in Seq(Byte)
  BY <1>3 DEF Whole, Framing, Keyed
<1>8. r # "bit" => Bare(mark, rest) \o key = key
  <2> SUFFICES ASSUME r # "bit" PROVE Bare(mark, rest) \o key = key
    OBVIOUS
  <2>1. rest = f.mask /\ mark = Mark(f)
    BY <1>1
  <2>2. Bare(mark, rest) = <<>>
    <3>1. CASE mark = "key"
      <4>1. Len(rest) = 4
        BY <1>2, <2>1, <3>1, MaskIs
      <4>2. 4 - 4 = 0 /\ SubSeq(rest, 1, 0) = <<>>
        BY SubSeqEmpty
      <4> QED BY <3>1, <4>1, <4>2 DEF Bare
    <3>2. CASE mark # "key"
      BY <2>1, <3>2 DEF Bare, Mark, NoKey
    <3> QED BY <3>1, <3>2
  <2>3. key \in Seq(Byte)
    BY KeyIs
  <2> QED BY <2>2, <2>3, ConcatEmptySeq
<1> HIDE DEF g, new, sealed, x, n
<1>9. Shown(new, g, r)
  <2>1. Framing(new, first_byte(g), g.len, "key", Bare(mark, rest) \o key)
    BY <1>3, <1>5 DEF Whole
  <2> QED BY <1>5, <1>6, <1>7, <1>8, <2>1 DEF Shown
<1>10. r = "none" => Sealed(sealed, g.mask) /\ g.len = PartsLen(sealed)
  BY <1>1, <1>2, <1>4, <1>5 DEF n
<1> QED BY <1>2, <1>4, <1>5, <1>9, <1>10 DEF Agrees, g, new, sealed

LEMMA ExtendAgrees ==
    ASSUME NEW h, NEW f, NEW r, NEW p, Agrees(h, f, r, p), KeyFits(h),
           NEW m, m \in Nat, PartsLen(p) + m \in Lengths
    PROVE  Agrees(Extended(h, p, m).hdr, [f EXCEPT !.len = PartsLen(p) + m], r,
                  Extended(h, p, m).parts)
<1> DEFINE x == first_byte(f)
           n == f.len
           total == PartsLen(p) + m
           g == [f EXCEPT !.len = total]
           new == Extended(h, p, m).hdr
           more == Extended(h, p, m).parts
           key == masking_key(h)
<1>1. PICK mark \in Marks, rest \in Seq(Byte) :
          /\ Whole(h, x, n, mark, rest)
          /\ r # "bit" => rest = f.mask /\ mark = Mark(f) /\ masking_key(h) = f.mask
  BY AgreesReads
<1>2. /\ f \in Fields /\ r \in Raws /\ p \in Seq(Part)
      /\ r = "none" => Sealed(p, f.mask) /\ f.len = PartsLen(p)
  BY DEF Agrees
<1>3. Whole(new, x, total, mark, key)
  <2> HIDE DEF x, n
  <2> QED BY <1>1, <1>2, ExtendedHeader
<1>4. /\ more \in Seq(Part) /\ PartsLen(more) = total
      /\ Sealed(p, key) => Sealed(more, key)
  <2> HIDE DEF x, n
  <2> QED BY <1>1, <1>2, ExtendedParts
<1>5. g \in Fields /\ first_byte(g) = x /\ g.len = total /\ g.mask = f.mask
  BY <1>2 DEF Fields, first_byte, Lengths
<1>6. Mark(g) = Mark(f)
  BY <1>5 DEF Mark
<1>7. key \in Seq(Byte)
  BY <1>3 DEF Whole, Framing, Keyed
<1> HIDE DEF g, new, more, x, n, total, key
<1>8. Shown(new, g, r)
  <2>1. Framing(new, first_byte(g), g.len, mark, key)
    BY <1>3, <1>5 DEF Whole
  <2> QED BY <1>1, <1>5, <1>6, <1>7, <2>1 DEF Shown, key
<1>9. r = "none" => Sealed(more, g.mask) /\ g.len = PartsLen(more)
  BY <1>1, <1>2, <1>4, <1>5 DEF key
<1> QED BY <1>2, <1>4, <1>5, <1>8, <1>9 DEF Agrees, g, new, more, total

-----------------------------------------------------------------------------
(* The inductive invariant: the header of a frame agrees with its history    *)
(* and its payload, what ctor_header returned is the image of what it was    *)
(* given, and nobody does both.                                              *)

Returned == slice # <<>> => IsImage(slice, first_byte(want), want.len, Mark(want), want.mask)

Invariant ==
    /\ TypeOK
    /\ hdr # <<>> => Agrees(hdr, want, raw, parts)
    /\ Returned
    /\ user = "writer" => hdr = <<>>
    /\ user = "frame" => slice = <<>>
    /\ PanicsOnlyAfterSetMask

LEMMA BufferIs ==
    ASSUME NEW b
    PROVE  b \in [1 .. 6 + LongBytes -> Byte] <=> b \in Seq(Byte) /\ Len(b) = 6 + LongBytes
<1> DEFINE n == 6 + LongBytes
<1>1. n \in Nat
  BY LongBytesAssumption
<1> HIDE DEF n
<1>2. ASSUME b \in [1 .. n -> Byte] PROVE b \in Seq(Byte) /\ Len(b) = n
  <2>1. b \in Seq(Byte)
    <3>1. b = [i \in 1 .. n |-> b[i]] /\ \A i \in 1 .. n : b[i] \in Byte
      BY <1>2
    <3> QED BY <1>1, <3>1
  <2>2. DOMAIN b = 1 .. n /\ DOMAIN b = 1 .. Len(b) /\ Len(b) \in Nat
    BY <1>2, <2>1, LenProperties
  <2> QED BY <1>1, <2>1, <2>2
<1>3. ASSUME b \in Seq(Byte), Len(b) = n PROVE b \in [1 .. n -> Byte]
  BY <1>3, LenProperties
<1> QED BY <1>2, <1>3 DEF n

LEMMA InitInvariant == Init => Invariant
<1> SUFFICES ASSUME Init PROVE Invariant
  OBVIOUS
<1>1. 6 + LongBytes \in Nat
  BY LongBytesAssumption
<1>2. Zeros(6 + LongBytes) \in [1 .. 6 + LongBytes -> Byte]
  BY DEF Zeros, Byte
<1>3. 0 \in Lengths /\ 1 \in OpCode
  <2>1. LongBytes \in Nat /\ Width \in Nat
    BY WeightIs, LongBytesAssumption DEF Width
  <2>2. Width > 0
    BY WeightIs, LongBytesAssumption DEF Width
  <2> QED BY <2>1, <2>2 DEF Lengths, OpCode
<1>4. want \in Fields
  BY <1>3 DEF Init, Fields, Lengths
<1>5. TypeOK
  <2>1. hdr \in Seq(Byte) /\ slice \in Seq(Byte)
    BY DEF Init
  <2>2. parts \in Seq(Part)
    BY DEF Init
  <2>3. /\ user \in {"frame", "writer"} /\ raw \in {"none", "bit", "payload"}
        /\ panicked \in BOOLEAN /\ ops \in 0 .. MaxOps
    <3>1. user \in {"frame", "writer"} /\ raw = "none" /\ panicked = FALSE /\ ops = 0
      BY Zenon DEF Init
    <3>2. ops \in 0 .. MaxOps
      BY <3>1, MaxOpsAssumption
    <3> QED BY Zenon, <3>1, <3>2
  <2>4. buf \in [1 .. 6 + LongBytes -> Byte]
    BY <1>2 DEF Init
  <2> QED BY <1>4, <2>1, <2>2, <2>3, <2>4 DEF TypeOK, Part
<1> QED BY <1>5 DEF Init, Invariant, Returned, PanicsOnlyAfterSetMask

(* What every operation on a frame leaves alone; the frame itself is next. *)
LEMMA FrameStep ==
    ASSUME Invariant, Step("frame"), UNCHANGED <<buf, slice>>, panicked' \in BOOLEAN,
           panicked' => raw' = "bit", hdr' \in Seq(Byte), Agrees(hdr', want', raw', parts')
    PROVE  Invariant'
<1>1. TypeOK /\ user = "frame" /\ slice = <<>> /\ user' = user /\ ops' = ops + 1 /\ ops < MaxOps
  BY DEF Invariant, Step
<1>2. want' \in Fields /\ raw' \in Raws /\ parts' \in Seq(Part)
  BY DEF Agrees
<1>3. ops' \in 0 .. MaxOps
  BY <1>1, MaxOpsAssumption DEF TypeOK
<1>4. TypeOK'
  BY <1>1, <1>2, <1>3 DEF TypeOK, Raws, Part
<1> QED BY <1>1, <1>4 DEF Invariant, Returned, PanicsOnlyAfterSetMask

(* The first step on a frame: a header of any fields and a payload that either
   is what the header says or is known to differ from it. *)
LEMMA FirstKeeps ==
    ASSUME Invariant, Step("frame"), UNCHANGED <<buf, slice, panicked>>,
           NEW code, code \in Codes, NEW mask, mask \in Keys \cup {NoKey}, NEW n, n \in Lens,
           NEW key, key \in Keys \cup {NoKey}, NEW size, size \in Lens,
           hdr' = NewHeader(Told(code, mask, n)), want' = Told(code, mask, n),
           parts' = <<[len |-> size, keys |-> KeysOf(key)]>>,
           raw' = IF key = mask /\ size = n THEN raw ELSE "payload"
    PROVE  Invariant'
<1> DEFINE part == [len |-> size, keys |-> KeysOf(key)]
<1>1. /\ want \in Fields /\ raw \in Raws /\ raw' \in Raws /\ panicked \in BOOLEAN /\ ~panicked
  BY DEF Invariant, TypeOK, Raws, Step
<1>2. code \in OpCode /\ n \in 0 .. Width - 1
  BY CodesAssumption, LensAssumption
<1>3. want' \in Fields /\ want'.len = n /\ want'.mask = mask
  BY <1>1, <1>2 DEF Fields, Told
<1>4. part \in Part /\ (raw' = "none" => part.len = want'.len /\ part.keys = KeysOf(want'.mask))
  <2>1. size \in Nat
    BY LensAssumption
  <2>2. KeysOf(key) \subseteq Keys
    BY DEF KeysOf
  <2> QED BY <1>3, <2>1, <2>2 DEF Part
<1> HIDE DEF part
<1>5. Agrees(NewHeader(want'), want', raw', <<part>>)
  BY <1>1, <1>3, <1>4, NewAgrees
<1>6. Agrees(hdr', want', raw', parts')
  BY <1>5 DEF part
<1>7. hdr' \in Seq(Byte)
  BY <1>6, ShownIs DEF Agrees
<1>8. UNCHANGED <<buf, slice>> /\ panicked' \in BOOLEAN /\ (panicked' => raw' = "bit")
  BY <1>1
<1> QED BY <1>6, <1>7, <1>8, FrameStep

LEMMA NewKeeps == Invariant /\ New => Invariant'
<1> SUFFICES ASSUME Invariant, New PROVE Invariant'
  OBVIOUS
<1>1. PICK code \in Codes, mask \in Keys \cup {NoKey}, n \in Lens :
          /\ Step("frame")
          /\ hdr' = NewHeader(Told(code, mask, n))
          /\ parts' = <<[len |-> n, keys |-> KeysOf(mask)]>>
          /\ want' = Told(code, mask, n)
          /\ UNCHANGED <<raw, buf, slice, panicked>>
  BY DEF New
<1> QED BY <1>1, FirstKeeps

LEMMA WithRawKeeps == Invariant /\ WithRaw => Invariant'
<1> SUFFICES ASSUME Invariant, WithRaw PROVE Invariant'
  OBVIOUS
<1>1. PICK code \in Codes, mask \in Keys \cup {NoKey}, key \in Keys \cup {NoKey},
           n \in Lens, size \in Lens :
          /\ Step("frame")
          /\ hdr' = NewHeader(Told(code, mask, n))
          /\ parts' = <<[len |-> size, keys |-> KeysOf(key)]>>
          /\ want' = Told(code, mask, n)
          /\ raw' = IF key = mask /\ size = n THEN raw ELSE "payload"
          /\ UNCHANGED <<buf, slice, panicked>>
  BY DEF WithRaw
<1> QED BY <1>1, FirstKeeps

(* The operations on a frame that exists. *)
LEMMA EditIs ==
    ASSUME Invariant, Edit
    PROVE  /\ Agrees(hdr, want, raw, parts) /\ hdr \in Seq(Byte)
           /\ Step("frame") /\ UNCHANGED <<buf, slice>> /\ panicked = FALSE
<1>1. hdr \in Seq(Byte) /\ panicked \in BOOLEAN
  BY DEF Invariant, TypeOK
<1> QED BY <1>1 DEF Invariant, Edit, Step

LEMMA EditKeeps ==
    ASSUME Invariant, Edit, Keep, Agrees(hdr', want', raw', parts')
    PROVE  Invariant'
<1>1. Step("frame") /\ UNCHANGED <<buf, slice>> /\ panicked = FALSE
  BY EditIs
<1>2. hdr' \in Seq(Byte)
  BY ShownIs DEF Agrees
<1>3. panicked' \in BOOLEAN /\ (panicked' => raw' = "bit")
  BY <1>1 DEF Keep
<1> QED BY <1>1, <1>2, <1>3, FrameStep

\* The panic of masking_key.
LEMMA PanicKeeps ==
    ASSUME Invariant, Edit, ~KeyFits(hdr), panicked' = TRUE, UNCHANGED <<hdr, parts, want, raw>>
    PROVE  Invariant'
<1>1. /\ Agrees(hdr, want, raw, parts) /\ hdr \in Seq(Byte)
      /\ Step("frame") /\ UNCHANGED <<buf, slice>>
  BY EditIs
<1>2. raw = "bit"
  BY <1>1, AgreesReads
<1>3. Agrees(hdr', want', raw', parts') /\ hdr' \in Seq(Byte)
  BY <1>1
<1>4. panicked' \in BOOLEAN /\ (panicked' => raw' = "bit")
  BY <1>2
<1> QED BY <1>1, <1>3, <1>4, FrameStep

LEMMA SetFlagKeeps == Invariant /\ SetFlag => Invariant'
<1> SUFFICES ASSUME Invariant, SetFlag PROVE Invariant'
  OBVIOUS
<1>1. PICK i \in 1 .. 4, val \in BOOLEAN :
          /\ Edit /\ Keep
          /\ hdr' = At(hdr, 1, <<set_bit(hdr[1], <<128, 64, 32, 16>>[i], val)>>)
          /\ want' = WithFlag(want, i, val)
          /\ UNCHANGED <<parts, raw>>
  BY DEF SetFlag, WithFlag
<1>2. Agrees(hdr, want, raw, parts)
  BY <1>1, EditIs
<1>3. Agrees(At(hdr, 1, <<set_bit(hdr[1], <<128, 64, 32, 16>>[i], val)>>), WithFlag(want, i, val), raw, parts)
  BY <1>2, FlagAgrees
<1>4. Agrees(hdr', want', raw', parts')
  BY <1>1, <1>3
<1> QED BY <1>1, <1>4, EditKeeps

LEMMA ChangeOpcodeKeeps == Invariant /\ ChangeOpcode => Invariant'
<1> SUFFICES ASSUME Invariant, ChangeOpcode PROVE Invariant'
  OBVIOUS
<1>1. PICK code \in Codes :
          /\ Edit /\ Keep
          /\ hdr' = SetOpcode(hdr, code)
          /\ want' = [want EXCEPT !.opcode = code]
          /\ UNCHANGED <<parts, raw>>
  BY DEF ChangeOpcode
<1>2. Agrees(hdr, want, raw, parts) /\ code \in OpCode
  BY <1>1, EditIs, CodesAssumption
<1>3. Agrees(SetOpcode(hdr, code), [want EXCEPT !.opcode = code], raw, parts)
  BY <1>2, OpcodeAgrees
<1>4. Agrees(hdr', want', raw', parts')
  BY <1>1, <1>3
<1> QED BY <1>1, <1>4, EditKeeps

LEMMA SetMaskKeeps == Invariant /\ SetMask => Invariant'
<1> SUFFICES ASSUME Invariant, SetMask PROVE Invariant'
  OBVIOUS
<1>1. PICK val \in BOOLEAN :
          /\ Edit /\ Keep
          /\ hdr' = SetMaskBit(hdr, val)
          /\ raw' = "bit"
          /\ UNCHANGED <<parts, want>>
  BY DEF SetMask
<1>2. Agrees(hdr, want, raw, parts)
  BY <1>1, EditIs
<1>3. Agrees(SetMaskBit(hdr, val), want, "bit", parts)
  BY <1>2, MaskBitAgrees
<1>4. Agrees(hdr', want', raw', parts')
  BY <1>1, <1>3
<1> QED BY <1>1, <1>4, EditKeeps

LEMMA ChangePayloadLenKeeps == Invariant /\ ChangePayloadLen => Invariant'
<1> SUFFICES ASSUME Invariant, ChangePayloadLen PROVE Invariant'
  OBVIOUS
<1>1. PICK n \in Lens :
          /\ Edit
          /\ Guarded(hdr, /\ hdr' = SetPayloadLen(hdr, n)
                          /\ want' = [want EXCEPT !.len = n, !.mask = masking_key(hdr)]
                          /\ raw' = IF raw = "none" /\ n = PartsLen(parts) THEN raw ELSE "payload"
                          /\ UNCHANGED parts)
  BY DEF ChangePayloadLen
<1>2. CASE ~KeyFits(hdr)
  <2>1. panicked' = TRUE /\ UNCHANGED <<hdr, parts, want, raw>>
    BY <1>1, <1>2 DEF Guarded
  <2> QED BY <1>1, <1>2, <2>1, PanicKeeps
<1>3. CASE KeyFits(hdr)
  <2>1. Keep /\ hdr' = SetPayloadLen(hdr, n)
        /\ want' = [want EXCEPT !.len = n, !.mask = masking_key(hdr)]
        /\ raw' = (IF raw = "none" /\ n = PartsLen(parts) THEN raw ELSE "payload")
        /\ parts' = parts
    BY <1>1, <1>3 DEF Guarded
  <2>2. Agrees(hdr, want, raw, parts) /\ n \in Lengths
    BY <1>1, EditIs, LensAssumption DEF Lengths
  <2>3. Agrees(SetPayloadLen(hdr, n), [want EXCEPT !.len = n, !.mask = masking_key(hdr)],
               IF raw = "none" /\ n = PartsLen(parts) THEN raw ELSE "payload", parts)
    BY <1>3, <2>2, LenAgrees
  <2>4. Agrees(hdr', want', raw', parts')
    BY <2>1, <2>3
  <2> QED BY <1>1, <2>1, <2>4, EditKeeps
<1> QED BY <1>2, <1>3

LEMMA UnmaskKeeps == Invariant /\ Unmask => Invariant'
<1> SUFFICES ASSUME Invariant, Unmask PROVE Invariant'
  OBVIOUS
<1>1. Edit
  BY DEF Unmask
<1>2. CASE ~KeyFits(hdr)
  <2>1. panicked' = TRUE /\ UNCHANGED <<hdr, parts, want, raw>>
    BY <1>2 DEF Guarded, Unmask
  <2> QED BY <1>1, <1>2, <2>1, PanicKeeps
<1>3. CASE KeyFits(hdr)
  <2>1. Keep /\ hdr' = Unmasked(hdr, parts).hdr /\ parts' = Unmasked(hdr, parts).parts
        /\ want' = (IF masked(hdr) THEN [want EXCEPT !.mask = NoKey] ELSE want) /\ raw' = raw
    BY <1>3 DEF Guarded, Unmask
  <2>2. Agrees(hdr, want, raw, parts)
    BY <1>1, EditIs
  <2>3. Agrees(Unmasked(hdr, parts).hdr, IF masked(hdr) THEN [want EXCEPT !.mask = NoKey] ELSE want,
               raw, Unmasked(hdr, parts).parts)
    BY <1>3, <2>2, UnmaskAgrees
  <2>4. Agrees(hdr', want', raw', parts')
    BY <2>1, <2>3
  <2> QED BY <1>1, <2>1, <2>4, EditKeeps
<1> QED BY <1>2, <1>3

LEMMA MaskKeeps == Invariant /\ Mask => Invariant'
<1> SUFFICES ASSUME Invariant, Mask PROVE Invariant'
  OBVIOUS
<1>1. PICK key \in Keys :
          /\ Edit
          /\ Guarded(hdr, /\ hdr' = Masked(hdr, parts, key).hdr
                          /\ parts' = Masked(hdr, parts, key).parts
                          /\ want' = [want EXCEPT !.mask = key]
                          /\ UNCHANGED raw)
  BY DEF Mask
<1>2. CASE ~KeyFits(hdr)
  <2>1. panicked' = TRUE /\ UNCHANGED <<hdr, parts, want, raw>>
    BY <1>1, <1>2 DEF Guarded
  <2> QED BY <1>1, <1>2, <2>1, PanicKeeps
<1>3. CASE KeyFits(hdr)
  <2>1. Keep /\ hdr' = Masked(hdr, parts, key).hdr /\ parts' = Masked(hdr, parts, key).parts
        /\ want' = [want EXCEPT !.mask = key] /\ raw' = raw
    BY <1>1, <1>3 DEF Guarded
  <2>2. Agrees(hdr, want, raw, parts)
    BY <1>1, EditIs
  <2>3. Agrees(Masked(hdr, parts, key).hdr, [want EXCEPT !.mask = key], raw,
               Masked(hdr, parts, key).parts)
    BY <1>3, <2>2, MaskAgrees
  <2>4. Agrees(hdr', want', raw', parts')
    BY <2>1, <2>3
  <2> QED BY <1>1, <2>1, <2>4, EditKeeps
<1> QED BY <1>2, <1>3

LEMMA ExtendKeeps == Invariant /\ Extend => Invariant'
<1> SUFFICES ASSUME Invariant, Extend PROVE Invariant'
  OBVIOUS
<1>1. PICK n \in Lens :
          /\ Edit
          /\ PartsLen(parts) + n < Width
          /\ Guarded(hdr, /\ hdr' = Extended(hdr, parts, n).hdr
                          /\ parts' = Extended(hdr, parts, n).parts
                          /\ want' = [want EXCEPT !.len = PartsLen(parts) + n]
                          /\ UNCHANGED raw)
  BY DEF Extend
<1>2. CASE ~KeyFits(hdr)
  <2>1. panicked' = TRUE /\ UNCHANGED <<hdr, parts, want, raw>>
    BY <1>1, <1>2 DEF Guarded
  <2> QED BY <1>1, <1>2, <2>1, PanicKeeps
<1>3. CASE KeyFits(hdr)
  <2>1. Keep /\ hdr' = Extended(hdr, parts, n).hdr /\ parts' = Extended(hdr, parts, n).parts
        /\ want' = [want EXCEPT !.len = PartsLen(parts) + n] /\ raw' = raw
    BY <1>1, <1>3 DEF Guarded
  <2>2. Agrees(hdr, want, raw, parts) /\ n \in Lengths
    BY <1>1, EditIs, LensAssumption DEF Lengths
  <2>3. n \in Nat /\ PartsLen(parts) \in Nat
    <3>1. n \in Nat
      BY <2>2, LengthsAreNumbers
    <3>2. [len |-> 0, keys |-> {}] \in Part
      BY DEF Part
    <3>3. parts \in Seq(Part)
      BY <2>2 DEF Agrees
    <3>4. PartsLen(parts) \in Nat
      BY <3>2, <3>3, PartsLenAppend
    <3> QED BY <3>1, <3>4
  <2>4. PartsLen(parts) + n \in Lengths
    <3>1. Width \in Nat
      BY WeightIs, LongBytesAssumption DEF Width
    <3> QED BY <1>1, <2>3, <3>1 DEF Lengths
  <2>5. Agrees(Extended(hdr, parts, n).hdr, [want EXCEPT !.len = PartsLen(parts) + n], raw,
               Extended(hdr, parts, n).parts)
    BY <1>3, <2>2, <2>3, <2>4, ExtendAgrees
  <2>6. Agrees(hdr', want', raw', parts')
    BY <2>1, <2>5
  <2> QED BY <1>1, <2>1, <2>6, EditKeeps
<1> QED BY <1>2, <1>3

LEMMA CtorHeaderKeeps == Invariant /\ CtorHeader => Invariant'
<1> SUFFICES ASSUME Invariant, CtorHeader PROVE Invariant'
  OBVIOUS
<1>1. PICK code \in Codes, fin \in BOOLEAN, rsv1 \in BOOLEAN, mask \in Keys \cup {NoKey}, n \in Lens :
          LET f == [want EXCEPT !.opcode = code, !.fin = fin, !.rsv1 = rsv1, !.mask = mask, !.len = n]
          IN /\ Step("writer")
             /\ want' = f
             /\ buf' = Ctor(buf, f)
             /\ slice' = SubSeq(Ctor(buf, f), 1, header_len(mask # NoKey, n))
             /\ UNCHANGED <<hdr, parts, raw, panicked>>
  BY DEF CtorHeader
<1> DEFINE f == want'
<1>2. /\ TypeOK /\ user = "writer" /\ user' = user /\ ops' = ops + 1 /\ ops < MaxOps
      /\ hdr = <<>> /\ PanicsOnlyAfterSetMask
  BY <1>1 DEF Invariant, Step
<1>3. code \in OpCode /\ n \in 0 .. Width - 1
  BY CodesAssumption, LensAssumption
<1>4. f \in Fields /\ f.mask = mask /\ f.len = n
  BY <1>1, <1>2, <1>3 DEF TypeOK, Fields
<1>5. buf \in Seq(Byte) /\ Len(buf) = 6 + LongBytes
  BY <1>2, BufferIs DEF TypeOK
<1>6. /\ buf' = Ctor(buf, f) /\ slice' = SubSeq(Ctor(buf, f), 1, header_len(f.mask # NoKey, f.len))
      /\ UNCHANGED <<hdr, parts, raw, panicked>>
  BY <1>1, <1>4
<1> HIDE DEF f
<1>7. /\ Ctor(buf, f) \in Seq(Byte) /\ Len(Ctor(buf, f)) = 6 + LongBytes
      /\ IsImage(SubSeq(Ctor(buf, f), 1, header_len(f.mask # NoKey, f.len)),
                 first_byte(f), f.len, Mark(f), f.mask)
  BY <1>4, <1>5, CtorIsImage
<1>8. buf' \in [1 .. 6 + LongBytes -> Byte]
  BY <1>6, <1>7, BufferIs
<1>9. IsImage(slice', first_byte(f), f.len, Mark(f), f.mask)
  BY <1>6, <1>7
<1>10. slice' \in Seq(Byte)
  BY <1>9 DEF IsImage
<1>11. ops' \in 0 .. MaxOps
  BY <1>2, MaxOpsAssumption DEF TypeOK
<1>12. TypeOK'
  BY <1>2, <1>4, <1>6, <1>8, <1>10, <1>11 DEF TypeOK, f
<1>13. Returned'
  BY <1>9 DEF Returned, f
<1> QED BY <1>2, <1>6, <1>12, <1>13 DEF Invariant, PanicsOnlyAfterSetMask

LEMMA InvariantInductive == Invariant /\ [Next]_vars => Invariant'
<1> SUFFICES ASSUME Invariant, [Next]_vars PROVE Invariant'
  OBVIOUS
<1>1. CASE New
  BY <1>1, NewKeeps
<1>2. CASE SetFlag
  BY <1>2, SetFlagKeeps
<1>3. CASE ChangeOpcode
  BY <1>3, ChangeOpcodeKeeps
<1>4. CASE SetMask
  BY <1>4, SetMaskKeeps
<1>5. CASE ChangePayloadLen
  BY <1>5, ChangePayloadLenKeeps
<1>6. CASE Unmask
  BY <1>6, UnmaskKeeps
<1>7. CASE Mask
  BY <1>7, MaskKeeps
<1>8. CASE Extend
  BY <1>8, ExtendKeeps
<1>9. CASE CtorHeader
  BY <1>9, CtorHeaderKeeps
<1>10. CASE UNCHANGED vars
  BY <1>10 DEF vars, Invariant, TypeOK, Returned, PanicsOnlyAfterSetMask
<1>11. CASE WithRaw
  BY <1>11, WithRawKeeps
<1> QED BY <1>1, <1>2, <1>3, <1>4, <1>5, <1>6, <1>7, <1>8, <1>9, <1>10, <1>11 DEF Next

-----------------------------------------------------------------------------
(* Theorems. *)

(* Every byte of the header, of the writer's buffer and of what ctor_header
   returns is a byte, the fields stay in range, and so do the parts of the
   payload. *)
THEOREM HeaderTypes == Spec => []TypeOK
<1>1. Invariant => TypeOK
  BY DEF Invariant
<1> QED BY <1>1, InitInvariant, InvariantInductive, PTL DEF Spec

(* For every width of the long form and every number of operations: unless
   set_mask was called alone, the header says what it was told and has no byte
   more. *)
THEOREM HeaderFaithfulAlways == Spec => []HeaderFaithful
<1>1. Invariant => HeaderFaithful
  <2> SUFFICES ASSUME Invariant, hdr # <<>>, raw # "bit"
               PROVE  View(hdr) = want /\ Len(hdr) = header_len(want.mask # NoKey, want.len)
    BY DEF HeaderFaithful
  <2>1. want \in Fields
    BY DEF Invariant, TypeOK
  <2>2. IsImage(hdr, first_byte(want), want.len, Mark(want), want.mask)
    BY DEF Invariant, Agrees, Shown, Framing
  <2> QED BY <2>1, <2>2, ImageView
<1> QED BY <1>1, InitInvariant, InvariantInductive, PTL DEF Spec

(* However often a payload is masked, unmasked and extended, it is XORed with
   the key its header shows and nothing else, and the header counts all of it,
   unless set_mask, a set_payload_len with another length or a with_raw that does
   not match has told header and payload different things. *)
THEOREM PayloadMatchesAlways == Spec => []PayloadMatches
<1>1. Invariant => PayloadMatches
  BY DEF Invariant, Agrees, Sealed, PayloadMatches, KeysOf
<1> QED BY <1>1, InitInvariant, InvariantInductive, PTL DEF Spec

(* masking_key reads past the end of a header only after set_mask alone. *)
THEOREM PanicsOnlyAfterSetMaskAlways == Spec => []PanicsOnlyAfterSetMask
<1>1. Invariant => PanicsOnlyAfterSetMask
  BY DEF Invariant
<1> QED BY <1>1, InitInvariant, InvariantInductive, PTL DEF Spec

(* Whatever the writer's buffer held, ctor_header returns the bytes Header::new
   makes of the same fields. *)
THEOREM CtorIsNewAlways == Spec => []CtorIsNew
<1>1. Invariant => CtorIsNew
  <2> SUFFICES ASSUME Invariant, slice # <<>> PROVE slice = NewHeader(want)
    BY DEF CtorIsNew
  <2>1. want \in Fields /\ IsImage(slice, first_byte(want), want.len, Mark(want), want.mask)
    BY DEF Invariant, TypeOK, Returned
  <2>2. IsImage(NewHeader(want), first_byte(want), want.len, Mark(want), want.mask)
    BY <2>1, NewIsImage
  <2>3. want.len \in Nat /\ want.mask \in Seq(Byte)
    BY <2>1, FieldsAre, MaskIs
  <2> QED BY <2>1, <2>2, <2>3, ImageUnique
<1> QED BY <1>1, InitInvariant, InvariantInductive, PTL DEF Spec

LEMMA WholeNumber ==
    ASSUME NEW k, k \in Nat, NEW w, w \in Nat, w > 0
    PROVE  k % w = k \/ k >= w
<1>1. CASE k < w
  <2>1. k = w * 0 + k /\ 0 <= k /\ k < w
    BY <1>1
  <2> QED BY <1>1, <2>1, SMT
<1>2. CASE k >= w
  BY <1>2
<1> QED BY <1>1, <1>2

(* parse_frame_header takes back out of the bytes what ctor_header put there,
   and finds the end of the frame unless a usize cannot hold it. *)
THEOREM ParsesBackAlways == Spec => []ParsesBack
<1>1. Invariant => ParsesBack
  <2> SUFFICES ASSUME Invariant, slice # <<>>
               PROVE  LET parsed == parse_frame_header(slice)
                      IN /\ View(slice) = want
                         /\ parsed.header = Len(slice)
                         /\ parsed.payload = want.len
                         /\ parsed.total = Len(slice) + want.len \/ Len(slice) + want.len >= Width
    BY DEF ParsesBack
  <2>1. want \in Fields /\ IsImage(slice, first_byte(want), want.len, Mark(want), want.mask)
    BY DEF Invariant, TypeOK, Returned
  <2>2. /\ want.len \in Lengths /\ want.len \in Nat /\ want.mask \in Seq(Byte)
        /\ Mark(want) \in Marks /\ (Mark(want) = "key" <=> want.mask # NoKey)
    BY <2>1, FieldsAre, MaskIs
  <2>3. View(slice) = want /\ Len(slice) = header_len(want.mask # NoKey, want.len)
    BY <2>1, ImageView
  <2>4. /\ masked(slice) <=> Mark(want) = "key"
        /\ TailBytes(slice) = Len(LenTail(want.len))
        /\ payload_len(slice) = want.len /\ Len(slice) \in Nat
    BY <2>1, <2>2, ImageReads
  <2> DEFINE hl == 2 + TailBytes(slice) + IF masked(slice) THEN 4 ELSE 0
             total == Len(slice) + want.len
  <2>5. hl = Len(slice)
    BY <2>2, <2>3, <2>4 DEF header_len
  <2>6. Width \in Nat /\ Width > 0
    <3>1. LongBytes \in Nat
      BY LongBytesAssumption
    <3>2. Width \in Nat \ {0}
      BY <3>1, WeightIs DEF Width
    <3> QED BY <3>2
  <2>7. total \in Nat
    BY <2>2, <2>4
  <2>8. parse_frame_header(slice) = [header |-> hl, payload |-> payload_len(slice),
                                     total |-> (hl + payload_len(slice)) % Width]
    BY DEF parse_frame_header
  <2>9. parse_frame_header(slice).total = total % Width
    BY <2>4, <2>5, <2>8
  <2> HIDE DEF total
  <2>10. total % Width = total \/ total >= Width
    BY ONLY <2>6, <2>7, WholeNumber
  <2> QED BY <2>3, <2>4, <2>5, <2>8, <2>9, <2>10 DEF total
<1> QED BY <1>1, InitInvariant, InvariantInductive, PTL DEF Spec

=============================================================================
