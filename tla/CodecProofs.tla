----------------------------- MODULE CodecProofs -----------------------------
(***************************************************************************)
(* What the parsers and the encoder of module Codec compute, for bytes of  *)
(* every value and sequences of every length.                              *)
(***************************************************************************)
EXTENDS Codec, Facts

-----------------------------------------------------------------------------
(* Big-endian numbers.                                                        *)

ByteValues(f, bytes) ==
  f = [i \in 0..Len(bytes) |-> IF i = 0 THEN 0 ELSE 256 * f[i - 1] + bytes[i]]

LEMMA BigEndianForm ==
  ASSUME NEW bytes
  PROVE  BigEndian(bytes) = (CHOOSE f : ByteValues(f, bytes))[Len(bytes)]
BY DEF BigEndian, ByteValues

LEMMA ByteValuesExist ==
  ASSUME NEW bytes \in Seq(Nat)
  PROVE  \E f : ByteValues(f, bytes)
<1>. DEFINE n == Len(bytes)
            H == [i \in Nat |-> [v \in Nat |->
                    IF i < n THEN 256 * v + bytes[i + 1] ELSE v]]
<1>1. n \in Nat /\ \A i \in 1..n : bytes[i] \in Nat
  OBVIOUS
<1>2. H \in [Nat -> [Nat -> Nat]] /\ 0 \in Nat
  <2>1. ASSUME NEW i \in Nat, NEW v \in Nat, i < n PROVE 256 * v + bytes[i + 1] \in Nat
    <3>1. bytes[i + 1] \in Nat
      BY <1>1, <2>1
    <3>. QED BY <3>1
  <2>. HIDE DEF n
  <2>. QED BY <2>1
<1>3. PICK g \in [0..n -> Nat] : Iterates(g, 0, H, n)
  <2>. HIDE DEF H
  <2>. QED BY <1>1, <1>2, IterationExists
<1>4. ASSUME NEW i \in 1..n PROVE g[i] = 256 * g[i - 1] + bytes[i]
  <2>1. i - 1 \in 0..(n - 1) /\ (i - 1) + 1 = i /\ i - 1 < n /\ i - 1 \in Nat
    BY <1>1
  <2>2. g[i] = H[i - 1][g[i - 1]] /\ g[i - 1] \in Nat
    <3>. HIDE DEF H, n
    <3>1. \A j \in 0..(n - 1) : g[j + 1] = H[j][g[j]]
      BY <1>3 DEF Iterates
    <3>2. i - 1 \in 0..n
      BY <1>1, <2>1
    <3>. QED BY <1>3, <2>1, <3>1, <3>2
  <2>. QED BY <2>1, <2>2
<1>5. g[0] = 0
  BY <1>3 DEF Iterates
<1>. HIDE DEF n
<1>6. g = [i \in 0..n |-> IF i = 0 THEN 0 ELSE 256 * g[i - 1] + bytes[i]]
  BY <1>1, <1>3, <1>4, <1>5
<1>. QED BY <1>6 DEF ByteValues, n

LEMMA BigEndianValues ==
  ASSUME NEW bytes \in Seq(Nat)
  PROVE  \E f : /\ f[0] = 0
                /\ \A i \in 1..Len(bytes) : f[i] = 256 * f[i - 1] + bytes[i]
                /\ BigEndian(bytes) = f[Len(bytes)]
<1>. DEFINE f == CHOOSE f : ByteValues(f, bytes)
<1>1. ByteValues(f, bytes)
  BY ByteValuesExist
<1>2. BigEndian(bytes) = f[Len(bytes)]
  BY BigEndianForm
<1>. HIDE DEF f
<1>3. f[0] = 0 /\ \A i \in 1..Len(bytes) : f[i] = 256 * f[i - 1] + bytes[i]
  BY ONLY <1>1 DEF ByteValues
<1>. QED BY ONLY <1>2, <1>3

\* The number has no sign.
LEMMA BigEndianType ==
  ASSUME NEW bytes \in Seq(Nat)
  PROVE  BigEndian(bytes) \in Nat
<1>1. PICK f : /\ f[0] = 0
               /\ \A i \in 1..Len(bytes) : f[i] = 256 * f[i - 1] + bytes[i]
               /\ BigEndian(bytes) = f[Len(bytes)]
  BY BigEndianValues
<1>. DEFINE T == {i \in Nat : i \in 0..Len(bytes) => f[i] \in Nat}
<1>2. 0 \in T
  BY <1>1
<1>3. ASSUME NEW i \in Nat, i \in T, i + 1 \in 0..Len(bytes) PROVE f[i + 1] \in Nat
  <2>1. i + 1 \in 1..Len(bytes) /\ i \in 0..Len(bytes) /\ (i + 1) - 1 = i
    BY <1>3
  <2>2. bytes[i + 1] \in Nat /\ f[i] \in Nat
    BY <1>3, <2>1
  <2>3. f[i + 1] = 256 * f[(i + 1) - 1] + bytes[i + 1]
    BY ONLY <1>1, <2>1
  <2>. QED BY ONLY <2>1, <2>2, <2>3
<1>4. \A i \in Nat : i \in T => i + 1 \in T
  BY <1>3
<1>. HIDE DEF T
<1>5. Nat \subseteq T
  BY <1>2, <1>4, NatInduct
<1>6. \A i \in 0..Len(bytes) : f[i] \in Nat
  BY <1>5 DEF T
<1>. QED BY <1>1, <1>6

\* A number of one byte, and of two.
LEMMA BigEndianOne ==
  ASSUME NEW s \in Seq(Nat), Len(s) = 1
  PROVE  BigEndian(s) = s[1]
<1>1. PICK f : /\ f[0] = 0
               /\ \A i \in 1..Len(s) : f[i] = 256 * f[i - 1] + s[i]
               /\ BigEndian(s) = f[Len(s)]
  BY BigEndianValues
<1>2. f[1] = 256 * f[1 - 1] + s[1]
  BY <1>1
<1>3. s[1] \in Nat
  <2>1. 1 \in 1..Len(s)
    OBVIOUS
  <2>. QED BY ONLY s \in Seq(Nat), <2>1, ElementOfSeq
<1>. QED BY <1>1, <1>2, <1>3

LEMMA BigEndianTwo ==
  ASSUME NEW s \in Seq(Nat), Len(s) = 2
  PROVE  BigEndian(s) = 256 * s[1] + s[2]
<1>1. PICK f : /\ f[0] = 0
               /\ \A i \in 1..Len(s) : f[i] = 256 * f[i - 1] + s[i]
               /\ BigEndian(s) = f[Len(s)]
  BY BigEndianValues
<1>2. f[1] = 256 * f[1 - 1] + s[1] /\ f[2] = 256 * f[2 - 1] + s[2]
  BY <1>1
<1>3. s[1] \in Nat /\ s[2] \in Nat
  OBVIOUS
<1>4. f[1] = s[1] /\ f[2] = 256 * s[1] + s[2]
  BY <1>1, <1>2, <1>3
<1>. QED BY <1>1, <1>4

LEMMA MaximaAreNat == U8_MAX \in Nat /\ U16_MAX \in Nat
BY DEF U8_MAX, U16_MAX

\* The high byte of a u16 is a byte.
LEMMA HighByte ==
  ASSUME NEW n \in Nat, n <= U16_MAX, NEW q \in Nat, NEW r \in Nat, n = 256 * q + r
  PROVE  q <= 255
BY DEF U16_MAX

\* Both bytes of a u16 are bytes, and it is read back as it was written.
LEMMA U16Bytes ==
  ASSUME NEW n \in 0..U16_MAX
  PROVE  /\ U16(n) \in Seq(Byte) /\ Len(U16(n)) = 2
         /\ U16(n)[1] \in Nat /\ U16(n)[2] \in Nat
         /\ 256 * U16(n)[1] + U16(n)[2] = n
         /\ BigEndian(U16(n)) = n
<1>1. n \div 256 \in 0..255 /\ n % 256 \in 0..255 /\ n = 256 * (n \div 256) + (n % 256)
  <2>1. n \in Nat /\ n <= U16_MAX /\ 256 \in Nat \ {0}
    BY MaximaAreNat
  <2>2. /\ n \div 256 \in Nat /\ n % 256 \in 0..(256 - 1)
        /\ n = 256 * (n \div 256) + (n % 256)
    BY ONLY <2>1, DivMod
  <2>. DEFINE q == n \div 256
              r == n % 256
  <2>. HIDE DEF q, r
  <2>3. q \in Nat /\ r \in 0..255 /\ n = 256 * q + r
    BY <2>2 DEF q, r
  <2>4. q <= 255
    BY <2>1, <2>3, HighByte
  <2>. QED BY <2>2, <2>3, <2>4 DEF q, r
<1>2. /\ U16(n) \in Seq(Byte) /\ Len(U16(n)) = 2
      /\ U16(n)[1] = n \div 256 /\ U16(n)[2] = n % 256
  BY <1>1 DEF U16, Byte
<1>3. U16(n) \in Seq(Nat)
  BY <1>1 DEF U16
<1>4. BigEndian(U16(n)) = 256 * U16(n)[1] + U16(n)[2]
  BY <1>2, <1>3, BigEndianTwo
<1>. QED BY <1>1, <1>2, <1>4

-----------------------------------------------------------------------------
(* Sequences of bytes, put together and cut.                                  *)

LEMMA ByteIsNat == Byte \subseteq Nat /\ Seq(Byte) \subseteq Seq(Nat)
<1>1. Byte \subseteq Nat
  BY DEF Byte
<1>. QED BY <1>1, SeqMonotonic

LEMMA SmallIsByte == \A n \in Nat : n <= U8_MAX => n \in Byte
BY DEF Byte, U8_MAX

\* The elements of a concatenation.
LEMMA Joined ==
  ASSUME NEW s \in Seq(Byte), NEW t \in Seq(Byte)
  PROVE  /\ s \o t \in Seq(Byte)
         /\ Len(s \o t) = Len(s) + Len(t)
         /\ \A i \in 1..Len(s) : (s \o t)[i] = s[i]
         /\ \A i \in 1..Len(t) : (s \o t)[Len(s) + i] = t[i]
<1>1. Len(s) \in Nat /\ Len(t) \in Nat
  OBVIOUS
<1>2. /\ s \o t \in Seq(Byte)
      /\ Len(s \o t) = Len(s) + Len(t)
      /\ \A i \in 1..(Len(s) + Len(t)) :
           (s \o t)[i] = IF i <= Len(s) THEN s[i] ELSE t[i - Len(s)]
  BY ConcatProperties
<1>3. ASSUME NEW i \in 1..Len(s) PROVE (s \o t)[i] = s[i]
  <2>1. i \in 1..(Len(s) + Len(t)) /\ i <= Len(s)
    BY <1>1
  <2>. QED BY <1>2, <2>1
<1>4. ASSUME NEW i \in 1..Len(t) PROVE (s \o t)[Len(s) + i] = t[i]
  <2>1. /\ Len(s) + i \in 1..(Len(s) + Len(t)) /\ ~(Len(s) + i <= Len(s))
        /\ (Len(s) + i) - Len(s) = i
    BY <1>1
  <2>. QED BY <1>2, <2>1
<1>. QED BY <1>2, <1>3, <1>4

\* A u16 put behind a sequence.
EndsWithNumber(w, s, n) ==
  /\ w \in Seq(Byte) /\ Len(w) = Len(s) + 2
  /\ \A i \in 1..Len(s) : w[i] = s[i]
  /\ 256 * w[Len(s) + 1] + w[Len(s) + 2] = n

LEMMA NumberBehind ==
  ASSUME NEW s \in Seq(Byte), NEW n \in 0..U16_MAX
  PROVE  EndsWithNumber(s \o U16(n), s, n)
<1>. DEFINE u == U16(n)
            w == s \o u
<1>1. u \in Seq(Byte) /\ Len(u) = 2 /\ 256 * u[1] + u[2] = n
  BY U16Bytes
<1>. HIDE DEF u
<1>2. /\ w \in Seq(Byte) /\ Len(w) = Len(s) + Len(u)
      /\ \A i \in 1..Len(s) : w[i] = s[i]
      /\ \A i \in 1..Len(u) : w[Len(s) + i] = u[i]
  BY <1>1, Joined
<1>. HIDE DEF w
<1>3. w[Len(s) + 1] = u[1] /\ w[Len(s) + 2] = u[2]
  BY <1>1, <1>2
<1>4. 256 * w[Len(s) + 1] + w[Len(s) + 2] = n
  BY <1>1, <1>3
<1>5. EndsWithNumber(w, s, n)
  BY <1>1, <1>2, <1>4 DEF EndsWithNumber
<1>. QED BY <1>5 DEF w, u

\* The elements of a part of a sequence.
LEMMA Part ==
  ASSUME NEW s \in Seq(Byte), NEW k \in Nat, NEW n \in k..Len(s)
  PROVE  /\ SubSeq(s, k + 1, n) \in Seq(Byte)
         /\ Len(SubSeq(s, k + 1, n)) = n - k
         /\ \A i \in 1..(n - k) : SubSeq(s, k + 1, n)[i] = s[k + i]
<1>1. \A i \in (k + 1)..n : s[i] \in Byte
  OBVIOUS
<1>2. k + 1 \in Int /\ n \in Int
  OBVIOUS
<1>3. /\ SubSeq(s, k + 1, n) \in Seq(Byte)
      /\ Len(SubSeq(s, k + 1, n)) = IF k + 1 <= n THEN n - (k + 1) + 1 ELSE 0
      /\ \A i \in 1..(n - (k + 1) + 1) : SubSeq(s, k + 1, n)[i] = s[(k + 1) + i - 1]
  BY <1>1, <1>2, SubSeqProperties
<1>4. n - (k + 1) + 1 = n - k /\ (~(k + 1 <= n) => n - k = 0)
  OBVIOUS
<1>5. \A i \in 1..(n - k) : (k + 1) + i - 1 = k + i
  OBVIOUS
<1>. QED BY <1>3, <1>4, <1>5

LEMMA Prefix ==
  ASSUME NEW s \in Seq(Byte), NEW n \in 0..Len(s)
  PROVE  /\ SubSeq(s, 1, n) \in Seq(Byte)
         /\ Len(SubSeq(s, 1, n)) = n
         /\ \A i \in 1..n : SubSeq(s, 1, n)[i] = s[i]
<1>1. /\ SubSeq(s, 0 + 1, n) \in Seq(Byte)
      /\ Len(SubSeq(s, 0 + 1, n)) = n - 0
      /\ \A i \in 1..(n - 0) : SubSeq(s, 0 + 1, n)[i] = s[0 + i]
  BY Part
<1>2. 0 + 1 = 1 /\ n - 0 = n /\ \A i \in 1..n : 0 + i = i
  OBVIOUS
<1>. QED BY <1>1, <1>2

\* A part is known by its elements.
LEMMA PartIs ==
  ASSUME NEW s \in Seq(Byte), NEW t \in Seq(Byte), NEW k \in Nat,
         k + Len(t) <= Len(s), \A i \in 1..Len(t) : s[k + i] = t[i]
  PROVE  SubSeq(s, k + 1, k + Len(t)) = t
<1>1. Len(t) \in Nat /\ k + Len(t) \in k..Len(s) /\ (k + Len(t)) - k = Len(t)
  OBVIOUS
<1>2. /\ SubSeq(s, k + 1, k + Len(t)) \in Seq(Byte)
      /\ Len(SubSeq(s, k + 1, k + Len(t))) = Len(t)
      /\ \A i \in 1..Len(t) : SubSeq(s, k + 1, k + Len(t))[i] = s[k + i]
  BY <1>1, Part
<1>. QED BY <1>2, SeqEqual

\* Cutting and joining.
LEMMA Associative ==
  \A s, t, u \in Seq(Byte) : (s \o t) \o u = s \o (t \o u)
BY ConcatAssociative

LEMMA Adjacent ==
  ASSUME NEW s \in Seq(Byte), NEW j \in Nat, NEW k \in j..Len(s), NEW n \in k..Len(s)
  PROVE  SubSeq(s, j + 1, k) \o SubSeq(s, k + 1, n) = SubSeq(s, j + 1, n)
<1>1. j + 1 \in 1..(Len(s) + 1) /\ k \in ((j + 1) - 1)..Len(s)
  OBVIOUS
<1>. QED BY <1>1, ConcatAdjacentSubSeq

LEMMA PartOfJoined ==
  ASSUME NEW s \in Seq(Byte), NEW t \in Seq(Byte), NEW k \in Nat, NEW n \in k..Len(s)
  PROVE  SubSeq(s \o t, k + 1, n) = SubSeq(s, k + 1, n)
<1>. DEFINE w == s \o t
            p == SubSeq(s, k + 1, n)
<1>1. /\ w \in Seq(Byte) /\ Len(w) = Len(s) + Len(t)
      /\ \A i \in 1..Len(s) : w[i] = s[i]
  BY Joined
<1>2. p \in Seq(Byte) /\ Len(p) = n - k /\ \A i \in 1..(n - k) : p[i] = s[k + i]
  BY Part
<1>3. Len(s) \in Nat /\ Len(t) \in Nat
  OBVIOUS
<1>. HIDE DEF w, p
<1>4. k + Len(p) = n /\ k + Len(p) <= Len(w)
  BY <1>1, <1>2, <1>3
<1>5. ASSUME NEW i \in 1..Len(p) PROVE w[k + i] = p[i]
  <2>1. i \in 1..(n - k) /\ k + i \in 1..Len(s)
    BY <1>2, <1>3
  <2>. QED BY ONLY <1>1, <1>2, <2>1
<1>6. SubSeq(w, k + 1, k + Len(p)) = p
  BY <1>1, <1>2, <1>4, <1>5, PartIs
<1>. QED BY <1>4, <1>6 DEF w, p

LEMMA TailOfJoined ==
  ASSUME NEW s \in Seq(Byte), NEW t \in Seq(Byte), NEW k \in 0..Len(s)
  PROVE  SubSeq(s \o t, k + 1, Len(s \o t)) = SubSeq(s, k + 1, Len(s)) \o t
<1>. DEFINE w == s \o t
<1>1. /\ w \in Seq(Byte) /\ Len(w) = Len(s) + Len(t)
      /\ \A i \in 1..Len(s) : w[i] = s[i]
      /\ \A i \in 1..Len(t) : w[Len(s) + i] = t[i]
  BY Joined
<1>. HIDE DEF w
<1>2. Len(s) \in Nat /\ Len(t) \in Nat /\ Len(s) \in k..Len(s) /\ k \in Nat
  OBVIOUS
<1>. DEFINE u == SubSeq(s, k + 1, Len(s))
            v == SubSeq(w, k + 1, Len(w))
<1>3. u \in Seq(Byte) /\ Len(u) = Len(s) - k /\ \A i \in 1..(Len(s) - k) : u[i] = s[k + i]
  BY <1>2, Part
<1>4. v \in Seq(Byte) /\ Len(v) = Len(w) - k /\ \A i \in 1..(Len(w) - k) : v[i] = w[k + i]
  <2>1. Len(w) \in k..Len(w)
    BY <1>1, <1>2
  <2>. QED BY <1>1, <1>2, <2>1, Part
<1>. HIDE DEF u, v
<1>5. /\ u \o t \in Seq(Byte) /\ Len(u \o t) = Len(u) + Len(t)
      /\ \A i \in 1..Len(u) : (u \o t)[i] = u[i]
      /\ \A i \in 1..Len(t) : (u \o t)[Len(u) + i] = t[i]
  BY <1>3, Joined
<1>6. Len(v) = Len(u \o t)
  BY <1>1, <1>2, <1>3, <1>4, <1>5
<1>7. ASSUME NEW i \in 1..Len(v) PROVE v[i] = (u \o t)[i]
  <2>1. CASE i <= Len(u)
    <3>1. i \in 1..Len(u) /\ i \in 1..(Len(s) - k) /\ k + i \in 1..Len(s) /\ i \in 1..(Len(w) - k)
      BY <1>1, <1>2, <1>3, <1>4, <2>1
    <3>. QED BY <1>1, <1>3, <1>4, <1>5, <3>1
  <2>2. CASE i > Len(u)
    <3>. DEFINE l == i - Len(u)
    <3>1. /\ l \in 1..Len(t) /\ Len(u) + l = i /\ Len(s) + l = k + i
          /\ i \in 1..(Len(w) - k)
      BY <1>1, <1>2, <1>3, <1>4, <2>2
    <3>. HIDE DEF l
    <3>2. (u \o t)[i] = t[l]
      BY <1>5, <3>1
    <3>3. v[i] = w[Len(s) + l]
      BY <1>4, <3>1
    <3>. QED BY <1>1, <3>1, <3>2, <3>3
  <2>3. i \in Nat /\ Len(u) \in Nat
    BY <1>3
  <2>4. i <= Len(u) \/ i > Len(u)
    BY <2>3
  <2>. QED BY <2>1, <2>2, <2>4
<1>8. v = u \o t
  BY <1>4, <1>5, <1>6, <1>7, SeqEqual
<1>. QED BY <1>8 DEF u, v, w

\* Two bytes of a sequence as a number.
LEMMA PairAt ==
  ASSUME NEW s \in Seq(Byte), NEW i \in Nat \ {0}, NEW j \in 1..Len(s), j = i + 1
  PROVE  BigEndian(SubSeq(s, i, j)) = 256 * s[i] + s[j]
<1>. DEFINE k == i - 1
            q == SubSeq(s, k + 1, j)
<1>1. k \in Nat /\ j \in k..Len(s) /\ j - k = 2 /\ k + 1 = i /\ k + 2 = j
  OBVIOUS
<1>2. q \in Seq(Byte) /\ Len(q) = 2 /\ \A l \in 1..2 : q[l] = s[k + l]
  BY <1>1, Part
<1>. HIDE DEF q
<1>3. q[1] = s[i] /\ q[2] = s[j]
  BY <1>1, <1>2
<1>4. q \in Seq(Nat)
  BY <1>2, ByteIsNat
<1>5. BigEndian(q) = 256 * s[i] + s[j]
  BY <1>2, <1>3, <1>4, BigEndianTwo
<1>. QED BY <1>1, <1>5 DEF q

-----------------------------------------------------------------------------
(* PDUs.                                                                      *)

\* A header is read from the first five bytes, and from no fewer.
LEMMA HeaderFields ==
  ASSUME NEW s \in Seq(Byte), Len(s) >= PDU_HEADER_LEN
  PROVE  pdu_header(s) = {[pdu_id           |-> s[1],
                           transaction_id   |-> 256 * s[2] + s[3],
                           parameter_length |-> 256 * s[4] + s[5]]}
<1>1. 3 \in 1..Len(s) /\ 3 = 2 + 1 /\ 5 \in 1..Len(s) /\ 5 = 4 + 1
  BY DEF PDU_HEADER_LEN
<1>2. BigEndian(SubSeq(s, 2, 3)) = 256 * s[2] + s[3]
  BY <1>1, PairAt
<1>3. BigEndian(SubSeq(s, 4, 5)) = 256 * s[4] + s[5]
  BY <1>1, PairAt
<1>. QED BY <1>2, <1>3 DEF pdu_header

\* The header the encoder and a server write.
LEMMA HeaderLayout ==
  ASSUME NEW id \in Byte, NEW tid \in 0..U16_MAX, NEW len \in 0..U16_MAX
  PROVE  LET h == <<id>> \o U16(tid) \o U16(len)
         IN  /\ h \in Seq(Byte) /\ Len(h) = 5 /\ h[1] = id
             /\ 256 * h[2] + h[3] = tid /\ 256 * h[4] + h[5] = len
<1>. DEFINE f == <<id>>
            g == f \o U16(tid)
            h == g \o U16(len)
<1>1. f \in Seq(Byte) /\ Len(f) = 1 /\ f[1] = id
  OBVIOUS
<1>. HIDE DEF f
<1>2. /\ g \in Seq(Byte) /\ Len(g) = Len(f) + 2
      /\ \A i \in 1..Len(f) : g[i] = f[i]
      /\ 256 * g[Len(f) + 1] + g[Len(f) + 2] = tid
  <2>1. EndsWithNumber(g, f, tid)
    BY ONLY <1>1, NumberBehind, tid \in 0..U16_MAX
  <2>. HIDE DEF g
  <2>. QED BY ONLY <2>1 DEF EndsWithNumber
<1>. HIDE DEF g
<1>3. g[1] = id /\ Len(g) = 3 /\ 256 * g[2] + g[3] = tid
  BY <1>1, <1>2
<1>4. /\ h \in Seq(Byte) /\ Len(h) = Len(g) + 2
      /\ \A i \in 1..Len(g) : h[i] = g[i]
      /\ 256 * h[Len(g) + 1] + h[Len(g) + 2] = len
  <2>1. EndsWithNumber(h, g, len)
    BY ONLY <1>2, NumberBehind, len \in 0..U16_MAX
  <2>. HIDE DEF h
  <2>. QED BY ONLY <2>1 DEF EndsWithNumber
<1>. HIDE DEF h
<1>5. /\ Len(h) = 5 /\ h[1] = g[1] /\ h[2] = g[2] /\ h[3] = g[3]
      /\ 256 * h[4] + h[5] = len
  BY <1>3, <1>4
<1>. QED BY <1>3, <1>4, <1>5 DEF f, g, h

PduBytes(id, tid, len, parameters) == <<id>> \o U16(tid) \o U16(len) \o parameters

PduIs(pdu, id, tid, len, parameters) ==
  /\ pdu \in Seq(Byte) /\ Len(pdu) = 5 + Len(parameters) /\ pdu[1] = id
  /\ 256 * pdu[2] + pdu[3] = tid /\ 256 * pdu[4] + pdu[5] = len
  /\ \A i \in 1..Len(parameters) : pdu[5 + i] = parameters[i]
  /\ SubSeq(pdu, 6, Len(pdu)) = parameters

\* A PDU is five bytes of header and its parameters, and both are read back.
LEMMA PduLayout ==
  ASSUME NEW id \in Byte, NEW tid \in 0..U16_MAX, NEW len \in 0..U16_MAX,
         NEW parameters \in Seq(Byte)
  PROVE  PduIs(PduBytes(id, tid, len, parameters), id, tid, len, parameters)
<1>. DEFINE h == <<id>> \o U16(tid) \o U16(len)
            pdu == h \o parameters
<1>1. /\ h \in Seq(Byte) /\ Len(h) = 5 /\ h[1] = id
      /\ 256 * h[2] + h[3] = tid /\ 256 * h[4] + h[5] = len
  BY HeaderLayout
<1>. HIDE DEF h
<1>2. /\ pdu \in Seq(Byte) /\ Len(pdu) = Len(h) + Len(parameters)
      /\ \A i \in 1..Len(h) : pdu[i] = h[i]
      /\ \A i \in 1..Len(parameters) : pdu[Len(h) + i] = parameters[i]
  BY <1>1, Joined
<1>. HIDE DEF pdu
<1>3. /\ Len(pdu) = 5 + Len(parameters) /\ pdu[1] = h[1]
      /\ pdu[2] = h[2] /\ pdu[3] = h[3] /\ pdu[4] = h[4] /\ pdu[5] = h[5]
      /\ \A i \in 1..Len(parameters) : pdu[5 + i] = parameters[i]
  BY <1>1, <1>2
<1>4. SubSeq(pdu, 5 + 1, 5 + Len(parameters)) = parameters
  BY <1>2, <1>3, PartIs
<1>5. SubSeq(pdu, 6, Len(pdu)) = parameters
  <2>1. 5 + 1 = 6
    OBVIOUS
  <2>. QED BY <1>3, <1>4, <2>1
<1>6. /\ pdu[1] = id /\ 256 * pdu[2] + pdu[3] = tid /\ 256 * pdu[4] + pdu[5] = len
      /\ Len(pdu) = 5 + Len(parameters) /\ pdu \in Seq(Byte)
      /\ \A i \in 1..Len(parameters) : pdu[5 + i] = parameters[i]
  BY <1>1, <1>2, <1>3
<1>. QED BY <1>5, <1>6 DEF PduIs, PduBytes, h, pdu

HeaderIs(s, id, tid, len) ==
  pdu_header(s) = {[pdu_id |-> id, transaction_id |-> tid, parameter_length |-> len]}

LEMMA HeaderReadBack ==
  ASSUME NEW s \in Seq(Byte), NEW id, NEW tid, NEW len, Len(s) >= 5, s[1] = id,
         256 * s[2] + s[3] = tid, 256 * s[4] + s[5] = len
  PROVE  HeaderIs(s, id, tid, len)
<1>1. Len(s) >= PDU_HEADER_LEN
  BY DEF PDU_HEADER_LEN
<1>. QED BY <1>1, HeaderFields DEF HeaderIs

\* The same, for a PDU.
LEMMA PduHeader ==
  ASSUME NEW s, NEW id, NEW tid, NEW len, NEW parameters,
         PduIs(s, id, tid, len, parameters), Len(parameters) \in Nat
  PROVE  HeaderIs(s, id, tid, len)
<1>1. /\ s \in Seq(Byte) /\ Len(s) >= 5 /\ s[1] = id
      /\ 256 * s[2] + s[3] = tid /\ 256 * s[4] + s[5] = len
  BY DEF PduIs
<1>. QED BY ONLY <1>1, HeaderReadBack

-----------------------------------------------------------------------------
(* The two regions of a response.                                             *)

RegionBytes(attributes, state) ==
  U16(Len(attributes)) \o attributes \o <<Len(state)>> \o state

RegionsAre(p, attributes, state) ==
  /\ p \in Seq(Byte) /\ Len(p) = 3 + Len(attributes) + Len(state)
  /\ 256 * p[1] + p[2] = Len(attributes)
  /\ \A i \in 1..Len(attributes) : p[2 + i] = attributes[i]
  /\ p[3 + Len(attributes)] = Len(state)
  /\ \A i \in 1..Len(state) : p[3 + Len(attributes) + i] = state[i]

\* The parameters of a response, byte by byte.
LEMMA ParametersLayout ==
  ASSUME NEW attributes \in Seq(Byte), NEW state \in Seq(Byte),
         Len(attributes) <= U16_MAX, Len(state) <= U8_MAX
  PROVE  RegionsAre(RegionBytes(attributes, state), attributes, state)
<1>1. /\ Len(attributes) \in Nat /\ Len(state) \in Nat
      /\ Len(attributes) \in 0..U16_MAX /\ Len(state) \in Byte
  <2>1. Len(attributes) \in Nat /\ Len(state) \in Nat
    OBVIOUS
  <2>. QED BY <2>1, SmallIsByte, MaximaAreNat
<1>. DEFINE n == Len(attributes)
            m == Len(state)
            u == U16(n)
            q == u \o attributes
            f == <<m>>
            r == q \o f
            p == r \o state
<1>. HIDE DEF u, f, q, r, p
<1>2. u \in Seq(Byte) /\ Len(u) = 2 /\ 256 * u[1] + u[2] = n
  BY <1>1, U16Bytes DEF u
<1>3. f \in Seq(Byte) /\ Len(f) = 1 /\ f[1] = m
  BY <1>1 DEF f
<1>4. /\ q \in Seq(Byte) /\ Len(q) = Len(u) + n
      /\ \A i \in 1..Len(u) : q[i] = u[i]
      /\ \A i \in 1..n : q[Len(u) + i] = attributes[i]
  BY <1>2, Joined DEF q
<1>5. /\ r \in Seq(Byte) /\ Len(r) = Len(q) + Len(f)
      /\ \A i \in 1..Len(q) : r[i] = q[i]
      /\ \A i \in 1..Len(f) : r[Len(q) + i] = f[i]
  BY <1>3, <1>4, Joined DEF r
<1>6. /\ p \in Seq(Byte) /\ Len(p) = Len(r) + m
      /\ \A i \in 1..Len(r) : p[i] = r[i]
      /\ \A i \in 1..m : p[Len(r) + i] = state[i]
  BY <1>5, Joined DEF p
<1>. HIDE DEF n, m
<1>7. Len(q) = 2 + n /\ Len(r) = 3 + n /\ Len(p) = 3 + n + m /\ n \in Nat /\ m \in Nat
  <2>1. n \in Nat /\ m \in Nat
    BY <1>1 DEF n, m
  <2>. QED BY <2>1, <1>2, <1>3, <1>4, <1>5, <1>6
<1>8. p[1] = u[1] /\ p[2] = u[2]
  <2>1. 1 \in 1..Len(u) /\ 2 \in 1..Len(u) /\ 1 \in 1..Len(q) /\ 2 \in 1..Len(q)
        /\ 1 \in 1..Len(r) /\ 2 \in 1..Len(r)
    BY <1>2, <1>7
  <2>. QED BY <2>1, <1>4, <1>5, <1>6
<1>9. ASSUME NEW i \in 1..n PROVE p[2 + i] = attributes[i]
  <2>1. 2 + i \in 1..Len(q) /\ 2 + i \in 1..Len(r)
    BY <1>7
  <2>2. p[2 + i] = r[2 + i]
    BY ONLY <2>1, <1>6
  <2>3. r[2 + i] = q[2 + i]
    BY ONLY <2>1, <1>5
  <2>4. q[2 + i] = attributes[i]
    BY <1>2, <1>4
  <2>. QED BY ONLY <2>2, <2>3, <2>4
<1>10. p[3 + n] = m
  <2>1. 1 \in 1..Len(f) /\ Len(q) + 1 = 3 + n /\ 3 + n \in 1..Len(r)
    BY <1>3, <1>7
  <2>. QED BY <2>1, <1>3, <1>5, <1>6
<1>11. \A i \in 1..m : p[3 + n + i] = state[i]
  BY <1>6, <1>7
<1>. QED BY <1>2, <1>6, <1>7, <1>8, <1>9, <1>10, <1>11
     DEF RegionsAre, RegionBytes, p, r, q, f, u, n, m

\* The length of the first region, as raw_response reads it.
LEMMA RegionLength ==
  ASSUME NEW s \in Seq(Byte), Len(s) >= 7
  PROVE  BigEndian(SubSeq(s, 6, 7)) = 256 * s[6] + s[7]
<1>1. 7 \in 1..Len(s) /\ 7 = 6 + 1
  OBVIOUS
<1>. QED BY <1>1, PairAt

\* Two regions that are there are what a response is taken apart into.
RegionsReadAre(s, n, m, header) ==
  raw_response(s) = {[header             |-> header,
                      attribute_bytes    |-> SubSeq(s, 8, 7 + n),
                      continuation_state |-> SubSeq(s, 9 + n, 8 + n + m)]}

LEMMA RawResponseAccepts ==
  ASSUME NEW s \in Seq(Byte), NEW n \in Nat, NEW m \in Nat, NEW header,
         pdu_header(s) = {header}, 256 * s[6] + s[7] = n, s[8 + n] = m,
         Len(s) >= 8 + n + m
  PROVE  RegionsReadAre(s, n, m, header)
<1>1. Len(s) >= 7 /\ Len(s) >= 8 + n
  OBVIOUS
<1>2. BigEndian(SubSeq(s, 6, 7)) = n
  BY <1>1, RegionLength
<1>3. (8 + n) - 1 = 7 + n /\ (8 + n) + 1 = 9 + n
  OBVIOUS
<1>4. raw_response(s) = {[header             |-> h,
                          attribute_bytes    |-> SubSeq(s, 8, 7 + n),
                          continuation_state |-> SubSeq(s, 9 + n, 8 + n + m)] :
                         h \in pdu_header(s)}
  BY <1>1, <1>2, <1>3 DEF raw_response
<1>. QED BY <1>4 DEF RegionsReadAre

\* One byte too few is refused.
LEMMA RawResponseRefuses ==
  ASSUME NEW s \in Seq(Byte), NEW n \in Nat, Len(s) >= 7, 256 * s[6] + s[7] = n,
         ~(Len(s) >= 8 + n) \/ ~(Len(s) >= 8 + n + s[8 + n])
  PROVE  raw_response(s) = {}
<1>1. BigEndian(SubSeq(s, 6, 7)) = n
  BY RegionLength
<1>. QED BY <1>1 DEF raw_response

\* Less than two lengths is refused.
LEMMA RawResponseShort ==
  ASSUME NEW s, Len(s) \in Nat, Len(s) < 7
  PROVE  raw_response(s) = {}
BY DEF raw_response

\* The PDU of a page, byte by byte.
ResponseBytes(tid, len, attributes, state) ==
  PduBytes(7, tid, len, RegionBytes(attributes, state))

ResponseIs(s, tid, len, attributes, state) ==
  LET n == Len(attributes)
      m == Len(state)
  IN  /\ s \in Seq(Byte) /\ Len(s) = 8 + n + m
      /\ s[1] = 7 /\ 256 * s[2] + s[3] = tid /\ 256 * s[4] + s[5] = len
      /\ 256 * s[6] + s[7] = n /\ s[8 + n] = m
      /\ SubSeq(s, 8, 7 + n) = attributes
      /\ SubSeq(s, 9 + n, 8 + n + m) = state

LEMMA ResponseLayout ==
  ASSUME NEW tid \in 0..U16_MAX, NEW len \in 0..U16_MAX,
         NEW attributes \in Seq(Byte), NEW state \in Seq(Byte),
         Len(attributes) <= U16_MAX, Len(state) <= U8_MAX
  PROVE  ResponseIs(ResponseBytes(tid, len, attributes, state),
                    tid, len, attributes, state)
<1>. DEFINE p == RegionBytes(attributes, state)
            s == PduBytes(7, tid, len, p)
            n == Len(attributes)
            m == Len(state)
<1>1. RegionsAre(p, attributes, state)
  BY ParametersLayout
<1>. HIDE DEF p
<1>2. p \in Seq(Byte) /\ 7 \in Byte
  BY <1>1, SmallIsByte DEF U8_MAX, RegionsAre
<1>3. PduIs(s, 7, tid, len, p)
  BY <1>2, PduLayout
<1>. HIDE DEF s
<1>4. /\ s \in Seq(Byte) /\ Len(s) = 5 + Len(p) /\ s[1] = 7
      /\ 256 * s[2] + s[3] = tid /\ 256 * s[4] + s[5] = len
      /\ \A i \in 1..Len(p) : s[5 + i] = p[i]
  BY <1>3 DEF PduIs
<1>13. n \in Nat /\ m \in Nat
  OBVIOUS
<1>14. /\ Len(p) = 3 + n + m /\ 256 * p[1] + p[2] = n /\ p[3 + n] = m
       /\ \A i \in 1..n : p[2 + i] = attributes[i]
       /\ \A i \in 1..m : p[3 + n + i] = state[i]
  BY <1>1 DEF RegionsAre
<1>5. Len(s) = 8 + n + m
  BY <1>13, <1>14, <1>4
<1>6. s[6] = p[1] /\ s[7] = p[2]
  <2>1. 1 \in 1..Len(p) /\ 2 \in 1..Len(p) /\ 5 + 1 = 6 /\ 5 + 2 = 7
    BY <1>13, <1>14
  <2>. QED BY <2>1, <1>4
<1>7. s[8 + n] = m
  <2>1. 3 + n \in 1..Len(p) /\ 5 + (3 + n) = 8 + n
    BY <1>13, <1>14
  <2>. QED BY <2>1, <1>13, <1>14, <1>4
<1>8. \A i \in 1..n : s[7 + i] = attributes[i]
  <2>. SUFFICES ASSUME NEW i \in 1..n PROVE s[7 + i] = attributes[i]
    OBVIOUS
  <2>1. 2 + i \in 1..Len(p) /\ 5 + (2 + i) = 7 + i
    BY <1>13, <1>14
  <2>2. s[5 + (2 + i)] = p[2 + i]
    BY <1>4, <2>1
  <2>3. p[2 + i] = attributes[i]
    BY <1>14
  <2>. QED BY <2>1, <2>2, <2>3
<1>9. \A i \in 1..m : s[8 + n + i] = state[i]
  <2>. SUFFICES ASSUME NEW i \in 1..m PROVE s[8 + n + i] = state[i]
    OBVIOUS
  <2>1. 3 + n + i \in 1..Len(p) /\ 5 + (3 + n + i) = 8 + n + i
    BY <1>13, <1>14
  <2>2. s[5 + (3 + n + i)] = p[3 + n + i]
    BY <1>4, <2>1
  <2>3. p[3 + n + i] = state[i]
    BY <1>14
  <2>. QED BY <2>1, <2>2, <2>3
<1>10. SubSeq(s, 8, 7 + n) = attributes
  <2>1. 7 + Len(attributes) <= Len(s) /\ \A i \in 1..Len(attributes) : s[7 + i] = attributes[i]
    <3>1. 7 + n <= Len(s)
      BY ONLY <1>13, <1>5
    <3>. QED BY <1>8, <3>1
  <2>2. SubSeq(s, 7 + 1, 7 + Len(attributes)) = attributes
    BY <1>4, <2>1, PartIs
  <2>3. 7 + 1 = 8
    OBVIOUS
  <2>. QED BY <2>2, <2>3
<1>11. SubSeq(s, 9 + n, 8 + n + m) = state
  <2>. DEFINE k == 8 + n
  <2>1. k \in Nat /\ k + 1 = 9 + n /\ k + Len(state) = 8 + n + m
    BY <1>13
  <2>2. k + Len(state) <= Len(s) /\ \A i \in 1..Len(state) : s[k + i] = state[i]
    BY <1>13, <1>5, <1>9
  <2>. HIDE DEF k
  <2>3. SubSeq(s, k + 1, k + Len(state)) = state
    BY <1>4, <2>1, <2>2, PartIs
  <2>. QED BY <2>1, <2>3
<1>12. 256 * s[6] + s[7] = n
  BY <1>13, <1>14, <1>6
<1>. QED BY <1>4, <1>5, <1>7, <1>10, <1>11, <1>12
      DEF ResponseIs, ResponseBytes, s, p

\* A page is taken apart into the two regions that were put into it.
LEMMA ResponseReadBack ==
  ASSUME NEW tid \in 0..U16_MAX, NEW len \in 0..U16_MAX,
         NEW attributes \in Seq(Byte), NEW state \in Seq(Byte),
         Len(attributes) <= U16_MAX, Len(state) <= U8_MAX,
         NEW s, s = ResponseBytes(tid, len, attributes, state)
  PROVE  /\ HeaderIs(s, 7, tid, len)
         /\ raw_response(s) =
               {[header             |-> [pdu_id           |-> 7,
                                         transaction_id   |-> tid,
                                         parameter_length |-> len],
                 attribute_bytes    |-> attributes,
                 continuation_state |-> state]}
<1>. DEFINE n == Len(attributes)
            m == Len(state)
<1>1. n \in Nat /\ m \in Nat
  OBVIOUS
<1>3. /\ s \in Seq(Byte) /\ Len(s) = 8 + n + m
      /\ s[1] = 7 /\ 256 * s[2] + s[3] = tid /\ 256 * s[4] + s[5] = len
      /\ 256 * s[6] + s[7] = n /\ s[8 + n] = m
      /\ SubSeq(s, 8, 7 + n) = attributes
      /\ SubSeq(s, 9 + n, 8 + n + m) = state
  <2>1. ResponseIs(s, tid, len, attributes, state)
    BY ResponseLayout
  <2>. QED BY <2>1 DEF ResponseIs
<1>. HIDE DEF n, m
<1>4. HeaderIs(s, 7, tid, len)
  <2>1. Len(s) >= 5
    BY <1>1, <1>3
  <2>2. /\ s \in Seq(Byte) /\ s[1] = 7
        /\ 256 * s[2] + s[3] = tid /\ 256 * s[4] + s[5] = len
    BY <1>3
  <2>. QED BY ONLY <2>1, <2>2, HeaderReadBack
<1>. DEFINE h == [pdu_id |-> 7, transaction_id |-> tid, parameter_length |-> len]
<1>5. pdu_header(s) = {h}
  BY <1>4 DEF HeaderIs
<1>. HIDE DEF h
<1>6. Len(s) >= 8 + n + m
  BY <1>1, <1>3
<1>7. RegionsReadAre(s, n, m, h)
  <2>1. s \in Seq(Byte) /\ 256 * s[6] + s[7] = n /\ s[8 + n] = m
    BY <1>3
  <2>2. n \in Nat /\ m \in Nat
    BY <1>1
  <2>. QED BY ONLY <2>1, <2>2, <1>5, <1>6, RawResponseAccepts
<1>8. SubSeq(s, 8, 7 + n) = attributes /\ SubSeq(s, 9 + n, 8 + n + m) = state
  BY <1>3
<1>. QED BY <1>4, <1>7, <1>8 DEF h, RegionsReadAre

\* So it is when bytes follow it.
LEMMA ResponseFollowed ==
  ASSUME NEW tid \in 0..U16_MAX, NEW len \in 0..U16_MAX,
         NEW attributes \in Seq(Byte), NEW state \in Seq(Byte),
         Len(attributes) <= U16_MAX, Len(state) <= U8_MAX,
         NEW s, s = ResponseBytes(tid, len, attributes, state),
         NEW t \in Seq(Byte)
  PROVE  raw_response(s \o t) =
           {[header             |-> [pdu_id           |-> 7,
                                     transaction_id   |-> tid,
                                     parameter_length |-> len],
             attribute_bytes    |-> attributes,
             continuation_state |-> state]}
<1>. DEFINE n == Len(attributes)
            m == Len(state)
            w == s \o t
            h == [pdu_id |-> 7, transaction_id |-> tid, parameter_length |-> len]
<1>1. n \in Nat /\ m \in Nat /\ Len(t) \in Nat
  OBVIOUS
<1>2. /\ s \in Seq(Byte) /\ Len(s) = 8 + n + m
      /\ s[1] = 7 /\ 256 * s[2] + s[3] = tid /\ 256 * s[4] + s[5] = len
      /\ 256 * s[6] + s[7] = n /\ s[8 + n] = m
      /\ SubSeq(s, 8, 7 + n) = attributes
      /\ SubSeq(s, 9 + n, 8 + n + m) = state
  <2>1. ResponseIs(s, tid, len, attributes, state)
    BY ResponseLayout
  <2>. QED BY <2>1 DEF ResponseIs
<1>3. /\ w \in Seq(Byte) /\ Len(w) = Len(s) + Len(t)
      /\ \A i \in 1..Len(s) : w[i] = s[i]
  BY <1>2, Joined
<1>. HIDE DEF n, m, w
<1>4. /\ w[1] = s[1] /\ w[2] = s[2] /\ w[3] = s[3] /\ w[4] = s[4] /\ w[5] = s[5]
      /\ w[6] = s[6] /\ w[7] = s[7] /\ w[8 + n] = s[8 + n]
  <2>1. /\ 1 \in 1..Len(s) /\ 2 \in 1..Len(s) /\ 3 \in 1..Len(s) /\ 4 \in 1..Len(s)
        /\ 5 \in 1..Len(s) /\ 6 \in 1..Len(s) /\ 7 \in 1..Len(s) /\ 8 + n \in 1..Len(s)
    BY ONLY <1>1, <1>2
  <2>. QED BY ONLY <1>3, <2>1
<1>5. Len(w) >= 8 + n + m /\ Len(w) >= 5
  BY ONLY <1>1, <1>2, <1>3
<1>6. pdu_header(w) = {h}
  <2>1. HeaderIs(w, 7, tid, len)
    <3>1. w[1] = 7 /\ 256 * w[2] + w[3] = tid /\ 256 * w[4] + w[5] = len
      BY ONLY <1>2, <1>4
    <3>2. w \in Seq(Byte) /\ Len(w) >= 5
      BY <1>3, <1>5
    <3>. QED BY ONLY <3>1, <3>2, HeaderReadBack
  <2>. QED BY <2>1 DEF HeaderIs
<1>. HIDE DEF h
<1>7. RegionsReadAre(w, n, m, h)
  <2>1. w \in Seq(Byte) /\ 256 * w[6] + w[7] = n /\ w[8 + n] = m
    BY <1>2, <1>3, <1>4
  <2>2. n \in Nat /\ m \in Nat
    BY <1>1
  <2>. QED BY ONLY <2>1, <2>2, <1>5, <1>6, RawResponseAccepts
<1>8. SubSeq(w, 8, 7 + n) = attributes /\ SubSeq(w, 9 + n, 8 + n + m) = state
  <2>1. /\ 7 \in Nat /\ 7 + n \in 7..Len(s) /\ 7 + 1 = 8
        /\ 8 + n \in Nat /\ 8 + n + m \in (8 + n)..Len(s) /\ (8 + n) + 1 = 9 + n
    BY ONLY <1>1, <1>2
  <2>2. \A k \in Nat : \A i \in k..Len(s) : SubSeq(w, k + 1, i) = SubSeq(s, k + 1, i)
    <3>1. s \in Seq(Byte)
      BY <1>2
    <3>. QED BY ONLY <3>1, t \in Seq(Byte), PartOfJoined DEF w
  <2>3. SubSeq(w, 7 + 1, 7 + n) = SubSeq(s, 7 + 1, 7 + n)
    BY ONLY <2>1, <2>2
  <2>4. SubSeq(w, (8 + n) + 1, 8 + n + m) = SubSeq(s, (8 + n) + 1, 8 + n + m)
    <3>. DEFINE k == 8 + n
                i == 8 + n + m
    <3>1. k \in Nat /\ i \in k..Len(s)
      BY <2>1
    <3>. HIDE DEF k, i
    <3>2. SubSeq(w, k + 1, i) = SubSeq(s, k + 1, i)
      BY ONLY <2>2, <3>1
    <3>. QED BY <3>2 DEF k, i
  <2>5. SubSeq(w, 8, 7 + n) = SubSeq(s, 8, 7 + n)
    BY ONLY <2>1, <2>3
  <2>6. SubSeq(w, 9 + n, 8 + n + m) = SubSeq(s, 9 + n, 8 + n + m)
    BY ONLY <2>1, <2>4
  <2>. QED BY ONLY <1>2, <2>5, <2>6
<1>. QED BY <1>7, <1>8 DEF h, w, RegionsReadAre

\* A page that is cut short anywhere is refused.
LEMMA ResponseCutShort ==
  ASSUME NEW tid \in 0..U16_MAX, NEW len \in 0..U16_MAX,
         NEW attributes \in Seq(Byte), NEW state \in Seq(Byte),
         Len(attributes) <= U16_MAX, Len(state) <= U8_MAX,
         NEW s, s = ResponseBytes(tid, len, attributes, state),
         NEW k \in 0..(Len(s) - 1)
  PROVE  raw_response(SubSeq(s, 1, k)) = {}
<1>. DEFINE n == Len(attributes)
            m == Len(state)
<1>1. n \in Nat /\ m \in Nat
  OBVIOUS
<1>3. /\ s \in Seq(Byte) /\ Len(s) = 8 + n + m
      /\ 256 * s[6] + s[7] = n /\ s[8 + n] = m
  <2>1. ResponseIs(s, tid, len, attributes, state)
    BY ResponseLayout
  <2>. QED BY <2>1 DEF ResponseIs
<1>. HIDE DEF n, m
<1>4. k \in Nat /\ k < 8 + n + m
  BY <1>1, <1>3
<1>5. PICK t : t = SubSeq(s, 1, k)
  OBVIOUS
<1>6. t \in Seq(Byte) /\ Len(t) = k /\ \A i \in 1..k : t[i] = s[i]
  <2>1. k \in 0..Len(s)
    BY <1>1, <1>3, <1>4
  <2>. QED BY <1>3, <1>5, <2>1, Prefix
<1>7. CASE k < 7
  BY <1>4, <1>5, <1>6, <1>7, RawResponseShort
<1>8. CASE k >= 7
  <2>1. 6 \in 1..k /\ 7 \in 1..k
    BY <1>4, <1>8
  <2>2. 256 * t[6] + t[7] = n /\ Len(t) >= 7
    BY <1>3, <1>6, <1>8, <2>1
  <2>3. ~(Len(t) >= 8 + n) \/ ~(Len(t) >= 8 + n + t[8 + n])
    <3>1. CASE k >= 8 + n
      <4>1. 8 + n \in 1..k
        BY <1>1, <1>4, <3>1
      <4>2. t[8 + n] = m
        BY <1>3, <1>6, <4>1
      <4>. QED BY <1>1, <1>4, <1>6, <4>2
    <3>2. CASE ~(k >= 8 + n)
      BY <1>6, <3>2
    <3>. QED BY <3>1, <3>2
  <2>4. raw_response(t) = {}
    <3>1. t \in Seq(Byte) /\ n \in Nat
      BY <1>1, <1>6
    <3>. QED BY ONLY <2>2, <2>3, <3>1, RawResponseRefuses
  <2>. QED BY <1>5, <2>4
<1>. QED BY <1>4, <1>7, <1>8

-----------------------------------------------------------------------------
(* Requests.                                                                  *)

\* What find_rfcomm_channel asks encode for.
QueryRequest ==
  [transaction_id     : 0..U16_MAX,
   service_uuid16     : 0..U16_MAX,
   continuation_state : {s \in Seq(Byte) : Len(s) <= U8_MAX}]

RequestBytes(r) ==
  PduBytes(PDU_ID_SERVICE_SEARCH_ATTRIBUTE_REQUEST, r.transaction_id,
           Len(RequestBody(r)), RequestBody(r))

RequestBodyIs(b, uuid16, state) ==
  /\ b \in Seq(Byte) /\ Len(b) = 15 + Len(state)
  /\ b[1] = 53 /\ b[2] = 3 /\ b[3] = 25 /\ 256 * b[4] + b[5] = uuid16
  /\ b[6] = 255 /\ b[7] = 255 /\ b[8] = 53 /\ b[9] = 5 /\ b[10] = 10
  /\ b[15] = Len(state)
  /\ SubSeq(b, 16, Len(b)) = state

\* The body of a request, byte by byte.
LEMMA RequestBodyLayout ==
  ASSUME NEW r \in QueryRequest
  PROVE  RequestBodyIs(RequestBody(r), r.service_uuid16, r.continuation_state)
<1>. DEFINE uuid16 == r.service_uuid16
            state == r.continuation_state
            a == <<53, 3, 25>>
            c == a \o U16(uuid16)
            d == <<255, 255>>
            e == c \o d
            f == <<53, 5, 10, 0, 0, 255, 255>>
            g == e \o f
            h == <<Len(state)>>
            i == g \o h
            b == i \o state
<1>1. /\ uuid16 \in 0..U16_MAX /\ state \in Seq(Byte)
      /\ Len(state) \in Nat /\ Len(state) <= U8_MAX
  BY DEF QueryRequest
<1>2. RequestBody(r) = b
  BY DEF RequestBody, SEQUENCE_LEN_3, UUID16_DESCRIPTOR, UINT32_DESCRIPTOR
<1>. HIDE DEF uuid16, state, a, c, d, e, f, g, h, i, b
<1>3. a \in Seq(Byte) /\ Len(a) = 3 /\ a[1] = 53 /\ a[2] = 3 /\ a[3] = 25
  BY DEF a, Byte
<1>4. d \in Seq(Byte) /\ Len(d) = 2 /\ d[1] = 255 /\ d[2] = 255
  BY DEF d, Byte
<1>5. f \in Seq(Byte) /\ Len(f) = 7 /\ f[1] = 53 /\ f[2] = 5 /\ f[3] = 10
  BY DEF f, Byte
<1>6. h \in Seq(Byte) /\ Len(h) = 1 /\ h[1] = Len(state)
  <2>1. Len(state) \in Byte
    BY <1>1, SmallIsByte
  <2>. QED BY <2>1 DEF h
<1>7. /\ c \in Seq(Byte) /\ Len(c) = 5
      /\ c[1] = 53 /\ c[2] = 3 /\ c[3] = 25 /\ 256 * c[4] + c[5] = uuid16
  <2>1. /\ c \in Seq(Byte) /\ Len(c) = Len(a) + 2
        /\ \A j \in 1..Len(a) : c[j] = a[j]
        /\ 256 * c[Len(a) + 1] + c[Len(a) + 2] = uuid16
    <3>1. uuid16 \in 0..U16_MAX /\ a \in Seq(Byte)
      BY <1>1, <1>3
    <3>2. EndsWithNumber(c, a, uuid16)
      BY ONLY <3>1, NumberBehind DEF c
    <3>. QED BY ONLY <3>2 DEF EndsWithNumber
  <2>. QED BY <1>3, <2>1
<1>8. /\ e \in Seq(Byte) /\ Len(e) = 7 /\ \A j \in 1..5 : e[j] = c[j]
      /\ e[6] = 255 /\ e[7] = 255
  <2>1. /\ e \in Seq(Byte) /\ Len(e) = Len(c) + Len(d)
        /\ \A j \in 1..Len(c) : e[j] = c[j]
        /\ \A j \in 1..Len(d) : e[Len(c) + j] = d[j]
    <3>1. c \in Seq(Byte) /\ d \in Seq(Byte)
      BY <1>4, <1>7
    <3>. QED BY ONLY <3>1, Joined DEF e
  <2>. QED BY <1>4, <1>7, <2>1
<1>9. /\ g \in Seq(Byte) /\ Len(g) = 14 /\ \A j \in 1..7 : g[j] = e[j]
      /\ g[8] = 53 /\ g[9] = 5 /\ g[10] = 10
  <2>1. /\ g \in Seq(Byte) /\ Len(g) = Len(e) + Len(f)
        /\ \A j \in 1..Len(e) : g[j] = e[j]
        /\ \A j \in 1..Len(f) : g[Len(e) + j] = f[j]
    <3>1. e \in Seq(Byte) /\ f \in Seq(Byte)
      BY <1>5, <1>8
    <3>. QED BY ONLY <3>1, Joined DEF g
  <2>. QED BY <1>5, <1>8, <2>1
<1>10. /\ i \in Seq(Byte) /\ Len(i) = 15 /\ \A j \in 1..14 : i[j] = g[j]
       /\ i[15] = Len(state)
  <2>1. /\ i \in Seq(Byte) /\ Len(i) = Len(g) + Len(h)
        /\ \A j \in 1..Len(g) : i[j] = g[j]
        /\ \A j \in 1..Len(h) : i[Len(g) + j] = h[j]
    <3>1. g \in Seq(Byte) /\ h \in Seq(Byte)
      BY <1>6, <1>9
    <3>. QED BY ONLY <3>1, Joined DEF i
  <2>. QED BY <1>6, <1>9, <2>1
<1>11. /\ b \in Seq(Byte) /\ Len(b) = 15 + Len(state) /\ \A j \in 1..15 : b[j] = i[j]
       /\ \A j \in 1..Len(state) : b[15 + j] = state[j]
  <2>1. /\ b \in Seq(Byte) /\ Len(b) = Len(i) + Len(state)
        /\ \A j \in 1..Len(i) : b[j] = i[j]
        /\ \A j \in 1..Len(state) : b[Len(i) + j] = state[j]
    <3>1. i \in Seq(Byte) /\ state \in Seq(Byte)
      BY <1>1, <1>10
    <3>. QED BY ONLY <3>1, Joined DEF b
  <2>. QED BY <1>10, <2>1
<1>14. \A j \in 1..14 : b[j] = g[j]
  <2>1. \A j \in 1..14 : j \in 1..15
    OBVIOUS
  <2>. QED BY <1>10, <1>11, <2>1
<1>13. \A j \in 1..7 : b[j] = e[j]
  <2>1. \A j \in 1..7 : j \in 1..14
    OBVIOUS
  <2>. QED BY <1>9, <1>14, <2>1
<1>12. \A j \in 1..5 : b[j] = c[j]
  <2>1. \A j \in 1..5 : j \in 1..7
    OBVIOUS
  <2>. QED BY <1>8, <1>13, <2>1
<1>15. /\ b[1] = 53 /\ b[2] = 3 /\ b[3] = 25 /\ 256 * b[4] + b[5] = uuid16
       /\ b[6] = 255 /\ b[7] = 255 /\ b[8] = 53 /\ b[9] = 5 /\ b[10] = 10
       /\ b[15] = Len(state)
  <2>1. b[1] = 53 /\ b[2] = 3 /\ b[3] = 25 /\ b[4] = c[4] /\ b[5] = c[5]
    BY <1>7, <1>12
  <2>2. b[6] = 255 /\ b[7] = 255
    BY <1>8, <1>13
  <2>3. b[8] = 53 /\ b[9] = 5 /\ b[10] = 10
    BY <1>9, <1>14
  <2>4. b[15] = Len(state)
    <3>1. 15 \in 1..15
      OBVIOUS
    <3>2. b[15] = i[15]
      BY ONLY <3>1, <1>11
    <3>3. i[15] = Len(state)
      BY ONLY <1>10
    <3>. QED BY ONLY <3>2, <3>3
  <2>5. 256 * b[4] + b[5] = uuid16
    <3>1. 256 * c[4] + c[5] = uuid16
      BY ONLY <1>7
    <3>. QED BY ONLY <2>1, <3>1
  <2>. QED BY ONLY <2>1, <2>2, <2>3, <2>4, <2>5
<1>16. SubSeq(b, 16, Len(b)) = state
  <2>1. SubSeq(b, 15 + 1, 15 + Len(state)) = state
    <3>1. /\ b \in Seq(Byte) /\ state \in Seq(Byte) /\ 15 \in Nat
          /\ 15 + Len(state) <= Len(b)
      BY <1>1, <1>11
    <3>2. \A j \in 1..Len(state) : b[15 + j] = state[j]
      BY ONLY <1>11
    <3>. QED BY ONLY <3>1, <3>2, PartIs
  <2>2. 15 + 1 = 16
    OBVIOUS
  <2>. QED BY <1>11, <2>1, <2>2
<1>17. RequestBodyIs(b, uuid16, state)
  BY <1>11, <1>15, <1>16 DEF RequestBodyIs
<1>. QED BY <1>2, <1>17 DEF uuid16, state

\* The one encoding of a request: encode never fails in a query.
LEMMA RequestLayout ==
  ASSUME NEW r \in QueryRequest
  PROVE  /\ encode(r) = {RequestBytes(r)}
         /\ Len(RequestBody(r)) \in 0..U16_MAX
         /\ PduIs(RequestBytes(r), 6, r.transaction_id, Len(RequestBody(r)),
                  RequestBody(r))
<1>1. RequestBodyIs(RequestBody(r), r.service_uuid16, r.continuation_state)
  BY RequestBodyLayout
<1>2. /\ Len(r.continuation_state) \in Nat /\ Len(r.continuation_state) <= U8_MAX
      /\ r.transaction_id \in 0..U16_MAX
  BY DEF QueryRequest
<1>3. RequestBody(r) \in Seq(Byte) /\ Len(RequestBody(r)) = 15 + Len(r.continuation_state)
  BY <1>1 DEF RequestBodyIs
<1>4. Len(RequestBody(r)) \in 0..U16_MAX
  <2>. DEFINE m == Len(r.continuation_state)
              n == Len(RequestBody(r))
  <2>1. m \in Nat /\ m <= 255 /\ n = 15 + m
    BY <1>2, <1>3 DEF U8_MAX
  <2>. HIDE DEF m, n
  <2>2. n \in Nat /\ n <= 270
    BY <2>1
  <2>3. 270 <= U16_MAX /\ U16_MAX \in Nat
    BY DEF U16_MAX
  <2>4. n \in 0..U16_MAX
    BY <2>2, <2>3
  <2>. QED BY <2>4 DEF n
<1>5. 6 \in Byte /\ PDU_ID_SERVICE_SEARCH_ATTRIBUTE_REQUEST = 6
  BY SmallIsByte DEF U8_MAX, PDU_ID_SERVICE_SEARCH_ATTRIBUTE_REQUEST
<1>6. RequestBytes(r) = PduBytes(6, r.transaction_id, Len(RequestBody(r)), RequestBody(r))
  BY <1>5 DEF RequestBytes
<1>7. PduIs(RequestBytes(r), 6, r.transaction_id, Len(RequestBody(r)), RequestBody(r))
  BY <1>2, <1>3, <1>4, <1>5, <1>6, PduLayout
<1>8. Len(RequestBody(r)) <= U16_MAX
  BY <1>4, MaximaAreNat
<1>9. encode(r) = {RequestBytes(r)}
  BY <1>2, <1>8 DEF encode, RequestPdu, RequestBytes, PduBytes
<1>. QED BY <1>4, <1>7, <1>9

-----------------------------------------------------------------------------
(* Data elements: the frame of one.                                           *)

LEMMA BigEndianFour ==
  ASSUME NEW s \in Seq(Nat), Len(s) = 4
  PROVE  BigEndian(s) = 256 * (256 * (256 * s[1] + s[2]) + s[3]) + s[4]
<1>1. PICK f : /\ f[0] = 0
               /\ \A i \in 1..Len(s) : f[i] = 256 * f[i - 1] + s[i]
               /\ BigEndian(s) = f[Len(s)]
  BY BigEndianValues
<1>2. /\ f[1] = 256 * f[1 - 1] + s[1] /\ f[2] = 256 * f[2 - 1] + s[2]
      /\ f[3] = 256 * f[3 - 1] + s[3] /\ f[4] = 256 * f[4 - 1] + s[4]
  BY <1>1
<1>3. s[1] \in Nat /\ s[2] \in Nat /\ s[3] \in Nat /\ s[4] \in Nat
  <2>1. 1 \in 1..Len(s) /\ 2 \in 1..Len(s) /\ 3 \in 1..Len(s) /\ 4 \in 1..Len(s)
    OBVIOUS
  <2>. QED BY ONLY <2>1, s \in Seq(Nat), ElementOfSeq
<1>4. f[1] = s[1]
  BY <1>1, <1>2, <1>3
<1>5. f[2] = 256 * s[1] + s[2]
  BY <1>2, <1>3, <1>4
<1>6. f[3] = 256 * (256 * s[1] + s[2]) + s[3]
  BY <1>2, <1>3, <1>5
<1>7. f[4] = 256 * (256 * (256 * s[1] + s[2]) + s[3]) + s[4]
  BY <1>2, <1>3, <1>6
<1>. QED BY <1>1, <1>7

\* Where the body begins, and how long it is.
Start(s) == 1 + LengthBytes(SizeIndex(s[1]))
BodyLength(s) ==
  IF SizeIndex(s[1]) < 5
    THEN Fixed(ElementType(s[1]), SizeIndex(s[1]))
    ELSE BigEndian(SubSeq(s, 2, Start(s)))

FrameAt(s, start, len) ==
  [type  |-> ElementType(s[1]),
   index |-> SizeIndex(s[1]),
   body  |-> SubSeq(s, start + 1, start + len),
   rest  |-> SubSeq(s, start + len + 1, Len(s))]

LEMMA FrameForm ==
  ASSUME NEW s
  PROVE  Frame(s) = IF s # <<>> /\ Len(s) >= Start(s) /\ Len(s) - Start(s) >= BodyLength(s)
                      THEN {FrameAt(s, Start(s), BodyLength(s))} ELSE {}
BY DEF Frame, Start, BodyLength, FrameAt

\* What a descriptor says is a number, whatever the byte.
LEMMA DescriptorWidths ==
  ASSUME NEW d \in Byte
  PROVE  /\ SizeIndex(d) \in 0..7
         /\ LengthBytes(SizeIndex(d)) \in {0, 1, 2, 4}
         /\ SizeIndex(d) < 5 => Fixed(ElementType(d), SizeIndex(d)) \in Nat
<1>1. SizeIndex(d) \in {0, 1, 2, 3, 4, 5, 6, 7}
  BY DEF SizeIndex, Byte
<1>2. \A i \in {0, 1, 2, 3, 4, 5, 6, 7} : LengthBytes(i) \in {0, 1, 2, 4}
  BY DEF LengthBytes
<1>3. \A i \in {0, 1, 2, 3, 4} : <<1, 2, 4, 8, 16>>[i + 1] \in Nat
  OBVIOUS
<1>4. SizeIndex(d) < 5 => SizeIndex(d) \in {0, 1, 2, 3, 4}
  BY <1>1
<1>5. SizeIndex(d) < 5 => Fixed(ElementType(d), SizeIndex(d)) \in Nat
  BY <1>3, <1>4 DEF Fixed
<1>. QED BY <1>1, <1>2, <1>5

LEMMA StartAndLength ==
  ASSUME NEW s \in Seq(Byte), s # <<>>
  PROVE  /\ s[1] \in Byte /\ Len(s) \in Nat \ {0}
         /\ Start(s) \in Nat \ {0}
         /\ Start(s) <= Len(s) => BodyLength(s) \in Nat
<1>1. s[1] \in Byte /\ Len(s) \in Nat \ {0}
  OBVIOUS
<1>2. Start(s) \in Nat \ {0}
  BY <1>1, DescriptorWidths DEF Start
<1>3. ASSUME Start(s) <= Len(s) PROVE BodyLength(s) \in Nat
  <2>1. 1 \in Nat /\ Start(s) \in 1..Len(s) /\ 1 + 1 = 2
    BY <1>1, <1>2, <1>3
  <2>2. SubSeq(s, 1 + 1, Start(s)) \in Seq(Byte)
    BY <2>1, Part
  <2>3. SubSeq(s, 2, Start(s)) \in Seq(Nat)
    BY <2>1, <2>2, ByteIsNat
  <2>4. BigEndian(SubSeq(s, 2, Start(s))) \in Nat
    BY <2>3, BigEndianType
  <2>. QED BY <1>1, <2>4, DescriptorWidths DEF BodyLength
<1>. QED BY <1>1, <1>2, <1>3

\* Both are known from the first bytes.
LEMMA SameWidths ==
  ASSUME NEW s \in Seq(Byte), NEW t \in Seq(Byte), NEW n \in Nat \ {0},
         n <= Len(s), n <= Len(t), \A i \in 1..n : s[i] = t[i]
  PROVE  /\ s[1] = t[1] /\ Start(s) = Start(t)
         /\ Start(s) <= n => BodyLength(s) = BodyLength(t)
<1>1. s[1] = t[1] /\ s # <<>> /\ t # <<>>
  OBVIOUS
<1>2. Start(s) = Start(t)
  BY <1>1 DEF Start
<1>3. ASSUME Start(s) <= n PROVE SubSeq(s, 2, Start(s)) = SubSeq(t, 2, Start(s))
  <2>. DEFINE b == Start(s)
              p == SubSeq(s, 1 + 1, b)
              q == SubSeq(t, 1 + 1, b)
  <2>1. 1 \in Nat /\ b \in Nat /\ b \in 1..Len(s) /\ b \in 1..Len(t) /\ b <= n
    BY <1>1, <1>3, StartAndLength
  <2>. HIDE DEF b
  <2>2. p \in Seq(Byte) /\ Len(p) = b - 1 /\ \A i \in 1..(b - 1) : p[i] = s[1 + i]
    BY <2>1, Part
  <2>3. q \in Seq(Byte) /\ Len(q) = b - 1 /\ \A i \in 1..(b - 1) : q[i] = t[1 + i]
    BY <2>1, Part
  <2>4. \A i \in 1..(b - 1) : 1 + i \in 1..n
    BY <2>1
  <2>. HIDE DEF p, q
  <2>5. p = q
    BY <2>2, <2>3, <2>4, SeqEqual
  <2>6. 1 + 1 = 2
    OBVIOUS
  <2>. QED BY <2>5, <2>6 DEF p, q, b
<1>. QED BY <1>1, <1>2, <1>3 DEF BodyLength

\* The frame is read as soon as it is complete and not a byte earlier.
Framed(s, body) ==
  /\ \A t \in Seq(Byte) : Frame(s \o t) = {[type  |-> ElementType(s[1]),
                                            index |-> SizeIndex(s[1]),
                                            body  |-> body,
                                            rest  |-> t]}
  /\ \A k \in 0..(Len(s) - 1) : Frame(SubSeq(s, 1, k)) = {}

LEMMA FrameExtends ==
  ASSUME NEW s \in Seq(Byte), s # <<>>, Start(s) <= Len(s),
         Start(s) + BodyLength(s) = Len(s), NEW t \in Seq(Byte)
  PROVE  Frame(s \o t) = {[type  |-> ElementType(s[1]),
                           index |-> SizeIndex(s[1]),
                           body  |-> SubSeq(s, Start(s) + 1, Len(s)),
                           rest  |-> t]}
<1>. DEFINE a == Start(s)
            n == Len(s)
            w == s \o t
<1>1. a \in Nat \ {0} /\ n \in Nat \ {0} /\ BodyLength(s) \in Nat /\ Len(t) \in Nat
  BY StartAndLength
<1>2. w \in Seq(Byte) /\ Len(w) = n + Len(t) /\ \A i \in 1..n : w[i] = s[i]
  BY Joined
<1>3. s[1] = w[1] /\ Start(w) = a /\ BodyLength(w) = BodyLength(s)
  <2>. HIDE DEF w
  <2>1. n <= Len(w) /\ \A i \in 1..n : s[i] = w[i]
    BY <1>1, <1>2
  <2>2. s[1] = w[1] /\ Start(s) = Start(w) /\ (Start(s) <= n => BodyLength(s) = BodyLength(w))
    <3>. HIDE DEF n
    <3>1. n <= Len(s)
      BY <1>1 DEF n
    <3>. QED BY <1>1, <1>2, <2>1, <3>1, SameWidths
  <2>. QED BY <2>2
<1>4. w # <<>> /\ Len(w) >= a /\ Len(w) - a >= BodyLength(s) /\ a + BodyLength(s) = n
  <2>. HIDE DEF w
  <2>1. Len(w) >= a /\ Len(w) - a >= BodyLength(s) /\ a + BodyLength(s) = n
    BY <1>1, <1>2
  <2>2. Len(w) # 0
    BY <1>1, <1>2
  <2>. QED BY <2>1, <2>2
<1>5. SubSeq(w, a + 1, n) = SubSeq(s, a + 1, n)
  <2>. HIDE DEF w
  <2>. DEFINE p == SubSeq(w, a + 1, n)
              q == SubSeq(s, a + 1, n)
  <2>1. n \in a..Len(w) /\ n \in a..Len(s) /\ a \in Nat
    BY <1>1, <1>2
  <2>2. p \in Seq(Byte) /\ Len(p) = n - a /\ \A i \in 1..(n - a) : p[i] = w[a + i]
    BY <1>2, <2>1, Part
  <2>3. q \in Seq(Byte) /\ Len(q) = n - a /\ \A i \in 1..(n - a) : q[i] = s[a + i]
    BY <2>1, Part
  <2>4. \A i \in 1..(n - a) : a + i \in 1..n
    BY <1>1
  <2>. HIDE DEF p, q
  <2>5. p = q
    BY <1>2, <2>2, <2>3, <2>4, SeqEqual
  <2>. QED BY <2>5 DEF p, q
<1>6. SubSeq(w, n + 1, Len(w)) = t
  <2>1. n + Len(t) <= Len(w) /\ \A i \in 1..Len(t) : w[n + i] = t[i]
    BY <1>1, <1>2, Joined
  <2>. HIDE DEF w, n
  <2>2. SubSeq(w, n + 1, n + Len(t)) = t
    BY <1>1, <1>2, <2>1, PartIs
  <2>. QED BY <1>2, <2>2
<1>. HIDE DEF w, n, a
<1>7. Frame(w) = {FrameAt(w, a, BodyLength(s))}
  BY <1>3, <1>4, FrameForm
<1>8. FrameAt(w, a, BodyLength(s)) =
        [type  |-> ElementType(s[1]),
         index |-> SizeIndex(s[1]),
         body  |-> SubSeq(s, a + 1, n),
         rest  |-> t]
  BY <1>3, <1>4, <1>5, <1>6 DEF FrameAt
<1>. QED BY <1>7, <1>8 DEF w, n, a

LEMMA FrameCut ==
  ASSUME NEW s \in Seq(Byte), s # <<>>, Start(s) <= Len(s),
         Start(s) + BodyLength(s) = Len(s), NEW k \in 0..(Len(s) - 1)
  PROVE  Frame(SubSeq(s, 1, k)) = {}
<1>. DEFINE t == SubSeq(s, 1, k)
<1>1. Start(s) \in Nat \ {0} /\ Len(s) \in Nat \ {0} /\ BodyLength(s) \in Nat
      /\ k \in Nat /\ k < Len(s) /\ k <= Len(s) /\ k \in 0..Len(s)
  BY StartAndLength
<1>2. t \in Seq(Byte) /\ Len(t) = k /\ \A i \in 1..k : t[i] = s[i]
  BY <1>1, Prefix
<1>. HIDE DEF t
<1>3. CASE k = 0
  <2>1. t = <<>>
    BY <1>2, <1>3
  <2>. QED BY <2>1, FrameForm DEF t
<1>4. CASE k # 0
  <2>1. /\ s[1] = t[1] /\ Start(s) = Start(t)
        /\ Start(s) <= k => BodyLength(s) = BodyLength(t)
    <3>1. k \in Nat \ {0} /\ k <= Len(t) /\ \A i \in 1..k : s[i] = t[i]
      BY <1>1, <1>2, <1>4
    <3>. QED BY <1>1, <1>2, <3>1, SameWidths
  <2>2. ~(Len(t) >= Start(t) /\ Len(t) - Start(t) >= BodyLength(t))
    <3>1. CASE Start(s) <= k
      BY <1>1, <1>2, <2>1, <3>1
    <3>2. CASE ~(Start(s) <= k)
      BY <1>1, <1>2, <2>1, <3>2
    <3>. QED BY <3>1, <3>2
  <2>. QED BY <2>2, FrameForm DEF t
<1>. QED BY <1>3, <1>4

\* An element that has the length its descriptor and its length field say.
LEMMA CompleteFrame ==
  ASSUME NEW s \in Seq(Byte), s # <<>>, Start(s) <= Len(s),
         Start(s) + BodyLength(s) = Len(s)
  PROVE  Framed(s, SubSeq(s, Start(s) + 1, Len(s)))
BY FrameExtends, FrameCut DEF Framed

\* What a frame leaves to be read is shorter than what it is read from.
LEMMA FrameShrinks ==
  ASSUME NEW s \in Seq(Byte), NEW frame \in Frame(s)
  PROVE  /\ frame.body \in Seq(Byte) /\ Len(frame.body) < Len(s)
         /\ frame.rest \in Seq(Byte) /\ Len(frame.rest) < Len(s)
<1>. DEFINE a == Start(s)
            l == BodyLength(s)
            n == Len(s)
<1>1. s # <<>> /\ n >= a /\ n - a >= l /\ frame = FrameAt(s, a, l)
  BY FrameForm
<1>2. a \in Nat \ {0} /\ n \in Nat \ {0} /\ l \in Nat
  BY <1>1, StartAndLength
<1>3. a \in Nat /\ a + l \in a..n /\ n \in (a + l)..n /\ a + l \in Nat
      /\ (a + l) - a = l
  <2>. HIDE DEF a, l, n
  <2>. QED BY <1>1, <1>2
<1>. HIDE DEF a, l
<1>4. SubSeq(s, a + 1, a + l) \in Seq(Byte) /\ Len(SubSeq(s, a + 1, a + l)) = l
  BY <1>3, Part
<1>5. /\ SubSeq(s, a + l + 1, n) \in Seq(Byte)
      /\ Len(SubSeq(s, a + l + 1, n)) = n - (a + l)
  <2>. DEFINE k == a + l
  <2>1. k \in Nat /\ Len(s) \in k..Len(s)
    BY <1>3
  <2>. HIDE DEF k
  <2>2. SubSeq(s, k + 1, Len(s)) \in Seq(Byte) /\ Len(SubSeq(s, k + 1, Len(s))) = Len(s) - k
    BY <2>1, Part
  <2>. QED BY <2>2 DEF k
<1>6. frame.body = SubSeq(s, a + 1, a + l) /\ frame.rest = SubSeq(s, a + l + 1, n)
  BY <1>1 DEF FrameAt
<1>. HIDE DEF n
<1>7. l < n /\ n - (a + l) < n
  BY <1>1, <1>2, <1>3
<1>. QED BY <1>4, <1>5, <1>6, <1>7 DEF n

-----------------------------------------------------------------------------
(* Data elements: the recursive function sequence_contents.                   *)

\* The element in a frame, with all that follows it.
Elements(frame, contents, rest) ==
  {<<element>> \o others : element \in Interpret(frame, contents), others \in rest}

\* One level of it, with f in the place of the recursive calls.
Unfold(f, body) ==
  IF body = <<>>
    THEN {<<>>}
    ELSE UNION {Elements(frame, f[frame.body], f[frame.rest]) : frame \in Frame(body)}

\* f is what sequence_contents is on the sequences of S.
Unfolds(f, S) == f = [body \in S |-> Unfold(f, body)]

UpTo(n) == {s \in Seq(Byte) : Len(s) <= n}

LEMMA ContentsForm ==
  sequence_contents = CHOOSE f : Unfolds(f, Seq(Byte))
BY DEF sequence_contents, Unfolds, Unfold, Elements

\* The recursive calls are for shorter sequences.
LEMMA UnfoldLocal ==
  ASSUME NEW s \in Seq(Byte), NEW f, NEW g,
         \A t \in Seq(Byte) : Len(t) < Len(s) => f[t] = g[t]
  PROVE  Unfold(f, s) = Unfold(g, s)
<1>1. \A frame \in Frame(s) : f[frame.body] = g[frame.body] /\ f[frame.rest] = g[frame.rest]
  BY FrameShrinks
<1>2. {Elements(frame, f[frame.body], f[frame.rest]) : frame \in Frame(s)} =
      {Elements(frame, g[frame.body], g[frame.rest]) : frame \in Frame(s)}
  BY <1>1
<1>. QED BY <1>2 DEF Unfold

\* There is no other such function, on sequences and all that are shorter.
Closed(S) ==
  S \subseteq Seq(Byte) /\ \A s \in S, t \in Seq(Byte) : Len(t) < Len(s) => t \in S

LEMMA UnfoldsUnique ==
  ASSUME NEW S, NEW R, Closed(S), Closed(R), NEW f, NEW g, Unfolds(f, S), Unfolds(g, R)
  PROVE  \A s \in S \cap R : f[s] = g[s]
<1>. DEFINE T == {n \in Nat : \A s \in S \cap R : Len(s) < n => f[s] = g[s]}
<1>1. 0 \in T
  OBVIOUS
<1>2. ASSUME NEW n \in Nat, n \in T, NEW s \in S \cap R, Len(s) < n + 1
      PROVE  f[s] = g[s]
  <2>1. ASSUME NEW t \in Seq(Byte), Len(t) < Len(s) PROVE f[t] = g[t]
    <3>1. t \in S \cap R
      BY <2>1 DEF Closed
    <3>2. Len(t) \in Nat /\ Len(s) \in Nat
      BY DEF Closed
    <3>3. Len(t) < n
      BY <1>2, <2>1, <3>2
    <3>. QED BY <1>2, <3>1, <3>3
  <2>2. Unfold(f, s) = Unfold(g, s)
    <3>1. s \in Seq(Byte)
      BY DEF Closed
    <3>. HIDE DEF T
    <3>. QED BY <2>1, <3>1, UnfoldLocal
  <2>3. f[s] = Unfold(f, s) /\ g[s] = Unfold(g, s)
    BY DEF Unfolds
  <2>. QED BY <2>2, <2>3
<1>3. \A n \in Nat : n \in T => n + 1 \in T
  BY <1>2
<1>. HIDE DEF T
<1>4. Nat \subseteq T
  BY <1>1, <1>3, NatInduct
<1>5. ASSUME NEW s \in S \cap R PROVE f[s] = g[s]
  <2>1. Len(s) + 1 \in Nat /\ Len(s) < Len(s) + 1
    BY DEF Closed
  <2>2. Len(s) + 1 \in T
    BY <1>4, <2>1
  <2>. QED BY <2>1, <2>2 DEF T
<1>. QED BY <1>5

LEMMA UpToExists == \A n \in Nat : \E f : Unfolds(f, UpTo(n))
<1>. DEFINE T == {n \in Nat : \E f : Unfolds(f, UpTo(n))}
<1>1. ASSUME NEW n \in Int, NEW f, n >= -1, Unfolds(f, UpTo(n))
      PROVE  \E g : Unfolds(g, UpTo(n + 1))
  <2>. DEFINE g == [s \in UpTo(n + 1) |-> Unfold(f, s)]
  <2>1. ASSUME NEW s \in UpTo(n + 1) PROVE g[s] = Unfold(g, s)
    <3>1. ASSUME NEW t \in Seq(Byte), Len(t) < Len(s) PROVE f[t] = g[t]
      <4>1. s \in Seq(Byte) /\ Len(s) <= n + 1 /\ Len(s) \in Nat /\ Len(t) \in Nat
        BY DEF UpTo
      <4>2. Len(t) <= n /\ Len(t) <= n + 1
        BY <3>1, <4>1
      <4>3. t \in UpTo(n) /\ t \in UpTo(n + 1)
        BY <4>2 DEF UpTo
      <4>. QED BY <1>1, <4>3 DEF Unfolds
    <3>2. s \in Seq(Byte)
      BY DEF UpTo
    <3>3. g[s] = Unfold(f, s)
      OBVIOUS
    <3>. HIDE DEF g
    <3>. QED BY <3>1, <3>2, <3>3, UnfoldLocal
  <2>2. g = [s \in UpTo(n + 1) |-> g[s]]
    OBVIOUS
  <2>. HIDE DEF g
  <2>3. Unfolds(g, UpTo(n + 1))
    BY <2>1, <2>2 DEF Unfolds
  <2>. QED BY <2>3
<1>2. 0 \in T
  <2>1. UpTo(-1) = {}
    BY DEF UpTo
  <2>2. Unfolds([s \in {} |-> s], UpTo(-1))
    BY <2>1 DEF Unfolds
  <2>3. -1 \in Int /\ -1 >= -1 /\ -1 + 1 = 0
    OBVIOUS
  <2>4. \E g : Unfolds(g, UpTo(0))
    <3>. HIDE DEF T
    <3>1. \E g : Unfolds(g, UpTo(-1 + 1))
      BY <1>1, <2>2, <2>3
    <3>. QED BY <2>3, <3>1
  <2>. QED BY <2>4
<1>3. \A n \in Nat : n \in T => n + 1 \in T
  BY <1>1
<1>. HIDE DEF T
<1>4. Nat \subseteq T
  BY <1>2, <1>3, NatInduct
<1>. QED BY <1>4 DEF T

LEMMA ContentsExist == \E f : Unfolds(f, Seq(Byte))
<1>. DEFINE part(n) == CHOOSE f : Unfolds(f, UpTo(n))
            f == [s \in Seq(Byte) |-> part(Len(s))[s]]
<1>1. \A n \in Nat : Unfolds(part(n), UpTo(n))
  BY UpToExists
<1>2. ASSUME NEW n \in Nat PROVE Closed(UpTo(n))
  <2>1. ASSUME NEW s \in UpTo(n), NEW t \in Seq(Byte), Len(t) < Len(s) PROVE t \in UpTo(n)
    <3>1. Len(t) \in Nat /\ Len(s) \in Nat /\ Len(s) <= n
      BY DEF UpTo
    <3>. QED BY <2>1, <3>1 DEF UpTo
  <2>. QED BY <2>1 DEF Closed, UpTo
<1>. HIDE DEF part
<1>3. ASSUME NEW s \in Seq(Byte) PROVE f[s] = Unfold(f, s)
  <2>. DEFINE g == part(Len(s))
  <2>1. Len(s) \in Nat /\ s \in UpTo(Len(s)) /\ Unfolds(g, UpTo(Len(s)))
    BY <1>1 DEF UpTo
  <2>2. f[s] = Unfold(g, s)
    <3>1. f[s] = g[s]
      OBVIOUS
    <3>. QED BY <2>1, <3>1 DEF Unfolds
  <2>3. ASSUME NEW t \in Seq(Byte), Len(t) < Len(s) PROVE g[t] = f[t]
    <3>1. Len(t) \in Nat /\ t \in UpTo(Len(t)) /\ Unfolds(part(Len(t)), UpTo(Len(t)))
      BY <1>1 DEF UpTo
    <3>2. t \in UpTo(Len(s))
      BY <1>2, <2>1, <2>3 DEF Closed
    <3>3. \A x \in UpTo(Len(s)) \cap UpTo(Len(t)) : g[x] = part(Len(t))[x]
      <4>. DEFINE h == part(Len(t))
      <4>1. Closed(UpTo(Len(s))) /\ Closed(UpTo(Len(t)))
        BY <1>2, <2>1, <3>1
      <4>2. Unfolds(g, UpTo(Len(s))) /\ Unfolds(h, UpTo(Len(t)))
        BY <2>1, <3>1
      <4>. HIDE DEF f, g, h
      <4>3. \A x \in UpTo(Len(s)) \cap UpTo(Len(t)) : g[x] = h[x]
        BY <4>1, <4>2, UnfoldsUnique
      <4>. QED BY <4>3 DEF h
    <3>. QED BY <3>1, <3>2, <3>3
  <2>. HIDE DEF f, g
  <2>4. Unfold(g, s) = Unfold(f, s)
    BY <2>3, UnfoldLocal
  <2>. QED BY <2>2, <2>4
<1>4. f = [s \in Seq(Byte) |-> f[s]]
  OBVIOUS
<1>. HIDE DEF f
<1>5. Unfolds(f, Seq(Byte))
  BY <1>3, <1>4 DEF Unfolds
<1>. QED BY <1>5

\* What the program computes by calling itself.
LEMMA ContentsUnfold ==
  ASSUME NEW s \in Seq(Byte)
  PROVE  sequence_contents[s] = Unfold(sequence_contents, s)
<1>1. Unfolds(sequence_contents, Seq(Byte))
  BY ContentsExist, ContentsForm
<1>. QED BY <1>1 DEF Unfolds

LEMMA ContentsEmpty == sequence_contents[<<>>] = {<<>>}
<1>1. <<>> \in Seq(Byte)
  OBVIOUS
<1>2. Unfold(sequence_contents, <<>>) = {<<>>}
  BY Zenon DEF Unfold
<1>. QED BY <1>1, <1>2, ContentsUnfold

\* What a parser returns of an element that means the one thing in meaning, before
\* the bytes of rest, and before all that is read from there.
OneRead(meaning, rest) == {[rest |-> rest, element |-> element] : element \in meaning}
Followed(meaning, contents) ==
  {<<element>> \o others : element \in meaning, others \in contents}

\* s is an element: it means the one thing in meaning, or nothing the parser
\* supports.  It is read wherever it stands, and no part of it is.
ReadsAs(s, meaning) ==
  /\ s \in Seq(Byte) /\ s # <<>>
  /\ \A t \in Seq(Byte) :
       /\ data_element(s \o t) = OneRead(meaning, t)
       /\ sequence_contents[s \o t] = Followed(meaning, sequence_contents[t])
  /\ \A k \in 0..(Len(s) - 1) : data_element(SubSeq(s, 1, k)) = {}

FrameOf(s, body, rest) ==
  [type |-> ElementType(s[1]), index |-> SizeIndex(s[1]), body |-> body, rest |-> rest]

\* What an element means is the business of its type, size index and body.
MeaningOf(s, body) == Interpret(FrameOf(s, body, <<>>), sequence_contents[body])

LEMMA MeaningOfFrame ==
  ASSUME NEW s, NEW body, NEW rest
  PROVE  Interpret(FrameOf(s, body, rest), sequence_contents[body]) = MeaningOf(s, body)
<1>. DEFINE f == FrameOf(s, body, rest)
            g == FrameOf(s, body, <<>>)
<1>1. f.type = g.type /\ f.index = g.index /\ f.body = g.body
  BY DEF FrameOf
<1>. HIDE DEF f, g
<1>2. \A c : Interpret(f, c) = Interpret(g, c)
  BY <1>1 DEF Interpret
<1>. QED BY <1>2 DEF MeaningOf, f, g

LEMMA FramedReads ==
  ASSUME NEW s \in Seq(Byte), s # <<>>, NEW body, Framed(s, body)
  PROVE  ReadsAs(s, MeaningOf(s, body))
<1>. DEFINE m == MeaningOf(s, body)
<1>1. ASSUME NEW t \in Seq(Byte) PROVE Frame(s \o t) = {FrameOf(s, body, t)}
  BY DEF Framed, FrameOf
<1>2. ASSUME NEW t \in Seq(Byte)
      PROVE  data_element(s \o t) = OneRead(m, t)
  <2>. DEFINE f == FrameOf(s, body, t)
  <2>1. f.body = body /\ f.rest = t /\ Interpret(f, sequence_contents[body]) = m
    BY MeaningOfFrame DEF FrameOf
  <2>2. Frame(s \o t) = {f}
    BY <1>1
  <2>. HIDE DEF f, m
  <2>3. data_element(s \o t) =
          {[rest |-> f.rest, element |-> element] :
             element \in Interpret(f, sequence_contents[f.body])}
    BY <2>2 DEF data_element
  <2>. QED BY <2>1, <2>3 DEF OneRead
<1>3. ASSUME NEW t \in Seq(Byte)
      PROVE  sequence_contents[s \o t] = Followed(m, sequence_contents[t])
  <2>. DEFINE f == FrameOf(s, body, t)
  <2>1. f.body = body /\ f.rest = t /\ Interpret(f, sequence_contents[body]) = m
    BY MeaningOfFrame DEF FrameOf
  <2>2. Frame(s \o t) = {f}
    BY <1>1
  <2>3. s \o t \in Seq(Byte) /\ s \o t # <<>>
    <3>1. s \o t \in Seq(Byte) /\ Len(s \o t) = Len(s) + Len(t) /\ Len(s) \in Nat \ {0}
          /\ Len(t) \in Nat
      BY Joined
    <3>2. Len(s \o t) # 0
      BY <3>1
    <3>. QED BY <3>1, <3>2
  <2>. DEFINE w == s \o t
  <2>. HIDE DEF f, m, w
  <2>4. Unfold(sequence_contents, w) =
          Elements(f, sequence_contents[f.body], sequence_contents[f.rest])
    BY <2>2, <2>3 DEF Unfold, w
  <2>5. Elements(f, sequence_contents[f.body], sequence_contents[f.rest]) =
          Followed(m, sequence_contents[t])
    BY <2>1 DEF Elements, Followed
  <2>6. sequence_contents[w] = Unfold(sequence_contents, w)
    BY <2>3, ContentsUnfold DEF w
  <2>. QED BY <2>4, <2>5, <2>6 DEF w
<1>4. ASSUME NEW k \in 0..(Len(s) - 1) PROVE data_element(SubSeq(s, 1, k)) = {}
  <2>1. Frame(SubSeq(s, 1, k)) = {}
    BY DEF Framed
  <2>. QED BY <2>1 DEF data_element
<1>. HIDE DEF m
<1>5. ReadsAs(s, m)
  BY <1>2, <1>3, <1>4 DEF ReadsAs
<1>. QED BY <1>5 DEF m

-----------------------------------------------------------------------------
(* What any bytes are read as: elements, of elements through and through.      *)

ElementSet(S) ==
  \A x \in S : \/ x = Unknown
               \/ \E n \in Nat : x = UnsignedInt(n)
               \/ \E n : x = Uuid16(n)
               \/ \E s \in Seq(S) : x = Sequence(s)

\* Sequences over an element set, and leaves, may be added to it.
LEMMA WiderElementSet ==
  ASSUME NEW S, ElementSet(S), NEW R,
         \A x \in R : \/ x = Unknown
                      \/ \E n \in Nat : x = UnsignedInt(n)
                      \/ \E n : x = Uuid16(n)
                      \/ \E s \in Seq(S) : x = Sequence(s)
  PROVE  ElementSet(S \cup R)
<1>1. Seq(S) \subseteq Seq(S \cup R)
  BY SeqMonotonic
<1>2. ASSUME NEW x \in S \cup R
      PROVE  \/ x = Unknown
             \/ \E n \in Nat : x = UnsignedInt(n)
             \/ \E n : x = Uuid16(n)
             \/ \E s \in Seq(S \cup R) : x = Sequence(s)
  <2>1. \/ x = Unknown
        \/ \E n \in Nat : x = UnsignedInt(n)
        \/ \E n : x = Uuid16(n)
        \/ \E s \in Seq(S) : x = Sequence(s)
    BY DEF ElementSet
  <2>. QED BY <1>1, <2>1
<1>. QED BY <1>2 DEF ElementSet

LEMMA ElementSetsJoin ==
  ASSUME NEW S, ElementSet(S), NEW R, ElementSet(R)
  PROVE  ElementSet(S \cup R)
<1>1. Seq(S) \subseteq Seq(S \cup R) /\ Seq(R) \subseteq Seq(S \cup R)
  BY SeqMonotonic
<1>2. ASSUME NEW x \in S \cup R
      PROVE  \/ x = Unknown
             \/ \E n \in Nat : x = UnsignedInt(n)
             \/ \E n : x = Uuid16(n)
             \/ \E s \in Seq(S \cup R) : x = Sequence(s)
  <2>1. \/ x = Unknown
        \/ \E n \in Nat : x = UnsignedInt(n)
        \/ \E n : x = Uuid16(n)
        \/ \E s \in Seq(S) \cup Seq(R) : x = Sequence(s)
    BY DEF ElementSet
  <2>. QED BY <1>1, <2>1
<1>. QED BY <1>2 DEF ElementSet

\* A parser's result: nothing, or one element; nothing, or one list of them.
OneElement(results) ==
  \E S : ElementSet(S) /\ (results = {} \/ \E e \in S : results = {e})
OneList(results) ==
  \E S : ElementSet(S) /\ (results = {} \/ \E t \in Seq(S) : results = {t})

LEMMA NoResult == OneElement({}) /\ OneList({})
<1>1. ElementSet({})
  BY DEF ElementSet
<1>. QED BY <1>1 DEF OneElement, OneList

LEMMA InterpretsOne ==
  ASSUME NEW frame, frame.body \in Seq(Byte), NEW contents, OneList(contents)
  PROVE  OneElement(Interpret(frame, contents))
<1>. DEFINE results == Interpret(frame, contents)
<1>. SUFFICES OneElement(results)
  OBVIOUS
<1>1. ElementSet({})
  BY DEF ElementSet
<1>2. ASSUME NEW x, results = {x},
             x = Unknown \/ (\E n \in Nat : x = UnsignedInt(n)) \/ \E n : x = Uuid16(n)
      PROVE  OneElement(results)
  <2>. HIDE DEF results
  <2>1. ElementSet({} \cup {x})
    BY <1>1, <1>2, WiderElementSet
  <2>2. {} \cup {x} = {x} /\ x \in {x}
    OBVIOUS
  <2>3. ElementSet({x})
    BY <2>1, <2>2
  <2>. QED BY <1>2, <2>2, <2>3 DEF OneElement
<1>3. BigEndian(frame.body) \in Nat
  BY BigEndianType, ByteIsNat
<1>4. CASE frame.type = UINT_TYPE
  <2>1. results = {UnsignedInt(n) : n \in IF Len(frame.body) \in {1, 2, 4}
                                           THEN {BigEndian(frame.body)} ELSE {}}
    BY <1>4 DEF Interpret, UINT_TYPE, UUID_TYPE, SEQUENCE_TYPE
  <2>2. results = {} \/ results = {UnsignedInt(BigEndian(frame.body))}
    BY <2>1
  <2>. HIDE DEF results
  <2>. QED BY <1>2, <1>3, <2>2, NoResult
<1>5. CASE frame.type # UINT_TYPE /\ frame.type = UUID_TYPE /\ frame.index = 1
  <2>1. results = {Uuid16(n) : n \in uuid16_value(frame.body)}
    BY <1>5 DEF Interpret, UINT_TYPE, UUID_TYPE, SEQUENCE_TYPE
  <2>2. results = {} \/ results = {Uuid16(BigEndian(frame.body))}
    BY <2>1 DEF uuid16_value
  <2>. HIDE DEF results
  <2>. QED BY <1>2, <2>2, NoResult
<1>6. CASE frame.type = SEQUENCE_TYPE
  <2>1. results = {Sequence(elements) : elements \in contents}
    BY <1>6 DEF Interpret, UINT_TYPE, UUID_TYPE, SEQUENCE_TYPE
  <2>2. PICK S : ElementSet(S) /\ (contents = {} \/ \E t \in Seq(S) : contents = {t})
    BY DEF OneList
  <2>. HIDE DEF results
  <2>3. CASE contents = {}
    <3>1. results = {}
      BY <2>1, <2>3
    <3>. QED BY <3>1, NoResult
  <2>4. ASSUME NEW t \in Seq(S), contents = {t} PROVE OneElement(results)
    <3>1. results = {Sequence(t)}
      BY <2>1, <2>4
    <3>2. ElementSet(S \cup {Sequence(t)})
      BY <2>2, WiderElementSet
    <3>. QED BY <3>1, <3>2 DEF OneElement
  <2>. QED BY <2>2, <2>3, <2>4
<1>7. CASE /\ frame.type # UINT_TYPE /\ frame.type # SEQUENCE_TYPE
           /\ ~(frame.type = UUID_TYPE /\ frame.index = 1)
  <2>1. results = {Unknown}
    BY <1>7 DEF Interpret
  <2>. HIDE DEF results
  <2>. QED BY <1>2, <2>1
<1>. QED BY <1>4, <1>5, <1>6, <1>7

\* One element and the elements behind it.
LEMMA OneMoreElement ==
  ASSUME NEW first, OneElement(first), NEW others, OneList(others)
  PROVE  OneList(Followed(first, others))
<1>. DEFINE all == Followed(first, others)
<1>. SUFFICES OneList(all)
  OBVIOUS
<1>1. PICK S : ElementSet(S) /\ (first = {} \/ \E e \in S : first = {e})
  BY DEF OneElement
<1>2. PICK R : ElementSet(R) /\ (others = {} \/ \E t \in Seq(R) : others = {t})
  BY DEF OneList
<1>3. ASSUME first = {} \/ others = {} PROVE all = {}
  <2>1. Followed({}, others) = {}
    BY DEF Followed
  <2>2. Followed(first, {}) = {}
    BY DEF Followed
  <2>. QED BY <1>3, <2>1, <2>2
<1>4. ASSUME NEW e \in S, first = {e}, NEW t \in Seq(R), others = {t}
      PROVE  OneList(all)
  <2>1. all = {<<e>> \o t}
    BY <1>4 DEF Followed
  <2>2. ElementSet(S \cup R)
    BY <1>1, <1>2, ElementSetsJoin
  <2>3. <<e>> \in Seq(S \cup R) /\ t \in Seq(S \cup R)
    <3>1. Seq(R) \subseteq Seq(S \cup R)
      BY SeqMonotonic
    <3>. QED BY <3>1
  <2>4. <<e>> \o t \in Seq(S \cup R)
    BY <2>3, ConcatProperties
  <2>. HIDE DEF all
  <2>. QED BY <2>1, <2>2, <2>4 DEF OneList
<1>5. CASE first = {} \/ others = {}
  <2>1. all = {}
    <3>. HIDE DEF all
    <3>. QED BY <1>3, <1>5
  <2>. HIDE DEF all
  <2>. QED BY <2>1, NoResult
<1>. HIDE DEF all
<1>. QED BY <1>1, <1>2, <1>4, <1>5

LEMMA OneFrame ==
  ASSUME NEW s
  PROVE  Frame(s) = {} \/ \E frame : Frame(s) = {frame}
BY FrameForm

\* Whatever the bytes: by induction on their length.
LEMMA ContentsAreElements ==
  ASSUME NEW s \in Seq(Byte)
  PROVE  OneList(sequence_contents[s])
<1>. DEFINE T == {n \in Nat : \A t \in Seq(Byte) :
                                Len(t) < n => OneList(sequence_contents[t])}
<1>1. 0 \in T
  OBVIOUS
<1>2. ASSUME NEW n \in Nat, n \in T, NEW t \in Seq(Byte), Len(t) < n + 1
      PROVE  OneList(sequence_contents[t])
  <2>1. sequence_contents[t] = Unfold(sequence_contents, t)
    BY ContentsUnfold
  <2>2. CASE t = <<>>
    <3>1. sequence_contents[t] = {<<>>}
      BY <2>2, ContentsEmpty
    <3>2. ElementSet({}) /\ <<>> \in Seq({})
      BY DEF ElementSet
    <3>. QED BY <3>1, <3>2 DEF OneList
  <2>3. CASE t # <<>> /\ Frame(t) = {}
    <3>1. sequence_contents[t] = {}
      BY <2>1, <2>3 DEF Unfold
    <3>. QED BY <3>1, NoResult
  <2>4. ASSUME t # <<>>, NEW frame, Frame(t) = {frame}
        PROVE  OneList(sequence_contents[t])
    <3>. DEFINE inner == sequence_contents[frame.body]
                outer == sequence_contents[frame.rest]
    <3>1. sequence_contents[t] = Elements(frame, inner, outer)
      BY <2>1, <2>4 DEF Unfold
    <3>2. /\ frame.body \in Seq(Byte) /\ Len(frame.body) < Len(t)
          /\ frame.rest \in Seq(Byte) /\ Len(frame.rest) < Len(t)
      BY <2>4, FrameShrinks
    <3>3. Len(frame.body) < n /\ Len(frame.rest) < n
      <4>1. Len(frame.body) \in Nat /\ Len(frame.rest) \in Nat /\ Len(t) \in Nat
        BY <3>2
      <4>. QED BY <1>2, <3>2, <4>1
    <3>4. OneList(inner) /\ OneList(outer)
      BY <1>2, <3>2, <3>3
    <3>. HIDE DEF inner, outer
    <3>5. OneElement(Interpret(frame, inner))
      BY <3>2, <3>4, InterpretsOne
    <3>6. OneList(Elements(frame, inner, outer))
      <4>1. Elements(frame, inner, outer) = Followed(Interpret(frame, inner), outer)
        BY DEF Elements, Followed
      <4>. QED BY <3>4, <3>5, <4>1, OneMoreElement
    <3>. QED BY <3>1, <3>6
  <2>. QED BY <2>2, <2>3, <2>4, OneFrame
<1>3. \A n \in Nat : n \in T => n + 1 \in T
  BY <1>2
<1>. HIDE DEF T
<1>4. Nat \subseteq T
  BY <1>1, <1>3, NatInduct
<1>5. Len(s) + 1 \in T /\ Len(s) < Len(s) + 1
  BY <1>4
<1>. QED BY <1>5 DEF T

\* data_element reads one element at most.
ReadsOne(s, S) ==
  \/ data_element(s) = {}
  \/ \E e \in S, rest \in Seq(Byte) : data_element(s) = {[rest |-> rest, element |-> e]}

LEMMA ElementIsRead ==
  ASSUME NEW s \in Seq(Byte)
  PROVE  \E S : ElementSet(S) /\ ReadsOne(s, S)
<1>1. CASE Frame(s) = {}
  <2>1. data_element(s) = {}
    BY <1>1 DEF data_element
  <2>. QED BY <2>1 DEF ReadsOne, ElementSet
<1>2. ASSUME NEW frame, Frame(s) = {frame}
      PROVE  \E S : ElementSet(S) /\ ReadsOne(s, S)
  <2>. DEFINE first == Interpret(frame, sequence_contents[frame.body])
  <2>1. data_element(s) = {[rest |-> frame.rest, element |-> element] : element \in first}
    BY <1>2 DEF data_element
  <2>2. frame.body \in Seq(Byte) /\ frame.rest \in Seq(Byte)
    BY <1>2, FrameShrinks
  <2>3. OneElement(first)
    BY <2>2, ContentsAreElements, InterpretsOne
  <2>. HIDE DEF first
  <2>4. PICK S : ElementSet(S) /\ (first = {} \/ \E e \in S : first = {e})
    BY <2>3 DEF OneElement
  <2>5. CASE first = {}
    <3>1. data_element(s) = {}
      BY <2>1, <2>5
    <3>. QED BY <2>4, <3>1 DEF ReadsOne
  <2>6. ASSUME NEW e \in S, first = {e} PROVE ReadsOne(s, S)
    <3>1. data_element(s) = {[rest |-> frame.rest, element |-> e]}
      BY <2>1, <2>6
    <3>. QED BY <2>2, <3>1 DEF ReadsOne
  <2>. QED BY <2>4, <2>5, <2>6
<1>. QED BY <1>1, <1>2, OneFrame

-----------------------------------------------------------------------------
(* Attribute lists.                                                           *)

\* What kind of element it is says what it is.
LEMMA KindTells ==
  ASSUME NEW S, ElementSet(S), NEW x \in S
  PROVE  /\ x.kind = "Sequence" => \E s \in Seq(S) : x = Sequence(s)
         /\ x.kind = "UnsignedInt" => \E n \in Nat : x = UnsignedInt(n)
<1>1. \/ x = Unknown
      \/ \E n \in Nat : x = UnsignedInt(n)
      \/ \E n : x = Uuid16(n)
      \/ \E s \in Seq(S) : x = Sequence(s)
  BY DEF ElementSet
<1>2. CASE x = Unknown
  BY <1>2 DEF Unknown
<1>3. CASE \E n \in Nat : x = UnsignedInt(n)
  BY <1>3 DEF UnsignedInt
<1>4. CASE \E n : x = Uuid16(n)
  BY <1>4 DEF Uuid16
<1>5. CASE \E s \in Seq(S) : x = Sequence(s)
  BY <1>5 DEF Sequence
<1>. QED BY <1>1, <1>2, <1>3, <1>4, <1>5

LEMMA KindOfSequence ==
  \A s : Sequence(s).kind = "Sequence" /\ Sequence(s).elements = s
BY DEF Sequence

\* The lists of a list of elements: each record's attributes, which there are.
ListsOf(s, lists) ==
  /\ Len(lists) = Len(s)
  /\ \A i \in 1..Len(s) : lists[i] \in RecordAttributes(s[i])
  /\ \A i \in 1..Len(s) : RecordAttributes(s[i]) = {lists[i]}
  /\ lists = [i \in 1..Len(s) |-> lists[i]]

\* A record decodes to one list at most.
LEMMA RecordSingle ==
  ASSUME NEW x
  PROVE  RecordAttributes(x) = {} \/ \E list : RecordAttributes(x) = {list}
<1>1. attribute_list(x.elements) = {} \/ attribute_list(x.elements) = {Pairs(x.elements)}
  BY DEF attribute_list
<1>. QED BY <1>1 DEF RecordAttributes

\* If the lists are there, each record decodes.
LEMMA ListsAre ==
  ASSUME NEW S, NEW s \in Seq(S), NEW lists \in AttributeLists(Sequence(s))
  PROVE  ListsOf(s, lists)
<1>. DEFINE n == Len(s)
            A(i) == RecordAttributes(s[i])
            all == [i \in 1..n |-> A(i)]
            chosen == [i \in 1..n |-> CHOOSE list \in A(i) : TRUE]
<1>1. Sequence(s).kind = "Sequence" /\ Sequence(s).elements = s /\ n \in Nat
  BY KindOfSequence
<1>2. Len(all) = n /\ \A i \in 1..n : all[i] = A(i)
  BY <1>1
<1>3. AttributeLists(Sequence(s)) =
        IF \E i \in 1..Len(all) : all[i] = {}
          THEN {} ELSE {[i \in 1..Len(all) |-> CHOOSE list \in all[i] : TRUE]}
  BY <1>1 DEF AttributeLists
<1>4. ~ \E i \in 1..n : A(i) = {}
  BY <1>2, <1>3
<1>5. [i \in 1..Len(all) |-> CHOOSE list \in all[i] : TRUE] = chosen
  BY <1>2
<1>6. lists = chosen
  <2>. HIDE DEF all, chosen
  <2>. QED BY <1>2, <1>3, <1>5
<1>7. Len(lists) = n
  BY <1>1, <1>6
<1>8. ASSUME NEW i \in 1..n
      PROVE  lists[i] \in A(i) /\ A(i) = {lists[i]}
  <2>1. PICK list : A(i) = {list}
    BY <1>4, RecordSingle
  <2>2. lists[i] = CHOOSE l \in A(i) : TRUE
    BY <1>6
  <2>. QED BY <2>1, <2>2
<1>9. lists = [i \in 1..n |-> lists[i]]
  BY <1>6
<1>. HIDE DEF chosen
<1>. QED BY <1>7, <1>8, <1>9 DEF ListsOf

-----------------------------------------------------------------------------
(* Channels.                                                                  *)

\* The least of a set of naturals is in it.
LEMMA MinIsIn ==
  ASSUME NEW T, T \subseteq Nat, T # {}
  PROVE  Min(T) \in T
BY LeastElement DEF Min

\* A list of attributes whose values are elements.
AttributesOf(list, S) ==
  Len(list) \in Nat /\ \A i \in 1..Len(list) : list[i][2] \in S

\* What a record decodes to is one.
LEMMA RecordValues ==
  ASSUME NEW S, ElementSet(S), NEW x \in S, NEW list \in RecordAttributes(x)
  PROVE  AttributesOf(list, S)
<1>1. CASE x.kind = "Sequence"
  <2>1. PICK t \in Seq(S) : x = Sequence(t)
    BY <1>1, KindTells
  <2>2. list \in attribute_list(t)
    BY <2>1, KindOfSequence DEF RecordAttributes
  <2>. DEFINE n == Len(t) \div 2
  <2>3. list = [i \in 1..n |-> <<t[2 * i - 1].value, t[2 * i]>>]
    BY <2>2 DEF attribute_list, Pairs
  <2>4. n \in Nat /\ \A i \in 1..n : 2 * i \in 1..Len(t)
    OBVIOUS
  <2>. HIDE DEF n
  <2>5. Len(list) = n /\ \A i \in 1..n : list[i][2] = t[2 * i]
    BY <2>3, <2>4
  <2>6. \A i \in 1..n : t[2 * i] \in S
    BY <2>4
  <2>. QED BY <2>4, <2>5, <2>6 DEF AttributesOf
<1>2. CASE x.kind # "Sequence"
  <2>1. list = <<>>
    BY <1>2 DEF RecordAttributes
  <2>. QED BY <2>1 DEF AttributesOf
<1>. QED BY <1>1, <1>2

\* A channel's entry is what advertises it.
EntryOf(c) == Sequence(<<Uuid16(RFCOMM_UUID), UnsignedInt(c)>>)

\* An entry the code takes for RFCOMM's is one that advertises its channel.
LEMMA RfcommEntry ==
  ASSUME NEW S, ElementSet(S), NEW x \in S, IsRfcomm(x)
  PROVE  x.elements[2].value \in 0..U8_MAX /\ x = EntryOf(x.elements[2].value)
<1>1. /\ x.kind = "Sequence" /\ Len(x.elements) = 2
      /\ x.elements[1] = Uuid16(RFCOMM_UUID)
      /\ x.elements[2].kind = "UnsignedInt" /\ x.elements[2].value <= U8_MAX
  BY DEF IsRfcomm
<1>2. PICK r \in Seq(S) : x = Sequence(r)
  BY <1>1, KindTells
<1>3. x.elements = r /\ Len(r) = 2 /\ r[1] = Uuid16(RFCOMM_UUID)
  BY <1>1, <1>2, KindOfSequence
<1>4. r[2] \in S
  <2>1. 2 \in 1..Len(r)
    BY <1>3
  <2>. QED BY <2>1
<1>5. PICK n \in Nat : r[2] = UnsignedInt(n)
  BY <1>1, <1>3, <1>4, KindTells
<1>6. UnsignedInt(n).value = n
  BY DEF UnsignedInt
<1>7. x.elements[2].value = n /\ n \in 0..U8_MAX
  BY <1>1, <1>3, <1>5, <1>6, MaximaAreNat
<1>8. r = <<r[1], r[2]>>
  BY <1>3
<1>. QED BY <1>2, <1>3, <1>5, <1>7, <1>8 DEF EntryOf

\* And the other way round.
LEMMA EntryIsRfcomm ==
  ASSUME NEW c \in 0..U8_MAX
  PROVE  IsRfcomm(EntryOf(c))
<1>1. <<Uuid16(RFCOMM_UUID), UnsignedInt(c)>>[1] = Uuid16(RFCOMM_UUID)
  OBVIOUS
<1>2. UnsignedInt(c).kind = "UnsignedInt" /\ UnsignedInt(c).value = c
  BY DEF UnsignedInt
<1>3. c <= U8_MAX
  BY MaximaAreNat
<1>. QED BY <1>1, <1>2, <1>3, KindOfSequence DEF IsRfcomm, EntryOf

\* Where find and find_map stop.
IdsAt(list) ==
  {j \in 1..Len(list) : list[j][1] = PROTOCOL_DESCRIPTOR_LIST_ATTR_ID}
EntriesAt(stack) == {j \in 1..Len(stack) : IsRfcomm(stack[j])}

ChannelIn(stack) ==
  IF EntriesAt(stack) = {} THEN NONE ELSE stack[Min(EntriesAt(stack))].elements[2].value

\* The first such attribute and the first such entry decide.
LEMMA ChannelForm ==
  ASSUME NEW list, Len(list) \in Nat
  PROVE  /\ IdsAt(list) = {} => rfcomm_channel(list) = NONE
         /\ IdsAt(list) # {} =>
              LET value == list[Min(IdsAt(list))][2]
              IN  rfcomm_channel(list) =
                    IF value.kind # "Sequence" THEN NONE ELSE ChannelIn(value.elements)
<1>. DEFINE i == SelectInSeq(list, LAMBDA a : a[1] = PROTOCOL_DESCRIPTOR_LIST_ATTR_ID)
            value == list[i][2]
            stack == value.elements
            j == SelectInSeq(stack, IsRfcomm)
<1>1. rfcomm_channel(list) =
        IF i = 0 \/ value.kind # "Sequence" \/ j = 0
          THEN NONE ELSE stack[j].elements[2].value
  BY DEF rfcomm_channel
<1>2. i = IF IdsAt(list) # {} THEN Min(IdsAt(list)) ELSE 0
  BY DEF SelectInSeq, IdsAt
<1>3. j = IF EntriesAt(stack) # {} THEN Min(EntriesAt(stack)) ELSE 0
  BY DEF SelectInSeq, EntriesAt
<1>4. IdsAt(list) # {} => Min(IdsAt(list)) # 0
  <2>. SUFFICES ASSUME IdsAt(list) # {} PROVE Min(IdsAt(list)) # 0
    OBVIOUS
  <2>1. IdsAt(list) \subseteq Nat /\ 0 \notin IdsAt(list)
    BY DEF IdsAt
  <2>. QED BY <2>1, MinIsIn
<1>5. EntriesAt(stack) # {} => Min(EntriesAt(stack)) # 0
  <2>. HIDE DEF stack
  <2>. SUFFICES ASSUME EntriesAt(stack) # {} PROVE Min(EntriesAt(stack)) # 0
    OBVIOUS
  <2>1. EntriesAt(stack) \subseteq Int /\ 0 \notin EntriesAt(stack)
    BY DEF EntriesAt
  <2>2. EntriesAt(stack) \subseteq Nat
    BY DEF EntriesAt
  <2>. QED BY <2>1, <2>2, MinIsIn
<1>. QED BY <1>1, <1>2, <1>3, <1>4, <1>5 DEF ChannelIn

\* What advertises a channel is such an entry.
LEMMA AdvertisedIs ==
  ASSUME NEW S, NEW stack \in Seq(S), NEW c
  PROVE  c \in Advertised(Sequence(stack)) <=>
           c \in 0..U8_MAX /\ \E i \in 1..Len(stack) : stack[i] = EntryOf(c)
BY KindOfSequence DEF Advertised, EntryOf

\* The channel of a list is advertised by it, and there is one if each value with
\* the attribute's id advertises one.
ChannelOk(list) ==
  LET c == rfcomm_channel(list)
  IN  IF c = NONE
        THEN Bare(list)
        ELSE c \in UNION Candidates(list)

LEMMA ChannelAdvertised ==
  ASSUME NEW S, ElementSet(S), NEW list, AttributesOf(list, S)
  PROVE  ChannelOk(list)
<1>. DEFINE c == rfcomm_channel(list)
            k == Min(IdsAt(list))
            value == list[k][2]
<1>1. Len(list) \in Nat /\ \A j \in 1..Len(list) : list[j][2] \in S
  BY DEF AttributesOf
<1>2. Candidates(list) = {Advertised(list[j][2]) : j \in IdsAt(list)}
  BY DEF Candidates, IdsAt
<1>3. CASE IdsAt(list) = {}
  <2>1. c = NONE
    BY <1>1, <1>3, ChannelForm
  <2>2. Candidates(list) = {}
    BY <1>2, <1>3
  <2>. QED BY <2>1, <2>2 DEF ChannelOk, Bare
<1>4. CASE IdsAt(list) # {}
  <2>1. k \in IdsAt(list)
    <3>1. IdsAt(list) \subseteq Nat
      BY <1>1 DEF IdsAt
    <3>. QED BY <1>4, <3>1, MinIsIn
  <2>2. c = IF value.kind # "Sequence" THEN NONE ELSE ChannelIn(value.elements)
    BY <1>1, <1>4, ChannelForm
  <2>. HIDE DEF k, c
  <2>3. Advertised(value) \in Candidates(list) /\ value \in S
    BY <1>1, <1>2, <2>1 DEF IdsAt
  <2>. HIDE DEF value
  <2>4. CASE value.kind # "Sequence"
    <3>1. Advertised(value) = {} /\ c = NONE
      BY <2>2, <2>4 DEF Advertised
    <3>. QED BY <2>3, <3>1 DEF ChannelOk, Bare, c
  <2>5. CASE value.kind = "Sequence"
    <3>1. PICK stack \in Seq(S) : value = Sequence(stack)
      BY <2>3, <2>5, KindTells
    <3>2. c = ChannelIn(stack)
      BY <2>2, <2>5, <3>1, KindOfSequence
    <3>. DEFINE E == EntriesAt(stack)
                m == Min(E)
    <3>3. CASE E = {}
      <4>1. c = NONE
        BY <3>2, <3>3 DEF ChannelIn
      <4>2. Advertised(value) = {}
        <5>1. ASSUME NEW d \in Advertised(value) PROVE FALSE
          <6>1. d \in 0..U8_MAX /\ \E i \in 1..Len(stack) : stack[i] = EntryOf(d)
            BY <3>1, <5>1, AdvertisedIs
          <6>2. IsRfcomm(EntryOf(d))
            BY <6>1, EntryIsRfcomm
          <6>. QED BY <3>3, <6>1, <6>2 DEF EntriesAt
        <5>. QED BY <5>1
      <4>. QED BY <2>3, <4>1, <4>2 DEF ChannelOk, Bare, c
    <3>4. CASE E # {}
      <4>1. m \in 1..Len(stack) /\ IsRfcomm(stack[m])
        <5>1. E \subseteq Nat
          BY DEF EntriesAt
        <5>2. m \in E
          <6>. HIDE DEF E
          <6>. QED BY <3>4, <5>1, MinIsIn
        <5>. HIDE DEF m
        <5>. QED BY <5>2 DEF EntriesAt
      <4>2. c = stack[m].elements[2].value
        BY <3>2, <3>4 DEF ChannelIn
      <4>. HIDE DEF m
      <4>3. stack[m] \in S
        BY <4>1
      <4>4. c \in 0..U8_MAX /\ stack[m] = EntryOf(c)
        BY <4>1, <4>2, <4>3, RfcommEntry
      <4>5. c \in Advertised(value)
        BY <3>1, <4>1, <4>4, AdvertisedIs
      <4>6. c # NONE
        BY <4>4, NoChannelAssumption DEF U8_MAX
      <4>. QED BY <2>3, <4>5, <4>6 DEF ChannelOk, Bare, c
    <3>. QED BY <3>3, <3>4
  <2>. QED BY <2>4, <2>5
<1>. QED BY <1>3, <1>4

-----------------------------------------------------------------------------
(* What find_rfcomm_channel makes of any bytes at all.                        *)

\* Each record that decodes has attributes whose values are elements.
LEMMA DecodedRecords ==
  ASSUME NEW b \in Seq(Byte), NEW lists \in decode_attribute_lists(b)
  PROVE  /\ Len(lists) \in Nat
         /\ \E S : ElementSet(S) /\ \A i \in 1..Len(lists) : AttributesOf(lists[i], S)
<1>1. PICK S : ElementSet(S) /\ ReadsOne(b, S)
  BY ElementIsRead
<1>2. decode_attribute_lists(b) = UNION {AttributeLists(outer.element) : outer \in data_element(b)}
  BY DEF decode_attribute_lists
<1>3. data_element(b) # {}
  BY <1>2
<1>4. PICK e \in S, rest \in Seq(Byte) : data_element(b) = {[rest |-> rest, element |-> e]}
  BY <1>1, <1>3 DEF ReadsOne
<1>5. lists \in AttributeLists(e)
  BY <1>2, <1>4
<1>6. CASE e.kind # "Sequence"
  <2>1. lists = <<>>
    BY <1>5, <1>6 DEF AttributeLists
  <2>. QED BY <1>1, <2>1
<1>7. CASE e.kind = "Sequence"
  <2>1. PICK s \in Seq(S) : e = Sequence(s)
    BY <1>1, <1>7, KindTells
  <2>2. ListsOf(s, lists)
    BY <1>5, <2>1, ListsAre
  <2>3. ASSUME NEW i \in 1..Len(lists) PROVE AttributesOf(lists[i], S)
    <3>1. i \in 1..Len(s) /\ lists[i] \in RecordAttributes(s[i])
      BY <2>2 DEF ListsOf
    <3>2. s[i] \in S
      BY <3>1
    <3>. QED BY <1>1, <3>1, <3>2, RecordValues
  <2>4. Len(lists) \in Nat
    BY <2>2 DEF ListsOf
  <2>. QED BY <1>1, <2>3, <2>4
<1>. QED BY <1>6, <1>7

\* So each has a channel it advertises, a u8, or none.
LEMMA DecodedChannels ==
  ASSUME NEW b \in Seq(Byte), NEW lists \in decode_attribute_lists(b), NEW i \in 1..Len(lists)
  PROVE  ChannelOk(lists[i]) /\ rfcomm_channel(lists[i]) \in 0..U8_MAX \cup {NONE}
<1>1. PICK S : ElementSet(S) /\ \A j \in 1..Len(lists) : AttributesOf(lists[j], S)
  BY DecodedRecords
<1>2. ChannelOk(lists[i])
  BY <1>1, ChannelAdvertised
<1>. DEFINE c == rfcomm_channel(lists[i])
            candidates == Candidates(lists[i])
<1>3. c = NONE \/ c \in UNION candidates
  BY <1>2 DEF ChannelOk, Bare
<1>4. candidates \subseteq SUBSET (0..U8_MAX)
  BY DEF Candidates, Advertised
<1>. HIDE DEF c, candidates
<1>5. c \in 0..U8_MAX \cup {NONE}
  BY <1>3, <1>4
<1>. QED BY <1>2, <1>5 DEF c

\* Decode is the channels of the records decode_attribute_lists returns.
LEMMA DecodeIs ==
  ASSUME NEW b, Decode(b) # MALFORMED
  PROVE  \E lists \in decode_attribute_lists(b) :
           Decode(b) = [i \in 1..Len(lists) |-> rfcomm_channel(lists[i])]
<1>. DEFINE channels == {[i \in 1..Len(lists) |-> rfcomm_channel(lists[i])] :
                          lists \in decode_attribute_lists(b)}
<1>1. Decode(b) = IF channels = {} THEN MALFORMED ELSE CHOOSE c \in channels : TRUE
  BY DEF Decode
<1>2. Decode(b) \in channels
  <2>. HIDE DEF channels
  <2>. QED BY <1>1
<1>. QED BY <1>2

\* Whatever bytes a device sends, what the program makes of them is either an error
\* or, for each record, no channel or one that is a u8.
THEOREM DecodeIsTyped ==
  ASSUME NEW b \in Seq(Byte)
  PROVE  Decode(b) # MALFORMED => Decode(b) \in Seq(Byte \cup {NONE})
<1>. SUFFICES ASSUME Decode(b) # MALFORMED PROVE Decode(b) \in Seq(Byte \cup {NONE})
  OBVIOUS
<1>1. PICK lists \in decode_attribute_lists(b) :
             Decode(b) = [i \in 1..Len(lists) |-> rfcomm_channel(lists[i])]
  BY DecodeIs
<1>2. Len(lists) \in Nat
  BY DecodedRecords
<1>3. ASSUME NEW i \in 1..Len(lists) PROVE rfcomm_channel(lists[i]) \in Byte \cup {NONE}
  BY DecodedChannels DEF Byte, U8_MAX
<1>. QED BY <1>1, <1>2, <1>3
=============================================================================
