---------------------------- MODULE WriterProofs ----------------------------
(***************************************************************************)
(* What a server writes the codec reads, for every leaf, every nesting and *)
(* every length: elements of any number and depth, pages and requests.     *)
(***************************************************************************)
EXTENDS Writer, CodecProofs

-----------------------------------------------------------------------------
(* One element.                                                               *)

\* A leaf's numbers are the codec's.
LEMMA NumberIsBigEndian ==
  ASSUME NEW s \in Seq(Byte), Len(s) \in {1, 2, 4}
  PROVE  BigEndian(s) = Number(s)
<1>1. s \in Seq(Nat)
  BY ByteIsNat
<1>2. CASE Len(s) = 1
  <2>2. BigEndian(s) = s[1]
    BY <1>1, <1>2, BigEndianOne
  <2>1. Len(s) # 2 /\ Len(s) # 4
    BY <1>2
  <2>3. Number(s) = s[1]
    BY <1>2, <2>1, Zenon DEF Number
  <2>. QED BY <2>2, <2>3
<1>3. CASE Len(s) = 2
  <2>1. BigEndian(s) = 256 * s[1] + s[2]
    BY <1>1, <1>3, BigEndianTwo
  <2>2. Number(s) = 256 * s[1] + s[2]
    <3>1. Len(s) # 1 /\ Len(s) # 4
      BY <1>3
    <3>. QED BY <1>3, <3>1, Zenon DEF Number
  <2>. QED BY <2>1, <2>2
<1>4. CASE Len(s) = 4
  <2>1. BigEndian(s) = 256 * (256 * (256 * s[1] + s[2]) + s[3]) + s[4]
    BY <1>1, <1>4, BigEndianFour
  <2>2. Number(s) = 256 * (256 * (256 * s[1] + s[2]) + s[3]) + s[4]
    <3>1. Len(s) # 1 /\ Len(s) # 2
      BY <1>4
    <3>. QED BY <1>4, <3>1, Zenon DEF Number
  <2>. QED BY <2>1, <2>2
<1>. QED BY <1>2, <1>3, <1>4

Width(leaf) == <<0, 0, 0, 0, 0, 1, 2, 4>>[SizeIndex(leaf.bytes[1]) + 1]
Size(leaf) ==
  IF Width(leaf) > 0
    THEN Number(SubSeq(leaf.bytes, 2, 1 + Width(leaf)))
    ELSE IF leaf.bytes[1] = 0
           THEN 0 ELSE <<1, 2, 4, 8, 16>>[SizeIndex(leaf.bytes[1]) + 1]
Payload(leaf) == SubSeq(leaf.bytes, 2 + Width(leaf), Len(leaf.bytes))

\* What it is to be a leaf, in the codec's terms.
LEMMA LeafForm ==
  ASSUME NEW leaf, IsLeaf(leaf)
  PROVE  /\ leaf.bytes \in Seq(Byte) /\ leaf.bytes # <<>>
         /\ Len(leaf.bytes) > Width(leaf) /\ Len(leaf.bytes) = 1 + Width(leaf) + Size(leaf)
         /\ ElementType(leaf.bytes[1]) # SEQUENCE_TYPE
         /\ leaf.meaning =
              IF ElementType(leaf.bytes[1]) = UINT_TYPE
                THEN IF Size(leaf) \in {1, 2, 4}
                       THEN {UnsignedInt(Number(Payload(leaf)))} ELSE {}
              ELSE IF ElementType(leaf.bytes[1]) = UUID_TYPE /\ SizeIndex(leaf.bytes[1]) = 1
                THEN {Uuid16(Number(Payload(leaf)))}
              ELSE {Unknown}
BY DEF IsLeaf, Width, Size, Payload, ElementType, SizeIndex

\* And the other way round.
LEMMA LeafIntroduced ==
  ASSUME NEW leaf,
         leaf.bytes \in Seq(Byte), leaf.bytes # <<>>,
         Len(leaf.bytes) > Width(leaf), Len(leaf.bytes) = 1 + Width(leaf) + Size(leaf),
         ElementType(leaf.bytes[1]) # SEQUENCE_TYPE,
         leaf.meaning =
           IF ElementType(leaf.bytes[1]) = UINT_TYPE
             THEN IF Size(leaf) \in {1, 2, 4}
                    THEN {UnsignedInt(Number(Payload(leaf)))} ELSE {}
           ELSE IF ElementType(leaf.bytes[1]) = UUID_TYPE /\ SizeIndex(leaf.bytes[1]) = 1
             THEN {Uuid16(Number(Payload(leaf)))}
           ELSE {Unknown}
  PROVE  IsLeaf(leaf)
BY DEF IsLeaf, Width, Size, Payload, ElementType, SizeIndex

\* The codec's frame of a leaf is the one it was written with.
LEMMA LeafWidths ==
  ASSUME NEW leaf, IsLeaf(leaf)
  PROVE  /\ Start(leaf.bytes) = 1 + Width(leaf)
         /\ Width(leaf) \in {0, 1, 2, 4}
         /\ Start(leaf.bytes) <= Len(leaf.bytes)
         /\ BodyLength(leaf.bytes) = Size(leaf) /\ Size(leaf) \in Nat
<1>. DEFINE s == leaf.bytes
            d == s[1]
            i == SizeIndex(d)
            w == Width(leaf)
<1>1. /\ s \in Seq(Byte) /\ s # <<>> /\ Len(s) > w /\ Len(s) = 1 + w + Size(leaf)
      /\ Len(s) \in Nat \ {0} /\ d \in Byte
  BY LeafForm, StartAndLength
<1>2. i \in {0, 1, 2, 3, 4, 5, 6, 7}
  <2>1. i \in 0..7
    BY <1>1, DescriptorWidths
  <2>. QED BY <2>1
<1>3. w = LengthBytes(i) /\ w \in {0, 1, 2, 4} /\ (w > 0 <=> ~(i < 5))
  <2>1. \A j \in {0, 1, 2, 3, 4, 5, 6, 7} :
          LET v == <<0, 0, 0, 0, 0, 1, 2, 4>>[j + 1]
          IN  v = LengthBytes(j) /\ v \in {0, 1, 2, 4} /\ (v > 0 <=> ~(j < 5))
    BY DEF LengthBytes
  <2>. QED BY <1>2, <2>1 DEF Width
<1>4. Start(s) = 1 + w
  BY <1>3 DEF Start
<1>5. CASE i < 5
  <2>1. d = 0 <=> (i = 0 /\ ElementType(d) = 0)
    <3>1. d \in 0..255 /\ ElementType(d) = d \div 8 /\ i = d % 8
      BY <1>1 DEF ElementType, SizeIndex, Byte
    <3>2. \A x \in 0..255 : x = 0 <=> (x % 8 = 0 /\ x \div 8 = 0)
      OBVIOUS
    <3>. QED BY <3>1, <3>2
  <2>2. BodyLength(s) = Size(leaf)
    BY <1>3, <1>5, <2>1 DEF BodyLength, Fixed, Size
  <2>3. w = 0
    BY <1>3, <1>5
  <2>4. Start(s) <= Len(s)
    BY <1>1, <1>4, <2>3
  <2>5. Size(leaf) \in Nat
    BY <1>1, <2>2, <2>4, StartAndLength
  <2>. QED BY <1>3, <1>4, <2>2, <2>4, <2>5
<1>6. CASE ~(i < 5)
  <2>1. w \in {1, 2, 4} /\ Size(leaf) = Number(SubSeq(s, 2, 1 + w))
    BY <1>3, <1>6 DEF Size
  <2>2. 1 + w <= Len(s)
    BY <1>1, <2>1
  <2>3. Size(leaf) = BodyLength(s)
    <3>. DEFINE k == 1 + w
                q == SubSeq(s, 1 + 1, k)
    <3>1. k \in 1..Len(s) /\ k - 1 = w
      <4>. HIDE DEF s, w
      <4>. QED BY <1>1, <2>1, <2>2
    <3>2. q \in Seq(Byte) /\ Len(q) = k - 1
      <4>. HIDE DEF k, s
      <4>. QED BY <1>1, <3>1, Part
    <3>. HIDE DEF q
    <3>3. BigEndian(q) = Number(q)
      BY <2>1, <3>1, <3>2, NumberIsBigEndian
    <3>4. q = SubSeq(s, 2, 1 + w)
      BY DEF q
    <3>. QED BY <1>4, <1>6, <2>1, <3>3, <3>4 DEF BodyLength
  <2>4. Size(leaf) \in Nat
    BY <1>1, <1>4, <2>2, <2>3, StartAndLength
  <2>. QED BY <1>3, <1>4, <2>2, <2>3, <2>4
<1>. QED BY <1>5, <1>6

\* An element the server wrote: the parsers read it, and as one thing at most.
Single(meaning) == meaning = {} \/ \E element : meaning = {element}
IsItem(item) == ReadsAs(item.bytes, item.meaning) /\ Single(item.meaning)

\* A leaf is read as what it stands for.
LEMMA LeafIsItem ==
  ASSUME NEW leaf, IsLeaf(leaf)
  PROVE  IsItem(leaf)
<1>. DEFINE s == leaf.bytes
            body == SubSeq(s, Start(s) + 1, Len(s))
            d == s[1]
            b == Size(leaf)
<1>1. /\ s \in Seq(Byte) /\ s # <<>> /\ Start(s) <= Len(s)
      /\ Start(s) + BodyLength(s) = Len(s)
      /\ Start(s) = 1 + Width(leaf) /\ Width(leaf) \in Nat /\ Len(s) \in Nat
      /\ BodyLength(s) = b /\ b \in Nat
  <2>1. /\ s \in Seq(Byte) /\ s # <<>> /\ Len(s) = 1 + Width(leaf) + b
    BY LeafForm
  <2>2. /\ Start(s) = 1 + Width(leaf) /\ Width(leaf) \in {0, 1, 2, 4}
        /\ Start(s) <= Len(s) /\ BodyLength(s) = b /\ b \in Nat
    BY LeafWidths
  <2>. HIDE DEF s, b
  <2>. QED BY <2>1, <2>2
<1>2. ReadsAs(s, MeaningOf(s, body))
  <2>1. Framed(s, body)
    BY <1>1, CompleteFrame
  <2>. HIDE DEF s, body
  <2>. QED BY <1>1, <2>1, FramedReads
<1>3. body \in Seq(Byte) /\ Len(body) = b /\ body = Payload(leaf)
  <2>1. Start(s) \in Nat /\ Len(s) \in Start(s)..Len(s) /\ Len(s) - Start(s) = b
    BY <1>1
  <2>2. Start(s) + 1 = 2 + Width(leaf)
    BY <1>1
  <2>3. body \in Seq(Byte) /\ Len(body) = Len(s) - Start(s)
    <3>. HIDE DEF s
    <3>. QED BY <1>1, <2>1, Part
  <2>. QED BY <2>1, <2>2, <2>3 DEF Payload
<1>4. ElementType(d) # SEQUENCE_TYPE
  BY LeafForm
<1>. DEFINE f == FrameOf(s, body, <<>>)
<1>5. f.type = ElementType(d) /\ f.index = SizeIndex(d) /\ f.body = body
  BY DEF FrameOf
<1>6. MeaningOf(s, body) = leaf.meaning
  <2>. DEFINE c == sequence_contents[body]
  <2>0. UINT_TYPE # UUID_TYPE /\ UINT_TYPE # SEQUENCE_TYPE /\ UUID_TYPE # SEQUENCE_TYPE
    BY DEF UINT_TYPE, UUID_TYPE, SEQUENCE_TYPE
  <2>1. MeaningOf(s, body) = Interpret(f, c)
    BY DEF MeaningOf
  <2>. HIDE DEF f, c, body
  <2>2. CASE ElementType(d) = UINT_TYPE
    <3>1. Interpret(f, c) =
            {UnsignedInt(n) : n \in IF Len(f.body) \in {1, 2, 4}
                                     THEN {BigEndian(f.body)} ELSE {}}
      <4>1. f.type = UINT_TYPE
        BY <1>5, <2>2
      <4>. QED BY <2>0, <4>1, Zenon DEF Interpret
    <3>2. leaf.meaning = IF b \in {1, 2, 4} THEN {UnsignedInt(Number(body))} ELSE {}
      BY <1>3, <2>2, LeafForm
    <3>3. CASE b \in {1, 2, 4}
      <4>1. BigEndian(body) = Number(body)
        BY <1>3, <3>3, NumberIsBigEndian
      <4>. QED BY <1>3, <1>5, <2>1, <3>1, <3>2, <3>3, <4>1
    <3>4. CASE b \notin {1, 2, 4}
      BY <1>3, <1>5, <2>1, <3>1, <3>2, <3>4
    <3>. QED BY <3>3, <3>4
  <2>3. CASE ElementType(d) = UUID_TYPE /\ SizeIndex(d) = 1
    <3>1. Interpret(f, c) = {Uuid16(n) : n \in uuid16_value(f.body)}
      <4>1. f.type = UUID_TYPE /\ f.index = 1
        BY <1>5, <2>3
      <4>. QED BY <2>0, <4>1, Zenon DEF Interpret
    <3>2. leaf.meaning = {Uuid16(Number(body))}
      BY <1>3, <2>0, <2>3, LeafForm
    <3>3. b = 2
      BY <1>1, <2>3, <2>0 DEF BodyLength, Fixed, UUID_TYPE
    <3>4. BigEndian(body) = Number(body)
      BY <1>3, <3>3, NumberIsBigEndian
    <3>5. uuid16_value(f.body) = {BigEndian(body)}
      BY <1>3, <1>5, <3>3 DEF uuid16_value
    <3>. QED BY <2>1, <3>1, <3>2, <3>4, <3>5
  <2>4. CASE ElementType(d) # UINT_TYPE /\ ~(ElementType(d) = UUID_TYPE /\ SizeIndex(d) = 1)
    <3>1. Interpret(f, c) = {Unknown}
      <4>1. f.type # UINT_TYPE /\ ~(f.type = UUID_TYPE /\ f.index = 1) /\ f.type # SEQUENCE_TYPE
        BY <1>4, <1>5, <2>4
      <4>. QED BY <4>1, Zenon DEF Interpret
    <3>2. leaf.meaning = {Unknown}
      BY <2>4, LeafForm
    <3>. QED BY <2>1, <3>1, <3>2
  <2>. QED BY <2>2, <2>3, <2>4
<1>7. Single(leaf.meaning)
  BY LeafForm DEF Single
<1>. QED BY <1>2, <1>6, <1>7 DEF IsItem

\* Its length field can hold its length.
Holds(w, len) == w \in {1, 2, 4} /\ len <= IF w = 1 THEN U8_MAX ELSE U16_MAX

\* The header of a sequence is a descriptor and the length that is written there.
LEMMA HeaderOfSequence ==
  ASSUME NEW w, NEW len \in Nat, Holds(w, len), NEW h, h = SequenceHeader(w, len)
  PROVE  /\ h \in Seq(Byte) /\ h # <<>> /\ Len(h) = 1 + w
         /\ ElementType(h[1]) = SEQUENCE_TYPE /\ Start(h) = 1 + w /\ BodyLength(h) = len
<1>1. len \in 0..U16_MAX
  <2>1. len <= U8_MAX \/ len <= U16_MAX
    BY DEF Holds
  <2>2. U8_MAX <= U16_MAX /\ U8_MAX \in Nat /\ U16_MAX \in Nat
    BY DEF U8_MAX, U16_MAX
  <2>. QED BY <2>1, <2>2
<1>. DEFINE u == U16(len)
<1>2. u \in Seq(Byte) /\ Len(u) = 2 /\ 256 * u[1] + u[2] = len
  BY <1>1, U16Bytes
<1>. HIDE DEF u
<1>3. /\ ElementType(53) = SEQUENCE_TYPE /\ SizeIndex(53) = 5 /\ LengthBytes(5) = 1
      /\ ElementType(54) = SEQUENCE_TYPE /\ SizeIndex(54) = 6 /\ LengthBytes(6) = 2
      /\ ElementType(55) = SEQUENCE_TYPE /\ SizeIndex(55) = 7 /\ LengthBytes(7) = 4
  BY DEF ElementType, SizeIndex, SEQUENCE_TYPE, LengthBytes
<1>4. CASE w = 1
  <2>0. SequenceHeader(w, len) = <<53, len>>
    <3>1. w # 2 /\ w # 4
      BY <1>4
    <3>. QED BY <1>4, <3>1, Zenon DEF SequenceHeader
  <2>1. h = <<53, len>> /\ len \in Byte /\ 53 \in Byte
    BY <1>4, <2>0, SmallIsByte DEF Holds, Byte
  <2>2. h \in Seq(Byte) /\ h # <<>> /\ Len(h) = 2 /\ h[1] = 53 /\ h[2] = len
    BY <2>1
  <2>3. Start(h) = 2
    BY <1>3, <2>2 DEF Start
  <2>4. BigEndian(SubSeq(h, 2, 2)) = len
    <3>. DEFINE q == SubSeq(h, 1 + 1, 2)
    <3>1. 1 \in Nat /\ 2 \in 1..Len(h) /\ 2 - 1 = 1 /\ 1 + 1 = 2
      BY <2>2
    <3>2. q \in Seq(Byte) /\ Len(q) = 1 /\ \A i \in 1..1 : q[i] = h[1 + i]
      BY <2>2, <3>1, Part
    <3>. HIDE DEF q
    <3>3. q[1] = len /\ q \in Seq(Nat)
      BY <2>2, <3>2, ByteIsNat
    <3>4. BigEndian(q) = len
      BY <3>2, <3>3, BigEndianOne
    <3>. QED BY <3>1, <3>4 DEF q
  <2>5. BodyLength(h) = len
    BY <1>3, <2>2, <2>3, <2>4 DEF BodyLength
  <2>. QED BY <1>3, <1>4, <2>2, <2>3, <2>5
<1>5. CASE w = 2
  <2>0. SequenceHeader(w, len) = <<54>> \o u
    <3>1. w # 1 /\ w # 4
      BY <1>5
    <3>. QED BY <1>5, <3>1, Zenon DEF SequenceHeader, u
  <2>1. h = <<54>> \o u /\ 54 \in Byte /\ <<54>> \in Seq(Byte)
    BY <2>0 DEF Byte
  <2>2. h \in Seq(Byte) /\ h # <<>> /\ Len(h) = 3 /\ h[1] = 54 /\ h[2] = u[1] /\ h[3] = u[2]
    <3>. DEFINE p == <<54>>
    <3>1. p \in Seq(Byte) /\ Len(p) = 1 /\ p[1] = 54
      BY <2>1
    <3>. HIDE DEF p
    <3>2. /\ p \o u \in Seq(Byte) /\ Len(p \o u) = Len(p) + Len(u)
          /\ \A i \in 1..Len(p) : (p \o u)[i] = p[i]
          /\ \A i \in 1..Len(u) : (p \o u)[Len(p) + i] = u[i]
      BY <1>2, <3>1, Joined
    <3>3. p \o u = h
      BY <2>1 DEF p
    <3>. QED BY <1>2, <3>1, <3>2, <3>3
  <2>3. Start(h) = 3
    BY <1>3, <2>2 DEF Start
  <2>4. BigEndian(SubSeq(h, 2, 3)) = len
    <3>1. 3 \in 1..Len(h) /\ 3 = 2 + 1 /\ 2 \in Nat \ {0}
      BY <2>2
    <3>. QED BY <1>2, <2>2, <3>1, PairAt
  <2>5. BodyLength(h) = len
    BY <1>3, <2>2, <2>3, <2>4 DEF BodyLength
  <2>. QED BY <1>3, <1>5, <2>2, <2>3, <2>5
<1>6. CASE w = 4
  <2>0. SequenceHeader(w, len) = <<55, 0, 0>> \o u
    <3>1. w # 1 /\ w # 2
      BY <1>6
    <3>. QED BY <1>6, <3>1, Zenon DEF SequenceHeader, u
  <2>1. h = <<55, 0, 0>> \o u /\ <<55, 0, 0>> \in Seq(Byte)
    BY <2>0 DEF Byte
  <2>2. /\ h \in Seq(Byte) /\ h # <<>> /\ Len(h) = 5
        /\ h[1] = 55 /\ h[2] = 0 /\ h[3] = 0 /\ h[4] = u[1] /\ h[5] = u[2]
    <3>. DEFINE p == <<55, 0, 0>>
    <3>1. p \in Seq(Byte) /\ Len(p) = 3 /\ p[1] = 55 /\ p[2] = 0 /\ p[3] = 0
      BY <2>1
    <3>. HIDE DEF p
    <3>2. /\ p \o u \in Seq(Byte) /\ Len(p \o u) = Len(p) + Len(u)
          /\ \A i \in 1..Len(p) : (p \o u)[i] = p[i]
          /\ \A i \in 1..Len(u) : (p \o u)[Len(p) + i] = u[i]
      BY <1>2, <3>1, Joined
    <3>3. p \o u = h
      BY <2>1 DEF p
    <3>. QED BY <1>2, <3>1, <3>2, <3>3
  <2>3. Start(h) = 5
    BY <1>3, <2>2 DEF Start
  <2>4. BigEndian(SubSeq(h, 2, 5)) = len
    <3>. DEFINE q == SubSeq(h, 1 + 1, 5)
    <3>1. 1 \in Nat /\ 5 \in 1..Len(h) /\ 5 - 1 = 4 /\ 1 + 1 = 2
      BY <2>2
    <3>2. q \in Seq(Byte) /\ Len(q) = 4 /\ \A i \in 1..4 : q[i] = h[1 + i]
      BY <2>2, <3>1, Part
    <3>. HIDE DEF q
    <3>3. q[1] = 0 /\ q[2] = 0 /\ q[3] = u[1] /\ q[4] = u[2]
      BY <2>2, <3>2
    <3>4. q \in Seq(Nat)
      BY <3>2, ByteIsNat
    <3>5. BigEndian(q) = 256 * (256 * (256 * q[1] + q[2]) + q[3]) + q[4]
      BY <3>2, <3>4, BigEndianFour
    <3>6. u[1] \in Nat /\ u[2] \in Nat
      <4>1. 1 \in 1..Len(u) /\ 2 \in 1..Len(u) /\ u \in Seq(Byte)
        BY <1>2
      <4>2. u[1] \in Byte /\ u[2] \in Byte
        BY ONLY <4>1, ElementOfSeq
      <4>. QED BY ONLY <4>2, ByteIsNat
    <3>7. BigEndian(q) = len
      BY <1>2, <3>3, <3>5, <3>6
    <3>. QED BY <3>1, <3>7 DEF q
  <2>5. BodyLength(h) = len
    BY <1>3, <2>2, <2>3, <2>4 DEF BodyLength
  <2>. QED BY <1>3, <1>6, <2>2, <2>3, <2>5
<1>. QED BY <1>4, <1>5, <1>6 DEF Holds

\* A sequence over elements is an element, whatever the width of its length.
LEMMA SequenceReads ==
  ASSUME NEW w, NEW body \in Seq(Byte), Holds(w, Len(body)),
         NEW s, s = SequenceHeader(w, Len(body)) \o body
  PROVE  /\ ReadsAs(s, {Sequence(elements) : elements \in sequence_contents[body]})
         /\ s \in Seq(Byte)
<1>. DEFINE h == SequenceHeader(w, Len(body))
            n == Len(body)
<1>1. /\ h \in Seq(Byte) /\ h # <<>> /\ Len(h) = 1 + w
      /\ ElementType(h[1]) = SEQUENCE_TYPE /\ Start(h) = 1 + w /\ BodyLength(h) = n
  BY HeaderOfSequence
<1>2. n \in Nat /\ w \in Nat
  BY DEF Holds
<1>. HIDE DEF h
<1>3. /\ s \in Seq(Byte) /\ Len(s) = Len(h) + n
      /\ \A i \in 1..Len(h) : s[i] = h[i]
      /\ \A i \in 1..n : s[Len(h) + i] = body[i]
  BY <1>1, Joined DEF h
<1>. HIDE DEF n
<1>4. Len(h) \in Nat \ {0} /\ Len(h) <= Len(s) /\ Len(s) = 1 + w + n /\ s # <<>>
  <2>1. Len(h) \in Nat \ {0} /\ Len(h) <= Len(s) /\ Len(s) = 1 + w + n /\ Len(s) # 0
    BY <1>1, <1>2, <1>3
  <2>. QED BY <2>1
<1>5. h[1] = s[1] /\ Start(s) = 1 + w /\ BodyLength(s) = n
  <2>. DEFINE k == Len(h)
  <2>1. k \in Nat \ {0} /\ k <= Len(h) /\ k <= Len(s) /\ \A i \in 1..k : h[i] = s[i]
    BY <1>3, <1>4
  <2>2. Start(h) <= k
    BY <1>1, <1>2
  <2>. HIDE DEF k
  <2>3. h[1] = s[1] /\ Start(h) = Start(s) /\ BodyLength(h) = BodyLength(s)
    BY <1>1, <1>3, <2>1, <2>2, SameWidths
  <2>. QED BY <1>1, <2>3
<1>6. SubSeq(s, Start(s) + 1, Len(s)) = body
  <2>. DEFINE k == 1 + w
  <2>1. k \in Nat /\ k + Len(body) <= Len(s) /\ \A i \in 1..Len(body) : s[k + i] = body[i]
    BY <1>1, <1>2, <1>3, <1>4 DEF n
  <2>2. SubSeq(s, k + 1, k + Len(body)) = body
    <3>. HIDE DEF k
    <3>. QED BY <1>3, <2>1, PartIs
  <2>. QED BY <1>4, <1>5, <2>2 DEF n
<1>7. Framed(s, body)
  <2>1. Start(s) <= Len(s) /\ Start(s) + BodyLength(s) = Len(s)
    BY <1>2, <1>4, <1>5
  <2>. QED BY <1>3, <1>4, <1>6, <2>1, CompleteFrame
<1>8. ReadsAs(s, MeaningOf(s, body))
  BY <1>3, <1>4, <1>7, FramedReads
<1>9. MeaningOf(s, body) = {Sequence(elements) : elements \in sequence_contents[body]}
  <2>. DEFINE f == FrameOf(s, body, <<>>)
              c == sequence_contents[body]
  <2>1. f.type = SEQUENCE_TYPE
    BY <1>1, <1>5 DEF FrameOf
  <2>. HIDE DEF f, c
  <2>2. UINT_TYPE # SEQUENCE_TYPE /\ UUID_TYPE # SEQUENCE_TYPE
    BY DEF UINT_TYPE, UUID_TYPE, SEQUENCE_TYPE
  <2>3. Interpret(f, c) = {Sequence(elements) : elements \in c}
    BY <2>1, <2>2, Zenon DEF Interpret
  <2>. QED BY <2>3 DEF MeaningOf, f, c
<1>. QED BY <1>3, <1>8, <1>9

-----------------------------------------------------------------------------
(* Elements back to back.                                                     *)

\* Sequences of elements, of whatever they are made.
AreItems(items) == \E S : items \in Seq(S) /\ \A item \in S : IsItem(item)

\* Each of them is an element.
LEMMA ItemsAre ==
  ASSUME NEW items, AreItems(items)
  PROVE  /\ Len(items) \in Nat
         /\ \A i \in 1..Len(items) : /\ IsItem(items[i])
                                     /\ items[i].bytes \in Seq(Byte)
                                     /\ Single(items[i].meaning)
<1>1. PICK S : items \in Seq(S) /\ \A item \in S : IsItem(item)
  BY DEF AreItems
<1>2. Len(items) \in Nat /\ \A i \in 1..Len(items) : items[i] \in S
  BY <1>1
<1>3. \A item \in S : item.bytes \in Seq(Byte) /\ Single(item.meaning)
  BY <1>1 DEF IsItem, ReadsAs
<1>. QED BY <1>1, <1>2, <1>3

\* None, one more, and some of them.
LEMMA NoItems == AreItems(<<>>)
<1>. DEFINE none == <<>>
            S == {}
<1>1. none \in Seq(S)
  OBVIOUS
<1>2. \A item \in S : IsItem(item)
  OBVIOUS
<1>. HIDE DEF none, S
<1>3. AreItems(none)
  BY <1>1, <1>2 DEF AreItems
<1>. QED BY <1>3 DEF none

LEMMA OneMoreItem ==
  ASSUME NEW items, AreItems(items), NEW item, IsItem(item)
  PROVE  AreItems(Append(items, item))
<1>1. PICK S : items \in Seq(S) /\ \A x \in S : IsItem(x)
  BY DEF AreItems
<1>2. Append(items, item) \in Seq(S \cup {item})
  <2>1. items \in Seq(S \cup {item})
    BY <1>1, SeqMonotonic
  <2>. QED BY <2>1, AppendProperties
<1>. QED BY <1>1, <1>2 DEF AreItems

LEMMA SomeItems ==
  ASSUME NEW items, AreItems(items), NEW k \in 1..(Len(items) + 1), NEW n \in (k - 1)..Len(items)
  PROVE  AreItems(SubSeq(items, k, n))
<1>1. PICK S : items \in Seq(S) /\ \A x \in S : IsItem(x)
  BY DEF AreItems
<1>2. \A i \in k..n : items[i] \in S
  BY <1>1
<1>3. k \in Int /\ n \in Int
  BY <1>1
<1>4. SubSeq(items, k, n) \in Seq(S)
  BY <1>1, <1>2, <1>3, SubSeqProperties
<1>. QED BY <1>1, <1>4 DEF AreItems

BytesOf(items) == [i \in 1..Len(items) |-> items[i].bytes]

\* Their bytes, joined.
LEMMA BytesType ==
  ASSUME NEW items, AreItems(items)
  PROVE  /\ BytesOf(items) \in Seq(Seq(Byte)) /\ Len(BytesOf(items)) = Len(items)
         /\ Bytes(items) = FlattenSeq(BytesOf(items)) /\ Bytes(items) \in Seq(Byte)
<1>1. BytesOf(items) \in Seq(Seq(Byte)) /\ Len(BytesOf(items)) = Len(items)
  BY ItemsAre DEF BytesOf
<1>2. Bytes(items) = FlattenSeq(BytesOf(items))
  BY DEF Bytes, BytesOf
<1>. QED BY <1>1, <1>2, FlattenType

\* The first element, then the others.
LEMMA FirstAndOthers ==
  ASSUME NEW items, AreItems(items), Len(items) # 0
  PROVE  /\ AreItems(Tail(items)) /\ Len(Tail(items)) = Len(items) - 1
         /\ \A i \in 1..(Len(items) - 1) : Tail(items)[i] = items[i + 1]
         /\ IsItem(items[1])
         /\ Bytes(items) = items[1].bytes \o Bytes(Tail(items))
<1>. DEFINE rest == Tail(items)
<1>1. PICK S : items \in Seq(S) /\ \A x \in S : IsItem(x)
  BY DEF AreItems
<1>2. items # <<>> /\ Len(items) \in Nat
  BY <1>1
<1>3. /\ rest \in Seq(S) /\ Len(rest) = Len(items) - 1
      /\ \A i \in 1..(Len(items) - 1) : rest[i] = items[i + 1]
  BY <1>1, <1>2, HeadTailProperties
<1>. HIDE DEF rest
<1>4. AreItems(rest)
  BY <1>1, <1>3 DEF AreItems
<1>5. IsItem(items[1]) /\ items[1].bytes \in Seq(Byte)
  <2>1. 1 \in 1..Len(items)
    BY <1>2
  <2>. QED BY <2>1, ItemsAre
<1>. DEFINE b == BytesOf(items)
            c == BytesOf(rest)
            f == <<items[1].bytes>>
<1>6. b \in Seq(Seq(Byte)) /\ Len(b) = Len(items) /\ Bytes(items) = FlattenSeq(b)
  BY BytesType
<1>7. c \in Seq(Seq(Byte)) /\ Len(c) = Len(items) - 1 /\ Bytes(rest) = FlattenSeq(c)
  BY <1>3, <1>4, BytesType
<1>8. f \in Seq(Seq(Byte)) /\ Len(f) = 1 /\ f[1] = items[1].bytes
  BY <1>5
<1>9. \A i \in 1..Len(items) : b[i] = items[i].bytes
  BY DEF BytesOf
<1>10. \A i \in 1..Len(c) : c[i] = items[i + 1].bytes
  BY <1>3, <1>7 DEF BytesOf
<1>. HIDE DEF b, c, f
<1>11. b = f \o c
  <2>1. /\ f \o c \in Seq(Seq(Byte)) /\ Len(f \o c) = Len(f) + Len(c)
        /\ \A i \in 1..(Len(f) + Len(c)) :
             (f \o c)[i] = IF i <= Len(f) THEN f[i] ELSE c[i - Len(f)]
    BY <1>7, <1>8, ConcatProperties
  <2>2. Len(b) = Len(f \o c)
    BY <1>2, <1>6, <1>7, <1>8, <2>1
  <2>3. ASSUME NEW i \in 1..Len(b) PROVE b[i] = (f \o c)[i]
    <3>1. CASE i = 1
      <4>1. 1 \in 1..(Len(f) + Len(c)) /\ 1 <= Len(f)
        BY <1>7, <1>8
      <4>. QED BY <1>6, <1>8, <1>9, <2>1, <3>1, <4>1
    <3>2. CASE i # 1
      <4>1. /\ i \in 1..(Len(f) + Len(c)) /\ ~(i <= Len(f)) /\ i - Len(f) = i - 1
            /\ i - 1 \in 1..Len(c) /\ (i - 1) + 1 = i
        BY <1>2, <1>6, <1>7, <1>8, <3>2
      <4>. QED BY <1>6, <1>9, <1>10, <2>1, <4>1
    <3>. QED BY <3>1, <3>2
  <2>. QED BY <1>6, <2>1, <2>2, <2>3, SeqEqual
<1>12. FlattenSeq(f \o c) = items[1].bytes \o FlattenSeq(c)
  BY <1>5, <1>7, FlattenFront DEF JoinsFront, f
<1>. QED BY <1>3, <1>4, <1>5, <1>6, <1>7, <1>11, <1>12 DEF rest

\* What elements mean together: nothing, if one of them means nothing, and else the
\* meanings one after the other.
LEMMA MeaningEmpty == Meaning(<<>>) = {<<>>} /\ Bytes(<<>>) = <<>>
<1>1. Len(<<>>) = 0 /\ 1..0 = {}
  OBVIOUS
<1>2. Meaning(<<>>) = {[i \in {} |-> CHOOSE e \in <<>>[i].meaning : TRUE]}
  BY <1>1 DEF Meaning
<1>3. [i \in {} |-> CHOOSE e \in <<>>[i].meaning : TRUE] = <<>>
  BY SMT
<1>4. BytesOf(<<>>) = <<>>
  BY <1>1 DEF BytesOf
<1>5. Bytes(<<>>) = FlattenSeq(BytesOf(<<>>))
  BY DEF Bytes, BytesOf
<1>. QED BY <1>2, <1>3, <1>4, <1>5, FlattenEmpty

\* Two single meanings are one.
LEMMA OneFollowed ==
  \A e, r : Followed({e}, {r}) = {<<e>> \o r}
BY DEF Followed

\* The first meaning is put before the others.
LEMMA MeaningFollowed ==
  ASSUME NEW items, AreItems(items), Len(items) # 0
  PROVE  Meaning(items) = Followed(items[1].meaning, Meaning(Tail(items)))
<1>. DEFINE rest == Tail(items)
            n == Len(items)
            Chosen(i) == CHOOSE e \in items[i].meaning : TRUE
            ChosenRest(i) == CHOOSE e \in rest[i].meaning : TRUE
            m == [i \in 1..n |-> Chosen(i)]
            r == [i \in 1..Len(rest) |-> ChosenRest(i)]
<1>1. /\ n \in Nat \ {0} /\ Len(rest) = n - 1
      /\ \A i \in 1..(n - 1) : rest[i] = items[i + 1]
      /\ \A i \in 1..n : Single(items[i].meaning)
  BY ItemsAre, FirstAndOthers
<1>2. /\ Meaning(items) = IF \E i \in 1..n : items[i].meaning = {} THEN {} ELSE {m}
      /\ Meaning(rest) = IF \E i \in 1..Len(rest) : rest[i].meaning = {} THEN {} ELSE {r}
  BY DEF Meaning
<1>3. CASE items[1].meaning = {}
  <2>1. 1 \in 1..n
    BY <1>1
  <2>2. Followed({}, Meaning(rest)) = {}
    BY DEF Followed
  <2>. HIDE DEF rest, n, m, r
  <2>. QED BY <1>2, <1>3, <2>1, <2>2 DEF rest
<1>4. CASE \E i \in 1..Len(rest) : rest[i].meaning = {}
  <2>1. PICK i \in 1..Len(rest) : rest[i].meaning = {}
    BY <1>4
  <2>2. i + 1 \in 1..n /\ items[i + 1].meaning = {}
    BY <1>1, <2>1
  <2>3. Meaning(rest) = {} /\ Meaning(items) = {}
    <3>. HIDE DEF rest, n, m, r
    <3>. QED BY <1>2, <1>4, <2>2
  <2>4. Followed(items[1].meaning, {}) = {}
    BY DEF Followed
  <2>. QED BY <2>3, <2>4
<1>5. CASE items[1].meaning # {} /\ ~ \E i \in 1..Len(rest) : rest[i].meaning = {}
  <2>1. ~ \E i \in 1..n : items[i].meaning = {}
    <3>1. ASSUME NEW i \in 1..n, items[i].meaning = {} PROVE FALSE
      <4>1. CASE i = 1
        BY <1>5, <3>1, <4>1
      <4>2. CASE i # 1
        <5>1. i - 1 \in 1..Len(rest) /\ i - 1 \in 1..(n - 1) /\ (i - 1) + 1 = i
          BY <1>1, <4>2
        <5>2. rest[i - 1] = items[i]
          BY <1>1, <5>1
        <5>. QED BY <1>5, <3>1, <5>1, <5>2
      <4>. QED BY <4>1, <4>2
    <3>. QED BY <3>1
  <2>2. Meaning(items) = {m} /\ Meaning(rest) = {r}
    <3>. HIDE DEF rest, n, m, r
    <3>. QED BY <1>2, <1>5, <2>1
  <2>3. PICK e : items[1].meaning = {e}
    <3>1. 1 \in 1..n
      BY <1>1
    <3>. QED BY <1>1, <1>5, <3>1 DEF Single
  <2>4. Followed({e}, {r}) = {<<e>> \o r}
    <3>. HIDE DEF r
    <3>. QED BY OneFollowed
  <2>5. <<e>> \o r = m
    <3>. DEFINE U == {Chosen(i) : i \in 1..n}
    <3>1. m \in Seq(U) /\ Len(m) = n /\ \A i \in 1..n : m[i] = Chosen(i)
      BY <1>1
    <3>2. e = Chosen(1) /\ 1 \in 1..n
      BY <1>1, <2>3
    <3>3. \A i \in 1..(n - 1) : ChosenRest(i) = Chosen(i + 1)
      BY <1>1
    <3>4. \A i \in 1..(n - 1) : i + 1 \in 1..n
      BY <1>1
    <3>5. r = [i \in 1..(n - 1) |-> Chosen(i + 1)]
      BY <1>1, <3>3
    <3>. HIDE DEF n, m, rest, Chosen, ChosenRest
    <3>6. <<e>> \in Seq(U) /\ Len(<<e>>) = 1 /\ <<e>>[1] = e
      BY <3>2
    <3>7. /\ r \in Seq(U) /\ Len(r) = n - 1 /\ \A i \in 1..(n - 1) : r[i] = Chosen(i + 1)
      <4>1. \A i \in 1..(n - 1) : Chosen(i + 1) \in U
        BY <3>4
      <4>2. n - 1 \in Nat
        BY <1>1
      <4>. HIDE DEF U, r
      <4>. QED BY <3>5, <4>1, <4>2
    <3>. DEFINE f == <<e>>
    <3>. HIDE DEF U, r, f
    <3>8. f \in Seq(U) /\ Len(f) = 1 /\ f[1] = e
      BY <3>6 DEF f
    <3>9. /\ f \o r \in Seq(U) /\ Len(f \o r) = Len(f) + Len(r)
          /\ \A i \in 1..(Len(f) + Len(r)) :
               (f \o r)[i] = IF i <= Len(f) THEN f[i] ELSE r[i - Len(f)]
      BY <3>7, <3>8, ConcatProperties
    <3>10. ASSUME NEW i \in 1..n PROVE (f \o r)[i] = m[i]
      <4>1. CASE i = 1
        BY <1>1, <3>1, <3>2, <3>7, <3>8, <3>9, <4>1
      <4>2. CASE i # 1
        <5>1. i \in 1..(Len(f) + Len(r)) /\ ~(i <= Len(f)) /\ i - Len(f) = i - 1
              /\ i - 1 \in 1..(n - 1) /\ (i - 1) + 1 = i
          BY <1>1, <3>7, <3>8, <4>2
        <5>. QED BY <3>1, <3>7, <3>9, <5>1
      <4>. QED BY <4>1, <4>2
    <3>11. Len(f \o r) = n
      BY <1>1, <3>7, <3>8, <3>9
    <3>12. f \o r = m
      BY <3>1, <3>9, <3>10, <3>11, SeqEqual
    <3>. QED BY <3>12 DEF f
  <2>. HIDE DEF m, r, rest
  <2>. QED BY <2>2, <2>3, <2>4, <2>5 DEF rest
<1>. QED BY <1>3, <1>4, <1>5

\* What is written is read, however many elements there are and whatever they hold.
ReadBack(items) == sequence_contents[Bytes(items)] = Meaning(items)

LEMMA ItemsReadBack ==
  \A items : AreItems(items) => ReadBack(items)
<1>. DEFINE T == {n \in Nat : \A items : AreItems(items) /\ Len(items) = n => ReadBack(items)}
<1>1. 0 \in T
  <2>1. ASSUME NEW items, AreItems(items), Len(items) = 0 PROVE ReadBack(items)
    <3>1. items = <<>>
      BY <2>1 DEF AreItems
    <3>. QED BY <3>1, MeaningEmpty, ContentsEmpty DEF ReadBack
  <2>. QED BY <2>1
<1>2. ASSUME NEW n \in Nat, n \in T, NEW items, AreItems(items), Len(items) = n + 1
      PROVE  ReadBack(items)
  <2>. DEFINE rest == Tail(items)
              b == items[1].bytes
  <2>0. Len(items) # 0
    BY <1>2
  <2>1. AreItems(rest) /\ Len(rest) = n /\ IsItem(items[1]) /\ Bytes(items) = b \o Bytes(rest)
    <3>1. (n + 1) - 1 = n
      OBVIOUS
    <3>. QED BY <1>2, <2>0, <3>1, FirstAndOthers
  <2>2. sequence_contents[Bytes(rest)] = Meaning(rest)
    BY <1>2, <2>1 DEF ReadBack
  <2>3. Bytes(rest) \in Seq(Byte)
    BY <2>1, BytesType
  <2>4. sequence_contents[b \o Bytes(rest)] =
          Followed(items[1].meaning, sequence_contents[Bytes(rest)])
    BY <2>1, <2>3 DEF IsItem, ReadsAs
  <2>5. Meaning(items) = Followed(items[1].meaning, Meaning(rest))
    BY <1>2, <2>0, MeaningFollowed
  <2>. QED BY <2>1, <2>2, <2>4, <2>5 DEF ReadBack
<1>3. \A n \in Nat : n \in T => n + 1 \in T
  BY <1>2
<1>. HIDE DEF T
<1>4. Nat \subseteq T
  BY <1>1, <1>3, NatInduct
<1>5. ASSUME NEW items, AreItems(items) PROVE ReadBack(items)
  <2>1. Len(items) \in T
    BY <1>4, <1>5, ItemsAre
  <2>. QED BY <1>5, <2>1 DEF T
<1>. QED BY <1>5

-----------------------------------------------------------------------------
(* The invariant: everything written is an element the parsers read as what it *)
(* was written for.                                                            *)

WInv == AreItems(written)

\* Elements put together mean one sequence, of what each of them means.
LEMMA MeaningForm ==
  ASSUME NEW items
  PROVE  Meaning(items) = {} \/ \E s : Meaning(items) = {s}
BY DEF Meaning

\* Nothing written, one leaf more, one sequence closed.
LEMMA InitInv == Init => WInv
BY NoItems DEF Init, WInv

LEMMA PutInv ==
  ASSUME WInv, NEW leaf \in Leaves, Put(leaf)
  PROVE  WInv'
<1>1. IsLeaf(leaf) /\ written' = Append(written, leaf)
  BY LeavesAssumption DEF Put
<1>. QED BY <1>1, LeafIsItem, OneMoreItem DEF WInv

LEMMA CloseInv ==
  ASSUME WInv, NEW n \in 0..Len(written), NEW w \in Widths, Close(n, w)
  PROVE  WInv'
<1>. DEFINE len == Len(written)
            kept == SubSeq(written, 1, len - n)
            items == SubSeq(written, len - n + 1, len)
            body == Bytes(items)
            item == [meaning |-> {Sequence(elements) : elements \in Meaning(items)},
                     bytes   |-> SequenceHeader(w, Len(body)) \o body]
<1>1. len \in Nat /\ len - n \in 0..len /\ AreItems(written)
  BY ItemsAre DEF WInv
<1>2. AreItems(kept) /\ AreItems(items)
  <2>1. /\ 1 \in 1..(len + 1) /\ len - n \in (1 - 1)..len
        /\ len - n + 1 \in 1..(len + 1) /\ len \in ((len - n + 1) - 1)..len
    BY <1>1
  <2>. QED BY <1>1, <2>1, SomeItems
<1>3. /\ Len(body) <= IF w = 1 THEN U8_MAX ELSE U16_MAX
      /\ written' = Append(kept, item)
  BY DEF Close
<1>. HIDE DEF kept, items, len
<1>4. Holds(w, Len(body))
  BY <1>3, WidthsAssumption DEF Holds
<1>5. body \in Seq(Byte) /\ sequence_contents[body] = Meaning(items)
  BY <1>2, BytesType, ItemsReadBack DEF ReadBack
<1>. HIDE DEF body
<1>6. ReadsAs(item.bytes, item.meaning)
  BY <1>4, <1>5, SequenceReads
<1>7. Single(item.meaning)
  <2>1. item.meaning = {Sequence(elements) : elements \in Meaning(items)}
    OBVIOUS
  <2>. HIDE DEF item
  <2>2. CASE Meaning(items) = {}
    <3>1. item.meaning = {}
      BY <2>1, <2>2
    <3>. QED BY <3>1 DEF Single
  <2>3. ASSUME NEW s, Meaning(items) = {s} PROVE Single(item.meaning)
    <3>1. item.meaning = {Sequence(s)}
      BY <2>1, <2>3
    <3>. QED BY <3>1 DEF Single
  <2>. QED BY MeaningForm, <2>2, <2>3
<1>. HIDE DEF item
<1>8. IsItem(item)
  BY <1>6, <1>7 DEF IsItem
<1>. QED BY <1>2, <1>3, <1>8, OneMoreItem DEF WInv

\* The invariant is one: no leaf put down and no sequence closed breaks it.
THEOREM Invariance == Spec => []WInv
<1>1. Init => WInv
  BY InitInv
<1>2. WInv /\ [Next]_vars => WInv'
  <2>. SUFFICES ASSUME WInv, [Next]_vars PROVE WInv'
    OBVIOUS
  <2>1. CASE \E leaf \in Leaves : leaves < MaxLeaves /\ Put(leaf)
    BY <2>1, PutInv
  <2>2. CASE \E n \in 0..Len(written), w \in Widths : closed < MaxClosed /\ Close(n, w)
    BY <2>2, CloseInv
  <2>3. CASE Finished
    BY <2>3 DEF Finished, vars, WInv
  <2>4. CASE UNCHANGED vars
    BY <2>4 DEF vars, WInv
  <2>. QED BY <2>1, <2>2, <2>3, <2>4 DEF Next
<1>. QED BY <1>1, <1>2, PTL DEF Spec

-----------------------------------------------------------------------------
(* What follows from it.                                                      *)

LatestIs == written # <<>> => IsItem(Latest)

\* The latest element is one.
LEMMA LatestItem == WInv => LatestIs
<1>. SUFFICES ASSUME WInv, written # <<>> PROVE IsItem(Latest)
  BY DEF LatestIs
<1>1. PICK S : written \in Seq(S) /\ \A x \in S : IsItem(x)
  BY DEF WInv, AreItems
<1>2. Len(written) \in 1..Len(written)
  BY <1>1
<1>3. written[Len(written)] \in S
  BY <1>1, <1>2
<1>. QED BY <1>1, <1>3 DEF Latest

\* What a server writes, of any size and any nesting, is read back as it was meant.
THEOREM ReadAsWritten == Spec => []RoundTrip
<1>1. WInv => RoundTrip
  BY ItemsReadBack DEF WInv, ReadBack, RoundTrip
<1>. QED BY <1>1, Invariance, PTL

\* An element is read wherever it stands, and none of its parts is.
THEOREM WholeOrNothing == Spec => []CompleteOrMalformed
<1>1. WInv => CompleteOrMalformed
  <2>. SUFFICES ASSUME WInv, written # <<>>
                PROVE  /\ \A j \in Junk :
                            data_element(Latest.bytes \o j) =
                              {[rest |-> j, element |-> element] : element \in Latest.meaning}
                       /\ \A k \in 0..(Len(Latest.bytes) - 1) :
                            data_element(SubSeq(Latest.bytes, 1, k)) = {}
    BY DEF CompleteOrMalformed
  <2>1. ReadsAs(Latest.bytes, Latest.meaning)
    BY LatestItem DEF LatestIs, IsItem
  <2>2. ASSUME NEW j \in Junk
        PROVE  data_element(Latest.bytes \o j) =
                 {[rest |-> j, element |-> element] : element \in Latest.meaning}
    <3>1. j \in Seq(Byte)
      BY JunkAssumption
    <3>. QED BY <2>1, <3>1 DEF ReadsAs, OneRead
  <2>. QED BY <2>1, <2>2 DEF ReadsAs
<1>. QED BY <1>1, Invariance, PTL

\* A page that fits is taken apart into what was put into it, whatever follows it,
\* and never a part of it.
LEMMA PagesAreRead ==
  ASSUME NEW attributes \in Seq(Byte), NEW state \in Seq(Byte), Len(state) <= U8_MAX,
         Fits(attributes, state)
  PROVE  PageIsRead(attributes, state) /\ NoPartIsRead(Pdu(attributes, state))
<1>. DEFINE p == RegionBytes(attributes, state)
            len == Len(p)
            pdu == Pdu(attributes, state)
            hd == [pdu_id |-> 7, transaction_id |-> 1, parameter_length |-> len]
            regions == [header             |-> hd,
                        attribute_bytes    |-> attributes,
                        continuation_state |-> state]
<1>1. 3 + Len(attributes) + Len(state) <= U16_MAX
  BY DEF Fits
<1>2. Len(attributes) \in Nat /\ Len(state) \in Nat /\ Len(attributes) <= U16_MAX
  <2>1. Len(attributes) \in Nat /\ Len(state) \in Nat
    OBVIOUS
  <2>. QED BY <1>1, <2>1, MaximaAreNat
<1>3. len \in 0..U16_MAX
  <2>1. RegionsAre(p, attributes, state)
    BY <1>2, ParametersLayout
  <2>2. len = 3 + Len(attributes) + Len(state)
    BY <2>1 DEF RegionsAre
  <2>. HIDE DEF len
  <2>. QED BY <1>1, <1>2, <2>2, MaximaAreNat
<1>4. pdu = ResponseBytes(1, len, attributes, state)
  BY DEF Pdu, ResponseBytes, PduBytes, RegionBytes
<1>5. 1 \in 0..U16_MAX
  BY DEF U16_MAX
<1>. HIDE DEF len, pdu
<1>6. HeaderIs(pdu, 7, 1, len)
  BY <1>2, <1>3, <1>4, <1>5, ResponseReadBack
<1>7. pdu_header(pdu) = {hd}
  BY <1>6 DEF HeaderIs
<1>8. ASSUME NEW j \in Junk PROVE raw_response(pdu \o j) = {regions}
  <2>1. j \in Seq(Byte)
    BY JunkAssumption
  <2>. QED BY <1>2, <1>3, <1>4, <1>5, <2>1, ResponseFollowed
<1>9. \A k \in 0..(Len(pdu) - 1) : raw_response(SubSeq(pdu, 1, k)) = {}
  BY <1>2, <1>3, <1>4, <1>5, ResponseCutShort
<1>10. {[header             |-> header,
         attribute_bytes    |-> attributes,
         continuation_state |-> state] : header \in pdu_header(pdu)} = {regions}
  <2>. HIDE DEF hd
  <2>. QED BY <1>7
<1>. HIDE DEF regions
<1>. QED BY <1>8, <1>9, <1>10 DEF PageIsRead, NoPartIsRead, pdu

\* Every page of what is written, its last element whole or cut.
THEOREM PagesReadBack == Spec => []PageRoundTrip
<1>1. ASSUME WInv PROVE PageRoundTrip
  <2>. DEFINE b == Bytes(written)
  <2>1. b \in Seq(Byte)
    BY <1>1, BytesType DEF WInv
  <2>. HIDE DEF b
  <2>2. ASSUME NEW state \in States, NEW n \in 0..Len(b), Fits(SubSeq(b, 1, n), state)
        PROVE  PageIsRead(SubSeq(b, 1, n), state)
    <3>1. SubSeq(b, 1, n) \in Seq(Byte)
      BY <2>1, Prefix
    <3>. QED BY <2>2, <3>1, StatesAssumption, PagesAreRead
  <2>3. ASSUME NEW state \in States, Fits(b, state) PROVE NoPartIsRead(Pdu(b, state))
    BY <2>1, <2>3, StatesAssumption, PagesAreRead
  <2>. QED BY <2>2, <2>3 DEF PageRoundTrip, b
<1>. QED BY <1>1, Invariance, PTL

-----------------------------------------------------------------------------
(* Requests.                                                                  *)

\* A sequence of one leaf, with one byte of length.
LEMMA SequenceOfOne ==
  ASSUME NEW leaf, IsLeaf(leaf), NEW element, leaf.meaning = {element},
         Len(leaf.bytes) <= U8_MAX
  PROVE  /\ <<53, Len(leaf.bytes)>> \o leaf.bytes \in Seq(Byte)
         /\ \A t \in Seq(Byte) :
              data_element((<<53, Len(leaf.bytes)>> \o leaf.bytes) \o t) =
                {[rest |-> t, element |-> Sequence(<<element>>)]}
<1>. DEFINE b == leaf.bytes
            s == <<53, Len(b)>> \o b
<1>1. ReadsAs(b, {element})
  BY LeafIsItem DEF IsItem
<1>2. b \in Seq(Byte) /\ sequence_contents[b \o <<>>] = Followed({element}, sequence_contents[<<>>])
  <2>. DEFINE none == <<>>
              m == {element}
  <2>1. none \in Seq(Byte)
    OBVIOUS
  <2>2. ReadsAs(b, m)
    BY <1>1
  <2>. HIDE DEF none, m, b
  <2>3. b \in Seq(Byte) /\ sequence_contents[b \o none] = Followed(m, sequence_contents[none])
    BY <2>1, <2>2 DEF ReadsAs
  <2>. QED BY <2>3 DEF none, m
<1>. HIDE DEF b
<1>3. b \o <<>> = b
  BY <1>2, ConcatEmptySeq
<1>4. Followed({element}, {<<>>}) = {<<element>>}
  <2>1. <<element>> \o <<>> = <<element>>
    OBVIOUS
  <2>. QED BY <2>1, OneFollowed
<1>5. sequence_contents[b] = {<<element>>}
  BY <1>2, <1>3, <1>4, ContentsEmpty
<1>6. Holds(1, Len(b))
  BY DEF Holds, b
<1>7. s = SequenceHeader(1, Len(b)) \o b
  <2>1. 1 # 2 /\ 1 # 4
    OBVIOUS
  <2>2. SequenceHeader(1, Len(b)) = <<53, Len(b)>>
    BY <2>1, Zenon DEF SequenceHeader
  <2>. QED BY <2>2
<1>8. ReadsAs(s, {Sequence(elements) : elements \in sequence_contents[b]}) /\ s \in Seq(Byte)
  <2>. HIDE DEF s
  <2>. QED BY <1>2, <1>6, <1>7, SequenceReads
<1>9. {Sequence(elements) : elements \in sequence_contents[b]} = {Sequence(<<element>>)}
  BY <1>5
<1>. HIDE DEF s
<1>10. ASSUME NEW t \in Seq(Byte)
       PROVE  data_element(s \o t) = {[rest |-> t, element |-> Sequence(<<element>>)]}
  <2>1. data_element(s \o t) = OneRead({Sequence(<<element>>)}, t)
    BY <1>8, <1>9 DEF ReadsAs
  <2>. QED BY <2>1 DEF OneRead
<1>. QED BY <1>8, <1>10 DEF s, b

\* A leaf whose length its size index implies.
FixedMeaning(s, i, n) ==
  IF s[1] \div 8 = UINT_TYPE
    THEN IF n \in {1, 2, 4} THEN {UnsignedInt(Number(SubSeq(s, 2, Len(s))))} ELSE {}
  ELSE IF s[1] \div 8 = UUID_TYPE /\ i = 1
    THEN {Uuid16(Number(SubSeq(s, 2, Len(s))))}
  ELSE {Unknown}

FixedForm(s, i, n) ==
  /\ s \in Seq(Byte) /\ i \in {0, 1, 2, 3, 4} /\ n \in Nat
  /\ s[1] % 8 = i /\ s[1] # 0 /\ s[1] \div 8 # SEQUENCE_TYPE
  /\ n = <<1, 2, 4, 8, 16>>[i + 1] /\ Len(s) = 1 + n

LEMMA FixedLeaf ==
  ASSUME NEW leaf, NEW s, leaf.bytes = s, NEW i, NEW n, FixedForm(s, i, n),
         leaf.meaning = FixedMeaning(s, i, n)
  PROVE  IsLeaf(leaf)
<1>0. /\ s \in Seq(Byte) /\ i \in {0, 1, 2, 3, 4} /\ n \in Nat
      /\ s[1] % 8 = i /\ s[1] # 0 /\ s[1] \div 8 # SEQUENCE_TYPE
      /\ n = <<1, 2, 4, 8, 16>>[i + 1] /\ Len(s) = 1 + n
  BY DEF FixedForm
<1>1. SizeIndex(leaf.bytes[1]) = i /\ ElementType(leaf.bytes[1]) = s[1] \div 8
  BY <1>0 DEF SizeIndex, ElementType
<1>2. Width(leaf) = 0
  <2>1. \A j \in {0, 1, 2, 3, 4} : <<0, 0, 0, 0, 0, 1, 2, 4>>[j + 1] = 0
    OBVIOUS
  <2>. QED BY <1>0, <1>1, <2>1 DEF Width
<1>3. Size(leaf) = n
  BY <1>0, <1>1, <1>2 DEF Size
<1>4. Payload(leaf) = SubSeq(s, 2, Len(s))
  BY <1>2 DEF Payload
<1>5. s # <<>> /\ Len(s) > 0 /\ Len(s) = 1 + 0 + n
  <2>1. n \in Nat /\ Len(s) = 1 + n
    BY <1>0
  <2>2. Len(s) # 0 /\ Len(s) > 0 /\ Len(s) = 1 + 0 + n
    BY ONLY <2>1
  <2>. QED BY <2>2
<1>7. /\ leaf.bytes \in Seq(Byte) /\ leaf.bytes # <<>>
      /\ Len(leaf.bytes) > Width(leaf) /\ Len(leaf.bytes) = 1 + Width(leaf) + Size(leaf)
      /\ ElementType(leaf.bytes[1]) # SEQUENCE_TYPE
      /\ leaf.meaning =
           IF ElementType(leaf.bytes[1]) = UINT_TYPE
             THEN IF Size(leaf) \in {1, 2, 4}
                    THEN {UnsignedInt(Number(Payload(leaf)))} ELSE {}
           ELSE IF ElementType(leaf.bytes[1]) = UUID_TYPE /\ SizeIndex(leaf.bytes[1]) = 1
             THEN {Uuid16(Number(Payload(leaf)))}
           ELSE {Unknown}
  BY <1>0, <1>1, <1>2, <1>3, <1>4, <1>5 DEF FixedMeaning
<1>. QED BY <1>7, LeafIntroduced

UuidBytes(service) == <<25>> \o U16(service)
RangeValue == <<10, 0, 0, 255, 255>>
UuidLeaf(service) == [bytes |-> UuidBytes(service), meaning |-> {Uuid16(service)}]
RangeLeaf == [bytes |-> RangeValue, meaning |-> {UnsignedInt(U16_MAX)}]

\* The searched UUID and the range of attributes are leaves.
UuidBytesAre(b, service) ==
  /\ b \in Seq(Byte) /\ Len(b) = 3 /\ b[1] = 25
  /\ SubSeq(b, 1 + 1, 3) = U16(service) /\ Number(U16(service)) = service

LEMMA UuidBytesForm ==
  ASSUME NEW service \in 0..U16_MAX
  PROVE  UuidBytesAre(UuidBytes(service), service)
<1>. DEFINE u == U16(service)
            d == <<25>>
            b == d \o u
<1>1. u \in Seq(Byte) /\ Len(u) = 2 /\ BigEndian(u) = service
  BY U16Bytes
<1>2. d \in Seq(Byte) /\ Len(d) = 1 /\ d[1] = 25
  BY DEF Byte
<1>3. UuidBytes(service) = b
  BY DEF UuidBytes
<1>. HIDE DEF u, d, b
<1>4. /\ b \in Seq(Byte) /\ Len(b) = Len(d) + Len(u)
      /\ \A i \in 1..Len(d) : b[i] = d[i]
      /\ \A i \in 1..Len(u) : b[Len(d) + i] = u[i]
  BY <1>1, <1>2, Joined DEF b
<1>5. Len(b) = 3 /\ b[1] = 25 /\ \A i \in 1..Len(u) : b[1 + i] = u[i]
  <2>1. 1 \in 1..Len(d)
    BY <1>2
  <2>. QED BY ONLY <1>1, <1>2, <1>4, <2>1
<1>6. SubSeq(b, 1 + 1, 1 + Len(u)) = u
  <2>1. 1 \in Nat /\ 1 + Len(u) <= Len(b)
    BY <1>1, <1>5
  <2>. QED BY ONLY <1>1, <1>4, <1>5, <2>1, PartIs
<1>7. 1 + Len(u) = 3
  BY <1>1
<1>8. Number(u) = service
  BY <1>1, NumberIsBigEndian
<1>. QED BY <1>3, <1>4, <1>5, <1>6, <1>7, <1>8 DEF UuidBytesAre, u

LEMMA UuidLeafIs ==
  ASSUME NEW service \in 0..U16_MAX
  PROVE  IsLeaf(UuidLeaf(service)) /\ Len(UuidBytes(service)) = 3
<1>. DEFINE b == UuidBytes(service)
            leaf == UuidLeaf(service)
<1>1. b \in Seq(Byte) /\ Len(b) = 3 /\ b[1] = 25 /\ Number(SubSeq(b, 1 + 1, 3)) = service
  BY UuidBytesForm DEF UuidBytesAre
<1>2. leaf.bytes = b /\ leaf.meaning = {Uuid16(service)}
  BY DEF UuidLeaf
<1>. HIDE DEF b, leaf
<1>3. Number(SubSeq(b, 2, Len(b))) = service
  <2>1. 1 + 1 = 2
    OBVIOUS
  <2>. QED BY <1>1, <2>1
<1>4. b[1] % 8 = 1 /\ b[1] # 0 /\ b[1] \div 8 = 3 /\ Len(b) = 1 + 2
  BY <1>1
<1>5. <<1, 2, 4, 8, 16>>[1 + 1] = 2 /\ 2 \in Nat /\ 1 \in {0, 1, 2, 3, 4}
  OBVIOUS
<1>6. 3 = UUID_TYPE /\ 3 # UINT_TYPE /\ 3 # SEQUENCE_TYPE
  BY DEF UUID_TYPE, UINT_TYPE, SEQUENCE_TYPE
<1>7. leaf.meaning = FixedMeaning(b, 1, 2)
  BY <1>2, <1>3, <1>4, <1>5, <1>6 DEF FixedMeaning
<1>8. b[1] \div 8 # SEQUENCE_TYPE
  BY <1>4, <1>6
<1>9. FixedForm(b, 1, 2)
  BY <1>1, <1>4, <1>5, <1>8 DEF FixedForm
<1>10. IsLeaf(leaf)
  BY <1>2, <1>7, <1>9, FixedLeaf
<1>. QED BY <1>1, <1>10 DEF b, leaf

LEMMA RangeLeafIs == IsLeaf(RangeLeaf) /\ Len(RangeValue) = 5
<1>. DEFINE b == RangeValue
            q == SubSeq(b, 1 + 1, 5)
<1>1. /\ b \in Seq(Byte) /\ Len(b) = 5
      /\ b[1] = 10 /\ b[2] = 0 /\ b[3] = 0 /\ b[4] = 255 /\ b[5] = 255
  BY DEF RangeValue, Byte
<1>2. RangeLeaf.bytes = b /\ RangeLeaf.meaning = {UnsignedInt(U16_MAX)}
  BY DEF RangeLeaf
<1>. HIDE DEF b
<1>3. q \in Seq(Byte) /\ Len(q) = 4 /\ \A i \in 1..4 : q[i] = b[1 + i]
  <2>1. 1 \in Nat /\ 5 \in 1..Len(b) /\ 5 - 1 = 4 /\ b \in Seq(Byte)
    BY <1>1
  <2>2. /\ q \in Seq(Byte) /\ Len(q) = 5 - 1
        /\ \A i \in 1..(5 - 1) : q[i] = b[1 + i]
    BY <2>1, Part
  <2>. HIDE DEF q
  <2>. QED BY <2>1, <2>2
<1>. HIDE DEF q
<1>4. q[1] = 0 /\ q[2] = 0 /\ q[3] = 255 /\ q[4] = 255
  BY <1>1, <1>3
<1>5. Number(q) = U16_MAX
  <2>1. q \in Seq(Nat)
    BY <1>3, ByteIsNat
  <2>2. BigEndian(q) = 256 * (256 * (256 * q[1] + q[2]) + q[3]) + q[4]
    BY <1>3, <2>1, BigEndianFour
  <2>3. BigEndian(q) = Number(q)
    BY <1>3, NumberIsBigEndian
  <2>. QED BY <1>4, <2>2, <2>3 DEF U16_MAX
<1>6. Number(SubSeq(b, 2, Len(b))) = U16_MAX
  <2>1. 1 + 1 = 2
    OBVIOUS
  <2>. QED BY <1>1, <1>5, <2>1 DEF q
<1>7. /\ b[1] % 8 = 2 /\ b[1] # 0 /\ b[1] \div 8 = 1 /\ Len(b) = 1 + 4
  BY <1>1
<1>8. <<1, 2, 4, 8, 16>>[2 + 1] = 4 /\ 4 \in Nat /\ 2 \in {0, 1, 2, 3, 4} /\ 4 \in {1, 2, 4}
  OBVIOUS
<1>9. 1 = UINT_TYPE /\ 1 # SEQUENCE_TYPE
  BY DEF UINT_TYPE, SEQUENCE_TYPE
<1>10. RangeLeaf.meaning = FixedMeaning(b, 2, 4)
  BY <1>2, <1>6, <1>7, <1>8, <1>9 DEF FixedMeaning
<1>11. b[1] \div 8 # SEQUENCE_TYPE
  BY <1>7, <1>9
<1>12. FixedForm(b, 2, 4)
  BY <1>1, <1>7, <1>8, <1>11 DEF FixedForm
<1>13. IsLeaf(RangeLeaf)
  BY <1>2, <1>10, <1>12, FixedLeaf
<1>. QED BY <1>1, <1>13 DEF b

\* The body of a request is the pattern, the byte count, the range and the state.
PatternBytes(service) == <<53, 3>> \o UuidBytes(service)
RangeBytes == <<53, 5>> \o RangeValue
Behind(state) == <<Len(state)>> \o state

\* A concatenation is known by its elements.
LEMMA JoinedIs ==
  ASSUME NEW s \in Seq(Byte), NEW t \in Seq(Byte), NEW w \in Seq(Byte),
         Len(w) = Len(s) + Len(t),
         \A i \in 1..Len(s) : w[i] = s[i], \A i \in 1..Len(t) : w[Len(s) + i] = t[i]
  PROVE  s \o t = w
<1>1. Len(s) \in Nat /\ Len(t) \in Nat
  OBVIOUS
<1>2. /\ s \o t \in Seq(Byte) /\ Len(s \o t) = Len(w)
      /\ \A i \in 1..Len(s) : (s \o t)[i] = w[i]
      /\ \A i \in 1..Len(t) : (s \o t)[Len(s) + i] = w[Len(s) + i]
  BY Joined
<1>3. ASSUME NEW i \in 1..Len(w) PROVE (s \o t)[i] = w[i]
  <2>1. CASE i <= Len(s)
    <3>1. i \in 1..Len(s)
      BY <1>1, <2>1
    <3>. QED BY <1>2, <3>1
  <2>2. CASE ~(i <= Len(s))
    <3>1. i - Len(s) \in 1..Len(t) /\ Len(s) + (i - Len(s)) = i
      BY <1>1, <2>2
    <3>. QED BY <1>2, <3>1
  <2>. QED BY <2>1, <2>2
<1>. QED BY <1>2, <1>3, SeqEqual

\* The fixed bytes of a request, grouped as elements instead of fields.
LEMMA PatternIs ==
  ASSUME NEW service \in 0..U16_MAX
  PROVE  /\ PatternBytes(service) \in Seq(Byte)
         /\ <<53, 3, 25>> \o U16(service) = PatternBytes(service)
<1>. DEFINE c == <<53, 3>>
            d == <<25>>
            u == U16(service)
<1>1. c \in Seq(Byte) /\ d \in Seq(Byte)
  BY DEF Byte
<1>2. u \in Seq(Byte)
  BY U16Bytes
<1>3. <<53, 3, 25>> = c \o d
  OBVIOUS
<1>. HIDE DEF c, d, u
<1>4. (c \o d) \o u = c \o (d \o u)
  BY <1>1, <1>2, Associative
<1>5. c \o (d \o u) \in Seq(Byte)
  BY <1>1, <1>2, ConcatProperties
<1>. QED BY <1>3, <1>4, <1>5 DEF PatternBytes, UuidBytes, c, d, u

LEMMA RangeIs == RangeBytes \in Seq(Byte) /\ <<53, 5, 10, 0, 0, 255, 255>> = RangeBytes
<1>. DEFINE w == <<53, 5, 10, 0, 0, 255, 255>>
            c == <<53, 5>>
            d == <<10, 0, 0, 255, 255>>
<1>1. /\ w \in Seq(Byte) /\ Len(w) = 7 /\ w[1] = 53 /\ w[2] = 5
      /\ w[3] = 10 /\ w[4] = 0 /\ w[5] = 0 /\ w[6] = 255 /\ w[7] = 255
  BY DEF Byte
<1>2. c \in Seq(Byte) /\ Len(c) = 2 /\ c[1] = 53 /\ c[2] = 5
  BY DEF Byte
<1>3. /\ d \in Seq(Byte) /\ Len(d) = 5
      /\ d[1] = 10 /\ d[2] = 0 /\ d[3] = 0 /\ d[4] = 255 /\ d[5] = 255
  BY DEF Byte
<1>4. RangeBytes = c \o d
  BY DEF RangeBytes, RangeValue
<1>. HIDE DEF w, c, d
<1>5. Len(w) = Len(c) + Len(d) /\ \A i \in 1..Len(c) : w[i] = c[i]
  BY <1>1, <1>2, <1>3
<1>6. \A i \in 1..Len(d) : w[Len(c) + i] = d[i]
  BY <1>1, <1>2, <1>3
<1>7. c \o d = w
  <2>1. w \in Seq(Byte) /\ c \in Seq(Byte) /\ d \in Seq(Byte)
    BY <1>1, <1>2, <1>3
  <2>. QED BY ONLY <1>5, <1>6, <2>1, JoinedIs
<1>. QED BY <1>1, <1>4, <1>7 DEF w

Regroups(p, c, r, l, s) ==
  /\ (((p \o c) \o r) \o l) \o s = p \o (c \o (r \o (l \o s)))
  /\ l \o s \in Seq(Byte) /\ r \o (l \o s) \in Seq(Byte)

\* The same regrouping for what surrounds them.
LEMMA Regrouped ==
  ASSUME NEW p \in Seq(Byte), NEW c \in Seq(Byte), NEW r \in Seq(Byte),
         NEW l \in Seq(Byte), NEW s \in Seq(Byte)
  PROVE  Regroups(p, c, r, l, s)
<1>. DEFINE ls == l \o s
            rls == r \o ls
            pc == p \o c
            pcr == pc \o r
<1>1. ls \in Seq(Byte) /\ pc \in Seq(Byte)
  BY ConcatProperties
<1>2. pcr \in Seq(Byte) /\ rls \in Seq(Byte)
  <2>. HIDE DEF ls, pc
  <2>. QED BY <1>1, ConcatProperties
<1>3. (pcr \o l) \o s = pcr \o ls
  <2>1. \A x, y \in Seq(Byte) : (x \o l) \o y = x \o (l \o y)
    BY ONLY l \in Seq(Byte), Associative
  <2>2. pcr \in Seq(Byte)
    BY <1>2
  <2>. HIDE DEF pcr, rls
  <2>. QED BY ONLY <2>1, <2>2, s \in Seq(Byte)
<1>4. pcr \o ls = pc \o rls
  <2>1. \A x, y \in Seq(Byte) : (x \o r) \o y = x \o (r \o y)
    BY ONLY r \in Seq(Byte), Associative
  <2>. HIDE DEF ls, pc
  <2>2. (pc \o r) \o ls = pc \o (r \o ls)
    BY <1>1, <2>1
  <2>. QED BY <2>2
<1>5. pc \o rls = p \o (c \o rls)
  <2>1. \A x \in Seq(Byte) : (p \o c) \o x = p \o (c \o x)
    BY ONLY p \in Seq(Byte), c \in Seq(Byte), Associative
  <2>2. rls \in Seq(Byte)
    BY <1>2
  <2>. HIDE DEF rls, ls, pcr
  <2>. QED BY ONLY <2>1, <2>2
<1>6. (((p \o c) \o r) \o l) \o s = p \o (c \o (r \o (l \o s)))
  BY <1>3, <1>4, <1>5
<1>. QED BY <1>1, <1>2, <1>6 DEF Regroups

BodyIsOf(body, service, state) ==
  /\ Behind(state) \in Seq(Byte) /\ RangeBytes \o Behind(state) \in Seq(Byte)
  /\ body = PatternBytes(service) \o (<<255, 255>> \o (RangeBytes \o Behind(state)))

LEMMA BodyParts ==
  ASSUME NEW r, r.service_uuid16 \in 0..U16_MAX, r.continuation_state \in Seq(Byte),
         Len(r.continuation_state) <= U8_MAX
  PROVE  BodyIsOf(RequestBody(r), r.service_uuid16, r.continuation_state)
<1>. DEFINE state == r.continuation_state
            service == r.service_uuid16
            u == U16(service)
            h == <<53, 3, 25>>
            p == h \o u
            c == <<255, 255>>
            g == <<53, 5, 10, 0, 0, 255, 255>>
            l == <<Len(state)>>
<1>1. RequestBody(r) = (((p \o c) \o g) \o l) \o state
  BY DEF RequestBody, SEQUENCE_LEN_3, UUID16_DESCRIPTOR, UINT32_DESCRIPTOR
<1>3. l \in Seq(Byte) /\ state \in Seq(Byte)
  <2>1. Len(state) \in Byte
    BY SmallIsByte
  <2>. QED BY <2>1
<1>4. c \in Seq(Byte)
  BY DEF Byte
<1>5. Behind(state) = l \o state
  BY DEF Behind
<1>6. p = PatternBytes(service) /\ PatternBytes(service) \in Seq(Byte)
  BY PatternIs
<1>7. g = RangeBytes /\ RangeBytes \in Seq(Byte)
  <2>1. g = <<53, 5, 10, 0, 0, 255, 255>>
    OBVIOUS
  <2>. HIDE DEF g
  <2>. QED BY <2>1, RangeIs
<1>. HIDE DEF state, service, p, c, g, l
<1>8. p \in Seq(Byte) /\ g \in Seq(Byte)
  BY <1>6, <1>7
<1>9. /\ (((p \o c) \o g) \o l) \o state = p \o (c \o (g \o (l \o state)))
      /\ l \o state \in Seq(Byte) /\ g \o (l \o state) \in Seq(Byte)
  <2>. HIDE DEF u, h
  <2>1. Regroups(p, c, g, l, state)
    BY <1>3, <1>4, <1>8, Regrouped
  <2>. QED BY <2>1 DEF Regroups
<1>10. RequestBody(r) = PatternBytes(service) \o (c \o (RangeBytes \o Behind(state)))
  BY <1>1, <1>5, <1>6, <1>7, <1>9
<1>11. Behind(state) \in Seq(Byte) /\ RangeBytes \o Behind(state) \in Seq(Byte)
  BY <1>5, <1>7, <1>9
<1>. QED BY <1>10, <1>11 DEF c, state, service, BodyIsOf

\* The two bytes of the byte count, and what is behind them.
LEMMA BehindCount ==
  ASSUME NEW t \in Seq(Byte), NEW s, s = <<255, 255>> \o t
  PROVE  s \in Seq(Byte) /\ SubSeq(s, 1, 2) = U16(U16_MAX) /\ SubSeq(s, 3, Len(s)) = t
<1>. DEFINE c == <<255, 255>>
<1>1. c \in Seq(Byte) /\ Len(c) = 2 /\ U16(U16_MAX) = c
  BY DEF Byte, U16, U16_MAX
<1>. HIDE DEF c
<1>2. /\ s \in Seq(Byte) /\ Len(s) = 2 + Len(t)
      /\ \A i \in 1..2 : s[i] = c[i]
      /\ \A i \in 1..Len(t) : s[2 + i] = t[i]
  BY <1>1, Joined DEF c
<1>3. SubSeq(s, 0 + 1, 0 + Len(c)) = c
  <2>1. 0 \in Nat /\ 0 + Len(c) <= Len(s) /\ \A i \in 1..Len(c) : s[0 + i] = c[i]
    BY <1>1, <1>2
  <2>. QED BY <1>1, <1>2, <2>1, PartIs
<1>4. SubSeq(s, 2 + 1, 2 + Len(t)) = t
  <2>1. 2 \in Nat /\ 2 + Len(t) <= Len(s)
    BY <1>2
  <2>. QED BY <1>2, <2>1, PartIs
<1>5. 0 + 1 = 1 /\ 0 + Len(c) = 2 /\ 2 + 1 = 3
  BY <1>1
<1>. QED BY <1>1, <1>2, <1>3, <1>4, <1>5

\* Both are read back, whatever follows them.
LEMMA PatternReads ==
  ASSUME NEW service \in 0..U16_MAX, NEW t \in Seq(Byte)
  PROVE  data_element(PatternBytes(service) \o t) =
           {[rest |-> t, element |-> Sequence(<<Uuid16(service)>>)]}
<1>. DEFINE leaf == UuidLeaf(service)
<1>1. leaf.bytes = UuidBytes(service) /\ leaf.meaning = {Uuid16(service)}
  BY DEF UuidLeaf
<1>2. Len(leaf.bytes) = 3 /\ 3 <= U8_MAX /\ IsLeaf(leaf)
  BY <1>1, UuidLeafIs DEF U8_MAX
<1>3. PatternBytes(service) = <<53, Len(leaf.bytes)>> \o leaf.bytes
  BY <1>1, <1>2 DEF PatternBytes
<1>. HIDE DEF leaf
<1>. DEFINE e == Uuid16(service)
<1>4. data_element((<<53, Len(leaf.bytes)>> \o leaf.bytes) \o t) =
        {[rest |-> t, element |-> Sequence(<<e>>)]}
  <2>1. leaf.meaning = {e} /\ Len(leaf.bytes) <= U8_MAX
    BY <1>1, <1>2
  <2>2. IsLeaf(leaf)
    BY <1>2
  <2>. HIDE DEF e
  <2>. QED BY ONLY <2>1, <2>2, SequenceOfOne, t \in Seq(Byte)
<1>5. data_element(PatternBytes(service) \o t) = {[rest |-> t, element |-> Sequence(<<e>>)]}
  <2>. HIDE DEF e
  <2>. QED BY <1>3, <1>4
<1>. QED BY <1>5

LEMMA RangeReads ==
  ASSUME NEW t \in Seq(Byte)
  PROVE  data_element(RangeBytes \o t) =
           {[rest |-> t, element |-> Sequence(<<UnsignedInt(U16_MAX)>>)]}
<1>1. RangeLeaf.bytes = RangeValue /\ RangeLeaf.meaning = {UnsignedInt(U16_MAX)}
  BY DEF RangeLeaf
<1>2. Len(RangeLeaf.bytes) = 5 /\ 5 <= U8_MAX /\ IsLeaf(RangeLeaf)
  BY <1>1, RangeLeafIs DEF U8_MAX
<1>3. RangeBytes = <<53, Len(RangeLeaf.bytes)>> \o RangeLeaf.bytes
  BY <1>1, <1>2 DEF RangeBytes
<1>. DEFINE e == UnsignedInt(U16_MAX)
<1>4. data_element((<<53, Len(RangeLeaf.bytes)>> \o RangeLeaf.bytes) \o t) =
        {[rest |-> t, element |-> Sequence(<<e>>)]}
  <2>1. RangeLeaf.meaning = {e} /\ Len(RangeLeaf.bytes) <= U8_MAX
    BY <1>1, <1>2
  <2>2. IsLeaf(RangeLeaf)
    BY <1>2
  <2>. HIDE DEF e
  <2>. QED BY ONLY <2>1, <2>2, SequenceOfOne, t \in Seq(Byte)
<1>. QED BY <1>3, <1>4

\* A request is read back by the other side, for every transaction, service and
\* continuation state; one whose state is too long is refused (encode.rs).
THEOREM EncodedRequestsReadBack ==
  ASSUME NEW tid \in 0..U16_MAX, NEW service \in 0..U16_MAX, NEW state \in Seq(Byte)
  PROVE  RequestsAreRead(tid, service, state)
<1>. DEFINE r == RequestWith(tid, service, state)
            pdus == encode(r)
<1>1. /\ tid \in 0..U16_MAX /\ service \in 0..U16_MAX
      /\ state \in Seq(Byte) /\ Len(state) \in Nat
  OBVIOUS
<1>2. /\ r.transaction_id = tid /\ r.service_uuid16 = service
      /\ r.continuation_state = state
  BY DEF RequestWith
<1>3. ASSUME pdus = {} <=> Len(state) > U8_MAX,
             \A pdu \in pdus : RequestIsRead(tid, service, state, pdu)
      PROVE  RequestsAreRead(tid, service, state)
  BY <1>3 DEF RequestsAreRead
<1>4. ASSUME ~(Len(state) <= U8_MAX) PROVE RequestsAreRead(tid, service, state)
  <2>1. pdus = {}
    BY <1>2, <1>4 DEF encode
  <2>2. Len(state) > U8_MAX
    BY <1>1, <1>4, MaximaAreNat
  <2>. HIDE DEF pdus
  <2>. QED BY <1>3, <2>1, <2>2
<1>5. ASSUME Len(state) <= U8_MAX PROVE RequestsAreRead(tid, service, state)
  <2>1. r \in QueryRequest
    BY ONLY <1>1, <1>5 DEF QueryRequest, RequestWith, r
  <2>. HIDE DEF r
  <2>. DEFINE body == RequestBody(r)
              pdu == RequestBytes(r)
              b == Behind(state)
              t == RangeBytes \o b
              rest == <<255, 255>> \o t
  <2>2. /\ pdus = {pdu} /\ Len(body) \in 0..U16_MAX
        /\ PduIs(pdu, 6, r.transaction_id, Len(body), body)
    BY <2>1, RequestLayout
  <2>3. b \in Seq(Byte) /\ t \in Seq(Byte) /\ body = PatternBytes(service) \o rest
    <3>1. /\ r.service_uuid16 \in 0..U16_MAX
          /\ r.continuation_state \in Seq(Byte) /\ Len(r.continuation_state) <= U8_MAX
      BY <1>1, <1>2, <1>5
    <3>2. BodyIsOf(RequestBody(r), r.service_uuid16, r.continuation_state)
      BY ONLY <1>2, <3>1, BodyParts
    <3>. QED BY <1>2, <3>2 DEF BodyIsOf
  <2>. HIDE DEF pdu, body, b
  <2>4. /\ pdu \in Seq(Byte) /\ Len(pdu) = 5 + Len(body) /\ Len(body) \in Nat
        /\ pdu[1] = 6 /\ 256 * pdu[2] + pdu[3] = tid /\ 256 * pdu[4] + pdu[5] = Len(body)
        /\ SubSeq(pdu, 6, Len(pdu)) = body
    BY <1>2, <2>2 DEF PduIs
  <2>5. pdu_header(pdu) = {[pdu_id           |-> 6,
                            transaction_id   |-> tid,
                            parameter_length |-> Len(pdu) - PDU_HEADER_LEN]}
    <3>1. Len(pdu) >= 5 /\ Len(pdu) - PDU_HEADER_LEN = Len(body)
      BY <2>4 DEF PDU_HEADER_LEN
    <3>2. HeaderIs(pdu, 6, tid, Len(body))
      BY ONLY <1>2, <2>2, <2>4, PduHeader
    <3>. QED BY <3>1, <3>2 DEF HeaderIs
  <2>6. data_element(t) = {[rest |-> b, element |-> Sequence(<<UnsignedInt(U16_MAX)>>)]}
    BY <2>3, RangeReads
  <2>. HIDE DEF t
  <2>7. rest \in Seq(Byte) /\ SubSeq(rest, 1, 2) = U16(U16_MAX) /\ SubSeq(rest, 3, Len(rest)) = t
    BY <2>3, BehindCount
  <2>. HIDE DEF rest
  <2>. DEFINE pattern == [rest |-> rest, element |-> Sequence(<<Uuid16(service)>>)]
  <2>8. pattern \in data_element(SubSeq(pdu, 6, Len(pdu)))
    <3>1. data_element(PatternBytes(service) \o rest) = {pattern}
      BY <2>7, PatternReads
    <3>2. SubSeq(pdu, 6, Len(pdu)) = PatternBytes(service) \o rest
      BY <2>3, <2>4
    <3>. HIDE DEF pattern
    <3>. QED BY <3>1, <3>2
  <2>9. pattern.element = Sequence(<<Uuid16(service)>>) /\ pattern.rest = rest
    OBVIOUS
  <2>. HIDE DEF pattern
  <2>10. /\ SubSeq(pattern.rest, 1, 2) = U16(U16_MAX)
         /\ SubSeq(pattern.rest, 3, Len(pattern.rest)) = t
    BY <2>7, <2>9
  <2>11. data_element(t) = {[rest    |-> <<Len(state)>> \o state,
                             element |-> Sequence(<<UnsignedInt(U16_MAX)>>)]}
    BY <2>6 DEF b, Behind
  <2>12. RequestIsRead(tid, service, state, pdu)
    <3>1. data_element(SubSeq(pattern.rest, 3, Len(pattern.rest))) =
            {[rest    |-> <<Len(state)>> \o state,
              element |-> Sequence(<<UnsignedInt(U16_MAX)>>)]}
      BY <2>10, <2>11
    <3>2. PatternIsRead(service, state, pattern)
      <4>1. pattern.element = Sequence(<<Uuid16(service)>>)
        BY <2>9
      <4>2. SubSeq(pattern.rest, 1, 2) = U16(U16_MAX)
        BY <2>10
      <4>3. data_element(SubSeq(pattern.rest, 3, Len(pattern.rest))) =
              {[rest    |-> <<Len(state)>> \o state,
                element |-> Sequence(<<UnsignedInt(U16_MAX)>>)]}
        BY <3>1
      <4>. QED BY ONLY <4>1, <4>2, <4>3 DEF PatternIsRead
    <3>. QED BY <2>5, <2>8, <3>2 DEF RequestIsRead
  <2>13. ~(Len(state) > U8_MAX)
    BY <1>1, <1>5, MaximaAreNat
  <2>14. pdus # {} /\ \A x \in pdus : x = pdu
    BY <2>2
  <2>. HIDE DEF pdus
  <2>. QED BY <1>3, <2>12, <2>13, <2>14
<1>. QED BY <1>4, <1>5

\* The requests the run checks are among them.
THEOREM RequestsReadBack == Spec => []RequestRoundTrip
<1>1. ASSUME WInv, NEW s \in States PROVE RequestsAreRead(258, 4399, s \o Bytes(written))
  <2>. DEFINE state == s \o Bytes(written)
  <2>1. state \in Seq(Byte)
    <3>1. Bytes(written) \in Seq(Byte) /\ s \in Seq(Byte)
      BY <1>1, BytesType, StatesAssumption DEF WInv
    <3>. QED BY ONLY <3>1, ConcatProperties
  <2>2. 258 \in 0..U16_MAX /\ 4399 \in 0..U16_MAX
    BY ONLY DEF U16_MAX
  <2>. HIDE DEF state
  <2>3. RequestsAreRead(258, 4399, state)
    BY ONLY <2>1, <2>2, EncodedRequestsReadBack
  <2>. QED BY <2>3 DEF state
<1>2. WInv => RequestRoundTrip
  BY <1>1 DEF RequestRoundTrip
<1>. QED BY <1>2, Invariance, PTL

-----------------------------------------------------------------------------
(* What the codec makes of the elements.                                      *)

\* The latest element is all there is to read: one element of elements, or nothing.
LatestReads(S) ==
  /\ ElementSet(S)
  /\ \/ Latest.meaning = {} /\ data_element(Latest.bytes) = {}
     \/ \E e \in S : /\ Latest.meaning = {e}
                     /\ data_element(Latest.bytes) = {[rest |-> <<>>, element |-> e]}

\* One of the two is so.
LEMMA LatestElement ==
  ASSUME WInv, written # <<>>
  PROVE  \E S : LatestReads(S)
<1>2. IsItem(Latest)
  BY LatestItem DEF LatestIs
<1>. DEFINE b == Latest.bytes
            m == Latest.meaning
            none == <<>>
<1>4. ReadsAs(b, m) /\ Single(m)
  BY <1>2 DEF IsItem
<1>5. none \in Seq(Byte)
  OBVIOUS
<1>. HIDE DEF b, m, none
<1>6. b \in Seq(Byte) /\ data_element(b \o none) = OneRead(m, none)
  BY <1>4, <1>5 DEF ReadsAs
<1>7. b \o none = b
  BY <1>6, ConcatEmptySeq DEF none
<1>1. PICK S : ElementSet(S) /\ ReadsOne(b, S)
  BY <1>6, ElementIsRead
<1>8. CASE m = {}
  <2>1. OneRead({}, none) = {}
    BY DEF OneRead
  <2>2. data_element(b) = {}
    BY <1>6, <1>7, <1>8, <2>1
  <2>. QED BY <1>1, <1>8, <2>2 DEF LatestReads, b, m
<1>9. CASE m # {}
  <2>1. PICK e : m = {e}
    BY <1>4, <1>9 DEF Single
  <2>2. OneRead({e}, none) = {[rest |-> none, element |-> e]}
    BY DEF OneRead
  <2>3. data_element(b) = {[rest |-> none, element |-> e]}
    BY <1>6, <1>7, <2>1, <2>2
  <2>4. e \in S
    <3>1. PICK d \in S, rest \in Seq(Byte) : data_element(b) = {[rest |-> rest, element |-> d]}
      BY <1>1, <2>3 DEF ReadsOne
    <3>2. [rest |-> none, element |-> e] = [rest |-> rest, element |-> d]
      BY <2>3, <3>1
    <3>. QED BY <3>2
  <2>. QED BY <1>1, <2>1, <2>3, <2>4 DEF LatestReads, b, m, none
<1>. QED BY <1>8, <1>9

\* A decoded answer is the latest element's lists.
LEMMA DecodedLists ==
  ASSUME NEW S, LatestReads(S), NEW lists \in decode_attribute_lists(Latest.bytes)
  PROVE  \E e \in S : Latest.meaning = {e} /\ lists \in AttributeLists(e)
<1>1. decode_attribute_lists(Latest.bytes) =
        UNION {AttributeLists(outer.element) : outer \in data_element(Latest.bytes)}
  BY DEF decode_attribute_lists
<1>2. data_element(Latest.bytes) # {}
  BY <1>1
<1>3. PICK e \in S : /\ Latest.meaning = {e}
                     /\ data_element(Latest.bytes) = {[rest |-> <<>>, element |-> e]}
  BY <1>2 DEF LatestReads
<1>4. lists \in AttributeLists(e)
  BY <1>1, <1>3
<1>. QED BY <1>3, <1>4

\* Pairs of a sequence, joined again.
PairSeq(t) == [i \in 1..(Len(t) \div 2) |-> <<t[2 * i - 1], t[2 * i]>>]
JoinsPairs(t) == FlattenSeq(PairSeq(t)) = t

LEMMA PairSeqType ==
  ASSUME NEW S, NEW t \in Seq(S), NEW n \in Nat, Len(t) = 2 * n
  PROVE  /\ PairSeq(t) \in Seq(Seq(S)) /\ Len(PairSeq(t)) = n
         /\ \A i \in 1..n : PairSeq(t)[i] = <<t[2 * i - 1], t[2 * i]>>
<1>1. Len(t) \div 2 = n
  OBVIOUS
<1>2. ASSUME NEW i \in 1..n PROVE <<t[2 * i - 1], t[2 * i]>> \in Seq(S)
  <2>1. 2 * i - 1 \in 1..Len(t) /\ 2 * i \in 1..Len(t)
    OBVIOUS
  <2>2. t[2 * i - 1] \in S /\ t[2 * i] \in S
    BY <2>1
  <2>. QED BY <2>2
<1>. QED BY <1>1, <1>2 DEF PairSeq

\* By induction on their number.
LEMMA PairsJoined ==
  ASSUME NEW S
  PROVE  \A n \in Nat : \A t \in Seq(S) : Len(t) = 2 * n => JoinsPairs(t)
<1>. DEFINE T == {n \in Nat : \A t \in Seq(S) : Len(t) = 2 * n => JoinsPairs(t)}
<1>1. 0 \in T
  <2>1. ASSUME NEW t \in Seq(S), Len(t) = 2 * 0 PROVE JoinsPairs(t)
    <3>1. t = <<>>
      BY <2>1
    <3>2. 0 \in Nat
      OBVIOUS
    <3>3. PairSeq(t) \in Seq(Seq(S)) /\ Len(PairSeq(t)) = 0
      BY <2>1, <3>2, PairSeqType
    <3>4. PairSeq(t) = <<>>
      <4>. DEFINE p == PairSeq(t)
      <4>. HIDE DEF p
      <4>1. p \in Seq(Seq(S)) /\ Len(p) = 0
        BY <3>3 DEF p
      <4>2. p = <<>>
        BY <4>1
      <4>. QED BY <4>2 DEF p
    <3>. QED BY <3>1, <3>4, FlattenEmpty DEF JoinsPairs
  <2>. QED BY <2>1
<1>2. ASSUME NEW n \in Nat, n \in T, NEW t \in Seq(S), Len(t) = 2 * (n + 1)
      PROVE  JoinsPairs(t)
  <2>. DEFINE u == SubSeq(t, 1, 2 * n)
              p == PairSeq(t)
              q == PairSeq(u)
              x == t[2 * n + 1]
              y == t[2 * n + 2]
              l == <<x, y>>
  <2>1. /\ 2 * n + 1 \in 1..Len(t) /\ 2 * n + 2 \in 1..Len(t) /\ Len(t) = 2 * n + 2
        /\ n + 1 \in Nat /\ 1 \in Int /\ 2 * n \in Int
    BY <1>2
  <2>2. /\ u \in Seq(S) /\ Len(u) = 2 * n
        /\ \A i \in 1..(2 * n) : u[i] = t[i]
    <3>1. \A i \in 1..(2 * n) : t[i] \in S
      BY <2>1
    <3>2. /\ u \in Seq(S) /\ Len(u) = IF 1 <= 2 * n THEN 2 * n - 1 + 1 ELSE 0
          /\ \A i \in 1..(2 * n - 1 + 1) : u[i] = t[1 + i - 1]
      BY <2>1, <3>1, SubSeqProperties
    <3>3. 2 * n - 1 + 1 = 2 * n /\ (~(1 <= 2 * n) => 2 * n = 0)
          /\ \A i \in 1..(2 * n) : 1 + i - 1 = i
      OBVIOUS
    <3>. HIDE DEF u
    <3>. QED BY <3>2, <3>3
  <2>. HIDE DEF u
  <2>3. JoinsPairs(u)
    BY <1>2, <2>2
  <2>4. /\ p \in Seq(Seq(S)) /\ Len(p) = n + 1
        /\ \A i \in 1..(n + 1) : p[i] = <<t[2 * i - 1], t[2 * i]>>
    BY <1>2, <2>1, PairSeqType
  <2>5. /\ q \in Seq(Seq(S)) /\ Len(q) = n
        /\ \A i \in 1..n : q[i] = <<u[2 * i - 1], u[2 * i]>>
    BY <2>2, PairSeqType
  <2>6. x \in S /\ y \in S
    BY <2>1
  <2>7. p[n + 1] = l
    <3>1. n + 1 \in 1..(n + 1) /\ 2 * (n + 1) - 1 = 2 * n + 1 /\ 2 * (n + 1) = 2 * n + 2
      OBVIOUS
    <3>. HIDE DEF p
    <3>2. p[n + 1] = <<t[2 * (n + 1) - 1], t[2 * (n + 1)]>>
      BY <2>4, <3>1
    <3>. QED BY <3>1, <3>2
  <2>8. \A i \in 1..n : q[i] = p[i]
    <3>1. ASSUME NEW i \in 1..n PROVE q[i] = p[i]
      <4>1. 2 * i - 1 \in 1..(2 * n) /\ 2 * i \in 1..(2 * n) /\ i \in 1..(n + 1)
        OBVIOUS
      <4>2. u[2 * i - 1] = t[2 * i - 1] /\ u[2 * i] = t[2 * i]
        BY <2>2, <4>1
      <4>3. q[i] = <<u[2 * i - 1], u[2 * i]>>
        BY <2>5
      <4>4. p[i] = <<t[2 * i - 1], t[2 * i]>>
        BY <2>4, <4>1
      <4>. QED BY <4>2, <4>3, <4>4
    <3>. QED BY <3>1
  <2>9. /\ l \in Seq(S) /\ Len(l) = 2 /\ l[1] = x /\ l[2] = y
    BY <2>6
  <2>. HIDE DEF p, q, x, y, l
  <2>10. FlattenSeq(p) = u \o l
    <3>1. FlattenSeq(p) = FlattenSeq(q) \o p[Len(p)]
      <4>1. Len(p) = Len(q) + 1 /\ \A i \in 1..Len(q) : q[i] = p[i]
        BY <2>4, <2>5, <2>8
      <4>. QED BY <2>4, <2>5, <4>1, FlattenOneMore
    <3>2. p[Len(p)] = l
      BY <2>4, <2>7
    <3>. QED BY <2>3, <3>1, <3>2 DEF JoinsPairs, q
  <2>11. u \o l = t
    <3>1. /\ u \o l \in Seq(S) /\ Len(u \o l) = Len(u) + Len(l)
          /\ \A i \in 1..(Len(u) + Len(l)) :
               (u \o l)[i] = IF i <= Len(u) THEN u[i] ELSE l[i - Len(u)]
      BY <2>2, <2>9, ConcatProperties
    <3>2. Len(u \o l) = Len(t)
      BY <2>1, <2>2, <2>9, <3>1
    <3>3. ASSUME NEW i \in 1..Len(t) PROVE (u \o l)[i] = t[i]
      <4>1. i \in 1..(2 * n) \/ i = 2 * n + 1 \/ i = 2 * n + 2
        BY <2>1
      <4>2. i \in 1..(Len(u) + Len(l))
        BY <2>1, <2>2, <2>9
      <4>3. (u \o l)[i] = IF i <= 2 * n THEN u[i] ELSE l[i - 2 * n]
        BY <2>2, <3>1, <4>2
      <4>4. CASE i \in 1..(2 * n)
        <5>1. i <= 2 * n
          BY <4>4
        <5>. QED BY <2>2, <4>3, <4>4, <5>1
      <4>5. CASE i = 2 * n + 1
        <5>1. ~(i <= 2 * n) /\ i - 2 * n = 1
          BY <4>5
        <5>. QED BY <2>9, <4>3, <4>5, <5>1 DEF x
      <4>6. CASE i = 2 * n + 2
        <5>1. ~(i <= 2 * n) /\ i - 2 * n = 2
          BY <4>6
        <5>. QED BY <2>9, <4>3, <4>6, <5>1 DEF y
      <4>. QED BY <4>1, <4>4, <4>5, <4>6
    <3>. QED BY <3>1, <3>2, <3>3, SeqEqual
  <2>. QED BY <2>10, <2>11 DEF JoinsPairs, p
<1>3. \A n \in Nat : n \in T => n + 1 \in T
  BY <1>2
<1>. HIDE DEF T
<1>4. Nat \subseteq T
  BY <1>1, <1>3, NatInduct
<1>. QED BY <1>4 DEF T

\* A record that decodes is the elements of its attributes, one after the other.
LEMMA RecordIsFlat ==
  ASSUME NEW S, ElementSet(S), NEW t \in Seq(S), NEW list \in attribute_list(t)
  PROVE  Flat(list) = t
<1>. DEFINE n == Len(t) \div 2
<1>1. /\ list = Pairs(t) /\ Len(t) % 2 = 0
      /\ \A i \in 1..n : IsAttributeId(t[2 * i - 1])
  <2>1. attribute_list(t) =
          IF Len(t) % 2 = 0 /\ \A i \in 1..n : IsAttributeId(t[2 * i - 1])
            THEN {Pairs(t)} ELSE {}
    BY DEF attribute_list
  <2>. QED BY <2>1
<1>2. n \in Nat /\ Len(t) = 2 * n
  <2>1. Len(t) \in Nat
    OBVIOUS
  <2>2. \A k \in Nat : k % 2 = 0 => k \div 2 \in Nat /\ k = 2 * (k \div 2)
    OBVIOUS
  <2>. QED BY <1>1, <2>1, <2>2
<1>3. list = [i \in 1..n |-> <<t[2 * i - 1].value, t[2 * i]>>]
  BY <1>1 DEF Pairs
<1>. HIDE DEF n
<1>4. Len(list) = n /\ \A i \in 1..n : list[i] = <<t[2 * i - 1].value, t[2 * i]>>
  BY <1>2, <1>3
<1>5. ASSUME NEW i \in 1..n
      PROVE  <<UnsignedInt(list[i][1]), list[i][2]>> = <<t[2 * i - 1], t[2 * i]>>
  <2>1. 2 * i - 1 \in 1..Len(t)
    BY <1>2
  <2>2. t[2 * i - 1] \in S
    BY <2>1
  <2>3. t[2 * i - 1].kind = "UnsignedInt"
    BY <1>1 DEF IsAttributeId
  <2>4. PICK v \in Nat : t[2 * i - 1] = UnsignedInt(v)
    BY <2>2, <2>3, KindTells
  <2>5. t[2 * i - 1].value = v
    BY <2>4 DEF UnsignedInt
  <2>6. list[i][1] = v /\ list[i][2] = t[2 * i]
    BY <1>4, <2>5
  <2>. QED BY <2>4, <2>6
<1>6. Flat(list) = FlattenSeq([i \in 1..n |-> <<t[2 * i - 1], t[2 * i]>>])
  <2>1. Flat(list) = FlattenSeq([i \in 1..n |-> <<UnsignedInt(list[i][1]), list[i][2]>>])
    BY <1>4 DEF Flat
  <2>2. [i \in 1..n |-> <<UnsignedInt(list[i][1]), list[i][2]>>] =
          [i \in 1..n |-> <<t[2 * i - 1], t[2 * i]>>]
    BY <1>5
  <2>. QED BY <2>1, <2>2
<1>7. Flat(list) = FlattenSeq(PairSeq(t))
  BY <1>6 DEF PairSeq, n
<1>. QED BY <1>2, <1>7, PairsJoined DEF JoinsPairs

\* No attribute is dropped: what decodes is all there was.
THEOREM AllAttributesKept == Spec => []NothingTruncated
<1>1. ASSUME WInv, written # <<>>, NEW e \in Latest.meaning,
             NEW lists \in decode_attribute_lists(Latest.bytes), IsListOfRecords(e)
      PROVE  e = Sequence([i \in 1..Len(lists) |-> Sequence(Flat(lists[i]))])
  <2>1. PICK S : LatestReads(S)
    BY <1>1, LatestElement
  <2>2. ElementSet(S)
    BY <2>1 DEF LatestReads
  <2>3. e \in S /\ lists \in AttributeLists(e)
    BY <1>1, <2>1, DecodedLists
  <2>4. e.kind = "Sequence" /\ \A i \in 1..Len(e.elements) : e.elements[i].kind = "Sequence"
    BY <1>1 DEF IsListOfRecords, IsSequence
  <2>5. PICK s \in Seq(S) : e = Sequence(s)
    BY <2>2, <2>3, <2>4, KindTells
  <2>6. e.elements = s
    BY <2>5, KindOfSequence
  <2>7. ListsOf(s, lists)
    BY <2>3, <2>5, ListsAre
  <2>8. ASSUME NEW i \in 1..Len(s) PROVE s[i] = Sequence(Flat(lists[i]))
    <3>1. s[i] \in S /\ s[i].kind = "Sequence"
      BY <2>4, <2>6
    <3>2. PICK t \in Seq(S) : s[i] = Sequence(t)
      BY <2>2, <3>1, KindTells
    <3>3. lists[i] \in attribute_list(t)
      BY <2>7, <3>2, KindOfSequence DEF ListsOf, RecordAttributes
    <3>4. Flat(lists[i]) = t
      BY <2>2, <3>3, RecordIsFlat
    <3>. QED BY <3>2, <3>4
  <2>9. s = [i \in 1..Len(s) |-> s[i]]
    OBVIOUS
  <2>10. s = [i \in 1..Len(lists) |-> Sequence(Flat(lists[i]))]
    <3>1. Len(lists) = Len(s)
      BY <2>7 DEF ListsOf
    <3>. QED BY <2>8, <2>9, <3>1
  <2>. QED BY <2>5, <2>10
<1>2. WInv => NothingTruncated
  BY <1>1 DEF NothingTruncated
<1>. QED BY <1>2, Invariance, PTL

\* The channel found is advertised, and one is found if every list advertises one.
THEOREM ChannelsAreAdvertised == Spec => []ChannelIsAdvertised
<1>1. ASSUME NEW b \in Seq(Byte), Len(b) <= U16_MAX
      PROVE  Wrapped(b) \in Seq(Byte) /\ Len(Wrapped(b)) = 3 + Len(b)
  <2>. DEFINE h == SequenceHeader(2, Len(b))
  <2>1. Len(b) \in Nat /\ Holds(2, Len(b))
    BY <1>1 DEF Holds
  <2>2. h \in Seq(Byte) /\ Len(h) = 1 + 2
    BY <2>1, HeaderOfSequence
  <2>3. Wrapped(b) = h \o b
    BY DEF Wrapped
  <2>. HIDE DEF h
  <2>4. h \o b \in Seq(Byte) /\ Len(h \o b) = Len(h) + Len(b)
    BY <2>2, Joined
  <2>. QED BY <2>1, <2>2, <2>3, <2>4
<1>2. ASSUME WInv, Len(Wrapped(Bytes(written))) <= U16_MAX,
             NEW lists \in decode_attribute_lists(Answer), NEW i \in 1..Len(lists)
      PROVE  ChannelOk(lists[i])
  <2>. DEFINE b == Bytes(written)
              h == SequenceHeader(2, Len(b))
  <2>1. b \in Seq(Byte) /\ Len(b) \in Nat
    BY <1>2, BytesType DEF WInv
  <2>2. Wrapped(b) = h \o b
    BY DEF Wrapped
  <2>3. Len(b) <= U16_MAX
    <3>. DEFINE u == U16(Len(b))
    <3>1. Len(b) \div 256 \in Int /\ Len(b) % 256 \in Int
      <4>. HIDE DEF b
      <4>. QED BY <2>1
    <3>2. u \in Seq(Int)
      BY <3>1 DEF U16
    <3>3. h = <<54>> \o u
      <4>. 2 # 1
        OBVIOUS
      <4>. QED BY DEF SequenceHeader
    <3>. HIDE DEF u, b, h
    <3>4. <<54>> \in Seq(Int)
      OBVIOUS
    <3>5. h \in Seq(Int) /\ b \in Seq(Int)
      <4>1. h \in Seq(Int)
        BY ONLY <3>2, <3>3, <3>4, ConcatProperties
      <4>2. Byte \subseteq Int
        BY DEF Byte
      <4>. QED BY <2>1, <4>1, <4>2, SeqMonotonic
    <3>6. Len(h \o b) = Len(h) + Len(b) /\ Len(h) \in Nat
      BY ONLY <3>5, ConcatProperties, LenProperties
    <3>. QED BY <1>2, <2>1, <2>2, <3>6, MaximaAreNat DEF b
  <2>4. Wrapped(b) \in Seq(Byte)
    BY <1>1, <2>1, <2>3
  <2>5. Wrapped(Wrapped(b)) \in Seq(Byte)
    BY <1>1, <1>2, <2>4
  <2>. QED BY <1>2, <2>5, DecodedChannels DEF Answer
<1>3. WInv => ChannelIsAdvertised
  BY <1>2 DEF ChannelIsAdvertised, ChannelOk
<1>. QED BY <1>3, Invariance, PTL
=============================================================================
