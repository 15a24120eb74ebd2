---------------------------- MODULE SocketProofs ----------------------------
(***************************************************************************)
(* Framing and time of send_and_receive_pdu, for every timeout, every      *)
(* length of a request, every set of PDUs, every number of calls and every *)
(* way the network cuts the stream: also where calls and PDUs have no      *)
(* bound, as in module Exchange.                                           *)
(***************************************************************************)
EXTENDS Socket, Facts, TLAPS

\* The steps of Next, as many of each kind as there may be.
Step ==
  \/ \E length \in RequestLengths : phase = "idle" /\ Call(length)
  \/ Writes \/ Read \/ HeaderRead \/ BodyRead \/ Break \/ Expire \/ Tick
  \/ \E p \in Pdus : PeerWrites(p)
  \/ \E n \in 1..(Len(stream) - arrived) : Arrive(n)
  \/ PeerCloses

UnboundedSpec == Init /\ [][Step]_vars

\* The buffers belong to the phases.
Buffers ==
  /\ phase \in {"idle", "write"} => header = <<>> /\ body = <<>>
  /\ phase = "header" => body = <<>>
  /\ phase = "body" => Len(header) = PDU_HEADER_LEN /\ Len(body) <= Declared(header)
  /\ body # <<>> => Len(header) = PDU_HEADER_LEN
  /\ Begin \in Nat

\* They hold the stream from Begin on, as far as it has been read.
Buffered ==
  /\ \A i \in 1..Len(header) : header[i] = stream[Begin + i]
  /\ \A i \in 1..Len(body) : body[i] = stream[Begin + Len(header) + i]

\* Where the peer's PDUs end.
Ends ==
  /\ ends[1] = 0
  /\ ends[Len(ends)] = Len(stream)
  /\ \A k \in 1..Len(ends) : ends[k] <= Len(stream)
  /\ \A k \in 1..(Len(ends) - 1) : ends[k] + PDU_HEADER_LEN <= ends[k + 1]

\* The first k PDUs, as far as they have been sent, declare their lengths.
WellFormedUpTo(k) == \A j \in 1..k : j < Len(ends) => WellFormed(Sent(j))

\* As long as they do, the current call begins where a PDU of the peer does.
Aligned ==
  WellFormedUpTo(Len(returned)) =>
    /\ Len(returned) < Len(ends)
    /\ Begin = ends[Len(returned) + 1]

\* What the earlier waits of this call have cost, at most.
InTime ==
  /\ phase = "write" => spent <= elapsed
  /\ phase = "header" => spent <= RESPONSE_TIMEOUT + elapsed
  /\ phase = "body" => spent <= 2 * RESPONSE_TIMEOUT + elapsed
  /\ CallBound

IInv == TypeOK /\ Buffers /\ Buffered /\ Ends /\ Aligned /\ OnePduPerCall /\ InTime

-----------------------------------------------------------------------------
(* What the helpers return.                                                   *)

LEMMA ConcatParts ==
  ASSUME NEW s \in Seq(Byte), NEW t \in Seq(Byte)
  PROVE  /\ s \o t \in Seq(Byte)
         /\ Len(s \o t) = Len(s) + Len(t)
         /\ \A i \in 1..Len(s) : (s \o t)[i] = s[i]
         /\ \A i \in (Len(s) + 1)..(Len(s) + Len(t)) : (s \o t)[i] = t[i - Len(s)]
<1>1. Len(s) \in Nat /\ Len(t) \in Nat
  OBVIOUS
<1>2. /\ s \o t \in Seq(Byte)
      /\ Len(s \o t) = Len(s) + Len(t)
      /\ \A i \in 1..(Len(s) + Len(t)) :
           (s \o t)[i] = IF i <= Len(s) THEN s[i] ELSE t[i - Len(s)]
  BY ConcatProperties
<1>3. ASSUME NEW i \in 1..Len(s) PROVE (s \o t)[i] = s[i]
  <2>1. i \in 1..(Len(s) + Len(t)) /\ i <= Len(s)
    BY <1>1
  <2>. QED BY <1>2, <2>1
<1>4. ASSUME NEW i \in (Len(s) + 1)..(Len(s) + Len(t))
      PROVE  (s \o t)[i] = t[i - Len(s)]
  <2>1. i \in 1..(Len(s) + Len(t)) /\ ~(i <= Len(s))
    BY <1>1
  <2>. QED BY <1>2, <2>1
<1>. QED BY <1>2, <1>3, <1>4

LEMMA ByteIsNat == \A b \in Byte : b \in Nat
BY DEF Byte

LEMMA DeclaredType ==
  ASSUME NEW h \in Seq(Byte), Len(h) >= PDU_HEADER_LEN
  PROVE  Declared(h) \in Nat
<1>1. h[4] \in Byte /\ h[5] \in Byte
  BY DEF PDU_HEADER_LEN
<1>2. h[4] \in Nat /\ h[5] \in Nat
  BY <1>1, ByteIsNat
<1>. QED BY <1>2 DEF Declared

LEMMA WantedValue ==
  ASSUME TypeOK, Buffers
  PROVE  /\ phase = "header" => Wanted = PDU_HEADER_LEN - Len(header)
         /\ phase = "body" => Wanted = Declared(header) - Len(body)
         /\ phase \notin {"header", "body"} => Wanted = 0
         /\ Wanted \in Nat
<1>1. CASE phase = "header"
  BY <1>1 DEF Wanted, TypeOK, PDU_HEADER_LEN
<1>2. CASE phase = "body"
  <2>1. header \in Seq(Byte) /\ Len(header) >= PDU_HEADER_LEN
    BY <1>2 DEF TypeOK, Buffers, PDU_HEADER_LEN
  <2>2. Declared(header) \in Nat
    BY <2>1, DeclaredType
  <2>3. Len(body) \in Nat /\ Len(body) <= Declared(header)
    BY <1>2 DEF TypeOK, Buffers
  <2>. QED BY <1>2, <2>2, <2>3 DEF Wanted
<1>3. CASE phase \notin {"header", "body"}
  BY <1>3 DEF Wanted
<1>. QED BY <1>1, <1>2, <1>3

LEMMA TakenValue ==
  ASSUME TypeOK, Buffers
  PROVE  Taken \in Nat /\ Taken <= Wanted /\ pos + Taken <= arrived
BY WantedValue DEF TypeOK, Taken

LEMMA ChunkValue ==
  ASSUME TypeOK, Buffers
  PROVE  /\ Chunk \in Seq(Byte)
         /\ Len(Chunk) = Taken
         /\ \A i \in 1..Taken : Chunk[i] = stream[pos + i]
<1>1. /\ Taken \in Nat /\ pos \in Nat /\ pos + Taken <= Len(stream)
      /\ stream \in Seq(Byte)
  BY TakenValue DEF TypeOK
<1>2. \A i \in (pos + 1)..(pos + Taken) : stream[i] \in Byte
  BY <1>1
<1>3. /\ SubSeq(stream, pos + 1, pos + Taken) \in Seq(Byte)
      /\ Len(SubSeq(stream, pos + 1, pos + Taken)) =
           IF pos + 1 <= pos + Taken THEN pos + Taken - (pos + 1) + 1 ELSE 0
      /\ \A i \in 1..(pos + Taken - (pos + 1) + 1) :
           SubSeq(stream, pos + 1, pos + Taken)[i] = stream[pos + 1 + i - 1]
  BY <1>1, <1>2, SubSeqProperties
<1>. QED BY <1>1, <1>3 DEF Chunk

\* The k-th PDU the peer wrote, byte for byte.
LEMMA SentValue ==
  ASSUME TypeOK, Ends, NEW k \in 1..(Len(ends) - 1)
  PROVE  /\ Sent(k) \in Seq(Byte)
         /\ Len(Sent(k)) = ends[k + 1] - ends[k]
         /\ Len(Sent(k)) >= PDU_HEADER_LEN
         /\ \A i \in 1..Len(Sent(k)) : Sent(k)[i] = stream[ends[k] + i]
<1>0. ends \in Seq(Nat) /\ stream \in Seq(Byte)
  BY DEF TypeOK
<1>1. /\ ends[k] \in Nat /\ ends[k + 1] \in Nat
      /\ ends[k] + PDU_HEADER_LEN <= ends[k + 1] /\ ends[k + 1] <= Len(stream)
  BY <1>0 DEF Ends
<1>. DEFINE a == ends[k]
            b == ends[k + 1]
<1>. HIDE DEF a, b
<1>2. a \in Nat /\ b \in Nat /\ a + PDU_HEADER_LEN <= b /\ b <= Len(stream)
  BY <1>1 DEF a, b
<1>3. \A i \in (a + 1)..b : stream[i] \in Byte
  BY <1>0, <1>2 DEF PDU_HEADER_LEN
<1>4. /\ SubSeq(stream, a + 1, b) \in Seq(Byte)
      /\ Len(SubSeq(stream, a + 1, b)) = IF a + 1 <= b THEN b - (a + 1) + 1 ELSE 0
      /\ \A i \in 1..(b - (a + 1) + 1) :
           SubSeq(stream, a + 1, b)[i] = stream[a + 1 + i - 1]
  BY <1>0, <1>2, <1>3, SubSeqProperties
<1>5. Sent(k) = SubSeq(stream, a + 1, b)
  BY DEF Sent, a, b
<1>6. Len(Sent(k)) = b - a /\ Len(Sent(k)) >= PDU_HEADER_LEN
  BY <1>2, <1>4, <1>5 DEF PDU_HEADER_LEN
<1>7. ASSUME NEW i \in 1..Len(Sent(k)) PROVE Sent(k)[i] = stream[a + i]
  <2>1. i \in 1..(b - (a + 1) + 1) /\ a + 1 + i - 1 = a + i
    BY <1>2, <1>6
  <2>. QED BY <2>1, <1>4, <1>5
<1>. QED BY <1>4, <1>5, <1>6, <1>7 DEF a, b

-----------------------------------------------------------------------------
(* The invariant                                                              *)

LEMMA InitIInv == Init => IInv
<1>. SUFFICES ASSUME Init PROVE IInv
  OBVIOUS
<1>. USE TimeoutAssumption, RequestAssumption
<1>1. TypeOK
  <2>1. /\ phase = "idle" /\ unwritten \in Nat
        /\ header \in Seq(Byte) /\ Len(header) <= PDU_HEADER_LEN
        /\ body \in Seq(Byte) /\ body = <<>>
    BY DEF Init, PDU_HEADER_LEN
  <2>2. elapsed \in 0..RESPONSE_TIMEOUT /\ spent \in Nat
    BY DEF Init, TimeoutAssumption
  <2>3. returned \in Seq(Seq(Byte)) /\ closed \in BOOLEAN
    BY EmptySeq DEF Init
  <2>4. /\ stream \in Seq(Byte) /\ ends \in Seq(Nat) /\ Len(ends) >= 1
        /\ arrived \in 0..Len(stream) /\ pos \in 0..arrived
    BY DEF Init
  <2>. QED BY <2>1, <2>2, <2>3, <2>4 DEF TypeOK
<1>2. Buffers /\ Buffered /\ Ends /\ Aligned /\ OnePduPerCall
  BY DEF Init, Buffers, Buffered, Begin, Ends, Aligned, OnePduPerCall,
         PDU_HEADER_LEN
<1>3. InTime
  BY DEF Init, InTime, CallBound
<1>. QED BY <1>1, <1>2, <1>3 DEF IInv

\* A step that leaves the returned PDUs, the stream and Begin alone cannot
\* disturb the framing.
LEMMA FramingStays ==
  ASSUME IInv, UNCHANGED <<returned, stream, ends>>, Begin' = Begin
  PROVE  Ends' /\ Aligned' /\ OnePduPerCall'
BY DEF IInv, Ends, Aligned, WellFormedUpTo, WellFormed, OnePduPerCall, Sent
-----------------------------------------------------------------------------
(* What the peer and the network do.                                          *)

\* What has been sent stays as it is.
LEMMA SentStays ==
  ASSUME TypeOK, Ends, NEW p \in Seq(Byte), PeerWrites(p),
         NEW k \in 1..(Len(ends) - 1)
  PROVE  /\ ends[k]' = ends[k] /\ ends[k + 1]' = ends[k + 1]
         /\ Sent(k)' = Sent(k)
<1>1. ends \in Seq(Nat) /\ stream \in Seq(Byte)
  BY DEF TypeOK
<1>2. /\ ends[k] \in Nat /\ ends[k + 1] \in Nat
      /\ ends[k] + PDU_HEADER_LEN <= ends[k + 1] /\ ends[k + 1] <= Len(stream)
  <2>1. k \in 1..Len(ends) /\ k + 1 \in 1..Len(ends)
    BY <1>1
  <2>2. ends[k] \in Nat /\ ends[k + 1] \in Nat
    BY ONLY <1>1, <2>1, ElementOfSeq
  <2>3. /\ \A j \in 1..Len(ends) : ends[j] <= Len(stream)
        /\ \A j \in 1..(Len(ends) - 1) : ends[j] + PDU_HEADER_LEN <= ends[j + 1]
    BY ONLY Ends DEF Ends
  <2>. QED BY <2>1, <2>2, <2>3
<1>3. stream' = stream \o p /\ ends' = Append(ends, Len(stream) + Len(p))
  BY DEF PeerWrites
<1>4. ends'[k] = ends[k] /\ ends'[k + 1] = ends[k + 1]
  <2>1. Len(stream) + Len(p) \in Nat /\ k \in 1..Len(ends) /\ k + 1 \in 1..Len(ends)
    BY <1>1
  <2>2. \A j \in 1..Len(ends) : Append(ends, Len(stream) + Len(p))[j] = ends[j]
    BY ONLY <1>1, <2>1, AppendProperties
  <2>3. ends' = Append(ends, Len(stream) + Len(p))
    BY ONLY <1>3
  <2>4. ends'[k] = ends[k]
    BY ONLY <2>1, <2>2, <2>3, Zenon
  <2>5. ends'[k + 1] = ends[k + 1]
    BY ONLY <2>1, <2>2, <2>3, Zenon
  <2>. QED BY ONLY <2>4, <2>5
<1>5. ends[k] + 1 \in 1..Len(stream) /\ ends[k + 1] \in 1..Len(stream)
  <2>1. Len(stream) \in Nat
    BY <1>1
  <2>. QED BY ONLY <1>2, <2>1 DEF PDU_HEADER_LEN
<1>6. SubSeq(stream \o p, ends[k] + 1, ends[k + 1])
        = SubSeq(stream, ends[k] + 1, ends[k + 1])
  <2>1. stream \in Seq(Byte) /\ p \in Seq(Byte)
    BY <1>1
  <2>. QED BY ONLY <2>1, <1>5, SubSeqOfConcat1
<1>. QED BY <1>3, <1>4, <1>6 DEF Sent

LEMMA PeerWritesStep ==
  ASSUME IInv, NEW p \in Pdus, PeerWrites(p)
  PROVE  IInv'
<1>1. p \in Seq(Byte) /\ Len(p) >= PDU_HEADER_LEN /\ Len(p) \in Nat
  BY PdusAssumption DEF PdusAssumption
<1>2. TypeOK /\ Ends /\ Buffers /\ Buffered
  BY DEF IInv
<1>3. /\ stream' = stream \o p /\ ends' = Append(ends, Len(stream) + Len(p))
      /\ UNCHANGED <<phase, unwritten, header, body, elapsed, spent, returned, pos>>
      /\ UNCHANGED <<arrived, closed>>
  BY DEF PeerWrites, client
<1>4. /\ stream \in Seq(Byte) /\ ends \in Seq(Nat) /\ Len(ends) >= 1
      /\ Len(stream) \in Nat /\ arrived \in 0..Len(stream) /\ pos \in 0..arrived
      /\ header \in Seq(Byte) /\ body \in Seq(Byte) /\ returned \in Seq(Seq(Byte))
  BY <1>2 DEF TypeOK
<1>5. /\ stream' \in Seq(Byte) /\ Len(stream') = Len(stream) + Len(p)
      /\ \A i \in 1..Len(stream) : stream'[i] = stream[i]
  BY <1>1, <1>3, <1>4, ConcatProperties
<1>6. /\ ends' \in Seq(Nat) /\ Len(ends') = Len(ends) + 1
      /\ ends'[Len(ends) + 1] = Len(stream) + Len(p)
      /\ \A k \in 1..Len(ends) : ends'[k] = ends[k]
  BY <1>1, <1>3, <1>4, AppendProperties
<1>7. TypeOK'
  <2>1. arrived' \in 0..Len(stream') /\ pos' \in 0..arrived'
    BY <1>1, <1>3, <1>4, <1>5
  <2>2. Len(ends') >= 1
    BY <1>4, <1>6
  <2>. QED BY <1>2, <1>3, <1>5, <1>6, <2>1, <2>2 DEF TypeOK, Declared
<1>8. Begin' = Begin /\ Begin \in Nat
  BY <1>2, <1>3 DEF Begin, Buffers
<1>9. Buffers'
  BY <1>2, <1>3, <1>8 DEF Buffers, Declared
<1>10. Buffered'
  <2>1. Len(header) \in Nat /\ Len(body) \in Nat /\ pos \in Nat /\ pos <= Len(stream)
    BY <1>4
  <2>4. pos = Begin + Len(header) + Len(body) /\ Len(stream) \in Nat
    BY <1>4, <2>1 DEF Begin
  <2>2. \A i \in 1..Len(header) : Begin + i \in 1..Len(stream)
    BY ONLY <1>8, <2>1, <2>4
  <2>3. \A i \in 1..Len(body) : Begin + Len(header) + i \in 1..Len(stream)
    BY ONLY <1>8, <2>1, <2>4
  <2>. QED BY <1>2, <1>3, <1>5, <1>8, <2>2, <2>3 DEF Buffered
<1>11. Ends'
  <2>1. ends'[1] = 0 /\ ends'[Len(ends')] = Len(stream')
    <3>1. ends[1] = 0
      BY ONLY <1>2 DEF Ends
    <3>2. 1 \in 1..Len(ends)
      BY <1>4
    <3>. QED BY ONLY <3>1, <3>2, <1>5, <1>6
  <2>2. ASSUME NEW k \in 1..Len(ends') PROVE ends'[k] <= Len(stream')
    <3>1. CASE k = Len(ends) + 1
      BY <3>1, <1>5, <1>6
    <3>2. CASE k \in 1..Len(ends)
      <4>1. ends'[k] = ends[k] /\ ends[k] \in Nat /\ ends[k] <= Len(stream)
        <5>1. ends[k] \in Nat
          BY ONLY <3>2, <1>4, ElementOfSeq
        <5>2. \A j \in 1..Len(ends) : ends[j] <= Len(stream)
          BY ONLY <1>2 DEF Ends
        <5>. QED BY ONLY <3>2, <1>6, <5>1, <5>2
      <4>. QED BY <4>1, <1>1, <1>4, <1>5
    <3>. QED BY <3>1, <3>2, <1>4, <1>6
  <2>3. ASSUME NEW k \in 1..(Len(ends') - 1)
        PROVE  ends'[k] + PDU_HEADER_LEN <= ends'[k + 1]
    <3>1. CASE k = Len(ends)
      BY <3>1, <1>1, <1>2, <1>4, <1>6 DEF Ends, PDU_HEADER_LEN
    <3>2. CASE k < Len(ends)
      <4>1. k \in 1..(Len(ends) - 1) /\ k \in 1..Len(ends) /\ k + 1 \in 1..Len(ends)
        BY <3>2, <1>4, <1>6
      <4>2. ends[k] + PDU_HEADER_LEN <= ends[k + 1]
        BY <4>1, <1>2 DEF Ends
      <4>. QED BY <4>1, <4>2, <1>6
    <3>. QED BY <3>1, <3>2, <1>4, <1>6
  <2>. QED BY <2>1, <2>2, <2>3 DEF Ends
<1>12. \A j \in Nat : j >= 1 /\ j < Len(ends) => j < Len(ends') /\ Sent(j)' = Sent(j)
  <2>. SUFFICES ASSUME NEW j \in Nat, j >= 1, j < Len(ends)
                PROVE  j < Len(ends') /\ Sent(j)' = Sent(j)
    OBVIOUS
  <2>1. j \in 1..(Len(ends) - 1)
    BY <1>4
  <2>. QED BY <1>1, <1>2, <1>4, <1>6, <2>1, SentStays
<1>13. \A k \in Nat : WellFormedUpTo(k)' => WellFormedUpTo(k)
  BY <1>12 DEF WellFormedUpTo, WellFormed, Declared
<1>14. Aligned'
  <2>. SUFFICES ASSUME WellFormedUpTo(Len(returned))'
                PROVE  /\ Len(returned) < Len(ends')
                       /\ Begin = ends'[Len(returned) + 1]
    BY <1>3, <1>8 DEF Aligned
  <2>1. Len(returned) \in Nat
    BY <1>4
  <2>2. WellFormedUpTo(Len(returned))
    BY <1>3, <1>13, <2>1 DEF WellFormedUpTo
  <2>3. Len(returned) < Len(ends) /\ Begin = ends[Len(returned) + 1]
    BY <2>2 DEF IInv, Aligned
  <2>4. Len(returned) + 1 \in 1..Len(ends)
    BY <1>4, <2>1, <2>3
  <2>5. ends'[Len(returned) + 1] = ends[Len(returned) + 1]
    BY <1>6, <2>4
  <2>6. Len(returned) < Len(ends')
    BY <1>4, <1>6, <2>1, <2>3
  <2>. QED BY <2>3, <2>5, <2>6
<1>15. OnePduPerCall'
  <2>. SUFFICES ASSUME NEW k \in 1..Len(returned), WellFormedUpTo(k)'
                PROVE  k < Len(ends') /\ returned[k] = Sent(k)'
    BY <1>3 DEF OnePduPerCall, WellFormedUpTo
  <2>1. WellFormedUpTo(k)
    BY <1>13
  <2>2. k < Len(ends) /\ returned[k] = Sent(k)
    BY <2>1 DEF IInv, OnePduPerCall, WellFormedUpTo
  <2>. QED BY <1>12, <2>2
<1>16. InTime'
  BY <1>3 DEF IInv, InTime, CallBound
<1>. QED BY <1>7, <1>9, <1>10, <1>11, <1>14, <1>15, <1>16 DEF IInv

LEMMA ArriveStep ==
  ASSUME IInv, NEW n \in 1..(Len(stream) - arrived), Arrive(n)
  PROVE  IInv'
<1>1. /\ UNCHANGED <<phase, unwritten, header, body, elapsed, spent, returned, pos>>
      /\ UNCHANGED <<stream, ends, closed>> /\ arrived' = arrived + n
  BY DEF Arrive, client
<1>2. TypeOK'
  <2>1. arrived \in 0..Len(stream) /\ pos \in 0..arrived /\ Len(stream) \in Nat
    BY DEF IInv, TypeOK
  <2>2. arrived' \in 0..Len(stream') /\ pos' \in 0..arrived'
    BY <1>1, <2>1
  <2>. QED BY <1>1, <2>2 DEF IInv, TypeOK, Declared
<1>3. Begin' = Begin
  BY <1>1 DEF Begin
<1>4. Buffers' /\ Buffered' /\ InTime'
  BY <1>1, <1>3 DEF IInv, Buffers, Buffered, InTime, CallBound, Declared
<1>. QED BY <1>1, <1>2, <1>3, <1>4, FramingStays DEF IInv
LEMMA PeerClosesStep ==
  ASSUME IInv, PeerCloses
  PROVE  IInv'
<1>1. /\ UNCHANGED <<phase, unwritten, header, body, elapsed, spent, returned, pos>>
      /\ UNCHANGED <<stream, ends, arrived>> /\ closed' = TRUE
  BY DEF PeerCloses, client
<1>2. TypeOK'
  BY <1>1 DEF IInv, TypeOK, Declared
<1>3. Begin' = Begin
  BY <1>1 DEF Begin
<1>4. Buffers' /\ Buffered' /\ InTime'
  BY <1>1, <1>3 DEF IInv, Buffers, Buffered, InTime, CallBound, Declared
<1>. QED BY <1>1, <1>2, <1>3, <1>4, FramingStays DEF IInv

-----------------------------------------------------------------------------
(* What the client does.                                                      *)

LEMMA CallStep ==
  ASSUME IInv, NEW length \in RequestLengths, phase = "idle", Call(length)
  PROVE  IInv'
<1>. USE TimeoutAssumption, RequestAssumption
<1>1. /\ phase = "idle" /\ phase' \in {"write", "header"} /\ unwritten' = length
      /\ header' = <<>> /\ body' = <<>> /\ elapsed' = 0 /\ spent' = 0
      /\ UNCHANGED <<returned, pos, stream, ends, arrived, closed>>
  BY DEF Call, peer
<1>2. TypeOK'
  <2>1. unwritten' \in Nat /\ elapsed' \in 0..RESPONSE_TIMEOUT
    BY <1>1 DEF TimeoutAssumption, RequestAssumption
  <2>2. header' \in Seq(Byte) /\ Len(header') <= PDU_HEADER_LEN /\ body' \in Seq(Byte)
    BY <1>1 DEF PDU_HEADER_LEN
  <2>. QED BY <1>1, <2>1, <2>2 DEF IInv, TypeOK
<1>3. header = <<>> /\ body = <<>>
  BY <1>1 DEF IInv, Buffers
<1>4. Begin' = Begin
  BY <1>1, <1>3 DEF Begin
<1>5. Buffers'
  BY <1>1, <1>4 DEF IInv, Buffers
<1>6. Buffered'
  BY <1>1 DEF Buffered
<1>7. InTime'
  BY <1>1 DEF InTime, CallBound, TimeoutAssumption
<1>. QED BY <1>1, <1>2, <1>4, <1>5, <1>6, <1>7, FramingStays DEF IInv

LEMMA WriteStep ==
  ASSUME IInv, NEW n \in 1..unwritten, Write(n)
  PROVE  IInv'
<1>1. /\ phase = "write" /\ unwritten' = unwritten - n
      /\ \/ phase' = "header" /\ elapsed' = 0
         \/ phase' = "write" /\ elapsed' = elapsed
      /\ UNCHANGED <<header, body, spent, returned, pos>>
      /\ UNCHANGED <<stream, ends, arrived, closed>>
  BY DEF Write, peer
<1>2. TypeOK'
  <2>1. unwritten \in Nat /\ elapsed \in 0..RESPONSE_TIMEOUT
    BY DEF IInv, TypeOK
  <2>2. unwritten' \in Nat /\ elapsed' \in 0..RESPONSE_TIMEOUT
    BY <1>1, <2>1, TimeoutAssumption DEF TimeoutAssumption
  <2>. QED BY <1>1, <2>2 DEF IInv, TypeOK, Declared
<1>3. Begin' = Begin
  BY <1>1 DEF Begin
<1>4. Buffers'
  BY <1>1, <1>3 DEF IInv, Buffers, Declared
<1>5. Buffered'
  BY <1>1, <1>3 DEF IInv, Buffered
<1>6. InTime'
  BY <1>1, TimeoutAssumption DEF IInv, TypeOK, InTime, CallBound, TimeoutAssumption
<1>. QED BY <1>1, <1>2, <1>3, <1>4, <1>5, <1>6, FramingStays DEF IInv

LEMMA ReadStep ==
  ASSUME IInv, Read
  PROVE  IInv'
<1>1. /\ Taken > 0 /\ pos' = pos + Taken
      /\ UNCHANGED <<phase, unwritten, elapsed, spent, returned>>
      /\ UNCHANGED <<stream, ends, arrived, closed>>
  BY DEF Read, peer
<1>2. /\ Taken \in Nat /\ Taken <= Wanted /\ pos + Taken <= arrived
      /\ Wanted \in Nat /\ Chunk \in Seq(Byte) /\ Len(Chunk) = Taken
      /\ \A i \in 1..Taken : Chunk[i] = stream[pos + i]
  BY TakenValue, ChunkValue, WantedValue DEF IInv
<1>3. /\ header \in Seq(Byte) /\ body \in Seq(Byte) /\ pos \in Nat
      /\ Len(header) \in Nat /\ Len(body) \in Nat /\ arrived \in Nat
      /\ Begin = pos - Len(header) - Len(body) /\ Begin \in Nat
      /\ Len(header) <= PDU_HEADER_LEN
  <2>1. TypeOK /\ Buffers
    BY DEF IInv
  <2>2. /\ header \in Seq(Byte) /\ body \in Seq(Byte) /\ stream \in Seq(Byte)
        /\ arrived \in 0..Len(stream) /\ pos \in 0..arrived /\ Len(header) <= PDU_HEADER_LEN
    BY <2>1 DEF TypeOK
  <2>3. Begin = pos - Len(header) - Len(body) /\ Begin \in Nat
    BY <2>1 DEF Begin, Buffers
  <2>. QED BY <2>2, <2>3
<1>4. Buffers /\ Buffered
  BY DEF IInv
<1>5. pos' \in 0..arrived'
  BY <1>1, <1>2, <1>3
<1>6. CASE phase = "header" /\ header' = header \o Chunk /\ UNCHANGED body
  <2>1. Wanted = PDU_HEADER_LEN - Len(header) /\ body = <<>> /\ Len(body) = 0
    BY <1>6, WantedValue DEF IInv, Buffers
  <2>2. /\ header' \in Seq(Byte) /\ Len(header') = Len(header) + Taken
        /\ \A i \in 1..Len(header) : header'[i] = header[i]
        /\ \A i \in (Len(header) + 1)..(Len(header) + Taken) :
             header'[i] = Chunk[i - Len(header)]
    BY <1>2, <1>3, <1>6, ConcatParts
  <2>3. Begin' = Begin
    BY <1>1, <1>2, <1>3, <1>6, <2>1, <2>2 DEF Begin
  <2>4. Len(header') <= PDU_HEADER_LEN
    BY <1>2, <1>3, <2>1, <2>2 DEF PDU_HEADER_LEN
  <2>5. TypeOK'
    BY <1>1, <1>5, <1>6, <2>1, <2>2, <2>4 DEF IInv, TypeOK
  <2>6. Buffers'
    BY <1>1, <1>3, <1>6, <2>1, <2>3 DEF Buffers
  <2>7. Buffered'
    <3>1. ASSUME NEW i \in 1..Len(header') PROVE header'[i] = stream[Begin + i]
      <4>1. CASE i <= Len(header)
        BY <4>1, <1>3, <1>4, <2>2 DEF Buffered
      <4>2. CASE i > Len(header)
        <5>1. i - Len(header) \in 1..Taken /\ i \in (Len(header) + 1)..(Len(header) + Taken)
          BY <4>2, <1>2, <1>3, <2>2
        <5>2. pos + (i - Len(header)) = Begin + i
          BY <1>3, <2>1
        <5>. QED BY <5>1, <5>2, <1>2, <2>2
      <4>. QED BY <4>1, <4>2, <1>3, <2>2
    <3>. QED BY <3>1, <1>1, <1>6, <2>1, <2>3 DEF Buffered
  <2>8. InTime'
    BY <1>1 DEF IInv, InTime, CallBound
  <2>. QED BY <1>1, <2>3, <2>5, <2>6, <2>7, <2>8, FramingStays DEF IInv
<1>7. CASE phase = "body" /\ body' = body \o Chunk /\ UNCHANGED header
  <2>1. Wanted = Declared(header) - Len(body) /\ Len(header) = PDU_HEADER_LEN
    BY <1>7, WantedValue DEF IInv, Buffers
  <2>2. /\ body' \in Seq(Byte) /\ Len(body') = Len(body) + Taken
        /\ \A i \in 1..Len(body) : body'[i] = body[i]
        /\ \A i \in (Len(body) + 1)..(Len(body) + Taken) :
             body'[i] = Chunk[i - Len(body)]
    BY <1>2, <1>3, <1>7, ConcatParts
  <2>3. Begin' = Begin
    BY <1>1, <1>2, <1>3, <1>7, <2>2 DEF Begin
  <2>4. Declared(header) \in Nat
    BY <1>3, <2>1, DeclaredType DEF PDU_HEADER_LEN
  <2>5. Len(body') <= Declared(header) /\ Declared(header)' = Declared(header)
    BY <1>2, <1>3, <1>7, <2>1, <2>2, <2>4 DEF Declared
  <2>6. TypeOK'
    BY <1>1, <1>5, <1>7, <2>1, <2>2, <2>5 DEF IInv, TypeOK
  <2>7. Buffers'
    BY <1>1, <1>3, <1>7, <2>1, <2>3, <2>5 DEF Buffers
  <2>8. Buffered'
    <3>1. ASSUME NEW i \in 1..Len(body')
          PROVE  body'[i] = stream[Begin + Len(header) + i]
      <4>1. CASE i <= Len(body)
        BY <4>1, <1>3, <1>4, <2>2 DEF Buffered
      <4>2. CASE i > Len(body)
        <5>1. i - Len(body) \in 1..Taken /\ i \in (Len(body) + 1)..(Len(body) + Taken)
          BY <4>2, <1>2, <1>3, <2>2
        <5>2. pos + (i - Len(body)) = Begin + Len(header) + i
          BY <1>3
        <5>. QED BY <5>1, <5>2, <1>2, <2>2
      <4>. QED BY <4>1, <4>2, <1>3, <2>2
    <3>. QED BY <3>1, <1>1, <1>4, <1>7, <2>3 DEF Buffered
  <2>9. InTime'
    BY <1>1 DEF IInv, InTime, CallBound
  <2>. QED BY <1>1, <2>3, <2>6, <2>7, <2>8, <2>9, FramingStays DEF IInv
<1>. QED BY <1>6, <1>7 DEF Read

LEMMA HeaderReadStep ==
  ASSUME IInv, HeaderRead
  PROVE  IInv'
<1>1. /\ phase = "header" /\ Wanted = 0 /\ phase' = "body" /\ elapsed' = 0
      /\ UNCHANGED <<unwritten, header, body, spent, returned, pos>>
      /\ UNCHANGED <<stream, ends, arrived, closed>>
  BY DEF HeaderRead, peer
<1>2. Len(header) = PDU_HEADER_LEN /\ body = <<>> /\ header \in Seq(Byte)
  BY <1>1, WantedValue DEF IInv, TypeOK, Buffers, PDU_HEADER_LEN
<1>3. Declared(header) \in Nat
  <2>1. Len(header) >= PDU_HEADER_LEN
    BY <1>2 DEF PDU_HEADER_LEN
  <2>. QED BY <1>2, <2>1, DeclaredType
<1>4. TypeOK'
  BY <1>1, <1>2, TimeoutAssumption DEF IInv, TypeOK, TimeoutAssumption
<1>5. Begin' = Begin
  BY <1>1 DEF Begin
<1>6. Buffers'
  BY <1>1, <1>2, <1>3, <1>5 DEF IInv, Buffers, Declared
<1>7. Buffered'
  BY <1>1, <1>5 DEF IInv, Buffered
<1>8. InTime'
  BY <1>1, TimeoutAssumption DEF IInv, TypeOK, InTime, CallBound, TimeoutAssumption
<1>. QED BY <1>1, <1>4, <1>5, <1>6, <1>7, <1>8, FramingStays DEF IInv

\* A wait that fails, and a tick.
LEMMA WaitStep ==
  ASSUME IInv, Break \/ Expire \/ Tick
  PROVE  IInv'
<1>1. /\ UNCHANGED <<unwritten, header, body, returned, pos>>
      /\ UNCHANGED <<stream, ends, arrived, closed>>
      /\ \/ phase' \in {"io", "timeout"} /\ UNCHANGED <<elapsed, spent>>
         \/ /\ phase' = phase /\ elapsed < RESPONSE_TIMEOUT
            /\ phase \in {"write", "header", "body"}
            /\ elapsed' = elapsed + 1 /\ spent' = spent + 1
  BY DEF Break, Expire, Tick, peer
<1>2. /\ elapsed \in 0..RESPONSE_TIMEOUT /\ spent \in Nat
      /\ RESPONSE_TIMEOUT \in Nat
  BY TimeoutAssumption DEF IInv, TypeOK, TimeoutAssumption
<1>3. TypeOK'
  <2>1. elapsed' \in 0..RESPONSE_TIMEOUT /\ spent' \in Nat
    BY <1>1, <1>2
  <2>2. phase' \in {"idle", "write", "header", "body", "io", "timeout"}
    BY <1>1
  <2>. QED BY <1>1, <2>1, <2>2 DEF IInv, TypeOK, Declared
<1>4. Begin' = Begin
  BY <1>1 DEF Begin
<1>5. Buffers'
  BY <1>1, <1>4 DEF IInv, Buffers, Declared
<1>6. Buffered'
  BY <1>1, <1>4 DEF IInv, Buffered
<1>7. InTime'
  BY <1>1, <1>2 DEF IInv, InTime, CallBound
<1>. QED BY <1>1, <1>3, <1>4, <1>5, <1>6, <1>7, FramingStays DEF IInv
\* As long as the PDUs declare their lengths, what has been read when a body is
\* complete is the PDU the call began at, to its last byte.
LEMMA BodyIsSent ==
  ASSUME IInv, BodyRead, NEW k, k = Len(returned) + 1, WellFormedUpTo(k)
  PROVE  /\ k < Len(ends)
         /\ header \o body = Sent(k)
         /\ pos = ends[k + 1]
<1>1. /\ phase = "body" /\ Wanted = 0
      /\ TypeOK /\ Buffers /\ Buffered /\ Ends /\ Aligned
  BY DEF BodyRead, IInv
<1>2. /\ header \in Seq(Byte) /\ body \in Seq(Byte) /\ Len(returned) \in Nat
      /\ ends \in Seq(Nat) /\ pos \in Nat /\ pos <= arrived /\ arrived \in Nat
      /\ arrived <= Len(stream) /\ Len(stream) \in Nat /\ k \in Nat /\ k >= 1
      /\ Len(ends) \in Nat /\ Len(body) \in Nat
  <2>1. /\ header \in Seq(Byte) /\ body \in Seq(Byte) /\ returned \in Seq(Seq(Byte))
        /\ ends \in Seq(Nat) /\ stream \in Seq(Byte)
        /\ arrived \in 0..Len(stream) /\ pos \in 0..arrived
    BY ONLY <1>1 DEF TypeOK
  <2>2. /\ Len(body) \in Nat /\ Len(returned) \in Nat /\ Len(ends) \in Nat
        /\ Len(stream) \in Nat
    BY ONLY <2>1
  <2>3. /\ arrived \in Nat /\ arrived <= Len(stream) /\ pos \in Nat /\ pos <= arrived
    BY ONLY <2>1, <2>2
  <2>4. k \in Nat /\ k >= 1
    BY <2>2
  <2>. QED BY ONLY <2>1, <2>2, <2>3, <2>4
<1>3. Len(header) = PDU_HEADER_LEN /\ Declared(header) \in Nat
  <2>1. Len(header) = PDU_HEADER_LEN
    BY <1>1 DEF Buffers
  <2>2. Len(header) >= PDU_HEADER_LEN
    BY <2>1 DEF PDU_HEADER_LEN
  <2>. QED BY <1>2, <2>1, <2>2, DeclaredType
<1>4. Len(body) = Declared(header)
  BY <1>1, <1>2, <1>3, WantedValue
<1>5. WellFormedUpTo(Len(returned))
  <2>1. \A j \in 1..Len(returned) : j \in 1..k
    BY <1>2
  <2>. QED BY <2>1 DEF WellFormedUpTo
<1>6. k <= Len(ends) /\ Begin = ends[k]
  BY <1>1, <1>2, <1>5 DEF Aligned
<1>7. pos = ends[k] + PDU_HEADER_LEN + Declared(header) /\ ends[k] \in Nat
  <2>1. Begin \in Nat /\ Begin = pos - Len(header) - Len(body)
    BY <1>1 DEF Buffers, Begin
  <2>2. PDU_HEADER_LEN \in Nat /\ pos \in Nat
    BY <1>2 DEF PDU_HEADER_LEN
  <2>. QED BY ONLY <1>3, <1>4, <1>6, <2>1, <2>2
<1>8. k < Len(ends)
  <2>1. ends[Len(ends)] = Len(stream)
    BY <1>1 DEF Ends
  <2>2. pos > ends[k] /\ pos <= Len(stream)
    <3>1. PDU_HEADER_LEN \in Nat /\ PDU_HEADER_LEN > 0
      BY DEF PDU_HEADER_LEN
    <3>2. pos \in Nat /\ arrived \in Nat /\ pos <= arrived /\ arrived <= Len(stream)
          /\ Len(stream) \in Nat
      BY <1>2
    <3>. QED BY ONLY <1>3, <1>7, <3>1, <3>2
  <2>3. pos \in Nat /\ Len(stream) \in Nat
    BY <1>2
  <2>4. k # Len(ends)
    BY ONLY <1>7, <2>1, <2>2, <2>3
  <2>. QED BY <1>2, <1>6, <2>4
<1>9. k \in 1..(Len(ends) - 1) /\ k \in 1..k
  BY <1>2, <1>8
<1>10. /\ Sent(k) \in Seq(Byte) /\ Len(Sent(k)) \in Nat
       /\ Len(Sent(k)) = ends[k + 1] - ends[k] /\ Len(Sent(k)) >= PDU_HEADER_LEN
       /\ \A i \in 1..Len(Sent(k)) : Sent(k)[i] = stream[ends[k] + i]
  BY <1>1, <1>9, SentValue
<1>11. Len(Sent(k)) = PDU_HEADER_LEN + Declared(Sent(k))
  BY <1>8, <1>9 DEF WellFormedUpTo, WellFormed
<1>12. Declared(Sent(k)) = Declared(header)
  <2>1. /\ 4 \in 1..Len(Sent(k)) /\ 5 \in 1..Len(Sent(k))
        /\ 4 \in 1..Len(header) /\ 5 \in 1..Len(header)
    BY <1>3, <1>10 DEF PDU_HEADER_LEN
  <2>2. Sent(k)[4] = header[4] /\ Sent(k)[5] = header[5]
    BY <2>1, <1>1, <1>6, <1>10 DEF Buffered
  <2>. QED BY <2>2 DEF Declared
<1>13. /\ header \o body \in Seq(Byte)
       /\ Len(header \o body) = Len(header) + Len(body)
       /\ \A i \in 1..Len(header) : (header \o body)[i] = header[i]
       /\ \A i \in (Len(header) + 1)..(Len(header) + Len(body)) :
            (header \o body)[i] = body[i - Len(header)]
  BY <1>2, ConcatParts
<1>14. Len(header \o body) = Len(Sent(k))
  BY <1>3, <1>4, <1>11, <1>12, <1>13
<1>15. ASSUME NEW i \in 1..Len(header \o body)
       PROVE  (header \o body)[i] = Sent(k)[i]
  <2>1. Sent(k)[i] = stream[Begin + i]
    BY <1>6, <1>10, <1>14
  <2>2. CASE i <= Len(header)
    <3>1. i \in 1..Len(header)
      BY <2>2, <1>3, <1>13 DEF PDU_HEADER_LEN
    <3>. QED BY <2>1, <3>1, <1>1, <1>13 DEF Buffered
  <2>3. CASE i > Len(header)
    <3>1. /\ i - Len(header) \in 1..Len(body)
          /\ i \in (Len(header) + 1)..(Len(header) + Len(body))
      BY <2>3, <1>2, <1>3, <1>13 DEF PDU_HEADER_LEN
    <3>2. body[i - Len(header)] = stream[Begin + Len(header) + (i - Len(header))]
      BY <3>1, <1>1 DEF Buffered
    <3>3. Begin + Len(header) + (i - Len(header)) = Begin + i
      BY <1>3, <1>6, <1>7 DEF PDU_HEADER_LEN
    <3>. QED BY <2>1, <3>1, <3>2, <3>3, <1>13
  <2>. QED BY <2>2, <2>3, <1>3 DEF PDU_HEADER_LEN
<1>16. header \o body = Sent(k)
  BY <1>10, <1>13, <1>14, <1>15, SeqEqual
<1>17. ends[k + 1] \in Nat
  BY <1>2, <1>8
<1>18. pos = ends[k + 1]
  <2>1. PDU_HEADER_LEN \in Nat
    BY DEF PDU_HEADER_LEN
  <2>. QED BY <2>1, <1>3, <1>7, <1>10, <1>11, <1>12, <1>17
<1>. QED BY ONLY <1>8, <1>16, <1>18

LEMMA BodyReadStep ==
  ASSUME IInv, BodyRead
  PROVE  IInv'
<1>1. /\ phase = "body" /\ phase' = "idle" /\ header' = <<>> /\ body' = <<>>
      /\ returned' = Append(returned, header \o body)
      /\ UNCHANGED <<unwritten, elapsed, spent, pos>>
      /\ UNCHANGED <<stream, ends, arrived, closed>>
  BY DEF BodyRead, peer
<1>2. /\ header \in Seq(Byte) /\ body \in Seq(Byte) /\ pos \in Nat
      /\ returned \in Seq(Seq(Byte)) /\ Len(returned) \in Nat
  BY DEF IInv, TypeOK
<1>3. header \o body \in Seq(Byte)
  BY <1>2, ConcatProperties
<1>4. /\ returned' \in Seq(Seq(Byte)) /\ Len(returned') = Len(returned) + 1
      /\ \A i \in 1..Len(returned) : returned'[i] = returned[i]
      /\ returned'[Len(returned) + 1] = header \o body
  BY <1>1, <1>2, <1>3, AppendProperties
<1>5. TypeOK'
  <2>1. header' \in Seq(Byte) /\ Len(header') <= PDU_HEADER_LEN /\ body' \in Seq(Byte)
    BY <1>1 DEF PDU_HEADER_LEN
  <2>. QED BY <1>1, <1>4, <2>1 DEF IInv, TypeOK
<1>6. Begin' = pos
  BY <1>1, <1>2 DEF Begin
<1>7. Buffers' /\ Buffered' /\ Ends' /\ InTime'
  BY <1>1, <1>2, <1>6 DEF IInv, Buffers, Buffered, Ends, InTime, CallBound
<1>8. \A j : Sent(j)' = Sent(j)
  BY <1>1 DEF Sent
<1>9. \A k : WellFormedUpTo(k)' = WellFormedUpTo(k)
  BY <1>1, <1>8 DEF WellFormedUpTo, WellFormed, Declared
<1>10. Aligned'
  <2>. SUFFICES ASSUME WellFormedUpTo(Len(returned'))
                PROVE  /\ Len(returned') < Len(ends)
                       /\ pos = ends[Len(returned') + 1]
    BY <1>1, <1>6, <1>9 DEF Aligned, WellFormedUpTo, WellFormed, Sent
  <2>. QED BY <1>4, BodyIsSent
<1>11. OnePduPerCall'
  <2>. SUFFICES ASSUME NEW k \in 1..Len(returned'), WellFormedUpTo(k)
                PROVE  k < Len(ends) /\ returned'[k] = Sent(k)
    <3>1. OnePduPerCall' <=> \A k \in 1..Len(returned') :
             WellFormedUpTo(k)' => k < Len(ends') /\ returned'[k] = Sent(k)'
      BY DEF OnePduPerCall, WellFormedUpTo
    <3>2. ends' = ends
      BY <1>1
    <3>. QED BY <3>1, <3>2, <1>8, <1>9
  <2>1. CASE k \in 1..Len(returned)
    BY <2>1, <1>4 DEF IInv, OnePduPerCall, WellFormedUpTo
  <2>2. CASE k = Len(returned) + 1
    BY <2>2, <1>4, BodyIsSent
  <2>. QED BY <2>1, <2>2, <1>2, <1>4
<1>. QED BY <1>5, <1>7, <1>10, <1>11 DEF IInv

-----------------------------------------------------------------------------
(* The theorems                                                               *)

\* The bounds only keep TLC's instances finite.
LEMMA BoundsAreBounds == [Next]_vars => [Step]_vars
BY DEF Next, Step, Dropped

LEMMA StepIInv == IInv /\ [Step]_vars => IInv'
<1>. SUFFICES ASSUME IInv, [Step]_vars PROVE IInv'
  OBVIOUS
<1>1. ASSUME NEW length \in RequestLengths, phase = "idle", Call(length) PROVE IInv'
  BY <1>1, CallStep
<1>2. ASSUME NEW n \in 1..unwritten, Write(n) PROVE IInv'
  BY <1>2, WriteStep
<1>3. CASE Read
  BY <1>3, ReadStep
<1>4. CASE HeaderRead
  BY <1>4, HeaderReadStep
<1>5. CASE BodyRead
  BY <1>5, BodyReadStep
<1>6. CASE Break \/ Expire \/ Tick
  BY <1>6, WaitStep
<1>7. ASSUME NEW p \in Pdus, PeerWrites(p) PROVE IInv'
  BY <1>7, PeerWritesStep
<1>8. ASSUME NEW n \in 1..(Len(stream) - arrived), Arrive(n) PROVE IInv'
  BY <1>8, ArriveStep
<1>9. CASE PeerCloses
  BY <1>9, PeerClosesStep
<1>10. CASE UNCHANGED vars
  <2>1. UNCHANGED <<phase, unwritten, header, body, elapsed, spent, returned, pos,
                    stream, ends, arrived, closed>>
    BY <1>10 DEF vars
  <2>2. Begin' = Begin
    BY <2>1 DEF Begin
  <2>3. TypeOK' /\ Buffers' /\ Buffered' /\ InTime'
    BY <2>1, <2>2
       DEF IInv, TypeOK, Buffers, Buffered, InTime, CallBound, Declared
  <2>. QED BY <2>1, <2>2, <2>3, FramingStays DEF IInv
<1>. QED BY <1>1, <1>2, <1>3, <1>4, <1>5, <1>6, <1>7, <1>8, <1>9, <1>10
         DEF Step, Writes

\* The inductive invariant: the types, what the buffers hold, where the calls
\* begin in the stream, and how much time the waits have taken.
THEOREM UnboundedInvariance == UnboundedSpec => []IInv
BY InitIInv, StepIInv, PTL DEF UnboundedSpec

\* It holds with the bounds too.
THEOREM Invariance == Spec => []IInv
BY BoundsAreBounds, UnboundedInvariance, PTL DEF Spec, UnboundedSpec

\* Every variable of send_and_receive_pdu keeps its type; in particular the
\* read of the body never takes more than the header declares.
THEOREM Types == Spec => []TypeOK
<1>1. IInv => TypeOK
  BY DEF IInv
<1>. QED BY <1>1, Invariance, PTL

\* The k-th call of send_and_receive_pdu returns the k-th PDU the peer wrote,
\* however the stream is cut, as long as the PDUs declare their own lengths.
THEOREM CallsReturnPdus == Spec => []OnePduPerCall
<1>1. IInv => OnePduPerCall
  BY DEF IInv
<1>. QED BY <1>1, Invariance, PTL

\* A call of send_and_receive_pdu takes at most three RESPONSE_TIMEOUTs.
THEOREM CallsAreBounded == Spec => []CallBound
<1>1. IInv => CallBound
  BY DEF IInv, InTime
<1>. QED BY <1>1, Invariance, PTL

-----------------------------------------------------------------------------
(* The bytes handed on are the bytes read.                                    *)

\* The bytes of the calls that have returned.
HandedOn == FlattenSeq(returned)

LEMMA HandedOnType ==
  ASSUME IInv
  PROVE  /\ HandedOn \in Seq(Byte) /\ header \in Seq(Byte) /\ body \in Seq(Byte)
         /\ returned \in Seq(Seq(Byte)) /\ stream \in Seq(Byte)
         /\ pos \in Nat /\ arrived \in Nat /\ pos <= arrived /\ arrived <= Len(stream)
<1>1. /\ header \in Seq(Byte) /\ body \in Seq(Byte) /\ returned \in Seq(Seq(Byte))
      /\ stream \in Seq(Byte) /\ pos \in Nat /\ arrived \in Nat /\ pos <= arrived
      /\ arrived <= Len(stream)
  BY DEF IInv, TypeOK
<1>. QED BY <1>1, FlattenType DEF HandedOn

\* The library's facts, of bytes.
LEMMA BytesAssociative ==
  \A s, t, u \in Seq(Byte) : (s \o t) \o u = s \o (t \o u)
BY ConcatAssociative

LEMMA BytesAdjacent ==
  ASSUME NEW s \in Seq(Byte), NEW k \in 0..Len(s), NEW n \in k..Len(s)
  PROVE  SubSeq(s, 1, k) \o SubSeq(s, k + 1, n) = SubSeq(s, 1, n)
<1>1. 1 \in 1..(Len(s) + 1) /\ k \in (1 - 1)..Len(s)
  OBVIOUS
<1>. QED BY <1>1, ConcatAdjacentSubSeq

\* What is read next goes behind what has been read.
LEMMA ReadSkipsNothing ==
  ASSUME IInv, NothingSkipped, Read
  PROVE  NothingSkipped'
<1>1. /\ UNCHANGED <<returned, stream>> /\ pos' = pos + Taken /\ HandedOn' = HandedOn
  BY DEF Read, peer, HandedOn
<1>2. /\ Taken \in Nat /\ pos + Taken <= arrived /\ Chunk \in Seq(Byte)
  BY TakenValue, ChunkValue DEF IInv, Read
<1>3. SubSeq(stream, 1, pos) \o Chunk = SubSeq(stream, 1, pos + Taken)
  <2>1. /\ pos \in 0..Len(stream)
        /\ pos + Taken \in pos..Len(stream)
    BY <1>2, HandedOnType
  <2>. QED BY <2>1, HandedOnType, BytesAdjacent DEF Chunk
<1>4. HandedOn \o header \o body = SubSeq(stream, 1, pos)
  BY DEF NothingSkipped, HandedOn
<1>5. CASE phase = "header" /\ header' = header \o Chunk /\ UNCHANGED body
  <2>1. body = <<>>
    BY <1>5 DEF IInv, Buffers
  <2>2. HandedOn \o header \in Seq(Byte) /\ HandedOn \o (header \o Chunk) \in Seq(Byte)
    BY <1>2, HandedOnType, ConcatProperties
  <2>3. HandedOn \o header = SubSeq(stream, 1, pos)
    BY <1>4, <2>1, <2>2, ConcatEmptySeq
  <2>4. HandedOn \o (header \o Chunk) = SubSeq(stream, 1, pos) \o Chunk
    <3>1. HandedOn \in Seq(Byte) /\ header \in Seq(Byte) /\ Chunk \in Seq(Byte)
      BY <1>2, HandedOnType
    <3>2. (HandedOn \o header) \o Chunk = HandedOn \o (header \o Chunk)
      BY ONLY <3>1, BytesAssociative
    <3>. QED BY <2>3, <3>2
  <2>5. HandedOn \o (header \o Chunk) \o <<>> = SubSeq(stream, 1, pos + Taken)
    BY <1>3, <2>2, <2>4, ConcatEmptySeq
  <2>. QED BY <1>1, <1>5, <2>1, <2>5 DEF NothingSkipped, HandedOn
<1>6. CASE phase = "body" /\ body' = body \o Chunk /\ UNCHANGED header
  <2>1. HandedOn \o header \in Seq(Byte)
    BY HandedOnType, ConcatProperties
  <2>2. HandedOn \o header \o (body \o Chunk) = SubSeq(stream, 1, pos) \o Chunk
    <3>1. ((HandedOn \o header) \o body) \o Chunk = (HandedOn \o header) \o (body \o Chunk)
      BY <1>2, <2>1, HandedOnType, BytesAssociative
    <3>. QED BY <1>4, <3>1
  <2>. QED BY <1>1, <1>3, <1>6, <2>2 DEF NothingSkipped, HandedOn
<1>. QED BY <1>5, <1>6 DEF Read

\* A PDU that is complete moves from the buffers to what is handed on.
LEMMA BodyReadSkipsNothing ==
  ASSUME IInv, NothingSkipped, BodyRead
  PROVE  NothingSkipped'
<1>1. /\ returned' = Append(returned, header \o body) /\ header' = <<>> /\ body' = <<>>
      /\ UNCHANGED <<stream, pos>>
  BY DEF BodyRead, peer
<1>2. header \o body \in Seq(Byte)
  BY HandedOnType, ConcatProperties
<1>3. FlattenSeq(returned') = HandedOn \o (header \o body)
  BY <1>1, <1>2, HandedOnType, FlattenAppend DEF HandedOn
<1>4. FlattenSeq(returned') = HandedOn \o header \o body
  BY <1>3, HandedOnType, BytesAssociative
<1>5. FlattenSeq(returned') \in Seq(Byte)
  BY <1>2, <1>3, HandedOnType, ConcatProperties
<1>6. FlattenSeq(returned') \o <<>> \o <<>> = FlattenSeq(returned')
  BY <1>5, ConcatEmptySeq
<1>. QED BY <1>1, <1>4, <1>6 DEF NothingSkipped, HandedOn

\* What the peer adds to the stream comes after what has been read.
LEMMA PeerWritesSkipsNothing ==
  ASSUME IInv, NothingSkipped, NEW p \in Pdus, PeerWrites(p)
  PROVE  NothingSkipped'
<1>1. stream' = stream \o p /\ UNCHANGED <<returned, header, body, pos>> /\ p \in Seq(Byte)
  BY PdusAssumption DEF PdusAssumption, PeerWrites, client
<1>2. SubSeq(stream \o p, 1, pos) = SubSeq(stream, 1, pos)
  <2>1. CASE pos = 0
    BY <2>1, SubSeqEmpty
  <2>2. CASE pos # 0
    <3>1. 1 \in 1..Len(stream) /\ pos \in 1..Len(stream)
      BY <2>2, HandedOnType
    <3>. QED BY <1>1, <3>1, HandedOnType, SubSeqOfConcat1
  <2>. QED BY <2>1, <2>2
<1>. QED BY <1>1, <1>2 DEF NothingSkipped

LEMMA StepSkipsNothing ==
  ASSUME IInv, NothingSkipped, [Step]_vars
  PROVE  NothingSkipped'
<1>1. ASSUME UNCHANGED <<returned, header, body, stream, pos>> PROVE NothingSkipped'
  BY <1>1 DEF NothingSkipped
<1>2. CASE \E length \in RequestLengths : phase = "idle" /\ Call(length)
  <2>1. header = <<>> /\ body = <<>>
    BY <1>2 DEF IInv, Buffers
  <2>. QED BY <1>1, <1>2, <2>1 DEF Call, peer
<1>3. CASE Writes \/ HeaderRead \/ Break \/ Expire \/ Tick \/ PeerCloses
             \/ UNCHANGED vars
  BY <1>1, <1>3
  DEF Writes, Write, HeaderRead, Break, Expire, Tick, PeerCloses, client, peer, vars
<1>4. ASSUME NEW n, Arrive(n) PROVE NothingSkipped'
  BY <1>1, <1>4 DEF Arrive, client
<1>. QED BY <1>2, <1>3, <1>4, ReadSkipsNothing, BodyReadSkipsNothing,
            PeerWritesSkipsNothing
         DEF Step

LEMMA InitSkipsNothing == Init => NothingSkipped
<1>. SUFFICES ASSUME Init PROVE NothingSkipped
  OBVIOUS
<1>1. FlattenSeq(returned) \o header \o body = <<>>
  BY FlattenEmpty, ConcatEmptySeq, EmptySeq DEF Init
<1>2. SubSeq(stream, 1, pos) = <<>>
  BY SubSeqEmpty DEF Init
<1>. QED BY <1>1, <1>2 DEF NothingSkipped

\* Whatever the peer writes and however it arrives: the PDUs returned and the
\* buffers of the current call, put together, are the bytes read, none dropped and
\* none read twice.  The PDUs need not declare their own lengths for that.
THEOREM CallsSkipNothing == Spec => []NothingSkipped
BY InitSkipsNothing, StepSkipsNothing, BoundsAreBounds, Invariance, PTL DEF Spec

-----------------------------------------------------------------------------
(* The race of the deadline and the last byte.                                *)

\* Where the header has been read in full it is that of the stream at Begin.
LEMMA HeaderDeclares ==
  ASSUME IInv, phase = "body"
  PROVE  Declared(SubSeq(stream, Begin + 1, Begin + PDU_HEADER_LEN)) = Declared(header)
<1>7. TypeOK /\ Buffers
  BY DEF IInv
<1>1. /\ header \in Seq(Byte) /\ Len(header) = 5 /\ stream \in Seq(Byte)
      /\ Begin \in Nat /\ Len(body) \in Nat
  <2>1. header \in Seq(Byte) /\ body \in Seq(Byte) /\ stream \in Seq(Byte)
    BY ONLY <1>7 DEF TypeOK
  <2>2. Len(header) = 5 /\ Begin \in Nat
    BY <1>7 DEF Buffers, PDU_HEADER_LEN
  <2>. QED BY <2>1, <2>2
<1>2. Begin + 5 <= Len(stream) /\ Len(stream) \in Nat
  <2>1. pos \in Nat /\ pos <= Len(stream) /\ Len(stream) \in Nat
    BY <1>7 DEF TypeOK
  <2>2. Begin = pos - Len(header) - Len(body)
    BY ONLY DEF Begin
  <2>. QED BY ONLY <1>1, <2>1, <2>2
<1>3. \A i \in (Begin + 1)..(Begin + 5) : stream[i] \in Byte
  <2>1. \A i \in (Begin + 1)..(Begin + 5) : i \in 1..Len(stream)
    BY ONLY <1>1, <1>2
  <2>. QED BY ONLY <1>1, <2>1, ElementOfSeq
<1>4. \A i \in 1..5 :
        SubSeq(stream, Begin + 1, Begin + 5)[i] = stream[Begin + 1 + i - 1]
  <2>1. Begin + 5 - (Begin + 1) + 1 = 5
    BY <1>1
  <2>. QED BY <1>1, <1>3, <2>1, SubSeqProperties
<1>5. header[4] = stream[Begin + 4] /\ header[5] = stream[Begin + 5]
  BY <1>1 DEF IInv, Buffered
<1>6. /\ SubSeq(stream, Begin + 1, Begin + 5)[4] = stream[Begin + 4]
      /\ SubSeq(stream, Begin + 1, Begin + 5)[5] = stream[Begin + 5]
  <2>1. Begin + 1 + 4 - 1 = Begin + 4 /\ Begin + 1 + 5 - 1 = Begin + 5
    BY <1>1
  <2>2. 4 \in 1..5 /\ 5 \in 1..5
    OBVIOUS
  <2>. DEFINE h == SubSeq(stream, Begin + 1, Begin + 5)
  <2>3. h[4] = stream[Begin + 1 + 4 - 1] /\ h[5] = stream[Begin + 1 + 5 - 1]
    BY <1>4, <2>2
  <2>. QED BY <2>1, <2>3
<1>. QED BY <1>5, <1>6 DEF Declared, PDU_HEADER_LEN

\* A timer fires on a read only while the PDU read is not there in full: what is
\* there has been taken, and more is wanted.
LEMMA ExpireNeedsMissingBytes ==
  ASSUME IInv, Expire, phase \in {"header", "body"}
  PROVE  ~PduArrived
<1>1. Wanted > 0 /\ Taken = 0
  BY DEF Expire
<1>2. arrived \in Nat /\ pos \in Nat /\ pos <= arrived /\ Wanted \in Nat
  BY WantedValue DEF IInv, TypeOK
<1>3. arrived = pos
  BY <1>1, <1>2 DEF Taken
<1>4. Len(header) \in Nat /\ Len(body) \in Nat
  BY DEF IInv, TypeOK
<1>5. arrived - Begin = Len(header) + Len(body)
  BY <1>2, <1>3, <1>4 DEF Begin
<1>6. CASE phase = "header"
  <2>1. body = <<>> /\ Wanted = PDU_HEADER_LEN - Len(header)
    BY <1>6, WantedValue DEF IInv, Buffers
  <2>2. ~(Len(header) + Len(body) >= PDU_HEADER_LEN)
    BY <1>1, <1>4, <2>1 DEF PDU_HEADER_LEN
  <2>. QED BY <1>5, <2>2 DEF PduArrived
<1>7. CASE phase = "body"
  <2>1. /\ Len(header) = PDU_HEADER_LEN /\ header \in Seq(Byte)
        /\ Wanted = Declared(header) - Len(body)
    BY <1>7, WantedValue DEF IInv, TypeOK, Buffers
  <2>2. Declared(header) \in Nat
    <3>1. Len(header) >= PDU_HEADER_LEN
      BY <2>1 DEF PDU_HEADER_LEN
    <3>. QED BY <2>1, <3>1, DeclaredType
  <2>3. ~(Len(header) + Len(body) >= PDU_HEADER_LEN + Declared(header))
    BY <1>1, <1>4, <2>1, <2>2 DEF PDU_HEADER_LEN
  <2>. QED BY <1>5, <1>7, <2>3, HeaderDeclares DEF PduArrived
<1>. QED BY <1>6, <1>7

LEMMA StepNeedsMissingBytes ==
  ASSUME IInv, [Step]_vars, PduArrived, phase \in {"header", "body"}
  PROVE  phase' # "timeout"
<1>1. CASE Expire
  BY <1>1, ExpireNeedsMissingBytes
<1>2. CASE ~Expire
  BY <1>2
  DEF Step, Writes, Call, Write, Read, HeaderRead, BodyRead, Break, Tick,
      PeerWrites, Arrive, PeerCloses, client, vars
<1>. QED BY <1>1, <1>2

\* The deadline and the last byte of an answer may race: the byte wins.
THEOREM AnswersInTimeAreReturned == Spec => ArrivedPduWins
<1>1. IInv /\ [Next]_vars
        => [(PduArrived /\ phase \in {"header", "body"}) => phase' # "timeout"]_vars
  BY BoundsAreBounds, StepNeedsMissingBytes
<1>. QED BY <1>1, Invariance, PTL DEF Spec, ArrivedPduWins

-----------------------------------------------------------------------------
(* A peer whose PDUs have the lengths they declare.                           *)

AllWellFormed == \A j \in 1..(Len(ends) - 1) : WellFormed(Sent(j))

\* What comes after the first sequence is the second.
LEMMA SubSeqBehind ==
  ASSUME NEW s \in Seq(Byte), NEW t \in Seq(Byte), Len(t) >= 1
  PROVE  SubSeq(s \o t, Len(s) + 1, Len(s) + Len(t)) = t
<1>1. /\ Len(s) + 1 \in Len(s)+1..Len(s)+Len(t)
      /\ Len(s) + Len(t) \in Len(s)+1..Len(s)+Len(t)
      /\ Len(s) + 1 - Len(s) = 1 /\ Len(s) + Len(t) - Len(s) = Len(t)
  OBVIOUS
<1>2. SubSeq(s \o t, Len(s) + 1, Len(s) + Len(t))
        = SubSeq(t, Len(s) + 1 - Len(s), Len(s) + Len(t) - Len(s))
  BY <1>1, SubSeqOfConcat2
<1>. QED BY <1>1, <1>2, SubSeqFull

\* The PDU written last is the last of the stream.
LEMMA LastSent ==
  ASSUME TypeOK, Ends, NEW p \in Seq(Byte), Len(p) >= PDU_HEADER_LEN, PeerWrites(p),
         NEW k, k = Len(ends)
  PROVE  Len(ends') = k + 1 /\ Sent(k)' = p
<1>. DEFINE n == Len(stream)
            m == Len(stream) + Len(p)
<1>1. /\ ends \in Seq(Nat) /\ Len(ends) \in Nat /\ Len(ends) >= 1 /\ stream \in Seq(Byte)
      /\ n \in Nat /\ Len(p) \in Nat /\ Len(p) >= 5 /\ m \in Nat /\ ends[Len(ends)] = n
  BY DEF TypeOK, Ends, PDU_HEADER_LEN
<1>2. stream' = stream \o p /\ ends' = Append(ends, m)
  BY DEF PeerWrites
<1>. HIDE DEF n, m
<1>3. /\ Len(ends') = Len(ends) + 1 /\ ends'[Len(ends)] = n
      /\ ends'[Len(ends) + 1] = m
  BY <1>1, <1>2, AppendProperties
<1>4. SubSeq(stream \o p, n + 1, m) = p
  <2>1. stream \in Seq(Byte) /\ Len(p) >= 1
    BY <1>1
  <2>. QED BY <2>1, SubSeqBehind DEF n, m
<1>5. Sent(k)' = SubSeq(stream', ends'[k] + 1, ends'[k + 1])
  BY DEF Sent
<1>. QED BY <1>2, <1>3, <1>4, <1>5

LEMMA StepWellFormed ==
  ASSUME IInv, AllWellFormed,
         \/ UNCHANGED <<stream, ends>>
         \/ \E p \in Pdus : WellFormed(p) /\ PeerWrites(p)
  PROVE  AllWellFormed'
<1>1. CASE UNCHANGED <<stream, ends>>
  <2>1. stream' = stream /\ ends' = ends
    BY <1>1
  <2>2. \A j : Sent(j)' = Sent(j)
    BY <2>1 DEF Sent
  <2>3. Len(ends') = Len(ends)
    BY <2>1
  <2>. QED BY <2>2, <2>3 DEF AllWellFormed, WellFormed, Declared
<1>2. ASSUME NEW p \in Pdus, WellFormed(p), PeerWrites(p) PROVE AllWellFormed'
  <2>1. p \in Seq(Byte) /\ Len(p) >= PDU_HEADER_LEN
    BY PdusAssumption DEF PdusAssumption
  <2>2. TypeOK /\ Ends /\ Len(ends) \in Nat /\ Len(ends) >= 1
    BY DEF IInv, TypeOK
  <2>3. Len(ends') = Len(ends) + 1
    BY <1>2, <2>1, <2>2, LastSent
  <2>4. ASSUME NEW j \in 1..(Len(ends') - 1) PROVE WellFormed(Sent(j))'
    <3>1. CASE j = Len(ends)
      <4>1. Sent(j)' = p
        BY <1>2, <2>1, <2>2, <3>1, LastSent
      <4>. QED BY <1>2, <4>1 DEF WellFormed, Declared
    <3>2. CASE j # Len(ends)
      <4>1. j \in 1..(Len(ends) - 1)
        BY <2>2, <2>3, <3>2
      <4>2. Sent(j)' = Sent(j)
        BY <1>2, <2>1, <2>2, <4>1, SentStays
      <4>. QED BY <4>1, <4>2 DEF AllWellFormed, WellFormed, Declared
    <3>. QED BY <3>1, <3>2
  <2>. QED BY <2>4 DEF AllWellFormed
<1>. QED BY <1>1, <1>2

\* With such a peer the k-th call returns the k-th PDU, without any condition.
LEMMA EachCallReturnsItsPdu ==
  ASSUME IInv, AllWellFormed
  PROVE  \A k \in 1..Len(returned) : k < Len(ends) /\ returned[k] = Sent(k)
<1>1. Len(ends) \in Nat /\ Len(returned) \in Nat /\ OnePduPerCall
  BY DEF IInv, TypeOK
<1>2. ASSUME NEW j \in Nat, j >= 1, j < Len(ends) PROVE WellFormed(Sent(j))
  <2>1. j \in 1..(Len(ends) - 1)
    BY <1>1, <1>2
  <2>. QED BY <2>1 DEF AllWellFormed
<1>. QED BY <1>1, <1>2 DEF OnePduPerCall
=============================================================================
