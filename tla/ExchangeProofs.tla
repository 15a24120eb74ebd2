--------------------------- MODULE ExchangeProofs ---------------------------
(***************************************************************************)
(* Byte for byte the client is that of SessionServer, request and reply    *)
(* never get out of step, and an error ends the use of the stream: for     *)
(* every answer a server may hold, every encoding of offsets, every choice *)
(* of pages, every timeout and every cut of the bytes.                     *)
(***************************************************************************)
EXTENDS ExchangeServer, CodecProofs

-----------------------------------------------------------------------------
(* What the server reads from a request.                                      *)

Marked(b, i, j) == SubSeq(b, i, j) = attribute_id_list_marker

LEMMA MarkerAt ==
  ASSUME NEW b \in Seq(Byte), NEW i \in Nat \ {0}, NEW j \in 1..Len(b), j = i + 2
  PROVE  Marked(b, i, j) <=> b[i] = 53 /\ b[i + 1] = 5 /\ b[j] = 10
<1>. DEFINE q == SubSeq(b, (i - 1) + 1, j)
            marker == <<53, 5, 10>>
<1>1. i - 1 \in Nat /\ j \in (i - 1)..Len(b) /\ j - (i - 1) = 3 /\ (i - 1) + 1 = i
      /\ (i - 1) + 2 = i + 1 /\ (i - 1) + 3 = j
  OBVIOUS
<1>2. q \in Seq(Byte) /\ Len(q) = 3 /\ \A l \in 1..3 : q[l] = b[(i - 1) + l]
  BY <1>1, Part
<1>. HIDE DEF q
<1>3. q[1] = b[i] /\ q[2] = b[i + 1] /\ q[3] = b[j]
  BY <1>1, <1>2
<1>4. /\ marker \in Seq(Byte) /\ Len(marker) = 3
      /\ marker[1] = 53 /\ marker[2] = 5 /\ marker[3] = 10
  BY DEF Byte
<1>. HIDE DEF marker
<1>5. q = marker <=> q[1] = 53 /\ q[2] = 5 /\ q[3] = 10
  <2>1. ASSUME q[1] = 53, q[2] = 5, q[3] = 10 PROVE q = marker
    <3>1. \A l \in 1..3 : q[l] = marker[l]
      BY <1>4, <2>1
    <3>. QED BY ONLY <1>2, <1>4, <3>1, SeqEqual
  <2>. QED BY <1>4, <2>1
<1>6. attribute_id_list_marker = marker
  BY DEF attribute_id_list_marker, marker
<1>. QED BY <1>1, <1>3, <1>5, <1>6 DEF Marked, q

\* The continuation state is found in every request: no byte before the attribute
\* id list can be taken for the marker of that list.
LEMMA StateIsFound ==
  ASSUME NEW b, NEW uuid16, NEW state \in Seq(Byte), RequestBodyIs(b, uuid16, state)
  PROVE  continuation_state_from_request_body(b) = state
<1>. DEFINE M == {i \in 1..(Len(b) - 2) : SubSeq(b, i, i + 2) = attribute_id_list_marker}
<1>1. /\ b \in Seq(Byte) /\ Len(b) = 15 + Len(state) /\ Len(state) \in Nat
      /\ b[1] = 53 /\ b[2] = 3 /\ b[3] = 25 /\ b[6] = 255 /\ b[7] = 255
      /\ b[8] = 53 /\ b[9] = 5 /\ b[10] = 10
      /\ SubSeq(b, 16, Len(b)) = state
  BY DEF RequestBodyIs
<1>2. 8 \in M
  <2>1. 8 \in Nat \ {0} /\ 10 \in 1..Len(b) /\ 8 \in 1..(Len(b) - 2) /\ 8 + 1 = 9 /\ 10 = 8 + 2
    BY <1>1
  <2>2. Marked(b, 8, 10) <=> b[8] = 53 /\ b[8 + 1] = 5 /\ b[10] = 10
    <3>1. b \in Seq(Byte)
      BY <1>1
    <3>. QED BY ONLY <2>1, <3>1, MarkerAt
  <2>3. SubSeq(b, 8, 8 + 2) = attribute_id_list_marker
    BY <1>1, <2>1, <2>2 DEF Marked
  <2>. QED BY <2>1, <2>3
<1>3. ASSUME NEW i \in M PROVE 8 <= i
  <2>1. i \in Nat \ {0} /\ i + 2 \in 1..Len(b)
    BY <1>1
  <2>2. Marked(b, i, i + 2)
    BY DEF Marked
  <2>4. b[i] = 53 /\ b[i + 1] = 5 /\ b[i + 2] = 10
    <3>1. b \in Seq(Byte)
      BY <1>1
    <3>. QED BY ONLY <2>1, <2>2, <3>1, MarkerAt
  <2>3. i # 1 /\ i # 2 /\ i # 3 /\ i # 4 /\ i # 5 /\ i # 6 /\ i # 7
    <3>1. b[2] = 3 /\ b[3] = 25 /\ b[6] = 255 /\ b[7] = 255
      BY <1>1
    <3>2. i # 1
      BY ONLY <2>4, <3>1
    <3>3. i # 2
      BY ONLY <2>4, <3>1
    <3>4. i # 3
      BY ONLY <2>4, <3>1
    <3>5. i # 4
      BY ONLY <2>4, <3>1
    <3>6. i # 5
      BY ONLY <2>4, <3>1
    <3>7. i # 6
      BY ONLY <2>4, <3>1
    <3>8. i # 7
      BY ONLY <2>4, <3>1
    <3>. QED BY ONLY <3>2, <3>3, <3>4, <3>5, <3>6, <3>7, <3>8
  <2>. QED BY <2>1, <2>3
<1>4. M \subseteq Nat
  OBVIOUS
<1>5. Min(M) = 8
  <2>. HIDE DEF M
  <2>1. \A x \in M : (\A y \in M : x <= y) => x = 8
    BY <1>2, <1>3, <1>4
  <2>. QED BY <1>2, <1>3, <2>1 DEF Min
<1>6. continuation_state_from_request_body(b)
        = SubSeq(b, Min(M) + Len(attribute_id_list_marker) + 4 + 1, Len(b))
  BY DEF continuation_state_from_request_body
<1>7. Len(attribute_id_list_marker) = 3
  BY DEF attribute_id_list_marker
<1>. HIDE DEF M
<1>8. Min(M) + Len(attribute_id_list_marker) + 4 + 1 = 16
  BY <1>5, <1>7
<1>. QED BY <1>1, <1>6, <1>8

\* A request as the server takes it apart.
RequestIs(pdu, r) ==
  /\ pdu \in Seq(Byte) /\ Len(pdu) >= 20 /\ Len(pdu) = 5 + Len(RequestBody(r))
  /\ 256 * pdu[4] + pdu[5] = Len(RequestBody(r))
  /\ HeaderIs(pdu, 6, r.transaction_id, Len(RequestBody(r)))
  /\ ServiceOf(pdu) = r.service_uuid16
  /\ continuation_state_from_request_body(ParametersOf(pdu)) = r.continuation_state

LEMMA RequestIsRead ==
  ASSUME NEW r \in QueryRequest
  PROVE  RequestIs(RequestBytes(r), r)
<1>. DEFINE pdu == RequestBytes(r)
            b == RequestBody(r)
<1>1. PduIs(pdu, 6, r.transaction_id, Len(b), b)
  BY RequestLayout
<1>2. RequestBodyIs(b, r.service_uuid16, r.continuation_state)
  BY RequestBodyLayout
<1>3. r.continuation_state \in Seq(Byte) /\ Len(r.continuation_state) \in Nat
  BY DEF QueryRequest
<1>. HIDE DEF pdu, b
<1>4. /\ b \in Seq(Byte) /\ Len(b) = 15 + Len(r.continuation_state)
      /\ 256 * b[4] + b[5] = r.service_uuid16
  BY <1>2 DEF RequestBodyIs
<1>5. /\ pdu \in Seq(Byte) /\ Len(pdu) = 5 + Len(b) /\ pdu[1] = 6
      /\ 256 * pdu[2] + pdu[3] = r.transaction_id /\ 256 * pdu[4] + pdu[5] = Len(b)
      /\ \A i \in 1..Len(b) : pdu[5 + i] = b[i]
      /\ SubSeq(pdu, 6, Len(pdu)) = b
  BY <1>1 DEF PduIs
<1>6. Len(pdu) >= 20
  BY <1>3, <1>4, <1>5
<1>7. HeaderIs(pdu, 6, r.transaction_id, Len(b))
  <2>1. Len(pdu) >= 5
    BY <1>5, <1>6
  <2>. QED BY <1>5, <2>1, HeaderReadBack
<1>8. ServiceOf(pdu) = r.service_uuid16
  <2>1. 9 \in Nat \ {0} /\ 10 \in 1..Len(pdu) /\ 10 = 9 + 1
    BY <1>5, <1>6
  <2>2. BigEndian(SubSeq(pdu, 9, 10)) = 256 * pdu[9] + pdu[10]
    <3>1. pdu \in Seq(Byte)
      BY <1>5
    <3>. QED BY ONLY <2>1, <3>1, PairAt
  <2>3. 4 \in 1..Len(b) /\ 5 \in 1..Len(b) /\ 5 + 4 = 9 /\ 5 + 5 = 10
    BY <1>3, <1>4
  <2>4. pdu[9] = b[4] /\ pdu[10] = b[5]
    BY <1>5, <2>3
  <2>. QED BY <1>4, <2>2, <2>4 DEF ServiceOf
<1>9. ParametersOf(pdu) = b
  <2>1. PDU_HEADER_LEN + 1 = 6
    BY DEF PDU_HEADER_LEN
  <2>. QED BY <1>5, <2>1 DEF ParametersOf
<1>10. continuation_state_from_request_body(b) = r.continuation_state
  BY <1>2, <1>3, StateIsFound
<1>. QED BY <1>5, <1>6, <1>7, <1>8, <1>9, <1>10 DEF RequestIs, pdu, b

\* The server takes a request in full, and no part of one for a request.
LEMMA RequestedInFull ==
  ASSUME NEW r \in QueryRequest, Unheard = RequestBytes(r)
  PROVE  Requested = {RequestBytes(r)}
<1>. DEFINE U == RequestBytes(r)
            n == Len(RequestBody(r))
            h == [pdu_id |-> 6, transaction_id |-> r.transaction_id, parameter_length |-> n]
<1>1. U \in Seq(Byte) /\ Len(U) = 5 + n /\ pdu_header(U) = {h}
  BY RequestIsRead DEF RequestIs, HeaderIs
<1>2. h.parameter_length = n
  OBVIOUS
<1>. HIDE DEF U, n, h
<1>3. PDU_HEADER_LEN + h.parameter_length = Len(U)
  BY <1>1, <1>2 DEF PDU_HEADER_LEN
<1>4. SubSeq(U, 1, Len(U)) = U
  BY <1>1, SubSeqFull
<1>5. Len(U) >= PDU_HEADER_LEN + h.parameter_length
  BY <1>1, <1>3
<1>6. {x \in pdu_header(U) : Len(U) >= PDU_HEADER_LEN + x.parameter_length} = {h}
  BY <1>1, <1>5
<1>7. Unheard = U
  BY DEF U
<1>8. Requested = {SubSeq(U, 1, PDU_HEADER_LEN + x.parameter_length) : x \in {h}}
  BY <1>6, <1>7 DEF Requested
<1>. QED BY <1>3, <1>4, <1>8 DEF U

LEMMA RequestedOfPart ==
  ASSUME NEW r \in QueryRequest, NEW k \in Nat, k < Len(RequestBytes(r)),
         Unheard = SubSeq(RequestBytes(r), 1, k)
  PROVE  Requested = {}
<1>. DEFINE E == RequestBytes(r)
            U == Unheard
            n == Len(RequestBody(r))
<1>1. E \in Seq(Byte) /\ Len(E) >= 20 /\ Len(E) = 5 + n /\ 256 * E[4] + E[5] = n
  BY RequestIsRead DEF RequestIs
<1>. HIDE DEF E, n, U
<1>2. U \in Seq(Byte) /\ Len(U) = k /\ \A i \in 1..k : U[i] = E[i]
  <2>1. k \in 0..Len(E)
    BY <1>1 DEF E
  <2>. QED BY <1>1, <2>1, Prefix DEF E, U
<1>3. k < Len(E)
  BY DEF E
<1>4. CASE k < 5
  <2>1. pdu_header(U) = {}
    BY <1>2, <1>4 DEF pdu_header, PDU_HEADER_LEN
  <2>. QED BY <2>1 DEF Requested, U
<1>5. CASE k >= 5
  <2>1. Len(U) >= PDU_HEADER_LEN
    BY <1>2, <1>5 DEF PDU_HEADER_LEN
  <2>2. pdu_header(U) = {[pdu_id |-> U[1], transaction_id |-> 256 * U[2] + U[3],
                          parameter_length |-> 256 * U[4] + U[5]]}
    BY <1>2, <2>1, HeaderFields
  <2>3. 4 \in 1..k /\ 5 \in 1..k
    BY <1>5
  <2>4. 256 * U[4] + U[5] = n
    BY <1>1, <1>2, <2>3
  <2>5. \A x \in pdu_header(U) : ~(Len(U) >= PDU_HEADER_LEN + x.parameter_length)
    BY <1>1, <1>2, <1>3, <2>2, <2>4 DEF PDU_HEADER_LEN
  <2>. QED BY <2>5 DEF Requested, U
<1>. QED BY <1>4, <1>5

-----------------------------------------------------------------------------
(* What the client reads from an answer.                                      *)

\* The requests of a query that has been answered by this server so far.
Asks(r) ==
  /\ r \in QueryRequest /\ r.service_uuid16 \in Services
  /\ \/ r.continuation_state = <<>>
     \/ \E n \in 1..(Len(AttributeBytes(r.service_uuid16)) - 1) :
          r.continuation_state = Cont(n)

\* Where the page r asks for begins.
From(r) == IF r.continuation_state = <<>> THEN 0 ELSE Offset(r.continuation_state)

\* The page of this length that answers r.
PageIs(r, length, attributes, state) ==
  LET held == AttributeBytes(r.service_uuid16)
  IN  \/ /\ From(r) + length < Len(held)
         /\ attributes = SubSeq(held, From(r) + 1, From(r) + length)
         /\ state = Cont(From(r) + length)
      \/ /\ From(r) + length >= Len(held)
         /\ attributes = SubSeq(held, From(r) + 1, Len(held))
         /\ state = <<>>

\* Both regions of a page fit in their lengths, and both in those of the PDU.
LEMMA PageFits ==
  ASSUME NEW r, Asks(r), NEW length \in PageLengths, NEW attributes, NEW state,
         PageIs(r, length, attributes, state)
  PROVE  /\ attributes \in Seq(Byte) /\ Len(attributes) <= U16_MAX
         /\ state \in Seq(Byte) /\ Len(state) <= U8_MAX
         /\ 3 + Len(attributes) + Len(state) \in 0..U16_MAX
         /\ \/ state = <<>>
            \/ \E n \in 1..(Len(AttributeBytes(r.service_uuid16)) - 1) : state = Cont(n)
<1>. DEFINE held == AttributeBytes(r.service_uuid16)
            total == Len(held)
            from == From(r)
<1>1. /\ held \in Seq(Byte)
      /\ \A n \in 1..(total - 1) : /\ Cont(n) \in Seq(Byte)
                                   /\ Len(Cont(n)) <= U8_MAX
                                   /\ Offset(Cont(n)) = n
  BY HeldAssumption DEF Asks
<1>2. total \in Nat
  BY <1>1
<1>. HIDE DEF held, total
<1>3. from \in Nat /\ from <= total
  BY <1>1, <1>2 DEF Asks, From, total, held
<1>4. length \in Nat \ {0} /\ 3 + length + U8_MAX <= U16_MAX
  BY PagesAssumption
<1>. HIDE DEF from
<1>5. ASSUME NEW n \in from..total, n <= from + length, attributes = SubSeq(held, from + 1, n)
      PROVE  attributes \in Seq(Byte) /\ Len(attributes) \in Nat /\ Len(attributes) <= length
  <2>1. n \in from..Len(held)
    BY <1>5 DEF total
  <2>2. attributes \in Seq(Byte) /\ Len(attributes) = n - from
    BY <1>1, <1>3, <1>5, <2>1, Part
  <2>. QED BY <1>3, <1>4, <1>5, <2>2
<1>6. /\ attributes \in Seq(Byte) /\ Len(attributes) \in Nat /\ Len(attributes) <= length
      /\ state \in Seq(Byte) /\ Len(state) <= U8_MAX
      /\ state = <<>> \/ \E n \in 1..(total - 1) : state = Cont(n)
  <2>1. CASE /\ from + length < total
             /\ attributes = SubSeq(held, from + 1, from + length)
             /\ state = Cont(from + length)
    <3>1. from + length \in 1..(total - 1) /\ from + length \in from..total
      BY <1>2, <1>3, <1>4, <2>1
    <3>2. attributes \in Seq(Byte) /\ Len(attributes) \in Nat /\ Len(attributes) <= length
      BY <1>3, <1>4, <1>5, <2>1, <3>1
    <3>. QED BY <1>1, <2>1, <3>1, <3>2
  <2>2. CASE /\ from + length >= total
             /\ attributes = SubSeq(held, from + 1, total)
             /\ state = <<>>
    <3>1. total \in from..total /\ total <= from + length
      BY <1>2, <1>3, <2>2
    <3>2. attributes \in Seq(Byte) /\ Len(attributes) \in Nat /\ Len(attributes) <= length
      BY <1>5, <2>2, <3>1
    <3>3. state \in Seq(Byte) /\ Len(state) <= U8_MAX
      BY <2>2 DEF U8_MAX
    <3>. QED BY <2>2, <3>2, <3>3
  <2>. QED BY <2>1, <2>2 DEF PageIs, from, held, total
<1>7. Len(state) \in Nat
  BY <1>6
<1>8. 3 + Len(attributes) + Len(state) \in 0..U16_MAX /\ Len(attributes) <= U16_MAX
  BY <1>4, <1>6, <1>7, MaximaAreNat
<1>. QED BY <1>6, <1>8 DEF total, held

\* An answer as the client takes it apart: it has the length it declares, the
\* transaction id it was asked with, and a page raw_response returns.
AnswerIs(pdu, id, attributes, state) ==
  /\ pdu \in Seq(Byte) /\ Len(pdu) >= 5 /\ Len(pdu) = 5 + (256 * pdu[4] + pdu[5])
  /\ pdu[1] = 7 /\ 256 * pdu[2] + pdu[3] = id
  /\ \E fields : raw_response(pdu) = {[header             |-> fields,
                                       attribute_bytes    |-> attributes,
                                       continuation_state |-> state]}

LEMMA PageIsAnswer ==
  ASSUME NEW r, Asks(r), NEW length \in PageLengths, NEW attributes, NEW state,
         PageIs(r, length, attributes, state)
  PROVE  LET len == Len(RegionBytes(attributes, state))
         IN  AnswerIs(ResponseBytes(r.transaction_id, len, attributes, state),
                      r.transaction_id, attributes, state)
<1>. DEFINE id == r.transaction_id
            len == Len(RegionBytes(attributes, state))
            n == 3 + Len(attributes) + Len(state)
            pdu == ResponseBytes(id, len, attributes, state)
<1>1. /\ attributes \in Seq(Byte) /\ Len(attributes) <= U16_MAX
      /\ state \in Seq(Byte) /\ Len(state) <= U8_MAX
      /\ n \in 0..U16_MAX
  BY PageFits
<1>2. len = n
  <2>1. RegionsAre(RegionBytes(attributes, state), attributes, state)
    BY <1>1, ParametersLayout
  <2>. QED BY <2>1 DEF RegionsAre
<1>3. id \in 0..U16_MAX
  BY DEF Asks, QueryRequest
<1>4. Len(attributes) \in Nat /\ Len(state) \in Nat
  BY <1>1
<1>. HIDE DEF id, len, pdu
<1>5. len \in 0..U16_MAX
  BY <1>1, <1>2
<1>6. ResponseIs(pdu, id, len, attributes, state)
  BY <1>1, <1>3, <1>5, ResponseLayout DEF pdu
<1>7. raw_response(pdu) =
        {[header             |-> [pdu_id           |-> 7,
                                  transaction_id   |-> id,
                                  parameter_length |-> len],
          attribute_bytes    |-> attributes,
          continuation_state |-> state]}
  BY <1>1, <1>3, <1>5, ResponseReadBack DEF pdu
<1>8. /\ pdu \in Seq(Byte) /\ Len(pdu) = 8 + Len(attributes) + Len(state)
      /\ pdu[1] = 7 /\ 256 * pdu[2] + pdu[3] = id /\ 256 * pdu[4] + pdu[5] = len
  BY <1>6 DEF ResponseIs
<1>9. Len(pdu) >= 5 /\ Len(pdu) = 5 + (256 * pdu[4] + pdu[5])
  BY <1>2, <1>4, <1>8
<1>. HIDE DEF n
<1>. QED BY <1>7, <1>8, <1>9 DEF AnswerIs, id, len, pdu

\* What the server writes is a page of one of its lengths.
LEMMA AnswersArePages ==
  ASSUME NEW r, Asks(r), NEW pdu \in Answers(RequestBytes(r))
  PROVE  \E length, attributes, state :
           /\ length \in PageLengths
           /\ PageIs(r, length, attributes, state)
           /\ AnswerIs(pdu, r.transaction_id, attributes, state)
<1>. DEFINE E == RequestBytes(r)
            h == [pdu_id           |-> 6,
                  transaction_id   |-> r.transaction_id,
                  parameter_length |-> Len(RequestBody(r))]
            held == AttributeBytes(r.service_uuid16)
            from == From(r)
            Page(n, next) == {ResponsePdu(h, SubSeq(held, from + 1, n), next)}
<1>1. /\ ServiceOf(E) = r.service_uuid16 /\ pdu_header(E) = {h}
      /\ continuation_state_from_request_body(ParametersOf(E)) = r.continuation_state
  BY RequestIsRead DEF Asks, RequestIs, HeaderIs
<1>. HIDE DEF h
<1>2. Answers(E) = UNION {IF from + length < Len(held)
                            THEN Page(from + length, Cont(from + length))
                            ELSE Page(Len(held), <<>>) : length \in PageLengths}
  <2>. HIDE DEF E
  <2>. QED BY <1>1 DEF Answers, From
<1>3. PICK length \in PageLengths :
        pdu \in IF from + length < Len(held)
                  THEN Page(from + length, Cont(from + length))
                  ELSE Page(Len(held), <<>>)
  <2>1. pdu \in Answers(E)
    OBVIOUS
  <2>. HIDE DEF E, from, held, Page
  <2>. QED BY <1>2, <2>1
<1>4. from \in Nat /\ Len(held) \in Nat /\ length \in Nat
  BY HeldAssumption, PagesAssumption DEF Asks, From
<1>5. PICK attributes, state : PageIs(r, length, attributes, state)
                               /\ pdu = ResponsePdu(h, attributes, state)
  <2>1. CASE from + length < Len(held)
    BY <1>3, <2>1 DEF PageIs
  <2>2. CASE ~(from + length < Len(held))
    <3>1. from + length >= Len(held)
      BY <1>4, <2>2
    <3>. QED BY <1>3, <2>2, <3>1 DEF PageIs
  <2>. QED BY <2>1, <2>2
<1>6. h.transaction_id = r.transaction_id
  BY DEF h
<1>7. pdu = ResponseBytes(r.transaction_id, Len(RegionBytes(attributes, state)),
                          attributes, state)
  BY <1>5, <1>6 DEF ResponsePdu, ResponseBytes, PduBytes, RegionBytes
<1>8. AnswerIs(pdu, r.transaction_id, attributes, state)
  BY <1>5, <1>7, PageIsAnswer
<1>. QED BY <1>5, <1>8

-----------------------------------------------------------------------------
(* The inductive invariant.                                                   *)

\* A call of send_and_receive_pdu is under way exactly while the query awaits it,
\* and an error of the call is the end of the query.
Together ==
  /\ pc \in {"query", "await", "done"}
  /\ pc = "await" <=> phase \in {"write", "header", "body"}
  /\ phase \in {"io", "timeout"} => pc = "done"

\* What the query asks for next, or has asked for.
NextRequest ==
  [transaction_id     |-> transaction_id,
   service_uuid16     |-> service,
   continuation_state |-> continuation_state]

QueryInv ==
  /\ service \in Services
  /\ pc # "done" => Asks(NextRequest)
  /\ pc = "await" => request = NextRequest

\* The bytes of the request, those of the stream not read yet, and the stages of
\* an exchange: the request is on its way or heard in full, and nothing has come;
\* or it has been answered, and what is read and unread together is the answer.
Sent == RequestBytes(request)
Unread == SubSeq(stream, pos + 1, Len(stream))

Silent == pos = Len(stream) /\ header = <<>> /\ body = <<>>
Asked == Unheard = Sent /\ Silent
Answered == Unheard = <<>> /\ (header \o body) \o Unread \in Answers(Sent)

BytesInv ==
  /\ wire \in Seq(Byte) /\ heard \in 0..Len(wire)
  /\ stream \in Seq(Byte) /\ arrived \in 0..Len(stream) /\ pos \in 0..arrived
  /\ header \in Seq(Byte) /\ body \in Seq(Byte)

SocketInv ==
  /\ phase \in {"idle", "write", "header", "body", "io", "timeout"}
  /\ phase \notin {"io", "timeout"} => BytesInv
  /\ phase = "idle" => Unheard = <<>> /\ Silent
  /\ phase = "write" =>
       /\ unwritten \in 1..Len(Sent)
       /\ Unheard = SubSeq(Sent, 1, Len(Sent) - unwritten)
       /\ Silent
  /\ phase = "header" =>
       Len(header) <= PDU_HEADER_LEN /\ body = <<>> /\ (Asked \/ Answered)
  /\ phase = "body" =>
       /\ Len(header) = PDU_HEADER_LEN
       /\ Len(body) <= Stream!Declared(header)
       /\ Answered

EInv == Together /\ QueryInv /\ SocketInv

-----------------------------------------------------------------------------
(* Facts that follow from it.                                                 *)

LEMMA AskedIs ==
  ASSUME EInv, pc = "await"
  PROVE  /\ Asks(request) /\ request \in QueryRequest
         /\ request.service_uuid16 = service
         /\ request.transaction_id = transaction_id
         /\ request.continuation_state = continuation_state
BY DEF EInv, QueryInv, NextRequest, Asks

LEMMA DeclaredIs ==
  ASSUME NEW h \in Seq(Byte), Len(h) = PDU_HEADER_LEN
  PROVE  /\ Stream!Declared(h) = 256 * h[4] + h[5] /\ Stream!Declared(h) \in Nat
<1>1. 4 \in 1..Len(h) /\ 5 \in 1..Len(h)
  BY DEF PDU_HEADER_LEN
<1>2. h[4] \in Byte /\ h[5] \in Byte
  BY <1>1
<1>3. h[4] \in Nat /\ h[5] \in Nat
  BY <1>2, ByteIsNat
<1>. QED BY <1>3 DEF Stream!Declared

\* The header of an answer, once it has been read.
LEMMA HeaderOfAnswer ==
  ASSUME EInv, phase = "body"
  PROVE  /\ HeaderIs(header, 7, request.transaction_id, Stream!Declared(header))
         /\ \E length, attributes, state :
              /\ length \in PageLengths
              /\ PageIs(request, length, attributes, state)
              /\ AnswerIs((header \o body) \o Unread, request.transaction_id,
                          attributes, state)
         /\ Len((header \o body) \o Unread) = PDU_HEADER_LEN + Stream!Declared(header)
<1>. DEFINE A == (header \o body) \o Unread
            id == request.transaction_id
<1>1. /\ A \in Answers(RequestBytes(request)) /\ BytesInv /\ pc = "await"
      /\ Len(header) = PDU_HEADER_LEN
  BY DEF EInv, Together, SocketInv, Answered, Sent
<1>2. PICK length, attributes, state :
        /\ length \in PageLengths
        /\ PageIs(request, length, attributes, state) /\ AnswerIs(A, id, attributes, state)
  BY <1>1, AskedIs, AnswersArePages
<1>3. header \in Seq(Byte) /\ body \in Seq(Byte) /\ Unread \in Seq(Byte)
  <2>1. stream \in Seq(Byte) /\ pos \in Nat /\ Len(stream) \in pos..Len(stream)
    BY <1>1 DEF BytesInv
  <2>. QED BY <1>1, <2>1, Part DEF BytesInv, Unread
<1>4. \A i \in 1..5 : A[i] = header[i]
  <2>1. /\ header \o body \in Seq(Byte) /\ Len(header \o body) = Len(header) + Len(body)
        /\ \A i \in 1..Len(header) : (header \o body)[i] = header[i]
    BY <1>3, Joined
  <2>2. \A i \in 1..Len(header \o body) : A[i] = (header \o body)[i]
    BY <1>3, <2>1, Joined
  <2>3. Len(header) = 5 /\ Len(body) \in Nat
    BY <1>1, <1>3 DEF PDU_HEADER_LEN
  <2>4. \A i \in 1..5 : i \in 1..Len(header) /\ i \in 1..Len(header \o body)
    BY <2>1, <2>3
  <2>. QED BY <2>1, <2>2, <2>4
<1>. HIDE DEF A, id
<1>5. /\ Len(A) = 5 + (256 * A[4] + A[5])
      /\ A[1] = 7 /\ 256 * A[2] + A[3] = id
  BY <1>2 DEF AnswerIs
<1>6. A[1] = header[1] /\ A[2] = header[2] /\ A[3] = header[3] /\ A[4] = header[4]
      /\ A[5] = header[5]
  BY <1>4
<1>7. Stream!Declared(header) = 256 * header[4] + header[5]
  BY <1>1, <1>3, DeclaredIs
<1>8. HeaderIs(header, 7, id, Stream!Declared(header))
  <2>1. Len(header) >= 5 /\ header[1] = 7 /\ 256 * header[2] + header[3] = id
    BY <1>1, <1>5, <1>6 DEF PDU_HEADER_LEN
  <2>. QED BY <1>3, <1>7, <2>1, HeaderReadBack
<1>9. Len(A) = PDU_HEADER_LEN + Stream!Declared(header)
  BY <1>5, <1>6, <1>7 DEF PDU_HEADER_LEN
<1>. QED BY <1>2, <1>8, <1>9 DEF A, id

\* When the body has been read, the answer has been read, and nothing else has.
LEMMA BodyOfAnswer ==
  ASSUME EInv, phase = "body", Stream!Wanted = 0
  PROVE  /\ pos = Len(stream)
         /\ \E length, attributes, state :
              /\ length \in PageLengths
              /\ PageIs(request, length, attributes, state)
              /\ AnswerIs(header \o body, request.transaction_id, attributes, state)
<1>. DEFINE p == header \o body
<1>1. BytesInv /\ Len(header) = PDU_HEADER_LEN
  BY DEF EInv, SocketInv
<1>2. Len(body) = Stream!Declared(header)
  <2>1. Stream!Declared(header) \in Nat /\ Len(body) \in Nat
    BY <1>1, DeclaredIs DEF BytesInv
  <2>. QED BY <2>1 DEF Stream!Wanted
<1>3. p \in Seq(Byte) /\ Len(p) = PDU_HEADER_LEN + Stream!Declared(header)
  <2>1. header \in Seq(Byte) /\ body \in Seq(Byte)
    BY <1>1 DEF BytesInv
  <2>2. p \in Seq(Byte) /\ Len(p) = Len(header) + Len(body)
    BY ONLY <2>1, Joined DEF p
  <2>. QED BY <1>1, <1>2, <2>2
<1>4. /\ stream \in Seq(Byte) /\ pos \in 0..Len(stream)
  BY <1>1 DEF BytesInv
<1>5. Unread \in Seq(Byte) /\ Len(Unread) = Len(stream) - pos
  <2>1. pos \in Nat /\ Len(stream) \in pos..Len(stream)
    BY <1>4
  <2>. QED BY <1>4, <2>1, Part DEF Unread
<1>6. Len(p \o Unread) = Len(p)
  BY <1>3, HeaderOfAnswer
<1>. HIDE DEF p
<1>7. Len(p \o Unread) = Len(p) + Len(Unread)
  BY <1>3, <1>5, Joined
<1>8. Len(Unread) = 0
  <2>1. Len(p) \in Nat /\ Len(Unread) \in Nat
    BY <1>3, <1>5
  <2>. QED BY <1>6, <1>7, <2>1
<1>9. pos = Len(stream)
  <2>1. pos \in Nat /\ Len(stream) \in Nat
    BY <1>4
  <2>. QED BY <1>5, <1>8, <2>1
<1>10. p \o Unread = p
  BY <1>3, <1>5, <1>8, EmptySeq, ConcatEmptySeq
<1>. QED BY <1>9, <1>10, HeaderOfAnswer DEF p

-----------------------------------------------------------------------------
(* It holds initially, and every step keeps it.                               *)

LEMMA InitTogether == ExchangeInit => Together
BY DEF ExchangeInit, Query!Init, Stream!Init, Together

LEMMA InitEInv == ExchangeInit => EInv
<1>. SUFFICES ASSUME ExchangeInit PROVE EInv
  OBVIOUS
<1>1. service \in Services /\ transaction_id = 0 /\ continuation_state = <<>> /\ pc = "query"
  BY DEF ExchangeInit, Query!Init
<1>2. Asks(NextRequest)
  <2>1. /\ NextRequest.transaction_id = 0 /\ NextRequest.service_uuid16 = service
        /\ NextRequest.continuation_state = <<>>
    BY <1>1 DEF NextRequest
  <2>2. 0 \in 0..U16_MAX /\ service \in 0..U16_MAX
    BY <1>1, ServicesAssumption, MaximaAreNat
  <2>3. <<>> \in Seq(Byte) /\ Len(<<>>) <= U8_MAX
    BY DEF U8_MAX
  <2>4. NextRequest \in QueryRequest
    BY <1>1, <2>2, <2>3 DEF NextRequest, QueryRequest
  <2>. QED BY <1>1, <2>1, <2>4 DEF Asks
<1>3. QueryInv
  BY <1>1, <1>2 DEF QueryInv
<1>4. /\ phase = "idle" /\ stream = <<>> /\ arrived = 0 /\ pos = 0 /\ header = <<>>
      /\ body = <<>> /\ wire = <<>> /\ heard = 0
  BY DEF ExchangeInit, Stream!Init
<1>5. Unheard = <<>>
  BY <1>4, SubSeqEmpty DEF Unheard
<1>6. BytesInv
  BY <1>4 DEF BytesInv
<1>7. SocketInv
  BY <1>4, <1>5, <1>6 DEF SocketInv, Silent
<1>. QED BY <1>3, <1>7, InitTogether DEF EInv

LEMMA ServerNextTogether == Together /\ [ServerNext]_vars => Together'
<1>. SUFFICES ASSUME Together, [ServerNext]_vars PROVE Together'
  OBVIOUS
<1>. USE DEF Together
<1>1. CASE QueryOnce
  <2>1. pc = "query" /\ phase \notin {"io", "timeout"}
    BY <1>1 DEF QueryOnce, Query!QueryOnce
  <2>2. CASE UNCHANGED socket /\ pc' = "done"
    BY <2>1, <2>2 DEF socket
  <2>3. ASSUME pc' = "await", NEW length, Stream!Call(length) PROVE Together'
    BY <2>3 DEF Stream!Call
  <2>. QED BY <1>1, <2>2, <2>3 DEF QueryOnce
<1>2. ASSUME NEW n, Write(n) PROVE Together'
  BY <1>2 DEF Write, Stream!Write, query
<1>3. CASE Await
  BY <1>3 DEF Await, Stream!Read, Stream!HeaderRead, query
<1>4. CASE Receive
  <2>1. phase = "body" /\ phase' = "idle"
    BY <1>4 DEF Receive, Stream!BodyRead
  <2>2. pc' \in {"query", "done"}
    BY <1>4 DEF Receive, Query!Fail, Query!ReceivePage, Query!ReceiveLastPage
  <2>. QED BY <2>1, <2>2
<1>5. CASE Fail
  <2>1. phase' \in {"io", "timeout"}
    BY <1>5 DEF Fail, Stream!Break, Stream!Expire
  <2>2. pc' = "done"
    BY <1>5 DEF Fail, Query!Fail
  <2>. QED BY <2>1, <2>2
<1>6. CASE UNCHANGED <<pc, phase>>
  BY <1>6
<1>7. CASE Tick \/ Disconnect \/ NetworkNext \/ Serve \/ Returned \/ UNCHANGED vars
  BY <1>6, <1>7
  DEF Tick, Stream!Tick, Disconnect, Stream!PeerCloses, NetworkNext, Arrive,
      Stream!Arrive, Serve, ServerAnswers, Stream!PeerWrites, Stream!client, Returned,
      vars, query, socket
<1>. QED
  BY <1>1, <1>2, <1>3, <1>4, <1>5, <1>7 DEF ServerNext, ClientNext, FaultNext

\* A step that changes neither the bytes nor the phase.
LEMMA SameBytes ==
  ASSUME SocketInv,
         UNCHANGED <<request, phase, unwritten, header, body, stream, pos, wire, heard>>,
         arrived' \in arrived..Len(stream)
  PROVE  SocketInv'
<1>1. Unheard' = Unheard /\ Unread' = Unread /\ Sent' = Sent /\ Silent' = Silent
  BY DEF Unheard, Unread, Sent, Silent
<1>2. Asked' = Asked /\ Answered' = Answered /\ Stream!Declared(header)' = Stream!Declared(header)
  <2>1. Answers(Sent)' = Answers(Sent)
    BY <1>1
  <2>. QED BY <1>1, <2>1 DEF Asked, Answered
<1>3. BytesInv => BytesInv'
  BY DEF BytesInv
<1>. QED BY <1>1, <1>2, <1>3 DEF SocketInv

\* A step of the query that changes nothing the query invariant is about.
LEMMA SameQuery ==
  ASSUME QueryInv, UNCHANGED query
  PROVE  QueryInv'
<1>1. NextRequest' = NextRequest
  BY DEF NextRequest, query
<1>2. Asks(NextRequest)' <=> Asks(NextRequest)
  BY <1>1 DEF Asks
<1>. QED BY <1>1, <1>2 DEF QueryInv, query

\* Once the connection has failed nothing is left to be kept.
LEMMA FailedBytes == phase \in {"io", "timeout"} => SocketInv
BY DEF SocketInv

LEMMA QueryOnceStep ==
  ASSUME EInv, QueryOnce
  PROVE  QueryInv' /\ SocketInv'
<1>1. /\ pc = "query" /\ phase = "idle" /\ Unheard = <<>> /\ Silent /\ BytesInv
      /\ Asks(NextRequest) /\ service \in Services
  BY DEF QueryOnce, Query!QueryOnce, EInv, Together, QueryInv, SocketInv
<1>2. /\ NextRequest' = NextRequest /\ UNCHANGED <<service, wire, heard>>
      /\ pc' = "await" => request' = NextRequest
  BY DEF QueryOnce, Query!QueryOnce, NextRequest
<1>3. Asks(NextRequest)'
  BY <1>1, <1>2 DEF Asks
<1>4. QueryInv'
  BY <1>1, <1>2, <1>3 DEF QueryInv
<1>5. CASE pc' = "done" /\ UNCHANGED socket
  <2>1. Unheard' = Unheard /\ Silent' = Silent /\ BytesInv' /\ phase' = "idle"
    BY <1>1, <1>2, <1>5 DEF Unheard, Silent, BytesInv, socket
  <2>2. SocketInv'
    BY <1>1, <2>1 DEF SocketInv
  <2>. QED BY <1>4, <2>2
<1>6. ASSUME NEW bytes \in encode(request'), pc' = "await", Stream!Call(Len(bytes))
      PROVE  SocketInv'
  <2>1. request' = NextRequest /\ NextRequest \in QueryRequest
    BY <1>1, <1>2, <1>6 DEF Asks
  <2>2. bytes = Sent' /\ Sent' = RequestBytes(NextRequest)
    BY <1>6, <2>1, RequestLayout DEF Sent
  <2>3. bytes \in Seq(Byte) /\ Len(bytes) >= 20
    BY <2>1, <2>2, RequestIsRead DEF RequestIs
  <2>4. /\ phase' = "write" /\ unwritten' = Len(bytes) /\ header' = <<>> /\ body' = <<>>
        /\ UNCHANGED <<pos, stream, arrived>>
    BY <1>6, <2>3 DEF Stream!Call, Stream!peer
  <2>5. Unheard' = Unheard /\ Silent' /\ BytesInv'
    BY <1>1, <1>2, <2>4 DEF Unheard, Silent, BytesInv
  <2>6. Len(bytes) - unwritten' = 0 /\ unwritten' \in 1..Len(bytes)
    BY <2>3, <2>4
  <2>7. SubSeq(bytes, 1, 0) = <<>>
    BY SubSeqEmpty
  <2>8. Unheard' = SubSeq(Sent', 1, Len(Sent') - unwritten')
    BY <1>1, <2>2, <2>5, <2>6, <2>7
  <2>. QED BY <2>2, <2>4, <2>5, <2>6, <2>8 DEF SocketInv
<1>. QED BY <1>4, <1>5, <1>6 DEF QueryOnce

LEMMA WriteStep ==
  ASSUME EInv, NEW n \in Cuts(unwritten), Write(n)
  PROVE  SocketInv'
<1>1. /\ phase = "write" /\ pc = "await" /\ BytesInv /\ Silent
      /\ unwritten \in 1..Len(Sent) /\ Unheard = SubSeq(Sent, 1, Len(Sent) - unwritten)
  BY DEF Write, Stream!Write, EInv, Together, SocketInv
<1>2. request \in QueryRequest
  BY <1>1, AskedIs
<1>3. Sent \in Seq(Byte) /\ encode(request) = {Sent}
  BY <1>2, RequestLayout, RequestIsRead DEF RequestIs, Sent
<1>4. /\ UNCHANGED <<request, header, body, pos, stream, arrived, heard>>
      /\ unwritten' = unwritten - n /\ Sent' = Sent
  BY DEF Write, Stream!Write, Stream!peer, query, Sent
<1>. DEFINE written == Len(Sent) - unwritten
            piece == SubSeq(Sent, written + 1, written + n)
<1>5. wire' = wire \o piece
  BY <1>3 DEF Write
<1>6. n \in 1..unwritten
  BY <1>1, PiecesAssumption DEF Cuts
<1>7. /\ Len(Sent) \in Nat /\ unwritten \in Nat /\ written \in Nat
      /\ written + n \in written..Len(Sent) /\ written \in 0..Len(Sent)
      /\ Len(Sent) - (unwritten - n) = written + n
  BY <1>1, <1>3, <1>6
<1>. HIDE DEF written
<1>8. piece \in Seq(Byte)
  BY <1>3, <1>7, Part
<1>9. SubSeq(Sent, 1, written) \o piece = SubSeq(Sent, 1, written + n)
  <2>1. 0 \in Nat /\ written \in 0..Len(Sent) /\ 0 + 1 = 1
    BY <1>7
  <2>2. SubSeq(Sent, 0 + 1, written) \o piece = SubSeq(Sent, 0 + 1, written + n)
    BY <1>3, <1>7, <2>1, Adjacent
  <2>. QED BY <2>1, <2>2
<1>. HIDE DEF piece
<1>10. Unheard' = SubSeq(Sent, 1, written + n)
  <2>1. SubSeq(wire \o piece, heard + 1, Len(wire \o piece))
          = SubSeq(wire, heard + 1, Len(wire)) \o piece
    BY <1>1, <1>8, TailOfJoined DEF BytesInv
  <2>2. Unheard' = Unheard \o piece
    BY <1>4, <1>5, <2>1 DEF Unheard
  <2>. QED BY <1>1, <1>9, <2>2 DEF written
<1>11. BytesInv'
  <2>1. wire' \in Seq(Byte) /\ Len(wire') = Len(wire) + Len(piece)
    BY <1>1, <1>5, <1>8, Joined DEF BytesInv
  <2>2. heard \in 0..Len(wire')
    BY <1>1, <1>8, <2>1 DEF BytesInv
  <2>. QED BY <1>1, <1>4, <2>1, <2>2 DEF BytesInv
<1>12. Silent'
  BY <1>1, <1>4 DEF Silent
<1>13. CASE n = unwritten
  <2>1. phase' = "header"
    BY <1>13 DEF Write, Stream!Write
  <2>2. written + n = Len(Sent)
    BY <1>7, <1>13
  <2>3. Unheard' = Sent'
    BY <1>3, <1>4, <1>10, <2>2, SubSeqFull
  <2>4. Asked' /\ body' = <<>> /\ Len(header') <= PDU_HEADER_LEN
    BY <1>12, <2>3 DEF Asked, Silent, PDU_HEADER_LEN
  <2>. QED BY <1>11, <2>1, <2>4 DEF SocketInv
<1>14. CASE n # unwritten
  <2>1. phase' = "write"
    BY <1>1, <1>14 DEF Write, Stream!Write
  <2>2. unwritten' \in 1..Len(Sent')
    BY <1>4, <1>6, <1>7, <1>14
  <2>3. Unheard' = SubSeq(Sent', 1, Len(Sent') - unwritten')
    BY <1>4, <1>7, <1>10
  <2>. QED BY <1>11, <1>12, <2>1, <2>2, <2>3 DEF SocketInv
<1>. QED BY <1>13, <1>14

LEMMA ReadStep ==
  ASSUME EInv, Stream!Read, UNCHANGED <<query, wire, heard>>
  PROVE  SocketInv'
<1>. DEFINE n == Stream!Taken
            chunk == Stream!Chunk
            rest == SubSeq(stream, (pos + n) + 1, Len(stream))
<1>1. /\ phase \in {"header", "body"} /\ pc = "await" /\ BytesInv
      /\ phase = "header" => Len(header) <= PDU_HEADER_LEN /\ body = <<>>
      /\ phase = "body" => /\ Len(header) = PDU_HEADER_LEN
                           /\ Len(body) <= Stream!Declared(header)
      /\ Asked \/ Answered
  BY DEF Stream!Read, EInv, Together, SocketInv
<1>2. /\ n > 0 /\ pos' = pos + n
      /\ UNCHANGED <<request, phase, unwritten, stream, arrived, wire, heard>>
  BY DEF Stream!Read, Stream!peer, query
<1>3. /\ wire \in Seq(Byte) /\ heard \in 0..Len(wire)
      /\ stream \in Seq(Byte) /\ Len(stream) \in Nat /\ arrived \in Nat /\ pos \in Nat
      /\ arrived <= Len(stream) /\ pos <= arrived
      /\ header \in Seq(Byte) /\ body \in Seq(Byte)
      /\ Len(header) \in Nat /\ Len(body) \in Nat
  BY <1>1 DEF BytesInv
<1>4. /\ Stream!Wanted \in Nat
      /\ phase = "header" => Stream!Wanted = PDU_HEADER_LEN - Len(header)
      /\ phase = "body" => Stream!Wanted = Stream!Declared(header) - Len(body)
  <2>1. phase = "body" => Stream!Declared(header) \in Nat
    BY <1>1, <1>3, DeclaredIs
  <2>2. PDU_HEADER_LEN \in Nat /\ Stream!PDU_HEADER_LEN = PDU_HEADER_LEN
    BY DEF PDU_HEADER_LEN, Stream!PDU_HEADER_LEN
  <2>. QED BY <1>1, <1>3, <2>1, <2>2 DEF Stream!Wanted
<1>5. n \in Nat /\ n <= Stream!Wanted /\ n <= arrived - pos
  BY <1>3, <1>4 DEF Stream!Taken
<1>6. Answered
  <2>1. Asked => pos = Len(stream)
    BY DEF Asked, Silent
  <2>. QED BY <1>1, <1>2, <1>3, <1>5, <2>1
<1>7. chunk = SubSeq(stream, pos + 1, pos + n)
  BY DEF Stream!Chunk
<1>. HIDE DEF n, chunk
<1>8. pos + n \in pos..Len(stream) /\ Len(stream) \in (pos + n)..Len(stream)
      /\ pos + n \in Nat /\ (pos + n) - pos = n
  BY <1>3, <1>5
<1>9. chunk \in Seq(Byte) /\ Len(chunk) = n
  BY <1>3, <1>7, <1>8, Part
<1>10. chunk \o rest = Unread
  BY <1>3, <1>7, <1>8, Adjacent DEF Unread
<1>11. rest \in Seq(Byte)
  BY <1>3, <1>8, Part
<1>12. Unread' = rest /\ Unheard' = Unheard /\ Sent' = Sent /\ Answers(Sent)' = Answers(Sent)
  BY <1>2 DEF Unread, Unheard, Sent
<1>. HIDE DEF rest
<1>13. pos' \in 0..arrived'
  BY <1>2, <1>3, <1>5
<1>14. CASE phase = "header" /\ header' = header \o chunk /\ UNCHANGED body
  <2>1. header' \in Seq(Byte) /\ Len(header') = Len(header) + n
    BY <1>3, <1>9, <1>14, Joined
  <2>2. Len(header') <= PDU_HEADER_LEN
    BY <1>3, <1>4, <1>5, <1>14, <2>1 DEF PDU_HEADER_LEN
  <2>3. (header' \o body') \o Unread' = (header \o body) \o Unread
    <3>1. body = <<>> /\ header \o body = header /\ header' \o body' = header'
      BY <1>1, <1>3, <1>14, <2>1, ConcatEmptySeq
    <3>2. (header \o chunk) \o rest = header \o (chunk \o rest)
      <4>1. header \in Seq(Byte)
        BY <1>3
      <4>. QED BY ONLY <4>1, <1>9, <1>11, Associative
    <3>. QED BY <1>10, <1>12, <1>14, <3>1, <3>2
  <2>4. Answered'
    BY <1>6, <1>12, <2>3 DEF Answered
  <2>5. BytesInv'
    BY <1>1, <1>2, <1>13, <1>14, <2>1 DEF BytesInv
  <2>. QED BY <1>1, <1>2, <1>14, <2>2, <2>4, <2>5 DEF SocketInv
<1>15. CASE phase = "body" /\ body' = body \o chunk /\ UNCHANGED header
  <2>1. body' \in Seq(Byte) /\ Len(body') = Len(body) + n
    BY <1>3, <1>9, <1>15, Joined
  <2>2. Len(body') <= Stream!Declared(header)'
    <3>1. Stream!Declared(header) \in Nat /\ Stream!Declared(header)' = Stream!Declared(header)
      BY <1>1, <1>3, <1>15, DeclaredIs DEF Stream!Declared
    <3>. QED BY <1>3, <1>4, <1>5, <1>15, <2>1, <3>1
  <2>3. (header' \o body') \o Unread' = (header \o body) \o Unread
    <3>1. header \o body \in Seq(Byte)
      BY <1>3, Joined
    <3>2. (header \o body) \o chunk = header \o (body \o chunk)
      <4>1. header \in Seq(Byte) /\ body \in Seq(Byte)
        BY <1>3
      <4>. QED BY ONLY <4>1, <1>9, Associative
    <3>3. ((header \o body) \o chunk) \o rest = (header \o body) \o (chunk \o rest)
      BY ONLY <1>9, <1>11, <3>1, Associative
    <3>. QED BY <1>10, <1>12, <1>15, <3>2, <3>3
  <2>4. Answered'
    BY <1>6, <1>12, <2>3 DEF Answered
  <2>5. BytesInv'
    BY <1>1, <1>2, <1>13, <1>15, <2>1 DEF BytesInv
  <2>. QED BY <1>1, <1>2, <1>15, <2>2, <2>4, <2>5 DEF SocketInv
<1>. QED BY <1>14, <1>15 DEF Stream!Read, chunk

LEMMA HeaderReadStep ==
  ASSUME EInv, Stream!HeaderRead, UNCHANGED <<query, wire, heard>>
  PROVE  SocketInv'
<1>1. /\ phase = "header" /\ phase' = "body" /\ Stream!Wanted = 0
      /\ BytesInv /\ Len(header) <= PDU_HEADER_LEN /\ body = <<>> /\ (Asked \/ Answered)
      /\ UNCHANGED <<request, header, body, stream, arrived, pos, wire, heard>>
  BY DEF Stream!HeaderRead, Stream!peer, EInv, SocketInv, query
<1>2. Len(header) \in Nat /\ header \in Seq(Byte)
  BY <1>1 DEF BytesInv
<1>3. Len(header) = PDU_HEADER_LEN
  BY <1>1, <1>2 DEF Stream!Wanted, Stream!PDU_HEADER_LEN, PDU_HEADER_LEN
<1>4. ~Asked
  BY <1>3 DEF Asked, Silent, PDU_HEADER_LEN
<1>5. /\ Unheard' = Unheard /\ Unread' = Unread /\ Sent' = Sent /\ BytesInv'
      /\ Answers(Sent)' = Answers(Sent)
  BY <1>1 DEF Unheard, Unread, Sent, BytesInv
<1>6. Answered'
  BY <1>1, <1>4, <1>5 DEF Answered
<1>7. Len(body') <= Stream!Declared(header)'
  <2>1. Stream!Declared(header) \in Nat /\ Stream!Declared(header)' = Stream!Declared(header)
    BY <1>1, <1>2, <1>3, DeclaredIs DEF Stream!Declared
  <2>2. Len(body') = 0
    BY <1>1
  <2>. QED BY <2>1, <2>2
<1>. QED BY <1>1, <1>3, <1>5, <1>6, <1>7 DEF SocketInv

\* What Receive takes from a body that has been read: a page of the server.
LEMMA ReceivedIsPage ==
  ASSUME EInv, Receive
  PROVE  /\ pc = "await" /\ phase = "body" /\ pos = Len(stream) /\ Unheard = <<>> /\ BytesInv
         /\ \E length, attributes, state :
              /\ length \in PageLengths
              /\ LET page == [attribute_bytes |-> attributes, continuation_state |-> state]
                 IN  /\ PageIs(request, length, attributes, state)
                     /\ Query!ReceivePage(page) \/ Query!ReceiveLastPage(page)
<1>1. phase = "body" /\ Stream!Wanted = 0
  BY DEF Receive, Stream!BodyRead
<1>2. pc = "await" /\ Unheard = <<>> /\ BytesInv
  BY <1>1 DEF EInv, Together, SocketInv, Answered
<1>3. PICK length, attributes, state :
        /\ length \in PageLengths
        /\ PageIs(request, length, attributes, state)
        /\ AnswerIs(header \o body, request.transaction_id, attributes, state)
  BY <1>1, BodyOfAnswer
<1>4. PICK raw : raw_response(header \o body) = {raw}
                 /\ raw.attribute_bytes = attributes /\ raw.continuation_state = state
  <2>1. PICK header_fields :
          raw_response(header \o body) = {[header             |-> header_fields,
                                           attribute_bytes    |-> attributes,
                                           continuation_state |-> state]}
    BY <1>3 DEF AnswerIs
  <2>. DEFINE raw == [header             |-> header_fields,
                      attribute_bytes    |-> attributes,
                      continuation_state |-> state]
  <2>2. raw.attribute_bytes = attributes /\ raw.continuation_state = state
    OBVIOUS
  <2>. HIDE DEF raw
  <2>. QED BY <2>1, <2>2 DEF raw
<1>. DEFINE page == [attribute_bytes |-> attributes, continuation_state |-> state]
<1>5. Query!ReceivePage(page) \/ Query!ReceiveLastPage(page)
  BY <1>4 DEF Receive
<1>. QED BY <1>1, <1>2, <1>3, <1>5, BodyOfAnswer

LEMMA ReceiveStep ==
  ASSUME EInv, Receive
  PROVE  QueryInv' /\ SocketInv'
<1>1. /\ pc = "await" /\ phase = "body" /\ pos = Len(stream) /\ Unheard = <<>> /\ BytesInv
  BY ReceivedIsPage
<1>2. /\ phase' = "idle" /\ header' = <<>> /\ body' = <<>>
      /\ UNCHANGED <<pos, stream, arrived, wire, heard>>
  BY DEF Receive, Stream!BodyRead, Stream!peer
<1>3. Unheard' = Unheard /\ Silent' /\ BytesInv'
  BY <1>1, <1>2 DEF Unheard, Silent, BytesInv
<1>4. SocketInv'
  BY <1>1, <1>2, <1>3 DEF SocketInv
<1>5. PICK length, attributes, state :
        /\ length \in PageLengths
        /\ LET page == [attribute_bytes |-> attributes, continuation_state |-> state]
           IN  /\ PageIs(request, length, attributes, state)
               /\ Query!ReceivePage(page) \/ Query!ReceiveLastPage(page)
  BY ReceivedIsPage
<1>. DEFINE page == [attribute_bytes |-> attributes, continuation_state |-> state]
<1>6. /\ Asks(request) /\ request.service_uuid16 = service /\ service \in Services
      /\ transaction_id \in 0..U16_MAX
  <2>1. transaction_id \in 0..U16_MAX
    BY <1>1, AskedIs DEF QueryRequest
  <2>. QED BY <1>1, <2>1, AskedIs DEF EInv, QueryInv
<1>7. CASE Query!ReceiveLastPage(page)
  <2>1. pc' = "done" /\ service' = service
    BY <1>7 DEF Query!ReceiveLastPage, Query!Accept
  <2>2. QueryInv'
    BY <1>6, <2>1 DEF QueryInv
  <2>. QED BY <1>4, <2>2
<1>8. CASE Query!ReceivePage(page)
  <2>1. /\ pc' = "query" /\ service' = service
        /\ continuation_state' = state
        /\ transaction_id' = (transaction_id + 1) % (U16_MAX + 1)
    BY <1>8 DEF Query!ReceivePage, Query!Accept, Query!NextTransactionId
  <2>2. transaction_id' \in 0..U16_MAX
    <3>1. /\ transaction_id + 1 \in Nat /\ U16_MAX + 1 \in Nat \ {0}
          /\ (U16_MAX + 1) - 1 = U16_MAX
      BY <1>6, MaximaAreNat
    <3>2. (transaction_id + 1) % (U16_MAX + 1) \in 0..((U16_MAX + 1) - 1)
      BY <3>1, DivMod
    <3>. QED BY <2>1, <3>1, <3>2
  <2>3. /\ state \in Seq(Byte) /\ Len(state) <= U8_MAX
        /\ \/ state = <<>>
           \/ \E n \in 1..(Len(AttributeBytes(service)) - 1) : state = Cont(n)
    BY <1>5, <1>6, PageFits
  <2>4. /\ NextRequest'.service_uuid16 = service /\ NextRequest'.continuation_state = state
    BY <2>1 DEF NextRequest
  <2>5. NextRequest' \in QueryRequest
    <3>1. service \in 0..U16_MAX
      BY <1>6, ServicesAssumption
    <3>. QED BY <2>1, <2>2, <2>3, <3>1 DEF NextRequest, QueryRequest
  <2>6. Asks(NextRequest)'
    BY <1>6, <2>3, <2>4, <2>5 DEF Asks
  <2>7. QueryInv'
    BY <1>6, <2>1, <2>6 DEF QueryInv
  <2>. QED BY <1>4, <2>7
<1>. QED BY <1>5, <1>7, <1>8

\* The server answers a request it has in full, and there is none but the last.
LEMMA ServeStep ==
  ASSUME EInv, Serve
  PROVE  SocketInv'
<1>1. PICK pdu, answer : /\ pdu \in Requested /\ answer \in Answers(pdu)
                         /\ ServerAnswers(pdu, answer)
  BY DEF Serve
<1>2. /\ heard' = heard + Len(pdu) /\ stream' = stream \o answer
      /\ UNCHANGED <<query, wire, phase, unwritten, header, body, pos, arrived>>
  BY <1>1 DEF ServerAnswers, Stream!PeerWrites, Stream!client
<1>3. CASE phase \in {"io", "timeout"}
  BY <1>2, <1>3 DEF SocketInv
<1>4. CASE phase = "idle"
  <2>1. Unheard = <<>>
    BY <1>4 DEF EInv, SocketInv
  <2>2. pdu_header(<<>>) = {}
    BY DEF pdu_header, PDU_HEADER_LEN
  <2>. QED BY <1>1, <2>1, <2>2 DEF Requested
<1>5. CASE phase \in {"write", "header", "body"}
  <2>1. pc = "await" /\ BytesInv
    BY <1>5 DEF EInv, Together, SocketInv
  <2>2. Asks(request) /\ request \in QueryRequest
    BY <2>1, AskedIs
  <2>3. Sent \in Seq(Byte) /\ Len(Sent) \in Nat /\ Len(Sent) >= 20
    BY <2>2, RequestIsRead DEF RequestIs, Sent
  <2>4. Asked /\ phase = "header"
    <3>1. CASE phase = "write"
      <4>1. unwritten \in 1..Len(Sent) /\ Unheard = SubSeq(Sent, 1, Len(Sent) - unwritten)
        BY <3>1 DEF EInv, SocketInv
      <4>2. Len(Sent) - unwritten \in Nat /\ Len(Sent) - unwritten < Len(Sent)
        BY <2>3, <4>1
      <4>3. Requested = {}
        BY <2>2, <4>1, <4>2, RequestedOfPart DEF Sent
      <4>. QED BY <1>1, <4>3
    <3>2. CASE Answered
      <4>1. Unheard = SubSeq(Sent, 1, 0)
        BY <3>2, SubSeqEmpty DEF Answered
      <4>2. Requested = {}
        BY <2>2, <2>3, <4>1, RequestedOfPart DEF Sent
      <4>. QED BY <1>1, <4>2
    <3>. QED BY <1>5, <3>1, <3>2 DEF EInv, SocketInv
  <2>5. pdu = Sent
    BY <1>1, <2>2, <2>4, RequestedInFull DEF Asked, Sent
  <2>6. answer \in Seq(Byte)
    BY <1>1, <2>2, <2>5, AnswersArePages DEF Sent, AnswerIs
  <2>7. Len(wire) - heard = Len(Sent)
    <3>1. wire \in Seq(Byte) /\ heard \in Nat /\ Len(wire) \in heard..Len(wire)
      BY <2>1 DEF BytesInv
    <3>2. Len(Unheard) = Len(wire) - heard
      BY <3>1, Part DEF Unheard
    <3>. QED BY <2>4, <3>2 DEF Asked
  <2>8. heard' = Len(wire)
    BY <1>2, <2>1, <2>3, <2>5, <2>7 DEF BytesInv
  <2>9. Unheard' = <<>>
    <3>1. Len(wire) + 1 > Len(wire)
      BY <2>1 DEF BytesInv
    <3>. QED BY <1>2, <2>8, <3>1, SubSeqEmpty DEF Unheard
  <2>10. Unread' = answer
    <3>1. pos = Len(stream) /\ stream \in Seq(Byte)
      BY <2>1, <2>4 DEF Asked, Silent, BytesInv
    <3>2. Len(stream) \in 0..Len(stream)
      BY <3>1
    <3>3. SubSeq(stream \o answer, Len(stream) + 1, Len(stream \o answer))
            = SubSeq(stream, Len(stream) + 1, Len(stream)) \o answer
      BY <2>6, <3>1, <3>2, TailOfJoined
    <3>4. SubSeq(stream, Len(stream) + 1, Len(stream)) = <<>>
      BY <3>1, SubSeqEmpty
    <3>. QED BY <1>2, <2>6, <3>1, <3>3, <3>4, ConcatEmptySeq DEF Unread
  <2>11. Sent' = Sent /\ Answers(Sent)' = Answers(Sent)
    BY <1>2 DEF Sent, query
  <2>12. header' = <<>> /\ body' = <<>> /\ (header' \o body') \o Unread' = answer
    BY <1>2, <2>4, <2>6, <2>10, ConcatEmptySeq DEF Asked, Silent
  <2>13. Answered'
    BY <1>1, <2>5, <2>9, <2>11, <2>12 DEF Answered
  <2>14. BytesInv'
    <3>1. stream' \in Seq(Byte) /\ Len(stream') = Len(stream) + Len(answer)
      BY <1>2, <2>1, <2>6, Joined DEF BytesInv
    <3>2. arrived' \in 0..Len(stream')
      BY <1>2, <2>1, <2>6, <3>1 DEF BytesInv
    <3>3. heard' \in 0..Len(wire')
      BY <1>2, <2>1, <2>8 DEF BytesInv
    <3>. QED BY <1>2, <2>1, <3>1, <3>2, <3>3 DEF BytesInv
  <2>15. Len(header') <= PDU_HEADER_LEN
    BY <2>12 DEF PDU_HEADER_LEN
  <2>. QED BY <1>2, <2>4, <2>12, <2>13, <2>14, <2>15 DEF SocketInv
<1>. QED BY <1>3, <1>4, <1>5 DEF EInv, SocketInv

\* After an error the stream is neither written nor read, and nothing of the query
\* changes.
LEMMA DroppedStep ==
  ASSUME Together, [ServerNext]_vars, phase \in {"io", "timeout"}
  PROVE  /\ UNCHANGED <<phase, pos, wire, query>>
         /\ pc = "done" /\ pc' = "done"
<1>1. pc = "done"
  BY DEF Together
<1>2. ~QueryOnce
  BY <1>1 DEF QueryOnce, Query!QueryOnce
<1>3. \A n : ~Write(n)
  BY DEF Write, Stream!Write
<1>4. ~Await
  BY DEF Await, Stream!Read, Stream!HeaderRead
<1>5. ~Receive
  BY DEF Receive, Stream!BodyRead
<1>6. ~Fail
  BY <1>1 DEF Fail, Query!Fail
<1>7. Tick \/ Disconnect \/ NetworkNext \/ Serve \/ Returned \/ UNCHANGED vars
  BY <1>2, <1>3, <1>4, <1>5, <1>6 DEF ServerNext, ClientNext, FaultNext
<1>. QED
  BY <1>1, <1>7
  DEF Tick, Stream!Tick, Disconnect, Stream!PeerCloses, NetworkNext, Arrive,
      Stream!Arrive, Serve, ServerAnswers, Stream!PeerWrites, Stream!client, Returned,
      vars, query, socket

LEMMA StepEInv == EInv /\ [ServerNext]_vars => EInv'
<1>. SUFFICES ASSUME EInv, [ServerNext]_vars PROVE EInv'
  OBVIOUS
<1>1. Together'
  BY ServerNextTogether DEF EInv
<1>2. ASSUME UNCHANGED query, SocketInv' PROVE QueryInv' /\ SocketInv'
  BY <1>2, SameQuery DEF EInv
<1>3. ASSUME UNCHANGED <<query, phase, unwritten, header, body, stream, pos, wire, heard>>,
             arrived' \in arrived..Len(stream)
      PROVE  QueryInv' /\ SocketInv'
  BY <1>2, <1>3, SameBytes DEF EInv, query
<1>4. ASSUME phase \in {"io", "timeout"} PROVE QueryInv' /\ SocketInv'
  <2>1. QueryInv'
    <3>1. UNCHANGED service /\ service \in Services
      BY <1>4, DroppedStep DEF EInv, QueryInv, query
    <3>2. pc' = "done"
      BY <1>4, DroppedStep DEF EInv
    <3>. QED BY <3>1, <3>2 DEF QueryInv
  <2>2. SocketInv'
    <3>1. phase' = phase
      BY <1>4, DroppedStep DEF EInv
    <3>. QED BY <1>4, <3>1 DEF SocketInv
  <2>. QED BY <2>1, <2>2
<1>5. ASSUME phase \notin {"io", "timeout"} PROVE QueryInv' /\ SocketInv'
  <2>1. /\ BytesInv /\ arrived \in Nat /\ Len(stream) \in Nat /\ arrived <= Len(stream)
        /\ arrived \in arrived..Len(stream)
    BY <1>5 DEF EInv, SocketInv, BytesInv
  <2>2. CASE QueryOnce
    BY <2>2, QueryOnceStep
  <2>3. ASSUME NEW n \in Cuts(unwritten), Write(n) PROVE QueryInv' /\ SocketInv'
    BY <1>2, <2>3, WriteStep DEF Write
  <2>4. CASE Await
    BY <1>2, <2>4, ReadStep, HeaderReadStep DEF Await
  <2>5. CASE Receive
    BY <2>5, ReceiveStep
  <2>6. CASE Fail
    <3>1. phase' \in {"io", "timeout"} /\ pc' = "done" /\ service' = service
      BY <2>6 DEF Fail, Stream!Break, Stream!Expire, Query!Fail
    <3>. QED BY <3>1 DEF EInv, QueryInv, SocketInv
  <2>7. CASE Tick \/ Disconnect \/ Returned \/ UNCHANGED vars
    BY <1>3, <2>1, <2>7
    DEF Tick, Stream!Tick, Disconnect, Stream!PeerCloses, Stream!client, Stream!peer,
        Returned, vars, socket
  <2>8. ASSUME NEW n \in Cuts(Len(stream) - arrived), Arrive(n)
        PROVE  QueryInv' /\ SocketInv'
    <3>1. n \in Nat /\ n <= Len(stream) - arrived
      BY <2>1, PiecesAssumption DEF Cuts
    <3>2. arrived' \in arrived..Len(stream)
      BY <2>1, <2>8, <3>1 DEF Arrive, Stream!Arrive
    <3>. QED BY <1>3, <2>8, <3>2 DEF Arrive, Stream!Arrive, Stream!client
  <2>9. CASE Serve
    <3>1. UNCHANGED query
      BY <2>9 DEF Serve, ServerAnswers
    <3>. QED BY <1>2, <2>9, <3>1, ServeStep
  <2>10. QueryInv' /\ SocketInv'
    BY <2>2, <2>3, <2>4, <2>5, <2>6, <2>7, <2>8, <2>9
    DEF ServerNext, ClientNext, FaultNext, NetworkNext
  <2>. QED BY <2>10
<1>. QED BY <1>1, <1>4, <1>5 DEF EInv

THEOREM Invariance == ServerSpec => []EInv
BY InitEInv, StepEInv, PTL DEF ServerSpec

-----------------------------------------------------------------------------
(* Properties.                                                                *)

\* Request and reply never get out of step: the PDU whose body is being read answers
\* the request that was written last, and between two calls nothing is left, of an
\* answer to read or of a request to be heard.
THEOREM InLockstep == ServerSpec => []Lockstep
<1>1. EInv => Lockstep
  <2>. SUFFICES ASSUME EInv PROVE Lockstep
    OBVIOUS
  <2>1. ASSUME phase = "body"
        PROVE  \E h \in pdu_header(header) :
                 h.pdu_id = 7 /\ h.transaction_id = request.transaction_id
    <3>. DEFINE h == [pdu_id           |-> 7,
                      transaction_id   |-> request.transaction_id,
                      parameter_length |-> Stream!Declared(header)]
    <3>1. pdu_header(header) = {h}
      BY <2>1, HeaderOfAnswer DEF HeaderIs
    <3>2. h.pdu_id = 7 /\ h.transaction_id = request.transaction_id
      OBVIOUS
    <3>. HIDE DEF h
    <3>. QED BY <3>1, <3>2
  <2>2. ASSUME phase = "idle" PROVE pos = Len(stream) /\ heard = Len(wire)
    <3>1. BytesInv /\ Unheard = <<>> /\ pos = Len(stream)
      BY <2>2 DEF EInv, SocketInv, Silent
    <3>2. wire \in Seq(Byte) /\ heard \in Nat /\ Len(wire) \in Nat /\ Len(wire) \in heard..Len(wire)
      BY <3>1 DEF BytesInv
    <3>3. Len(Unheard) = Len(wire) - heard
      BY <3>2, Part DEF Unheard
    <3>4. Len(Unheard) = 0
      BY <3>1
    <3>. QED BY <3>1, <3>2, <3>3, <3>4
  <2>. QED BY <2>1, <2>2 DEF Lockstep
<1>. QED BY <1>1, Invariance, PTL

LEMMA SameFirstChannel ==
  ASSUME NEW lists
  PROVE  Query!FirstChannel(lists) = Abstract!FirstChannel(lists)
BY DEF Query!FirstChannel, Query!SelectInSeq, Query!Min,
       Abstract!FirstChannel, Abstract!SelectInSeq, Abstract!Min

\* Byte for byte the client is that of SessionServer: of its steps each is a step
\* there or none at all. A page that is received is one the abstract server may
\* serve, however the bytes of the request and of the answer were cut.
THEOREM ImplementsServerSafety ==
  ServerSpec => Abstract!Init /\ [][Abstract!ServerNext]_(Abstract!vars)
<1>1. ExchangeInit => Abstract!Init
  BY DEF ExchangeInit, Query!Init, Abstract!Init
<1>2. ASSUME EInv, [ServerNext]_vars PROVE [Abstract!ServerNext]_(Abstract!vars)
  <2>1. CASE QueryOnce
    <3>1. Query!QueryOnce
      BY <2>1 DEF QueryOnce
    <3>2. Abstract!QueryOnce
      BY <3>1
      DEF Query!QueryOnce, Abstract!QueryOnce, Query!Encodable, Abstract!Encodable,
          Query!BodyLength, Abstract!BodyLength, Query!U8_MAX, Abstract!U8_MAX,
          Query!U16_MAX, Abstract!U16_MAX
    <3>. QED BY <3>2 DEF Abstract!ServerNext
  <2>2. CASE Receive
    <3>1. PICK length, attributes, state :
            /\ length \in PageLengths
            /\ LET page == [attribute_bytes |-> attributes, continuation_state |-> state]
               IN  /\ PageIs(request, length, attributes, state)
                   /\ Query!ReceivePage(page) \/ Query!ReceiveLastPage(page)
      BY <1>2, <2>2, ReceivedIsPage
    <3>. DEFINE page == [attribute_bytes |-> attributes, continuation_state |-> state]
    <3>2. pc = "await" /\ Asks(request) /\ request.service_uuid16 = service
      BY <1>2, <2>2, ReceivedIsPage, AskedIs
    <3>3. Abstract!Held = AttributeBytes(request.service_uuid16)
          /\ Abstract!Requested = From(request)
      BY <3>2 DEF Abstract!Held, Abstract!Requested, From
    <3>4. From(request) \in Nat /\ Len(Abstract!Held) \in Nat /\ length \in Nat \ {0}
      BY <3>1, <3>2, <3>3, HeldAssumption, PagesAssumption DEF Asks, From
    <3>5. page.continuation_state = state
      OBVIOUS
    <3>6. CASE /\ From(request) + length < Len(Abstract!Held)
               /\ attributes = Abstract!Slice(From(request) + length)
               /\ state = Cont(From(request) + length)
      <4>1. state # <<>>
        <5>1. From(request) + length \in 1..(Len(AttributeBytes(service)) - 1)
          BY <3>2, <3>3, <3>4, <3>6
        <5>. QED BY <1>2, <3>6, <5>1, HeldAssumption DEF EInv, QueryInv
      <4>2. Query!ReceivePage(page)
        BY <3>1, <3>5, <4>1 DEF Query!ReceiveLastPage
      <4>3. Abstract!ReceivePage(page)
        BY <4>2
        DEF Query!ReceivePage, Abstract!ReceivePage, Query!Accept, Abstract!Accept,
            Query!Joined, Abstract!Joined, Query!NextTransactionId,
            Abstract!NextTransactionId
      <4>4. Abstract!ServePage(length)
        BY <3>3, <3>6, <4>3 DEF Abstract!ServePage
      <4>. QED BY <3>1, <3>2, <4>4 DEF Abstract!Serve, Abstract!Exchange, Abstract!ServerNext
    <3>7. CASE /\ From(request) + length >= Len(Abstract!Held)
               /\ attributes = Abstract!Slice(Len(Abstract!Held))
               /\ state = <<>>
      <4>1. Query!ReceiveLastPage(page)
        BY <3>1, <3>5, <3>7 DEF Query!ReceivePage
      <4>2. Abstract!ReceiveLastPage(page)
        BY <4>1, SameFirstChannel
        DEF Query!ReceiveLastPage, Abstract!ReceiveLastPage, Query!Accept,
            Abstract!Accept, Query!Joined, Abstract!Joined
      <4>3. Abstract!ServeLastPage(length)
        BY <3>3, <3>7, <4>2 DEF Abstract!ServeLastPage
      <4>. QED BY <3>1, <3>2, <4>3 DEF Abstract!Serve, Abstract!Exchange, Abstract!ServerNext
    <3>. QED BY <3>1, <3>3, <3>6, <3>7 DEF PageIs, Abstract!Slice
  <2>3. CASE Fail
    <3>1. PICK error \in {"Io", "Timeout"} : Query!Fail(error)
      BY <2>3 DEF Fail
    <3>2. Abstract!Fail(error)
      BY <3>1 DEF Query!Fail, Abstract!Fail
    <3>. QED BY <3>2 DEF Abstract!Exchange, Abstract!SocketErrors, Abstract!ServerNext
  <2>4. CASE UNCHANGED query
    BY <2>4 DEF query, Abstract!vars
  <2>5. ASSUME NEW n, Write(n) PROVE UNCHANGED query
    BY <2>5 DEF Write
  <2>6. CASE Await \/ Returned \/ Tick \/ Disconnect \/ NetworkNext \/ Serve
             \/ UNCHANGED vars
    <3>1. UNCHANGED query
      BY <2>6 DEF Await, Returned, Tick, Disconnect, NetworkNext, Arrive, Serve,
                  ServerAnswers, vars
    <3>. QED BY <2>4, <3>1
  <2>. QED BY <1>2, <2>1, <2>2, <2>3, <2>4, <2>5, <2>6
           DEF ServerNext, ClientNext, FaultNext
<1>. QED BY <1>1, <1>2, Invariance, PTL DEF ServerSpec

\* An error ends the use of the stream: after it nothing is written or read, and no
\* page is taken.
THEOREM StreamIsDropped == ServerSpec => DroppedAfterError
<1>1. EInv /\ [ServerNext]_vars
        => [(phase \in {"io", "timeout"}) =>
              UNCHANGED <<phase, pos, wire, pages, outcome>>]_vars
  BY DroppedStep DEF EInv, query
<1>. QED BY <1>1, Invariance, PTL DEF ServerSpec, DroppedAfterError

-----------------------------------------------------------------------------
(* The calls on the wire are calls of module Socket: what SocketProofs proves  *)
(* of any peer is cited for the calls of a query.                              *)

Calls ==
  INSTANCE SocketProofs WITH
    RequestLengths <- Nat, Pdus <- {s \in Seq(Byte) : Len(s) >= PDU_HEADER_LEN},
    MaxPdus <- 0, MaxCalls <- 0

\* What is left behind by a call that failed: the server may still hear what has
\* been written of the request, and answer it.
Left ==
  phase \in {"io", "timeout"} =>
    /\ BytesInv /\ Asks(request)
    /\ \E k \in 0..Len(Sent) : Unheard = SubSeq(Sent, 1, k)

\* During a call and after one that failed the server may hear of the request, from
\* its beginning on.
LEMMA UnheardIsBeginning ==
  ASSUME EInv, Left, phase # "idle"
  PROVE  /\ BytesInv /\ Asks(request) /\ Len(Sent) \in Nat
         /\ \E k \in 0..Len(Sent) : Unheard = SubSeq(Sent, 1, k)
<1>1. BytesInv /\ Asks(request)
  <2>1. CASE phase \in {"io", "timeout"}
    BY <2>1 DEF Left
  <2>2. CASE phase \notin {"io", "timeout"}
    <3>1. pc = "await" /\ BytesInv
      BY <2>2 DEF EInv, SocketInv, Together
    <3>. QED BY <3>1, AskedIs
  <2>. QED BY <2>1, <2>2
<1>2. Sent \in Seq(Byte) /\ Len(Sent) \in Nat
  BY <1>1, RequestIsRead DEF Asks, RequestIs, Sent
<1>3. CASE phase \in {"io", "timeout"}
  BY <1>1, <1>2, <1>3 DEF Left
<1>4. CASE phase = "write"
  <2>1. unwritten \in 1..Len(Sent) /\ Unheard = SubSeq(Sent, 1, Len(Sent) - unwritten)
    BY <1>4 DEF EInv, SocketInv
  <2>2. Len(Sent) - unwritten \in 0..Len(Sent)
    BY <1>2, <2>1
  <2>. QED BY <1>1, <1>2, <2>1, <2>2
<1>5. CASE Unheard = <<>>
  <2>1. Unheard = SubSeq(Sent, 1, 0) /\ 0 \in 0..Len(Sent)
    BY <1>2, <1>5, SubSeqEmpty
  <2>. QED BY <1>1, <1>2, <2>1
<1>6. CASE Unheard = Sent
  <2>1. Unheard = SubSeq(Sent, 1, Len(Sent)) /\ Len(Sent) \in 0..Len(Sent)
    BY <1>2, <1>6, SubSeqFull
  <2>. QED BY <1>1, <1>2, <2>1
<1>. QED BY <1>3, <1>4, <1>5, <1>6 DEF EInv, SocketInv, Asked, Answered

\* What is served is the request of the last call, in full.
LEMMA ServedIs ==
  ASSUME EInv, Left, NEW pdu \in Requested, NEW answer \in Answers(pdu)
  PROVE  /\ phase # "idle"
         /\ pdu = Sent /\ Unheard = Sent /\ Asks(request) /\ BytesInv
         /\ answer \in Seq(Byte) /\ Len(answer) >= PDU_HEADER_LEN
         /\ Stream!WellFormed(answer)
<1>1. phase # "idle"
  <2>. SUFFICES ASSUME phase = "idle" PROVE FALSE
    OBVIOUS
  <2>1. Unheard = <<>>
    BY DEF EInv, SocketInv
  <2>2. pdu_header(<<>>) = {}
    BY DEF pdu_header, PDU_HEADER_LEN
  <2>. QED BY <2>1, <2>2 DEF Requested
<1>2. PICK k \in 0..Len(Sent) : Unheard = SubSeq(Sent, 1, k)
  BY <1>1, UnheardIsBeginning
<1>3. Asks(request) /\ request \in QueryRequest /\ BytesInv /\ Len(Sent) \in Nat
  BY <1>1, UnheardIsBeginning DEF Asks
<1>4. Sent \in Seq(Byte)
  BY <1>3, RequestIsRead DEF RequestIs, Sent
<1>5. k = Len(Sent)
  <2>. SUFFICES ASSUME k # Len(Sent) PROVE FALSE
    OBVIOUS
  <2>1. k \in Nat /\ k < Len(Sent)
    BY <1>3
  <2>2. Requested = {}
    BY <1>2, <1>3, <2>1, RequestedOfPart DEF Sent
  <2>. QED BY <2>2
<1>6. Unheard = Sent
  BY <1>2, <1>4, <1>5, SubSeqFull
<1>7. pdu = Sent
  BY <1>3, <1>6, RequestedInFull DEF Sent
<1>8. /\ answer \in Seq(Byte) /\ Len(answer) >= PDU_HEADER_LEN
      /\ Stream!WellFormed(answer)
  <2>1. /\ answer \in Seq(Byte) /\ Len(answer) >= 5
        /\ Len(answer) = 5 + (256 * answer[4] + answer[5])
    BY <1>3, <1>7, AnswersArePages DEF Sent, AnswerIs
  <2>. QED
    BY <2>1
    DEF PDU_HEADER_LEN, Stream!WellFormed, Stream!PDU_HEADER_LEN, Stream!Declared
<1>. QED BY <1>1, <1>3, <1>6, <1>7, <1>8

LEMMA LeftStep ==
  ASSUME EInv, Left, [ServerNext]_vars
  PROVE  Left'
<1>. SUFFICES ASSUME phase' \in {"io", "timeout"}
              PROVE  /\ BytesInv' /\ Asks(request)'
                     /\ \E k \in 0..Len(Sent') : Unheard' = SubSeq(Sent', 1, k)
  BY DEF Left
<1>1. ASSUME phase # "idle", UNCHANGED <<request, header, body, stream, pos, wire, heard>>,
             arrived' \in arrived..Len(stream)
      PROVE  /\ BytesInv' /\ Asks(request)'
             /\ \E k \in 0..Len(Sent') : Unheard' = SubSeq(Sent', 1, k)
  <2>1. BytesInv /\ Asks(request) /\ \E k \in 0..Len(Sent) : Unheard = SubSeq(Sent, 1, k)
    BY <1>1, UnheardIsBeginning
  <2>2. Sent' = Sent /\ Unheard' = Unheard /\ Asks(request)'
    BY <1>1, <2>1 DEF Sent, Unheard, Asks
  <2>3. BytesInv'
    BY <1>1, <2>1 DEF BytesInv
  <2>. QED BY <2>1, <2>2, <2>3
<1>2. phase # "idle" => BytesInv /\ arrived \in Nat /\ Len(stream) \in Nat
                        /\ arrived <= Len(stream) /\ arrived \in arrived..Len(stream)
  BY UnheardIsBeginning DEF BytesInv
<1>3. CASE Fail
  <2>1. /\ phase # "idle"
        /\ UNCHANGED <<request, header, body, stream, pos, wire, heard, arrived>>
    BY <1>3
    DEF Fail, Stream!Break, Stream!Expire, Stream!Wanted, Stream!peer, Query!Fail
  <2>. QED BY <1>1, <1>2, <2>1
<1>4. CASE ~Fail
  <2>1. phase \in {"io", "timeout"}
    BY <1>4
    DEF ServerNext, ClientNext, FaultNext, QueryOnce, Stream!Call, Write, Stream!Write,
        Await, Stream!Read, Stream!HeaderRead, Receive, Stream!BodyRead, Returned, Tick,
        Stream!Tick, Disconnect, Stream!PeerCloses, NetworkNext, Arrive, Stream!Arrive,
        Serve, ServerAnswers, Stream!PeerWrites, Stream!client, vars, socket
  <2>2. /\ UNCHANGED <<phase, pos, wire, query>> /\ pc = "done"
        /\ request' = request
    BY <2>1, DroppedStep DEF EInv, query
  <2>3. BytesInv /\ Asks(request) /\ Sent' = Sent /\ Asks(request)'
    BY <2>1, <2>2 DEF Left, Sent, Asks
  <2>4. CASE Serve
    <3>1. PICK pdu \in Requested : \E answer \in Answers(pdu) : ServerAnswers(pdu, answer)
      BY <2>4 DEF Serve
    <3>2. PICK answer \in Answers(pdu) : ServerAnswers(pdu, answer)
      BY <3>1
    <3>3. pdu = Sent /\ Unheard = Sent /\ answer \in Seq(Byte) /\ Len(Sent) \in Nat
      BY <2>1, <3>1, ServedIs, UnheardIsBeginning
    <3>4. /\ heard' = heard + Len(pdu) /\ stream' = stream \o answer
          /\ UNCHANGED <<header, body, arrived>>
      BY <3>2 DEF ServerAnswers, Stream!PeerWrites, Stream!client
    <3>5. wire \in Seq(Byte) /\ heard \in Nat /\ Len(wire) \in Nat /\ heard <= Len(wire)
      BY <2>3 DEF BytesInv
    <3>6. Len(Sent) = Len(wire) - heard
      <4>1. Len(wire) \in heard..Len(wire)
        BY <3>5
      <4>2. Len(Unheard) = Len(wire) - heard
        BY <3>5, <4>1, Part DEF Unheard
      <4>. QED BY <3>3, <4>2
    <3>7. heard' = Len(wire)
      BY <3>3, <3>4, <3>5, <3>6
    <3>8. Unheard' = SubSeq(Sent', 1, 0) /\ 0 \in 0..Len(Sent')
      <4>1. Len(wire) + 1 > Len(wire)
        BY <3>5
      <4>2. Unheard' = <<>>
        BY <2>2, <3>7, <4>1, SubSeqEmpty DEF Unheard
      <4>. QED BY <2>3, <3>3, <4>2, SubSeqEmpty
    <3>9. stream' \in Seq(Byte) /\ Len(stream') = Len(stream) + Len(answer)
      BY <2>3, <3>3, <3>4, Joined DEF BytesInv
    <3>10. arrived' \in 0..Len(stream') /\ heard' \in 0..Len(wire')
      BY <2>2, <2>3, <3>3, <3>4, <3>5, <3>7, <3>9 DEF BytesInv
    <3>11. BytesInv'
      BY <2>2, <2>3, <3>4, <3>9, <3>10 DEF BytesInv
    <3>. QED BY <2>3, <3>8, <3>11
  <2>5. ASSUME NEW n \in Cuts(Len(stream) - arrived), Arrive(n)
        PROVE  /\ BytesInv' /\ Asks(request)'
               /\ \E k \in 0..Len(Sent') : Unheard' = SubSeq(Sent', 1, k)
    <3>1. n \in Nat /\ n <= Len(stream) - arrived
      BY <1>2, <2>1, PiecesAssumption DEF Cuts
    <3>2. arrived' \in arrived..Len(stream)
      BY <1>2, <2>1, <2>5, <3>1 DEF Arrive, Stream!Arrive
    <3>3. UNCHANGED <<header, body, stream, heard>>
      BY <2>5 DEF Arrive, Stream!Arrive, Stream!client
    <3>. QED BY <1>1, <2>1, <2>2, <3>2, <3>3
  <2>6. CASE ~Serve /\ ~NetworkNext
    <3>1. UNCHANGED <<header, body, stream, heard, arrived>>
      BY <1>4, <2>1, <2>2, <2>6
      DEF ServerNext, ClientNext, FaultNext, QueryOnce, Query!QueryOnce, Write,
          Stream!Write, Await, Stream!Read, Stream!HeaderRead, Receive, Stream!BodyRead,
          Returned, Tick, Stream!Tick, Disconnect, Stream!PeerCloses, Stream!client, vars,
          socket
    <3>. QED BY <1>1, <1>2, <2>1, <2>2, <3>1
  <2>. QED BY <2>4, <2>5, <2>6 DEF NetworkNext
<1>. QED BY <1>3, <1>4

\* The assumptions of Socket.
LEMMA SocketAssumptionsHold ==
  /\ RESPONSE_TIMEOUT \in Nat \ {0}
  /\ Nat \subseteq Nat
  /\ {s \in Seq(Byte) : Len(s) >= PDU_HEADER_LEN}
       \subseteq {s \in Seq(Calls!Byte) : Len(s) >= Calls!PDU_HEADER_LEN}
BY ResponseTimeoutAssumption
DEF Byte, Calls!Byte, PDU_HEADER_LEN, Calls!PDU_HEADER_LEN

\* The instance has the steps of Stream.
LEMMA CallsAreStream ==
  /\ Calls!Init <=> Stream!Init
  /\ \A length : Calls!Call(length) <=> Stream!Call(length)
  /\ \A n : (Calls!Write(n) <=> Stream!Write(n)) /\ (Calls!Arrive(n) <=> Stream!Arrive(n))
  /\ Calls!Read <=> Stream!Read
  /\ Calls!HeaderRead <=> Stream!HeaderRead
  /\ Calls!BodyRead <=> Stream!BodyRead
  /\ Calls!Break <=> Stream!Break
  /\ Calls!Expire <=> Stream!Expire
  /\ Calls!Tick <=> Stream!Tick
  /\ \A p : Calls!PeerWrites(p) <=> Stream!PeerWrites(p)
  /\ Calls!PeerCloses <=> Stream!PeerCloses
  /\ UNCHANGED socket <=> UNCHANGED Calls!vars
<1>1. Calls!Wanted = Stream!Wanted
  BY DEF Calls!Wanted, Stream!Wanted, Calls!PDU_HEADER_LEN, Stream!PDU_HEADER_LEN,
         Calls!Declared, Stream!Declared
<1>2. Calls!Taken = Stream!Taken
  BY <1>1 DEF Calls!Taken, Stream!Taken
<1>3. Calls!Chunk = Stream!Chunk
  BY <1>2 DEF Calls!Chunk, Stream!Chunk
<1>4. Calls!Read <=> Stream!Read
  BY <1>2, <1>3 DEF Calls!Read, Stream!Read, Calls!peer, Stream!peer
<1>5. /\ Calls!HeaderRead <=> Stream!HeaderRead
      /\ Calls!BodyRead <=> Stream!BodyRead
  BY <1>1
  DEF Calls!HeaderRead, Stream!HeaderRead, Calls!BodyRead, Stream!BodyRead,
      Calls!peer, Stream!peer
<1>6. /\ Calls!Break <=> Stream!Break
      /\ Calls!Expire <=> Stream!Expire
      /\ Calls!Tick <=> Stream!Tick
  BY <1>1, <1>2
  DEF Calls!Break, Stream!Break, Calls!Expire, Stream!Expire, Calls!Tick, Stream!Tick,
      Calls!peer, Stream!peer
<1>7. /\ Calls!Init <=> Stream!Init
      /\ \A length : Calls!Call(length) <=> Stream!Call(length)
      /\ \A n : Calls!Write(n) <=> Stream!Write(n)
  BY DEF Calls!Init, Stream!Init, Calls!Call, Stream!Call, Calls!Write, Stream!Write,
         Calls!peer, Stream!peer
<1>8. /\ \A n : Calls!Arrive(n) <=> Stream!Arrive(n)
      /\ \A p : Calls!PeerWrites(p) <=> Stream!PeerWrites(p)
      /\ Calls!PeerCloses <=> Stream!PeerCloses
      /\ UNCHANGED socket <=> UNCHANGED Calls!vars
  BY DEF Calls!Arrive, Stream!Arrive, Calls!PeerWrites, Stream!PeerWrites,
         Calls!PeerCloses, Stream!PeerCloses, Calls!client, Stream!client, socket,
         Calls!vars
<1>. QED BY <1>4, <1>5, <1>6, <1>7, <1>8

\* Every step on the wire is one of a call, of its peer or of the network, or none.
LEMMA CallsStep ==
  ASSUME EInv, Left, [ServerNext]_vars
  PROVE  [Calls!Step]_(Calls!vars)
<1>1. ASSUME UNCHANGED socket PROVE [Calls!Step]_(Calls!vars)
  BY <1>1, CallsAreStream
<1>2. CASE QueryOnce
  <2>1. CASE UNCHANGED socket
    BY <1>1, <2>1
  <2>2. ASSUME NEW bytes \in encode(request'), pc' = "await", Stream!Call(Len(bytes))
        PROVE  Calls!Step
    <3>1. pc = "query" /\ phase = "idle" /\ Asks(NextRequest)
      BY <1>2 DEF QueryOnce, Query!QueryOnce, EInv, Together, QueryInv, SocketInv
    <3>2. request' = NextRequest /\ NextRequest \in QueryRequest
      BY <1>2, <2>2, <3>1 DEF QueryOnce, Query!QueryOnce, NextRequest, Asks
    <3>3. bytes = RequestBytes(NextRequest)
      BY <2>2, <3>2, RequestLayout
    <3>4. Len(bytes) \in Nat
      BY <3>2, <3>3, RequestIsRead DEF RequestIs
    <3>. QED BY <2>2, <3>1, <3>4, CallsAreStream DEF Calls!Step
  <2>. QED BY <1>2, <2>1, <2>2 DEF QueryOnce
<1>3. ASSUME NEW n \in Cuts(unwritten), Write(n) PROVE Calls!Step
  <2>1. Stream!Write(n) /\ phase = "write"
    BY <1>3 DEF Write, Stream!Write
  <2>2. unwritten \in Nat
    <3>1. unwritten \in 1..Len(Sent) /\ Len(Sent) \in Nat
      BY <2>1, UnheardIsBeginning DEF EInv, SocketInv
    <3>. QED BY <3>1
  <2>3. n \in 1..unwritten
    BY <2>2, PiecesAssumption DEF Cuts
  <2>. QED BY <2>1, <2>3, CallsAreStream DEF Calls!Step, Calls!Writes
<1>4. CASE Await
  BY <1>4, CallsAreStream DEF Await, Calls!Step
<1>5. CASE Receive
  BY <1>5, CallsAreStream DEF Receive, Calls!Step
<1>6. CASE Fail
  BY <1>6, CallsAreStream DEF Fail, Calls!Step
<1>7. CASE Tick \/ Disconnect
  BY <1>7, CallsAreStream DEF Tick, Disconnect, Calls!Step
<1>8. ASSUME NEW n \in Cuts(Len(stream) - arrived), Arrive(n) PROVE Calls!Step
  <2>1. arrived \in Nat /\ Len(stream) \in Nat /\ arrived <= Len(stream)
    <3>1. BytesInv
      BY UnheardIsBeginning DEF EInv, SocketInv
    <3>. QED BY <3>1 DEF BytesInv
  <2>2. n \in 1..(Len(stream) - arrived)
    BY <2>1, PiecesAssumption DEF Cuts
  <2>. QED BY <1>8, <2>2, CallsAreStream DEF Arrive, Calls!Step
<1>9. CASE Serve
  <2>1. PICK pdu \in Requested : \E answer \in Answers(pdu) : ServerAnswers(pdu, answer)
    BY <1>9 DEF Serve
  <2>. PICK answer \in Answers(pdu) : ServerAnswers(pdu, answer)
    BY <2>1
  <2>2. answer \in Seq(Byte) /\ Len(answer) >= PDU_HEADER_LEN
    BY <2>1, ServedIs
  <2>3. Stream!PeerWrites(answer)
    BY DEF ServerAnswers
  <2>. QED BY <2>2, <2>3, CallsAreStream DEF Calls!Step
<1>10. CASE Returned \/ UNCHANGED vars
  BY <1>1, <1>10 DEF Returned, vars
<1>. QED
  BY <1>2, <1>3, <1>4, <1>5, <1>6, <1>7, <1>8, <1>9, <1>10
  DEF ServerNext, ClientNext, FaultNext, NetworkNext

\* The calls of a query are calls of send_and_receive_pdu as module Socket has it.
THEOREM ImplementsSocket == ServerSpec => Calls!UnboundedSpec
<1>1. ExchangeInit => EInv /\ Left /\ Calls!Init
  BY InitEInv, CallsAreStream DEF ExchangeInit, Left, Stream!Init
<1>2. EInv /\ Left /\ [ServerNext]_vars => Left'
  BY LeftStep
<1>3. EInv /\ Left /\ [ServerNext]_vars => [Calls!Step]_(Calls!vars)
  BY CallsStep
<1>. QED BY <1>1, <1>2, <1>3, Invariance, PTL DEF ServerSpec, Calls!UnboundedSpec

\* What Socket's properties say of the calls of a query.
LEMMA CallsMean ==
  /\ Calls!NothingSkipped => Stream!NothingSkipped
  /\ Calls!CallBound => Stream!CallBound
  /\ Stream!PduArrived <=> Calls!PduArrived
  /\ \A k : Calls!Sent(k) = Stream!Sent(k)
BY DEF Calls!NothingSkipped, Stream!NothingSkipped, Calls!FlattenSeq, Stream!FlattenSeq,
       Calls!CallBound, Stream!CallBound, Calls!Sent, Stream!Sent,
       Calls!PduArrived, Stream!PduArrived, Calls!Begin, Stream!Begin,
       Calls!PDU_HEADER_LEN, Stream!PDU_HEADER_LEN, Calls!Declared, Stream!Declared

LEMMA CallsInvariance == ServerSpec => []Calls!IInv
<1>1. Calls!Init => Calls!IInv
  BY SocketAssumptionsHold, Calls!InitIInv
<1>2. Calls!IInv /\ [Calls!Step]_(Calls!vars) => Calls!IInv'
  BY SocketAssumptionsHold, Calls!StepIInv
<1>. QED BY <1>1, <1>2, ImplementsSocket, PTL DEF Calls!UnboundedSpec

\* Each call of a query ends within three times RESPONSE_TIMEOUT, the bound module
\* Query counts its exchanges with, and the calls read every byte of the stream once.
THEOREM WireCallsAreBounded ==
  ServerSpec => [](Stream!CallBound /\ Stream!NothingSkipped)
<1>1. Calls!IInv => Calls!CallBound
  BY DEF Calls!IInv, Calls!InTime
<1>2. Calls!Init => Calls!NothingSkipped
  BY SocketAssumptionsHold, Calls!InitSkipsNothing
<1>3. Calls!IInv /\ Calls!NothingSkipped /\ [Calls!Step]_(Calls!vars) => Calls!NothingSkipped'
  BY SocketAssumptionsHold, Calls!StepSkipsNothing
<1>. QED
  BY <1>1, <1>2, <1>3, CallsMean, CallsInvariance, ImplementsSocket, PTL
  DEF Calls!UnboundedSpec

\* The deadline and the last byte of an answer may race in a query too: the byte wins.
THEOREM WireAnswersInTimeAreReturned == ServerSpec => Stream!ArrivedPduWins
<1>1. Calls!IInv /\ [Calls!Step]_(Calls!vars)
        => [(Stream!PduArrived /\ phase \in {"header", "body"})
              => phase' # "timeout"]_(Stream!vars)
  BY SocketAssumptionsHold, CallsMean, Calls!StepNeedsMissingBytes
<1>. QED
  BY <1>1, CallsInvariance, ImplementsSocket, PTL
  DEF Calls!UnboundedSpec, Stream!ArrivedPduWins

\* Only the server writes to the stream.
LEMMA StepAnswersWellFormed ==
  ASSUME EInv, Left, Calls!IInv, Calls!AllWellFormed, [ServerNext]_vars
  PROVE  Calls!AllWellFormed'
<1>1. \/ UNCHANGED <<stream, ends>>
      \/ \E p \in {s \in Seq(Byte) : Len(s) >= PDU_HEADER_LEN} :
           Calls!WellFormed(p) /\ Calls!PeerWrites(p)
  <2>1. CASE Serve
    <3>1. PICK pdu \in Requested : \E answer \in Answers(pdu) : ServerAnswers(pdu, answer)
      BY <2>1 DEF Serve
    <3>. PICK answer \in Answers(pdu) : ServerAnswers(pdu, answer)
      BY <3>1
    <3>2. answer \in Seq(Byte) /\ Len(answer) >= PDU_HEADER_LEN /\ Stream!WellFormed(answer)
      BY <3>1, ServedIs
    <3>3. Calls!WellFormed(answer)
      BY <3>2
      DEF Calls!WellFormed, Stream!WellFormed, Calls!PDU_HEADER_LEN,
          Stream!PDU_HEADER_LEN, Calls!Declared, Stream!Declared
    <3>4. Calls!PeerWrites(answer)
      BY CallsAreStream DEF ServerAnswers
    <3>. QED BY <3>2, <3>3, <3>4
  <2>2. CASE ~Serve
    BY <2>2
    DEF ServerNext, ClientNext, FaultNext, QueryOnce, Stream!Call, Write, Stream!Write,
        Await, Stream!Read, Stream!HeaderRead, Receive, Stream!BodyRead, Returned, Tick,
        Stream!Tick, Fail, Stream!Break, Stream!Expire, Disconnect, Stream!PeerCloses,
        NetworkNext, Arrive, Stream!Arrive, Stream!peer, vars, socket
  <2>. QED BY <2>1, <2>2
<1>. QED BY <1>1, SocketAssumptionsHold, Calls!StepWellFormed

\* Each call returns the answer written for it, byte for byte, and is not one ahead
\* of the server: OnePduPerCall without the condition that the peer be well-formed.
THEOREM WireCallsReturnAnswers ==
  ServerSpec =>
    [](\A k \in 1..Len(returned) : k < Len(ends) /\ returned[k] = Stream!Sent(k))
<1>1. ExchangeInit => Left /\ Calls!AllWellFormed
  BY DEF ExchangeInit, Left, Stream!Init, Calls!AllWellFormed
<1>2. EInv /\ Left /\ [ServerNext]_vars => Left'
  BY LeftStep
<1>3. EInv /\ Left /\ Calls!IInv /\ Calls!AllWellFormed /\ [ServerNext]_vars
        => Calls!AllWellFormed'
  BY StepAnswersWellFormed
<1>4. Calls!IInv /\ Calls!AllWellFormed
        => \A k \in 1..Len(returned) : k < Len(ends) /\ returned[k] = Stream!Sent(k)
  BY SocketAssumptionsHold, CallsMean, Calls!EachCallReturnsItsPdu
<1>. QED BY <1>1, <1>2, <1>3, <1>4, Invariance, CallsInvariance, PTL DEF ServerSpec

-----------------------------------------------------------------------------
(* End to end.  What module SessionProofs proves of SessionServer is cited for *)
(* the server of this module, which has all that is assumed of one there.      *)

Impl ==
  INSTANCE SessionProofs WITH
    Channels <- Byte, DecodeChannels <- Decode, TidModulus <- U16_MAX + 1,
    Replies <- {}, MaxPages <- 0

\* The assumptions of Session and SessionServer, one by one.
LEMMA AssumptionsHold ==
  /\ {} \subseteq Impl!Page
  /\ NONE \notin Byte
  /\ U16_MAX + 1 \in Nat \ {0}
  /\ \A s \in Services :
       /\ AttributeBytes(s) \in Seq(Impl!Byte)
       /\ AttributeBytes(s) # <<>>
       /\ \A n \in 1..(Len(AttributeBytes(s)) - 1) :
             /\ Cont(n) \in Seq(Impl!Byte)
             /\ Cont(n) # <<>>
             /\ Len(Cont(n)) <= Impl!U8_MAX
             /\ Offset(Cont(n)) = n
  /\ \A s \in Services :
       LET lists == Decode(AttributeBytes(s))
       IN  lists # MALFORMED => lists \in Seq(Byte \cup {NONE})
  /\ /\ PageLengths \subseteq 1..Impl!MAXIMUM_ATTRIBUTE_BYTE_COUNT
     /\ PageLengths # {}
<1>1. NONE \notin Byte /\ U16_MAX + 1 \in Nat \ {0}
  BY NoChannelAssumption DEF Byte, U16_MAX
<1>2. Impl!Byte = Byte /\ Impl!U8_MAX = U8_MAX
  BY DEF Impl!Byte, Byte, Impl!U8_MAX, U8_MAX
<1>3. ASSUME NEW s \in Services, Decode(AttributeBytes(s)) # MALFORMED
      PROVE  Decode(AttributeBytes(s)) \in Seq(Byte \cup {NONE})
  <2>1. AttributeBytes(s) \in Seq(Byte)
    BY HeldAssumption
  <2>. QED BY <1>3, <2>1, DecodeIsTyped
<1>4. ASSUME NEW n \in PageLengths
      PROVE  n \in 1..Impl!MAXIMUM_ATTRIBUTE_BYTE_COUNT
  <2>1. n \in Nat \ {0} /\ 3 + n + U8_MAX <= U16_MAX
    BY PagesAssumption
  <2>2. Impl!MAXIMUM_ATTRIBUTE_BYTE_COUNT = U16_MAX
    BY DEF Impl!MAXIMUM_ATTRIBUTE_BYTE_COUNT, U16_MAX
  <2>. QED BY <2>1, <2>2, MaximaAreNat
<1>. QED BY <1>1, <1>2, <1>3, <1>4, HeldAssumption, PagesAssumption

LEMMA ImplInit == Impl!Init => Impl!SInv
BY AssumptionsHold, Impl!ServerInit

LEMMA ImplStep == Impl!SInv /\ [Impl!ServerNext]_(Impl!vars) => Impl!SInv'
BY AssumptionsHold, Impl!ServerStep

LEMMA ImplPromiseStep ==
  ASSUME Impl!SInv, [Impl!ServerNext]_(Impl!vars)
  PROVE  [Impl!Promise!Next]_(Impl!Promise!vars)
BY AssumptionsHold, Impl!PromiseStep

\* The two instances are the same specification.
LEMMA AbstractIsImpl ==
  /\ Abstract!Init <=> Impl!Init
  /\ [Abstract!ServerNext]_(Abstract!vars) <=> [Impl!ServerNext]_(Impl!vars)
<1>1. Abstract!Init <=> Impl!Init
  BY DEF Abstract!Init, Impl!Init
<1>2. Abstract!QueryOnce <=> Impl!QueryOnce
  BY DEF Abstract!QueryOnce, Impl!QueryOnce, Abstract!Encodable, Impl!Encodable,
         Abstract!BodyLength, Impl!BodyLength, Abstract!U8_MAX, Impl!U8_MAX,
         Abstract!U16_MAX, Impl!U16_MAX
<1>3. ASSUME NEW page
      PROVE  /\ Abstract!ReceivePage(page) <=> Impl!ReceivePage(page)
             /\ Abstract!ReceiveLastPage(page) <=> Impl!ReceiveLastPage(page)
  <2>1. Abstract!Accept(page) <=> Impl!Accept(page)
    BY DEF Abstract!Accept, Impl!Accept, Abstract!Joined, Impl!Joined
  <2>2. ASSUME NEW lists
        PROVE  Abstract!FirstChannel(lists) = Impl!FirstChannel(lists)
    BY DEF Abstract!FirstChannel, Abstract!SelectInSeq, Abstract!Min,
           Impl!FirstChannel, Impl!SelectInSeq, Impl!Min
  <2>. QED
    BY <2>1, <2>2
    DEF Abstract!ReceivePage, Impl!ReceivePage, Abstract!ReceiveLastPage,
        Impl!ReceiveLastPage, Abstract!NextTransactionId, Impl!NextTransactionId
<1>4. Abstract!Serve <=> Impl!Serve
  <2>1. Abstract!Held = Impl!Held /\ Abstract!Requested = Impl!Requested
        /\ \A n : Abstract!Slice(n) = Impl!Slice(n)
    BY DEF Abstract!Held, Impl!Held, Abstract!Requested, Impl!Requested,
           Abstract!Slice, Impl!Slice
  <2>. QED
    BY <1>3, <2>1
    DEF Abstract!Serve, Impl!Serve, Abstract!ServePage, Impl!ServePage,
        Abstract!ServeLastPage, Impl!ServeLastPage
<1>5. /\ \A error : Abstract!Fail(error) <=> Impl!Fail(error)
      /\ Abstract!Returned <=> Impl!Returned
      /\ Abstract!vars = Impl!vars /\ Abstract!vars' = Impl!vars'
      /\ Abstract!SocketErrors = Impl!SocketErrors
  BY DEF Abstract!Fail, Impl!Fail, Abstract!Returned, Impl!Returned, Abstract!vars,
         Impl!vars, Abstract!SocketErrors, Impl!SocketErrors
<1>. QED
  BY <1>1, <1>2, <1>4, <1>5
  DEF Abstract!ServerNext, Impl!ServerNext, Abstract!Exchange, Impl!Exchange

\* So the invariant of SessionProofs is one of the client on the wire.
THEOREM QueryInvariance == ServerSpec => []Impl!SInv
<1>1. Abstract!Init => Impl!SInv
  BY AbstractIsImpl, ImplInit
<1>2. Impl!SInv /\ [Abstract!ServerNext]_(Abstract!vars) => Impl!SInv'
  BY AbstractIsImpl, ImplStep
<1>. QED BY <1>1, <1>2, ImplementsServerSafety, PTL

\* What is collected on the wire is a prefix of what the server holds, and each
\* request asks for what follows it, in at most as many calls as that has bytes.
THEOREM WireReassembles == ServerSpec => [](Abstract!Reassembly /\ Abstract!PagesBounded)
<1>1. Impl!SInv => Impl!Reassembly /\ Impl!PagesBounded
  BY AssumptionsHold, Impl!CollectsTheAnswer
<1>2. /\ Impl!Reassembly => Abstract!Reassembly
      /\ Impl!PagesBounded => Abstract!PagesBounded
  BY DEF Impl!Reassembly, Abstract!Reassembly, Impl!PagesBounded, Abstract!PagesBounded,
         Impl!Held, Abstract!Held, Impl!Requested, Abstract!Requested,
         Impl!IsPrefix, Abstract!IsPrefix
<1>. QED BY <1>1, <1>2, QueryInvariance, PTL

\* The promise of module Lookup is kept from the first byte to the last: whatever
\* a caller sees of a query that is cut into pages, and these into bytes, is one
\* step, to the first channel of the records the server holds or to an error.
THEOREM WireKeepsPromise == ServerSpec => Abstract!PromiseKept
<1>1. Abstract!Init => Abstract!Promise!Init
  BY DEF Abstract!Init, Abstract!Promise!Init
<1>2. ASSUME Impl!SInv, [Abstract!ServerNext]_(Abstract!vars)
      PROVE  [Abstract!Promise!Next]_(Abstract!Promise!vars)
  <2>1. [Impl!Promise!Next]_(Impl!Promise!vars)
    BY <1>2, AbstractIsImpl, ImplPromiseStep
  <2>2. Impl!Promise!vars = Abstract!Promise!vars
        /\ Impl!Promise!vars' = Abstract!Promise!vars'
    BY DEF Impl!Promise!vars, Abstract!Promise!vars
  <2>3. Impl!Promise!Next => Abstract!Promise!Next
    BY DEF Impl!Promise!Next, Abstract!Promise!Next, Impl!Promise!Resolve,
           Abstract!Promise!Resolve, Impl!Promise!Fail, Abstract!Promise!Fail,
           Impl!Promise!IsFirstChannel, Abstract!Promise!IsFirstChannel,
           Impl!Answer, Abstract!Answer, Impl!SocketErrors, Abstract!SocketErrors
  <2>. QED BY <2>1, <2>2, <2>3
<1>. QED
  BY <1>1, <1>2, QueryInvariance, ImplementsServerSafety, PTL
  DEF Abstract!PromiseKept, Abstract!Promise!Spec

\* What is promised of a result that has been returned, as a state predicate.
Resolved ==
  /\ service \in Services
  /\ outcome = "Ok" =>
       /\ Decode(AttributeBytes(service)) # MALFORMED
       /\ Abstract!Promise!IsFirstChannel(channel, Decode(AttributeBytes(service)))

LEMMA PromiseResolves == Abstract!Promise!Spec => []Resolved
<1>1. Abstract!Promise!Init => Resolved
  BY DEF Abstract!Promise!Init, Resolved
<1>2. ASSUME Resolved, [Abstract!Promise!Next]_(Abstract!Promise!vars) PROVE Resolved'
  <2>1. CASE Abstract!Promise!Resolve
    BY <1>2, <2>1
    DEF Resolved, Abstract!Promise!Resolve, Abstract!Promise!IsFirstChannel,
        Abstract!Answer
  <2>2. CASE Abstract!Promise!Fail
    BY <1>2, <2>2 DEF Resolved, Abstract!Promise!Fail, Abstract!SocketErrors
  <2>3. CASE UNCHANGED Abstract!Promise!vars
    BY <1>2, <2>3
    DEF Resolved, Abstract!Promise!vars, Abstract!Promise!IsFirstChannel
  <2>. QED BY <1>2, <2>1, <2>2, <2>3 DEF Abstract!Promise!Next
<1>. QED BY <1>1, <1>2, PTL DEF Abstract!Promise!Spec

\* The first channel of the decoded records is one that a record advertises.
LEMMA ResolvedIsAdvertised == Resolved => OkIsAdvertised
<1>. SUFFICES ASSUME Resolved, outcome = "Ok"
              PROVE  \E records \in decode_attribute_lists(AttributeBytes(service)) :
                       IF channel = NONE
                         THEN \A i \in 1..Len(records) : Bare(records[i])
                         ELSE \E i \in 1..Len(records) :
                                /\ channel \in UNION Candidates(records[i])
                                /\ \A j \in 1..(i - 1) : Bare(records[j])
  BY DEF OkIsAdvertised
<1>. DEFINE b == AttributeBytes(service)
            D == Decode(b)
<1>1. b \in Seq(Byte) /\ D # MALFORMED /\ Abstract!Promise!IsFirstChannel(channel, D)
  BY HeldAssumption DEF Resolved
<1>. HIDE DEF b
<1>2. PICK records \in decode_attribute_lists(b) :
             D = [i \in 1..Len(records) |-> rfcomm_channel(records[i])]
  BY <1>1, DecodeIs
<1>3. Len(records) \in Nat
  BY <1>1, DecodedRecords
<1>. HIDE DEF D
<1>4. Len(D) = Len(records) /\ \A i \in 1..Len(records) : D[i] = rfcomm_channel(records[i])
  BY <1>2, <1>3
<1>5. ASSUME NEW i \in 1..Len(records)
      PROVE  /\ D[i] = NONE => Bare(records[i])
             /\ D[i] # NONE => D[i] \in UNION Candidates(records[i])
  <2>1. ChannelOk(records[i])
    BY <1>1, DecodedChannels
  <2>. QED BY <1>4, <2>1 DEF ChannelOk
<1>6. CASE channel = NONE /\ \A i \in 1..Len(D) : D[i] = NONE
  <2>1. \A i \in 1..Len(records) : Bare(records[i])
    BY <1>4, <1>5, <1>6
  <2>. QED BY <1>6, <2>1 DEF b
<1>7. ASSUME NEW i \in 1..Len(D), channel = D[i], channel # NONE,
             \A j \in 1..(i - 1) : D[j] = NONE
      PROVE  /\ i \in 1..Len(records)
             /\ channel \in UNION Candidates(records[i])
             /\ \A j \in 1..(i - 1) : Bare(records[j])
  <2>1. i \in 1..Len(records) /\ channel \in UNION Candidates(records[i])
    BY <1>4, <1>5, <1>7
  <2>2. ASSUME NEW j \in 1..(i - 1) PROVE Bare(records[j])
    <3>1. j \in 1..Len(records)
      BY <1>3, <2>1
    <3>. QED BY <1>5, <1>7, <3>1
  <2>. QED BY <2>1, <2>2
<1>8. \/ channel = NONE /\ \A i \in 1..Len(D) : D[i] = NONE
      \/ \E i \in 1..Len(D) : /\ channel = D[i] /\ channel # NONE
                             /\ \A j \in 1..(i - 1) : D[j] = NONE
  BY <1>1 DEF Abstract!Promise!IsFirstChannel
<1>9. CASE \E i \in 1..Len(D) : /\ channel = D[i] /\ channel # NONE
                              /\ \A j \in 1..(i - 1) : D[j] = NONE
  BY <1>7, <1>9 DEF b
<1>. QED BY <1>6, <1>8, <1>9

\* The channel a query returns is advertised by a record the server holds for the
\* service, and by none before it; no channel, by none at all: from the bytes the
\* server holds, through pages, PDUs and parsers, to the caller.
THEOREM ChannelIsTheServers == ServerSpec => []OkIsAdvertised
BY WireKeepsPromise, PromiseResolves, ResolvedIsAdvertised, PTL DEF Abstract!PromiseKept
=============================================================================
