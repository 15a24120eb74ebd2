------------------------------- MODULE Codec -------------------------------
(***************************************************************************)
(* The SDP codec (src/codec): what each parser and the one encoder of the  *)
(* program compute, on sequences of bytes.                                 *)
(*                                                                         *)
(* A fallible function (IResult, Result) is the set of what it returns by  *)
(* Ok: one value, or none at all when it fails, the kind of the error      *)
(* being discarded by every caller.  The ? operator is then a set over the *)
(* results of the parser before.                                           *)
(***************************************************************************)
EXTENDS Integers, Sequences, SequencesExt

CONSTANTS NONE, MALFORMED

ASSUME NoChannelAssumption == NONE \notin 0..255

Byte == 0..255
U8_MAX == 255
U16_MAX == 65535

\* be_u8, be_u16, be_u32 over exactly these bytes.
BigEndian(bytes) ==
  LET value[i \in 0..Len(bytes)] ==
        IF i = 0 THEN 0 ELSE 256 * value[i - 1] + bytes[i]
  IN  value[Len(bytes)]

-----------------------------------------------------------------------------
(* Data elements: descriptor.rs, element.rs.  An operator no other definition *)
(* uses is a mutant: the operator after it with a mistake in it.              *)

UINT_TYPE == 1
UUID_TYPE == 3
SEQUENCE_TYPE == 6

UnsignedInt(n) == [kind |-> "UnsignedInt", value |-> n]
Uuid16(n) == [kind |-> "Uuid16", value |-> n]
Sequence(s) == [kind |-> "Sequence", elements |-> s]
Unknown == [kind |-> "Unknown"]

ElementType(descriptor) == descriptor \div 8
SizeIndex(descriptor) == descriptor % 8

\* ElementSize::Fixed: the size index implies the length, only nil has none.
FixedNil(type, index) == <<1, 2, 4, 8, 16>>[index + 1]
Fixed(type, index) ==
  IF index = 0 /\ type = 0 THEN 0 ELSE <<1, 2, 4, 8, 16>>[index + 1]

\* VarLen8, VarLen16, VarLen32: how many bytes of length follow the descriptor.
LengthBytesTwice(index) == IF index < 5 THEN 0 ELSE 2 * (index - 5)
LengthBytes(index) == IF index < 5 THEN 0 ELSE <<1, 2, 4>>[index - 4]

\* The part every element has: descriptor, payload_len, take(len).
Frame(input) ==
  LET type  == ElementType(input[1])
      index == SizeIndex(input[1])
      start == 1 + LengthBytes(index)
      len   == IF index < 5 THEN Fixed(type, index)
                            ELSE BigEndian(SubSeq(input, 2, start))
  IN  IF input # <<>> /\ Len(input) >= start /\ Len(input) - start >= len
        THEN {[type  |-> type,
               index |-> index,
               body  |-> SubSeq(input, start + 1, start + len),
               rest  |-> SubSeq(input, start + len + 1, Len(input))]}
        ELSE {}

\* be_u16 of a body of exactly two bytes.
uuid16_value(body) == IF Len(body) = 2 THEN {BigEndian(body)} ELSE {}

\* The element in a frame; contents is what its body holds as a sequence.
Interpret(frame, contents) ==
  CASE frame.type = UINT_TYPE ->
         {UnsignedInt(n) : n \in IF Len(frame.body) \in {1, 2, 4}
                                  THEN {BigEndian(frame.body)} ELSE {}}
    [] frame.type = UUID_TYPE /\ frame.index = 1 ->
         {Uuid16(n) : n \in uuid16_value(frame.body)}
    [] frame.type = SEQUENCE_TYPE -> {Sequence(elements) : elements \in contents}
    [] OTHER -> {Unknown}

\* Element after element until nothing remains; data_element, which calls it
\* again for the contents of a sequence, is unfolded here.
sequence_contents[body \in Seq(Byte)] ==
  IF body = <<>>
    THEN {<<>>}
    ELSE UNION {{<<element>> \o others :
                   element \in Interpret(frame, sequence_contents[frame.body]),
                   others \in sequence_contents[frame.rest]} :
                frame \in Frame(body)}

data_element(input) ==
  UNION {{[rest |-> frame.rest, element |-> element] :
            element \in Interpret(frame, sequence_contents[frame.body])} :
         frame \in Frame(input)}

-----------------------------------------------------------------------------
(* Responses: pdu_header.rs, response.rs, extract.rs                          *)

PROTOCOL_DESCRIPTOR_LIST_ATTR_ID == 4
RFCOMM_UUID == 3

PDU_HEADER_LEN == 5
pdu_header(input) ==
  IF Len(input) >= PDU_HEADER_LEN
    THEN {[pdu_id           |-> input[1],
           transaction_id   |-> BigEndian(SubSeq(input, 2, 3)),
           parameter_length |-> BigEndian(SubSeq(input, 4, 5))]}
    ELSE {}

raw_responseTakesRest(input) ==
  LET at == 8 + BigEndian(SubSeq(input, 6, 7))
  IN  IF Len(input) >= 7 /\ Len(input) >= at
        THEN {[header             |-> header,
               attribute_bytes    |-> SubSeq(input, 8, at - 1),
               continuation_state |-> SubSeq(input, at + 1, Len(input))] :
              header \in pdu_header(input)}
        ELSE {}

\* Framing only: neither the fields of the header nor what follows the
\* continuation state is looked at.
raw_response(input) ==
  LET at == 8 + BigEndian(SubSeq(input, 6, 7)) \* of the length of the state
  IN  IF Len(input) >= 7 /\ Len(input) >= at /\ Len(input) >= at + input[at]
        THEN {[header             |-> header,
               attribute_bytes    |-> SubSeq(input, 8, at - 1),
               continuation_state |-> SubSeq(input, at + 1, at + input[at])] :
              header \in pdu_header(input)}
        ELSE {}

\* Pairs of an attribute id, a u16, and a value; anything else is rejected.
Pairs(elements) ==
  [i \in 1..(Len(elements) \div 2) |->
     <<elements[2 * i - 1].value, elements[2 * i]>>]

IsAttributeId(e) == e.kind = "UnsignedInt" /\ e.value <= U16_MAX

attribute_listTruncates(elements) ==
  IF \A i \in 1..(Len(elements) \div 2) : IsAttributeId(elements[2 * i - 1])
    THEN {Pairs(elements)} ELSE {}

attribute_listCutsIds(elements) ==
  IF /\ Len(elements) % 2 = 0
     /\ \A i \in 1..(Len(elements) \div 2) : elements[2 * i - 1].kind = "UnsignedInt"
    THEN {[i \in 1..(Len(elements) \div 2) |->
             <<elements[2 * i - 1].value % (U16_MAX + 1), elements[2 * i]>>]}
    ELSE {}

attribute_list(elements) ==
  IF /\ Len(elements) % 2 = 0
     /\ \A i \in 1..(Len(elements) \div 2) : IsAttributeId(elements[2 * i - 1])
    THEN {Pairs(elements)} ELSE {}

\* A record that is not a sequence has no attributes, an outer element that is
\* not one has no records, and what follows the outer element is left over.
\* One record that is rejected fails the whole.
RecordAttributes(record) ==
  IF record.kind = "Sequence" THEN attribute_list(record.elements) ELSE {<<>>}

AttributeLists(outer) ==
  IF outer.kind = "Sequence"
    THEN LET lists == [i \in 1..Len(outer.elements) |->
                         RecordAttributes(outer.elements[i])]
         IN  IF \E i \in 1..Len(lists) : lists[i] = {}
               THEN {}
               ELSE {[i \in 1..Len(lists) |-> CHOOSE list \in lists[i] : TRUE]}
    ELSE {<<>>}

decode_attribute_lists(attribute_bytes) ==
  UNION {AttributeLists(outer.element) : outer \in data_element(attribute_bytes)}

\* [Uuid16(RFCOMM_UUID), UnsignedInt(channel)], the channel within a u8.
IsRfcomm(entry) ==
  /\ entry.kind = "Sequence"
  /\ Len(entry.elements) = 2
  /\ entry.elements[1] = Uuid16(RFCOMM_UUID)
  /\ entry.elements[2].kind = "UnsignedInt"
  /\ entry.elements[2].value <= U8_MAX

\* The first entry for RFCOMM, and none when its channel is too wide.
rfcomm_channelOfFirstEntry(attributes) ==
  LET ids   == SelectInSeq(attributes,
                 LAMBDA a : a[1] = PROTOCOL_DESCRIPTOR_LIST_ATTR_ID)
      stack == attributes[ids][2].elements
      entry == SelectInSeq(stack, LAMBDA e :
                 e.kind = "Sequence" /\ Len(e.elements) = 2
                   /\ e.elements[1] = Uuid16(RFCOMM_UUID))
  IN  IF ids = 0 \/ attributes[ids][2].kind # "Sequence" \/ entry = 0
        THEN NONE
      ELSE IF /\ stack[entry].elements[2].kind = "UnsignedInt"
              /\ stack[entry].elements[2].value <= U8_MAX
        THEN stack[entry].elements[2].value
        ELSE NONE

\* find and find_map take the first attribute, the first entry that matches.
rfcomm_channel(attributes) ==
  LET ids   == SelectInSeq(attributes,
                 LAMBDA a : a[1] = PROTOCOL_DESCRIPTOR_LIST_ATTR_ID)
      value == attributes[ids][2]
      stack == value.elements
      entry == SelectInSeq(stack, IsRfcomm)
  IN  IF ids = 0 \/ value.kind # "Sequence" \/ entry = 0
        THEN NONE
        ELSE stack[entry].elements[2].value

\* What find_rfcomm_channel does with the collected bytes, record by record.
Decode(attribute_bytes) ==
  LET channels == {[i \in 1..Len(lists) |-> rfcomm_channel(lists[i])] :
                     lists \in decode_attribute_lists(attribute_bytes)}
  IN  IF channels = {} THEN MALFORMED ELSE CHOOSE c \in channels : TRUE

\* What a record advertises, for the properties: the channels in a value, were it
\* a protocol descriptor list, and those of each such list of the record.
Advertised(value) ==
  {c \in 0..U8_MAX :
     /\ value.kind = "Sequence"
     /\ Sequence(<<Uuid16(RFCOMM_UUID), UnsignedInt(c)>>)
          \in {value.elements[i] : i \in 1..Len(value.elements)}}

Candidates(list) ==
  {Advertised(list[j][2]) :
     j \in {k \in 1..Len(list) : list[k][1] = PROTOCOL_DESCRIPTOR_LIST_ATTR_ID}}

\* A record without such a list, or with one that has no channel.
Bare(list) == Candidates(list) = {} \/ {} \in Candidates(list)

-----------------------------------------------------------------------------
(* Requests: encode.rs                                                        *)

PDU_ID_SERVICE_SEARCH_ATTRIBUTE_REQUEST == 6
SEQUENCE_LEN_3 == 53
UUID16_DESCRIPTOR == 25
UINT32_DESCRIPTOR == 10

U16(n) == <<n \div 256, n % 256>>

\* The request's fixed fields have the values of find_rfcomm_channel: byte
\* count 0xffff, attribute range 0x0000ffff.
RequestBody(r) ==
  <<SEQUENCE_LEN_3, 3, UUID16_DESCRIPTOR>> \o U16(r.service_uuid16) \o <<255, 255>>
    \o <<SEQUENCE_LEN_3, 5, UINT32_DESCRIPTOR, 0, 0, 255, 255>>
    \o <<Len(r.continuation_state)>> \o r.continuation_state

RequestPdu(id, body, len) ==
  <<PDU_ID_SERVICE_SEARCH_ATTRIBUTE_REQUEST>> \o U16(id) \o U16(len) \o body

encodeCountsHeader(r) ==
  {RequestPdu(r.transaction_id, RequestBody(r), 5 + Len(RequestBody(r)))}

encodeFirstPage(r) ==
  LET body == RequestBody([r EXCEPT !.continuation_state = <<>>])
  IN  {RequestPdu(r.transaction_id, body, Len(body))}

encode(r) ==
  IF Len(r.continuation_state) <= U8_MAX /\ Len(RequestBody(r)) <= U16_MAX
    THEN {RequestPdu(r.transaction_id, RequestBody(r), Len(RequestBody(r)))}
    ELSE {}
=============================================================================
