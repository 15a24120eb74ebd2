----------------------------- MODULE CodecTests -----------------------------
(***************************************************************************)
(* The unit tests of src/codec, with module Codec in the place of the      *)
(* code: it has to pass what the code passes.  The input of a test is      *)
(* written as in the test, in hexadecimal.                                 *)
(***************************************************************************)
EXTENDS Codec, Fixtures

\* The byte, its type, and the fixed length it implies or else -1 and the bytes of
\* length that follow it.
DescriptorTests ==
  \A t \in {<<"00", 0, 0, 0>>, <<"08", 1, 1, 0>>, <<"0a", 1, 4, 0>>,
            <<"19", 3, 2, 0>>, <<"1c", 3, 16, 0>>,
            <<"35", 6, -1, 1>>, <<"36", 6, -1, 2>>, <<"27", 4, -1, 4>>} :
    LET byte == hex_decode(t[1])[1]
    IN  /\ ElementType(byte) = t[2]
        /\ LengthBytes(SizeIndex(byte)) = t[4]
        /\ t[4] = 0 => Fixed(t[2], SizeIndex(byte)) = t[3]

\* Without a byte there is no descriptor, and so no element.
NoDescriptorTest == Frame(hex_decode("")) = {}

PduHeaderTests ==
  /\ \A t \in {<<"0700000099dead", 7, 0, 153>>,
               <<"060000000f", 6, 0, 15>>,
               <<"0600010011", 6, 1, 17>>} :
       pdu_header(hex_decode(t[1])) =
         {[pdu_id |-> t[2], transaction_id |-> t[3], parameter_length |-> t[4]]}
  /\ \A truncated \in {"070000", ""} : pdu_header(hex_decode(truncated)) = {}

\* What data_element makes of the input, of all of it.
Parsed(s) == {parsed.element : parsed \in {p \in data_element(hex_decode(s)) : p.rest = <<>>}}

\* [L2CAP], [RFCOMM, channel], [OBEX]
ProtocolStack(channel) ==
  Sequence(<<Sequence(<<Uuid16(256)>>),
             Sequence(<<Uuid16(3), UnsignedInt(channel)>>),
             Sequence(<<Uuid16(8)>>)>>)

ElementTests ==
  /\ Parsed("08ff") = {UnsignedInt(255)}
  /\ Parsed("19112f") = {Uuid16(4399)}
  /\ Parsed("3503190100") = {Sequence(<<Uuid16(256)>>)}
  /\ Parsed("3505190003080d") = {Sequence(<<Uuid16(3), UnsignedInt(13)>>)}
  /\ Parsed("351135031901003505190003080d3503190008") = {ProtocolStack(13)}
  /\ Parsed("2801") = {Unknown}
  /\ Parsed("25026869") = {Unknown}
  /\ Parsed("35042801082a") = {Sequence(<<Unknown, UnsignedInt(42)>>)}
  /\ uuid16_value(hex_decode("112f")) = {4399}
  /\ uuid16_value(hex_decode("11")) = {}
  /\ \A bad \in {"", "35051901"} : data_element(hex_decode(bad)) = {}

\* find_attr: the value of the first attribute with the id.
find_attr(list, id) == SelectSeq(list, LAMBDA a : a[1] = id)[1][2]

\* A fixture of one record, decoded: its class and its protocols.
HasRecord(pdu, class, channel) ==
  \E raw \in raw_response(pdu) :
    /\ raw.continuation_state = <<>>
    /\ raw.header.pdu_id = 7 /\ raw.header.transaction_id = 0
    /\ \A outer \in data_element(raw.attribute_bytes) : outer.rest = <<>>
    /\ \E lists \in decode_attribute_lists(raw.attribute_bytes) :
         /\ Len(lists) = 1
         /\ find_attr(lists[1], 0) = UnsignedInt(1330184192 + class)
         /\ find_attr(lists[1], 1) = Sequence(<<Uuid16(class)>>)
         /\ find_attr(lists[1], 4) = ProtocolStack(channel)

ResponseTests ==
  /\ HasRecord(pbap_response, 4399, 13)
  /\ HasRecord(map_response, 4402, 2)
  /\ decode_attribute_lists(hex_decode("350835060800080008ff")) = {}
  /\ \E raw \in raw_response(browse_responses[1]) :
       /\ raw.continuation_state = <<0, 243>>
       /\ decode_attribute_lists(raw.attribute_bytes) = {}
  /\ \E raw \in raw_response(browse_responses[8]) : raw.continuation_state = <<>>

\* The channel of the first record of a response.
ChannelsOf(pdu) ==
  {rfcomm_channel(lists[1]) :
     lists \in UNION {decode_attribute_lists(raw.attribute_bytes) :
                        raw \in raw_response(pdu)}}

ExtractTests ==
  /\ ChannelsOf(pbap_response) = {13}
  /\ ChannelsOf(map_response) = {2}
  /\ rfcomm_channel(<<<<0, UnsignedInt(4660)>>>>) = NONE
  /\ rfcomm_channel(<<<<4, Sequence(<<Sequence(<<Uuid16(256)>>)>>)>>>>) = NONE
  /\ rfcomm_channel(<<<<4, UnsignedInt(255)>>>>) = NONE

\* The transaction id, the service, the continuation state, and the fixture.
EncodeTests ==
  /\ \A t \in {<<0, 4399, <<>>, pbap_request>>,
               <<0, 4402, <<>>, map_request>>,
               <<0, 4098, <<>>, browse_requests[1]>>,
               <<1, 4098, <<0, 243>>, browse_requests[2]>>} :
       encode([transaction_id |-> t[1], service_uuid16 |-> t[2],
               continuation_state |-> t[3]]) = {t[4]}
  /\ encode([transaction_id |-> 0, service_uuid16 |-> 4098,
             continuation_state |-> [i \in 1..256 |-> 0]]) = {}

\* An ErrorResponse of a server, PDU id 1 with an error code, is a decode error
\* (README, "malformed/error responses ... are surfaced as a decode error").
ErrorResponses ==
  \A code \in 0..U16_MAX :
    raw_response(<<1, 0, 0, 0, 2>> \o U16(code)) = {}

ASSUME DescriptorsAsTested == DescriptorTests /\ NoDescriptorTest
ASSUME PduHeadersAsTested == PduHeaderTests
ASSUME ElementsAsTested == ElementTests
ASSUME ResponsesAsTested == ResponseTests
ASSUME ExtractionAsTested == ExtractTests
ASSUME EncodingAsTested == EncodeTests
ASSUME ErrorsAsDocumented == ErrorResponses
=============================================================================
