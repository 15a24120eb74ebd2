------------------------------- MODULE Writer -------------------------------
(***************************************************************************)
(* The other side of the codec, for checking it: an SDP server that writes *)
(* data elements.  It puts down leaves and closes sequences over what it   *)
(* has put down last, with any of the three widths of length field, and    *)
(* keeps beside the bytes what they stand for.  The properties say that    *)
(* the parsers of module Codec get back exactly that, and nothing from     *)
(* less than all of it.                                                    *)
(***************************************************************************)
EXTENDS Codec

CONSTANTS
  Leaves,     \* elements that are not sequences: their bytes, and what they
              \* stand for, {} when the parser does not support them
  Widths,     \* widths of the length field of a sequence, in bytes
  MaxLeaves,  \* bound on the leaves put down
  MaxClosed,  \* bound on the sequences closed
  States,     \* continuation states of a page
  Junk        \* what may follow a complete element or PDU

\* A number of one, two or four bytes.
Number(bytes) ==
  CASE Len(bytes) = 1 -> bytes[1]
    [] Len(bytes) = 2 -> 256 * bytes[1] + bytes[2]
    [] Len(bytes) = 4 ->
         256 * (256 * (256 * bytes[1] + bytes[2]) + bytes[3]) + bytes[4]

\* An element that is not a sequence: a byte of type and size index, with the last
\* three indices a length, and a payload of that length or of the one the index
\* stands for.  The parser supports numbers of up to four bytes and short UUIDs, and
\* skips the types it does not know.
IsLeaf(leaf) ==
  LET bytes   == leaf.bytes
      type    == bytes[1] \div 8
      index   == bytes[1] % 8
      width   == <<0, 0, 0, 0, 0, 1, 2, 4>>[index + 1]
      size    == IF width > 0 THEN Number(SubSeq(bytes, 2, 1 + width))
                 ELSE IF bytes[1] = 0 THEN 0 ELSE <<1, 2, 4, 8, 16>>[index + 1]
      payload == SubSeq(bytes, 2 + width, Len(bytes))
  IN  /\ bytes \in Seq(Byte) /\ bytes # <<>>
      /\ Len(bytes) > width /\ Len(bytes) = 1 + width + size
      /\ type # SEQUENCE_TYPE
      /\ leaf.meaning =
           IF type = UINT_TYPE
             THEN IF size \in {1, 2, 4} THEN {UnsignedInt(Number(payload))} ELSE {}
           ELSE IF type = UUID_TYPE /\ index = 1 THEN {Uuid16(Number(payload))}
           ELSE {Unknown}

ASSUME LeavesAssumption == \A leaf \in Leaves : IsLeaf(leaf)
ASSUME WidthsAssumption == Widths \subseteq {1, 2, 4}
ASSUME StatesAssumption == \A s \in States : s \in Seq(Byte) /\ Len(s) <= U8_MAX
ASSUME JunkAssumption == \A j \in Junk : j \in Seq(Byte)

VARIABLES
  written,    \* [meaning, bytes] for each element not inside another one yet
  leaves,     \* how many leaves have been put down
  closed      \* how many sequences have been closed

vars == <<written, leaves, closed>>

Init == written = <<>> /\ leaves = 0 /\ closed = 0

\* The descriptor of a sequence and its length in w bytes, big-endian.
SequenceHeader(w, len) ==
  CASE w = 1 -> <<53, len>>
    [] w = 2 -> <<54>> \o U16(len)
    [] w = 4 -> <<55, 0, 0>> \o U16(len)

Bytes(items) == FlattenSeq([i \in 1..Len(items) |-> items[i].bytes])
Meaning(items) ==
  IF \E i \in 1..Len(items) : items[i].meaning = {}
    THEN {}
    ELSE {[i \in 1..Len(items) |-> CHOOSE e \in items[i].meaning : TRUE]}

Put(leaf) ==
  /\ written' = Append(written, leaf)
  /\ leaves' = leaves + 1
  /\ UNCHANGED closed

\* The last n elements become one sequence, if its length field can hold its length
\* (the two upper bytes of four are not used).
Close(n, w) ==
  LET kept  == SubSeq(written, 1, Len(written) - n)
      items == SubSeq(written, Len(written) - n + 1, Len(written))
  IN  /\ Len(Bytes(items)) <= IF w = 1 THEN U8_MAX ELSE U16_MAX
      /\ written' = Append(kept,
           [meaning |-> {Sequence(elements) : elements \in Meaning(items)},
            bytes   |-> SequenceHeader(w, Len(Bytes(items))) \o Bytes(items)])
      /\ closed' = closed + 1
      /\ UNCHANGED leaves

\* Everything has been put down and closed over.
Finished == leaves = MaxLeaves /\ closed = MaxClosed /\ UNCHANGED vars

Next ==
  \/ \E leaf \in Leaves : leaves < MaxLeaves /\ Put(leaf)
  \/ \E n \in 0..Len(written), w \in Widths : closed < MaxClosed /\ Close(n, w)
  \/ Finished

Spec == Init /\ [][Next]_vars

-----------------------------------------------------------------------------
(* Properties *)

\* The elements written, back to back, are read back as they are, whatever the
\* widths of their lengths and the kinds of the elements that are skipped.  One
\* element the parser does not support anywhere in it fails the whole.
RoundTrip == sequence_contents[Bytes(written)] = Meaning(written)

Latest == written[Len(written)]

\* An element is read as soon as it is complete and not a byte earlier: what
\* follows it is left over, and no part of it that a page may be cut at decodes
\* to anything (response.rs, "calling this on a single fragment page's bytes is
\* expected to fail").
CompleteOrMalformed ==
  written # <<>> =>
    /\ \A j \in Junk :
         data_element(Latest.bytes \o j) =
           {[rest |-> j, element |-> element] : element \in Latest.meaning}
    /\ \A k \in 0..(Len(Latest.bytes) - 1) :
         data_element(SubSeq(Latest.bytes, 1, k)) = {}

IsSequence(e) == e.kind = "Sequence"
IsListOfRecords(e) ==
  /\ IsSequence(e)
  /\ \A i \in 1..Len(e.elements) : IsSequence(e.elements[i])

\* The elements a list of attributes was made from.
Flat(list) ==
  FlattenSeq([i \in 1..Len(list) |-> <<UnsignedInt(list[i][1]), list[i][2]>>])

\* No attribute is dropped: when the attribute lists decode at all, the ids and
\* values, in order, are all the elements of the records.
NothingTruncated ==
  written # <<>> =>
    \A e \in Latest.meaning, lists \in decode_attribute_lists(Latest.bytes) :
      IsListOfRecords(e) =>
        e = Sequence([i \in 1..Len(lists) |-> Sequence(Flat(lists[i]))])

\* An answer of one record whose attributes are everything written.
Wrapped(bytes) == SequenceHeader(2, Len(bytes)) \o bytes
Answer == Wrapped(Wrapped(Bytes(written)))

\* A record's channel is one its protocol descriptor list advertises, whatever
\* else the record holds, and there is one whenever the list advertises any: an
\* entry with a channel that is none, or with no channel, does not end the search
\* (extract.rs).
ChannelIsAdvertised ==
  Len(Wrapped(Bytes(written))) <= U16_MAX =>
    \A lists \in decode_attribute_lists(Answer) :
      \A i \in 1..Len(lists) :
        LET c == rfcomm_channel(lists[i])
        IN  IF c = NONE
              THEN Bare(lists[i])
              ELSE c \in UNION Candidates(lists[i])

\* The PDU of a page of a response, as the server frames it.
Pdu(attributes, state) ==
  LET parameters == U16(Len(attributes)) \o attributes \o <<Len(state)>> \o state
  IN  <<7>> \o U16(1) \o U16(Len(parameters)) \o parameters

\* A page has to fit into the length the header of its PDU declares.
Fits(attributes, state) == 3 + Len(attributes) + Len(state) <= U16_MAX

\* The two regions the server put into the PDU, whatever follows it.
PageIsRead(attributes, state) ==
  \A j \in Junk :
    raw_response(Pdu(attributes, state) \o j) =
      {[header             |-> header,
        attribute_bytes    |-> attributes,
        continuation_state |-> state] : header \in pdu_header(Pdu(attributes, state))}

NoPartIsRead(pdu) == \A k \in 0..(Len(pdu) - 1) : raw_response(SubSeq(pdu, 1, k)) = {}

\* A page is taken apart into exactly the two regions the server put into it, with
\* the last element whole or cut anywhere (response.rs, raw_response: framing
\* only), and a PDU that is cut short is never accepted.
PageRoundTrip ==
  \A state \in States :
    /\ \A n \in 0..Len(Bytes(written)) :
         LET page == SubSeq(Bytes(written), 1, n)
         IN  Fits(page, state) => PageIsRead(page, state)
    /\ Fits(Bytes(written), state) => NoPartIsRead(Pdu(Bytes(written), state))

RequestWith(tid, service, state) ==
  [transaction_id |-> tid, service_uuid16 |-> service, continuation_state |-> state]

\* What is left of a request behind its pattern: byte count, range, state.
PatternIsRead(service, state, pattern) ==
  /\ pattern.element = Sequence(<<Uuid16(service)>>)
  /\ SubSeq(pattern.rest, 1, 2) = U16(U16_MAX)
  /\ data_element(SubSeq(pattern.rest, 3, Len(pattern.rest))) =
       {[rest    |-> <<Len(state)>> \o state,
         element |-> Sequence(<<UnsignedInt(U16_MAX)>>)]}

RequestIsRead(tid, service, state, pdu) ==
  /\ pdu_header(pdu) = {[pdu_id           |-> 6,
                         transaction_id   |-> tid,
                         parameter_length |-> Len(pdu) - PDU_HEADER_LEN]}
  /\ \E pattern \in data_element(SubSeq(pdu, 6, Len(pdu))) :
       PatternIsRead(service, state, pattern)

RequestsAreRead(tid, service, state) ==
  LET pdus == encode(RequestWith(tid, service, state))
  IN  /\ pdus = {} <=> Len(state) > U8_MAX
      /\ \A pdu \in pdus : RequestIsRead(tid, service, state, pdu)

\* A request is what the server's side of the same encoding reads: its header
\* declares the length it has, and behind the searched UUID, the byte count and
\* the range of attributes comes the continuation state, one of up to 255 bytes
\* that need not be elements.  A longer one is refused, not cut (encode.rs).
RequestRoundTrip ==
  \A state \in States : RequestsAreRead(258, 4399, state \o Bytes(written))

\* The README: a malformed answer is surfaced as a decode error.  The code
\* takes an answer that is no list of records for one with no channel in it.
MalformedIsDecodeError ==
  written # <<>> =>
    \A e \in Latest.meaning :
      Decode(Latest.bytes) # MALFORMED => IsListOfRecords(e)
=============================================================================
