------------------------------ MODULE Session ------------------------------
(***************************************************************************)
(* find_rfcomm_channel (src/transport/session.rs): one SDP query over an   *)
(* open stream.  The client sends a ServiceSearchAttributeRequest, appends *)
(* the attribute bytes of each page it is sent, repeats the request with   *)
(* the continuation state of the page until a page carries none, and only  *)
(* then decodes what it has collected.                                     *)
(*                                                                         *)
(* One exchange (send_and_receive_pdu followed by raw_response) is one     *)
(* request and one reply here; module Socket has its bytes and its timers. *)
(* The peer of this module is free: it may send any reply of Replies, in   *)
(* any order, whatever was asked, because the client never looks at the    *)
(* PDU id nor at the transaction id of a reply.  SessionServer is the same *)
(* client against a server that keeps to the protocol.                     *)
(***************************************************************************)
EXTENDS Naturals, Sequences, SequencesExt

CONSTANTS
  Services,    \* the 16-bit service UUIDs a caller may ask for
  Channels,    \* RFCOMM channel numbers, the values of a u8
  NONE,        \* no channel: the None of Option<u8>
  MALFORMED,   \* a nom parse error
  Replies,     \* the pages a free peer may answer with
  DecodeChannels(_), \* decode_attribute_lists, each record reduced to the
                     \* result rfcomm_channel has for it
  TidModulus,  \* 2^16, the range of the u16 transaction id
  MaxPages     \* bound on the pages of a peer that never stops paging

Byte == 0..255
U8_MAX == 255
U16_MAX == 65535

\* The framing-only view of a response PDU: both regions are length-prefixed
\* on the wire, by a u16 and by a u8, so their lengths are bounded.
Page == [attribute_bytes    : {s \in Seq(Byte) : Len(s) <= U16_MAX},
         continuation_state : {s \in Seq(Byte) : Len(s) <= U8_MAX}]

\* The fields of ServiceSearchAttributeRequest that are not fixed.
Request == [transaction_id     : 0..(TidModulus - 1),
            service_uuid16     : Services,
            continuation_state : Seq(Byte)]

ASSUME RepliesAssumption == Replies \subseteq Page
ASSUME SentinelAssumption == NONE \notin Channels
ASSUME TidAssumption == TidModulus \in Nat \ {0}

VARIABLES
  service,             \* the argument service_uuid16
  pc,                  \* "query": about to call query_once, "await", "done"
  transaction_id,
  attribute_bytes,
  continuation_state,
  request,             \* the last request written, or NONE
  outcome,             \* "Pending", "Ok", or the error that was returned
  channel,             \* the Option<u8> of Ok
  pages                \* history: the pages accepted so far, in order

vars == <<service, pc, transaction_id, attribute_bytes, continuation_state,
          request, outcome, channel, pages>>

SocketErrors == {"Io", "Timeout"}
Outcomes == {"Pending", "Ok", "Encode", "Decode"} \cup SocketErrors

Init ==
  /\ service \in Services
  /\ pc = "query"
  /\ transaction_id = 0
  /\ attribute_bytes = <<>>
  /\ continuation_state = <<>>
  /\ request = NONE
  /\ outcome = "Pending"
  /\ channel = NONE
  /\ pages = <<>>

-----------------------------------------------------------------------------
(* Helpers.  An operator no other definition uses is a mutant: the operator   *)
(* after it with a mistake in it, kept to show that a property sees it.       *)

\* The body of a request: pattern (5), byte count (2), attribute id list (7),
\* and the continuation state behind its length byte.
BodyLength(cs) == 15 + Len(cs)

\* encode succeeds: both checked conversions do.
Encodable16(cs) == Len(cs) <= 16 /\ BodyLength(cs) <= U16_MAX
Encodable(cs) == Len(cs) <= U8_MAX /\ BodyLength(cs) <= U16_MAX

\* attribute_lists.iter().find_map(rfcomm_channel)
ChannelOfFirst(lists) == IF lists = <<>> THEN NONE ELSE lists[1]
FirstChannel(lists) ==
  LET i == SelectInSeq(lists, LAMBDA c : c # NONE)
  IN  IF i = 0 THEN NONE ELSE lists[i]

\* attribute_bytes.extend_from_slice
JoinedInFront(page) == page.attribute_bytes \o attribute_bytes
JoinedLastOnly(page) == page.attribute_bytes
Joined(page) == attribute_bytes \o page.attribute_bytes

\* transaction_id.wrapping_add(1)
NextTransactionIdNoWrap == transaction_id + 1
NextTransactionIdSame == transaction_id
NextTransactionId == (transaction_id + 1) % TidModulus

-----------------------------------------------------------------------------
(* Actions *)

\* query_once up to the write: build the request, encode it, send it.
QueryOnce ==
  /\ pc = "query"
  /\ IF Encodable(continuation_state)
       THEN /\ request' = [transaction_id     |-> transaction_id,
                           service_uuid16     |-> service,
                           continuation_state |-> continuation_state]
            /\ pc' = "await"
            /\ UNCHANGED outcome
       ELSE /\ outcome' = "Encode"
            /\ pc' = "done"
            /\ UNCHANGED request
  /\ UNCHANGED <<service, transaction_id, attribute_bytes, continuation_state,
                 channel, pages>>

\* Every page is appended, and its continuation state kept, before anything
\* else is decided.
AcceptForgetsState(page) ==
  /\ pc = "await"
  /\ attribute_bytes' = Joined(page)
  /\ pages' = Append(pages, page)
  /\ UNCHANGED <<service, continuation_state, request>>

Accept(page) ==
  /\ pc = "await"
  /\ attribute_bytes' = Joined(page)
  /\ continuation_state' = page.continuation_state
  /\ pages' = Append(pages, page)
  /\ UNCHANGED <<service, request>>

\* A page with a continuation state: the loop goes round once more.
ReceivePage(page) ==
  /\ page.continuation_state # <<>>
  /\ Accept(page)
  /\ transaction_id' = NextTransactionId
  /\ pc' = "query"
  /\ UNCHANGED <<outcome, channel>>

\* The page without one: decode what was collected, return the first channel.
ReceiveLastPage(page) ==
  /\ page.continuation_state = <<>>
  /\ Accept(page)
  /\ LET lists == DecodeChannels(attribute_bytes')
     IN  /\ outcome' = IF lists = MALFORMED THEN "Decode" ELSE "Ok"
         /\ channel' = IF lists = MALFORMED THEN NONE ELSE FirstChannel(lists)
  /\ pc' = "done"
  /\ UNCHANGED transaction_id

\* The exchange yields no page: send_and_receive_pdu fails ("Io", "Timeout")
\* or raw_response rejects the PDU ("Decode").
FailRetries(error) ==
  /\ pc = "await"
  /\ pc' = "query"
  /\ UNCHANGED <<service, transaction_id, attribute_bytes, continuation_state,
                 request, outcome, channel, pages>>

Fail(error) ==
  /\ pc = "await"
  /\ outcome' = error
  /\ pc' = "done"
  /\ UNCHANGED <<service, transaction_id, attribute_bytes, continuation_state,
                 request, channel, pages>>

\* find_rfcomm_channel has returned: the stream is dropped.
Returned == pc = "done" /\ UNCHANGED vars

\* The peer is free; MaxPages only keeps a peer that never stops paging finite.
Next ==
  \/ QueryOnce
  \/ \E page \in Replies : Len(pages) < MaxPages /\ ReceivePage(page)
  \/ \E page \in Replies : ReceiveLastPage(page)
  \/ \E error \in SocketErrors \cup {"Decode"} : Fail(error)
  \/ Returned

Spec == Init /\ [][Next]_vars

-----------------------------------------------------------------------------
(* Properties *)

\* Every variable has its type: the transaction id stays a u16, the request on
\* the wire is one encode can build, and a channel is returned only by Ok.
TypeOK ==
  /\ service \in Services
  /\ pc \in {"query", "await", "done"}
  /\ transaction_id \in 0..(TidModulus - 1)
  /\ attribute_bytes \in Seq(Byte)
  /\ continuation_state \in Seq(Byte)
  /\ request \in Request \cup {NONE}
  /\ outcome \in Outcomes
  /\ channel # NONE => outcome = "Ok"
  /\ pages \in Seq(Page)

\* The continuation state the next request has to carry: that of the last page,
\* or none at all when no page has come yet.
LastState == IF pages = <<>> THEN <<>> ELSE pages[Len(pages)].continuation_state

\* Each request echoes the continuation state of the page before it exactly,
\* carries the number of that page modulo 2^16 as its transaction id, and never
\* asks for more after a page that carried none (tests/fixtures/README.md,
\* single_page_response_makes_exactly_one_request).
RequestFollowsPages ==
  pc = "await" =>
    /\ request = [transaction_id     |-> Len(pages) % TidModulus,
                  service_uuid16     |-> service,
                  continuation_state |-> LastState]
    /\ \A i \in 1..Len(pages) : pages[i].continuation_state # <<>>

\* Whatever the peer sends, encode never fails in a query: a continuation state
\* that came through the one-byte length of a response fits that of a request.
EncodeNeverFails == outcome # "Encode"

\* Ok is returned for a complete answer only: the last page ended the paging, no
\* page before it did, and the channel is that of all pages joined in the order
\* in which they came.
OkMeansComplete ==
  outcome = "Ok" =>
    /\ pages # <<>>
    /\ \A i \in 1..Len(pages) :
          (pages[i].continuation_state = <<>>) <=> (i = Len(pages))
    /\ LET joined == FlattenSeq([i \in 1..Len(pages) |-> pages[i].attribute_bytes])
       IN  /\ DecodeChannels(joined) # MALFORMED
           /\ channel = FirstChannel(DecodeChannels(joined))

\* The doc comment of find_rfcomm_channel: the channel is that of the FIRST
\* matching record.  The code returns the first channel of any record.
ChannelOfFirstRecord ==
  outcome = "Ok" =>
    LET lists == DecodeChannels(attribute_bytes)
    IN  lists # <<>> => channel = lists[1]
=============================================================================
