--------------------------- MODULE ExchangeServer ---------------------------
(***************************************************************************)
(* Module Exchange with a server that keeps to the protocol, and all that  *)
(* it knows it has from the bytes it is sent: the service, the transaction *)
(* id and the continuation state are read from the request's PDU.  This is *)
(* the detailed specification; SessionServer, where a request and a page   *)
(* pass in one step, is the abstract one.                                  *)
(***************************************************************************)
EXTENDS Exchange

CONSTANTS
  AttributeBytes(_), \* as in SessionServer
  Cont(_),
  Offset(_),
  PageLengths

\* As in SessionServer.
ASSUME HeldAssumption ==
  \A s \in Services :
    /\ AttributeBytes(s) \in Seq(Byte)
    /\ AttributeBytes(s) # <<>>
    /\ \A n \in 1..(Len(AttributeBytes(s)) - 1) :
          /\ Cont(n) \in Seq(Byte)
          /\ Cont(n) # <<>>
          /\ Len(Cont(n)) <= U8_MAX
          /\ Offset(Cont(n)) = n

\* Pages make progress, and with the lengths of both their regions they fit in
\* the u16 a PDU declares its parameters with.
ASSUME PagesAssumption ==
  /\ PageLengths \subseteq Nat \ {0}
  /\ PageLengths # {}
  /\ \A n \in PageLengths : 3 + n + U8_MAX <= U16_MAX

\* service_uuid16 and the parameters of a request, as the server reads them.
ServiceOf(pdu) == BigEndian(SubSeq(pdu, 9, 10))
ParametersOf(pdu) == SubSeq(pdu, PDU_HEADER_LEN + 1, Len(pdu))

ResponsePdu(header_fields, attributes, state) ==
  LET parameters == U16(Len(attributes)) \o attributes \o <<Len(state)>> \o state
  IN  <<7>> \o U16(header_fields.transaction_id) \o U16(Len(parameters)) \o parameters

\* The pages a request may be answered with: they go on where its continuation
\* state says.
Answers(pdu) ==
  LET state == continuation_state_from_request_body(ParametersOf(pdu))
      from  == IF state = <<>> THEN 0 ELSE Offset(state)
      held  == AttributeBytes(ServiceOf(pdu))
      Page(n, next) ==
        {ResponsePdu(h, SubSeq(held, from + 1, n), next) : h \in pdu_header(pdu)}
  IN  UNION {IF from + length < Len(held)
               THEN Page(from + length, Cont(from + length))
               ELSE Page(Len(held), <<>>) : length \in PageLengths}

Serve == \E pdu \in Requested : \E answer \in Answers(pdu) : ServerAnswers(pdu, answer)

ServerNext == ClientNext \/ FaultNext \/ NetworkNext \/ Serve

ServerSpec == ExchangeInit /\ [][ServerNext]_vars /\ ClientFairness

-----------------------------------------------------------------------------
(* Properties *)

\* Byte for byte this is the client of SessionServer: what a call of
\* send_and_receive_pdu returns is the page asked for, however the bytes were cut
\* and whatever failed.  And the fairness SessionServer assumes of an exchange is
\* a fact here, by the timers alone: nothing is assumed of the other side.
Abstract == INSTANCE SessionServer WITH
  Channels <- Byte, DecodeChannels <- Decode, TidModulus <- U16_MAX + 1,
  Replies <- {}, MaxPages <- 0
ImplementsServer == Abstract!ServerSpec

\* Requests and replies never get out of step, although the client compares
\* neither the PDU id nor the transaction id of a reply with those of its request:
\* the PDU whose body is being read answers the request, and between two calls
\* nothing is left, neither of an answer to read nor of a request to be heard.
Lockstep ==
  /\ phase = "body" =>
       \E h \in pdu_header(header) :
         h.pdu_id = 7 /\ h.transaction_id = request.transaction_id
  /\ phase = "idle" => pos = Len(stream) /\ heard = Len(wire)

\* The channel of Ok is advertised by a record the server holds for the service,
\* in its protocol descriptor list, and no record before that one advertises any;
\* without a channel, no record does: first to last, through the pages, the bytes
\* and the parsers (the doc comment of find_rfcomm_channel).
OkIsAdvertised ==
  outcome = "Ok" =>
    \E records \in decode_attribute_lists(AttributeBytes(service)) :
      IF channel = NONE
        THEN \A i \in 1..Len(records) : Bare(records[i])
        ELSE \E i \in 1..Len(records) :
               /\ channel \in UNION Candidates(records[i])
               /\ \A j \in 1..(i - 1) : Bare(records[j])

\* After an error nothing more is written to the stream or read from it: the rest
\* of an answer that was cut off is never taken for the next one.
DroppedAfterError ==
  [][(phase \in {"io", "timeout"}) =>
       UNCHANGED <<phase, pos, wire, pages, outcome>>]_vars
=============================================================================
