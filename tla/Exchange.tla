------------------------------ MODULE Exchange ------------------------------
(***************************************************************************)
(* find_rfcomm_channel on the wire: the query of module Session, each of   *)
(* its exchanges a call of send_and_receive_pdu as in module Socket, the   *)
(* bytes in between those of encode and raw_response in module Codec.  A   *)
(* step of the client is a step of Session, of Socket, or of both at once. *)
(*                                                                         *)
(* The other side is a server that reads one request, header and           *)
(* parameters, writes one PDU, and goes on with the next request: the      *)
(* server task of the tests in session.rs.  What it writes is up to the    *)
(* modules that extend this one.                                           *)
(***************************************************************************)
EXTENDS Codec

CONSTANTS
  Services,         \* the service UUIDs a caller may ask for
  RESPONSE_TIMEOUT,
  Pieces            \* bound on how many bytes are accepted or arrive at once

ASSUME ServicesAssumption == Services \subseteq 0..U16_MAX
ASSUME PiecesAssumption == Pieces \subseteq Nat \ {0}
ASSUME ResponseTimeoutAssumption == RESPONSE_TIMEOUT \in Nat \ {0}

VARIABLES
  service, pc, transaction_id, attribute_bytes, continuation_state, request,
  outcome, channel, pages,                                      \* of Session
  phase, unwritten, header, body, elapsed, spent, returned,
  stream, ends, arrived, pos, closed,                           \* of Socket
  wire,   \* the bytes the client has written
  heard   \* how many of those the server has read

Query ==
  INSTANCE Session WITH
    Channels <- Byte, DecodeChannels <- Decode, TidModulus <- U16_MAX + 1,
    Replies <- {}, MaxPages <- 0

Stream ==
  INSTANCE Socket WITH RequestLengths <- {}, Pdus <- {}, MaxPdus <- 0, MaxCalls <- 0

query == <<service, pc, transaction_id, attribute_bytes, continuation_state,
           request, outcome, channel, pages>>
socket == <<phase, unwritten, header, body, elapsed, spent, returned,
            stream, ends, arrived, pos, closed>>
vars == <<query, socket, wire, heard>>

ExchangeInit == Query!Init /\ Stream!Init /\ wire = <<>> /\ heard = 0

-----------------------------------------------------------------------------
(* The client.  An operator no other definition uses is a mutant: the         *)
(* operator after it with a mistake in it.                                    *)

\* query_once: encode the request, and call send_and_receive_pdu with it.
QueryOnce ==
  /\ Query!QueryOnce
  /\ \/ \E bytes \in encode(request') : pc' = "await" /\ Stream!Call(Len(bytes))
     \/ pc' = "done" /\ UNCHANGED socket
  /\ UNCHANGED <<wire, heard>>

\* write_all: the next n bytes of the request.
Write(n) ==
  /\ Stream!Write(n)
  /\ \E bytes \in encode(request) :
       LET written == Len(bytes) - unwritten
       IN  wire' = wire \o SubSeq(bytes, written + 1, written + n)
  /\ UNCHANGED <<query, heard>>

\* The header and the body arrive.
Await ==
  /\ Stream!Read \/ Stream!HeaderRead
  /\ UNCHANGED <<query, wire, heard>>

Tick == Stream!Tick /\ UNCHANGED <<query, wire, heard>>

\* The PDU is complete: raw_response takes it apart, and the loop goes on.
Receive ==
  /\ Stream!BodyRead
  /\ \/ raw_response(header \o body) = {} /\ Query!Fail("Decode")
     \/ \E raw \in raw_response(header \o body) :
          LET page == [attribute_bytes    |-> raw.attribute_bytes,
                       continuation_state |-> raw.continuation_state]
          IN  Query!ReceivePage(page) \/ Query!ReceiveLastPage(page)
  /\ UNCHANGED <<wire, heard>>

\* The ? on the result of query_once.
Fail ==
  /\ \/ Stream!Break /\ Query!Fail("Io")
     \/ Stream!Expire /\ Query!Fail("Timeout")
  /\ UNCHANGED <<wire, heard>>

Returned == pc = "done" /\ UNCHANGED vars

-----------------------------------------------------------------------------
(* The server and the network                                                 *)

Unheard == SubSeq(wire, heard + 1, Len(wire))

\* The request the server has in full: its header, and as many bytes as that
\* declares.
Requested ==
  {SubSeq(Unheard, 1, PDU_HEADER_LEN + h.parameter_length) :
     h \in {h \in pdu_header(Unheard) :
              Len(Unheard) >= PDU_HEADER_LEN + h.parameter_length}}

\* The continuation state in the body of a request, found by the attribute id
\* list before it: its marker, four bytes of range, and the length of the state.
attribute_id_list_marker == <<53, 5, 10>>

continuation_state_from_request_body(parameters) ==
  LET marker_pos == Min({i \in 1..(Len(parameters) - 2) :
                           SubSeq(parameters, i, i + 2) = attribute_id_list_marker})
      after_attribute_id_list == marker_pos + Len(attribute_id_list_marker) + 4
  IN  SubSeq(parameters, after_attribute_id_list + 1, Len(parameters))

\* The server reads a request and writes its answer to it.
ServerAnswers(pdu, answer) ==
  /\ pdu \in Requested
  /\ heard' = heard + Len(pdu)
  /\ Stream!PeerWrites(answer)
  /\ UNCHANGED <<query, wire>>

\* What has been written arrives, or the connection is gone.
Arrive(n) == Stream!Arrive(n) /\ UNCHANGED <<query, wire, heard>>

Disconnect == Stream!PeerCloses /\ UNCHANGED <<query, wire, heard>>

-----------------------------------------------------------------------------

\* Where n bytes may be cut: after one of the Pieces, or not at all.
Cuts(n) == {k \in Pieces : k < n} \cup ({n} \ {0})

ClientNext ==
  \/ QueryOnce
  \/ \E n \in Cuts(unwritten) : Write(n)
  \/ Await
  \/ Receive
  \/ Returned

\* What may go wrong: a wait that times out, a connection that breaks.
FaultNext == Tick \/ Fail \/ Disconnect

NetworkNext == \E n \in Cuts(Len(stream) - arrived) : Arrive(n)

\* The runtime polls a task that can go on, its timers run and fire.  Nothing is
\* assumed of the server, of the network, or of the stream taking the request.
ClientFairness ==
  /\ WF_vars(QueryOnce)
  /\ WF_vars(Await)
  /\ WF_vars(Receive)
  /\ WF_vars(Tick)
  /\ WF_vars(Fail)
=============================================================================
