--------------------------- MODULE SessionServer ---------------------------
(***************************************************************************)
(* The client of module Session against a server that keeps to the         *)
(* protocol, the one the fixtures of tests/fixtures were captured from.    *)
(* The server keeps no state: all it knows of a query is the continuation  *)
(* state in the request, which names how much of the attribute bytes has   *)
(* been sent.  It cuts the bytes into pages of any lengths in PageLengths. *)
(***************************************************************************)
EXTENDS Session

CONSTANTS
  AttributeBytes(_), \* the attribute lists the server holds for a service
  Cont(_),           \* the continuation state that names an offset
  Offset(_),         \* the offset a continuation state names
  PageLengths        \* how many attribute bytes a page may have

MAXIMUM_ATTRIBUTE_BYTE_COUNT == 65535

ASSUME ServerAssumption ==
  \A s \in Services :
    /\ AttributeBytes(s) \in Seq(Byte)
    /\ AttributeBytes(s) # <<>>
    /\ \A n \in 1..(Len(AttributeBytes(s)) - 1) :
          /\ Cont(n) \in Seq(Byte)
          /\ Cont(n) # <<>>
          /\ Len(Cont(n)) <= U8_MAX
          /\ Offset(Cont(n)) = n

ASSUME DecodeAssumption ==
  \A s \in Services :
    LET lists == DecodeChannels(AttributeBytes(s))
    IN  lists # MALFORMED => lists \in Seq(Channels \cup {NONE})

\* Pages make progress and fit in the byte count a request allows.
ASSUME PageLengthsAssumption ==
  /\ PageLengths \subseteq 1..MAXIMUM_ATTRIBUTE_BYTE_COUNT
  /\ PageLengths # {}

Held == AttributeBytes(service)

\* Where the page asked for begins.
Requested == IF request.continuation_state = <<>>
               THEN 0
               ELSE Offset(request.continuation_state)

\* The attribute bytes of a page that ends at n.
Slice(n) == SubSeq(Held, Requested + 1, n)

\* A page that leaves something for a later one.
ServePage(length) ==
  LET n == Requested + length
  IN  /\ n < Len(Held)
      /\ ReceivePage([attribute_bytes |-> Slice(n), continuation_state |-> Cont(n)])

\* The page with the rest.
ServeLastPage(length) ==
  /\ Requested + length >= Len(Held)
  /\ ReceiveLastPage([attribute_bytes    |-> Slice(Len(Held)),
                      continuation_state |-> <<>>])

Serve ==
  /\ pc = "await"
  /\ \E length \in PageLengths : ServePage(length) \/ ServeLastPage(length)

\* An exchange answers or fails, whichever comes first; it never just stays
\* open, because each of its three waits has a timer (Socket, EveryCallReturns).
Exchange == Serve \/ \E error \in SocketErrors : Fail(error)

ServerNext == QueryOnce \/ Exchange \/ Returned

ServerSpec ==
  Init /\ [][ServerNext]_vars /\ WF_vars(QueryOnce) /\ WF_vars(Exchange)

-----------------------------------------------------------------------------
(* Properties *)

\* What a caller is promised: module Lookup, which knows nothing of pages.
Answer(s) == DecodeChannels(AttributeBytes(s))
Promise == INSTANCE Lookup WITH Errors <- SocketErrors
PromiseKept == Promise!Spec

\* The collected bytes are always a prefix of what the server holds, and the
\* request on the wire asks for exactly what follows it: no byte of the answer is
\* skipped, repeated or put out of order however the server cuts its pages.
Reassembly ==
  /\ IsPrefix(attribute_bytes, Held)
  /\ pc = "await" => Requested = Len(attribute_bytes)

\* The number of exchanges is bounded by the size of the answer.
PagesBounded == Len(pages) <= Len(Held)

\* The query ends: with a server that keeps to the protocol the loop over the
\* continuation state is finite, and an exchange that fails ends it at once.
QueryEnds == <>(pc = "done")
=============================================================================
