------------------------------- MODULE Replay -------------------------------
(***************************************************************************)
(* The tests of session.rs: find_rfcomm_channel against a server task that *)
(* plays back what a phone has answered, PDU after PDU, whatever it is     *)
(* asked.  The bytes are those of the fixtures.  Nothing fails, and no     *)
(* time passes; what the duplex stream of the tests leaves to the runtime, *)
(* where bytes are cut and who runs when, is left open here too.           *)
(***************************************************************************)
EXTENDS Exchange, Fixtures

PBAP == 4399
MAP == 4402
PublicBrowseGroup == 4098
TestedServices == {PBAP, MAP, PublicBrowseGroup}

\* What the server task of each test plays back, what it is sent on a phone's
\* recording, and the channel the test expects.
Played ==
  [s \in TestedServices |->
     CASE s = PBAP -> <<pbap_response>>
       [] s = MAP  -> <<map_response>>
       [] s = PublicBrowseGroup -> browse_responses]

Captured ==
  [s \in TestedServices |->
     CASE s = PBAP -> <<pbap_request>>
       [] s = MAP  -> <<map_request>>
       [] s = PublicBrowseGroup -> browse_requests]

PbapChannel == 13
MapChannel == 2
BrowseChannel == 2

ExpectedChannel ==
  [s \in TestedServices |->
     CASE s = PBAP -> PbapChannel
       [] s = MAP  -> MapChannel
       [] s = PublicBrowseGroup -> BrowseChannel]

EXPECTED_CONTINUATION_REQUESTS ==
  <<<<0, 243>>, <<1, 233>>, <<2, 223>>, <<3, 213>>, <<4, 203>>, <<5, 191>>, <<6, 181>>>>

\* The continuation states in some requests, as the server task collects them.
seen_continuations(requests) ==
  LET blobs == [i \in 1..Len(requests) |->
                  continuation_state_from_request_body(
                    SubSeq(requests[i], PDU_HEADER_LEN + 1, Len(requests[i])))]
  IN  SelectSeq(blobs, LAMBDA blob : blob # <<>>)

\* drives_all_eight_pages_and_requests_correct_continuation_each_time: its
\* assertion, of the requests a phone was sent; that the program sends these is
\* RequestsAsCaptured.  The other tests go on to no second page.
ASSUME ContinuationsAsTested ==
  /\ seen_continuations(Captured[PublicBrowseGroup]) = EXPECTED_CONTINUATION_REQUESTS
  /\ \A s \in {PBAP, MAP} : seen_continuations(Captured[s]) = <<>>

\* One round of the server task: read a request, write the next page.  After the
\* last page it is over.
Play ==
  /\ Len(ends) <= Len(Played[service])
  /\ \E pdu \in Requested : ServerAnswers(pdu, Played[service][Len(ends)])

ReplayNext == ClientNext \/ NetworkNext \/ Play

\* Both tasks run, and the duplex stream delivers.
ReplaySpec == ExchangeInit /\ [][ReplayNext]_vars /\ WF_vars(ReplayNext)

-----------------------------------------------------------------------------
(* Properties *)

\* The requests are those a phone was sent, byte for byte and in their order, and
\* there is none more (single_page_response_makes_exactly_one_request).
RequestsAsCaptured ==
  /\ IsPrefix(wire, FlattenSeq(Captured[service]))
  /\ pc = "done" => wire = FlattenSeq(Captured[service])

\* Every test ends with the channel it expects.
EndsAsTested ==
  <>[](pc = "done" /\ outcome = "Ok" /\ channel = ExpectedChannel[service])
=============================================================================
