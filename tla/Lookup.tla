------------------------------- MODULE Lookup -------------------------------
(***************************************************************************)
(* What find_rfcomm_channel, and query_rfcomm_channel around it, promise   *)
(* against a conforming server, as their callers see it: one step, from no *)
(* result to the first RFCOMM channel among the records the server holds   *)
(* for the service, or to an error.  Connections, pages, requests and      *)
(* continuation states do not appear.                                      *)
(***************************************************************************)
EXTENDS Naturals, Sequences

CONSTANTS
  Services,
  NONE,
  MALFORMED,
  Errors,       \* what may go wrong at any time, whatever the answer is
  Answer(_)     \* the decoded records of a service, or MALFORMED

VARIABLES service, outcome, channel

vars == <<service, outcome, channel>>

Init ==
  /\ service \in Services
  /\ outcome = "Pending"
  /\ channel = NONE

\* c is the first channel in the list, NONE when no record has one.
IsFirstChannel(c, lists) ==
  \/ /\ c = NONE
     /\ \A i \in 1..Len(lists) : lists[i] = NONE
  \/ \E i \in 1..Len(lists) :
        /\ c = lists[i]
        /\ c # NONE
        /\ \A j \in 1..(i - 1) : lists[j] = NONE

Resolve ==
  /\ outcome = "Pending"
  /\ outcome' = "Ok"
  /\ Answer(service) # MALFORMED
  /\ IsFirstChannel(channel', Answer(service))
  /\ UNCHANGED service

Fail ==
  /\ outcome = "Pending"
  /\ \/ outcome' \in Errors
     \/ outcome' = "Decode" /\ Answer(service) = MALFORMED
  /\ UNCHANGED <<service, channel>>

Next == Resolve \/ Fail

Spec == Init /\ [][Next]_vars
=============================================================================
