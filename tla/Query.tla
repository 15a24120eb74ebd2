------------------------------- MODULE Query -------------------------------
(***************************************************************************)
(* query_rfcomm_channel (src/public.rs), the whole of what a user of the   *)
(* crate calls: parse the address, connect_sdp, find_rfcomm_channel, map   *)
(* the error of the stage that failed.  Module Connect is the connection,  *)
(* module SessionServer the query on it, with the device's server.         *)
(*                                                                         *)
(* Time runs in both: clock is that of Connect, queried the ticks spent in *)
(* exchanges.  An exchange takes at most three times RESPONSE_TIMEOUT,     *)
(* which is Socket's CallBound.                                            *)
(***************************************************************************)
EXTENDS SessionServer

CONSTANTS
  Addresses,      \* the strings a caller may pass for an address
  ValidAddresses, \* those bluer::Address parses
  MAX_CONNECT_ATTEMPTS,
  RETRY_DELAY,
  MaxConnectTime,
  RESPONSE_TIMEOUT

ASSUME BudgetAssumption ==
  /\ MAX_CONNECT_ATTEMPTS \in Nat \ {0}
  /\ RETRY_DELAY \in Nat
  /\ MaxConnectTime \in Nat
ASSUME ResponseTimeoutAssumption == RESPONSE_TIMEOUT \in Nat
ASSUME NoRequestAssumption == NONE \notin Request
ASSUME AddressAssumption == ValidAddresses \subseteq Addresses

VARIABLES
  addr,     \* the argument addr
  stage,    \* "parse", "connect", "find", "returned"
  phase, attempt, clock, elapsed, starts, \* of connect_with_retry
  waited,   \* ticks in the exchange under way
  queried,  \* ticks in all exchanges
  result    \* "Pending", "Ok", or the SdpError

connecting == <<phase, attempt, clock, elapsed, starts>>
queryVars == <<addr, stage, connecting, waited, queried, result, vars>>

Connection == INSTANCE Connect

QueryInit ==
  /\ Init
  /\ addr \in Addresses
  /\ stage = "parse"
  /\ phase = "closed" /\ attempt = 0 /\ clock = 0 /\ elapsed = 0 /\ starts = <<>>
  /\ waited = 0
  /\ queried = 0
  /\ result = "Pending"

-----------------------------------------------------------------------------
(* An operator no other definition uses is a mutant: the operator after it    *)
(* with a mistake in it, kept to show that a property sees it.                *)

\* impl From<QueryError> for SdpError
SdpErrorAsConnect(error) == IF error \in SocketErrors THEN "Connect" ELSE error
SdpError(error) == IF error \in SocketErrors THEN "Transport" ELSE error

\* What a caller of query_rfcomm_channel may be told at any time.
AnyTimeErrors == {"InvalidAddress", "Connect", "Transport"}

\* The ? after each stage, and the last line.
Return(value) ==
  /\ stage' = "returned"
  /\ result' = value
  /\ UNCHANGED <<addr, connecting, waited, queried, vars>>

\* addr.parse(), then the first attempt of connect_sdp.
ParseAddress ==
  /\ stage = "parse"
  /\ addr \in ValidAddresses
  /\ stage' = "connect"
  /\ phase' = "connecting"
  /\ starts' = <<clock>>
  /\ UNCHANGED <<addr, attempt, clock, elapsed, waited, queried, result, vars>>

RejectAddress ==
  /\ stage = "parse"
  /\ addr \notin ValidAddresses
  /\ Return("InvalidAddress")

\* connect_sdp: the retry loop around Stream::connect.
ConnectSdp(step) ==
  /\ stage = "connect"
  /\ step
  /\ UNCHANGED <<addr, stage, waited, queried, result, vars>>

Attempt == ConnectSdp(Connection!Succeed \/ Connection!Fail)
Retry == ConnectSdp(Connection!Wake)
ConnectTick == ConnectSdp(Connection!Tick)

ConnectedAnyway ==
  /\ stage = "connect"
  /\ phase \in {"connected", "exhausted"}
  /\ stage' = "find"
  /\ UNCHANGED <<addr, connecting, waited, queried, result, vars>>

Connected ==
  /\ stage = "connect"
  /\ phase = "connected"
  /\ stage' = "find"
  /\ UNCHANGED <<addr, connecting, waited, queried, result, vars>>

NotConnected == stage = "connect" /\ phase = "exhausted" /\ Return("Connect")

\* find_rfcomm_channel: the next request, its exchange, and the time it takes.
FindRequest ==
  /\ stage = "find"
  /\ QueryOnce
  /\ waited' = 0
  /\ UNCHANGED <<addr, stage, connecting, queried, result>>

FindExchange ==
  /\ stage = "find"
  /\ Exchange
  /\ UNCHANGED <<addr, stage, connecting, waited, queried, result>>

FindTick ==
  /\ stage = "find"
  /\ pc = "await"
  /\ waited < 3 * RESPONSE_TIMEOUT
  /\ waited' = waited + 1
  /\ queried' = queried + 1
  /\ UNCHANGED <<addr, stage, connecting, result, vars>>

Found == stage = "find" /\ pc = "done" /\ Return(SdpError(outcome))

Over == stage = "returned" /\ UNCHANGED queryVars

QueryNext ==
  \/ ParseAddress \/ RejectAddress
  \/ Attempt \/ Retry \/ ConnectTick \/ Connected \/ NotConnected
  \/ FindRequest \/ FindExchange \/ FindTick \/ Found
  \/ Over

QuerySpec == QueryInit /\ [][QueryNext]_queryVars

\* The runtime runs what can run and fires its timers; an exchange ends, since
\* its waits have timers.  Nothing makes an attempt to connect end.
QueryFairSpec ==
  /\ QuerySpec
  /\ WF_queryVars(ParseAddress \/ RejectAddress)
  /\ WF_queryVars(Retry)
  /\ WF_queryVars(ConnectTick)
  /\ WF_queryVars(Connected \/ NotConnected)
  /\ WF_queryVars(FindRequest)
  /\ WF_queryVars(FindExchange)
  /\ WF_queryVars(Found)

-----------------------------------------------------------------------------
(* Properties *)

\* The error tells how far the query came (README, "SdpError"): no attempt to
\* connect for a bad address; the whole budget of attempts and not a byte
\* written for Connect; a request on an open connection for anything else.
\* Encode is never returned.
ErrorTellsStage ==
  /\ result = "InvalidAddress" => addr \notin ValidAddresses /\ starts = <<>>
  /\ result = "Connect" => Len(starts) = MAX_CONNECT_ATTEMPTS /\ request = NONE
  /\ result \in {"Transport", "Decode", "Ok"} => phase = "connected" /\ request # NONE
  /\ result # "Encode"
  /\ request # NONE => addr \in ValidAddresses /\ phase = "connected"

\* How long a caller waits, against a server that keeps to the protocol: the
\* retry budget, and three times RESPONSE_TIMEOUT for each page there can be.
QueryBounded ==
  clock + queried <=
    MAX_CONNECT_ATTEMPTS * MaxConnectTime
      + (MAX_CONNECT_ATTEMPTS - 1) * RETRY_DELAY
      + (3 * RESPONSE_TIMEOUT) * Len(Held)

\* What the user of the crate is promised: Ok with the first channel among the
\* records of the device, Ok(None) only when none of them has one, Decode only
\* when they do not decode; else an error of the way there.
QueryPromise ==
  INSTANCE Lookup WITH
    outcome <- result,
    channel <- IF result = "Ok" THEN channel ELSE NONE,
    Errors  <- AnyTimeErrors
QueryPromiseKept == QueryPromise!Spec

\* The query ends, or it hangs in one attempt to connect: that is the one wait
\* of the program without a timer.
EndsUnlessConnectHangs ==
  <>(stage = "returned") \/ <>[](stage = "connect" /\ phase = "connecting")
=============================================================================
