---------------------------- MODULE QueryProofs ----------------------------
(***************************************************************************)
(* The whole of query_rfcomm_channel, for every device that keeps to the   *)
(* protocol, every answer and every budget: which error tells what, how    *)
(* long a caller waits, and what an Ok is worth.                           *)
(***************************************************************************)
EXTENDS Query, SessionProofs

\* The retry loop: as in module ConnectProofs, from its first attempt on.
Round == MaxConnectTime + RETRY_DELAY
ThisRound ==
  IF phase = "connecting" THEN elapsed
  ELSE IF phase = "sleeping" THEN MaxConnectTime + elapsed
  ELSE MaxConnectTime

NotStarted == attempt = 0 /\ clock = 0 /\ elapsed = 0 /\ starts = <<>>

Retrying ==
  /\ Connection!TypeOK
  /\ Len(starts) = attempt + 1
  /\ phase = "connecting" => elapsed <= MaxConnectTime
  /\ phase = "sleeping" => elapsed <= RETRY_DELAY /\ attempt + 1 < MAX_CONNECT_ATTEMPTS
  /\ phase = "exhausted" => attempt + 1 = MAX_CONNECT_ATTEMPTS
  /\ clock <= attempt * Round + ThisRound

Loop == IF phase = "closed" THEN NotStarted ELSE Retrying

\* What each stage knows of the ones before it.
Stages ==
  /\ stage \in {"parse", "connect", "find", "returned"}
  /\ stage # "returned" <=> result = "Pending"
  /\ stage = "parse" => phase = "closed"
  /\ stage = "connect" => phase # "closed"
  /\ stage = "find" => phase = "connected"
  /\ phase # "closed" => addr \in ValidAddresses
  /\ phase # "connected" \/ stage = "connect" => pc = "query" /\ request = NONE
  /\ pc # "query" => request # NONE

\* What each result says.
Told ==
  /\ result \in {"Pending", "InvalidAddress", "Connect", "Transport", "Decode", "Ok"}
  /\ result = "InvalidAddress" => addr \notin ValidAddresses /\ phase = "closed"
  /\ result = "Connect" => phase = "exhausted"
  /\ result \in {"Transport", "Decode", "Ok"} => phase = "connected" /\ request # NONE

\* What find_rfcomm_channel has found is what the device holds.
Resolved ==
  /\ outcome = "Decode" => Answer(service) = MALFORMED
  /\ outcome = "Ok" =>
       /\ Answer(service) # MALFORMED
       /\ Promise!IsFirstChannel(channel, Answer(service))

\* Each page takes one exchange at most, and so does a failure, which leaves at
\* least one byte of the answer unserved.
ExchangeTime == 3 * RESPONSE_TIMEOUT
Timed ==
  /\ waited \in Nat /\ waited <= ExchangeTime
  /\ queried \in Nat
  /\ pc = "query" => queried <= Len(pages) * ExchangeTime
  /\ pc = "await" => queried <= Len(pages) * ExchangeTime + waited
  /\ pc = "done" => queried <= Len(Held) * ExchangeTime

QInv == SInv /\ Loop /\ Stages /\ Told /\ Resolved /\ Timed

-----------------------------------------------------------------------------
(* The initial state *)

LEMMA ExchangeTimeType == ExchangeTime \in Nat
BY ResponseTimeoutAssumption DEF ExchangeTime

LEMMA QueryInitQInv == QueryInit => QInv
<1>. SUFFICES ASSUME QueryInit PROVE QInv
  OBVIOUS
<1>1. SInv
  BY ServerInit DEF QueryInit
<1>2. Loop /\ Stages /\ Told
  BY DEF QueryInit, Init, Loop, NotStarted, Stages, Told
<1>3. Resolved
  BY DEF QueryInit, Init, Resolved
<1>4. Timed
  <2>1. 0 * ExchangeTime = 0 /\ 0 <= ExchangeTime
    BY ExchangeTimeType
  <2>. QED BY <2>1 DEF QueryInit, Init, Timed
<1>. QED BY <1>1, <1>2, <1>3, <1>4 DEF QInv

-----------------------------------------------------------------------------
(* Steps: each part of the invariant in turn *)

\* Whatever a step of the query does to its session, the session allows.
LEMMA SessionStep == [QueryNext]_queryVars => [ServerNext]_vars
BY DEF QueryNext, queryVars, ParseAddress, RejectAddress, Attempt, Retry, ConnectTick,
       ConnectSdp, Connected, NotConnected, FindRequest, FindExchange, FindTick, Found,
       Over, Return, ServerNext

LEMMA LoopStep == Loop /\ Stages /\ [QueryNext]_queryVars => Loop'
<1>. SUFFICES ASSUME Loop, Stages, [QueryNext]_queryVars PROVE Loop'
  OBVIOUS
<1>. USE BudgetAssumption
<1>1. CASE ParseAddress
  <2>1. NotStarted /\ phase' = "connecting" /\ starts' = <<clock>>
    BY <1>1 DEF ParseAddress, Loop, Stages
  <2>2. 0 * Round = 0
    BY DEF Round
  <2>. QED
    BY <1>1, <2>1, <2>2
    DEF ParseAddress, NotStarted, Loop, Retrying, Connection!TypeOK, ThisRound
<1>2. CASE Attempt
  <2>1. Retrying /\ phase' # "closed"
    BY <1>2 DEF Attempt, ConnectSdp, Loop, Stages, Connection!Succeed, Connection!Fail
  <2>2. CASE Connection!Succeed
    BY <2>1, <2>2
    DEF Connection!Succeed, Loop, Retrying, Connection!TypeOK, Round, ThisRound
  <2>3. CASE Connection!Fail
    BY <2>1, <2>3
    DEF Connection!Fail, Connection!RetriesLeft, Loop, Retrying, Connection!TypeOK,
        Round, ThisRound
  <2>. QED BY <1>2, <2>2, <2>3 DEF Attempt, ConnectSdp
<1>3. CASE Retry
  <2>1. Retrying /\ Connection!Wake
    BY <1>3 DEF Retry, ConnectSdp, Loop, Stages, Connection!Wake
  <2>2. attempt \in Nat /\ Round \in Nat
    BY <2>1 DEF Retrying, Connection!TypeOK, Round
  <2>3. (attempt + 1) * Round = attempt * Round + Round
    BY <2>2, Distributes
  <2>4. clock' <= attempt' * Round + ThisRound'
    BY <2>1, <2>2, <2>3
    DEF Connection!Wake, Retrying, Connection!TypeOK, Round, ThisRound
  <2>5. Connection!TypeOK' /\ Len(starts') = attempt' + 1
    BY <2>1 DEF Connection!Wake, Retrying, Connection!TypeOK
  <2>. QED BY <2>1, <2>4, <2>5 DEF Connection!Wake, Loop, Retrying
<1>4. CASE ConnectTick
  <2>1. Retrying /\ Connection!Tick
    BY <1>4 DEF ConnectTick, ConnectSdp, Loop, Stages, Connection!Tick
  <2>. QED
    BY <2>1
    DEF Connection!Tick, Loop, Retrying, Connection!TypeOK, Round, ThisRound
<1>5. CASE UNCHANGED connecting
  BY <1>5
  DEF connecting, Loop, NotStarted, Retrying, Connection!TypeOK, Round, ThisRound
<1>. QED
  BY <1>1, <1>2, <1>3, <1>4, <1>5
  DEF QueryNext, queryVars, RejectAddress, Connected, NotConnected, FindRequest,
      FindExchange, FindTick, Found, Over, Return

\* A request that was written was encoded.
LEMMA RequestIsWritten ==
  ASSUME SInv, QueryOnce
  PROVE  request' # NONE
<1>1. Encodable(continuation_state)
  BY DEF SInv, IInv, TypeOK, FollowsPages, Encodable, BodyLength, U8_MAX, U16_MAX
<1>2. SInv' /\ request' = [transaction_id     |-> transaction_id,
                           service_uuid16     |-> service,
                           continuation_state |-> continuation_state]
  BY <1>1, ServerQueryOnceStep DEF QueryOnce
<1>3. request' \in Request
  BY <1>2 DEF QueryOnce, SInv, IInv, TypeOK, Request
<1>. QED BY <1>3, NoRequestAssumption

\* An exchange answers or fails, and is over then; it writes no request.
LEMMA ExchangeStep ==
  ASSUME SInv, Exchange
  PROVE  pc = "await" /\ pc' # "await" /\ UNCHANGED request
BY DEF Exchange, Serve, ServePage, ServeLastPage, ReceivePage, ReceiveLastPage,
       Accept, Fail

LEMMA StagesStep == QInv /\ [QueryNext]_queryVars => Stages'
<1>. SUFFICES ASSUME QInv, [QueryNext]_queryVars PROVE Stages'
  OBVIOUS
<1>. USE DEF QInv, Stages
<1>1. CASE ParseAddress \/ RejectAddress
  BY <1>1 DEF ParseAddress, RejectAddress, Return, connecting, vars
<1>2. CASE Attempt \/ Retry \/ ConnectTick
  BY <1>2
  DEF Attempt, Retry, ConnectTick, ConnectSdp, vars, Connection!Succeed,
      Connection!Fail, Connection!Wake, Connection!Tick
<1>3. CASE Connected \/ NotConnected
  BY <1>3 DEF Connected, NotConnected, Return, connecting, vars
<1>4. CASE FindRequest
  BY <1>4, RequestIsWritten DEF FindRequest, connecting
<1>5. CASE FindExchange
  BY <1>5, ExchangeStep DEF FindExchange, connecting
<1>6. CASE FindTick
  BY <1>6 DEF FindTick, connecting, vars
<1>7. CASE Found
  <2>1. outcome \in {"Ok", "Decode", "Io", "Timeout"}
    BY <1>7 DEF Found, SInv, Progress, IInv, TypeOK, Outcomes, SocketErrors,
                EncodeNeverFails
  <2>2. SdpError(outcome) # "Pending"
    BY <2>1 DEF SdpError, SocketErrors
  <2>. QED BY <1>7, <2>2 DEF Found, Return, connecting, vars
<1>8. CASE UNCHANGED queryVars
  BY <1>8 DEF queryVars, connecting, vars
<1>. QED
  BY <1>1, <1>2, <1>3, <1>4, <1>5, <1>6, <1>7, <1>8 DEF QueryNext, Over

\* Every return has a reason, and a result is never changed again.
LEMMA ToldStep == QInv /\ [QueryNext]_queryVars => Told'
<1>. SUFFICES ASSUME QInv, [QueryNext]_queryVars PROVE Told'
  OBVIOUS
<1>. USE DEF QInv, Stages, Told
<1>1. CASE result' = "Pending"
  BY <1>1
<1>2. CASE RejectAddress
  BY <1>2 DEF RejectAddress, Return, connecting
<1>3. CASE NotConnected
  BY <1>3 DEF NotConnected, Return, connecting
<1>4. CASE Found
  <2>1. outcome \in {"Ok", "Decode", "Io", "Timeout"}
    BY <1>4 DEF Found, SInv, Progress, IInv, TypeOK, Outcomes, SocketErrors,
                EncodeNeverFails
  <2>2. SdpError(outcome) \in {"Transport", "Decode", "Ok"}
    BY <2>1 DEF SdpError, SocketErrors
  <2>. QED BY <1>4, <2>2 DEF Found, Return, connecting, vars
<1>5. CASE UNCHANGED queryVars
  BY <1>5 DEF queryVars, connecting, vars
<1>6. CASE UNCHANGED result /\ stage # "returned"
  BY <1>6
<1>. QED
  BY <1>1, <1>2, <1>3, <1>4, <1>5, <1>6
  DEF QueryNext, ParseAddress, Attempt, Retry, ConnectTick, ConnectSdp, Connected,
      FindRequest, FindExchange, FindTick, Over

\* The answer a page of which was the last is the answer of the device.
LEMMA ResolvedStep == QInv /\ [QueryNext]_queryVars => Resolved'
<1>. SUFFICES ASSUME QInv, [QueryNext]_queryVars PROVE Resolved'
  OBVIOUS
<1>. USE DEF QInv, Resolved
<1>1. CASE UNCHANGED <<service, outcome, channel>>
  BY <1>1 DEF Promise!IsFirstChannel
<1>2. CASE QueryOnce
  BY <1>1, <1>2, ServerQueryOnceStep
<1>3. ASSUME NEW length \in PageLengths, pc = "await", ServePage(length)
      PROVE  Resolved'
  BY <1>1, <1>3, ServePageStep
<1>4. ASSUME NEW length \in PageLengths, pc = "await", ServeLastPage(length)
      PROVE  Resolved'
  <2>1. /\ service' = service /\ service \in Services
        /\ outcome' = IF Answer(service) = MALFORMED THEN "Decode" ELSE "Ok"
        /\ Answer(service) # MALFORMED => channel' = FirstChannel(Answer(service))
    BY <1>4, ServeLastPageStep DEF SInv, IInv, TypeOK
  <2>2. CASE Answer(service) = MALFORMED
    BY <2>1, <2>2
  <2>3. CASE Answer(service) # MALFORMED
    <3>1. Answer(service) \in Seq(Channels \cup {NONE})
      BY <2>1, <2>3, DecodeAssumption DEF Answer
    <3>2. Promise!IsFirstChannel(FirstChannel(Answer(service)), Answer(service))
      BY <3>1, FirstChannelIsFirst
    <3>3. outcome' = "Ok" /\ channel' = FirstChannel(Answer(service))
      BY <2>1, <2>3
    <3>4. Promise!IsFirstChannel(channel, Answer(service))'
      BY <2>1, <3>2, <3>3 DEF Promise!IsFirstChannel
    <3>. QED BY <2>1, <2>3, <3>3, <3>4
  <2>. QED BY <2>2, <2>3
<1>5. ASSUME NEW error \in SocketErrors, Fail(error)
      PROVE  Resolved'
  BY <1>5 DEF Fail, SocketErrors
<1>6. CASE UNCHANGED vars
  BY <1>1, <1>6 DEF vars
<1>. QED
  BY <1>2, <1>3, <1>4, <1>5, <1>6, SessionStep
  DEF ServerNext, Exchange, Serve, Returned

\* A page that is served or an exchange that fails: what it costs.
LEMMA ExchangeCosts ==
  ASSUME SInv, Timed, Exchange
  PROVE  /\ pc' = "query" => queried <= Len(pages') * ExchangeTime
         /\ pc' = "done" => queried <= Len(Held') * ExchangeTime
<1>. DEFINE spent == Len(pages) * ExchangeTime
            next  == (Len(pages) + 1) * ExchangeTime
            all   == Len(Held) * ExchangeTime
<1>1. pc = "await" /\ pages \in Seq(Page) /\ service \in Services /\ service' = service
  BY ExchangeStep
  DEF SInv, IInv, TypeOK, Exchange, Serve, ServePage, ServeLastPage, ReceivePage,
      ReceiveLastPage, Accept, Fail
<1>2. Len(pages) \in Nat /\ Len(Held) \in Nat /\ Len(pages) + 1 <= Len(Held)
  BY <1>1, HeldType DEF SInv, IInv, TypeOK, Progress, Served
<1>3. next = spent + ExchangeTime /\ spent \in Nat /\ ExchangeTime \in Nat
  BY <1>2, ExchangeTimeType, Distributes
<1>4. next <= all
  BY <1>2, ExchangeTimeType, Monotonic
<1>5. queried \in Nat /\ waited \in Nat /\ queried <= spent + waited
      /\ waited <= ExchangeTime
  BY <1>1 DEF Timed
<1>. HIDE DEF spent, next, all
<1>6. queried <= next
  BY <1>3, <1>5
<1>7. all \in Nat
  BY <1>2, ExchangeTimeType, Distributes DEF all
<1>8. queried <= all
  BY <1>3, <1>4, <1>5, <1>6, <1>7
<1>9. Held' = Held
  BY <1>1 DEF Held
<1>10. ASSUME pc' = "query" PROVE Len(pages') = Len(pages) + 1
  <2>1. PICK length \in PageLengths : ServePage(length)
    BY <1>10 DEF Exchange, Serve, ServeLastPage, ReceiveLastPage, Fail
  <2>2. \E page : pages' = Append(pages, page)
    BY <2>1 DEF ServePage, ReceivePage, Accept
  <2>. QED BY <1>1, <2>2
<1>. QED BY <1>6, <1>8, <1>9, <1>10 DEF next, all

LEMMA TimedStep == QInv /\ [QueryNext]_queryVars => Timed'
<1>. SUFFICES ASSUME QInv, [QueryNext]_queryVars PROVE Timed'
  OBVIOUS
<1>. USE DEF QInv, Timed
<1>1. CASE UNCHANGED <<vars, waited, queried>>
  BY <1>1 DEF vars, Held
<1>2. CASE FindRequest
  <2>1. /\ pc = "query" /\ pages' = pages /\ queried' = queried /\ waited' = 0
        /\ pc' # "query" /\ service' = service
    BY <1>2 DEF FindRequest, QueryOnce
  <2>2. pc' = "await"
    BY <1>2, RequestIsWritten DEF FindRequest, QueryOnce, SInv, IInv, TypeOK,
       FollowsPages, Encodable, BodyLength, U8_MAX, U16_MAX
  <2>3. Len(pages) \in Nat /\ Len(pages) * ExchangeTime \in Nat
    BY ExchangeTimeType, Distributes DEF SInv, IInv, TypeOK
  <2>. QED BY <2>1, <2>2, <2>3, ExchangeTimeType
<1>3. CASE FindExchange
  <2>1. pc' # "await" /\ Exchange /\ waited' = waited /\ queried' = queried
    BY <1>3, ExchangeStep DEF FindExchange
  <2>. QED BY <2>1, ExchangeCosts, ExchangeTimeType DEF ExchangeTime
<1>4. CASE FindTick
  <2>1. /\ pc = "await" /\ pc' = "await" /\ pages' = pages
        /\ waited' = waited + 1 /\ queried' = queried + 1 /\ waited < ExchangeTime
    BY <1>4 DEF FindTick, vars, ExchangeTime
  <2>2. Len(pages) \in Nat /\ Len(pages) * ExchangeTime \in Nat
    BY ExchangeTimeType, Distributes DEF SInv, IInv, TypeOK
  <2>. QED BY <2>1, <2>2, ExchangeTimeType
<1>. QED
  BY <1>1, <1>2, <1>3, <1>4
  DEF QueryNext, queryVars, ParseAddress, RejectAddress, Attempt, Retry, ConnectTick,
      ConnectSdp, Connected, NotConnected, Found, Over, Return

LEMMA QueryStep == QInv /\ [QueryNext]_queryVars => QInv'
BY ServerStep, SessionStep, LoopStep, StagesStep, ToldStep, ResolvedStep, TimedStep
DEF QInv

THEOREM QueryInvariance == QuerySpec => []QInv
<1>1. QueryInit => QInv
  BY QueryInitQInv
<1>2. QInv /\ [QueryNext]_queryVars => QInv'
  BY QueryStep
<1>. QED BY <1>1, <1>2, PTL DEF QuerySpec

-----------------------------------------------------------------------------

\* The error a caller sees tells which stage failed and what had happened.
THEOREM ErrorsTellStages == QuerySpec => []ErrorTellsStage
<1>1. ASSUME QInv PROVE ErrorTellsStage
  <2>1. phase = "closed" => starts = <<>>
    BY <1>1 DEF QInv, Loop, NotStarted
  <2>2. phase = "exhausted" => Len(starts) = MAX_CONNECT_ATTEMPTS
    BY <1>1 DEF QInv, Loop, Retrying
  <2>3. request # NONE => phase = "connected"
    BY <1>1 DEF QInv, Stages
  <2>4. phase = "connected" => addr \in ValidAddresses
    BY <1>1 DEF QInv, Stages
  <2>. QED BY <1>1, <2>1, <2>2, <2>3, <2>4 DEF QInv, Told, ErrorTellsStage
<1>. QED BY <1>1, QueryInvariance, PTL

\* A caller waits for the retry budget and three timers a page, and no longer.
THEOREM QueryIsBounded == QuerySpec => []QueryBounded
<1>1. ASSUME QInv
      PROVE  clock <= MAX_CONNECT_ATTEMPTS * MaxConnectTime
                        + (MAX_CONNECT_ATTEMPTS - 1) * RETRY_DELAY
  <2>. USE BudgetAssumption
  <2>. DEFINE last == MAX_CONNECT_ATTEMPTS - 1
  <2>1. CASE phase = "closed"
    <3>1. MAX_CONNECT_ATTEMPTS * MaxConnectTime \in Nat /\ last * RETRY_DELAY \in Nat
      BY Distributes
    <3>. QED BY <1>1, <2>1, <3>1 DEF QInv, Loop, NotStarted
  <2>2. CASE phase # "closed"
    <3>1. Retrying
      BY <1>1, <2>2 DEF QInv, Loop
    <3>2. attempt \in Nat /\ attempt <= last /\ clock \in Nat /\ last \in Nat
      BY <3>1 DEF Retrying, Connection!TypeOK
    <3>3. last * Round = last * MaxConnectTime + last * RETRY_DELAY
      BY <3>2 DEF Round
    <3>4. MAX_CONNECT_ATTEMPTS * MaxConnectTime = last * MaxConnectTime + MaxConnectTime
      BY <3>2, Distributes
    <3>5. CASE phase = "sleeping"
      <4>1. attempt + 1 <= last /\ elapsed <= RETRY_DELAY /\ elapsed \in Nat
        BY <3>1, <3>2, <3>5 DEF Retrying, Connection!TypeOK
      <4>2. clock <= (attempt + 1) * Round
        BY <3>1, <3>2, <3>5, <4>1, Distributes DEF Retrying, Round, ThisRound
      <4>3. (attempt + 1) * Round <= last * Round
        BY <3>2, <4>1, Monotonic DEF Round
      <4>. QED BY <3>2, <3>3, <3>4, <4>2, <4>3 DEF Round
    <3>6. CASE phase # "sleeping"
      <4>1. clock <= attempt * Round + MaxConnectTime
        BY <3>1, <3>2, <3>6 DEF Retrying, Connection!TypeOK, Round, ThisRound
      <4>2. attempt * Round <= last * Round
        BY <3>2, Monotonic DEF Round
      <4>. QED BY <3>2, <3>3, <3>4, <4>1, <4>2 DEF Round
    <3>. QED BY <3>5, <3>6
  <2>. QED BY <2>1, <2>2
<1>2. ASSUME QInv
      PROVE  queried \in Nat /\ queried <= ExchangeTime * Len(Held)
  <2>1. Len(pages) \in Nat /\ Len(Held) \in Nat /\ Len(pages) <= Len(Held)
        /\ (pc = "await" => Len(pages) + 1 <= Len(Held))
    BY <1>2, HeldType DEF QInv, SInv, IInv, TypeOK, Progress, Served
  <2>2. Len(pages) * ExchangeTime <= Len(Held) * ExchangeTime
    BY <2>1, ExchangeTimeType, Monotonic
  <2>3. pc = "await" => (Len(pages) + 1) * ExchangeTime <= Len(Held) * ExchangeTime
    BY <2>1, ExchangeTimeType, Monotonic
  <2>4. /\ (Len(pages) + 1) * ExchangeTime = Len(pages) * ExchangeTime + ExchangeTime
        /\ Len(pages) * ExchangeTime \in Nat
        /\ Len(Held) * ExchangeTime \in Nat
        /\ Len(Held) * ExchangeTime = ExchangeTime * Len(Held)
    BY <2>1, ExchangeTimeType, Distributes
  <2>5. pc \in {"query", "await", "done"}
    BY <1>2 DEF QInv, SInv, IInv, TypeOK
  <2>6. CASE pc = "query"
    BY <1>2, <2>2, <2>4, <2>6 DEF QInv, Timed
  <2>7. CASE pc = "await"
    BY <1>2, <2>3, <2>4, <2>7, ExchangeTimeType DEF QInv, Timed
  <2>8. CASE pc = "done"
    BY <1>2, <2>4, <2>8 DEF QInv, Timed
  <2>. QED BY <2>5, <2>6, <2>7, <2>8
<1>3. ASSUME QInv PROVE QueryBounded
  <2>. DEFINE budget == MAX_CONNECT_ATTEMPTS * MaxConnectTime
                          + (MAX_CONNECT_ATTEMPTS - 1) * RETRY_DELAY
              exchanges == ExchangeTime * Len(Held)
  <2>1. budget \in Nat /\ clock \in Nat
    <3>1. budget \in Nat
      BY ONLY BudgetAssumption DEF budget
    <3>2. clock \in Nat
      BY <1>3 DEF QInv, Loop, NotStarted, Retrying, Connection!TypeOK
    <3>. QED BY <3>1, <3>2
  <2>2. exchanges \in Nat
    BY <1>3, HeldType, ExchangeTimeType DEF QInv, SInv, IInv, TypeOK
  <2>3. clock <= budget /\ queried \in Nat /\ queried <= exchanges
    BY <1>1, <1>2, <1>3
  <2>4. QueryBounded <=> clock + queried <= budget + exchanges
    BY DEF QueryBounded, ExchangeTime
  <2>. HIDE DEF budget, exchanges
  <2>. QED BY <2>1, <2>2, <2>3, <2>4
<1>. QED BY <1>3, QueryInvariance, PTL

\* What a caller of query_rfcomm_channel sees is the one step of module Lookup:
\* the stages, the attempts and the exchanges are stutters, each return is a step.
THEOREM QueryKeepsPromise == QuerySpec => QueryPromiseKept
<1>1. ASSUME QueryInit PROVE QueryPromise!Init
  BY <1>1 DEF QueryInit, Init, QueryPromise!Init
<1>2. ASSUME QInv, [QueryNext]_queryVars
      PROVE  [QueryPromise!Next]_(QueryPromise!vars)
  <2>1. service' = service
    <3>1. [ServerNext]_vars
      BY <1>2, SessionStep
    <3>. QED
      BY <3>1
      DEF ServerNext, QueryOnce, Exchange, Serve, ServePage, ServeLastPage,
          ReceivePage, ReceiveLastPage, Accept, Fail, Returned, vars
  <2>2. CASE UNCHANGED result /\ stage # "returned"
    <3>1. result = "Pending" /\ result' = "Pending"
      BY <1>2, <2>2 DEF QInv, Stages
    <3>. QED BY <2>1, <3>1 DEF QueryPromise!vars
  <2>3. CASE RejectAddress \/ NotConnected
    <3>1. result = "Pending" /\ result' \in {"InvalidAddress", "Connect"}
      BY <1>2, <2>3 DEF QInv, Stages, RejectAddress, NotConnected, Return
    <3>. QED
      BY <2>1, <3>1 DEF QueryPromise!Next, QueryPromise!Fail, AnyTimeErrors
  <2>4. CASE Found
    <3>1. outcome \in {"Ok", "Decode", "Io", "Timeout"}
      BY <1>2, <2>4 DEF Found, QInv, SInv, Progress, IInv, TypeOK, Outcomes,
                        SocketErrors, EncodeNeverFails
    <3>2. result = "Pending" /\ result' = SdpError(outcome) /\ channel' = channel
      BY <1>2, <2>4 DEF Found, Return, QInv, Stages, vars
    <3>3. CASE outcome \in SocketErrors
      BY <2>1, <3>2, <3>3
      DEF SdpError, SocketErrors, QueryPromise!Next, QueryPromise!Fail, AnyTimeErrors
    <3>4. CASE outcome = "Decode"
      BY <1>2, <2>1, <3>2, <3>4
      DEF SdpError, SocketErrors, QInv, Resolved, QueryPromise!Next, QueryPromise!Fail
    <3>5. CASE outcome = "Ok"
      <4>1. result' = "Ok"
        BY <3>2, <3>5 DEF SdpError, SocketErrors
      <4>2. Answer(service) # MALFORMED
        BY <1>2, <3>5 DEF QInv, Resolved
      <4>3. QueryPromise!IsFirstChannel(channel', Answer(service))
        BY <1>2, <3>2, <3>5
        DEF QInv, Resolved, Promise!IsFirstChannel, QueryPromise!IsFirstChannel
      <4>. QED
        BY <2>1, <3>2, <4>1, <4>2, <4>3 DEF QueryPromise!Next, QueryPromise!Resolve
    <3>. QED BY <3>1, <3>3, <3>4, <3>5 DEF SocketErrors
  <2>5. CASE UNCHANGED queryVars
    BY <2>5 DEF queryVars, vars, QueryPromise!vars
  <2>. QED
    BY <1>2, <2>2, <2>3, <2>4, <2>5
    DEF QueryNext, ParseAddress, Attempt, Retry, ConnectTick, ConnectSdp, Connected,
        FindRequest, FindExchange, FindTick, Over
<1>. QED
  BY <1>1, <1>2, QueryInvariance, PTL DEF QuerySpec, QueryPromiseKept, QueryPromise!Spec
=============================================================================
