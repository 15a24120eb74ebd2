--------------------------- MODULE ConnectProofs ---------------------------
(***************************************************************************)
(* The retry budget of connect_with_retry, for every number of attempts,   *)
(* every delay and every time an attempt takes.                            *)
(***************************************************************************)
EXTENDS Connect, Facts, TLAPS

\* What the phases say of the loop variable and of the time in this phase.
Phases ==
  /\ Len(starts) = attempt + 1
  /\ phase = "connecting" => elapsed <= MaxConnectTime
  /\ phase = "sleeping" =>
       /\ elapsed <= RETRY_DELAY
       /\ attempt + 1 < MAX_CONNECT_ATTEMPTS
       /\ clock >= starts[attempt + 1] + elapsed
  /\ phase = "exhausted" => attempt + 1 = MAX_CONNECT_ATTEMPTS

\* From below: an attempt starts at least one delay after the one before.
Spaced ==
  /\ \A i \in 1..(attempt + 1) : starts[i] <= clock
  /\ \A i \in 1..attempt : starts[i + 1] >= starts[i] + RETRY_DELAY
  /\ starts[attempt + 1] >= attempt * RETRY_DELAY

\* From above: every attempt before this one took one whole round at most.
Round == MaxConnectTime + RETRY_DELAY
ThisRound ==
  IF phase = "connecting" THEN elapsed
  ELSE IF phase = "sleeping" THEN MaxConnectTime + elapsed
  ELSE MaxConnectTime
InTime == clock <= attempt * Round + ThisRound

IInv == TypeOK /\ Phases /\ Spaced /\ InTime

LEMMA InitIInv == Init => IInv
BY AttemptsAssumption, DelayAssumption, ConnectTimeAssumption
   DEF Init, IInv, TypeOK, Phases, Spaced, InTime, Round, ThisRound

LEMMA NextIInv == IInv /\ [Next]_vars => IInv'
<1>. SUFFICES ASSUME IInv, [Next]_vars PROVE IInv'
  OBVIOUS
<1>. USE AttemptsAssumption, DelayAssumption, ConnectTimeAssumption
<1>1. CASE Succeed
  BY <1>1 DEF Succeed, IInv, TypeOK, Phases, Spaced, InTime, Round, ThisRound
<1>2. CASE Fail
  BY <1>2 DEF Fail, RetriesLeft, IInv, TypeOK, Phases, Spaced, InTime, Round,
              ThisRound
<1>3. CASE Wake
  <2>1. TypeOK' /\ Phases'
    BY <1>3 DEF Wake, IInv, TypeOK, Phases
  <2>2. Spaced'
    <3>1. /\ attempt \in Nat /\ clock \in Nat /\ starts \in Seq(Nat)
          /\ Len(starts) = attempt + 1 /\ attempt' = attempt + 1 /\ clock' = clock
          /\ starts' = Append(starts, clock)
      BY <1>3 DEF Wake, IInv, TypeOK, Phases
    <3>2. /\ clock >= starts[attempt + 1] + RETRY_DELAY
          /\ \A i \in 1..(attempt + 1) : starts[i] <= clock
          /\ \A i \in 1..attempt : starts[i + 1] >= starts[i] + RETRY_DELAY
          /\ starts[attempt + 1] >= attempt * RETRY_DELAY
      BY <1>3 DEF Wake, IInv, TypeOK, Phases, Spaced
    <3>3. /\ \A i \in 1..(attempt + 1) : starts'[i] = starts[i]
          /\ starts'[(attempt + 1) + 1] = clock
      BY ONLY <3>1, AppendProperties
    <3>4. \A i \in 1..((attempt + 1) + 1) : starts'[i] <= clock
      BY ONLY <3>1, <3>2, <3>3
    <3>5. \A i \in 1..(attempt + 1) : starts'[i + 1] >= starts'[i] + RETRY_DELAY
      BY ONLY <3>1, <3>2, <3>3
    <3>6. clock >= (attempt + 1) * RETRY_DELAY
      <4>1. /\ (attempt + 1) * RETRY_DELAY = attempt * RETRY_DELAY + RETRY_DELAY
            /\ attempt * RETRY_DELAY \in Nat
        BY ONLY <3>1, DelayAssumption, Distributes
      <4>2. starts[attempt + 1] \in Nat
        BY ONLY <3>1, ElementOfSeq
      <4>. QED BY ONLY <3>1, <3>2, <4>1, <4>2, DelayAssumption
    <3>. QED BY ONLY <3>1, <3>3, <3>4, <3>5, <3>6 DEF Spaced
  <2>3. InTime'
    BY <1>3, Distributes DEF Wake, IInv, TypeOK, InTime, Round, ThisRound
  <2>. QED BY <2>1, <2>2, <2>3 DEF IInv
<1>4. CASE Tick
  BY <1>4 DEF Tick, IInv, TypeOK, Phases, Spaced, InTime, Round, ThisRound
<1>5. CASE UNCHANGED vars
  BY <1>5 DEF vars, IInv, TypeOK, Phases, Spaced, InTime, Round, ThisRound
<1>. QED BY <1>1, <1>2, <1>3, <1>4, <1>5 DEF Next, Returned

THEOREM Invariance == Spec => []IInv
<1>1. Init => IInv BY InitIInv
<1>2. IInv /\ [Next]_vars => IInv' BY NextIInv
<1>. QED BY <1>1, <1>2, PTL DEF Spec

\* Each property the run checks, for every budget.
THEOREM Types == Spec => []TypeOK
BY Invariance, PTL DEF IInv

\* No zero-delay loop: attempts never start closer than RETRY_DELAY.
THEOREM AttemptsAreSpaced == Spec => []AttemptsSpaced
<1>1. IInv => AttemptsSpaced
  BY AttemptsAssumption DEF IInv, TypeOK, Phases, Spaced, AttemptsSpaced
<1>. QED BY <1>1, Invariance, PTL

\* Nothing but the whole budget of attempts and delays makes it give up.
THEOREM GivesUpAfterBudget == Spec => []GivesUpLate
<1>1. IInv => GivesUpLate
  BY AttemptsAssumption DEF IInv, TypeOK, Phases, Spaced, GivesUpLate
<1>. QED BY <1>1, Invariance, PTL

\* The time to the result is bounded by attempts and delays, none after the last.
THEOREM ReturnTimeIsBounded == Spec => []ReturnsInTime
<1>1. ASSUME IInv PROVE ReturnsInTime
  <2>. USE AttemptsAssumption, DelayAssumption, ConnectTimeAssumption
  <2>. DEFINE last == MAX_CONNECT_ATTEMPTS - 1
  <2>1. attempt \in Nat /\ attempt <= last /\ clock \in Nat /\ last \in Nat
    BY <1>1 DEF IInv, TypeOK
  <2>2. last * Round = last * MaxConnectTime + last * RETRY_DELAY
    BY <2>1 DEF Round
  <2>3. MAX_CONNECT_ATTEMPTS * MaxConnectTime = last * MaxConnectTime + MaxConnectTime
    BY <2>1, Distributes
  <2>4. CASE phase = "sleeping"
    <3>1. clock <= (attempt + 1) * Round
      BY <1>1, <2>1, <2>4, Distributes
      DEF IInv, TypeOK, Phases, InTime, Round, ThisRound
    <3>2. (attempt + 1) * Round <= last * Round
      BY <1>1, <2>1, <2>4, Monotonic DEF IInv, Phases, Round
    <3>. QED BY <2>1, <2>2, <2>3, <3>1, <3>2 DEF ReturnsInTime, Round
  <2>5. CASE phase # "sleeping"
    <3>1. clock <= attempt * Round + MaxConnectTime
      BY <1>1, <2>1, <2>5 DEF IInv, TypeOK, Phases, InTime, Round, ThisRound
    <3>2. attempt * Round <= last * Round
      BY <2>1, Monotonic DEF Round
    <3>. QED BY <2>1, <2>2, <2>3, <3>1, <3>2 DEF ReturnsInTime, Round
  <2>. QED BY <2>4, <2>5
<1>. QED BY <1>1, Invariance, PTL
=============================================================================
