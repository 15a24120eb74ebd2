------------------------------ MODULE Connect ------------------------------
(***************************************************************************)
(* connect_with_retry (src/transport/connect.rs) as connect_sdp calls it:  *)
(* at most MAX_CONNECT_ATTEMPTS connection attempts, RETRY_DELAY between   *)
(* one failure and the next attempt.                                       *)
(*                                                                         *)
(* Whether an attempt succeeds, and how long it takes, is up to the kernel *)
(* and the device: the code sets no timer on it.  MaxConnectTime bounds it *)
(* here.                                                                   *)
(***************************************************************************)
EXTENDS Naturals, Sequences

CONSTANTS
  MAX_CONNECT_ATTEMPTS,
  RETRY_DELAY,     \* in ticks
  MaxConnectTime   \* bound on the ticks one attempt takes to be decided

ASSUME AttemptsAssumption == MAX_CONNECT_ATTEMPTS \in Nat \ {0}
ASSUME DelayAssumption == RETRY_DELAY \in Nat
ASSUME ConnectTimeAssumption == MaxConnectTime \in Nat

VARIABLES
  phase,    \* "connecting", "sleeping", "connected", "exhausted"
  attempt,  \* the loop variable
  clock,    \* ticks since connect_with_retry was called
  elapsed,  \* ticks in this attempt or this sleep
  starts    \* history: when each attempt was started

vars == <<phase, attempt, clock, elapsed, starts>>

Init ==
  /\ phase = "connecting"
  /\ attempt = 0
  /\ clock = 0
  /\ elapsed = 0
  /\ starts = <<0>>

-----------------------------------------------------------------------------
(* An operator no other definition uses is a mutant: the operator after it    *)
(* with a mistake in it, kept to show that a property sees it.                *)

\* Is there an attempt after this one?
RetriesLeftOneMore == attempt < MAX_CONNECT_ATTEMPTS
RetriesLeftOneLess == attempt + 2 < MAX_CONNECT_ATTEMPTS
RetriesLeft == attempt + 1 < MAX_CONNECT_ATTEMPTS

Succeed ==
  /\ phase = "connecting"
  /\ phase' = "connected"
  /\ UNCHANGED <<attempt, clock, elapsed, starts>>

FailSpins ==
  /\ phase = "connecting"
  /\ UNCHANGED vars

\* The error itself is discarded: all that counts is that there was one.  Only
\* a failure with attempts left sleeps.
Fail ==
  /\ phase = "connecting"
  /\ phase' = IF RetriesLeft THEN "sleeping" ELSE "exhausted"
  /\ elapsed' = 0
  /\ UNCHANGED <<attempt, clock, starts>>

WakeEarly ==
  /\ phase = "sleeping"
  /\ phase' = "connecting"
  /\ attempt' = attempt + 1
  /\ elapsed' = 0
  /\ starts' = Append(starts, clock)
  /\ UNCHANGED clock

\* tokio::time::sleep(RETRY_DELAY) is over, the next attempt starts.
Wake ==
  /\ phase = "sleeping"
  /\ elapsed = RETRY_DELAY
  /\ phase' = "connecting"
  /\ attempt' = attempt + 1
  /\ elapsed' = 0
  /\ starts' = Append(starts, clock)
  /\ UNCHANGED clock

Tick ==
  /\ \/ phase = "connecting" /\ elapsed < MaxConnectTime
     \/ phase = "sleeping" /\ elapsed < RETRY_DELAY
  /\ clock' = clock + 1
  /\ elapsed' = elapsed + 1
  /\ UNCHANGED <<phase, attempt, starts>>

Returned == phase \in {"connected", "exhausted"} /\ UNCHANGED vars

Next == Succeed \/ Fail \/ Wake \/ Tick \/ Returned

\* Time passes, and the kernel decides every attempt at last, by a failure if by
\* nothing else.
Spec ==
  /\ Init
  /\ [][Next]_vars
  /\ WF_vars(Fail)
  /\ WF_vars(Wake)
  /\ WF_vars(Tick)

-----------------------------------------------------------------------------
(* Properties *)

TypeOK ==
  /\ phase \in {"connecting", "sleeping", "connected", "exhausted"}
  /\ attempt \in 0..(MAX_CONNECT_ATTEMPTS - 1)
  /\ clock \in Nat
  /\ elapsed \in 0..(MaxConnectTime + RETRY_DELAY)
  /\ starts \in Seq(Nat)

\* No two attempts start less than RETRY_DELAY apart: never the zero-delay loop
\* of BlueZ that the comment on MAX_CONNECT_ATTEMPTS warns of.
AttemptsSpaced ==
  \A i \in 1..(Len(starts) - 1) : starts[i + 1] >= starts[i] + RETRY_DELAY

\* It gives up only after MAX_CONNECT_ATTEMPTS attempts, the last of which started
\* after all the delays: a device that is busy for less than that long is tried
\* at least once while it is free.
GivesUpLate ==
  phase = "exhausted" =>
    /\ Len(starts) = MAX_CONNECT_ATTEMPTS
    /\ starts[MAX_CONNECT_ATTEMPTS] >= (MAX_CONNECT_ATTEMPTS - 1) * RETRY_DELAY

\* connect_with_retry returns as soon as its last attempt is decided: there is
\* no delay after it, so a caller never waits longer than the attempts take and
\* one delay less than there are attempts.
ReturnsInTime ==
  clock <= MAX_CONNECT_ATTEMPTS * MaxConnectTime
             + (MAX_CONNECT_ATTEMPTS - 1) * RETRY_DELAY

\* It returns: the loop is bounded, unlike the one of BlueZ.
ConnectEnds == <>(phase \in {"connected", "exhausted"})
=============================================================================
