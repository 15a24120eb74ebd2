------------------------------- MODULE Socket -------------------------------
(***************************************************************************)
(* send_and_receive_pdu (src/transport/socket.rs): write the request, read *)
(* five header bytes, read as many more bytes as the header declares; each *)
(* of the three waits under a timer of its own.                            *)
(*                                                                         *)
(* The stream is the sequence of all bytes the peer has written.  They     *)
(* arrive in pieces of any size, at any time, also before the request has  *)
(* been written.  Time is counted in ticks.  A timer that is due is acted  *)
(* on before time goes on: the runtime is not starved.  tokio's timeout    *)
(* polls the operation before it looks at the deadline, so an operation    *)
(* that can make progress is never cut off.                                *)
(***************************************************************************)
EXTENDS Integers, Sequences, SequencesExt

CONSTANTS
  RESPONSE_TIMEOUT, \* ticks a single write or read may take
  RequestLengths,   \* how many bytes a request may have, none included
  Pdus,             \* what the peer may write, well-formed or not
  MaxPdus,          \* bound on the PDUs the peer writes
  MaxCalls          \* bound on the calls made on the stream

PDU_HEADER_LEN == 5
Byte == 0..255

ASSUME TimeoutAssumption == RESPONSE_TIMEOUT \in Nat \ {0}
ASSUME RequestAssumption == RequestLengths \subseteq Nat
ASSUME PdusAssumption ==
  Pdus \subseteq {s \in Seq(Byte) : Len(s) >= PDU_HEADER_LEN}

VARIABLES
  phase,      \* "idle", "write", "header", "body", or the error: "io", "timeout"
  unwritten,  \* bytes of the request not accepted by the stream yet
  header,     \* filled part of the header buffer
  body,       \* filled part of the body buffer
  elapsed,    \* time on the timer of the current wait
  spent,      \* time since the call was made
  returned,   \* history: the PDUs returned so far
  stream,     \* bytes the peer has written
  ends,       \* history: the offsets between the PDUs the peer wrote
  arrived,    \* how many bytes of the stream have reached the client
  pos,        \* how many of those have been read
  closed      \* the peer has closed or reset the connection

client == <<phase, unwritten, header, body, elapsed, spent, returned, pos>>
peer == <<stream, ends, arrived, closed>>
vars == <<phase, unwritten, header, body, elapsed, spent, returned, pos,
          stream, ends, arrived, closed>>

Init ==
  /\ phase = "idle"
  /\ unwritten = 0
  /\ header = <<>>
  /\ body = <<>>
  /\ elapsed = 0
  /\ spent = 0
  /\ returned = <<>>
  /\ stream = <<>>
  /\ ends = <<0>>
  /\ arrived = 0
  /\ pos = 0
  /\ closed = FALSE

-----------------------------------------------------------------------------
(* Helpers.  An operator no other definition uses is a mutant: the operator   *)
(* after it with a mistake in it, kept to show that a property sees it.       *)

\* u16::from_be_bytes([len_hi, len_lo])
Declared(h) == 256 * h[4] + h[5]

\* Bytes the current read_exact still waits for.
WantedAll ==
  IF phase = "header" THEN PDU_HEADER_LEN - Len(header)
  ELSE IF phase = "body" THEN Len(stream) - pos
  ELSE 0

WantedOneLess ==
  IF phase = "header" THEN PDU_HEADER_LEN - Len(header)
  ELSE IF phase = "body" /\ Len(body) + 1 < Declared(header)
    THEN Declared(header) - 1 - Len(body)
  ELSE 0

Wanted ==
  IF phase = "header" THEN PDU_HEADER_LEN - Len(header)
  ELSE IF phase = "body" THEN Declared(header) - Len(body)
  ELSE 0

\* What one poll of the stream takes: all that is there, up to what is wanted.
Taken == IF arrived - pos <= Wanted THEN arrived - pos ELSE Wanted
Chunk == SubSeq(stream, pos + 1, pos + Taken)

-----------------------------------------------------------------------------
(* The client *)

\* A request without bytes is written at once: write_all has nothing to wait for.
Call(length) ==
  /\ phase \notin {"write", "header", "body"}
  /\ phase' = IF length = 0 THEN "header" ELSE "write"
  /\ unwritten' = length
  /\ header' = <<>>
  /\ body' = <<>>
  /\ elapsed' = 0
  /\ spent' = 0
  /\ UNCHANGED <<returned, pos, peer>>

\* The stream accepts n more bytes; with the last one write_all is complete and
\* the header is waited for.
Write(n) ==
  /\ phase = "write"
  /\ unwritten' = unwritten - n
  /\ IF n = unwritten
       THEN phase' = "header" /\ elapsed' = 0
       ELSE UNCHANGED <<phase, elapsed>>
  /\ UNCHANGED <<header, body, spent, returned, pos, peer>>

ReadRestartsTimer ==
  /\ Taken > 0
  /\ pos' = pos + Taken
  /\ \/ phase = "header" /\ header' = header \o Chunk /\ UNCHANGED body
     \/ phase = "body" /\ body' = body \o Chunk /\ UNCHANGED header
  /\ elapsed' = 0
  /\ UNCHANGED <<phase, unwritten, spent, returned, peer>>

\* read_exact takes what has arrived.  Its timer runs on.
Read ==
  /\ Taken > 0
  /\ pos' = pos + Taken
  /\ \/ phase = "header" /\ header' = header \o Chunk /\ UNCHANGED body
     \/ phase = "body" /\ body' = body \o Chunk /\ UNCHANGED header
  /\ UNCHANGED <<phase, unwritten, elapsed, spent, returned, peer>>

HeaderRead ==
  /\ phase = "header"
  /\ Wanted = 0
  /\ phase' = "body"
  /\ elapsed' = 0
  /\ UNCHANGED <<unwritten, header, body, spent, returned, pos, peer>>

\* An empty body is complete without a read.
BodyReadFlushes ==
  /\ phase = "body"
  /\ Wanted = 0
  /\ returned' = Append(returned, header \o body)
  /\ phase' = "idle"
  /\ header' = <<>>
  /\ body' = <<>>
  /\ pos' = arrived
  /\ UNCHANGED <<unwritten, elapsed, spent, peer>>

BodyRead ==
  /\ phase = "body"
  /\ Wanted = 0
  /\ returned' = Append(returned, header \o body)
  /\ phase' = "idle"
  /\ header' = <<>>
  /\ body' = <<>>
  /\ UNCHANGED <<unwritten, elapsed, spent, pos, peer>>

\* A broken connection fails the write or the read that is waiting.
Break ==
  /\ closed
  /\ phase = "write" \/ Wanted > 0
  /\ phase' = "io"
  /\ UNCHANGED <<unwritten, header, body, elapsed, spent, returned, pos, peer>>

\* The timer is due, and the operation still cannot make progress.
ExpireAtDeadline ==
  /\ phase \in {"write", "header", "body"}
  /\ elapsed = RESPONSE_TIMEOUT
  /\ phase' = "timeout"
  /\ UNCHANGED <<unwritten, header, body, elapsed, spent, returned, pos, peer>>

ExpireNotInBody ==
  /\ \/ phase = "write"
     \/ phase = "header" /\ Wanted > 0 /\ Taken = 0 /\ ~closed
  /\ elapsed = RESPONSE_TIMEOUT
  /\ phase' = "timeout"
  /\ UNCHANGED <<unwritten, header, body, elapsed, spent, returned, pos, peer>>

Expire ==
  /\ phase = "write" \/ (Wanted > 0 /\ Taken = 0 /\ ~closed)
  /\ elapsed = RESPONSE_TIMEOUT
  /\ phase' = "timeout"
  /\ UNCHANGED <<unwritten, header, body, elapsed, spent, returned, pos, peer>>

Tick ==
  /\ phase \in {"write", "header", "body"}
  /\ elapsed < RESPONSE_TIMEOUT
  /\ elapsed' = elapsed + 1
  /\ spent' = spent + 1
  /\ UNCHANGED <<phase, unwritten, header, body, returned, pos, peer>>

\* The caller is find_rfcomm_channel: it has what it needs, or its ? returned
\* the error, and the stream is dropped.  It never calls again after an error.
Dropped ==
  /\ \/ phase \in {"io", "timeout"}
     \/ phase = "idle" /\ Len(returned) = MaxCalls
  /\ UNCHANGED vars

-----------------------------------------------------------------------------
(* The peer and the network *)

PeerWrites(p) ==
  /\ ~closed
  /\ stream' = stream \o p
  /\ ends' = Append(ends, Len(stream) + Len(p))
  /\ UNCHANGED <<client, arrived, closed>>

Arrive(n) ==
  /\ ~closed
  /\ arrived' = arrived + n
  /\ UNCHANGED <<client, stream, ends, closed>>

PeerCloses ==
  /\ ~closed
  /\ closed' = TRUE
  /\ UNCHANGED <<client, stream, ends, arrived>>

Writes == \E n \in 1..unwritten : Write(n)

Next ==
  \/ \E length \in RequestLengths :
        phase = "idle" /\ Len(returned) < MaxCalls /\ Call(length)
  \/ Writes
  \/ Read
  \/ HeaderRead
  \/ BodyRead
  \/ Break
  \/ Expire
  \/ Tick
  \/ Dropped
  \/ \E p \in Pdus : Len(ends) <= MaxPdus /\ PeerWrites(p)
  \/ \E n \in 1..(Len(stream) - arrived) : Arrive(n)
  \/ PeerCloses

Spec == Init /\ [][Next]_vars

\* The runtime polls a task that can go on and fires timers that are due.
\* Nothing is assumed of the peer, nor of the stream taking the request.
FairSpec ==
  /\ Spec
  /\ WF_vars(Read)
  /\ WF_vars(HeaderRead)
  /\ WF_vars(BodyRead)
  /\ WF_vars(Break)
  /\ WF_vars(Expire)
  /\ WF_vars(Tick)

-----------------------------------------------------------------------------
(* Properties *)

TypeOK ==
  /\ phase \in {"idle", "write", "header", "body", "io", "timeout"}
  /\ unwritten \in Nat
  /\ header \in Seq(Byte) /\ Len(header) <= PDU_HEADER_LEN
  /\ body \in Seq(Byte)
  /\ body # <<>> => Len(header) = PDU_HEADER_LEN /\ Len(body) <= Declared(header)
  /\ elapsed \in 0..RESPONSE_TIMEOUT
  /\ spent \in Nat
  /\ returned \in Seq(Seq(Byte))
  /\ stream \in Seq(Byte)
  /\ ends \in Seq(Nat) /\ Len(ends) >= 1
  /\ arrived \in 0..Len(stream)
  /\ pos \in 0..arrived
  /\ closed \in BOOLEAN

\* The k-th PDU the peer wrote, and whether it declares its own length.
Sent(k) == SubSeq(stream, ends[k] + 1, ends[k + 1])
WellFormed(p) == Len(p) = PDU_HEADER_LEN + Declared(p)

\* The k-th call returns exactly the k-th PDU the peer wrote, as long as each
\* PDU up to it has the length it declares: wherever the network cuts the
\* stream, and however early a PDU comes, no call reads into the next one.
OnePduPerCall ==
  \A k \in 1..Len(returned) :
    (\A j \in 1..k : j < Len(ends) => WellFormed(Sent(j)))
      => k < Len(ends) /\ returned[k] = Sent(k)

\* Whatever lengths the peer declares, the calls hand on the stream as it is:
\* the PDUs returned and the buffers of the current call, put together, are the
\* bytes read so far.  Nothing is dropped between two calls or read twice.
NothingSkipped ==
  FlattenSeq(returned) \o header \o body = SubSeq(stream, 1, pos)

\* A call takes at most three times RESPONSE_TIMEOUT: none of its waits starts
\* its timer again, however slowly the bytes drip in.
CallBound == spent <= 3 * RESPONSE_TIMEOUT

\* Where the PDU of the current call begins in the stream, and how much of it
\* has arrived.
Begin == pos - Len(header) - Len(body)
PduArrived ==
  /\ arrived - Begin >= PDU_HEADER_LEN
  /\ arrived - Begin >=
       PDU_HEADER_LEN + Declared(SubSeq(stream, Begin + 1, Begin + PDU_HEADER_LEN))

\* An answer that is there in full when the timer comes due is returned, not
\* timed out: the deadline and the last byte may race, the byte wins.
ArrivedPduWins ==
  [][(PduArrived /\ phase \in {"header", "body"}) => phase' # "timeout"]_vars

\* Every call returns, whatever the peer does or fails to do.
EveryCallReturns ==
  phase \in {"write", "header"} ~> phase \in {"idle", "io", "timeout"}

\* The doc comment of send_and_receive_pdu: the call, write and reads together,
\* is bounded by RESPONSE_TIMEOUT.  The code bounds each wait on its own.
BoundedByResponseTimeout == spent <= RESPONSE_TIMEOUT
=============================================================================
