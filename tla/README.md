# A TLA+ model of bluesdp

bluesdp asks the SDP server of a Bluetooth device for one thing: the RFCOMM channel of a
service. It opens an L2CAP stream, writes a `ServiceSearchAttributeRequest`, reads a
response, repeats the request as long as the response carries a continuation state, decodes
the joined attribute bytes, and looks for a channel in them. This directory models the
program, checks the model with TLC on small instances, and proves the properties that
matter most with TLAPS for every value of the constants. Paths below are relative to the
crate's `src/` directory unless they say otherwise.

## The system

| Component | Source | State | Operations | Hard about it |
|---|---|---|---|---|
| public API | `public.rs`, `transport/live.rs` | none of its own | `query_rfcomm_channel`: parse the address, `connect_sdp`, `find_rfcomm_channel`, map the errors; `connect_sdp` | which stage's error a caller sees; nothing bounds a query as a whole |
| connect | `transport/connect.rs` | loop variable, sleep | `connect_with_retry` | off-by-one in attempts and delays; no timer on an attempt |
| session | `transport/session.rs` | transaction id, attribute bytes, continuation state | `query_once`, `find_rfcomm_channel` | order of pages, echo of the state, wrap of the id, failure between pages, replies that are never compared with the request, end of the loop |
| socket | `transport/socket.rs` | header and body buffers, three timers; the stream | `send_and_receive_pdu` | partial reads and writes, early and late PDUs, wrong lengths, deadline against last byte, closing |
| codec, requests | `codec/encode.rs` | none | `encode` | widths of the length fields |
| codec, elements | `codec/descriptor.rs`, `codec/element.rs` | none | `descriptor`, `payload_len`, `data_element`, `sequence_contents` | skipping every type by its right width, fragments, nesting |
| codec, responses | `codec/pdu_header.rs`, `codec/response.rs`, `codec/extract.rs` | none | `pdu_header`, `raw_response`, `decode_attribute_lists`, `rfcomm_channel` | two length-prefixed regions, odd lists, channels wider than a `u8` |

There is one task per query and nothing is shared between tasks. `query_rfcomm_channel`
calls `connect_sdp`, which passes bluer's `Stream::connect` to `connect_with_retry` as a
callback; then it lends the stream to `find_rfcomm_channel`. That calls `query_once` once
per page, `query_once` calls `encode` and `send_and_receive_pdu`, and the loop calls
`raw_response` on the bytes it returns. What runs concurrently with the task is the rest of
the world: the device that writes PDUs, the channel that delivers their bytes in pieces, and
the clock. An error of any stage returns at once and drops the stream.

What makes each component correct:

- connect: at most `MAX_CONNECT_ATTEMPTS` attempts and not fewer unless one succeeds, a
  delay between any two and none after the last, an end.
- session: each request is the right one for the pages so far; the bytes collected are the
  answer's bytes in order; a result comes from a complete answer only; the loop ends when
  the server behaves.
- socket: one call returns one PDU, to the byte, wherever the stream is cut; bytes are
  neither lost nor read twice; a call ends in bounded time, and not with a timeout when the
  answer is there.
- public API: the error tells which stage failed; a caller waits no longer than the retry
  budget and the timers of the pages add up to; an `Ok` is what the device advertises.
- codec: what a server writes is what is read; a part of it, or something unsupported in
  it, is an error and never a shorter answer; the channel is one the record advertises.

`PROJECT.json` lists, under "hazards", each line where one of these can go wrong and the
properties that see it.

The library modules (`lib.rs`, `transport/mod.rs`, `codec/mod.rs`) declare and re-export;
they have no state and no operation.

## The modules

How they hang together:

| Module | Built from | Implements |
|---|---|---|
| `Query` | `Connect`, `SessionServer` | `Lookup` |
| `SessionServer` | `Session` | `Lookup` |
| `Exchange` | `Session`, `Socket`, `Codec` | |
| `ExchangeServer` | `Exchange` | `SessionServer`, each of its calls `Socket` |
| `Replay` | `Exchange`, `Fixtures` | |
| `CodecTests` | `Codec`, `Fixtures` | |
| `Writer` | `Codec` | |

### Session, SessionServer, Lookup

`Session` is `find_rfcomm_channel` with `query_once`. Its variables `transaction_id`,
`attribute_bytes` and `continuation_state` are the function's local variables, `request` is
what was written last, `outcome` and `channel` are its result, and `pages` records the pages
accepted so far. One action is one stretch of code between two suspensions: `QueryOnce` runs
up to the write; `ReceivePage` and `ReceiveLastPage` are what happens with a page, the second
with the decoding and `find_map`; `Fail` is every `?` on the way. An exchange
(`send_and_receive_pdu` and `raw_response`) is one request and one reply here. The peer is
free: it may send any page of `Replies` at any time, since the code compares neither the PDU
id nor the transaction id of a reply. `DecodeChannels`, a constant operator, is what
`decode_attribute_lists` and `rfcomm_channel` make of the bytes, or `MALFORMED`; the runs
put the real `Decode` of module `Codec` there, the proofs hold for any.

`SessionServer` puts the same client against a server that keeps to the protocol: it cuts
the bytes it holds into pages of any lengths in `PageLengths` and finds its place again by
the continuation state of the request, which is all it knows about a query, as with the
captured exchange of `tests/fixtures`. `Lookup` is the abstract specification: no pages, one
step from no result to the first channel of the records the server holds, or to an error;
its constant `Errors` is what may go wrong whatever the answer is.
`PromiseKept` says that `SessionServer` implements `Lookup`; `service`, `outcome` and
`channel` map to themselves, `Answer` to the decoded answer of the server.

### Socket

`send_and_receive_pdu` on a byte stream. `phase` is the await the task is in: `"write"`,
`"header"`, `"body"`, or outside a call `"idle"`, `"io"`, `"timeout"`. `header` and `body`
are the filled parts of the two buffers, `unwritten` what `write_all` still has to write,
`elapsed` the time on the timer of the current wait. The peer side has `stream`, all bytes
ever written, of which `arrived` have reached the client and `pos` have been read, and
`closed`. A request may have any length, none included: `write_all` of nothing waits for
nothing. `Call` is guarded by the function only in that no call is under way; that
`find_rfcomm_channel` makes none after an error stands in `Next`, and follows in
`ExchangeServer`, where the caller is modelled. `Write` accepts any number of bytes of the
request, `Read` takes all that has arrived up to what is wanted; `HeaderRead`
and `BodyRead` are the code after a completed `read_exact`; `Break` and `Expire` are the two
`map_err`s of each wait. The peer writes any PDU of `Pdus` at any time, also before a
request, bytes arrive in pieces of any size, and the connection may close at any time.

Time is in ticks, and a timer that is due is acted on before the clock goes on (the runtime
is not starved). tokio's `timeout` polls the operation before it looks at the deadline, so
`Expire` needs that the operation cannot make progress. A write may stay blocked although
the deadline is not reached, and may be accepted at any time: nothing is assumed of it.

### Connect

`connect_with_retry` as `connect_sdp` calls it. `attempt` is the loop variable, `elapsed`
the time in the current attempt or sleep, `clock` the time since the call, and `starts`
records when attempts began. Whether and when an attempt succeeds is up to the environment.

### Query

`query_rfcomm_channel`, composed of `Connect` and `SessionServer`, with the mapping of their
errors to `SdpError`. `stage` is the line the function is at; the variables of the two parts
are theirs and change by their actions only. `waited` and `queried` count the ticks in the
exchange under way and in all of them. `FindTick` stops at three times `RESPONSE_TIMEOUT`,
the bound `CallBound` establishes for an exchange. Strings are addresses, and `ValidAddresses`
those `bluer::Address` parses. `QueryPromiseKept` is the refinement of `Lookup` by the whole:
here `result`, not `outcome`, is what a caller sees, and `Errors` are those of the API.

### Exchange, ExchangeServer

`Exchange` takes the place of what `Session` takes as one step: `query_once` encodes a request
to bytes with the `encode` of `Codec`, calls `send_and_receive_pdu` as in `Socket`, and hands
the bytes to `raw_response`. Each of its actions is an action of `Session`, of `Socket`, or
one of each at once: `QueryOnce` begins a call, `Receive` is `BodyRead` with what the loop does
with the page, `Fail` is `Break` or `Expire` with the `?` behind it. `wire` holds the bytes the
client wrote, `heard` how many the server read. `ExchangeServer` adds a server that keeps to
the protocol and has all it knows from those bytes: service, transaction id and continuation
state are read from the request's PDU. It is the detailed specification of `SessionServer`:
`ImplementsServer` maps the variables of the query to themselves and hides the rest.
`HeldAssumption` and `PagesAssumption` are those of `SessionServer` for bytes instead of
numbers; the second adds that a page and its state fit into the 16 bits of the PDU's lengths.
`OkIsAdvertised` says what it all comes to, without `Decode`, `rfcomm_channel` or `find_map`:
an `Ok` carries a channel that a record the server holds advertises, in the words of
`Candidates`, and that record is the first to advertise any.

### Fixtures, Replay, CodecTests

`Fixtures` has the captured PDUs of `tests/fixtures` in hexadecimal, as the tests include
them. `Replay` is `Exchange` with the server task of the tests of `session.rs`, which plays
these back whatever it is asked; cuts of the bytes and the order of the two tasks are left
open, where a test has one of each. `CodecTests` are the unit tests of `src/codec` as
assumptions on `Codec`, in the order of the source. These two tie the model to the program:
what the program's tests say of the code is checked of the model. One assertion of
`session.rs`, that of the continuation states a phone is sent, is an assumption as well
(`ContinuationsAsTested`): where the requests are the captured ones, it is about those alone.

### Codec, Writer

`Codec` holds the pure functions under the names they have in the source. A parser is a function
from bytes to the set of its results, empty when it fails; the kind of error is discarded by
every caller. `descriptor` and `payload_len` are in `Frame`; `data_element` and
`sequence_contents`, which call each other, are one recursive function. `Advertised` and
`Candidates` say, from the format of a record and not from the parser, what channels it offers;
they are vocabulary of the properties. `Writer` is the other side: a server that puts down
leaves and closes sequences over them, with length fields of one, two or four bytes, and
remembers what the bytes stand for. What a leaf is and what it stands for is said by `IsLeaf`,
from the format and not from the parser. A sequence is closed only if its length field can hold
its length, and `PageRoundTrip` is about the pages that fit into the length a PDU declares
(`Fits`): the bytes written up to any cut, with and without bytes behind the page. To a client a
continuation state is an opaque blob: `RequestRoundTrip` takes those of `States` with whatever
was written behind them. The invariants say that the parsers get back what was written, so the
codec is not checked against itself.

The modules named `MC...` give the constants their values; `Facts` and the modules named
`...Proofs` hold the proofs. Operators such as `FixedNil` beside `Fixed` are mutants: the
next operator with a plausible mistake in it, used by nothing; each
property is known to fail when its mutant is put in place (list in `PROJECT.json`).

## The runs

| Run | Checks | Shows |
|---|---|---|
| `session_free` | `TypeOK`, `RequestFollowsPages`, `EncodeNeverFails`, `OkMeansComplete` | whatever comes back, requests and pages stay in step, nothing the peer sends makes `encode` fail, and `Ok` means a complete sequence of pages joined in order |
| `session_server` | `Reassembly`, `PagesBounded`, `PromiseKept`, `QueryEnds` | with a server that behaves, no byte is skipped or repeated for any cut of the pages, the loop ends, the caller gets what `Lookup` promises; exchanges may fail anywhere |
| `socket` | `TypeOK`, `OnePduPerCall`, `NothingSkipped`, `CallBound`, `ArrivedPduWins`, `EveryCallReturns` | framing, bounded time and termination under any cut of the stream, any timing and wrong lengths |
| `connect` | `TypeOK`, `AttemptsSpaced`, `GivesUpLate`, `ReturnsInTime`, `ConnectEnds` | the retry policy with the constants of the code |
| `codec` | `RoundTrip`, `CompleteOrMalformed`, `PageRoundTrip`, `RequestRoundTrip` | bytes written are read back, parts of them never are; a page may end inside an element and be followed by anything, a continuation state is any blob of up to 255 bytes |
| `records` | `NothingTruncated`, `ChannelIsAdvertised` | no attribute of a record is dropped, and no id is cut to 16 bits; the channel is an advertised one, also if the first entry of a list offers none or one too large |
| `query` | `ErrorTellsStage`, `QueryBounded`, `QueryPromiseKept`, `EndsUnlessConnectHangs` | the whole of `query_rfcomm_channel`, failing anywhere: which error means what, how long a caller waits, that it gets what `Lookup` promises, and that only an attempt to connect can hang |
| `exchange` | `Lockstep`, `OkIsAdvertised`, `ImplementsServer`, `DroppedAfterError` | the query on the wire, cut, timed out or broken off anywhere, implements `SessionServer` with its fairness; requests and replies never get out of step, although no id is compared; nothing is read after an error; the channel of an `Ok` is the one the server's records advertise, from its bytes to the caller |
| `replay` | `RequestsAsCaptured`, `EndsAsTested` | the tests of `session.rs` with the captured PDUs, however their bytes are cut: requests equal the capture, the channel is the expected one; as assumptions, the unit tests of the codec and the continuation states of the capture |
| `doc_first_record` | `ChannelOfFirstRecord` | violated, see below |
| `doc_response_timeout` | `BoundedByResponseTimeout` | violated, see below |
| `doc_decode_error` | `MalformedIsDecodeError` | violated, see below |

Three sentences of the documentation say something else than the code does:

- `session.rs:63-64`: "return the RFCOMM channel from the first matching service record".
  Line 96 returns the first channel of any record, and the browse fixture relies on it.
- `socket.rs:35-37`: the exchange is "Bounded by `RESPONSE_TIMEOUT`". Each of its three
  waits is; the exchange is bounded by three times that (`CallBound`), and no less. Lines
  14-15, "applied per read while waiting for a response", have it right for the two reads
  and leave out the write.
- `README.md:18-19` of the crate: "malformed/error responses from the remote device are
  surfaced as a decode error". `response.rs:96,100` take an element that is no sequence for
  an empty list, so a malformed answer can be `Ok(None)`.

### Bounds

- `session_free`: `TidModulus = 3` instead of 2^16, so that ids wrap within the four pages
  of `MaxPages`; replies are the two halves of one answer, the whole of it, an empty page
  and undecodable bytes, under states of 0, 1, 17 and 255 bytes. Order, repetition and
  the boundaries of the state's length are all in reach.
- `session_server`: page lengths 5 and 8 cut an answer of 32 bytes at almost every kind of
  place and give up to seven pages, two wraps of the id. `Replies = {}` and `MaxPages = 0`:
  constants of the free peer only.
- `socket`: `RESPONSE_TIMEOUT = 2`, so that a wait has a tick before the deadline and one at
  it, requests of two bytes and of none, two PDUs and two calls: enough for a read of the
  first call to run into the second PDU. The PDUs are an empty one, a proper one, one that
  declares too much and one that declares too little. A desynchronised header may declare
  more than the stream ever holds; the call then times out, which is part of the check.
- `connect`: 5 attempts, 200 ticks, the values of the code with a tick of a millisecond; an
  attempt takes up to `MaxConnectTime = 2`.
- `codec`: two leaves and two sequences; the leaves are one of each kind the parser tells
  apart, one of them more than 255 bytes long. A continuation state is none, the captured `00
  f3` or 255 bytes, with the bytes written behind it, so that the last state `encode` accepts
  and the first it refuses are both there. `records`: five leaves and three sequences, what it
  takes for a protocol descriptor list with two entries; one of the leaves is an integer of
  four bytes, too wide for an attribute id and for a channel, whose low bytes would do for
  either.
- `query`: the five attempts of the code; `RETRY_DELAY = 2`, `MaxConnectTime = 1` and
  `RESPONSE_TIMEOUT = 1` in ticks, since only sums of them matter; answers of one to three
  pages (of one or two bytes that stand for records), of which one has its channel in the last
  record and one does not decode; a valid and an invalid address.
- `exchange`: answers of 7 to 18 bytes in pages of 6 and 9, so up to three pages; a piece of
  three bytes cuts the header, and everything else at one place at least, and all may come at
  once. `RESPONSE_TIMEOUT = 1`: each wait may or may not be timed out.
- `replay`: the captured bytes as they are, eight pages in the longest; pieces of 5 and 100
  bytes, or all of it.
- TLC's integers have 32 bits: no length or value above 2^31 - 1 is tried, although a `u32`
  goes to 2^32 - 1.

### Fairness

`SessionServer`: weak fairness of `QueryOnce` (the runtime polls a task that can run) and of
`Exchange`: an exchange answers or fails, because each wait has a timer. That is no
assumption in the end: `ExchangeServer` assumes nothing of the server, of the network, or of
the stream taking a request, only that a task that can go on is polled and that timers run
and fire (`ClientFairness`), and `ImplementsServer` has the fairness of `SessionServer` in
what it establishes. `Socket`: weak fairness of what the runtime
does, reads, timers, the clock; none of the peer's actions and none of `Write`, so every
call returns even if the peer never takes a byte. `Connect`: weak fairness of the clock, the
timer, and of a failing attempt (it fails if nothing else
decides it). The last is not in the code: `connect.rs:41`
awaits the attempt without a timer, and `ConnectEnds` is only as good as the kernel's own.
`Query` therefore has
no fairness of `Attempt`, and says instead that the query ends or hangs there; of the rest it
has that of its parts. `Replay` is a test: no wait fails, and both tasks run.
`Session` has no fairness: a free peer need not answer, and one that never stops sending
continuation states keeps the program in its loop for ever.

## The proofs

All but the facts about operators are proofs by an inductive invariant, for every value of
the constants that the named assumptions admit.

- `Facts`: arithmetic, prefixes, and `FlattenSeq`. The library's induction theorems take an
  operator; `NatInduct` is the same fact about a set, and follows from `WFMin`.
  `IterationExists` is what it is needed for most: a function defined by recursion on numbers
  exists, so a `CHOOSE` of it can be unfolded. That gives the equations of `FlattenSeq`
  (`FlattenOneMore`, `FlattenFront`).
- `SessionProofs`, any peer. `Types`, `RequestsAreRight`, `EncodeSucceeds`, `OkIsComplete`. The
  invariant `IInv` adds to `TypeOK` what the loop's head knows: the transaction id is the
  number of pages modulo `TidModulus`, the continuation state is that of the last page, and
  the bytes collected are those of the pages, one behind the other (`Collected`). It is
  needed because `RequestFollowsPages` speaks about the request in flight only, and
  `OkMeansComplete` about the end only. That the id wraps as the number of pages does is
  `ModSuccessor`. `EncodeNeverFails` follows from the type of `Page`: a state that came behind
  a one-byte length.
- `SessionProofs`, a conforming server. `ReassemblyHolds`: before each request the
  continuation state names the number of bytes collected, and those are a prefix of the
  answer (`SInv`); this is inductive although `Reassembly` is not, since between two requests
  nothing is in flight. `PagesAreBounded` strengthens the bound to the bytes collected: each
  page brings one. `KeepsPromise` is the refinement: a page maps to a stutter, the last page to
  `Resolve` or to a decode error, because then the collected bytes are the whole answer.
- `SocketProofs`. `CallsReturnPdus`: the invariant says what the buffers hold in terms of
  the stream (`Buffered`), where the peer's PDUs end (`Ends`), and that the current call
  begins where its PDU does as long as the PDUs before it declared their own lengths
  (`Aligned`). When a body is complete, the header read is that of the PDU, so the length
  read is the length sent (`BodyIsSent`). `CallsAreBounded`: the time of a call is bounded
  by one `RESPONSE_TIMEOUT` per wait that is over and the timer of the current one.
  `AnswersInTimeAreReturned`: when the timer fires on a read, all that arrived has been
  taken, and the header in the buffer is that of the stream, so what is still wanted has not
  arrived. `CallsSkipNothing`: what was returned and what is in the buffers are together the
  stream up to the read position. `Types` contains that no read overfills its buffer. All
  this is proved of `Step`, which is `Next` without the bounds on PDUs and calls that TLC
  needs (`UnboundedInvariance`; `BoundsAreBounds` gives the theorems about `Spec`), so that
  it can be cited where calls are not counted. For a peer whose PDUs have the lengths they
  declare (`AllWellFormed`), `EachCallReturnsItsPdu` needs no further condition.
- `ConnectProofs`. `AttemptsAreSpaced`, `GivesUpAfterBudget`, `ReturnTimeIsBounded`: the
  clock lies between the sum of the delays so far and the sum of the rounds so far.
- `QueryProofs`. `ErrorsTellStages`, `QueryIsBounded`, `QueryKeepsPromise`. The invariant is
  `SInv` of `SessionProofs`, kept because every step of the query is one of the session or
  leaves it alone (`SessionStep`); that of the retry loop from its first attempt on; what a
  stage knows of those before it (`Stages`, `Told`); that the session's result is the answer
  of the device (`Resolved`); and the time (`Timed`): one `3 * RESPONSE_TIMEOUT` for each page
  accepted and for the exchange under way, which the answer has a byte left for. The retry
  loop's part is stated again for the variables of `Query`, with the same argument as in
  `ConnectProofs`. The bound assumes what `MaxConnectTime` says: that an attempt is decided
  by then.
- `CodecProofs`: the lemmas the others rest on, and `DecodeIsTyped`. Big-endian numbers;
  `RequestLayout`, `ResponseReadBack`, `ResponseFollowed` and `ResponseCutShort` for the PDUs;
  for elements, that a complete one is framed whatever follows it (`FrameExtends`) and a part of
  one is not (`FrameCut`). Of bytes nobody is known to have written: what is read of them is
  made of elements through and through (`ElementIsRead`), the attributes of a decoded record are
  all of its elements (`DecodedRecords`), and its channel is one of its `Candidates`
  (`DecodedChannels`). So `DecodeIsTyped`: any bytes are malformed or give, for each record, a
  `u8` or no channel, which is what `SessionServer` assumes of its decoder. `sequence_contents`
  calls itself on shorter bytes, so that it exists as a function, and with that its equation
  (`ContentsUnfold`), is proved by induction on their length: one function up to each length
  (`UpToExists`), any two of which agree (`UnfoldsUnique`), joined into one (`ContentsExist`).
- `ExchangeProofs`. `InLockstep`, `ImplementsServerSafety`, `StreamIsDropped`. `EInv` has three
  parts. A call is under way exactly while the query awaits it, and its error is the end of
  the query (`Together`), so no action that reads or writes is enabled afterwards. What the
  query asks for is an offset the server can find (`QueryInv`). And the bytes in flight are
  in one of few states (`SocketInv`): nothing; the first part of the request, as far as it is
  written; all of it; or one answer to it, of which the buffers hold the front and the stream
  the rest. That is needed because `Lockstep` sees the header of the answer only: where it
  ends follows from the length of its body. The server finds the continuation state by a
  search for the marker of the attribute id list; that the search stops at the right
  place in every request is `StateIsFound`. `ImplementsServerSafety` is `ImplementsServer`
  without the fairness: the step that completes a body maps to a page of the abstract server
  (`ReceivedIsPage`), every other one to its part of the query or to a stutter.
- `ExchangeProofs`, the calls. `ImplementsSocket`: the instance `Calls` of `SocketProofs`
  allows requests of any length and any PDU with a header, and the calls of a query are calls
  of it. A call that failed can leave part of its request to be heard and answered (`Left`);
  while that holds, every step of the wire is a step of `Socket`, so its invariant holds here
  and with it `WireCallsAreBounded`, the bound `FindTick` in `Query` takes, and
  `WireAnswersInTimeAreReturned`. The answers declare their own lengths, so
  `WireCallsReturnAnswers` is `OnePduPerCall` without its condition.
- `ExchangeProofs`, from end to end. `Impl` is the instance of `SessionProofs` the wire
  implements: `AssumptionsHold` proves the assumptions of `Session` and `SessionServer` from
  those of `ExchangeServer`, with `DecodeIsTyped`. By `ImplementsServerSafety` its step lemmas
  apply: `SInv` holds on the wire (`QueryInvariance`, `WireReassembles`), and the two
  refinements, of `SessionServer` by the bytes and of `Lookup` by the pages, are composed in
  `WireKeepsPromise`. From that, and from `DecodedChannels`, `ChannelIsTheServers`: the
  channel an `Ok` carries is what the records behind the bytes advertise (`OkIsAdvertised`).
- `WriterProofs`: all that the runs `codec` and `records` check, for every set of
  leaves, any number and nesting of elements, every state and whatever follows them.
  `ReadAsWritten`, `WholeOrNothing`, `PagesReadBack`, `RequestsReadBack`, `AllAttributesKept`,
  `ChannelsAreAdvertised`. A request does not depend on what was written:
  `EncodedRequestsReadBack` is for every transaction id, every service and every sequence of
  bytes as its continuation state, and `RequestsReadBack` the case the run checks. The
  properties are not inductive: a sequence that is closed is read right only if the elements
  taken into it are, each by itself and in front of anything. `WInv` says so of everything that
  is written, behind any bytes (`AreItems`). It quantifies over all bytes, so TLC cannot
  evaluate it; the run `codec` checks for the bytes in `Junk` what it comes down to
  (`CompleteOrMalformed`). The two properties of records need no invariant: they follow from
  what `CodecProofs` says of any bytes, so they hold of answers no server wrote, too.

The assumptions say what the code or the protocol says: 16-bit ids, a wait of at least a tick,
a state behind a one-byte length, a server that has an answer and whose states name places in
it (`HeldAssumption`), with pages that make progress and fit into a PDU (`PagesAssumption`),
leaves that are elements (`LeavesAssumption`, spelled out by `IsLeaf` without the operators of
`Codec`), and that the value for "no channel" is none. Those of `SessionServer` are proved
where `ExchangeServer` implements it, and those of `Socket` where `Exchange` makes the calls.
TLC evaluates all of them with the values of the runs.

Only model-checked: the liveness properties (`QueryEnds`, `EveryCallReturns`, `ConnectEnds`,
`EndsUnlessConnectHangs`, `EndsAsTested`) and the fairness in `ImplementsServer`, which are out
of the prover's reach, and `RequestsAsCaptured`, which compares with captured
PDUs byte by byte: it is computed, not argued.

## Not modelled

- The text of errors (`Display`), the names of `Uuid16` constants a caller may pass, and the
  module declarations: nothing to check in them. `Uuid16` is the number in `Services`.
- tokio, bluer, nom and bytes: as far as the code uses them, and marked external in
  the map. A runtime that is starved for longer than a timer is not modelled.
- The depth of the recursion in `data_element`, and memory.
- The search itself: whether the server's records match the UUID, and whether it honours
  the attribute range, is the server's business.
- Dropping the future of a query: it drops the stream, and nothing outlives it.
- More than one query at a time: each has a stream of its own, and nothing is shared.

## What is left

Every component with an operation is modelled, and every invariant a passing run checks is
proved but those of `Replay`; so is that the modules fit together, from the bytes on the
stream up to `Lookup`, but for `Query`, whose proofs take the pages of `SessionServer` for its
exchanges and so rest on the bound and the refinement proved for the wire. What could still be
done:

1. Properties of the two hazards that have none in `PROJECT.json`, the unbounded collection of
   a peer that never stops paging and the depth of the recursion: the code bounds neither, so
   there is nothing true to state until it does.
