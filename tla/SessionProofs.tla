---------------------------- MODULE SessionProofs ----------------------------
(***************************************************************************)
(* First the client of module Session against any peer at all: whatever    *)
(* pages it is sent, in whatever order, its requests are right, they can   *)
(* be encoded, and Ok means a complete answer.  Then against a server that *)
(* keeps to the protocol: the client reassembles the answer, for every     *)
(* answer and every way of cutting it into pages, and what its caller sees *)
(* is the one step of module Lookup.                                       *)
(***************************************************************************)
EXTENDS SessionServer, Facts

-----------------------------------------------------------------------------
(* Any peer.  Nothing SessionServer assumes or adds is used here.             *)

\* The client's variables as a function of the pages it was sent.
FollowsPages ==
  /\ continuation_state = LastState
  /\ Len(continuation_state) <= U8_MAX
  /\ pc # "done" =>
       /\ outcome = "Pending"
       /\ transaction_id = Len(pages) % TidModulus
       /\ \A i \in 1..Len(pages) : pages[i].continuation_state # <<>>

\* What has been collected is what the pages held, joined in order.
BytesOfPages == [i \in 1..Len(pages) |-> pages[i].attribute_bytes]
Collected == attribute_bytes = FlattenSeq(BytesOfPages)

IInv ==
  /\ TypeOK
  /\ FollowsPages
  /\ Collected
  /\ RequestFollowsPages
  /\ EncodeNeverFails
  /\ OkMeansComplete

LEMMA InitIInv == Init => IInv
<1>. SUFFICES ASSUME Init PROVE IInv
  OBVIOUS
<1>1. BytesOfPages = <<>>
  BY DEF Init, BytesOfPages
<1>2. Collected
  BY <1>1, FlattenEmpty DEF Init, Collected
<1>. QED BY <1>2, TidAssumption, DivMod
   DEF Init, IInv, TypeOK, FollowsPages, RequestFollowsPages, EncodeNeverFails,
       OkMeansComplete, LastState, Outcomes, U8_MAX

\* The two fields of a page have the types and the sizes of the wire.
LEMMA PageFields ==
  ASSUME NEW page \in Page
  PROVE  /\ page.attribute_bytes \in Seq(Byte)
         /\ page.continuation_state \in Seq(Byte)
         /\ Len(page.continuation_state) <= U8_MAX
BY DEF Page

\* A transaction id is followed by a transaction id.
LEMMA NextTransactionIdType ==
  ASSUME TypeOK
  PROVE  NextTransactionId \in 0..(TidModulus - 1)
BY TidAssumption, DivMod DEF TypeOK, NextTransactionId

\* Appending a page makes its continuation state the last.
LEMMA AppendedPage ==
  ASSUME NEW page \in Page, pages \in Seq(Page), pages' = Append(pages, page)
  PROVE  /\ pages' \in Seq(Page)
         /\ Len(pages') = Len(pages) + 1
         /\ LastState' = page.continuation_state
         /\ \A i \in 1..Len(pages) : pages'[i] = pages[i]
         /\ pages'[Len(pages')] = page
BY DEF LastState

\* The bytes of a page accepted are the last ones collected.
LEMMA CollectedStep ==
  ASSUME NEW page \in Page, TypeOK, Collected, Accept(page)
  PROVE  Collected'
<1>1. pages \in Seq(Page) /\ pages' = Append(pages, page)
  BY DEF TypeOK, Accept
<1>2. \A i \in 1..Len(pages) : pages[i].attribute_bytes \in Seq(Byte)
  BY <1>1, PageFields
<1>3. BytesOfPages \in Seq(Seq(Byte)) /\ Len(BytesOfPages) = Len(pages)
  BY <1>1, <1>2 DEF BytesOfPages
<1>4. BytesOfPages' = Append(BytesOfPages, page.attribute_bytes)
  <2>1. \A i \in 1..Len(pages) : pages'[i].attribute_bytes = BytesOfPages[i]
    BY <1>1, AppendedPage DEF BytesOfPages
  <2>2. pages'[Len(pages')].attribute_bytes = page.attribute_bytes
    BY <1>1, AppendedPage
  <2>3. BytesOfPages' \in Seq(Seq(Byte)) /\ Len(BytesOfPages') = Len(pages) + 1
    <3>1. \A i \in 1..Len(pages') : pages'[i].attribute_bytes \in Seq(Byte)
      BY <1>1, AppendedPage, PageFields
    <3>. QED BY <1>1, <3>1, AppendedPage DEF BytesOfPages
  <2>4. \A i \in 1..Len(pages) : BytesOfPages'[i] = BytesOfPages[i]
    BY <1>1, <2>1, AppendedPage DEF BytesOfPages
  <2>5. BytesOfPages'[Len(pages) + 1] = page.attribute_bytes
    BY <1>1, <2>2, AppendedPage DEF BytesOfPages
  <2>. QED BY <1>1, <1>3, <2>3, <2>4, <2>5, PageFields, AppendProperties, SeqEqual
<1>5. FlattenSeq(BytesOfPages') = FlattenSeq(BytesOfPages) \o page.attribute_bytes
  BY <1>3, <1>4, PageFields, FlattenAppend
<1>. QED BY <1>5 DEF Collected, Accept, Joined

LEMMA QueryOnceStep == IInv /\ QueryOnce => IInv'
<1>. SUFFICES ASSUME IInv, QueryOnce PROVE IInv'
  OBVIOUS
<1>1. Encodable(continuation_state)
  BY DEF IInv, TypeOK, FollowsPages, Encodable, BodyLength, U8_MAX, U16_MAX
<1>2. TypeOK'
  BY <1>1 DEF IInv, TypeOK, QueryOnce, Request
<1>3. FollowsPages' /\ RequestFollowsPages' /\ EncodeNeverFails'
  BY <1>1 DEF IInv, FollowsPages, RequestFollowsPages, EncodeNeverFails,
              QueryOnce, LastState
<1>4. Collected' /\ OkMeansComplete'
  BY DEF IInv, FollowsPages, Collected, BytesOfPages, OkMeansComplete, QueryOnce
<1>. QED BY <1>2, <1>3, <1>4 DEF IInv

LEMMA ReceivePageStep ==
  ASSUME NEW page \in Page, IInv, ReceivePage(page)
  PROVE  IInv'
<1>1. pages' = Append(pages, page) /\ pages \in Seq(Page)
  BY DEF ReceivePage, Accept, IInv, TypeOK
<1>2. TypeOK'
  BY <1>1, PageFields, AppendedPage, NextTransactionIdType
  DEF IInv, TypeOK, ReceivePage, Accept, Joined
<1>3. transaction_id' = Len(pages') % TidModulus
  <2>1. transaction_id = Len(pages) % TidModulus /\ Len(pages) \in Nat
    BY <1>1 DEF ReceivePage, Accept, IInv, FollowsPages
  <2>2. ((Len(pages) % TidModulus) + 1) % TidModulus = (Len(pages) + 1) % TidModulus
    BY <2>1, TidAssumption, ModSuccessor
  <2>. QED BY <1>1, <2>1, <2>2, AppendedPage DEF ReceivePage, NextTransactionId
<1>4. FollowsPages'
  BY <1>1, <1>3, PageFields, AppendedPage
  DEF IInv, FollowsPages, ReceivePage, Accept
<1>5. RequestFollowsPages' /\ EncodeNeverFails'
  BY DEF IInv, RequestFollowsPages, EncodeNeverFails, ReceivePage
<1>6. Collected'
  BY CollectedStep DEF IInv, ReceivePage
<1>7. OkMeansComplete'
  BY DEF IInv, FollowsPages, OkMeansComplete, ReceivePage, Accept
<1>. QED BY <1>2, <1>4, <1>5, <1>6, <1>7 DEF IInv

LEMMA ReceiveLastPageStep ==
  ASSUME NEW page \in Page, IInv, ReceiveLastPage(page)
  PROVE  IInv'
<1>1. pages' = Append(pages, page) /\ pages \in Seq(Page)
  BY DEF ReceiveLastPage, Accept, IInv, TypeOK
<1>2. TypeOK'
  BY <1>1, PageFields, AppendedPage
  DEF IInv, TypeOK, ReceiveLastPage, Accept, Joined, Outcomes
<1>3. FollowsPages'
  BY <1>1, PageFields, AppendedPage
  DEF IInv, FollowsPages, ReceiveLastPage, Accept
<1>4. RequestFollowsPages' /\ EncodeNeverFails'
  BY DEF RequestFollowsPages, EncodeNeverFails, ReceiveLastPage
<1>5. Collected'
  BY CollectedStep DEF IInv, ReceiveLastPage
<1>6. ASSUME outcome' = "Ok"
      PROVE  /\ DecodeChannels(attribute_bytes') # MALFORMED
             /\ channel' = FirstChannel(DecodeChannels(attribute_bytes'))
  BY <1>6 DEF ReceiveLastPage
<1>7. \A i \in 1..Len(pages') : (pages'[i].continuation_state = <<>>) <=> (i = Len(pages'))
  <2>1. \A i \in 1..Len(pages) : pages[i].continuation_state # <<>>
    BY DEF IInv, FollowsPages, ReceiveLastPage, Accept
  <2>. QED BY <1>1, <2>1, AppendedPage DEF ReceiveLastPage
<1>8. OkMeansComplete'
  <2>1. pages' # <<>>
    BY <1>1, AppendedPage
  <2>. QED BY <1>5, <1>6, <1>7, <2>1 DEF OkMeansComplete, Collected, BytesOfPages
<1>. QED BY <1>2, <1>3, <1>4, <1>5, <1>8 DEF IInv

LEMMA FailStep ==
  ASSUME NEW error \in SocketErrors \cup {"Decode"}, IInv, Fail(error)
  PROVE  IInv'
BY DEF IInv, TypeOK, FollowsPages, RequestFollowsPages, EncodeNeverFails, Collected,
       BytesOfPages, OkMeansComplete, LastState, Fail, Outcomes, SocketErrors

LEMMA StutterStep == IInv /\ UNCHANGED vars => IInv'
BY DEF IInv, TypeOK, FollowsPages, RequestFollowsPages, EncodeNeverFails, Collected,
       BytesOfPages, OkMeansComplete, LastState, vars

\* The invariant holds of every behaviour of the client.
THEOREM Invariance == Spec => []IInv
<1>1. Init => IInv
  BY InitIInv
<1>2. IInv /\ [Next]_vars => IInv'
  BY QueryOnceStep, ReceivePageStep, ReceiveLastPageStep, FailStep, StutterStep,
     RepliesAssumption
  DEF Next, Returned
<1>. QED BY <1>1, <1>2, PTL DEF Spec

\* Every variable has its type, for every set of pages and every modulus.
THEOREM Types == Spec => []TypeOK
BY Invariance, PTL DEF IInv

\* Requests echo what they must and are numbered as they must be.
THEOREM RequestsAreRight == Spec => []RequestFollowsPages
BY Invariance, PTL DEF IInv

\* Ok is returned only when the last page and no page before it ended the paging,
\* with the channel of all pages joined in the order in which they came: for every
\* number of pages of every content, and every decoder.
THEOREM OkIsComplete == Spec => []OkMeansComplete
BY Invariance, PTL DEF IInv

\* encode never fails in a query.
THEOREM EncodeSucceeds == Spec => []EncodeNeverFails
BY Invariance, PTL DEF IInv

-----------------------------------------------------------------------------
(* A server that keeps to the protocol.                                       *)

Served == Len(attribute_bytes)

\* How far the client has come is all there is to know of it.
Progress ==
  /\ Served <= Len(Held)
  /\ attribute_bytes = SubSeq(Held, 1, Served)
  /\ Len(pages) <= Served
  /\ pc # "done" =>
       /\ Served < Len(Held)
       /\ continuation_state = IF Served = 0 THEN <<>> ELSE Cont(Served)
  /\ pc = "done" => outcome # "Pending"

SInv == IInv /\ Progress

-----------------------------------------------------------------------------

LEMMA HeldType ==
  ASSUME service \in Services
  PROVE  /\ Held \in Seq(Byte)
         /\ Len(Held) \in Nat
         /\ Held # <<>>
         /\ Len(Held) > 0
         /\ \A n \in 1..(Len(Held) - 1) :
               /\ Cont(n) \in Seq(Byte)
               /\ Cont(n) # <<>>
               /\ Len(Cont(n)) <= U8_MAX
               /\ Offset(Cont(n)) = n
<1>1. Held \in Seq(Byte) /\ Held # <<>>
  BY ServerAssumption DEF Held
<1>. QED BY <1>1, ServerAssumption DEF Held

\* The request on the wire asks for what comes next.
LEMMA RequestedIsServed ==
  ASSUME SInv, pc = "await"
  PROVE  Requested = Served
<1>1. request.continuation_state = continuation_state
  BY DEF SInv, IInv, RequestFollowsPages, FollowsPages
<1>2. Served \in Nat /\ Served < Len(Held) /\ service \in Services
  BY DEF SInv, IInv, TypeOK, Progress, Served
<1>3. CASE Served = 0
  BY <1>1, <1>3 DEF SInv, Progress, Requested
<1>4. CASE Served # 0
  <2>1. Cont(Served) # <<>> /\ Offset(Cont(Served)) = Served
    BY <1>2, <1>4, HeldType
  <2>. QED BY <1>1, <1>4, <2>1 DEF SInv, Progress, Requested
<1>. QED BY <1>3, <1>4

\* A slice is a page's worth of bytes, and follows what has been collected.
LEMMA SliceFollows ==
  ASSUME SInv, pc = "await", NEW n \in (Served + 1)..Len(Held),
         n - Served <= MAXIMUM_ATTRIBUTE_BYTE_COUNT
  PROVE  /\ Slice(n) \in {s \in Seq(Byte) : Len(s) <= U16_MAX}
         /\ attribute_bytes \o Slice(n) = SubSeq(Held, 1, n)
         /\ Len(SubSeq(Held, 1, n)) = n
<1>1. /\ Served \in Nat /\ service \in Services
      /\ attribute_bytes = SubSeq(Held, 1, Served)
  BY DEF SInv, IInv, TypeOK, Progress, Served
<1>2. Slice(n) = SubSeq(Held, Served + 1, n)
  BY RequestedIsServed DEF Slice
<1>3. Held \in Seq(Byte) /\ Len(Held) \in Nat
  BY <1>1, HeldType
<1>4. \A i \in 1..n : Held[i] \in Byte
  BY <1>3
<1>5. Slice(n) \in Seq(Byte) /\ Len(Slice(n)) = n - Served
  BY <1>1, <1>2, <1>4, SubSeqProperties
<1>6. Len(SubSeq(Held, 1, n)) = n
  BY <1>1, <1>4, SubSeqProperties
<1>7. SubSeq(Held, 1, Served) \o SubSeq(Held, Served + 1, n) = SubSeq(Held, 1, n)
  BY <1>1, <1>3, ConcatAdjacentSubSeq
<1>. QED
  BY <1>1, <1>2, <1>5, <1>6, <1>7 DEF MAXIMUM_ATTRIBUTE_BYTE_COUNT, U16_MAX

LEMMA PageLengthType ==
  ASSUME NEW length \in PageLengths
  PROVE  /\ length \in Nat
         /\ 1 <= length
         /\ length <= MAXIMUM_ATTRIBUTE_BYTE_COUNT
         /\ MAXIMUM_ATTRIBUTE_BYTE_COUNT \in Nat
<1>1. MAXIMUM_ATTRIBUTE_BYTE_COUNT \in Nat
  BY DEF MAXIMUM_ATTRIBUTE_BYTE_COUNT
<1>2. length \in 1..MAXIMUM_ATTRIBUTE_BYTE_COUNT
  BY PageLengthsAssumption
<1>. QED BY <1>1, <1>2

LEMMA ServerInit == Init => SInv
<1>. SUFFICES ASSUME Init PROVE SInv
  OBVIOUS
<1>1. IInv
  BY InitIInv
<1>2. Served = 0 /\ service \in Services
  BY DEF Init, Served
<1>3. SubSeq(Held, 1, 0) = <<>>
  BY SubSeqEmpty
<1>4. Len(Held) > 0 /\ Len(Held) \in Nat
  BY <1>2, HeldType
<1>. QED BY <1>1, <1>2, <1>3, <1>4 DEF Init, SInv, Progress, Served

\* What a page does to the client: the steps of both kinds of page.
LEMMA ServePageStep ==
  ASSUME SInv, NEW length \in PageLengths, pc = "await", ServePage(length)
  PROVE  /\ SInv'
         /\ pc' = "query"
         /\ UNCHANGED <<service, outcome, channel>>
<1>. DEFINE n == Served + length
            page == [attribute_bytes |-> Slice(n), continuation_state |-> Cont(n)]
<1>1. Served \in Nat /\ service \in Services
  BY DEF SInv, IInv, TypeOK, Served
<1>2. n < Len(Held) /\ ReceivePage(page)
  BY RequestedIsServed DEF ServePage
<1>3. n \in (Served + 1)..Len(Held) /\ n - Served <= MAXIMUM_ATTRIBUTE_BYTE_COUNT
  BY <1>1, <1>2, HeldType, PageLengthType
<1>4. n \in 1..(Len(Held) - 1)
  BY <1>1, <1>2, HeldType, PageLengthType
<1>. HIDE DEF n
<1>5. page \in Page
  BY <1>1, <1>3, <1>4, SliceFollows, HeldType DEF Page
<1>6. IInv'
  BY <1>2, <1>5, ReceivePageStep DEF SInv
<1>7. /\ attribute_bytes' = SubSeq(Held, 1, n) /\ Served' = n
      /\ continuation_state' = Cont(n)
  BY <1>2, <1>3, SliceFollows DEF ReceivePage, Accept, Joined, Served
<1>8. Len(pages') = Len(pages) + 1 /\ Len(pages) \in Nat /\ Len(pages) <= Served
  BY <1>2, <1>5, AppendedPage
  DEF SInv, IInv, TypeOK, Progress, ReceivePage, Accept
<1>9. Held' = Held
  BY <1>2 DEF ReceivePage, Accept, Held
<1>10. Progress'
  BY <1>1, <1>2, <1>3, <1>4, <1>7, <1>8, <1>9, HeldType DEF Progress, ReceivePage
<1>. QED BY <1>2, <1>6, <1>10 DEF SInv, ReceivePage, Accept

LEMMA ServeLastPageStep ==
  ASSUME SInv, NEW length \in PageLengths, pc = "await", ServeLastPage(length)
  PROVE  /\ SInv'
         /\ UNCHANGED service
         /\ outcome' = IF Answer(service) = MALFORMED THEN "Decode" ELSE "Ok"
         /\ channel' = IF Answer(service) = MALFORMED
                         THEN NONE ELSE FirstChannel(Answer(service))
<1>. DEFINE n == Len(Held)
            page == [attribute_bytes |-> Slice(n), continuation_state |-> <<>>]
<1>1. Served \in Nat /\ service \in Services /\ Served < n
  BY DEF SInv, IInv, TypeOK, Served, Progress
<1>2. Served + length >= n /\ ReceiveLastPage(page)
  BY RequestedIsServed DEF ServeLastPage
<1>3. n \in (Served + 1)..Len(Held) /\ n - Served <= MAXIMUM_ATTRIBUTE_BYTE_COUNT
  BY <1>1, <1>2, HeldType, PageLengthType
<1>5. page \in Page
  BY <1>3, SliceFollows DEF Page, U8_MAX
<1>6. IInv'
  BY <1>2, <1>5, ReceiveLastPageStep DEF SInv
<1>7. SubSeq(Held, 1, n) = Held
  BY <1>1, HeldType, SubSeqFull
<1>8. attribute_bytes' = Held /\ Served' = n
  BY <1>2, <1>3, <1>7, SliceFollows DEF ReceiveLastPage, Accept, Joined, Served
<1>9. Len(pages') = Len(pages) + 1 /\ Len(pages) \in Nat /\ Len(pages) <= Served
  BY <1>2, <1>5, AppendedPage
  DEF SInv, IInv, TypeOK, Progress, ReceiveLastPage, Accept
<1>10. Held' = Held /\ service' = service
  BY <1>2 DEF ReceiveLastPage, Accept, Held
<1>11. pc' = "done" /\ outcome' # "Pending"
  BY <1>2 DEF ReceiveLastPage
<1>12. Progress'
  BY <1>1, <1>7, <1>8, <1>9, <1>10, <1>11, HeldType DEF Progress
<1>13. DecodeChannels(attribute_bytes') = Answer(service)
  BY <1>8 DEF Answer, Held
<1>. QED BY <1>2, <1>6, <1>10, <1>12, <1>13 DEF SInv, ReceiveLastPage

LEMMA ServerQueryOnceStep ==
  ASSUME SInv, QueryOnce
  PROVE  SInv' /\ UNCHANGED <<service, outcome, channel>>
<1>1. IInv'
  BY QueryOnceStep DEF SInv
<1>2. Encodable(continuation_state)
  BY DEF SInv, IInv, TypeOK, FollowsPages, Encodable, BodyLength, U8_MAX, U16_MAX
<1>. QED
  BY <1>1, <1>2 DEF SInv, Progress, Served, Held, QueryOnce

LEMMA ServerFailStep ==
  ASSUME SInv, NEW error \in SocketErrors, Fail(error)
  PROVE  SInv'
<1>1. IInv'
  BY FailStep DEF SInv
<1>. QED BY <1>1 DEF SInv, Progress, Served, Held, Fail, SocketErrors

LEMMA ServerStutterStep == SInv /\ UNCHANGED vars => SInv'
BY StutterStep DEF SInv, Progress, Served, Held, vars

LEMMA ServerStep == SInv /\ [ServerNext]_vars => SInv'
BY ServerStutterStep, ServerQueryOnceStep, ServePageStep, ServeLastPageStep,
   ServerFailStep
DEF ServerNext, Exchange, Serve, Returned

THEOREM ServerInvariance == ServerSpec => []SInv
<1>1. Init => SInv
  BY ServerInit
<1>2. SInv /\ [ServerNext]_vars => SInv'
  BY ServerStep
<1>. QED BY <1>1, <1>2, PTL DEF ServerSpec

-----------------------------------------------------------------------------

LEMMA CollectsTheAnswer ==
  ASSUME SInv
  PROVE  Reassembly /\ PagesBounded
<1>1. Served \in Nat /\ Served <= Len(Held) /\ attribute_bytes \in Seq(Byte)
  BY DEF SInv, IInv, TypeOK, Progress, Served
<1>2. IsPrefix(attribute_bytes, Held)
  BY <1>1, SubSeqFull DEF SInv, Progress, Served, IsPrefix
<1>3. PagesBounded
  BY HeldType DEF SInv, IInv, TypeOK, Progress, Served, PagesBounded
<1>. QED BY <1>2, <1>3, RequestedIsServed DEF Reassembly, Served

\* No byte is skipped, repeated or misplaced, however the answer is paged.
THEOREM ReassemblyHolds == ServerSpec => []Reassembly
BY CollectsTheAnswer, ServerInvariance, PTL

\* A query takes at most as many exchanges as the answer has bytes.
THEOREM PagesAreBounded == ServerSpec => []PagesBounded
BY CollectsTheAnswer, ServerInvariance, PTL

\* find_map finds the first.
LEMMA FirstChannelIsFirst ==
  ASSUME NEW lists \in Seq(Channels \cup {NONE})
  PROVE  Promise!IsFirstChannel(FirstChannel(lists), lists)
<1>. DEFINE I == {i \in 1..Len(lists) : lists[i] # NONE}
<1>1. CASE I = {}
  <2>1. FirstChannel(lists) = NONE
    BY <1>1 DEF FirstChannel, SelectInSeq
  <2>. QED BY <1>1, <2>1 DEF Promise!IsFirstChannel
<1>2. CASE I # {}
  <2>. I \subseteq Nat
    OBVIOUS
  <2>. HIDE DEF I
  <2>1. \E x \in I : \A y \in I : x <= y
    BY <1>2, LeastElement
  <2>. USE DEF I
  <2>2. Min(I) \in I /\ \A y \in I : Min(I) <= y
    BY <2>1 DEF Min
  <2>3. FirstChannel(lists) = lists[Min(I)]
    BY <1>2, <2>2 DEF FirstChannel, SelectInSeq
  <2>4. \A j \in 1..(Min(I) - 1) : lists[j] = NONE
    BY <2>2
  <2>. QED BY <2>2, <2>3, <2>4 DEF Promise!IsFirstChannel
<1>. QED BY <1>1, <1>2

\* Of the client's steps each is a step of Lookup or none at all.
LEMMA PromiseStep ==
  ASSUME SInv, [ServerNext]_vars
  PROVE  [Promise!Next]_(Promise!vars)
<1>1. CASE QueryOnce
  BY <1>1, ServerQueryOnceStep DEF Promise!vars
<1>2. CASE \E length \in PageLengths : pc = "await" /\ ServePage(length)
  BY <1>2, ServePageStep DEF Promise!vars
<1>3. ASSUME NEW length \in PageLengths, pc = "await", ServeLastPage(length)
      PROVE  Promise!Next
  <2>1. outcome = "Pending" /\ channel = NONE /\ service \in Services
    BY <1>3 DEF SInv, IInv, TypeOK, FollowsPages
  <2>2. CASE Answer(service) = MALFORMED
    BY <1>3, <2>1, <2>2, ServeLastPageStep DEF Promise!Next, Promise!Fail
  <2>3. CASE Answer(service) # MALFORMED
    <3>1. Answer(service) \in Seq(Channels \cup {NONE})
      BY <2>1, <2>3, DecodeAssumption DEF Answer
    <3>2. Promise!IsFirstChannel(channel', Answer(service))
      BY <1>3, <2>3, <3>1, ServeLastPageStep, FirstChannelIsFirst
    <3>. QED
      BY <1>3, <2>1, <2>3, <3>2, ServeLastPageStep DEF Promise!Next, Promise!Resolve
  <2>. QED BY <2>2, <2>3
<1>4. CASE \E error \in SocketErrors : Fail(error)
  BY <1>4 DEF SInv, IInv, FollowsPages, Fail, SocketErrors, Promise!Next, Promise!Fail
<1>5. CASE UNCHANGED vars
  BY <1>5 DEF vars, Promise!vars
<1>. QED
  BY <1>1, <1>2, <1>3, <1>4, <1>5 DEF ServerNext, Exchange, Serve, Returned

\* The paged client implements the one-step Lookup.
THEOREM KeepsPromise == ServerSpec => PromiseKept
<1>1. Init => Promise!Init
  BY DEF Init, Promise!Init
<1>2. SInv /\ [ServerNext]_vars => [Promise!Next]_(Promise!vars)
  BY PromiseStep
<1>. QED
  BY <1>1, <1>2, ServerInvariance, PTL DEF ServerSpec, PromiseKept, Promise!Spec
=============================================================================
