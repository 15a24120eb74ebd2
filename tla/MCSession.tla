----------------------------- MODULE MCSession -----------------------------
(* A free peer.  Its pages are the two halves of an answer of two records,   *)
(* the first without a channel, in any order and any number of times, an     *)
(* empty page and one that is no list at all, under continuation states of   *)
(* 1, 17 and 255 bytes.                                                      *)
EXTENDS Session

C == INSTANCE Codec
MCDecode(bytes) == C!Decode(bytes)

MCChannels == Byte

\* Sequence[Sequence[], Sequence[4, Sequence[Sequence[Uuid16(3), 13]]]]
FirstHalf  == <<53, 17, 53, 0, 53, 13, 9, 0>>
SecondHalf == <<4, 53, 8, 53, 6, 25, 0, 3, 9, 0, 13>>
Answer     == FirstHalf \o SecondHalf

State(len) == [i \in 1..len |-> i % 256]
MCPage(attributes, len) ==
  [attribute_bytes |-> attributes, continuation_state |-> State(len)]

MCReplies == {MCPage(FirstHalf, 1), MCPage(SecondHalf, 17), MCPage(<<>>, 255),
              MCPage(SecondHalf, 0), MCPage(Answer, 0), MCPage(<<>>, 0),
              MCPage(<<8, 13>>, 0)}
=============================================================================
