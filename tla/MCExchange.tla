----------------------------- MODULE MCExchange -----------------------------
(* The services of the fixtures with small records: PBAP has one, with a     *)
(* channel; the public browse group has two, the first without; MAP is held  *)
(* in a form that does not decode.                                           *)
EXTENDS ExchangeServer

MCServices == {4399, 4402, 4098}

RecordBytes(number) == <<53, 12, 9, 0, 4, 53, 7, 53, 5, 25, 0, 3, 8, number>>
OuterBytes(records) == <<53, Len(records)>> \o records

MCAttributeBytes(s) ==
  CASE s = 4399 -> OuterBytes(RecordBytes(13))
    [] s = 4098 -> OuterBytes(<<53, 0>> \o RecordBytes(2))
    [] s = 4402 -> OuterBytes(<<53, 3, 9, 0, 4>>)

\* The two-byte states of the captured exchange: the offset, big-endian.
MCCont(n) == U16(n)
MCOffset(cs) == BigEndian(cs)
=============================================================================
