-------------------------- MODULE MCSessionServer --------------------------
(* Three services: pbap has one record with a channel; browse is the shape  *)
(* of the captured browse response, several records, the first without a    *)
(* channel, over more pages than there are transaction ids; torn is held    *)
(* in a form that does not decode, a record with an id and no value.        *)
EXTENDS SessionServer

C == INSTANCE Codec
MCDecode(bytes) == C!Decode(bytes)

CONSTANTS pbap, browse, torn

MCServices == {pbap, browse, torn}
MCChannels == Byte

\* A record of a protocol descriptor list with nothing but an RFCOMM entry.
RecordBytes(number) == <<53, 12, 9, 0, 4, 53, 7, 53, 5, 25, 0, 3, 8, number>>
OuterBytes(records) == <<53, Len(records)>> \o records

MCAttributeBytes(s) ==
  CASE s = pbap   -> OuterBytes(RecordBytes(13))
    [] s = browse -> OuterBytes(<<53, 0>> \o RecordBytes(2) \o RecordBytes(13))
    [] s = torn   -> OuterBytes(<<53, 3, 9, 0, 4>>)

\* The two-byte states of the captured exchange: the offset, big-endian.
MCCont(n) == <<n \div 256, n % 256>>
MCOffset(cs) == 256 * cs[1] + cs[2]
=============================================================================
