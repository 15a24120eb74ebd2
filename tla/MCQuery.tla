------------------------------ MODULE MCQuery ------------------------------
(* A valid and an invalid address, and a device with three services: one     *)
(* record with a channel; three records, the first without; and an answer    *)
(* that does not decode.  Only where the answers are cut matters here, so     *)
(* their bytes stand for records; MCSessionServer has real ones.             *)
EXTENDS Query

CONSTANTS pbap, browse, torn

MCServices == {pbap, browse, torn}
MCChannels == Byte

MCAttributeBytes(s) ==
  CASE s = pbap   -> <<13>>
    [] s = browse -> <<0, 2, 13>>
    [] s = torn   -> <<255, 2>>
MCDecode(bytes) ==
  IF bytes = <<>> \/ bytes[1] = 255
    THEN MALFORMED
    ELSE [i \in 1..Len(bytes) |-> IF bytes[i] = 0 THEN NONE ELSE bytes[i]]

MCCont(n) == <<n>>
MCOffset(cs) == cs[1]
=============================================================================
