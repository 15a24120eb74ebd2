------------------------------ MODULE Fixtures ------------------------------
(***************************************************************************)
(* The PDUs of tests/fixtures, captured from a phone: a query for each of  *)
(* PBAP and MAP, answered in one page, and one for the public browse       *)
(* group, answered in eight.  A fixture is a string of hexadecimal digits, *)
(* as in its file; hex_decode makes bytes of it.                           *)
(***************************************************************************)
EXTENDS Naturals, Sequences

digits == "0123456789abcdef"
from_str_radix(digit) ==
  (CHOOSE i \in 1..16 : SubSeq(digits, i, i) = digit) - 1

hex_decode(s) ==
  [i \in 1..(Len(s) \div 2) |->
     16 * from_str_radix(SubSeq(s, 2 * i - 1, 2 * i - 1))
       + from_str_radix(SubSeq(s, 2 * i, 2 * i))]

pbap_request == hex_decode(
  "060000000f350319112fffff35050a0000ffff00")

pbap_response == hex_decode(
  "07000000990096359435920900000a4f49112f090001350319112f0900020a000000" \o
  "00090004351135031901003505190003080d35031900080900053503191002090006" \o
  "352409656e09006a09010009667209006a09011009646509006a090120096a610900" \o
  "6a09013009000808ff09000935083506191130090102090100250950686f6e65626f" \o
  "6f6b09020009100309031408090903170a0000000f00")

map_request == hex_decode(
  "060000000f3503191132ffff35050a0000ffff00")

map_response == hex_decode(
  "07000000a0009d359b35990900000a4f49113209000135031911320900020a000000" \o
  "00090004351135031901003505190003080235031900080900053503191002090006" \o
  "352409656e09006a09010009667209006a09011009646509006a090120096a610900" \o
  "6a09013009000808ff09000935083506191134090104090100250b4d4150204d4153" \o
  "2d694f53090200091007090315080009031608020903170a0006027f00")

browse_requests == <<
  hex_decode("060000000f3503191002ffff35050a0000ffff00"),
  hex_decode("06000100113503191002ffff35050a0000ffff0200f3"),
  hex_decode("06000200113503191002ffff35050a0000ffff0201e9"),
  hex_decode("06000300113503191002ffff35050a0000ffff0202df"),
  hex_decode("06000400113503191002ffff35050a0000ffff0203d5"),
  hex_decode("06000500113503191002ffff35050a0000ffff0204cb"),
  hex_decode("06000600113503191002ffff35050a0000ffff0205bf"),
  hex_decode("06000700113503191002ffff35050a0000ffff0206b5")>>

browse_responses == <<
  hex_decode("07000000fb00f636073d356f0900000a4f49180109000135031918010900020a0000" \o
             "00000900043513350619010009001f350919000709000109000e0900053503191002" \o
             "090006352409656e09006a09010009667209006a09011009646509006a090120096a" \o
             "6109006a09013009000808ff09010025044741545435930900000a4f49ee80090001" \o
             "35111c1ff31936572e4b36a2bfb2409b1aa6f40900020a0000000009000435083506" \o
             "1901000910090900053503191002090006352409656e09006a09010009667209006a" \o
             "09011009646509006a090120096a6109006a09013009000808ff090009351635141c" \o
             "4b6f7c7407f449deb0b9ab4304728f0200f3"),
  hex_decode("07000100fb00f629090100090100250a41415020436c69656e7435990900000a4f49" \o
             "113209000135031911320900020a0000000009000435113503190100350519000308" \o
             "0235031900080900053503191002090006352409656e09006a09010009667209006a" \o
             "09011009646509006a090120096a6109006a09013009000808ff0900093508350619" \o
             "1134090104090100250b4d4150204d41532d694f5309020009100709031508000903" \o
             "1608020903170a0006027f35ca0900000a4f49111609000135031911160900020a00" \o
             "000007090004351e350619010009000f351419000f090100350c0908000908060981" \o
             "000986dd09000535031910020900060201e9"),
  hex_decode("07000200fb00f6352409656e09006a09010009667209006a09011009646509006a09" \o
             "0120096a6109006a090130090008080009000935083506191116090100090100251a" \o
             "50414e204e6574776f726b204163636573732050726f66696c6509010125144e6574" \o
             "776f726b2041636365737320506f696e7409030a09000109030b09000d09030c0a00" \o
             "03e800358e0900000a4f49525809000135111c020303021d19415f86f222a2106a0a" \o
             "770900020a00000000090004350c3503190100350519000308010900053503191002" \o
             "090006352409656e09006a09010009667209006a09011009646509006a090120096a" \o
             "6109006a09013009000808ff0900090202df"),
  hex_decode("07000300fb00f635083506191101090102090100250f576972656c65737320694150" \o
             "207632358b0900000a4f49523809000135111c00000000decafadedecadeafdecaca" \o
             "fe0900020a00000000090004350c3503190100350519000308010900053503191002" \o
             "090006352409656e09006a09010009667209006a09011009646509006a090120096a" \o
             "6109006a09013009000808ff09000935083506191101090102090100250c57697265" \o
             "6c6573732069415035a40900000a4f49110e090001350619110e19110f0900020a00" \o
             "00000009000435103506190100090017350619001709010409000535031910020900" \o
             "06352409656e09006a0901000966720203d5"),
  hex_decode("07000400fb00f609006a09011009646509006a090120096a6109006a090130090008" \o
             "08ff0900093508350619110e090105090100250c4156524350204465766963650901" \o
             "01251552656d6f746520436f6e74726f6c2044657669636509031109000235c70900" \o
             "000a4f49110c090001350319110c0900020a00000000090004351035061901000900" \o
             "1735061900170901040900053503191002090006352409656e09006a090100096672" \o
             "09006a09011009646509006a090120096a6109006a09013009000808ff0900093508" \o
             "350619110e09010609000d35213510350619010009001b3506190017090104350d35" \o
             "0619010009100535031900080901000204cb"),
  hex_decode("07000500f900f4250c415652435020446576696365090101251552656d6f74652043" \o
             "6f6e74726f6c204465766963650903110901d135870900000a4f49110a0900013503" \o
             "19110a0900020a000000000900043510350619010009001935061900190901030900" \o
             "053503191002090006352409656e09006a09010009667209006a0901100964650900" \o
             "6a090120096a6109006a09013009000808ff0900093508350619110d090103090100" \o
             "250c417564696f20536f7572636509031109000135920900000a4f49112f09000135" \o
             "0319112f0900020a00000000090004351135031901003505190003080d3503190008" \o
             "090005350319100209000635240205bf"),
  hex_decode("07000600fb00f609656e09006a09010009667209006a09011009646509006a090120" \o
             "096a6109006a09013009000808ff0900093508350619113009010209010025095068" \o
             "6f6e65626f6f6b09020009100309031408090903170a0000000f35900900000a4f49" \o
             "111f090001350619111f1912030900020a00000000090004350c3503190100350519" \o
             "000308080900053503191002090006352409656e09006a09010009667209006a0901" \o
             "1009646509006a090120096a6109006a09013009000808ff0900093508350619111e" \o
             "090108090100251148616e6473667265652047617465776179090301080109031109" \o
             "002f35930900000a4f4912000900010206b5"),
  hex_decode("070007008b008835031912000900020a000000000900053503191002090006352409" \o
             "656e09006a09010009667209006a09011009646509006a090120096a6109006a0901" \o
             "3009000808ff090101250f506e5020496e666f726d6174696f6e0902000901020902" \o
             "0109004c09020209761e090203091160090204280109020509000109a0000a00a026" \o
             "c409afff09000100")>>
=============================================================================
