------------------------------ MODULE MCWriter ------------------------------
(* Leaves of every kind the records of the fixtures hold, those that the     *)
(* parser rejects, and some whose payload looks like a descriptor.           *)
EXTENDS Writer

Leaf(element, bytes) == [meaning |-> {element}, bytes |-> bytes]

Attribute == Leaf(UnsignedInt(4), <<9, 0, 4>>)
Rfcomm    == Leaf(Uuid16(3), <<25, 0, 3>>)
Channel   == Leaf(UnsignedInt(13), <<8, 13>>)
Wide      == Leaf(UnsignedInt(65540), <<10, 0, 1, 0, 4>>)
Uint64    == [meaning |-> {}, bytes |-> <<11, 0, 0, 0, 0, 0, 0, 0, 4>>]
Nil       == Leaf(Unknown, <<0>>)
Text      == Leaf(Unknown, <<37, 2, 53, 9>>)

LongText  == Leaf(Unknown, <<38, 1, 0>> \o [i \in 1..256 |-> i % 256])

MCLeaves == {Attribute, Rfcomm, Channel, Wide, Uint64, Nil, Text, LongText}

\* No state, one a phone sent, and the longest there is, none of them elements: with
\* what is written behind it the last is just too long for a request.
MCStates == {<<>>, <<0, 243>>, [i \in 1..255 |-> i]}
MCJunk == {<<>>, <<8, 13>>}
=============================================================================
