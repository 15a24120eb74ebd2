----------------------------- MODULE MCRecords -----------------------------
(* The leaves a record with a protocol descriptor list is made of, and a     *)
(* number too large for a channel or an attribute id, though the low byte    *)
(* would do for one and the low half for the other.                          *)
EXTENDS MCWriter

MCRecordLeaves == {Attribute, Rfcomm, Channel, Wide}
=============================================================================
