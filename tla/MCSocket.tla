------------------------------ MODULE MCSocket ------------------------------
(* Two PDUs that declare their length, one of them with an empty body, and  *)
(* two that do not: one declares more than it has, one less.                *)
EXTENDS Socket

Empty == <<1, 0, 0, 0, 0>>
Whole == <<7, 0, 1, 0, 2, 9, 8>>
Short == <<7, 0, 2, 0, 3, 4>>
Excess == <<7, 0, 3, 0, 1, 5, 6>>

MCPdus == {Empty, Whole, Short, Excess}
=============================================================================
