----------------------------- MODULE MCPayFlow -----------------------------
(* Two purchases, one slot for query and method-button threads. *)
EXTENDS PayFlow
CONSTANTS x1
MCExtra == {x1}
=============================================================================
