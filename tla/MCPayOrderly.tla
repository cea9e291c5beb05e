---------------------------- MODULE MCPayOrderly ----------------------------
(* Two purchases in a row, two slots for overlapping queries. *)
EXTENDS PayOrderly
CONSTANTS x1, x2
MCExtra == {x1, x2}
=============================================================================
