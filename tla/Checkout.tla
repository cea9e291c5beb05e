------------------------------ MODULE Checkout ------------------------------
(***************************************************************************)
(* What the payment popup is meant to promise, without threads, requests   *)
(* or replies: checkouts happen one after another, a purchase may be paid  *)
(* from the moment its checkout began, and the user is told of a success   *)
(* only in the latest checkout and only if that purchase has been paid.    *)
(***************************************************************************)
EXTENDS Naturals

CONSTANT MaxPurchases  \* bound: number of checkouts

VARIABLES
  current,  \* number of the latest checkout
  open,     \* its popup is on screen
  paid,     \* purchases that have been paid
  told      \* purchases the user was told are paid

vars == <<current, open, paid, told>>

Init ==
  /\ current = 0
  /\ open = FALSE
  /\ paid = {}
  /\ told = {}

Begin ==
  /\ ~open
  /\ current < MaxPurchases
  /\ current' = current + 1
  /\ open' = TRUE
  /\ UNCHANGED <<paid, told>>

PayFor(p) ==
  /\ paid' = paid \cup {p}
  /\ UNCHANGED <<current, open, told>>

Tell ==
  /\ current \in paid
  /\ told' = told \cup {current}
  /\ UNCHANGED <<current, open, paid>>

End ==
  /\ open
  /\ open' = FALSE
  /\ UNCHANGED <<current, paid, told>>

Next ==
  \/ Begin
  \/ \E p \in 1..current : PayFor(p)
  \/ Tell
  \/ End

Spec == Init /\ [][Next]_vars
=============================================================================
