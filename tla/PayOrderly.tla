----------------------------- MODULE PayOrderly -----------------------------
(***************************************************************************)
(* Under which circumstances the checkout of PayFlow does what it is meant *)
(* to do.  Nothing in the code binds m_strOrderSn to the popup on screen;  *)
(* it is right as long as                                                  *)
(*   - the user buys again only after everything of the last purchase has  *)
(*     come to rest;                                                       *)
(*   - the server accepts every order, and its reply is handled before the *)
(*     query timer fires or the user touches the popup;                    *)
(*   - the user changes the method only when no QR code is on its way.     *)
(* OrderlySpec is PayFlow restricted to these circumstances.               *)
(***************************************************************************)
EXTENDS PayFlow

AllAtRest == posted = <<>> /\ \A t \in Thread : thread[t] = Idle

\* The popup is open and the number of its order has not arrived.
AwaitingOrder == payPop.visible /\ m_strOrderSn # payPop.payAmount

BuysAtRest == payPop'.payAmount # payPop.payAmount => AllAtRest

OrderAccepted ==
  \A t \in Thread :
    (thread[t].op = "create" /\ thread[t].at = "sending" /\ thread'[t] # thread[t])
      => thread'[t].answer = "ok"

OrderComesFirst == AwaitingOrder => \E t \in Thread : Serve(t) \/ Handle(t)

OneCodeAtATime == selects' # selects => \A t \in Thread : thread[t].op # "qr"

OrderlyNext ==
  /\ Next
  /\ BuysAtRest
  /\ OrderAccepted
  /\ OrderComesFirst
  /\ OneCodeAtATime

OrderlySpec == Init /\ [][OrderlyNext]_vars

-----------------------------------------------------------------------------

\* Every request that names an order names the order of the latest purchase,
\* although its thread read m_strOrderSn on its own time; so a success, a QR
\* code and a close request all concern the popup they came from.
RequestsOwnOrder ==
  /\ \A t \in Thread :
       (thread[t].op \in {"qr", "query", "close"} /\ thread[t].at # "spawned")
         => thread[t].order = payPop.payAmount
  /\ \A i \in DOMAIN posted : posted[i].order = payPop.payAmount

\* Every trade the server holds is over the amount of its own purchase:
\* m_payAmount and the popup's payAmount never leak into another order.
AmountIsOwn ==
  \A m \in Method, o \in Purchase : trade[m][o].st # "none" => trade[m][o].amount = o

\* A QR code that the open popup shows is the one of its order, its amount and
\* the method that is selected, but for the moment in which the Image is already
\* visible and codeUrlChanged is still on its way: then it is the code before.
CodeOnScreen ==
  (payPop.visible /\ imageQr.visible /\ ~CodeAnnounced) =>
    imageQr.source = [method |-> payPop.selected, order |-> payPop.payAmount,
                      amount |-> payPop.payAmount]

\* The checkout refines the abstract one.
Abstract == INSTANCE Checkout WITH
  current <- payPop.payAmount,
  open    <- payPop.visible,
  paid    <- {o \in Purchase : Paid(o)},
  told    <- told

CheckoutSpec == Abstract!Spec
=============================================================================
