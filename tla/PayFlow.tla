------------------------------- MODULE PayFlow -------------------------------
(***************************************************************************)
(* Buying a package: the payment popup (qmls/PayPopup.qml) and the order   *)
(* operations of HttpClient it drives.  The UI thread runs the popup's     *)
(* handlers and its two timers; every HttpClient operation ends in a       *)
(* detached std::thread that reads the shared members when it starts, not  *)
(* when it was asked for, sends one request, and handles the reply after   *)
(* the request lock has been released.                                     *)
(*                                                                         *)
(* A purchase is the n-th click on a "buy" button.  Its number also stands *)
(* for its goods id, for the amount to pay and for the order number the    *)
(* server gives to it; NoOrder is the empty QString.                       *)
(***************************************************************************)
EXTENDS Naturals, Sequences, FiniteSets

CONSTANTS
  MaxPurchases,  \* bound: how many times the user buys something
  CountDown,     \* seconds an untouched popup stays open (90 in the code)
  Extra,         \* bound: slots for threads of timers and method buttons
  MaxSignals,    \* bound: signals of worker threads waiting in the UI queue
  MaxLeftover,   \* bound: threads still running when the user buys again
  MaxSelects     \* bound: how many times the user changes the method

ASSUME PayAssumption ==
  /\ MaxPurchases \in Nat
  /\ CountDown \in Nat \ {0}
  /\ MaxSignals \in Nat
  /\ MaxLeftover \in Nat
  /\ MaxSelects \in Nat
  /\ Extra \cap ({"create", "close"} \X (1..MaxPurchases)) = {}

Purchase == 1..MaxPurchases
NoOrder  == 0
OrderSn  == 0..MaxPurchases
Method   == {"wechat", "alipay"}

\* A purchase starts one create thread (which goes on as the thread of the
\* first QR code) and one close thread; timers and buttons use Extra.
Thread == ({"create", "close"} \X Purchase) \cup Extra

VARIABLES
  payPop,        \* the popup: visibility, amount, countdown, timers, method
  imageQr,       \* its Image: what it is bound to as of the last evaluation
  m_payAmount,   \* HttpClient: amount of the order being created
  m_strOrderSn,  \* HttpClient: number of the order last created
  m_strCodeUrl,  \* HttpClient: the QR code to show
  m_bQRLoading,  \* HttpClient: the spinner shall hide the QR code
  thread,        \* the job of every thread slot
  posted,        \* signals queued to the UI thread
  told,          \* history: orders for which the user saw "payment succeeded"
  orders,        \* server: orders that exist
  trade,         \* server: the trade of an order with a payment company
  phone,         \* user: the QR code scanned last
  selects        \* user: method changes so far (for the bound)

uiVars     == <<payPop, imageQr, selects>>
clientVars == <<m_payAmount, m_strOrderSn, m_strCodeUrl, m_bQRLoading>>
serverVars == <<orders, trade, phone>>
vars == <<uiVars, clientVars, thread, posted, told, serverVars>>

-----------------------------------------------------------------------------
(* Data *)

NoCode == [method |-> "none", order |-> NoOrder, amount |-> 0]
Code   == [method: Method, order: Purchase, amount: OrderSn]

Idle == [op |-> "none", at |-> "idle", method |-> "none", order |-> NoOrder,
         amount |-> 0, answer |-> "none"]

\* A new thread.  "spawned": std::thread has created it and it has not read
\* m_strOrderSn yet; createOrder's thread does not read it at all.
Job(op, method, amount) ==
  [op |-> op, at |-> IF op = "create" THEN "sending" ELSE "spawned",
   method |-> method, order |-> NoOrder, amount |-> amount, answer |-> "none"]

JobType ==
  [op: {"none", "create", "qr", "query", "close"},
   at: {"idle", "spawned", "sending", "answered", "painted"},
   method: Method \cup {"none"}, order: OrderSn, amount: OrderSn,
   answer: {"none", "ok", "refused"}]

Trade  == [st: {"none", "open", "paid", "closed"}, amount: OrderSn]

\* closePayPopup, after a success or a refusal, qrLoadingChanged ("loading") and
\* codeUrlChanged ("code").  order: history: what the reply was about.
Signal == [why: {"paid", "refused", "loading", "code"}, order: OrderSn]
Queued(kinds) == posted # <<>> /\ Head(posted).why \in kinds

Paid(o) == \E m \in Method : trade[m][o].st = "paid"

TypeOK ==
  /\ payPop \in [visible: BOOLEAN, payAmount: OrderSn, countDown: 0..CountDown,
                 timerClose: BOOLEAN, timerQuery: BOOLEAN, selected: Method]
  /\ imageQr \in [visible: BOOLEAN, source: Code \cup {NoCode}]
  /\ m_payAmount \in OrderSn
  /\ m_strOrderSn \in OrderSn
  /\ m_strCodeUrl \in Code \cup {NoCode}
  /\ m_bQRLoading \in BOOLEAN
  /\ thread \in [Thread -> JobType]
  /\ posted \in Seq(Signal)
  /\ told \subseteq Purchase
  /\ orders \subseteq Purchase
  /\ trade \in [Method -> [Purchase -> Trade]]
  /\ phone \in Code \cup {NoCode}
  /\ selects \in 0..MaxSelects

Init ==
  /\ payPop = [visible |-> FALSE, payAmount |-> 0, countDown |-> 0,
               timerClose |-> FALSE, timerQuery |-> FALSE, selected |-> "wechat"]
  /\ m_payAmount = 0
  /\ m_strOrderSn = NoOrder
  /\ m_strCodeUrl = NoCode
  /\ m_bQRLoading \in BOOLEAN            \* the constructor does not set it
  /\ imageQr = [visible |-> ~m_bQRLoading, source |-> NoCode]
  /\ thread = [t \in Thread |-> Idle]
  /\ posted = <<>>
  /\ told = {}
  /\ orders = {}
  /\ trade = [m \in Method |-> [o \in Purchase |-> [st |-> "none", amount |-> 0]]]
  /\ phone = NoCode
  /\ selects = 0

-----------------------------------------------------------------------------
(* The UI thread *)

\* QML sets the member: if that changes it, the Image is hidden at once.
ShowSpinner ==
  /\ m_bQRLoading' = TRUE
  /\ imageQr' = IF m_bQRLoading THEN imageQr ELSE [imageQr EXCEPT !.visible = FALSE]

\* Mistake: createOrder does not store the amount.
Buy_KeepsAmount(p) ==
  /\ ~payPop.visible
  /\ p = payPop.payAmount + 1
  /\ Cardinality({t \in Thread : thread[t] # Idle}) <= MaxLeftover
  /\ thread' = [thread EXCEPT ![<<"create", p>>] = Job("create", "none", p)]
  /\ payPop' = [visible |-> TRUE, payAmount |-> p, countDown |-> CountDown,
                timerClose |-> TRUE, timerQuery |-> TRUE, selected |-> "wechat"]
  /\ ShowSpinner
  /\ UNCHANGED <<m_payAmount, m_strOrderSn, m_strCodeUrl, posted, told, serverVars,
                 selects>>

\* Mistake: the popup is not modal and a second purchase starts under it.
Buy_NotModal(p) ==
  /\ p = payPop.payAmount + 1
  /\ m_payAmount' = p
  /\ thread' = [thread EXCEPT ![<<"create", p>>] = Job("create", "none", p)]
  /\ payPop' = [visible |-> TRUE, payAmount |-> p, countDown |-> CountDown,
                timerClose |-> TRUE, timerQuery |-> TRUE, selected |-> "wechat"]
  /\ ShowSpinner
  /\ UNCHANGED <<m_strOrderSn, m_strCodeUrl, posted, told, serverVars, selects>>

\* A click on "buy": createOrder, then payPop.open() and its onOpened.  The
\* popup is modal, so no second purchase starts under an open one.
Buy(p) ==
  /\ ~payPop.visible
  /\ p = payPop.payAmount + 1
  /\ Cardinality({t \in Thread : thread[t] # Idle}) <= MaxLeftover
  /\ m_payAmount' = p
  /\ thread' = [thread EXCEPT ![<<"create", p>>] = Job("create", "none", p)]
  /\ payPop' = [visible |-> TRUE, payAmount |-> p, countDown |-> CountDown,
                timerClose |-> TRUE, timerQuery |-> TRUE, selected |-> "wechat"]
  /\ ShowSpinner
  /\ UNCHANGED <<m_strOrderSn, m_strCodeUrl, posted, told, serverVars,
                 selects>>

\* Mistake: onClosed leaves timerQuery running.
ClosePopup_KeepsQuerying(pop) ==
  /\ payPop' = [pop EXCEPT !.visible = FALSE, !.timerClose = FALSE]
  /\ thread' = [thread EXCEPT ![<<"close", pop.payAmount>>] =
                                  Job("close", pop.selected, 0)]
  /\ UNCHANGED <<imageQr, selects>>

\* payPop.close() on an open popup, with onClosed: stop the timers and ask
\* the selected payment company to close the order.
ClosePopup(pop) ==
  /\ payPop' = [pop EXCEPT !.visible = FALSE, !.timerClose = FALSE, !.timerQuery = FALSE]
  /\ thread' = [thread EXCEPT ![<<"close", pop.payAmount>>] =
                                  Job("close", pop.selected, 0)]
  /\ UNCHANGED <<imageQr, selects>>

ClickClose ==
  /\ payPop.visible
  /\ ClosePopup(payPop)
  /\ UNCHANGED <<clientVars, posted, told, serverVars>>

\* Mistake: the countdown is never compared with zero.
TimerCloseTriggered_NoEnd ==
  /\ payPop.timerClose
  /\ payPop' = [payPop EXCEPT !.countDown = @ - 1]
  /\ UNCHANGED <<imageQr, clientVars, thread, posted, told, serverVars, selects>>

\* Once a second.
TimerCloseTriggered ==
  /\ payPop.timerClose
  /\ LET pop == [payPop EXCEPT !.countDown = @ - 1]
     IN  IF pop.countDown <= 0
         THEN ClosePopup(pop)
         ELSE payPop' = pop /\ UNCHANGED <<imageQr, thread, selects>>
  /\ UNCHANGED <<clientVars, posted, told, serverVars>>

\* Every two seconds: ask the selected company for the state of the order.
TimerQueryTriggered(t) ==
  /\ payPop.timerQuery
  /\ thread[t] = Idle
  /\ thread' = [thread EXCEPT ![t] = Job("query", payPop.selected, 0)]
  /\ UNCHANGED <<uiVars, clientVars, posted, told, serverVars>>

\* Mistake: the old code stays on display while the new one is fetched.
Select_NoSpinner(t, m) ==
  /\ payPop.visible
  /\ payPop.selected # m
  /\ thread[t] = Idle
  /\ selects < MaxSelects
  /\ selects' = selects + 1
  /\ payPop' = [payPop EXCEPT !.selected = m, !.countDown = CountDown, !.timerQuery = TRUE]
  /\ thread' = [thread EXCEPT ![t] = Job("qr", m, payPop.payAmount)]
  /\ UNCHANGED <<imageQr, clientVars, posted, told, serverVars>>

\* Mistake: both timers are stopped and only timerQuery is started again.
Select_StopsTimer(t, m) ==
  /\ payPop.visible
  /\ payPop.selected # m
  /\ thread[t] = Idle
  /\ selects < MaxSelects
  /\ selects' = selects + 1
  /\ payPop' = [payPop EXCEPT !.selected = m, !.countDown = CountDown, !.timerClose = FALSE]
  /\ ShowSpinner
  /\ thread' = [thread EXCEPT ![t] = Job("qr", m, payPop.payAmount)]
  /\ UNCHANGED <<m_payAmount, m_strOrderSn, m_strCodeUrl, posted, told, serverVars>>

\* The button of the other payment method: restart the countdown, show the
\* spinner and ask for that company's QR code.
Select(t, m) ==
  /\ payPop.visible
  /\ payPop.selected # m
  /\ thread[t] = Idle
  /\ selects < MaxSelects
  /\ selects' = selects + 1
  /\ payPop' = [payPop EXCEPT !.selected = m, !.countDown = CountDown, !.timerQuery = TRUE]
  /\ ShowSpinner
  /\ thread' = [thread EXCEPT ![t] = Job("qr", m, payPop.payAmount)]
  /\ UNCHANGED <<m_payAmount, m_strOrderSn, m_strCodeUrl, posted, told,
                 serverVars>>

\* main.qml receives a queued closePayPopup; closing a closed popup does nothing.
OnClosePayPopup ==
  /\ Queued({"paid", "refused"})
  /\ posted' = Tail(posted)
  /\ IF payPop.visible THEN ClosePopup(payPop) ELSE UNCHANGED <<uiVars, thread>>
  /\ UNCHANGED <<clientVars, told, serverVars>>

\* The Image's visible is evaluated again ...
OnQrLoadingChanged ==
  /\ Queued({"loading"})
  /\ posted' = Tail(posted)
  /\ imageQr' = [imageQr EXCEPT !.visible = ~m_bQRLoading]
  /\ UNCHANGED <<payPop, selects, clientVars, thread, told, serverVars>>

\* ... and its source, each upon its own signal.
OnCodeUrlChanged ==
  /\ Queued({"code"})
  /\ posted' = Tail(posted)
  /\ imageQr' = [imageQr EXCEPT !.source = m_strCodeUrl]
  /\ UNCHANGED <<payPop, selects, clientVars, thread, told, serverVars>>

-----------------------------------------------------------------------------
(* Worker threads *)

\* A thread starts to run and builds its request: only now does it read
\* m_strOrderSn, whatever order that number belongs to by then.
Start(t) ==
  /\ thread[t].at = "spawned"
  /\ thread' = [thread EXCEPT ![t].at = "sending", ![t].order = m_strOrderSn]
  /\ UNCHANGED <<uiVars, clientVars, posted, told, serverVars>>

Ends(t) == thread' = [thread EXCEPT ![t] = Idle]

\* The reply is in the thread's resp, the request lock is free again and the
\* code after SendHttpRequest is still to run.
Answered(t, a) ==
  thread' = [thread EXCEPT ![t].at = "answered", ![t].answer = a]

\* One request, which the lock in SendHttpRequest makes atomic.  In every
\* operation a failed transfer, a reply that does not parse and (but for
\* createOrder) a status other than 200 end the thread with at most a
\* message: such a thread ends here.  The server may have acted all the same.
ServeCreate(t) ==
  /\ \/ /\ orders' = orders \cup {thread[t].amount}
        /\ Answered(t, "ok") \/ Ends(t)
     \/ /\ orders' = orders
        /\ Answered(t, "refused") \/ Ends(t)
  /\ UNCHANGED <<trade, phone>>

\* A QR code exists for an order the server knows and whose trade is new or
\* open under the same amount.
ServeQR(t) ==
  LET m  == thread[t].method
      o  == thread[t].order
      tr == [st |-> "open", amount |-> thread[t].amount]
  IN  /\ \/ /\ o \in orders
            /\ trade[m][o].st = "none" \/ trade[m][o] = tr
            /\ trade' = [trade EXCEPT ![m][o] = tr]
            /\ Answered(t, "ok") \/ Ends(t)
         \/ trade' = trade /\ Ends(t)
      /\ UNCHANGED <<orders, phone>>

\* Mistake: every reply with status 200 counts as paid.
ServeQuery_AnyState(t) ==
  /\ \/ thread[t].order \in orders /\ Answered(t, "ok")
     \/ Ends(t)
  /\ UNCHANGED serverVars

\* "ok" is trade_state SUCCESS (WeChat) or tradeStatus TRADE_SUCCESS (Alipay).
ServeQuery(t) ==
  /\ \/ /\ thread[t].order \in orders
        /\ trade[thread[t].method][thread[t].order].st = "paid"
        /\ Answered(t, "ok")
     \/ Ends(t)
  /\ UNCHANGED serverVars

\* closeWechatOrder, closeAlipayOrder: the reply is only checked for errors.
ServeClose(t) ==
  LET m == thread[t].method
      o == thread[t].order
  IN  /\ \/ /\ o \in orders
            /\ trade[m][o].st = "open"
            /\ trade' = [trade EXCEPT ![m][o].st = "closed"]
         \/ trade' = trade
      /\ Ends(t)
      /\ UNCHANGED <<orders, phone>>

Serve(t) ==
  /\ thread[t].at = "sending"
  /\ \/ thread[t].op = "create" /\ ServeCreate(t)
     \/ thread[t].op = "qr"     /\ ServeQR(t)
     \/ thread[t].op = "query"  /\ ServeQuery(t)
     \/ thread[t].op = "close"  /\ ServeClose(t)
  /\ UNCHANGED <<uiVars, clientVars, posted, told>>

Emit(s) ==
  /\ Len(posted) < MaxSignals
  /\ posted' = Append(posted, s)

\* Mistake: the QR request is built before the order number is stored.
HandleCreate_QRFirst(t) ==
  /\ thread[t].op = "create"
  /\ thread[t].answer = "ok"
  /\ m_strOrderSn' = thread[t].amount
  /\ thread' = [thread EXCEPT ![t] = [Job("qr", "wechat", m_payAmount) EXCEPT
                                        !.at = "sending", !.order = m_strOrderSn]]
  /\ UNCHANGED <<m_payAmount, m_strCodeUrl, m_bQRLoading, posted, told>>

\* createOrder's reply: a refusal closes the popup; an accepted order goes on
\* with generateWechatQR(m_payAmount) in a thread of its own.
HandleCreate(t) ==
  /\ thread[t].op = "create"
  /\ \/ /\ thread[t].answer = "refused"
        /\ Ends(t)
        /\ Emit([why |-> "refused", order |-> thread[t].amount])
        /\ UNCHANGED m_strOrderSn
     \/ /\ thread[t].answer = "ok"
        /\ m_strOrderSn' = thread[t].amount
        /\ thread' = [thread EXCEPT ![t] = Job("qr", "wechat", m_payAmount)]
        /\ UNCHANGED posted
  /\ UNCHANGED <<m_payAmount, m_strCodeUrl, m_bQRLoading, told>>

\* generateWechatQR's and generateAlipayQR's reply: generateCodeImage stores
\* the code and lets the Image appear ...
HandleQR(t) ==
  /\ thread[t].op = "qr"
  /\ m_strCodeUrl' = [method |-> thread[t].method, order |-> thread[t].order,
                      amount |-> thread[t].amount]
  /\ m_bQRLoading' = FALSE
  /\ Emit([why |-> "loading", order |-> thread[t].order])
  /\ thread' = [thread EXCEPT ![t].at = "painted"]
  /\ UNCHANGED <<m_payAmount, m_strOrderSn, told>>

\* The reply of queryWechatOrderStatus and queryAlipayOrderStatus for a paid
\* order closes the popup and tells the user.  (Its refreshClientInfo(false)
\* changes account data only, no variable of this module.)
HandleQuery(t) ==
  /\ thread[t].op = "query"
  /\ Ends(t)
  /\ Emit([why |-> "paid", order |-> thread[t].order])
  /\ told' = told \cup {thread[t].order}
  /\ UNCHANGED clientVars

Handle(t) ==
  /\ thread[t].at = "answered"
  /\ HandleCreate(t) \/ HandleQR(t) \/ HandleQuery(t)
  /\ UNCHANGED <<uiVars, serverVars>>

\* Mistake: nobody is told that there is a new code to show.
AnnounceCode_Silent(t) ==
  /\ thread[t].at = "painted"
  /\ Ends(t)
  /\ UNCHANGED <<uiVars, clientVars, posted, told, serverVars>>

\* ... before it says that there is a new code to show.
AnnounceCode(t) ==
  /\ thread[t].at = "painted"
  /\ Ends(t)
  /\ Emit([why |-> "code", order |-> thread[t].order])
  /\ UNCHANGED <<uiVars, clientVars, told, serverVars>>

-----------------------------------------------------------------------------
(* The user and the payment companies *)

\* The QR code on screen, whatever code that is, is scanned with a phone.
Scan ==
  /\ payPop.visible /\ imageQr.visible
  /\ imageQr.source # NoCode
  /\ phone' = imageQr.source
  /\ UNCHANGED <<uiVars, clientVars, thread, posted, told, orders, trade>>

\* The phone confirms the payment, the popup being still there or not.
Pay ==
  /\ phone # NoCode
  /\ trade[phone.method][phone.order].st = "open"
  /\ trade' = [trade EXCEPT ![phone.method][phone.order].st = "paid"]
  /\ UNCHANGED <<uiVars, clientVars, thread, posted, told, orders, phone>>

-----------------------------------------------------------------------------

Next ==
  \/ \E p \in Purchase : Buy(p)
  \/ ClickClose
  \/ TimerCloseTriggered
  \/ \E t \in Extra : TimerQueryTriggered(t)
  \/ \E t \in Extra, m \in Method : Select(t, m)
  \/ OnClosePayPopup
  \/ OnQrLoadingChanged
  \/ OnCodeUrlChanged
  \/ \E t \in Thread : Start(t) \/ Serve(t) \/ Handle(t) \/ AnnounceCode(t)
  \/ Scan
  \/ Pay

Spec == Init /\ [][Next]_vars

\* The one-second timer of the UI thread does not depend on any reply.  The
\* user, the server and the worker threads are free to do nothing for ever.
FairSpec == Spec /\ WF_vars(TimerCloseTriggered)
-----------------------------------------------------------------------------
(* Properties that hold whatever the user and the server do *)

\* The user is told "payment succeeded" only for an order that has been paid,
\* and a popup is closed for a success only after it was told: however late the reply is handled
\* and however many queries overlap (queryWechatOrderStatus,
\* queryAlipayOrderStatus).
SuccessOnlyForPaid ==
  /\ \A o \in told : Paid(o)
  /\ \A i \in DOMAIN posted : posted[i].why = "paid" => posted[i].order \in told

\* codeUrlChanged is on its way.
CodeAnnounced ==
  \/ \E t \in Thread : thread[t].at = "painted"
  \/ \E i \in DOMAIN posted : posted[i].why = "code"

\* However replies overtake each other and the buttons: once the spinner is
\* asked for no code is visible, and whenever the screen is behind the members
\* that the workers write, the signal that brings it up to date is on its way
\* (generateCodeImage, the bindings of imageQr).
ScreenFollows ==
  /\ m_bQRLoading => ~imageQr.visible
  /\ imageQr.visible \/ m_bQRLoading \/ \E i \in DOMAIN posted : posted[i].why = "loading"
  /\ imageQr.source = m_strCodeUrl \/ CodeAnnounced

\* The timers run exactly while the popup is open, with time left on the
\* countdown, and the thread that will close this popup's order is still
\* unused: one close request per popup although the cross, the countdown and
\* any number of queued closePayPopup signals compete to close it.
TimersFollowPopup ==
  /\ payPop.timerClose = payPop.visible
  /\ payPop.timerQuery = payPop.visible
  /\ payPop.visible =>
       /\ payPop.countDown > 0
       /\ thread[<<"close", payPop.payAmount>>] = Idle

\* A popup is not open for ever, whatever happens to its requests, unless the
\* user changes the method for ever, each time restarting the countdown.
PopupAlwaysCloses == []<>(~payPop.visible) \/ []<><<selects' # selects>>_selects

-----------------------------------------------------------------------------
(* A property that fails *)

\* The success of an order is announced in the checkout of that order: the
\* popup that a "paid" signal closes was opened for the order it reports.
\* m_strOrderSn survives its popup, so a popup whose createOrder has failed
\* or not yet been answered queries, and celebrates, the previous order.
SuccessIsForOpenPurchase ==
  \A i \in DOMAIN posted :
    (posted[i].why = "paid" /\ payPop.visible) => posted[i].order = payPop.payAmount
=============================================================================
