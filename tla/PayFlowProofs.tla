---------------------------- MODULE PayFlowProofs ----------------------------
(***************************************************************************)
(* Proofs about PayFlow and PayOrderly for every number of purchases, every *)
(* countdown and every pool of threads.                                    *)
(***************************************************************************)
EXTENDS PayOrderly, SequenceTheorems, TLAPS

-----------------------------------------------------------------------------
(* The inductive invariant *)

\* What a slot may hold: a job with the fields its operation needs, whose
\* answer, if it has one, is true of the orders and trades given; only what
\* generateCodeImage was called for has a code to announce.
JobGood(job, os, tr) ==
  /\ job.op = "create" => job.amount \in Purchase
  /\ job.op \in {"qr", "query", "close"} => job.method \in Method
  /\ job.at = "spawned" => job.op \in {"qr", "query", "close"}
  /\ job.at = "painted" => job.op = "qr"
  /\ (job.at \in {"answered", "painted"} /\ job.op = "qr") => job.order \in os
  /\ (job.at = "answered" /\ job.op = "query") =>
       job.order \in os /\ tr[job.method][job.order].st = "paid"

JobsGood == \A t \in Thread : JobGood(thread[t], orders, trade)

\* The close slots of the popup on screen and all slots of later ones are unused.
CloseSlots ==
  /\ payPop.visible => payPop.payAmount \in Purchase
  /\ \A p \in Purchase : p > payPop.payAmount => thread[<<"create", p>>] = Idle
  /\ \A p \in Purchase :
       (p > payPop.payAmount \/ (p = payPop.payAmount /\ payPop.visible))
         => thread[<<"close", p>>] = Idle

\* The part of TimersFollowPopup that CloseSlots does not give.
TimersRun ==
  /\ payPop.timerClose = payPop.visible
  /\ payPop.timerQuery = payPop.visible
  /\ payPop.visible => payPop.countDown > 0

\* Whatever code is stored, shown or scanned, the server knows its order.
CodesKnown == \A c \in {m_strCodeUrl, imageQr.source, phone} : c # NoCode => c.order \in orders

IInv ==
  /\ TypeOK
  /\ JobsGood
  /\ CloseSlots
  /\ TimersRun
  /\ SuccessOnlyForPaid
  /\ CodesKnown
  /\ ScreenFollows

\* What no step of the server takes back.
ServerKeeps ==
  /\ orders \subseteq orders'
  /\ orders' \subseteq Purchase
  /\ trade' \in [Method -> [Purchase -> Trade]]
  /\ \A m \in Method, o \in Purchase :
       /\ trade[m][o].st = "paid" => trade'[m][o].st = "paid"
       /\ trade[m][o].st # "none" =>
            trade'[m][o].st # "none" /\ trade'[m][o].amount = trade[m][o].amount

-----------------------------------------------------------------------------
(* Lemmas *)

\* An unchanged server keeps everything.
LEMMA ServerUnchanged ==
  ASSUME TypeOK, UNCHANGED <<orders, trade>>
  PROVE  ServerKeeps
BY DEF TypeOK, ServerKeeps

\* A slot that receives a good job keeps the type of thread, and every job
\* stays good as the server only moves forward.
LEMMA SlotStep ==
  ASSUME TypeOK, JobsGood, ServerKeeps,
         NEW t \in Thread, NEW j \in JobType, JobGood(j, orders', trade'),
         thread' = [thread EXCEPT ![t] = j]
  PROVE  thread' \in [Thread -> JobType] /\ JobsGood'
<1>1. thread' \in [Thread -> JobType]
  BY DEF TypeOK
<1>2. ASSUME NEW u \in Thread PROVE JobGood(thread'[u], orders', trade')
  <2>1. CASE u = t
    BY <2>1 DEF TypeOK
  <2>2. CASE u # t
    <3>1. thread'[u] = thread[u] /\ thread[u] \in JobType
      BY <2>2 DEF TypeOK
    <3>2. JobGood(thread[u], orders, trade)
      BY DEF JobsGood
    <3>3. orders \subseteq Purchase
      BY DEF TypeOK
    <3> QED
      BY <3>1, <3>2, <3>3 DEF JobGood, ServerKeeps, JobType
  <2> QED BY <2>1, <2>2
<1> QED BY <1>1, <1>2 DEF JobsGood

\* Orders stay paid.
LEMMA FactsKept ==
  ASSUME TypeOK, ServerKeeps
  PROVE  \A o \in Purchase : Paid(o) => \E m \in Method : trade'[m][o].st = "paid"
BY DEF TypeOK, ServerKeeps, Paid

\* If the client's own history and codes are untouched, what they claim
\* stays true.
LEMMA ClaimsKept ==
  ASSUME IInv, ServerKeeps,
         UNCHANGED <<told, posted, m_strCodeUrl, phone>>, imageQr'.source = imageQr.source
  PROVE  SuccessOnlyForPaid' /\ CodesKnown'
<1>1. SuccessOnlyForPaid'
  <2>1. \A o \in told : o \in Purchase
    BY DEF IInv, TypeOK
  <2> QED BY <2>1, FactsKept DEF IInv, SuccessOnlyForPaid, Paid
<1>2. CodesKnown'
  BY DEF IInv, CodesKnown, ServerKeeps
<1> QED BY <1>1, <1>2

\* A signal of this kind stays on its way.
SignalsKept(why) ==
  (\E i \in DOMAIN posted : posted[i].why = why) => \E k \in DOMAIN posted' : posted'[k].why = why

\* A thread with a code to announce still has to.
PaintedKept == \A t \in Thread : thread[t].at = "painted" => thread'[t].at = "painted"

\* The screen follows as long as nothing of it changes and nothing is lost ...
LEMMA ScreenKept ==
  ASSUME ScreenFollows, UNCHANGED <<imageQr, m_bQRLoading, m_strCodeUrl>>,
         SignalsKept("loading"), SignalsKept("code"), PaintedKept
  PROVE  ScreenFollows'
<1>1. CodeAnnounced => CodeAnnounced'
  BY DEF CodeAnnounced, SignalsKept, PaintedKept
<1> QED BY <1>1 DEF ScreenFollows, SignalsKept

\* ... or the spinner hides it.
LEMMA SpinnerStep ==
  ASSUME TypeOK, ScreenFollows, ShowSpinner, UNCHANGED <<posted, m_strCodeUrl>>, PaintedKept
  PROVE  /\ ScreenFollows'
         /\ m_bQRLoading' = TRUE
         /\ imageQr' \in [visible: BOOLEAN, source: Code \cup {NoCode}]
         /\ imageQr'.source = imageQr.source
<1>1. CodeAnnounced => CodeAnnounced'
  BY DEF CodeAnnounced, PaintedKept
<1>2. imageQr \in [visible: BOOLEAN, source: Code \cup {NoCode}] /\ m_bQRLoading \in BOOLEAN
  BY DEF TypeOK
<1>3. /\ imageQr' \in [visible: BOOLEAN, source: Code \cup {NoCode}]
      /\ imageQr'.source = imageQr.source /\ imageQr'.visible = FALSE
  <2>1. CASE m_bQRLoading
    BY <1>2, <2>1 DEF ShowSpinner, ScreenFollows
  <2>2. CASE ~m_bQRLoading
    BY <1>2, <2>2 DEF ShowSpinner
  <2> QED BY <2>1, <2>2
<1> QED BY <1>1, <1>3 DEF ScreenFollows, ShowSpinner

\* What a slot's new job is, and that the other slots keep theirs.
LEMMA NewJob ==
  ASSUME TypeOK, NEW t \in Thread, NEW j, thread' = [thread EXCEPT ![t] = j]
  PROVE  thread'[t] = j /\ \A u \in Thread : u # t => thread'[u] = thread[u]
BY DEF TypeOK

LEMMA PaintedStep ==
  ASSUME TypeOK, NEW t \in Thread, thread[t].at # "painted", NEW j,
         thread' = [thread EXCEPT ![t] = j]
  PROVE  PaintedKept
BY NewJob DEF PaintedKept

\* Close and create slots are different, and none is one of Extra.
LEMMA SlotsDisjoint ==
  ASSUME NEW p \in Purchase
  PROVE  /\ <<"create", p>> \in Thread
         /\ <<"close", p>> \in Thread
         /\ <<"close", p>> \notin Extra
         /\ <<"create", p>> \notin Extra
         /\ \A q : <<"create", q>> # <<"close", p>>
         /\ \A q : <<"close", q>> # <<"create", p>>
BY PayAssumption DEF Thread, Purchase

\* New jobs are good.
LEMMA CreateJobGood ==
  ASSUME NEW p \in Purchase, NEW os, NEW tr
  PROVE  Job("create", "none", p) \in JobType /\ JobGood(Job("create", "none", p), os, tr)
BY PayAssumption DEF Job, JobType, JobGood, OrderSn, NoOrder, Purchase

LEMMA JobIsGood ==
  ASSUME NEW op \in {"qr", "query", "close"}, NEW m \in Method, NEW a \in OrderSn,
         NEW os, NEW tr
  PROVE  Job(op, m, a) \in JobType /\ JobGood(Job(op, m, a), os, tr)
BY PayAssumption DEF Job, JobType, JobGood, OrderSn, NoOrder

-----------------------------------------------------------------------------
(* The initial states *)

LEMMA InitInv == Init => IInv
<1> SUFFICES ASSUME Init PROVE IInv
  OBVIOUS
<1>1. TypeOK
  BY PayAssumption DEF Init, TypeOK, OrderSn, NoOrder, Method, NoCode, Idle, JobType, Trade,
     Purchase
<1>2. JobsGood
  BY DEF Init, JobsGood, JobGood, Idle
<1>3. CloseSlots
  BY SlotsDisjoint DEF Init, CloseSlots
<1>4. TimersRun /\ SuccessOnlyForPaid /\ CodesKnown
  BY DEF Init, TimersRun, SuccessOnlyForPaid, CodesKnown
<1>5. ScreenFollows
  <2>1. /\ imageQr.visible = ~m_bQRLoading /\ imageQr.source = NoCode /\ m_strCodeUrl = NoCode
        /\ m_bQRLoading \in BOOLEAN
    BY DEF Init
  <2> QED BY <2>1 DEF ScreenFollows
<1> QED BY <1>1, <1>2, <1>3, <1>4, <1>5 DEF IInv

-----------------------------------------------------------------------------
(* The UI thread *)

LEMMA BuyInv ==
  ASSUME IInv, NEW p \in Purchase, Buy(p)
  PROVE  IInv'
<1> DEFINE j == Job("create", "none", p)
<1>1. ServerKeeps
  BY ServerUnchanged DEF IInv, Buy, serverVars
<1>2. j \in JobType /\ JobGood(j, orders', trade')
  BY CreateJobGood
<1>3. thread' \in [Thread -> JobType] /\ JobsGood'
  BY <1>1, <1>2, SlotStep, SlotsDisjoint DEF IInv, Buy
<1>0. PaintedKept
  <2>1. thread[<<"create", p>>] = Idle
    BY DEF Buy, IInv, CloseSlots, TypeOK, OrderSn, Purchase
  <2>2. thread' = [thread EXCEPT ![<<"create", p>>] = j] /\ TypeOK
    BY DEF Buy, IInv
  <2>3. thread[<<"create", p>>].at # "painted"
    BY <2>1 DEF Idle
  <2> HIDE DEF j
  <2> QED BY <2>2, <2>3, SlotsDisjoint, PaintedStep
<1>s. /\ ScreenFollows' /\ m_bQRLoading' = TRUE /\ imageQr'.source = imageQr.source
      /\ imageQr' \in [visible: BOOLEAN, source: Code \cup {NoCode}]
  BY <1>0, SpinnerStep DEF IInv, Buy
<1>4. TypeOK'
  BY <1>3, <1>s, PayAssumption DEF IInv, Buy, serverVars, TypeOK, OrderSn, Purchase, Method
<1>5. CloseSlots'
  <2>1. /\ payPop'.payAmount = p /\ payPop.payAmount \in OrderSn /\ p = payPop.payAmount + 1
        /\ thread' = [thread EXCEPT ![<<"create", p>>] = j]
    BY DEF Buy, IInv, TypeOK
  <2>2. ASSUME NEW q \in Purchase, q > p \/ q = p PROVE thread'[<<"close", q>>] = Idle
    <3>1. q > payPop.payAmount
      BY <2>1, <2>2 DEF OrderSn, Purchase
    <3> QED BY <2>1, <3>1, SlotsDisjoint DEF IInv, CloseSlots, TypeOK
  <2>3. ASSUME NEW q \in Purchase, q > p PROVE thread'[<<"create", q>>] = Idle
    <3>1. q > payPop.payAmount /\ <<"create", q>> # <<"create", p>>
      BY <2>1, <2>3 DEF OrderSn, Purchase
    <3> QED BY <2>1, <3>1, SlotsDisjoint DEF IInv, CloseSlots, TypeOK
  <2> QED BY <2>1, <2>2, <2>3 DEF CloseSlots
<1>6. TimersRun'
  BY PayAssumption DEF Buy, TimersRun
<1>7. SuccessOnlyForPaid' /\ CodesKnown'
  BY <1>1, <1>s, ClaimsKept DEF Buy, serverVars
<1> QED BY <1>3, <1>4, <1>5, <1>6, <1>7, <1>s DEF IInv

\* Closing an open popup, whatever triggered it.
LEMMA ClosePopupInv ==
  ASSUME IInv,
         NEW pop \in [visible: BOOLEAN, payAmount: OrderSn, countDown: 0..CountDown,
                      timerClose: BOOLEAN, timerQuery: BOOLEAN, selected: Method],
         payPop.visible, pop.payAmount = payPop.payAmount,
         ClosePopup(pop), UNCHANGED <<orders, trade>>
  PROVE  /\ thread' \in [Thread -> JobType]
         /\ payPop' \in [visible: BOOLEAN, payAmount: OrderSn, countDown: 0..CountDown,
                         timerClose: BOOLEAN, timerQuery: BOOLEAN, selected: Method]
         /\ JobsGood' /\ CloseSlots' /\ TimersRun'
         /\ PaintedKept /\ UNCHANGED imageQr
<1> DEFINE j == Job("close", pop.selected, 0)
           c == <<"close", pop.payAmount>>
<1>1. ServerKeeps
  BY ServerUnchanged DEF IInv
<1>2. pop.payAmount \in Purchase
  BY DEF IInv, CloseSlots
<1>3. j \in JobType /\ JobGood(j, orders', trade')
  BY PayAssumption, JobIsGood DEF OrderSn
<1>4. thread' \in [Thread -> JobType] /\ JobsGood'
  BY <1>1, <1>2, <1>3, SlotStep, SlotsDisjoint DEF IInv, ClosePopup
<1>5. payPop' \in [visible: BOOLEAN, payAmount: OrderSn, countDown: 0..CountDown,
                   timerClose: BOOLEAN, timerQuery: BOOLEAN, selected: Method]
  BY DEF ClosePopup
<1>6. CloseSlots'
  <2>1. payPop'.visible = FALSE /\ payPop'.payAmount = pop.payAmount
    BY DEF ClosePopup
  <2> SUFFICES ASSUME NEW q \in Purchase, q > pop.payAmount
               PROVE  thread'[<<"close", q>>] = Idle /\ thread'[<<"create", q>>] = Idle
    BY <2>1 DEF CloseSlots
  <2>2. <<"close", q>> # c /\ <<"create", q>> # c
    BY <1>2, SlotsDisjoint DEF Purchase
  <2> QED BY <2>2, SlotsDisjoint DEF ClosePopup, IInv, CloseSlots, TypeOK
<1>7. TimersRun'
  BY DEF ClosePopup, TimersRun
<1>8. PaintedKept
  <2>1. thread[c] = Idle /\ thread' = [thread EXCEPT ![c] = j] /\ TypeOK
    BY <1>2 DEF ClosePopup, IInv, CloseSlots
  <2>2. c \in Thread
    BY <1>2, SlotsDisjoint
  <2> HIDE DEF j, c
  <2>3. thread[c].at # "painted"
    BY <2>1 DEF Idle
  <2> QED BY <2>1, <2>2, <2>3, PaintedStep
<1> QED BY <1>4, <1>5, <1>6, <1>7, <1>8 DEF ClosePopup

LEMMA ClickCloseInv ==
  ASSUME IInv, ClickClose
  PROVE  IInv'
<1>1. /\ payPop \in [visible: BOOLEAN, payAmount: OrderSn, countDown: 0..CountDown,
                     timerClose: BOOLEAN, timerQuery: BOOLEAN, selected: Method]
      /\ ClosePopup(payPop) /\ payPop.visible /\ UNCHANGED <<orders, trade>>
  BY DEF IInv, TypeOK, ClickClose, serverVars
<1>2. JobsGood' /\ CloseSlots' /\ TimersRun'
  BY <1>1, ClosePopupInv
<1>3. TypeOK'
  BY <1>1, ClosePopupInv DEF IInv, TypeOK, ClickClose, ClosePopup, clientVars, serverVars
<1>4. SuccessOnlyForPaid' /\ CodesKnown'
  BY <1>1, ServerUnchanged, ClaimsKept DEF IInv, ClickClose, ClosePopup, clientVars, serverVars
<1>5. ScreenFollows'
  BY <1>1, ClosePopupInv, ScreenKept DEF IInv, ClickClose, SignalsKept, clientVars
<1> QED BY <1>2, <1>3, <1>4, <1>5 DEF IInv

LEMMA TimerCloseInv ==
  ASSUME IInv, TimerCloseTriggered
  PROVE  IInv'
<1> DEFINE pop == [payPop EXCEPT !.countDown = @ - 1]
<1>1. /\ payPop \in [visible: BOOLEAN, payAmount: OrderSn, countDown: 0..CountDown,
                     timerClose: BOOLEAN, timerQuery: BOOLEAN, selected: Method]
      /\ payPop.visible /\ payPop.countDown > 0
      /\ UNCHANGED <<orders, trade>>
  BY DEF IInv, TypeOK, TimersRun, TimerCloseTriggered, serverVars
<1>2. /\ pop \in [visible: BOOLEAN, payAmount: OrderSn, countDown: 0..CountDown,
                  timerClose: BOOLEAN, timerQuery: BOOLEAN, selected: Method]
      /\ pop.payAmount = payPop.payAmount /\ pop.visible
      /\ pop.timerClose = payPop.timerClose /\ pop.timerQuery = payPop.timerQuery
  BY <1>1, PayAssumption
<1>3. UNCHANGED imageQr /\ SuccessOnlyForPaid' /\ CodesKnown'
  <2>1. UNCHANGED imageQr
    BY DEF TimerCloseTriggered, ClosePopup
  <2> QED BY <1>1, <2>1, ServerUnchanged, ClaimsKept
          DEF IInv, TimerCloseTriggered, clientVars, serverVars
<1>4. CASE pop.countDown <= 0
  <2>1. ClosePopup(pop)
    BY <1>4 DEF TimerCloseTriggered
  <2>2. /\ thread' \in [Thread -> JobType]
        /\ payPop' \in [visible: BOOLEAN, payAmount: OrderSn, countDown: 0..CountDown,
                        timerClose: BOOLEAN, timerQuery: BOOLEAN, selected: Method]
        /\ JobsGood' /\ CloseSlots' /\ TimersRun' /\ PaintedKept
    BY <2>1, <1>1, <1>2, ClosePopupInv
  <2>3. TypeOK'
    BY <2>1, <2>2 DEF IInv, TypeOK, TimerCloseTriggered, ClosePopup, clientVars, serverVars
  <2>4. ScreenFollows'
    BY <2>2, <1>3, ScreenKept DEF IInv, TimerCloseTriggered, SignalsKept, clientVars
  <2> QED BY <2>2, <2>3, <2>4, <1>3 DEF IInv
<1>5. CASE ~(pop.countDown <= 0)
  <2>1. payPop' = pop /\ UNCHANGED <<imageQr, thread, selects>>
    BY <1>5 DEF TimerCloseTriggered
  <2>2. TypeOK'
    BY <2>1, <1>2 DEF IInv, TypeOK, TimerCloseTriggered, clientVars, serverVars
  <2>3. JobsGood'
    BY <2>1, <1>1 DEF IInv, JobsGood
  <2>4. CloseSlots'
    BY <2>1, <1>1, <1>2 DEF IInv, CloseSlots
  <2>5. TimersRun'
    BY <2>1, <1>2, <1>5 DEF IInv, TimersRun
  <2>6. ScreenFollows'
    BY <2>1, <1>3, ScreenKept
    DEF IInv, TimerCloseTriggered, SignalsKept, PaintedKept, clientVars
  <2> QED BY <2>2, <2>3, <2>4, <2>5, <2>6, <1>3 DEF IInv
<1> QED BY <1>4, <1>5

\* A new job in an unused slot of Extra.
LEMMA ExtraSlotStep ==
  ASSUME IInv, ServerKeeps, NEW t \in Extra, thread[t] = Idle,
         NEW op \in {"qr", "query"}, NEW m \in Method, NEW a \in OrderSn,
         thread' = [thread EXCEPT ![t] = Job(op, m, a)],
         payPop'.visible = payPop.visible, payPop'.payAmount = payPop.payAmount
  PROVE  thread' \in [Thread -> JobType] /\ JobsGood' /\ CloseSlots' /\ PaintedKept
<1>1. t \in Thread
  BY DEF Thread
<1>2. thread' \in [Thread -> JobType] /\ JobsGood'
  BY <1>1, JobIsGood, SlotStep DEF IInv
<1>3. CloseSlots'
  BY SlotsDisjoint DEF IInv, CloseSlots, TypeOK
<1>4. PaintedKept
  <2> DEFINE j == Job(op, m, a)
  <2>1. thread' = [thread EXCEPT ![t] = j] /\ TypeOK /\ thread[t].at # "painted"
    BY DEF IInv, Idle
  <2> HIDE DEF j
  <2> QED BY <1>1, <2>1, PaintedStep
<1> QED BY <1>2, <1>3, <1>4

LEMMA TimerQueryInv ==
  ASSUME IInv, NEW t \in Extra, TimerQueryTriggered(t)
  PROVE  IInv'
<1>1. ServerKeeps
  BY ServerUnchanged DEF IInv, TimerQueryTriggered, serverVars
<1>2. payPop.selected \in Method /\ 0 \in OrderSn
  BY PayAssumption DEF IInv, TypeOK, OrderSn
<1>3. thread' \in [Thread -> JobType] /\ JobsGood' /\ CloseSlots' /\ PaintedKept
  BY <1>1, <1>2, ExtraSlotStep DEF TimerQueryTriggered, uiVars
<1>4. TypeOK'
  BY <1>3 DEF IInv, TypeOK, TimerQueryTriggered, uiVars, clientVars, serverVars
<1>5. TimersRun'
  BY DEF IInv, TimersRun, TimerQueryTriggered, uiVars
<1>6. SuccessOnlyForPaid' /\ CodesKnown'
  BY <1>1, ClaimsKept DEF TimerQueryTriggered, uiVars, clientVars, serverVars
<1>7. ScreenFollows'
  BY <1>3, ScreenKept DEF IInv, TimerQueryTriggered, SignalsKept, uiVars, clientVars
<1> QED BY <1>3, <1>4, <1>5, <1>6, <1>7 DEF IInv

LEMMA SelectInv ==
  ASSUME IInv, NEW t \in Extra, NEW m \in Method, Select(t, m)
  PROVE  IInv'
<1>1. ServerKeeps
  BY ServerUnchanged DEF IInv, Select, serverVars
<1>2. /\ payPop' \in [visible: BOOLEAN, payAmount: OrderSn, countDown: 0..CountDown,
                      timerClose: BOOLEAN, timerQuery: BOOLEAN, selected: Method]
      /\ payPop'.visible = payPop.visible /\ payPop'.payAmount = payPop.payAmount
      /\ payPop'.timerClose = payPop.timerClose /\ payPop'.timerQuery = TRUE
      /\ payPop'.countDown = CountDown /\ payPop.payAmount \in OrderSn
  <2>1. /\ payPop \in [visible: BOOLEAN, payAmount: OrderSn, countDown: 0..CountDown,
                      timerClose: BOOLEAN, timerQuery: BOOLEAN, selected: Method]
        /\ payPop' = [payPop EXCEPT !.selected = m, !.countDown = CountDown,
                                    !.timerQuery = TRUE]
    BY DEF IInv, TypeOK, Select
  <2>2. payPop' = [visible |-> payPop.visible, payAmount |-> payPop.payAmount,
                   countDown |-> CountDown, timerClose |-> payPop.timerClose,
                   timerQuery |-> TRUE, selected |-> m]
    BY <2>1
  <2>3. /\ payPop.visible \in BOOLEAN /\ payPop.timerClose \in BOOLEAN
        /\ payPop.payAmount \in OrderSn /\ CountDown \in 0..CountDown
    BY <2>1, PayAssumption
  <2>4. payPop' \in [visible: BOOLEAN, payAmount: OrderSn, countDown: 0..CountDown,
                     timerClose: BOOLEAN, timerQuery: BOOLEAN, selected: Method]
    BY <2>2, <2>3
  <2>5. /\ payPop'.visible = payPop.visible /\ payPop'.payAmount = payPop.payAmount
        /\ payPop'.timerClose = payPop.timerClose /\ payPop'.timerQuery = TRUE
        /\ payPop'.countDown = CountDown
    BY <2>2
  <2> QED BY <2>3, <2>4, <2>5
<1>3. thread' \in [Thread -> JobType] /\ JobsGood' /\ CloseSlots' /\ PaintedKept
  BY <1>1, <1>2, ExtraSlotStep DEF Select
<1>s. /\ ScreenFollows' /\ m_bQRLoading' = TRUE /\ imageQr'.source = imageQr.source
      /\ imageQr' \in [visible: BOOLEAN, source: Code \cup {NoCode}]
  BY <1>3, SpinnerStep DEF IInv, Select
<1>4. TypeOK'
  BY <1>2, <1>3, <1>s, PayAssumption DEF IInv, TypeOK, Select, serverVars
<1>5. TimersRun'
  <2>1. payPop.visible /\ payPop.timerClose = TRUE
    BY DEF IInv, TypeOK, TimersRun, Select
  <2>2. payPop'.visible = TRUE /\ payPop'.timerClose = TRUE
    BY <2>1, <1>2 DEF IInv, TypeOK
  <2> QED BY <2>2, <1>2, PayAssumption DEF TimersRun
<1>6. SuccessOnlyForPaid' /\ CodesKnown'
  BY <1>1, <1>s, ClaimsKept DEF Select, serverVars
<1> QED BY <1>3, <1>4, <1>5, <1>6, <1>s DEF IInv

\* The tail of a queue of signals holds nothing new, and all but the head.
LEMMA TailSignals ==
  ASSUME NEW s \in Seq(Signal), s # <<>>
  PROVE  /\ Tail(s) \in Seq(Signal)
         /\ \A i \in DOMAIN Tail(s) : \E k \in DOMAIN s : Tail(s)[i] = s[k]
         /\ \A i \in DOMAIN s : s[i] = Head(s) \/ \E k \in DOMAIN Tail(s) : Tail(s)[k] = s[i]
<1>1. /\ Tail(s) \in Seq(Signal) /\ Len(Tail(s)) = Len(s) - 1
      /\ \A i \in 1..Len(Tail(s)) : Tail(s)[i] = s[i+1]
      /\ Head(s) = s[1] /\ Len(s) \in Nat /\ DOMAIN s = 1..Len(s)
      /\ DOMAIN Tail(s) = 1..Len(Tail(s))
  BY HeadTailProperties
<1>2. ASSUME NEW i \in DOMAIN Tail(s) PROVE \E k \in DOMAIN s : Tail(s)[i] = s[k]
  <2>1. i \in 1..Len(Tail(s)) /\ i + 1 \in DOMAIN s
    BY <1>1
  <2> QED BY <1>1, <2>1
<1>3. ASSUME NEW i \in DOMAIN s, i # 1 PROVE \E k \in DOMAIN Tail(s) : Tail(s)[k] = s[i]
  <2>1. i - 1 \in 1..Len(Tail(s)) /\ (i - 1) + 1 = i
    BY <1>1, <1>3
  <2>2. Tail(s)[i - 1] = s[i]
    BY <1>1, <2>1
  <2> QED BY <1>1, <2>1, <2>2
<1> QED BY <1>1, <1>2, <1>3

\* The UI thread takes the first signal from its queue.
LEMMA TakeStep ==
  ASSUME TypeOK, NEW kinds, Queued(kinds), posted' = Tail(posted)
  PROVE  /\ posted' \in Seq(Signal)
         /\ \A i \in DOMAIN posted' : \E k \in DOMAIN posted : posted'[i] = posted[k]
         /\ \A why : why \notin kinds => SignalsKept(why)
<1>1. posted \in Seq(Signal) /\ posted # <<>> /\ Head(posted).why \in kinds
  BY DEF TypeOK, Queued
<1>2. ASSUME NEW why, why \notin kinds PROVE SignalsKept(why)
  <2> SUFFICES ASSUME NEW i \in DOMAIN posted, posted[i].why = why
               PROVE  \E k \in DOMAIN posted' : posted'[k].why = why
    BY DEF SignalsKept
  <2>1. posted[i] # Head(posted)
    BY <1>1, <1>2
  <2> QED BY <1>1, <2>1, TailSignals
<1> QED BY <1>1, <1>2, TailSignals

LEMMA OnClosePayPopupInv ==
  ASSUME IInv, OnClosePayPopup
  PROVE  IInv'
<1>1. /\ payPop \in [visible: BOOLEAN, payAmount: OrderSn, countDown: 0..CountDown,
                     timerClose: BOOLEAN, timerQuery: BOOLEAN, selected: Method]
      /\ UNCHANGED <<orders, trade, imageQr>> /\ Queued({"paid", "refused"})
      /\ posted' = Tail(posted)
  BY DEF IInv, TypeOK, OnClosePayPopup, ClosePopup, uiVars, serverVars
<1>2. /\ posted' \in Seq(Signal)
      /\ \A i \in DOMAIN posted' : \E k \in DOMAIN posted : posted'[i] = posted[k]
      /\ SignalsKept("loading") /\ SignalsKept("code")
  BY <1>1, TakeStep DEF IInv
<1>3. SuccessOnlyForPaid'
  BY <1>1, <1>2 DEF IInv, SuccessOnlyForPaid, Paid, OnClosePayPopup
<1>4. CodesKnown'
  BY <1>1 DEF IInv, CodesKnown, OnClosePayPopup, clientVars, serverVars
<1>5. CASE payPop.visible
  <2>1. ClosePopup(payPop)
    BY <1>5 DEF OnClosePayPopup
  <2>2. /\ thread' \in [Thread -> JobType]
        /\ payPop' \in [visible: BOOLEAN, payAmount: OrderSn, countDown: 0..CountDown,
                        timerClose: BOOLEAN, timerQuery: BOOLEAN, selected: Method]
        /\ JobsGood' /\ CloseSlots' /\ TimersRun' /\ PaintedKept
    BY <2>1, <1>1, <1>5, ClosePopupInv
  <2>3. TypeOK'
    BY <2>1, <2>2, <1>2 DEF IInv, TypeOK, OnClosePayPopup, ClosePopup, clientVars, serverVars
  <2>4. ScreenFollows'
    BY <1>1, <1>2, <2>2, ScreenKept DEF IInv, OnClosePayPopup, clientVars
  <2> QED BY <2>2, <2>3, <2>4, <1>3, <1>4 DEF IInv
<1>6. CASE ~payPop.visible
  <2>1. UNCHANGED <<payPop, imageQr, selects, thread>>
    BY <1>6 DEF OnClosePayPopup, uiVars
  <2>2. TypeOK'
    BY <2>1, <1>2 DEF IInv, TypeOK, OnClosePayPopup, clientVars, serverVars
  <2>3. JobsGood' /\ CloseSlots' /\ TimersRun'
    BY <2>1, <1>1 DEF IInv, JobsGood, CloseSlots, TimersRun
  <2>4. ScreenFollows'
    BY <1>1, <1>2, <2>1, ScreenKept DEF IInv, OnClosePayPopup, PaintedKept, clientVars
  <2> QED BY <2>2, <2>3, <2>4, <1>3, <1>4 DEF IInv
<1> QED BY <1>5, <1>6

LEMMA OnQrLoadingChangedInv ==
  ASSUME IInv, OnQrLoadingChanged
  PROVE  IInv'
<1>1. /\ UNCHANGED <<payPop, selects, thread, told, orders, trade, phone>>
      /\ UNCHANGED <<m_payAmount, m_strOrderSn, m_strCodeUrl, m_bQRLoading>>
      /\ Queued({"loading"}) /\ posted' = Tail(posted)
      /\ imageQr' = [imageQr EXCEPT !.visible = ~m_bQRLoading]
  BY DEF OnQrLoadingChanged, clientVars, serverVars
<1>2. /\ posted' \in Seq(Signal)
      /\ \A i \in DOMAIN posted' : \E k \in DOMAIN posted : posted'[i] = posted[k]
      /\ SignalsKept("code")
  BY <1>1, TakeStep DEF IInv
<1>3. /\ imageQr' \in [visible: BOOLEAN, source: Code \cup {NoCode}]
      /\ imageQr'.source = imageQr.source /\ imageQr'.visible = ~m_bQRLoading
  BY <1>1 DEF IInv, TypeOK
<1>4. TypeOK' /\ JobsGood' /\ CloseSlots' /\ TimersRun'
  BY <1>1, <1>2, <1>3 DEF IInv, TypeOK, JobsGood, CloseSlots, TimersRun
<1>5. SuccessOnlyForPaid' /\ CodesKnown'
  BY <1>1, <1>2, <1>3 DEF IInv, SuccessOnlyForPaid, Paid, CodesKnown
<1>6. ScreenFollows'
  <2>1. CodeAnnounced => CodeAnnounced'
    BY <1>1, <1>2 DEF CodeAnnounced, SignalsKept
  <2> QED BY <1>1, <1>3, <2>1 DEF IInv, ScreenFollows
<1> QED BY <1>4, <1>5, <1>6 DEF IInv

LEMMA OnCodeUrlChangedInv ==
  ASSUME IInv, OnCodeUrlChanged
  PROVE  IInv'
<1>1. /\ UNCHANGED <<payPop, selects, thread, told, orders, trade, phone>>
      /\ UNCHANGED <<m_payAmount, m_strOrderSn, m_strCodeUrl, m_bQRLoading>>
      /\ Queued({"code"}) /\ posted' = Tail(posted)
      /\ imageQr' = [imageQr EXCEPT !.source = m_strCodeUrl]
  BY DEF OnCodeUrlChanged, clientVars, serverVars
<1>2. /\ posted' \in Seq(Signal)
      /\ \A i \in DOMAIN posted' : \E k \in DOMAIN posted : posted'[i] = posted[k]
      /\ SignalsKept("loading")
  BY <1>1, TakeStep DEF IInv
<1>3. /\ imageQr' \in [visible: BOOLEAN, source: Code \cup {NoCode}]
      /\ imageQr'.source = m_strCodeUrl /\ imageQr'.visible = imageQr.visible
  BY <1>1 DEF IInv, TypeOK
<1>4. TypeOK' /\ JobsGood' /\ CloseSlots' /\ TimersRun'
  BY <1>1, <1>2, <1>3 DEF IInv, TypeOK, JobsGood, CloseSlots, TimersRun
<1>5. SuccessOnlyForPaid' /\ CodesKnown'
  BY <1>1, <1>2, <1>3 DEF IInv, SuccessOnlyForPaid, Paid, CodesKnown
<1>6. ScreenFollows'
  BY <1>1, <1>2, <1>3 DEF IInv, ScreenFollows, SignalsKept
<1> QED BY <1>4, <1>5, <1>6 DEF IInv

-----------------------------------------------------------------------------
(* Worker threads *)

\* Whatever a busy slot receives, the close slots that must be unused stay so.
LEMMA BusySlotStep ==
  ASSUME IInv, ServerKeeps, NEW t \in Thread, thread[t].at # "idle",
         NEW j \in JobType, JobGood(j, orders', trade'),
         thread' = [thread EXCEPT ![t] = j], UNCHANGED payPop
  PROVE  /\ thread' \in [Thread -> JobType] /\ JobsGood' /\ CloseSlots' /\ TimersRun'
         /\ thread[t].at # "painted" => PaintedKept
<1>1. thread' \in [Thread -> JobType] /\ JobsGood'
  BY SlotStep DEF IInv
<1>2. CloseSlots'
  BY SlotsDisjoint DEF IInv, CloseSlots, TypeOK, Idle
<1>3. TimersRun'
  BY DEF IInv, TimersRun
<1>4. thread[t].at # "painted" => PaintedKept
  BY PaintedStep DEF IInv
<1> QED BY <1>1, <1>2, <1>3, <1>4

LEMMA IdleGood ==
  ASSUME NEW os, NEW tr
  PROVE  Idle \in JobType /\ JobGood(Idle, os, tr)
BY PayAssumption DEF Idle, JobType, JobGood, OrderSn, NoOrder

\* A thread ends.
LEMMA EndsStep ==
  ASSUME IInv, ServerKeeps, NEW t \in Thread, thread[t].at # "idle", Ends(t),
         UNCHANGED payPop
  PROVE  /\ thread' \in [Thread -> JobType] /\ JobsGood' /\ CloseSlots' /\ TimersRun'
         /\ thread[t].at # "painted" => PaintedKept
BY IdleGood, BusySlotStep DEF Ends

LEMMA StartInv ==
  ASSUME IInv, NEW t \in Thread, Start(t)
  PROVE  IInv'
<1> DEFINE j == [thread[t] EXCEPT !.at = "sending", !.order = m_strOrderSn]
<1>1. ServerKeeps
  BY ServerUnchanged DEF IInv, Start, serverVars
<1>2. thread[t] \in JobType /\ JobGood(thread[t], orders, trade) /\ m_strOrderSn \in OrderSn
  BY DEF IInv, TypeOK, JobsGood
<1>3. j \in JobType /\ j.op = thread[t].op /\ j.amount = thread[t].amount
      /\ j.method = thread[t].method /\ j.at = "sending"
  BY <1>2 DEF JobType
<1>4. JobGood(j, orders', trade')
  BY <1>2, <1>3 DEF JobGood
<1>5. thread' = [thread EXCEPT ![t] = j]
  BY DEF Start, IInv, TypeOK
<1>6. thread' \in [Thread -> JobType] /\ JobsGood' /\ CloseSlots' /\ TimersRun' /\ PaintedKept
  BY <1>1, <1>3, <1>4, <1>5, BusySlotStep DEF Start, uiVars
<1>7. TypeOK'
  BY <1>6 DEF IInv, TypeOK, Start, uiVars, clientVars, serverVars
<1>8. SuccessOnlyForPaid' /\ CodesKnown'
  BY <1>1, ClaimsKept DEF Start, uiVars, clientVars, serverVars
<1>9. ScreenFollows'
  BY <1>6, ScreenKept DEF IInv, Start, SignalsKept, uiVars, clientVars
<1> QED BY <1>6, <1>7, <1>8, <1>9 DEF IInv

\* The slot of a thread whose reply has come.
LEMMA AnsweredStep ==
  ASSUME IInv, ServerKeeps, NEW t \in Thread, thread[t].at = "sending",
         NEW a \in {"ok", "refused"}, Answered(t, a), UNCHANGED payPop,
         thread[t].op = "qr" => thread[t].order \in orders',
         thread[t].op = "query" =>
           thread[t].order \in orders' /\ trade'[thread[t].method][thread[t].order].st = "paid"
  PROVE  thread' \in [Thread -> JobType] /\ JobsGood' /\ CloseSlots' /\ TimersRun' /\ PaintedKept
<1> DEFINE j == [thread[t] EXCEPT !.at = "answered", !.answer = a]
<1>1. thread[t] \in JobType /\ JobGood(thread[t], orders, trade)
  BY DEF IInv, TypeOK, JobsGood
<1>2. j \in JobType /\ j.op = thread[t].op /\ j.amount = thread[t].amount
      /\ j.method = thread[t].method /\ j.order = thread[t].order /\ j.at = "answered"
  BY <1>1 DEF JobType
<1>3. JobGood(j, orders', trade')
  BY <1>1, <1>2 DEF JobGood
<1>4. thread' = [thread EXCEPT ![t] = j]
  BY DEF Answered, IInv, TypeOK
<1> QED BY <1>2, <1>3, <1>4, BusySlotStep

\* What each kind of request leaves behind.
Served ==
  /\ ServerKeeps
  /\ thread' \in [Thread -> JobType] /\ JobsGood' /\ CloseSlots' /\ TimersRun' /\ PaintedKept
  /\ phone' = phone

LEMMA ServeCreateStep ==
  ASSUME IInv, NEW t \in Thread, thread[t].at = "sending", thread[t].op = "create",
         ServeCreate(t), UNCHANGED payPop
  PROVE  Served
<1>1. JobGood(thread[t], orders, trade)
  BY DEF IInv, JobsGood
<1>2. ServerKeeps
  BY <1>1 DEF ServerKeeps, ServeCreate, IInv, TypeOK, JobGood
<1>3. thread' \in [Thread -> JobType] /\ JobsGood' /\ CloseSlots' /\ TimersRun' /\ PaintedKept
  <2>1. CASE Answered(t, "ok")
    BY <1>2, <2>1, AnsweredStep
  <2>2. CASE Answered(t, "refused")
    BY <1>2, <2>2, AnsweredStep
  <2>3. CASE Ends(t)
    BY <1>2, <2>3, EndsStep
  <2> QED BY <2>1, <2>2, <2>3 DEF ServeCreate
<1> QED BY <1>2, <1>3 DEF Served, ServeCreate

LEMMA ServeQRStep ==
  ASSUME IInv, NEW t \in Thread, thread[t].at = "sending", thread[t].op = "qr",
         ServeQR(t), UNCHANGED payPop
  PROVE  Served
<1> DEFINE m  == thread[t].method
           o  == thread[t].order
           tr == [st |-> "open", amount |-> thread[t].amount]
<1>1. JobGood(thread[t], orders, trade) /\ thread[t] \in JobType
  BY DEF IInv, JobsGood, TypeOK
<1>2. m \in Method /\ tr \in Trade /\ tr.st = "open" /\ tr.amount = thread[t].amount
  BY <1>1 DEF JobGood, JobType, Trade
<1>3. CASE /\ o \in orders
           /\ trade[m][o].st = "none" \/ trade[m][o] = tr
           /\ trade' = [trade EXCEPT ![m][o] = tr]
           /\ Answered(t, "ok") \/ Ends(t)
  <2>1. o \in Purchase /\ orders' = orders
    BY <1>3 DEF IInv, TypeOK, ServeQR
  <2>2. /\ trade' \in [Method -> [Purchase -> Trade]]
        /\ trade'[m][o] = tr
        /\ \A n \in Method, p \in Purchase :
             trade'[n][p] = trade[n][p] \/ (n = m /\ p = o)
    BY <1>2, <1>3, <2>1 DEF IInv, TypeOK
  <2>3. ServerKeeps
    BY <1>2, <1>3, <2>1, <2>2 DEF ServerKeeps, IInv, TypeOK
  <2>4. thread[t].order \in orders'
    BY <1>3, <2>1
  <2>5. thread' \in [Thread -> JobType] /\ JobsGood' /\ CloseSlots' /\ TimersRun' /\ PaintedKept
    <3>1. CASE Answered(t, "ok")
      BY <2>3, <2>4, <3>1, AnsweredStep
    <3>2. CASE Ends(t)
      BY <2>3, <3>2, EndsStep
    <3> QED BY <1>3, <3>1, <3>2
  <2> QED BY <2>3, <2>5 DEF Served, ServeQR
<1>4. CASE trade' = trade /\ Ends(t)
  <2>1. ServerKeeps
    BY <1>4, ServerUnchanged DEF ServeQR, IInv
  <2> QED BY <1>4, <2>1, EndsStep DEF Served, ServeQR
<1> QED BY <1>3, <1>4 DEF ServeQR

LEMMA ServeQueryStep ==
  ASSUME IInv, NEW t \in Thread, thread[t].at = "sending", thread[t].op = "query",
         ServeQuery(t), UNCHANGED payPop
  PROVE  Served
<1>1. ServerKeeps /\ UNCHANGED <<orders, trade, phone>>
  BY ServerUnchanged DEF IInv, ServeQuery, serverVars
<1>2. CASE /\ thread[t].order \in orders
           /\ trade[thread[t].method][thread[t].order].st = "paid"
           /\ Answered(t, "ok")
  BY <1>1, <1>2, AnsweredStep DEF Served
<1>3. CASE Ends(t)
  BY <1>1, <1>3, EndsStep DEF Served
<1> QED BY <1>2, <1>3 DEF ServeQuery

LEMMA ServeCloseStep ==
  ASSUME IInv, NEW t \in Thread, thread[t].at = "sending", thread[t].op = "close",
         ServeClose(t), UNCHANGED payPop
  PROVE  Served
<1> DEFINE m == thread[t].method
           o == thread[t].order
<1>1. m \in Method
  BY DEF IInv, JobsGood, JobGood
<1>2. ServerKeeps
  <2>1. CASE trade' = trade
    BY <2>1, ServerUnchanged DEF IInv, ServeClose
  <2>2. CASE /\ o \in orders
             /\ trade[m][o].st = "open"
             /\ trade' = [trade EXCEPT ![m][o].st = "closed"]
    <3>1. o \in Purchase /\ orders' = orders /\ trade[m][o] \in Trade
      BY <1>1, <2>2 DEF IInv, TypeOK, ServeClose
    <3>2. [trade[m][o] EXCEPT !.st = "closed"] = [st |-> "closed", amount |-> trade[m][o].amount]
      BY <3>1 DEF Trade
    <3>3. trade' = [trade EXCEPT ![m] = [trade[m] EXCEPT ![o] =
                                          [trade[m][o] EXCEPT !.st = "closed"]]]
      BY <2>2
    <3>4. [st |-> "closed", amount |-> trade[m][o].amount] \in Trade
      BY <3>1 DEF Trade
    <3>5. /\ trade' \in [Method -> [Purchase -> Trade]]
          /\ trade'[m][o] = [st |-> "closed", amount |-> trade[m][o].amount]
          /\ \A n \in Method, p \in Purchase :
               trade'[n][p] = trade[n][p] \/ (n = m /\ p = o)
      BY <1>1, <3>1, <3>2, <3>3, <3>4 DEF IInv, TypeOK
    <3>6. ASSUME NEW n \in Method, NEW p \in Purchase
          PROVE  /\ trade[n][p].st = "paid" => trade'[n][p].st = "paid"
                 /\ trade[n][p].st # "none" =>
                      trade'[n][p].st # "none" /\ trade'[n][p].amount = trade[n][p].amount
      <4>1. CASE trade'[n][p] = trade[n][p]
        BY <4>1
      <4>2. CASE n = m /\ p = o
        <5>1. trade'[n][p].st = "closed" /\ trade'[n][p].amount = trade[n][p].amount
          BY <3>5, <4>2
        <5>2. trade[n][p].st = "open"
          BY <2>2, <4>2
        <5>3. QED
          BY <5>1, <5>2
      <4>3. QED
        BY <3>5, <4>1, <4>2
    <3>7. orders \subseteq orders' /\ orders' \subseteq Purchase
      BY <3>1 DEF IInv, TypeOK
    <3> QED BY <3>5, <3>6, <3>7 DEF ServerKeeps
  <2> QED BY <2>1, <2>2 DEF ServeClose
<1> QED BY <1>2, EndsStep DEF Served, ServeClose

LEMMA ServeInv ==
  ASSUME IInv, NEW t \in Thread, Serve(t)
  PROVE  IInv'
<1>1. thread[t].at = "sending" /\ UNCHANGED payPop
  BY DEF Serve, uiVars
<1>2. Served
  BY <1>1, ServeCreateStep, ServeQRStep, ServeQueryStep, ServeCloseStep DEF Serve
<1>3. SuccessOnlyForPaid' /\ CodesKnown'
  BY <1>2, ClaimsKept DEF Served, Serve, uiVars, clientVars
<1>5. ScreenFollows'
  BY <1>2, ScreenKept DEF IInv, Served, Serve, SignalsKept, uiVars, clientVars
<1>4. TypeOK'
  BY <1>2 DEF Served, ServerKeeps, IInv, TypeOK, Serve, uiVars, clientVars
<1> QED BY <1>2, <1>3, <1>4, <1>5 DEF Served, IInv

\* A signal is appended to the queue.
LEMMA EmitStep ==
  ASSUME IInv, NEW s \in Signal, Emit(s)
  PROVE  /\ posted' \in Seq(Signal)
         /\ \A i \in DOMAIN posted' :
              posted'[i] = s \/ (i \in DOMAIN posted /\ posted'[i] = posted[i])
         /\ \E k \in DOMAIN posted' : posted'[k] = s
         /\ \A why : SignalsKept(why)
<1>1. posted \in Seq(Signal) /\ posted' = Append(posted, s)
  BY DEF IInv, TypeOK, Emit
<1>2. /\ posted' \in Seq(Signal) /\ Len(posted') = Len(posted) + 1
      /\ \A i \in 1..Len(posted) : posted'[i] = posted[i]
      /\ posted'[Len(posted) + 1] = s
  BY <1>1, AppendProperties
<1>3. ASSUME NEW i \in DOMAIN posted'
      PROVE  posted'[i] = s \/ (i \in DOMAIN posted /\ posted'[i] = posted[i])
  <2>1. i \in 1..(Len(posted) + 1) /\ DOMAIN posted = 1..Len(posted) /\ Len(posted) \in Nat
    BY <1>1, <1>2
  <2> QED BY <1>2, <2>1
<1>4. /\ DOMAIN posted = 1..Len(posted) /\ DOMAIN posted' = 1..(Len(posted) + 1)
      /\ Len(posted) \in Nat
  BY <1>1, <1>2
<1>5. \E k \in DOMAIN posted' : posted'[k] = s
  BY <1>2, <1>4
<1>6. ASSUME NEW why PROVE SignalsKept(why)
  <2>1. ASSUME NEW i \in DOMAIN posted PROVE i \in DOMAIN posted' /\ posted'[i] = posted[i]
    BY <1>2, <1>4, <2>1
  <2> QED BY <2>1 DEF SignalsKept
<1> QED BY <1>2, <1>3, <1>5, <1>6

LEMMA HandleCreateInv ==
  ASSUME IInv, NEW t \in Thread, thread[t].at = "answered", HandleCreate(t),
         UNCHANGED <<uiVars, serverVars>>
  PROVE  IInv'
<1>1. ServerKeeps /\ UNCHANGED <<payPop, imageQr, selects, orders, trade, phone>>
  BY ServerUnchanged DEF IInv, uiVars, serverVars
<1>2. thread[t] \in JobType /\ thread[t].amount \in Purchase /\ thread[t].amount \in OrderSn
  BY PayAssumption DEF IInv, TypeOK, JobsGood, JobGood, HandleCreate, OrderSn, Purchase
<1>3. CASE /\ thread[t].answer = "refused" /\ Ends(t) /\ UNCHANGED m_strOrderSn
           /\ Emit([why |-> "refused", order |-> thread[t].amount])
  <2>1. [why |-> "refused", order |-> thread[t].amount] \in Signal
    BY <1>2 DEF Signal
  <2>2. thread' \in [Thread -> JobType] /\ JobsGood' /\ CloseSlots' /\ TimersRun' /\ PaintedKept
    BY <1>1, <1>3, EndsStep
  <2>3. posted' \in Seq(Signal) /\ SignalsKept("loading") /\ SignalsKept("code")
    BY <1>3, <2>1, EmitStep
  <2>4. TypeOK'
    BY <1>1, <1>3, <2>2, <2>3 DEF IInv, TypeOK, HandleCreate
  <2>5. SuccessOnlyForPaid'
    BY <1>1, <1>3, <2>1, EmitStep DEF IInv, SuccessOnlyForPaid, Paid, HandleCreate
  <2>6. CodesKnown' /\ ScreenFollows'
    BY <1>1, <2>2, <2>3, ScreenKept DEF IInv, CodesKnown, HandleCreate
  <2> QED BY <2>2, <2>4, <2>5, <2>6 DEF IInv
<1>4. CASE /\ thread[t].answer = "ok" /\ m_strOrderSn' = thread[t].amount
           /\ thread' = [thread EXCEPT ![t] = Job("qr", "wechat", m_payAmount)]
           /\ UNCHANGED posted
  <2>1. m_payAmount \in OrderSn /\ "wechat" \in Method
    BY DEF IInv, TypeOK, Method
  <2>2. thread' \in [Thread -> JobType] /\ JobsGood' /\ CloseSlots' /\ TimersRun' /\ PaintedKept
    BY <1>1, <1>4, <2>1, JobIsGood, BusySlotStep
  <2>3. TypeOK'
    BY <1>1, <1>2, <1>4, <2>2 DEF IInv, TypeOK, HandleCreate
  <2>4. SuccessOnlyForPaid' /\ CodesKnown'
    BY <1>1, <1>4, ClaimsKept DEF HandleCreate
  <2>5. ScreenFollows'
    BY <1>1, <1>4, <2>2, ScreenKept DEF IInv, HandleCreate, SignalsKept
  <2> QED BY <2>2, <2>3, <2>4, <2>5 DEF IInv
<1> QED BY <1>3, <1>4 DEF HandleCreate

\* The job of a thread whose code is stored and not yet announced.
LEMMA PaintedJob ==
  ASSUME TypeOK, NEW t \in Thread, HandleQR(t)
  PROVE  LET j == [thread[t] EXCEPT !.at = "painted"]
         IN  /\ thread' = [thread EXCEPT ![t] = j]
             /\ j \in JobType
             /\ j.op = thread[t].op /\ j.method = thread[t].method /\ j.at = "painted"
             /\ j.order = thread[t].order /\ j.amount = thread[t].amount
<1>1. thread[t] \in JobType /\ thread \in [Thread -> JobType]
  BY DEF TypeOK
<1>2. thread' = [thread EXCEPT ![t] = [thread[t] EXCEPT !.at = "painted"]]
  BY <1>1 DEF HandleQR
<1> QED BY <1>1, <1>2 DEF JobType

LEMMA HandleQRInv ==
  ASSUME IInv, NEW t \in Thread, thread[t].at = "answered", HandleQR(t),
         UNCHANGED <<uiVars, serverVars>>
  PROVE  IInv'
<1> DEFINE j == [thread[t] EXCEPT !.at = "painted"]
           s == [why |-> "loading", order |-> thread[t].order]
<1>1. ServerKeeps /\ UNCHANGED <<payPop, imageQr, selects, orders, trade, phone>>
  BY ServerUnchanged DEF IInv, uiVars, serverVars
<1>2. /\ thread[t] \in JobType /\ thread[t].method \in Method /\ thread[t].op = "qr"
      /\ thread[t].order \in orders
  BY DEF IInv, TypeOK, JobsGood, JobGood, HandleQR
<1>3. /\ m_strCodeUrl' \in Code /\ m_strCodeUrl'.order = thread[t].order
      /\ m_bQRLoading' = FALSE /\ UNCHANGED <<m_payAmount, m_strOrderSn, told>>
  <2>1. thread[t].order \in Purchase /\ thread[t].amount \in OrderSn
    BY <1>2 DEF IInv, TypeOK, JobType
  <2> QED BY <1>2, <2>1 DEF HandleQR, Code
<1>4. /\ thread' = [thread EXCEPT ![t] = j] /\ j \in JobType
      /\ j.op = "qr" /\ j.method = thread[t].method /\ j.at = "painted"
      /\ j.order = thread[t].order
  BY <1>2, PaintedJob DEF IInv
<1>5. Emit(s) /\ s \in Signal /\ s.why = "loading"
  BY <1>2 DEF HandleQR, Signal, JobType
<1> HIDE DEF j, s
<1>6. JobGood(j, orders', trade')
  BY <1>1, <1>2, <1>4 DEF JobGood
<1>7. /\ thread' \in [Thread -> JobType] /\ JobsGood' /\ CloseSlots' /\ TimersRun'
      /\ thread'[t].at = "painted"
  BY <1>1, <1>4, <1>6, BusySlotStep, NewJob DEF IInv
<1>8. /\ posted' \in Seq(Signal)
      /\ \A i \in DOMAIN posted' :
           posted'[i] = s \/ (i \in DOMAIN posted /\ posted'[i] = posted[i])
      /\ \E k \in DOMAIN posted' : posted'[k] = s
  BY <1>5, EmitStep
<1>9. TypeOK'
  BY <1>1, <1>3, <1>7, <1>8 DEF IInv, TypeOK
<1>10. SuccessOnlyForPaid'
  BY <1>1, <1>3, <1>5, <1>8 DEF IInv, SuccessOnlyForPaid, Paid
<1>11. CodesKnown'
  BY <1>1, <1>2, <1>3 DEF IInv, CodesKnown
<1>12. ScreenFollows'
  <2>1. CodeAnnounced'
    BY <1>7 DEF CodeAnnounced
  <2>2. \E i \in DOMAIN posted' : posted'[i].why = "loading"
    BY <1>5, <1>8
  <2> QED BY <1>3, <2>1, <2>2 DEF ScreenFollows
<1> QED BY <1>7, <1>9, <1>10, <1>11, <1>12 DEF IInv

LEMMA HandleQueryInv ==
  ASSUME IInv, NEW t \in Thread, thread[t].at = "answered", HandleQuery(t),
         UNCHANGED <<uiVars, serverVars>>
  PROVE  IInv'
<1> DEFINE s == [why |-> "paid", order |-> thread[t].order]
<1>1. ServerKeeps /\ UNCHANGED <<payPop, imageQr, selects, orders, trade, phone>>
  BY ServerUnchanged DEF IInv, uiVars, serverVars
<1>2. /\ thread[t] \in JobType /\ thread[t].method \in Method
      /\ thread[t].order \in Purchase
      /\ trade[thread[t].method][thread[t].order].st = "paid"
  BY DEF IInv, TypeOK, JobsGood, JobGood, HandleQuery
<1>3. s \in Signal /\ s.order = thread[t].order
  BY <1>2 DEF Signal, JobType
<1>4. /\ posted' \in Seq(Signal)
      /\ \A i \in DOMAIN posted' :
           posted'[i] = s \/ (i \in DOMAIN posted /\ posted'[i] = posted[i])
      /\ SignalsKept("loading") /\ SignalsKept("code")
  BY <1>3, EmitStep DEF HandleQuery
<1>5. thread' \in [Thread -> JobType] /\ JobsGood' /\ CloseSlots' /\ TimersRun' /\ PaintedKept
  BY <1>1, EndsStep DEF HandleQuery
<1>6. TypeOK'
  BY <1>1, <1>2, <1>4, <1>5 DEF IInv, TypeOK, HandleQuery, clientVars
<1>7. SuccessOnlyForPaid'
  <2>1. \A o \in told' : Paid(o)'
    BY <1>1, <1>2 DEF IInv, SuccessOnlyForPaid, Paid, HandleQuery
  <2>2. \A i \in DOMAIN posted' : posted'[i].why = "paid" => posted'[i].order \in told'
    BY <1>3, <1>4 DEF IInv, SuccessOnlyForPaid, HandleQuery
  <2> QED BY <2>1, <2>2 DEF SuccessOnlyForPaid, Paid
<1>8. CodesKnown' /\ ScreenFollows'
  BY <1>1, <1>4, <1>5, ScreenKept DEF IInv, CodesKnown, HandleQuery, clientVars
<1> QED BY <1>5, <1>6, <1>7, <1>8 DEF IInv

LEMMA HandleInv ==
  ASSUME IInv, NEW t \in Thread, Handle(t)
  PROVE  IInv'
BY HandleCreateInv, HandleQRInv, HandleQueryInv DEF Handle

LEMMA AnnounceCodeInv ==
  ASSUME IInv, NEW t \in Thread, AnnounceCode(t)
  PROVE  IInv'
<1> DEFINE s == [why |-> "code", order |-> thread[t].order]
<1>1. /\ ServerKeeps /\ UNCHANGED <<payPop, imageQr, selects, orders, trade, phone, told>>
      /\ UNCHANGED <<m_payAmount, m_strOrderSn, m_strCodeUrl, m_bQRLoading>>
  BY ServerUnchanged DEF IInv, AnnounceCode, uiVars, clientVars, serverVars
<1>2. thread[t].at = "painted" /\ Ends(t) /\ Emit(s) /\ s \in Signal /\ s.why = "code"
  BY DEF AnnounceCode, IInv, TypeOK, Signal, JobType
<1> HIDE DEF s
<1>3. /\ posted' \in Seq(Signal)
      /\ \A i \in DOMAIN posted' :
           posted'[i] = s \/ (i \in DOMAIN posted /\ posted'[i] = posted[i])
      /\ \E k \in DOMAIN posted' : posted'[k] = s
      /\ SignalsKept("loading")
  BY <1>2, EmitStep
<1>4. thread' \in [Thread -> JobType] /\ JobsGood' /\ CloseSlots' /\ TimersRun'
  BY <1>1, <1>2, EndsStep
<1>5. TypeOK'
  BY <1>1, <1>3, <1>4 DEF IInv, TypeOK
<1>6. SuccessOnlyForPaid' /\ CodesKnown'
  BY <1>1, <1>2, <1>3 DEF IInv, SuccessOnlyForPaid, Paid, CodesKnown
<1>7. ScreenFollows'
  <2>1. CodeAnnounced'
    BY <1>2, <1>3 DEF CodeAnnounced
  <2> QED BY <1>1, <1>3, <2>1 DEF IInv, ScreenFollows, SignalsKept
<1> QED BY <1>4, <1>5, <1>6, <1>7 DEF IInv

-----------------------------------------------------------------------------
(* The user and the payment companies *)

LEMMA ScanInv ==
  ASSUME IInv, Scan
  PROVE  IInv'
<1>1. /\ UNCHANGED <<payPop, imageQr, selects, thread, posted, told, orders, trade>>
      /\ UNCHANGED <<m_payAmount, m_strOrderSn, m_strCodeUrl, m_bQRLoading>>
      /\ phone' = imageQr.source
  BY DEF Scan, uiVars, clientVars
<1>2. TypeOK' /\ JobsGood' /\ CloseSlots' /\ TimersRun'
  BY <1>1 DEF IInv, TypeOK, JobsGood, CloseSlots, TimersRun
<1>3. SuccessOnlyForPaid' /\ CodesKnown' /\ ScreenFollows'
  BY <1>1 DEF IInv, SuccessOnlyForPaid, Paid, CodesKnown, ScreenFollows, CodeAnnounced
<1> QED BY <1>2, <1>3 DEF IInv

LEMMA PayInv ==
  ASSUME IInv, Pay
  PROVE  IInv'
<1> DEFINE m == phone.method
           o == phone.order
<1>1. m \in Method /\ o \in Purchase /\ trade[m][o] \in Trade /\ trade[m][o].st = "open"
  BY DEF IInv, TypeOK, Pay, Code
<1>2. [trade[m][o] EXCEPT !.st = "paid"] = [st |-> "paid", amount |-> trade[m][o].amount]
  BY <1>1 DEF Trade
<1>3. [st |-> "paid", amount |-> trade[m][o].amount] \in Trade
  BY <1>1 DEF Trade
<1>4. trade' = [trade EXCEPT ![m] = [trade[m] EXCEPT ![o] =
                                      [trade[m][o] EXCEPT !.st = "paid"]]]
  BY DEF Pay
<1>5. /\ trade' \in [Method -> [Purchase -> Trade]]
      /\ trade'[m][o] = [st |-> "paid", amount |-> trade[m][o].amount]
      /\ \A n \in Method, p \in Purchase :
           trade'[n][p] = trade[n][p] \/ (n = m /\ p = o)
  BY <1>1, <1>2, <1>3, <1>4 DEF IInv, TypeOK
<1>6. /\ UNCHANGED <<payPop, imageQr, selects, thread, posted, told, orders, phone>>
      /\ UNCHANGED <<m_payAmount, m_strOrderSn, m_strCodeUrl, m_bQRLoading>>
  BY DEF Pay, uiVars, clientVars
<1>7. ServerKeeps
  <2>1. trade'[m][o].st = "paid" /\ trade'[m][o].amount = trade[m][o].amount
    BY <1>5
  <2>2. ASSUME NEW n \in Method, NEW p \in Purchase
        PROVE  /\ trade[n][p].st = "paid" => trade'[n][p].st = "paid"
               /\ trade[n][p].st # "none" =>
                    trade'[n][p].st # "none" /\ trade'[n][p].amount = trade[n][p].amount
    BY <1>5, <2>1
  <2>3. orders \subseteq orders' /\ orders' \subseteq Purchase
    BY <1>6 DEF IInv, TypeOK
  <2> QED BY <1>5, <2>2, <2>3 DEF ServerKeeps
<1>8. SuccessOnlyForPaid' /\ CodesKnown' /\ ScreenFollows'
  BY <1>6, <1>7, ClaimsKept DEF IInv, ScreenFollows, CodeAnnounced
<1>9. TypeOK' /\ CloseSlots' /\ TimersRun'
  BY <1>5, <1>6 DEF IInv, TypeOK, CloseSlots, TimersRun
<1>10. JobsGood'
  BY <1>6, <1>7 DEF IInv, TypeOK, JobsGood, JobGood, ServerKeeps, JobType
<1> QED BY <1>8, <1>9, <1>10 DEF IInv

-----------------------------------------------------------------------------
(* The theorems *)

LEMMA StutterInv ==
  ASSUME IInv, UNCHANGED vars
  PROVE  IInv'
<1>1. /\ UNCHANGED <<payPop, imageQr, selects, thread, posted, told, orders, trade, phone>>
      /\ UNCHANGED <<m_payAmount, m_strOrderSn, m_strCodeUrl, m_bQRLoading>>
  BY DEF vars, uiVars, clientVars, serverVars
<1>2. TypeOK' /\ JobsGood' /\ CloseSlots' /\ TimersRun'
  BY <1>1 DEF IInv, TypeOK, JobsGood, CloseSlots, TimersRun
<1>3. SuccessOnlyForPaid' /\ CodesKnown' /\ ScreenFollows'
  BY <1>1 DEF IInv, SuccessOnlyForPaid, Paid, CodesKnown, ScreenFollows, CodeAnnounced
<1> QED BY <1>2, <1>3 DEF IInv

LEMMA NextInv == IInv /\ [Next]_vars => IInv'
<1> SUFFICES ASSUME IInv, [Next]_vars PROVE IInv'
  OBVIOUS
<1>1. ASSUME NEW p \in Purchase, Buy(p) PROVE IInv'
  BY <1>1, BuyInv
<1>2. CASE ClickClose
  BY <1>2, ClickCloseInv
<1>3. CASE TimerCloseTriggered
  BY <1>3, TimerCloseInv
<1>4. ASSUME NEW t \in Extra, TimerQueryTriggered(t) PROVE IInv'
  BY <1>4, TimerQueryInv
<1>5. ASSUME NEW t \in Extra, NEW m \in Method, Select(t, m) PROVE IInv'
  BY <1>5, SelectInv
<1>6. CASE OnClosePayPopup
  BY <1>6, OnClosePayPopupInv
<1>7. ASSUME NEW t \in Thread, Start(t) \/ Serve(t) \/ Handle(t) \/ AnnounceCode(t) PROVE IInv'
  BY <1>7, StartInv, ServeInv, HandleInv, AnnounceCodeInv
<1>8. CASE Scan
  BY <1>8, ScanInv
<1>9. CASE Pay
  BY <1>9, PayInv
<1>10. CASE UNCHANGED vars
  BY <1>10, StutterInv
<1>11. CASE OnQrLoadingChanged \/ OnCodeUrlChanged
  BY <1>11, OnQrLoadingChangedInv, OnCodeUrlChangedInv
<1> QED BY <1>1, <1>2, <1>3, <1>4, <1>5, <1>6, <1>7, <1>8, <1>9, <1>10, <1>11 DEF Next

\* The inductive invariant holds in every behaviour of the popup.
THEOREM Inductive == Spec => []IInv
BY InitInv, NextInv, PTL DEF Spec

\* Every variable keeps its type.
THEOREM TypeCorrect == Spec => []TypeOK
<1>1. IInv => TypeOK
  BY DEF IInv
<1> QED BY Inductive, <1>1, PTL

\* Nobody is told of a success that is not one, for any number of purchases,
\* threads and lost replies.
THEOREM SuccessIsTrue == Spec => []SuccessOnlyForPaid
<1>1. IInv => SuccessOnlyForPaid
  BY DEF IInv
<1> QED BY Inductive, <1>1, PTL

\* However replies and buttons overtake each other, no code is visible once the
\* spinner is asked for, and a screen that is behind the members that
\* generateCodeImage writes has a signal on its way.
THEOREM ImageFollows == Spec => []ScreenFollows
<1>1. IInv => ScreenFollows
  BY DEF IInv
<1> QED BY Inductive, <1>1, PTL

\* Timers run with the popup, and each popup closes its order at most once.
THEOREM TimersFollow == Spec => []TimersFollowPopup
<1>1. IInv => TimersFollowPopup
  <2> SUFFICES ASSUME IInv PROVE TimersFollowPopup
    OBVIOUS
  <2>1. payPop.visible => thread[<<"close", payPop.payAmount>>] = Idle
    BY DEF IInv, CloseSlots
  <2> QED BY <2>1 DEF IInv, TimersRun, TimersFollowPopup
<1> QED BY Inductive, <1>1, PTL

-----------------------------------------------------------------------------
(* PayOrderly: the inductive invariant *)

\* The user has bought and the number of the order is on its way; nothing else is.
AwaitsOrder ==
  LET c == <<"create", payPop.payAmount>>
  IN  /\ payPop.visible
      /\ payPop.selected = "wechat"
      /\ payPop.payAmount \in Purchase
      /\ m_strOrderSn # payPop.payAmount
      /\ m_bQRLoading
      /\ posted = <<>>
      /\ thread[c].op = "create"
      /\ thread[c].amount = payPop.payAmount
      /\ thread[c].at = "sending" \/ (thread[c].at = "answered" /\ thread[c].answer = "ok")
      /\ \A t \in Thread : t # c => thread[t] = Idle

\* The job names order o if it has read a number, and if it asks for a QR code
\* it is for the amount of that order and for method m.
JobOwn(job, o, m) ==
  /\ job.op # "create"
  /\ job.op \in {"qr", "query", "close"} /\ job.at # "spawned" => job.order = o
  /\ job.op = "qr" => job.amount = o /\ job.method = m

\* The number of the latest order is known, and all that is in flight is of it.
HasOrder ==
  /\ m_strOrderSn = payPop.payAmount
  /\ \A t \in Thread : JobOwn(thread[t], payPop.payAmount, payPop.selected)
  /\ \A i \in DOMAIN posted : posted[i].order = payPop.payAmount

\* The code that is stored while no spinner is asked for is the popup's own.
StoredCodeIsOwn ==
  (payPop.visible /\ ~m_bQRLoading) =>
    m_strCodeUrl = [method |-> payPop.selected, order |-> payPop.payAmount,
                    amount |-> payPop.payAmount]

OrderlyInv ==
  /\ IInv
  /\ m_payAmount = payPop.payAmount
  /\ \A o \in orders : o <= payPop.payAmount
  /\ AwaitsOrder \/ HasOrder
  /\ AmountIsOwn
  /\ StoredCodeIsOwn

-----------------------------------------------------------------------------
(* PayOrderly: lemmas *)

LEMMA OrderlyInit == Init => OrderlyInv
<1> SUFFICES ASSUME Init PROVE OrderlyInv
  OBVIOUS
<1>1. IInv
  BY InitInv
<1>2. HasOrder
  BY DEF Init, HasOrder, JobOwn, Idle, NoOrder
<1>3. AmountIsOwn /\ StoredCodeIsOwn
  BY DEF Init, AmountIsOwn, StoredCodeIsOwn
<1> QED BY <1>1, <1>2, <1>3 DEF Init, OrderlyInv

\* A step that starts no purchase and only leaves jobs and signals of the
\* latest order behind.
LEMMA KeepsOrder ==
  ASSUME OrderlyInv, HasOrder, IInv',
         payPop'.payAmount = payPop.payAmount,
         UNCHANGED <<m_payAmount, m_strOrderSn, orders>>,
         \A t \in Thread : JobOwn(thread'[t], payPop.payAmount, payPop'.selected),
         \A i \in DOMAIN posted' : posted'[i].order = payPop.payAmount,
         AmountIsOwn', StoredCodeIsOwn'
  PROVE  OrderlyInv'
BY DEF OrderlyInv, HasOrder

LEMMA JobFields ==
  ASSUME NEW op, NEW m, NEW a
  PROVE  /\ Job(op, m, a).op = op /\ Job(op, m, a).method = m /\ Job(op, m, a).amount = a
         /\ Job(op, m, a).at = IF op = "create" THEN "sending" ELSE "spawned"
         /\ Idle.op = "none"
BY DEF Job, Idle

LEMMA AnsweredJob ==
  ASSUME TypeOK, NEW t \in Thread, NEW a, Answered(t, a)
  PROVE  /\ thread'[t].op = thread[t].op /\ thread'[t].method = thread[t].method
         /\ thread'[t].order = thread[t].order /\ thread'[t].amount = thread[t].amount
         /\ thread'[t].at = "answered" /\ thread'[t].answer = a
         /\ \A u \in Thread : u # t => thread'[u] = thread[u]
<1>1. thread[t] \in JobType
  BY DEF TypeOK
<1>2. thread'[t] = [thread[t] EXCEPT !.at = "answered", !.answer = a]
  BY DEF Answered, TypeOK
<1>3. \A u \in Thread : u # t => thread'[u] = thread[u]
  BY DEF Answered, TypeOK
<1> QED BY <1>1, <1>2, <1>3 DEF JobType

\* If everything else keeps, closing the popup keeps the order.
LEMMA CloseOrderly ==
  ASSUME OrderlyInv, HasOrder, IInv', NEW pop, ClosePopup(pop),
         pop.payAmount = payPop.payAmount, pop.selected = payPop.selected,
         pop \in [visible: BOOLEAN, payAmount: OrderSn, countDown: 0..CountDown,
                  timerClose: BOOLEAN, timerQuery: BOOLEAN, selected: Method],
         payPop.visible, UNCHANGED <<clientVars, orders, trade>>,
         \A i \in DOMAIN posted' : posted'[i].order = payPop.payAmount
  PROVE  OrderlyInv'
<1>1. TypeOK /\ pop.payAmount \in Purchase
  BY DEF OrderlyInv, IInv, CloseSlots
<1>2. /\ payPop'.payAmount = payPop.payAmount /\ payPop'.selected = payPop.selected
      /\ payPop'.visible = FALSE
  BY DEF ClosePopup
<1>3. <<"close", pop.payAmount>> \in Thread
  BY <1>1, SlotsDisjoint
<1>4. \A t \in Thread : JobOwn(thread'[t], payPop.payAmount, payPop.selected)
  BY <1>1, <1>3, NewJob, JobFields DEF ClosePopup, HasOrder, JobOwn
<1>5. AmountIsOwn' /\ StoredCodeIsOwn'
  BY <1>2 DEF OrderlyInv, AmountIsOwn, StoredCodeIsOwn
<1> QED BY <1>2, <1>4, <1>5, KeepsOrder DEF clientVars

-----------------------------------------------------------------------------
(* PayOrderly: the steps *)

\* While the order's number is on its way, the only step is that of its thread.
LEMMA AwaitsStep ==
  ASSUME OrderlyInv, AwaitsOrder, OrderlyNext
  PROVE  OrderlyInv'
<1> DEFINE c == <<"create", payPop.payAmount>>
<1>1. IInv /\ IInv' /\ TypeOK
  BY NextInv DEF OrderlyNext, OrderlyInv, IInv
<1>2. c \in Thread
  BY SlotsDisjoint DEF AwaitsOrder
<1>3. PICK t \in Thread : Serve(t) \/ Handle(t)
  BY DEF OrderlyNext, OrderComesFirst, AwaitingOrder, AwaitsOrder
<1>4. t = c
  BY <1>3 DEF AwaitsOrder, Serve, Handle, Idle
<1>5. /\ thread[c].op = "create" /\ thread[c].amount = payPop.payAmount
      /\ payPop.visible /\ payPop.selected = "wechat" /\ payPop.payAmount \in Purchase
      /\ m_bQRLoading /\ posted = <<>> /\ m_strOrderSn # payPop.payAmount
      /\ \A u \in Thread : u # c => thread[u] = Idle
  BY DEF AwaitsOrder
<1>6. CASE Serve(c)
  <2>1. thread[c].at = "sending" /\ ServeCreate(c) /\ UNCHANGED <<uiVars, clientVars, posted, told>>
    BY <1>5, <1>6 DEF Serve
  <2>2. Answered(c, "ok")
    <3>1. CASE Answered(c, "ok")
      BY <3>1
    <3>2. CASE Answered(c, "refused")
      <4>1. thread'[c].at = "answered" /\ thread'[c].answer = "refused"
        BY <1>1, <1>2, <3>2, AnsweredJob
      <4>2. thread'[c].answer = "ok"
        BY <1>2, <1>5, <2>1, <4>1 DEF OrderlyNext, OrderAccepted
      <4> QED BY <4>1, <4>2
    <3>3. CASE Ends(c)
      <4>1. thread'[c] = Idle
        BY <1>1, <1>2, <3>3, NewJob DEF Ends
      <4>2. thread'[c].answer = "ok"
        BY <1>2, <1>5, <2>1, <4>1 DEF OrderlyNext, OrderAccepted, Idle
      <4> QED BY <4>1, <4>2 DEF Idle
    <3> QED BY <2>1, <3>1, <3>2, <3>3 DEF ServeCreate
  <2>3. /\ thread'[c].op = "create" /\ thread'[c].amount = payPop.payAmount
        /\ thread'[c].at = "answered" /\ thread'[c].answer = "ok"
        /\ \A u \in Thread : u # c => thread'[u] = Idle
    BY <1>1, <1>2, <1>5, <2>2, AnsweredJob
  <2>4. AwaitsOrder'
    BY <1>5, <2>1, <2>3 DEF AwaitsOrder, uiVars, clientVars
  <2>5. orders' \subseteq orders \cup {payPop.payAmount} /\ trade' = trade
    BY <1>5, <2>1 DEF ServeCreate
  <2>6. \A o \in orders' : o <= payPop.payAmount
    BY <1>5, <2>5 DEF OrderlyInv, Purchase
  <2>7. AmountIsOwn' /\ StoredCodeIsOwn'
    BY <2>1, <2>5 DEF OrderlyInv, AmountIsOwn, StoredCodeIsOwn, uiVars, clientVars
  <2> QED BY <1>1, <2>1, <2>4, <2>6, <2>7 DEF OrderlyInv, uiVars, clientVars
<1>7. CASE Handle(c)
  <2>1. /\ thread[c].at = "answered" /\ HandleCreate(c) /\ UNCHANGED <<uiVars, serverVars>>
    BY <1>5, <1>7 DEF Handle, HandleCreate, HandleQR, HandleQuery
  <2>2. thread[c].answer = "ok"
    BY <2>1 DEF AwaitsOrder
  <2>3. /\ m_strOrderSn' = payPop.payAmount
        /\ thread' = [thread EXCEPT ![c] = Job("qr", "wechat", m_payAmount)]
        /\ UNCHANGED <<posted, m_payAmount, m_strCodeUrl, m_bQRLoading, told>>
    BY <1>5, <2>1, <2>2 DEF HandleCreate
  <2>4. thread'[c] = Job("qr", "wechat", m_payAmount) /\ \A u \in Thread : u # c => thread'[u] = Idle
    <3>1. /\ thread'[c] = Job("qr", "wechat", m_payAmount)
          /\ \A u \in Thread : u # c => thread'[u] = thread[u]
      <4> DEFINE j == Job("qr", "wechat", m_payAmount)
      <4> HIDE DEF j, c
      <4> QED BY <1>1, <1>2, <2>3, NewJob DEF j
    <3> QED BY <1>5, <3>1
  <2>5. \A u \in Thread : JobOwn(thread'[u], payPop.payAmount, payPop.selected)
    BY <1>5, <2>4, JobFields DEF JobOwn, OrderlyInv
  <2>6. HasOrder'
    BY <1>5, <2>1, <2>3, <2>5 DEF HasOrder, uiVars
  <2>7. AmountIsOwn' /\ StoredCodeIsOwn'
    BY <2>1, <2>3 DEF OrderlyInv, AmountIsOwn, StoredCodeIsOwn, uiVars, serverVars
  <2> QED BY <1>1, <2>1, <2>3, <2>6, <2>7 DEF OrderlyInv, uiVars, serverVars
<1> QED BY <1>3, <1>4, <1>6, <1>7

LEMMA BuyOrderly ==
  ASSUME OrderlyInv, HasOrder, IInv', NEW p \in Purchase, Buy(p), BuysAtRest
  PROVE  OrderlyInv'
<1> DEFINE c == <<"create", p>>
<1>1. TypeOK /\ payPop.payAmount \in OrderSn /\ p = payPop.payAmount + 1
  BY DEF OrderlyInv, IInv, TypeOK, Buy
<1>2. c \in Thread
  BY SlotsDisjoint
<1>3. /\ payPop'.payAmount = p /\ payPop'.visible = TRUE /\ payPop'.selected = "wechat"
      /\ m_payAmount' = p /\ m_bQRLoading' = TRUE
      /\ UNCHANGED <<m_strOrderSn, posted, orders, trade>>
  BY DEF Buy, ShowSpinner, serverVars
<1>4. AllAtRest
  BY <1>1, <1>3 DEF BuysAtRest, OrderSn
<1>5. thread'[c] = Job("create", "none", p) /\ \A u \in Thread : u # c => thread'[u] = Idle
  BY <1>1, <1>2, <1>4, NewJob DEF Buy, AllAtRest
<1>6. m_strOrderSn # p /\ \A o \in orders : o <= p
  <2>1. m_strOrderSn = payPop.payAmount
    BY DEF HasOrder
  <2>2. \A o \in orders : o \in Nat /\ o <= payPop.payAmount
    BY <1>1 DEF OrderlyInv, TypeOK, Purchase
  <2> QED BY <1>1, <2>1, <2>2 DEF OrderSn
<1>7. AwaitsOrder'
  BY <1>3, <1>4, <1>5, <1>6, JobFields DEF AwaitsOrder, AllAtRest
<1>8. AmountIsOwn' /\ StoredCodeIsOwn'
  BY <1>3 DEF OrderlyInv, AmountIsOwn, StoredCodeIsOwn
<1> QED BY <1>3, <1>6, <1>7, <1>8 DEF OrderlyInv

LEMMA TimersOrderly ==
  ASSUME OrderlyInv, HasOrder, IInv',
         ClickClose \/ TimerCloseTriggered \/ OnClosePayPopup
  PROVE  OrderlyInv'
<1> DEFINE Pops == [visible: BOOLEAN, payAmount: OrderSn, countDown: 0..CountDown,
                    timerClose: BOOLEAN, timerQuery: BOOLEAN, selected: Method]
<1>1. payPop \in Pops /\ posted \in Seq(Signal)
  BY DEF OrderlyInv, IInv, TypeOK
<1>2. CASE ClickClose
  BY <1>1, <1>2, CloseOrderly DEF ClickClose, serverVars, HasOrder
<1>3. CASE TimerCloseTriggered
  <2> DEFINE pop == [payPop EXCEPT !.countDown = @ - 1]
  <2>1. payPop.visible /\ payPop.countDown > 0
    BY <1>3 DEF OrderlyInv, IInv, TypeOK, TimersRun, TimerCloseTriggered
  <2>2. /\ pop \in Pops /\ pop.payAmount = payPop.payAmount
        /\ pop.selected = payPop.selected /\ pop.visible
    <3>1. pop \in Pops /\ pop.payAmount = payPop.payAmount /\ pop.visible
      BY <1>1, <2>1, PayAssumption
    <3>2. pop.selected = payPop.selected
      BY <1>1
    <3> QED BY <3>1, <3>2
  <2>3. UNCHANGED <<clientVars, posted, told, serverVars>>
    BY <1>3 DEF TimerCloseTriggered
  <2>4. \A i \in DOMAIN posted' : posted'[i].order = payPop.payAmount
    BY <2>3 DEF HasOrder
  <2>5. CASE ClosePopup(pop)
    <3> HIDE DEF pop
    <3> QED BY <2>1, <2>2, <2>3, <2>4, <2>5, CloseOrderly DEF serverVars
  <2>6. CASE payPop' = pop /\ UNCHANGED <<imageQr, thread, selects>>
    <3>1. /\ payPop'.payAmount = payPop.payAmount /\ payPop'.selected = payPop.selected
          /\ payPop.visible
      BY <2>1, <2>2, <2>6
    <3>2. AmountIsOwn' /\ StoredCodeIsOwn'
      BY <2>3, <3>1 DEF OrderlyInv, AmountIsOwn, StoredCodeIsOwn, clientVars, serverVars
    <3> QED BY <2>3, <2>4, <2>6, <3>1, <3>2, KeepsOrder DEF HasOrder, clientVars, serverVars
  <2> QED BY <1>3, <2>5, <2>6 DEF TimerCloseTriggered
<1>4. CASE OnClosePayPopup
  <2>1. posted' = Tail(posted) /\ posted # <<>> /\ UNCHANGED <<clientVars, told, serverVars>>
    BY <1>4 DEF OnClosePayPopup, Queued
  <2>2. \A i \in DOMAIN posted' : posted'[i].order = payPop.payAmount
    BY <1>1, <2>1, TailSignals DEF HasOrder
  <2>3. CASE payPop.visible /\ ClosePopup(payPop)
    BY <1>1, <2>1, <2>2, <2>3, CloseOrderly DEF serverVars
  <2>4. CASE UNCHANGED <<uiVars, thread>>
    <3>1. payPop' = payPop /\ thread' = thread
      BY <2>4 DEF uiVars
    <3>2. AmountIsOwn' /\ StoredCodeIsOwn'
      BY <2>1, <3>1 DEF OrderlyInv, AmountIsOwn, StoredCodeIsOwn, clientVars, serverVars
    <3> QED BY <2>1, <2>2, <3>1, <3>2, KeepsOrder DEF HasOrder, clientVars, serverVars
  <2> QED BY <1>4, <2>3, <2>4 DEF OnClosePayPopup
<1> QED BY <1>2, <1>3, <1>4

LEMMA ButtonsOrderly ==
  ASSUME OrderlyInv, HasOrder, IInv', NEW t \in Extra,
         TimerQueryTriggered(t) \/ \E m \in Method : Select(t, m) /\ OneCodeAtATime
  PROVE  OrderlyInv'
<1>1. TypeOK /\ t \in Thread
  BY DEF OrderlyInv, IInv, Thread
<1>2. CASE TimerQueryTriggered(t)
  <2>1. /\ thread' = [thread EXCEPT ![t] = Job("query", payPop.selected, 0)]
        /\ UNCHANGED <<uiVars, clientVars, posted, told, serverVars>>
    BY <1>2 DEF TimerQueryTriggered
  <2>2. \A u \in Thread : JobOwn(thread'[u], payPop.payAmount, payPop.selected)
    BY <1>1, <2>1, NewJob, JobFields DEF HasOrder, JobOwn
  <2>3. AmountIsOwn' /\ StoredCodeIsOwn'
    BY <2>1 DEF OrderlyInv, AmountIsOwn, StoredCodeIsOwn, uiVars, clientVars, serverVars
  <2> QED BY <2>1, <2>2, <2>3, KeepsOrder DEF HasOrder, uiVars, clientVars, serverVars
<1>3. ASSUME NEW m \in Method, Select(t, m), OneCodeAtATime
      PROVE  OrderlyInv'
  <2>1. /\ selects' = selects + 1 /\ m_bQRLoading' = TRUE
        /\ payPop' = [payPop EXCEPT !.selected = m, !.countDown = CountDown, !.timerQuery = TRUE]
        /\ thread' = [thread EXCEPT ![t] = Job("qr", m, payPop.payAmount)]
        /\ UNCHANGED <<m_payAmount, m_strOrderSn, m_strCodeUrl, posted, told, serverVars>>
    BY <1>3 DEF Select, ShowSpinner
  <2>2. payPop'.payAmount = payPop.payAmount /\ payPop'.selected = m
    BY <1>1, <2>1 DEF TypeOK
  <2>3. \A u \in Thread : thread[u].op # "qr"
    BY <1>1, <1>3, <2>1 DEF OneCodeAtATime, TypeOK
  <2>4. \A u \in Thread : JobOwn(thread'[u], payPop.payAmount, m)
    BY <1>1, <2>1, <2>3, NewJob, JobFields DEF HasOrder, JobOwn
  <2>5. AmountIsOwn' /\ StoredCodeIsOwn'
    BY <2>1 DEF OrderlyInv, AmountIsOwn, StoredCodeIsOwn, serverVars
  <2> QED BY <2>1, <2>2, <2>4, <2>5, KeepsOrder DEF HasOrder, serverVars
<1> QED BY <1>2, <1>3

LEMMA StartOrderly ==
  ASSUME OrderlyInv, HasOrder, IInv', NEW t \in Thread, Start(t)
  PROVE  OrderlyInv'
<1>1. TypeOK /\ thread[t] \in JobType
  BY DEF OrderlyInv, IInv, TypeOK
<1>2. /\ thread'[t] = [thread[t] EXCEPT !.at = "sending", !.order = m_strOrderSn]
      /\ \A u \in Thread : u # t => thread'[u] = thread[u]
  BY <1>1 DEF Start, TypeOK
<1>3. /\ thread'[t].op = thread[t].op /\ thread'[t].method = thread[t].method
      /\ thread'[t].amount = thread[t].amount /\ thread'[t].order = payPop.payAmount
  BY <1>1, <1>2 DEF JobType, HasOrder
<1>4. \A u \in Thread : JobOwn(thread'[u], payPop.payAmount, payPop.selected)
  <2>1. JobOwn(thread'[t], payPop.payAmount, payPop.selected)
    BY <1>3 DEF HasOrder, JobOwn
  <2>2. \A u \in Thread : u # t => JobOwn(thread'[u], payPop.payAmount, payPop.selected)
    BY <1>2 DEF HasOrder
  <2> QED BY <2>1, <2>2
<1>5. AmountIsOwn' /\ StoredCodeIsOwn'
  BY DEF Start, OrderlyInv, AmountIsOwn, StoredCodeIsOwn, uiVars, clientVars, serverVars
<1> QED BY <1>4, <1>5, KeepsOrder DEF Start, HasOrder, uiVars, clientVars, serverVars

\* A QR code opens a trade over the amount of the order; closing keeps it.
LEMMA ServeOrderly ==
  ASSUME OrderlyInv, HasOrder, IInv', NEW t \in Thread, Serve(t)
  PROVE  OrderlyInv'
<1>1. /\ IInv /\ TypeOK /\ thread[t] \in JobType
      /\ JobOwn(thread[t], payPop.payAmount, payPop.selected)
      /\ JobGood(thread[t], orders, trade) /\ thread[t].at = "sending"
      /\ UNCHANGED <<uiVars, clientVars, posted, told>>
  BY DEF OrderlyInv, IInv, TypeOK, HasOrder, JobsGood, Serve
<1>2. /\ \A u \in Thread : u # t => thread'[u] = thread[u]
      /\ \/ thread'[t] = Idle
         \/ /\ thread'[t].op = thread[t].op /\ thread'[t].method = thread[t].method
            /\ thread'[t].order = thread[t].order /\ thread'[t].amount = thread[t].amount
  <2>1. Ends(t) \/ \E a \in {"ok", "refused"} : Answered(t, a)
    BY DEF Serve, ServeCreate, ServeQR, ServeQuery, ServeClose
  <2> QED BY <1>1, <2>1, NewJob, AnsweredJob DEF Ends
<1>3. \A u \in Thread : JobOwn(thread'[u], payPop.payAmount, payPop.selected)
  BY <1>1, <1>2 DEF HasOrder, JobOwn, Idle
<1>4. orders' = orders /\ AmountIsOwn'
  <2>1. CASE thread[t].op = "qr" /\ ServeQR(t)
    <3> DEFINE m  == thread[t].method
               o  == thread[t].order
               tr == [st |-> "open", amount |-> thread[t].amount]
    <3>1. m \in Method /\ tr.amount = o /\ orders' = orders
      BY <1>1, <2>1 DEF JobGood, JobOwn, ServeQR
    <3>2. trade' = trade \/ (o \in Purchase /\ trade' = [trade EXCEPT ![m][o] = tr])
      BY <1>1, <2>1 DEF ServeQR, TypeOK
    <3>3. trade' = trade \/ \A n \in Method, q \in Purchase :
            trade'[n][q] = trade[n][q] \/ (q = o /\ trade'[n][q] = tr)
      <4> HIDE DEF tr
      <4> QED BY <1>1, <3>1, <3>2, SMTT(30) DEF TypeOK
    <3> HIDE DEF tr
    <3> QED BY <3>1, <3>3 DEF OrderlyInv, AmountIsOwn
  <2>2. CASE thread[t].op = "query" /\ ServeQuery(t)
    BY <2>2 DEF ServeQuery, serverVars, OrderlyInv, AmountIsOwn
  <2>3. CASE thread[t].op = "close" /\ ServeClose(t)
    <3>1. Served
      BY <1>1, <2>3, ServeCloseStep DEF uiVars
    <3>2. orders' = orders
      BY <2>3 DEF ServeClose
    <3> DEFINE m  == thread[t].method
               o  == thread[t].order
    <3>3. ASSUME NEW n \in Method, NEW q \in Purchase, trade'[n][q].st # "none"
          PROVE  trade[n][q].st # "none"
      <4>1. m \in Method
        BY <1>1, <2>3 DEF JobGood
      <4>2. CASE trade' = trade
        BY <3>3, <4>2
      <4>3. CASE /\ o \in orders /\ trade[m][o].st = "open"
                 /\ trade' = [trade EXCEPT ![m][o].st = "closed"]
        <5>1. o \in Purchase
          BY <1>1, <4>3 DEF TypeOK
        <5>2. trade'[n][q] = trade[n][q] \/ (n = m /\ q = o)
          BY <1>1, <4>1, <4>3, <5>1 DEF TypeOK
        <5> QED BY <3>3, <4>3, <5>2
      <4> QED BY <2>3, <4>2, <4>3 DEF ServeClose
    <3>4. \A n \in Method, q \in Purchase :
            trade[n][q].st # "none" => trade'[n][q].amount = trade[n][q].amount
      BY <3>1 DEF Served, ServerKeeps
    <3> QED BY <3>2, <3>3, <3>4 DEF OrderlyInv, AmountIsOwn
  <2> QED BY <1>1, <2>1, <2>2, <2>3 DEF Serve, JobOwn
<1>5. StoredCodeIsOwn'
  BY <1>1 DEF OrderlyInv, StoredCodeIsOwn, uiVars, clientVars
<1> QED BY <1>1, <1>3, <1>4, <1>5, KeepsOrder DEF HasOrder, uiVars, clientVars

LEMMA HandleOrderly ==
  ASSUME OrderlyInv, HasOrder, IInv', NEW t \in Thread, Handle(t)
  PROVE  OrderlyInv'
<1>1. /\ IInv /\ TypeOK /\ thread[t] \in JobType
      /\ JobOwn(thread[t], payPop.payAmount, payPop.selected)
      /\ thread[t].at = "answered" /\ UNCHANGED <<uiVars, serverVars>>
  BY DEF OrderlyInv, IInv, TypeOK, HasOrder, Handle
<1>2. ASSUME Ends(t)
      PROVE  \A u \in Thread : JobOwn(thread'[u], payPop.payAmount, payPop.selected)
  BY <1>1, <1>2, NewJob DEF Ends, HasOrder, JobOwn, Idle
<1>3. AmountIsOwn'
  BY <1>1 DEF OrderlyInv, AmountIsOwn, serverVars
<1>4. CASE HandleQR(t)
  <2>1. m_strCodeUrl' = [method |-> payPop.selected, order |-> payPop.payAmount,
                         amount |-> payPop.payAmount]
    BY <1>1, <1>4 DEF HandleQR, JobOwn
  <2>2. StoredCodeIsOwn'
    BY <1>1, <2>1 DEF StoredCodeIsOwn, uiVars
  <2> DEFINE j == [thread[t] EXCEPT !.at = "painted"]
             s == [why |-> "loading", order |-> thread[t].order]
  <2>3. /\ thread' = [thread EXCEPT ![t] = j]
        /\ j.op = thread[t].op /\ j.method = thread[t].method /\ j.at = "painted"
        /\ j.order = thread[t].order /\ j.amount = thread[t].amount
    BY <1>1, <1>4, PaintedJob
  <2>4. thread[t].op = "qr" /\ thread[t].order = payPop.payAmount
    BY <1>1, <1>4 DEF HandleQR, JobOwn
  <2>5. Emit(s) /\ s \in Signal /\ s.order = thread[t].order
    BY <1>1, <1>4 DEF HandleQR, Signal, JobType
  <2> HIDE DEF j, s
  <2>6. \A u \in Thread : JobOwn(thread'[u], payPop.payAmount, payPop.selected)
    BY <1>1, <2>3, <2>4, NewJob DEF HasOrder, JobOwn
  <2>7. \A i \in DOMAIN posted' : posted'[i].order = payPop.payAmount
    BY <1>1, <2>4, <2>5, EmitStep DEF HasOrder
  <2> QED BY <1>1, <1>3, <1>4, <2>2, <2>6, <2>7, KeepsOrder DEF HandleQR, uiVars, serverVars
<1>5. CASE HandleQuery(t)
  <2> DEFINE s == [why |-> "paid", order |-> thread[t].order]
  <2>1. thread[t].order = payPop.payAmount /\ s \in Signal /\ s.order = thread[t].order
    BY <1>1, <1>5 DEF HandleQuery, JobOwn, Signal, JobType
  <2>2. Emit(s)
    BY <1>5 DEF HandleQuery
  <2> HIDE DEF s
  <2>3. \A i \in DOMAIN posted' : posted'[i].order = payPop.payAmount
    BY <1>1, <2>1, <2>2, EmitStep DEF HasOrder
  <2>4. StoredCodeIsOwn'
    BY <1>1, <1>5 DEF HandleQuery, OrderlyInv, StoredCodeIsOwn, uiVars, clientVars
  <2> QED BY <1>1, <1>2, <1>3, <1>5, <2>3, <2>4, KeepsOrder
          DEF HandleQuery, uiVars, clientVars, serverVars
<1> QED BY <1>1, <1>4, <1>5 DEF Handle, HandleCreate, JobOwn

\* The signals that bring the screen up to date are of the latest order, too.
LEMMA ScreenOrderly ==
  ASSUME OrderlyInv, HasOrder, IInv',
         OnQrLoadingChanged \/ OnCodeUrlChanged \/ \E t \in Thread : AnnounceCode(t)
  PROVE  OrderlyInv'
<1>1. UNCHANGED <<payPop, clientVars, told, orders, trade>> /\ IInv /\ TypeOK
  BY DEF OnQrLoadingChanged, OnCodeUrlChanged, AnnounceCode, uiVars, serverVars, OrderlyInv, IInv
<1>2. AmountIsOwn' /\ StoredCodeIsOwn'
  BY <1>1 DEF OrderlyInv, AmountIsOwn, StoredCodeIsOwn, clientVars
<1>3. CASE OnQrLoadingChanged \/ OnCodeUrlChanged
  <2>1. /\ thread' = thread /\ posted' = Tail(posted)
        /\ Queued({"loading"}) \/ Queued({"code"})
    BY <1>3 DEF OnQrLoadingChanged, OnCodeUrlChanged
  <2>2. \A i \in DOMAIN posted' : posted'[i].order = payPop.payAmount
    BY <1>1, <2>1, TakeStep DEF HasOrder
  <2> QED BY <1>1, <1>2, <2>1, <2>2, KeepsOrder DEF HasOrder, clientVars
<1>4. ASSUME NEW t \in Thread, AnnounceCode(t) PROVE OrderlyInv'
  <2> DEFINE s == [why |-> "code", order |-> thread[t].order]
  <2>1. /\ thread[t].at = "painted" /\ Ends(t) /\ Emit(s) /\ s \in Signal
        /\ s.order = thread[t].order
    BY <1>1, <1>4 DEF AnnounceCode, TypeOK, Signal, JobType
  <2>2. thread[t].order = payPop.payAmount
    BY <1>1, <2>1 DEF HasOrder, JobOwn, IInv, JobsGood, JobGood
  <2> HIDE DEF s
  <2>3. \A i \in DOMAIN posted' : posted'[i].order = payPop.payAmount
    BY <1>1, <2>1, <2>2, EmitStep DEF HasOrder
  <2>4. \A u \in Thread : JobOwn(thread'[u], payPop.payAmount, payPop.selected)
    BY <1>1, <2>1, NewJob DEF Ends, HasOrder, JobOwn, Idle
  <2> QED BY <1>1, <1>2, <2>3, <2>4, KeepsOrder DEF clientVars
<1> QED BY <1>3, <1>4

LEMMA PayOrderlyStep ==
  ASSUME OrderlyInv, HasOrder, IInv', Scan \/ Pay
  PROVE  OrderlyInv'
<1>1. /\ UNCHANGED <<uiVars, clientVars, thread, posted, told, orders>>
  BY DEF Scan, Pay
<1>2. AmountIsOwn'
  <2>1. CASE Scan
    BY <2>1 DEF Scan, OrderlyInv, AmountIsOwn
  <2>2. CASE Pay
    <3> DEFINE m == phone.method
               o == phone.order
    <3>1. m \in Method /\ o \in Purchase /\ trade[m][o] \in Trade /\ trade[m][o].st = "open"
          /\ trade \in [Method -> [Purchase -> Trade]]
      BY <2>2 DEF OrderlyInv, IInv, TypeOK, Pay, Code
    <3>2. [trade[m][o] EXCEPT !.st = "paid"].amount = trade[m][o].amount
      BY <3>1 DEF Trade
    <3>3. trade' = [trade EXCEPT ![m] = [trade[m] EXCEPT ![o] =
                                          [trade[m][o] EXCEPT !.st = "paid"]]]
      BY <2>2 DEF Pay
    <3>4. /\ trade'[m][o].amount = trade[m][o].amount
          /\ \A n \in Method, q \in Purchase :
               trade'[n][q] = trade[n][q] \/ (n = m /\ q = o)
      BY <3>1, <3>2, <3>3
    <3> QED BY <3>1, <3>4 DEF OrderlyInv, AmountIsOwn
  <2> QED BY <2>1, <2>2
<1>3. StoredCodeIsOwn'
  BY <1>1 DEF OrderlyInv, StoredCodeIsOwn, uiVars, clientVars
<1> QED BY <1>1, <1>2, <1>3, KeepsOrder DEF HasOrder, uiVars, clientVars

LEMMA OrderlyStep == OrderlyInv /\ [OrderlyNext]_vars => OrderlyInv'
<1> SUFFICES ASSUME OrderlyInv, [OrderlyNext]_vars PROVE OrderlyInv'
  OBVIOUS
<1>1. IInv'
  BY NextInv DEF OrderlyInv, OrderlyNext
<1>2. CASE AwaitsOrder /\ OrderlyNext
  BY <1>2, AwaitsStep
<1>3. CASE HasOrder /\ OrderlyNext
  <2>1. Next /\ BuysAtRest /\ OneCodeAtATime
    BY <1>3 DEF OrderlyNext
  <2>2. ASSUME NEW p \in Purchase, Buy(p) PROVE OrderlyInv'
    BY <1>1, <1>3, <2>1, <2>2, BuyOrderly
  <2>3. CASE ClickClose \/ TimerCloseTriggered \/ OnClosePayPopup
    BY <1>1, <1>3, <2>3, TimersOrderly
  <2>4. ASSUME NEW t \in Extra,
               TimerQueryTriggered(t) \/ \E m \in Method : Select(t, m)
        PROVE  OrderlyInv'
    BY <1>1, <1>3, <2>1, <2>4, ButtonsOrderly
  <2>5. ASSUME NEW t \in Thread, Start(t) \/ Serve(t) \/ Handle(t) PROVE OrderlyInv'
    BY <1>1, <1>3, <2>5, StartOrderly, ServeOrderly, HandleOrderly
  <2>6. CASE Scan \/ Pay
    BY <1>1, <1>3, <2>6, PayOrderlyStep
  <2>7. CASE OnQrLoadingChanged \/ OnCodeUrlChanged \/ \E t \in Thread : AnnounceCode(t)
    BY <1>1, <1>3, <2>7, ScreenOrderly
  <2> QED BY <2>1, <2>2, <2>3, <2>4, <2>5, <2>6, <2>7 DEF Next
<1>4. CASE UNCHANGED vars
  BY <1>1, <1>4 DEF vars, uiVars, clientVars, serverVars, OrderlyInv, AwaitsOrder, HasOrder,
     AmountIsOwn, StoredCodeIsOwn
<1> QED BY <1>2, <1>3, <1>4 DEF OrderlyInv

-----------------------------------------------------------------------------
(* PayOrderly: the theorems *)

\* The inductive invariant of orderly use: after a purchase nothing but its
\* order's number is on its way, and once it is known everything is of it.
THEOREM OrderlyInductive == OrderlySpec => []OrderlyInv
BY OrderlyInit, OrderlyStep, PTL DEF OrderlySpec

\* Used in order, every request and every signal names the order of the
\* latest purchase, although the threads read m_strOrderSn on their own time.
THEOREM OrdersAreOwn == OrderlySpec => []RequestsOwnOrder
<1>1. OrderlyInv => RequestsOwnOrder
  <2> SUFFICES ASSUME OrderlyInv PROVE RequestsOwnOrder
    OBVIOUS
  <2>1. CASE AwaitsOrder
    BY <2>1 DEF AwaitsOrder, RequestsOwnOrder, Idle
  <2>2. CASE HasOrder
    BY <2>2 DEF HasOrder, JobOwn, RequestsOwnOrder
  <2> QED BY <2>1, <2>2 DEF OrderlyInv
<1> QED BY OrderlyInductive, <1>1, PTL

\* Used in order, every trade is over the amount of its own purchase
\* (m_payAmount, payAmount).
THEOREM AmountsAreOwn == OrderlySpec => []AmountIsOwn
<1>1. OrderlyInv => AmountIsOwn
  BY DEF OrderlyInv
<1> QED BY OrderlyInductive, <1>1, PTL

\* Used in order, a QR code that the open popup shows is that of its order, its
\* amount and its method, but between the two signals of generateCodeImage: the
\* stored code is the popup's own, and the screen follows what is stored.
THEOREM CodeIsOwn == OrderlySpec => []CodeOnScreen
<1>1. OrderlyInv => CodeOnScreen
  <2> SUFFICES ASSUME OrderlyInv, payPop.visible, imageQr.visible, ~CodeAnnounced
               PROVE  imageQr.source = [method |-> payPop.selected, order |-> payPop.payAmount,
                                        amount |-> payPop.payAmount]
    BY DEF CodeOnScreen
  <2>1. ~m_bQRLoading /\ imageQr.source = m_strCodeUrl
    BY DEF OrderlyInv, IInv, ScreenFollows
  <2> QED BY <2>1 DEF OrderlyInv, StoredCodeIsOwn
<1> QED BY OrderlyInductive, <1>1, PTL

-----------------------------------------------------------------------------
(* The checkout in order implements Checkout *)

PaidOrders == {o \in Purchase : Paid(o)}

\* A step that shows nothing of itself in the checkout.
Stutters == UNCHANGED <<payPop.payAmount, payPop.visible, PaidOrders, told>>

LEMMA SamePaid ==
  ASSUME \A m \in Method, o \in Purchase : trade'[m][o].st = "paid" <=> trade[m][o].st = "paid"
  PROVE  PaidOrders' = PaidOrders
BY DEF PaidOrders, Paid

LEMMA RefinesInit == Init => Abstract!Init
BY DEF Init, Abstract!Init, Paid

\* A popup that closes ends its checkout.
LEMMA EndRefined ==
  ASSUME TypeOK, payPop.visible, NEW pop, pop.payAmount = payPop.payAmount, ClosePopup(pop),
         pop \in [visible: BOOLEAN, payAmount: OrderSn, countDown: 0..CountDown,
                  timerClose: BOOLEAN, timerQuery: BOOLEAN, selected: Method],
         UNCHANGED <<told, trade>>
  PROVE  Abstract!End
<1>1. payPop.visible = TRUE /\ payPop'.visible = FALSE /\ payPop'.payAmount = payPop.payAmount
  BY DEF ClosePopup, TypeOK
<1>2. PaidOrders' = PaidOrders
  BY SamePaid
<1> QED BY <1>1, <1>2 DEF Abstract!End, PaidOrders

LEMMA UIRefined ==
  ASSUME OrderlyInv, ClickClose \/ TimerCloseTriggered \/ OnClosePayPopup
  PROVE  Abstract!End \/ Stutters
<1> DEFINE Pops == [visible: BOOLEAN, payAmount: OrderSn, countDown: 0..CountDown,
                    timerClose: BOOLEAN, timerQuery: BOOLEAN, selected: Method]
<1>1. TypeOK /\ payPop \in Pops /\ UNCHANGED <<told, trade>> /\ PaidOrders' = PaidOrders
  BY SamePaid DEF OrderlyInv, IInv, TypeOK, ClickClose, TimerCloseTriggered, OnClosePayPopup, serverVars
<1>2. CASE ClickClose
  BY <1>1, <1>2, EndRefined DEF ClickClose
<1>3. CASE TimerCloseTriggered
  <2> DEFINE pop == [payPop EXCEPT !.countDown = @ - 1]
  <2>1. payPop.visible /\ payPop.countDown > 0
    BY <1>3 DEF OrderlyInv, IInv, TypeOK, TimersRun, TimerCloseTriggered
  <2>2. pop \in Pops /\ pop.payAmount = payPop.payAmount /\ pop.visible
    BY <1>1, <2>1, PayAssumption
  <2>3. CASE ClosePopup(pop)
    <3> HIDE DEF pop
    <3> QED BY <1>1, <2>1, <2>2, <2>3, EndRefined
  <2>4. CASE payPop' = pop
    <3>1. payPop'.visible = TRUE /\ payPop.visible = TRUE /\ payPop'.payAmount = payPop.payAmount
      BY <1>1, <2>1, <2>2, <2>4
    <3> QED BY <1>1, <3>1 DEF Stutters
  <2> QED BY <1>3, <2>3, <2>4 DEF TimerCloseTriggered
<1>4. CASE OnClosePayPopup
  <2>1. CASE payPop.visible /\ ClosePopup(payPop)
    BY <1>1, <2>1, EndRefined
  <2>2. CASE UNCHANGED <<uiVars, thread>>
    BY <1>1, <2>2 DEF Stutters, uiVars
  <2> QED BY <1>4, <2>1, <2>2 DEF OnClosePayPopup
<1> QED BY <1>2, <1>3, <1>4

LEMMA SelectRefined ==
  ASSUME TypeOK, NEW t \in Extra, NEW m \in Method, Select(t, m)
  PROVE  Stutters
<1>1. payPop'.payAmount = payPop.payAmount /\ payPop'.visible = payPop.visible
  <2>1. payPop' = [payPop EXCEPT !.selected = m, !.countDown = CountDown, !.timerQuery = TRUE]
    BY DEF Select
  <2>2. /\ payPop \in [visible: BOOLEAN, payAmount: OrderSn, countDown: 0..CountDown,
                       timerClose: BOOLEAN, timerQuery: BOOLEAN, selected: Method]
    BY DEF TypeOK
  <2>3. payPop' = [visible |-> payPop.visible, payAmount |-> payPop.payAmount,
                   countDown |-> CountDown, timerClose |-> payPop.timerClose,
                   timerQuery |-> TRUE, selected |-> m]
    BY <2>1, <2>2
  <2> QED BY <2>3
<1>2. told' = told /\ PaidOrders' = PaidOrders
  BY SamePaid DEF Select, serverVars
<1> QED BY <1>1, <1>2 DEF Stutters

\* The server opens and closes trades, and turns none into a paid one or back.
LEMMA ServeRefined ==
  ASSUME OrderlyInv, NEW t \in Thread, Serve(t)
  PROVE  Stutters
<1> DEFINE m  == thread[t].method
           o  == thread[t].order
           tr == [st |-> "open", amount |-> thread[t].amount]
<1>1. IInv /\ TypeOK /\ JobGood(thread[t], orders, trade) /\ UNCHANGED <<payPop, told>>
  BY DEF OrderlyInv, IInv, JobsGood, Serve, uiVars
<1>2. \A n \in Method, q \in Purchase : trade'[n][q].st = "paid" <=> trade[n][q].st = "paid"
  <2>1. CASE UNCHANGED trade
    BY <2>1
  <2>2. CASE /\ thread[t].op = "qr" /\ o \in orders
             /\ trade[m][o].st = "none" \/ trade[m][o] = tr
             /\ trade' = [trade EXCEPT ![m][o] = tr]
    <3>1. m \in Method /\ o \in Purchase
      BY <1>1, <2>2 DEF JobGood, TypeOK
    <3>2. /\ trade'[m][o] = tr
          /\ \A n \in Method, q \in Purchase : trade'[n][q] = trade[n][q] \/ (n = m /\ q = o)
      BY <1>1, <2>2, <3>1 DEF TypeOK
    <3>3. tr.st = "open" /\ trade[m][o].st # "paid"
      BY <2>2
    <3> HIDE DEF tr, m, o
    <3> QED BY <3>2, <3>3
  <2>3. CASE /\ thread[t].op = "close" /\ o \in orders /\ trade[m][o].st = "open"
             /\ trade' = [trade EXCEPT ![m][o].st = "closed"]
    <3>1. m \in Method /\ o \in Purchase /\ trade[m][o] \in Trade
      BY <1>1, <2>3 DEF JobGood, TypeOK
    <3>2. [trade[m][o] EXCEPT !.st = "closed"].st = "closed"
      BY <3>1 DEF Trade
    <3>3. trade' = [trade EXCEPT ![m] = [trade[m] EXCEPT ![o] =
                                          [trade[m][o] EXCEPT !.st = "closed"]]]
      BY <2>3
    <3>4. /\ trade'[m][o].st = "closed"
          /\ \A n \in Method, q \in Purchase : trade'[n][q] = trade[n][q] \/ (n = m /\ q = o)
      BY <1>1, <3>1, <3>2, <3>3 DEF TypeOK
    <3> HIDE DEF m, o
    <3> QED BY <2>3, <3>4
  <2> QED BY <2>1, <2>2, <2>3 DEF Serve, ServeCreate, ServeQR, ServeQuery, ServeClose, serverVars
<1> QED BY <1>1, <1>2, SamePaid DEF Stutters

\* Only the reply of a query for a paid order tells the user, in the latest checkout.
LEMMA HandleRefined ==
  ASSUME OrderlyInv, NEW t \in Thread, Handle(t)
  PROVE  Abstract!Tell \/ Stutters
<1>1. /\ IInv /\ TypeOK /\ JobGood(thread[t], orders, trade) /\ thread[t].at = "answered"
      /\ UNCHANGED <<payPop, orders, trade>>
  BY DEF OrderlyInv, IInv, JobsGood, Handle, uiVars, serverVars
<1>2. PaidOrders' = PaidOrders
  BY <1>1, SamePaid
<1>3. CASE HandleQuery(t)
  <2>1. HasOrder
    BY <1>3 DEF OrderlyInv, AwaitsOrder, HandleQuery, Idle
  <2>2. thread[t].order = payPop.payAmount
    BY <1>1, <1>3, <2>1 DEF HasOrder, JobOwn, HandleQuery
  <2>3. payPop.payAmount \in PaidOrders
    BY <1>1, <1>3, <2>2 DEF HandleQuery, JobGood, PaidOrders, Paid, TypeOK
  <2>4. told' = told \cup {payPop.payAmount}
    BY <1>3, <2>2 DEF HandleQuery
  <2> QED BY <1>1, <1>2, <2>3, <2>4 DEF Abstract!Tell, PaidOrders
<1>4. CASE told' = told
  BY <1>1, <1>2, <1>4 DEF Stutters
<1> QED BY <1>3, <1>4 DEF Handle, HandleCreate, HandleQR

\* A payment pays a purchase whose checkout has begun.
LEMMA PayRefined ==
  ASSUME OrderlyInv, Pay
  PROVE  \E o \in 1..payPop.payAmount : Abstract!PayFor(o)
<1> DEFINE m == phone.method
           o == phone.order
<1>1. TypeOK /\ m \in Method /\ o \in Purchase /\ trade[m][o] \in Trade
  BY DEF OrderlyInv, IInv, TypeOK, Pay, Code
<1>2. o \in 1..payPop.payAmount
  <2>1. o \in orders
    BY DEF Pay, OrderlyInv, IInv, CodesKnown
  <2>2. payPop.payAmount \in Nat
    BY <1>1, PayAssumption DEF TypeOK, OrderSn
  <2> QED BY <1>1, <2>1, <2>2 DEF OrderlyInv, Purchase
<1>3. [trade[m][o] EXCEPT !.st = "paid"].st = "paid"
  BY <1>1 DEF Trade
<1>4. trade' = [trade EXCEPT ![m] = [trade[m] EXCEPT ![o] =
                                      [trade[m][o] EXCEPT !.st = "paid"]]]
  BY DEF Pay
<1>5. /\ trade'[m][o].st = "paid"
      /\ \A n \in Method, q \in Purchase : trade'[n][q] = trade[n][q] \/ (n = m /\ q = o)
  BY <1>1, <1>3, <1>4 DEF TypeOK
<1>6. PaidOrders' = PaidOrders \cup {o}
  <2> HIDE DEF m, o
  <2>1. \A q \in Purchase : Paid(q)' <=> Paid(q) \/ q = o
    BY <1>1, <1>5 DEF Paid
  <2> QED BY <1>1, <2>1 DEF PaidOrders
<1>7. UNCHANGED <<payPop, told>>
  BY DEF Pay, uiVars
<1> QED BY <1>2, <1>6, <1>7 DEF Abstract!PayFor, PaidOrders

LEMMA RefinesStep == OrderlyInv /\ [OrderlyNext]_vars => [Abstract!Next]_(Abstract!vars)
<1> SUFFICES ASSUME OrderlyInv, [OrderlyNext]_vars PROVE [Abstract!Next]_(Abstract!vars)
  OBVIOUS
<1>1. TypeOK
  BY DEF OrderlyInv, IInv
<1>2. Stutters => UNCHANGED Abstract!vars
  BY DEF Stutters, Abstract!vars, PaidOrders
<1>3. CASE OrderlyNext
  <2>1. ASSUME NEW p \in Purchase, Buy(p) PROVE Abstract!Begin
    <3>1. /\ payPop.visible = FALSE /\ payPop'.visible = TRUE
          /\ payPop'.payAmount = payPop.payAmount + 1 /\ payPop.payAmount < MaxPurchases
          /\ UNCHANGED <<told, trade>>
      BY <1>1, <2>1, PayAssumption DEF Buy, serverVars, TypeOK, Purchase, OrderSn
    <3>2. PaidOrders' = PaidOrders
      BY <3>1, SamePaid
    <3> QED BY <3>1, <3>2 DEF Abstract!Begin, PaidOrders
  <2>2. CASE ClickClose \/ TimerCloseTriggered \/ OnClosePayPopup
    BY <1>2, <2>2, UIRefined DEF Abstract!Next
  <2>3. ASSUME NEW t \in Extra, TimerQueryTriggered(t) PROVE Stutters
    BY <2>3, SamePaid DEF TimerQueryTriggered, uiVars, serverVars, Stutters
  <2>4. ASSUME NEW t \in Extra, NEW m \in Method, Select(t, m) PROVE Stutters
    BY <1>1, <2>4, SelectRefined
  <2>5. ASSUME NEW t \in Thread, Start(t) \/ Serve(t) \/ Handle(t)
        PROVE  Abstract!Tell \/ Stutters
    <3>1. CASE Start(t)
      BY <3>1, SamePaid DEF Start, uiVars, serverVars, Stutters
    <3> QED BY <2>5, <3>1, ServeRefined, HandleRefined
  <2>11. CASE OnQrLoadingChanged \/ OnCodeUrlChanged \/ \E t \in Thread : AnnounceCode(t)
    <3>1. UNCHANGED <<payPop, told, trade>>
      BY <2>11 DEF OnQrLoadingChanged, OnCodeUrlChanged, AnnounceCode, uiVars, serverVars
    <3> QED BY <1>2, <3>1, SamePaid DEF Stutters
  <2>6. CASE Scan
    BY <1>2, <2>6, SamePaid DEF Scan, uiVars, Stutters
  <2>7. CASE Pay
    BY <2>7, PayRefined DEF Abstract!Next
  <2>8. CASE \E p \in Purchase : Buy(p)
    BY <2>1, <2>8 DEF Abstract!Next
  <2>9. CASE \E t \in Thread : Start(t) \/ Serve(t) \/ Handle(t)
    BY <1>2, <2>5, <2>9 DEF Abstract!Next
  <2>10. CASE (\E t \in Extra : TimerQueryTriggered(t)) \/ \E t \in Extra, m \in Method : Select(t, m)
    BY <1>2, <2>3, <2>4, <2>10
  <2> QED BY <1>3, <2>2, <2>6, <2>7, <2>8, <2>9, <2>10, <2>11 DEF OrderlyNext, Next
<1>4. CASE UNCHANGED vars
  BY <1>2, <1>4, SamePaid DEF vars, uiVars, serverVars, Stutters
<1> QED BY <1>3, <1>4

\* Used in order, the popup, its threads and the server implement the checkout
\* that Checkout describes: one purchase after the other, and a success told
\* only in its own checkout and only if it was paid.
THEOREM ImplementsCheckout == OrderlySpec => CheckoutSpec
<1>1. Init => Abstract!Init
  BY RefinesInit
<1>2. OrderlyInv /\ [OrderlyNext]_vars => [Abstract!Next]_(Abstract!vars)
  BY RefinesStep
<1> QED BY <1>1, <1>2, OrderlyInductive, PTL DEF OrderlySpec, CheckoutSpec, Abstract!Spec
=============================================================================
