----------------------------- MODULE MsgCenter -----------------------------
(***************************************************************************)
(* The message center: MsgCenter.cpp, the tabs of MsgCenterPage.qml and    *)
(* the notice popups (ActivitiesNoticePopup.qml).  Every request has a     *)
(* detached thread; a thread's last act is often to start the next request *)
(* (getUnReadNum, getForceNotice, getUnReadNum and so on), which the model *)
(* lets it be itself.  Signals to the pages are queued to the UI thread.   *)
(***************************************************************************)
EXTENDS Naturals, Sequences, SequencesExt

CONSTANTS
  Msg,       \* messages of the service
  Tab,       \* getMsgListByType's types, the tabs of the page
  TabOf,     \* the tab that lists a message
  Forced,    \* the messages that the server wants shown in a popup
  FirstTab,  \* type 0, which the links to the page ask for
  None,
  Slot,      \* bound: requests in flight
  MaxActs    \* bound: what the user does

ASSUME MsgCenterAssumption ==
  /\ None \notin Msg \cup Tab
  /\ TabOf \in [Msg -> Tab]
  /\ Forced \subseteq Msg
  /\ FirstTab \in Tab
  /\ MaxActs \in Nat

VARIABLES
  tab,               \* MsgCenterPage: stackMsgList.currentIndex
  asked,             \* history: the type that was asked for last
  list,              \* the notice models: what each tab lists
  m_msgDataIsReady,  \* MsgCenter: no spinner on the page
  m_msgDataIsEmpty,  \* MsgCenter: the page says that there are no messages
  popups,            \* open notice popups, the last on top, by their msgId
  m_msgReady,        \* MsgCenter: no spinner in the popups
  details,           \* MsgCenter: the message whose text was stored last
  layout,            \* MsgCenter: the messages whose template is laid out
  counted,           \* MsgCenter: the unread messages of the last count
  signals,           \* signals queued to the UI thread
  thread,            \* the requests
  published, read, popped,  \* server
  acts,              \* number of things the user has done
  crossed,           \* history: two lists, or two popups, got in each other's way
  failed             \* history: whether the last list, the last details failed

pageVars   == <<tab, asked, list, m_msgDataIsReady, m_msgDataIsEmpty>>
popupVars  == <<popups, m_msgReady, details, layout>>
serverVars == <<published, read, popped>>
histVars   == <<crossed, failed>>
vars == <<pageVars, popupVars, counted, signals, thread, serverVars, acts, histVars>>

ThreadType ==
  [op: {"none", "unread", "list", "details", "force"},
   at: {"free", "asked", "sent", "replied", "stored"},
   arg: Msg \cup Tab \cup {None},   \* what getMsgListByType, getMsgDetailsById were called with
   reply: SUBSET Msg]

SignalType == [to: Tab, reply: SUBSET Msg] \cup [popup: Msg]

Free == [op |-> "none", at |-> "free", arg |-> None, reply |-> {}]
Ask(op, arg) ==
  [op |-> op, at |-> IF op = "list" THEN "asked" ELSE "sent", arg |-> arg, reply |-> {}]

TypeOK ==
  /\ tab \in Tab
  /\ asked \in Tab \cup {None}
  /\ list \in [Tab -> SUBSET Msg]
  /\ m_msgDataIsReady \in BOOLEAN
  /\ m_msgDataIsEmpty \in BOOLEAN
  /\ popups \in Seq(Msg)
  /\ m_msgReady \in BOOLEAN
  /\ details \in Msg \cup {None}
  /\ layout \subseteq Msg
  /\ counted \subseteq Msg
  /\ signals \in Seq(SignalType)
  /\ thread \in [Slot -> ThreadType]
  /\ published \subseteq Msg
  /\ read \subseteq published
  /\ popped \subseteq Forced \cap published
  /\ acts \in 0..MaxActs
  /\ crossed \in BOOLEAN
  /\ failed \subseteq {"list", "details"}

\* The constructor leaves the two flags of the page uninitialised.
Init ==
  /\ tab = FirstTab
  /\ asked = None
  /\ list = [type \in Tab |-> {}]
  /\ m_msgDataIsReady \in BOOLEAN
  /\ m_msgDataIsEmpty \in BOOLEAN
  /\ popups = <<>>
  /\ m_msgReady = FALSE
  /\ details = None
  /\ layout = {}
  /\ counted = {}
  /\ signals = <<>>
  /\ thread = [t \in Slot |-> Free]
  /\ published = {}
  /\ read = {}
  /\ popped = {}
  /\ acts = 0
  /\ crossed = FALSE
  /\ failed = {}

Busy(op) == \E t \in Slot : thread[t].op = op
Quiet    == signals = <<>> /\ \A t \in Slot : thread[t] = Free
UserActs == acts < MaxActs /\ acts' = acts + 1
Becomes(t, r) == thread' = [thread EXCEPT ![t] = r]

-----------------------------------------------------------------------------
(* The UI thread *)

\* onLoginSuccess of the page.
OnLoginSuccess(t) ==
  /\ UserActs
  /\ thread[t] = Free
  /\ Becomes(t, Ask("unread", None))
  /\ UNCHANGED <<pageVars, popupVars, counted, signals, serverVars, histVars>>

\* Mistake: the thread uses the type that was asked for before.
getMsgListByType_LastType(t, type) ==
  /\ thread[t] = Free
  /\ Becomes(t, Ask("list", asked))
  /\ asked' = type
  /\ crossed' = (crossed \/ Busy("list") \/ signals # <<>>)
  /\ failed' = failed \ {"list"}

\* The type is passed to the thread by value.
getMsgListByType(t, type) ==
  /\ thread[t] = Free
  /\ Becomes(t, Ask("list", type))
  /\ asked' = type
  /\ crossed' = (crossed \/ Busy("list") \/ signals # <<>>)
  /\ failed' = failed \ {"list"}

\* A tab of the page.
ClickTab(t, type) ==
  /\ UserActs
  /\ tab' = type
  /\ getMsgListByType(t, type)
  /\ UNCHANGED <<list, m_msgDataIsReady, m_msgDataIsEmpty, popupVars, counted, signals,
                 serverVars>>

\* The links to the page ask for the first list, whatever tab it is on.
OpenPage(t) ==
  /\ UserActs
  /\ getMsgListByType(t, FirstTab)
  /\ UNCHANGED <<tab, list, m_msgDataIsReady, m_msgDataIsEmpty, popupVars, counted,
                 signals, serverVars>>

\* Mistake: the popup opens with what the last one showed.
getMsgDetailsById_KeepsReady(t, msg) ==
  /\ thread[t] = Free
  /\ Becomes(t, Ask("details", msg))
  /\ UNCHANGED m_msgReady

\* The popup shows its spinner at once.
getMsgDetailsById(t, msg) ==
  /\ thread[t] = Free
  /\ m_msgReady' = FALSE
  /\ Becomes(t, Ask("details", msg))

\* A new ActivitiesNoticePopup, whose onOpened asks for the details.
OpenPopup(t, msg) ==
  /\ popups' = Append(popups, msg)
  /\ getMsgDetailsById(t, msg)
  /\ crossed' = (crossed \/ popups # <<>> \/ Busy("details"))
  /\ failed' = failed \ {"details"}

\* A message of the list on screen.
ClickMessage(t, msg) ==
  /\ UserActs
  /\ popups = <<>>
  /\ m_msgDataIsReady /\ ~m_msgDataIsEmpty
  /\ msg \in list[tab]
  /\ OpenPopup(t, msg)
  /\ UNCHANGED <<pageVars, details, layout, counted, signals, serverVars>>

\* The popups are modal: only the one on top can be closed.
ClosePopup ==
  /\ popups # <<>>
  /\ popups' = Front(popups)
  /\ UNCHANGED <<pageVars, m_msgReady, details, layout, counted, signals, thread,
                 serverVars, acts, histVars>>

\* updateSystemList, updateActivitiesList, updateDynamicList
OnUpdateList ==
  /\ signals # <<>>
  /\ "to" \in DOMAIN Head(signals)
  /\ list' = [list EXCEPT ![Head(signals).to] = Head(signals).reply]
  /\ signals' = Tail(signals)
  /\ UNCHANGED <<tab, asked, m_msgDataIsReady, m_msgDataIsEmpty, popupVars, counted, thread,
                 serverVars, acts, histVars>>

\* onForcePopupMsg
OnForcePopupMsg(t) ==
  /\ signals # <<>>
  /\ "popup" \in DOMAIN Head(signals)
  /\ OpenPopup(t, Head(signals).popup)
  /\ signals' = Tail(signals)
  /\ UNCHANGED <<pageVars, details, layout, counted, serverVars, acts>>

-----------------------------------------------------------------------------
(* The threads *)

\* The thread of getMsgListByType shows the spinner; the others begin with
\* their request.
ShowSpinner(t) ==
  /\ thread[t].at = "asked"
  /\ Becomes(t, [thread[t] EXCEPT !.at = "sent"])
  /\ m_msgDataIsReady' = FALSE
  /\ m_msgDataIsEmpty' = FALSE
  /\ UNCHANGED <<tab, asked, list, popupVars, counted, signals, serverVars, acts, histVars>>

Replies(t, msgs) == Becomes(t, [thread[t] EXCEPT !.at = "replied", !.reply = msgs])

\* The server: asking for details reads a message, a notice is handed out once.
Serve(t) ==
  /\ thread[t].at = "sent"
  /\ \/ /\ thread[t].op = "unread"
        /\ Replies(t, published \ read)
        /\ UNCHANGED <<read, popped>>
     \/ /\ thread[t].op = "list"
        /\ Replies(t, {msg \in published : TabOf[msg] = thread[t].arg})
        /\ UNCHANGED <<read, popped>>
     \/ /\ thread[t].op = "details"
        /\ Replies(t, {thread[t].arg})
        /\ read' = read \cup {thread[t].arg}
        /\ UNCHANGED popped
     \/ /\ thread[t].op = "force"
        /\ \/ /\ (Forced \cap published) \subseteq popped
              /\ Replies(t, {})
              /\ UNCHANGED popped
           \/ \E msg \in (Forced \cap published) \ popped :
                /\ Replies(t, {msg})
                /\ popped' = popped \cup {msg}
        /\ UNCHANGED read
  /\ UNCHANGED <<pageVars, popupVars, counted, signals, published, acts, histVars>>

\* The server has news.
Publish(msg) ==
  /\ msg \notin published
  /\ published' = published \cup {msg}
  /\ UNCHANGED <<pageVars, popupVars, counted, signals, thread, read, popped, acts, histVars>>

\* Mistake: a list that does not arrive leaves the spinner.
Fail_KeepsSpinner(t) ==
  /\ thread[t].at \in {"sent", "replied"}
  /\ Becomes(t, IF thread[t].op = "unread" THEN Ask("force", None) ELSE Free)
  /\ failed' = failed \cup ({thread[t].op} \cap {"list", "details"})
  /\ UNCHANGED <<pageVars, popupVars, counted, signals, serverVars, acts, crossed>>

\* A failed transfer, before or after the server has acted, or a status other
\* than 200.  getMsgListByType takes the spinner away, getUnReadNum goes on.
Fail(t) ==
  /\ thread[t].at \in {"sent", "replied"}
  /\ Becomes(t, IF thread[t].op = "unread" THEN Ask("force", None) ELSE Free)
  /\ m_msgDataIsReady' = (m_msgDataIsReady \/ thread[t].op = "list")
  /\ failed' = failed \cup ({thread[t].op} \cap {"list", "details"})
  /\ UNCHANGED <<tab, asked, list, m_msgDataIsEmpty, popupVars, counted, signals, serverVars,
                 acts, crossed>>

\* getUnReadNum's reply
HandleUnread(t) ==
  /\ thread[t].op = "unread"
  /\ thread[t].at = "replied"
  /\ counted' = thread[t].reply
  /\ Becomes(t, Ask("force", None))
  /\ UNCHANGED <<pageVars, popupVars, signals, serverVars, acts, histVars>>

\* Mistake: the list that has arrived is always one with messages.
HandleList_NeverEmpty(t) ==
  /\ thread[t].op = "list"
  /\ \/ /\ thread[t].at = "replied"
        /\ signals' = Append(signals, [to |-> thread[t].arg, reply |-> thread[t].reply])
        /\ Becomes(t, [thread[t] EXCEPT !.at = "stored"])
        /\ UNCHANGED m_msgDataIsReady
     \/ /\ thread[t].at = "stored"
        /\ m_msgDataIsReady' = TRUE
        /\ Becomes(t, Ask("unread", None))
        /\ UNCHANGED signals
  /\ UNCHANGED <<tab, asked, list, m_msgDataIsEmpty, popupVars, counted, serverVars, acts,
                 histVars>>

\* getMsgListByType's reply
HandleList(t) ==
  /\ thread[t].op = "list"
  /\ \/ /\ thread[t].at = "replied"
        /\ signals' = Append(signals, [to |-> thread[t].arg, reply |-> thread[t].reply])
        /\ m_msgDataIsEmpty' = (m_msgDataIsEmpty \/ thread[t].reply = {})
        /\ Becomes(t, [thread[t] EXCEPT !.at = "stored"])
        /\ UNCHANGED m_msgDataIsReady
     \/ /\ thread[t].at = "stored"
        /\ m_msgDataIsReady' = TRUE
        /\ Becomes(t, Ask("unread", None))
        /\ UNCHANGED <<signals, m_msgDataIsEmpty>>
  /\ UNCHANGED <<tab, asked, list, popupVars, counted, serverVars, acts, histVars>>

\* Mistake: the popup is not told that its message is there.
HandleDetails_NotReady(t) ==
  /\ thread[t].op = "details"
  /\ \/ /\ thread[t].at = "replied"
        /\ details' = thread[t].arg
        /\ layout' = {}
        /\ Becomes(t, [thread[t] EXCEPT !.at = "stored"])
     \/ /\ thread[t].at = "stored"
        /\ layout' = layout \cup thread[t].reply
        /\ Becomes(t, Ask("unread", None))
        /\ UNCHANGED details
  /\ UNCHANGED <<pageVars, popups, m_msgReady, counted, signals, serverVars, acts, histVars>>

\* getMsgDetailsById's reply: the texts, then the layout of its template.
HandleDetails(t) ==
  /\ thread[t].op = "details"
  /\ \/ /\ thread[t].at = "replied"
        /\ details' = thread[t].arg
        /\ layout' = {}
        /\ Becomes(t, [thread[t] EXCEPT !.at = "stored"])
        /\ UNCHANGED m_msgReady
     \/ /\ thread[t].at = "stored"
        /\ layout' = layout \cup thread[t].reply
        /\ m_msgReady' = TRUE
        /\ Becomes(t, Ask("unread", None))
        /\ UNCHANGED details
  /\ UNCHANGED <<pageVars, popups, counted, signals, serverVars, acts, histVars>>

\* Mistake: asks again although there was no notice.
HandleForce_GoesOn(t) ==
  /\ thread[t].op = "force"
  /\ thread[t].at = "replied"
  /\ signals' = signals \o SetToSeq({[popup |-> msg] : msg \in thread[t].reply})
  /\ Becomes(t, Ask("unread", None))
  /\ UNCHANGED <<pageVars, popupVars, counted, serverVars, acts, histVars>>

\* getForceNotice's reply: a notice, and then perhaps another.
HandleForce(t) ==
  /\ thread[t].op = "force"
  /\ thread[t].at = "replied"
  /\ signals' = signals \o SetToSeq({[popup |-> msg] : msg \in thread[t].reply})
  /\ Becomes(t, IF thread[t].reply = {} THEN Free ELSE Ask("unread", None))
  /\ UNCHANGED <<pageVars, popupVars, counted, serverVars, acts, histVars>>

-----------------------------------------------------------------------------

User ==
  \/ \E t \in Slot : OnLoginSuccess(t) \/ OpenPage(t)
  \/ \E t \in Slot, type \in Tab : ClickTab(t, type)
  \/ \E t \in Slot, msg \in Msg : ClickMessage(t, msg)
  \/ ClosePopup

OnSignal == OnUpdateList \/ \E t \in Slot : OnForcePopupMsg(t)

Work(t) ==
  \/ ShowSpinner(t)
  \/ Serve(t)
  \/ Fail(t)
  \/ HandleUnread(t)
  \/ HandleList(t)
  \/ HandleDetails(t)
  \/ HandleForce(t)

Next ==
  \/ User
  \/ OnSignal
  \/ \E t \in Slot : Work(t)
  \/ \E msg \in Msg : Publish(msg)

\* Requests return and the UI thread takes its signals; the user and the
\* server's news owe nothing.
Spec == Init /\ [][Next]_vars /\ WF_vars(OnSignal) /\ \A t \in Slot : WF_vars(Work(t))

-----------------------------------------------------------------------------
(* Properties *)

\* However lists overlap and fail, the page does not keep its spinner
\* (every way out of getMsgListByType).
ListArrives == Busy("list") ~> m_msgDataIsReady

\* A popup gets its text unless its request failed (getMsgDetailsById).
DetailsArrive == Busy("details") ~> (m_msgReady \/ "details" \in failed)

\* The chain of counts and notices ends once the user and the server have
\* nothing new (getUnReadNum, getForceNotice).
ComesToRest == <>[]Quiet

\* If lists do not overlap and the last one did not fail, the tab that was
\* asked for last says that it is empty if and only if it is.
EmptyFits ==
  ~crossed /\ "list" \notin failed /\ Quiet /\ tab = asked => (m_msgDataIsEmpty <=> list[tab] = {})

\* If popups never lie on each other, a popup that shows a message shows its
\* own, in the layout of its template (getMsgDetailsById).
LoneNoticeIsOwn ==
  ~crossed /\ popups # <<>> /\ m_msgReady =>
    details = Last(popups) /\ layout = {Last(popups)}
=============================================================================
