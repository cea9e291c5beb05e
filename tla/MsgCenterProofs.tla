-------------------------- MODULE MsgCenterProofs --------------------------
(***************************************************************************)
(* Proofs about MsgCenter for any messages, tabs and number of requests in *)
(* flight.                                                                 *)
(***************************************************************************)
EXTENDS MsgCenter, SequenceTheorems, FiniteSetTheorems, TLAPS

\* Whatever is on its way was published before: the details that are asked
\* for, the replies, the lists and the notices.
JobGood(job, known) ==
  /\ job.op = "list" => job.arg \in Tab
  /\ job.op = "details" => job.arg \in known
  /\ job.reply \subseteq known
  /\ job.op = "force" => job.reply = {} \/ \E msg \in Msg : job.reply = {msg}
  /\ job.at = "asked" => job.op = "list"

SignalsOf(known) == [to: Tab, reply: SUBSET known] \cup [popup: known]

OnlyPublished ==
  /\ \A t \in Slot : JobGood(thread[t], published)
  /\ signals \in Seq(SignalsOf(published))
  /\ list \in [Tab -> SUBSET published]

IInv == TypeOK /\ OnlyPublished

\* A tab is told that it is empty by a list thread that stores the flag and
\* queues the list.  While lists do not overlap, every queued list fits the
\* flag, and none is queued before its thread has stored its own.
AnyPopup == [popup: Msg]
FittingList(type, empty) ==
  {sig \in [to: {type}, reply: SUBSET Msg] : empty <=> sig.reply = {}}

OpenList(job) == job.op = "list" /\ job.at \in {"asked", "sent", "replied"}

ListsApart ==
  /\ \A t, u \in Slot : thread[t].op = "list" /\ thread[u].op = "list" => t = u
  /\ \A t \in Slot : thread[t].op = "list" => thread[t].arg = asked
  /\ \A t \in Slot : OpenList(thread[t]) => signals \in Seq(AnyPopup)
  /\ \A t \in Slot : OpenList(thread[t]) /\ thread[t].at # "asked" => ~m_msgDataIsEmpty
  /\ signals \in Seq(AnyPopup \cup FittingList(asked, m_msgDataIsEmpty))

EmptyIsTold ==
  /\ signals \in Seq(AnyPopup) /\ \A t \in Slot : ~OpenList(thread[t])
  /\ asked # None /\ "list" \notin failed
  => (m_msgDataIsEmpty <=> list[asked] = {})

ListsInv == ~crossed => ListsApart /\ EmptyIsTold

\* The texts in MsgCenter are those of the one popup: from the moment it opens
\* until its own reply is stored and laid out, it shows its spinner.
Carries(job) ==
  /\ ~m_msgReady
  /\ popups # <<>> => popups[1] = job.arg
  /\ job.at \in {"replied", "stored"} => job.reply = {job.arg}
  /\ job.at = "stored" => details = job.arg /\ layout = {}

PopupsApart ==
  /\ Len(popups) <= 1
  /\ \A t, u \in Slot : thread[t].op = "details" /\ thread[u].op = "details" => t = u
  /\ \A t \in Slot : thread[t].op = "details" => Carries(thread[t])
  /\ popups # <<>> /\ m_msgReady => details = popups[1] /\ layout = {popups[1]}

PopupsInv == ~crossed => PopupsApart

-----------------------------------------------------------------------------
(* Lemmas about the notices of a reply *)

\* SetToSeq, which puts the notices of a reply into signals, adds nothing for
\* a reply without one and the one signal for a reply with one.
LEMMA NoSignal == SetToSeq({}) = <<>>
<1>1. Cardinality({}) = 0
  BY FS_EmptySet
<1>2. ASSUME NEW f \in [1..0 -> {}]
      PROVE  f = <<>>
  <2>1. f \in Seq({}) /\ <<>> \in Seq({}) /\ Len(f) = 0 /\ Len(<<>>) = 0
    OBVIOUS
  <2>2. QED
    BY <2>1, SeqEqual
<1>3. <<>> \in [1..0 -> {}] /\ IsInjective(<<>>)
  BY DEF IsInjective
<1>4. QED
  BY <1>1, <1>2, <1>3 DEF SetToSeq

LEMMA OneSignal ==
  ASSUME NEW e
  PROVE  SetToSeq({e}) = <<e>>
<1>1. Cardinality({e}) = 1
  BY FS_Singleton
<1>2. [1..1 -> {e}] = {<<e>>} /\ IsInjective(<<e>>)
  BY DEF IsInjective
<1>3. QED
  BY <1>1, <1>2 DEF SetToSeq

\* The signals after a reply with at most one notice.
LEMMA NoticeSignals ==
  ASSUME NEW S, NEW s \in Seq(S), NEW reply,
         reply = {} \/ \E msg \in Msg : reply = {msg},
         \A msg \in reply : [popup |-> msg] \in S
  PROVE  /\ reply = {} => s \o SetToSeq({[popup |-> msg] : msg \in reply}) = s
         /\ \A msg : reply = {msg} =>
              s \o SetToSeq({[popup |-> m] : m \in reply}) = Append(s, [popup |-> msg])
<1>1. ASSUME reply = {}
      PROVE  s \o SetToSeq({[popup |-> msg] : msg \in reply}) = s
  <2>1. {[popup |-> msg] : msg \in reply} = {}
    BY <1>1
  <2>2. QED
    BY <2>1, NoSignal, ConcatEmptySeq
<1>2. ASSUME NEW msg, reply = {msg}
      PROVE  s \o SetToSeq({[popup |-> m] : m \in reply}) = Append(s, [popup |-> msg])
  <2>1. {[popup |-> m] : m \in reply} = {[popup |-> msg]}
    BY <1>2
  <2>2. [popup |-> msg] \in S
    BY <1>2
  <2>3. SetToSeq({[popup |-> m] : m \in reply}) = <<[popup |-> msg]>>
    BY <2>1, OneSignal, Zenon
  <2>4. Append(s, [popup |-> msg]) = s \o <<[popup |-> msg]>>
    BY <2>2, AppendIsConcat
  <2>5. QED
    BY <2>3, <2>4, Zenon
<1>3. QED
  BY <1>1, <1>2

-----------------------------------------------------------------------------
(* Lemmas about the slots *)

LEMMA SlotStep ==
  ASSUME TypeOK, OnlyPublished, published \subseteq published',
         NEW t \in Slot, NEW j \in ThreadType, JobGood(j, published'),
         thread' = [thread EXCEPT ![t] = j]
  PROVE  thread' \in [Slot -> ThreadType] /\ \A u \in Slot : JobGood(thread'[u], published')
<1>1. thread' \in [Slot -> ThreadType]
  BY DEF TypeOK
<1>2. ASSUME NEW u \in Slot
      PROVE  JobGood(thread'[u], published')
  <2>1. CASE u = t
    BY <2>1 DEF TypeOK
  <2>2. CASE u # t
    <3>1. thread'[u] = thread[u]
      BY <2>2 DEF TypeOK
    <3>2. JobGood(thread[u], published)
      BY DEF OnlyPublished
    <3>3. QED
      BY <3>1, <3>2 DEF JobGood
  <2>3. QED
    BY <2>1, <2>2
<1>3. QED
  BY <1>1, <1>2

\* A slot that only goes on to another place.
LEMMA PlaceStep ==
  ASSUME TypeOK, OnlyPublished, published \subseteq published',
         NEW t \in Slot, NEW place \in {"sent", "stored"},
         Becomes(t, [thread[t] EXCEPT !.at = place])
  PROVE  thread' \in [Slot -> ThreadType] /\ \A u \in Slot : JobGood(thread'[u], published')
<1> DEFINE j == [thread[t] EXCEPT !.at = place]
<1>1. thread[t] \in ThreadType /\ JobGood(thread[t], published)
  BY DEF TypeOK, OnlyPublished
<1>2. j \in ThreadType /\ j.arg = thread[t].arg /\ j.op = thread[t].op /\ j.reply = thread[t].reply
  BY <1>1 DEF ThreadType
<1>3. JobGood(j, published')
  BY <1>1, <1>2 DEF JobGood
<1>4. thread' = [thread EXCEPT ![t] = j]
  BY DEF Becomes
<1> HIDE DEF j
<1>5. QED
  BY <1>2, <1>3, <1>4, SlotStep

\* A slot that receives its reply.
LEMMA ReplyStep ==
  ASSUME TypeOK, OnlyPublished, published \subseteq published',
         NEW t \in Slot, NEW msgs \in SUBSET published,
         thread[t].op = "force" => msgs = {} \/ \E msg \in Msg : msgs = {msg},
         Replies(t, msgs)
  PROVE  thread' \in [Slot -> ThreadType] /\ \A u \in Slot : JobGood(thread'[u], published')
<1> DEFINE j == [thread[t] EXCEPT !.at = "replied", !.reply = msgs]
<1>1. thread[t] \in ThreadType /\ JobGood(thread[t], published) /\ msgs \subseteq Msg
  BY DEF TypeOK, OnlyPublished
<1>2. j \in ThreadType /\ j.arg = thread[t].arg /\ j.op = thread[t].op /\ j.reply = msgs
  BY <1>1 DEF ThreadType
<1>3. JobGood(j, published')
  BY <1>1, <1>2 DEF JobGood
<1>4. thread' = [thread EXCEPT ![t] = j]
  BY DEF Replies, Becomes
<1> HIDE DEF j
<1>5. QED
  BY <1>2, <1>3, <1>4, SlotStep

\* A new request has no reply yet.
LEMMA AskGood ==
  ASSUME NEW known \in SUBSET Msg
  PROVE  /\ Free \in ThreadType /\ JobGood(Free, known)
         /\ \A op \in {"unread", "force"} :
              Ask(op, None) \in ThreadType /\ JobGood(Ask(op, None), known)
         /\ \A type \in Tab : Ask("list", type) \in ThreadType /\ JobGood(Ask("list", type), known)
         /\ \A msg \in known :
              Ask("details", msg) \in ThreadType /\ JobGood(Ask("details", msg), known)
BY DEF Ask, Free, ThreadType, JobGood

\* What is known stays known.
LEMMA SignalsGrow ==
  ASSUME NEW known, NEW more, known \subseteq more, NEW s \in Seq(SignalsOf(known))
  PROVE  s \in Seq(SignalsOf(more))
<1>1. SignalsOf(known) \subseteq SignalsOf(more)
  BY DEF SignalsOf
<1>2. QED
  BY <1>1, SeqMonotonic

LEMMA SignalsTyped ==
  ASSUME NEW known \in SUBSET Msg, NEW s \in Seq(SignalsOf(known))
  PROVE  s \in Seq(SignalType)
<1>1. SignalsOf(known) \subseteq SignalType
  BY DEF SignalsOf, SignalType
<1>2. QED
  BY <1>1, SeqMonotonic

LEMMA ActsStep ==
  ASSUME TypeOK, UserActs
  PROVE  acts' \in 0..MaxActs
BY MsgCenterAssumption DEF TypeOK, UserActs

LEMMA InitInv == Init => IInv
<1> SUFFICES ASSUME Init
             PROVE  IInv
  OBVIOUS
<1>1. TypeOK
  <2>1. thread \in [Slot -> ThreadType]
    BY AskGood DEF Init
  <2>2. popups \in Seq(Msg) /\ signals \in Seq(SignalType) /\ acts \in 0..MaxActs
    BY MsgCenterAssumption DEF Init
  <2>3. QED
    BY <2>1, <2>2, MsgCenterAssumption DEF Init, TypeOK
<1>2. OnlyPublished
  BY AskGood DEF Init, OnlyPublished
<1>3. QED
  BY <1>1, <1>2 DEF IInv

-----------------------------------------------------------------------------
(* The steps of the UI thread *)

LEMMA AskListStep ==
  ASSUME IInv, NEW t \in Slot, NEW type \in Tab, getMsgListByType(t, type),
         UNCHANGED <<signals, list, serverVars>>
  PROVE  /\ thread' \in [Slot -> ThreadType] /\ OnlyPublished'
         /\ asked' \in Tab \cup {None} /\ crossed' \in BOOLEAN
         /\ failed' \subseteq {"list", "details"}
<1>1. thread' \in [Slot -> ThreadType] /\ \A u \in Slot : JobGood(thread'[u], published')
  BY AskGood, SlotStep DEF getMsgListByType, Becomes, IInv, TypeOK, serverVars
<1>2. OnlyPublished'
  BY <1>1 DEF IInv, OnlyPublished, serverVars
<1>3. QED
  BY <1>1, <1>2 DEF IInv, TypeOK, getMsgListByType

LEMMA PopupStep ==
  ASSUME IInv, NEW t \in Slot, NEW msg \in published, OpenPopup(t, msg),
         UNCHANGED serverVars
  PROVE  /\ thread' \in [Slot -> ThreadType]
         /\ \A u \in Slot : JobGood(thread'[u], published')
         /\ popups' \in Seq(Msg) /\ m_msgReady' \in BOOLEAN /\ crossed' \in BOOLEAN
         /\ failed' \subseteq {"list", "details"}
<1>1. thread' \in [Slot -> ThreadType] /\ \A u \in Slot : JobGood(thread'[u], published')
  BY AskGood, SlotStep DEF OpenPopup, getMsgDetailsById, Becomes, IInv, TypeOK, serverVars
<1>2. popups' \in Seq(Msg)
  BY AppendProperties DEF OpenPopup, IInv, TypeOK
<1>3. QED
  BY <1>1, <1>2 DEF IInv, TypeOK, OpenPopup, getMsgDetailsById

LEMMA UserInv == IInv /\ User => IInv'
<1> SUFFICES ASSUME IInv, User
             PROVE  IInv'
  OBVIOUS
<1> USE MsgCenterAssumption DEF IInv, pageVars, popupVars, serverVars, histVars
<1>1. ASSUME NEW t \in Slot, OnLoginSuccess(t)
      PROVE  IInv'
  <2>1. thread' \in [Slot -> ThreadType] /\ \A u \in Slot : JobGood(thread'[u], published')
    BY <1>1, AskGood, SlotStep DEF OnLoginSuccess, Becomes, TypeOK
  <2>2. TypeOK'
    BY <1>1, <2>1, ActsStep DEF OnLoginSuccess, TypeOK
  <2>3. OnlyPublished'
    BY <1>1, <2>1 DEF OnLoginSuccess, OnlyPublished
  <2>4. QED
    BY <2>2, <2>3
<1>2. ASSUME NEW t \in Slot, OpenPage(t)
      PROVE  IInv'
  <2>1. OnlyPublished' /\ TypeOK'
    BY <1>2, AskListStep, ActsStep DEF OpenPage, TypeOK
  <2>2. QED
    BY <2>1
<1>3. ASSUME NEW t \in Slot, NEW type \in Tab, ClickTab(t, type)
      PROVE  IInv'
  <2>1. OnlyPublished' /\ TypeOK'
    BY <1>3, AskListStep, ActsStep DEF ClickTab, TypeOK
  <2>2. QED
    BY <2>1
<1>4. ASSUME NEW t \in Slot, NEW msg \in Msg, ClickMessage(t, msg)
      PROVE  IInv'
  <2>1. msg \in published
    BY <1>4 DEF ClickMessage, TypeOK, OnlyPublished
  <2>2. TypeOK'
    BY <1>4, <2>1, PopupStep, ActsStep DEF ClickMessage, TypeOK
  <2>3. OnlyPublished'
    BY <1>4, <2>1, PopupStep DEF ClickMessage, OnlyPublished
  <2>4. QED
    BY <2>2, <2>3
<1>5. CASE ClosePopup
  <2>1. popups' \in Seq(Msg)
    <3>1. Len(popups) \in Nat \ {0}
      BY <1>5, EmptySeq DEF ClosePopup, TypeOK
    <3>2. popups' = SubSeq(popups, 1, Len(popups) - 1)
      BY <1>5 DEF ClosePopup, Front
    <3>3. \A i \in 1..(Len(popups) - 1) : popups[i] \in Msg
      BY <3>1 DEF TypeOK
    <3>4. QED
      BY <3>1, <3>2, <3>3, SubSeqProperties
  <2>2. TypeOK'
    BY <1>5, <2>1 DEF ClosePopup, TypeOK
  <2>3. OnlyPublished'
    BY <1>5 DEF ClosePopup, OnlyPublished
  <2>4. QED
    BY <2>2, <2>3
<1>6. QED
  BY <1>1, <1>2, <1>3, <1>4, <1>5 DEF User

LEMMA SignalInv == IInv /\ OnSignal => IInv'
<1> SUFFICES ASSUME IInv, OnSignal
             PROVE  IInv'
  OBVIOUS
<1> USE MsgCenterAssumption DEF IInv, pageVars, popupVars, serverVars, histVars
<1>1. /\ signals # <<>> => Head(signals) \in SignalsOf(published)
      /\ signals # <<>> => Tail(signals) \in Seq(SignalsOf(published))
  BY HeadTailProperties DEF OnlyPublished
<1>2. signals # <<>> => Tail(signals) \in Seq(SignalType)
  BY <1>1, SignalsTyped DEF TypeOK
<1>3. CASE OnUpdateList
  <2>1. Head(signals).to \in Tab /\ Head(signals).reply \subseteq published
    <3>1. Head(signals) \in SignalsOf(published) /\ "to" \in DOMAIN Head(signals)
      BY <1>1, <1>3 DEF OnUpdateList
    <3>2. QED
      BY <3>1 DEF SignalsOf
  <2>2. list' \in [Tab -> SUBSET published]
    BY <1>3, <2>1 DEF OnUpdateList, OnlyPublished
  <2>3. OnlyPublished'
    BY <1>1, <1>3, <2>2 DEF OnUpdateList, OnlyPublished
  <2>4. list' \in [Tab -> SUBSET Msg]
    BY <2>2 DEF TypeOK
  <2>5. TypeOK'
    BY <1>2, <1>3, <2>4 DEF OnUpdateList, TypeOK
  <2>6. QED
    BY <2>3, <2>5
<1>4. ASSUME NEW t \in Slot, OnForcePopupMsg(t)
      PROVE  IInv'
  <2>1. Head(signals).popup \in published
    <3>1. Head(signals) \in SignalsOf(published) /\ "popup" \in DOMAIN Head(signals)
      BY <1>1, <1>4 DEF OnForcePopupMsg
    <3>2. QED
      BY <3>1 DEF SignalsOf
  <2>2. TypeOK'
    BY <1>2, <1>4, <2>1, PopupStep DEF OnForcePopupMsg, TypeOK
  <2>3. OnlyPublished'
    BY <1>1, <1>4, <2>1, PopupStep DEF OnForcePopupMsg, OnlyPublished
  <2>4. QED
    BY <2>2, <2>3
<1>5. QED
  BY <1>3, <1>4 DEF OnSignal

-----------------------------------------------------------------------------
(* The steps of the threads *)

LEMMA ServeInv == ASSUME IInv, NEW t \in Slot, Serve(t) PROVE IInv'
<1> USE MsgCenterAssumption DEF IInv, pageVars, popupVars, serverVars, histVars
<1> DEFINE Keeps == thread' \in [Slot -> ThreadType]
                    /\ \A u \in Slot : JobGood(thread'[u], published')
<1>1. published' = published /\ read \subseteq published /\ popped \subseteq Forced \cap published
  BY DEF Serve, TypeOK
<1>2. CASE thread[t].op = "unread"
  <2>1. Keeps /\ UNCHANGED <<read, popped>>
    BY <1>1, <1>2, ReplyStep DEF Serve
  <2>2. QED
    BY <2>1 DEF Serve, TypeOK, OnlyPublished
<1>3. CASE thread[t].op = "list"
  <2>1. Keeps /\ UNCHANGED <<read, popped>>
    BY <1>1, <1>3, ReplyStep DEF Serve
  <2>2. QED
    BY <2>1 DEF Serve, TypeOK, OnlyPublished
<1>4. CASE thread[t].op = "details"
  <2>1. thread[t].arg \in published
    BY <1>4 DEF OnlyPublished, JobGood
  <2>2. Keeps
    BY <1>1, <1>4, <2>1, ReplyStep DEF Serve
  <2>3. read' \subseteq published /\ UNCHANGED popped
    BY <1>1, <1>4, <2>1 DEF Serve
  <2>4. QED
    BY <2>2, <2>3 DEF Serve, TypeOK, OnlyPublished
<1>5. CASE thread[t].op = "force"
  <2>1. Keeps /\ popped' \subseteq Forced \cap published /\ UNCHANGED read
    <3>1. CASE Replies(t, {}) /\ UNCHANGED <<read, popped>>
      BY <1>1, <3>1, ReplyStep
    <3>2. ASSUME NEW msg \in (Forced \cap published) \ popped,
                 Replies(t, {msg}), popped' = popped \cup {msg}, UNCHANGED read
          PROVE  Keeps /\ popped' \subseteq Forced \cap published /\ UNCHANGED read
      <4>1. {msg} \in SUBSET published /\ msg \in Msg
        BY DEF TypeOK
      <4>2. Keeps
        BY <1>1, <3>2, <4>1, ReplyStep
      <4>3. QED
        BY <1>1, <3>2, <4>2
    <3>3. QED
      BY <1>5, <3>1, <3>2 DEF Serve
  <2>2. QED
    BY <2>1 DEF Serve, TypeOK, OnlyPublished
<1>6. QED
  BY <1>2, <1>3, <1>4, <1>5 DEF Serve

LEMMA FailInv == ASSUME IInv, NEW t \in Slot, Fail(t) PROVE IInv'
<1> USE MsgCenterAssumption DEF IInv, pageVars, popupVars, serverVars, histVars
<1>1. thread' \in [Slot -> ThreadType] /\ \A u \in Slot : JobGood(thread'[u], published')
  BY AskGood, SlotStep DEF Fail, Becomes, TypeOK
<1>2. QED
  BY <1>1 DEF Fail, TypeOK, OnlyPublished

LEMMA HandleListInv == ASSUME IInv, NEW t \in Slot, HandleList(t) PROVE IInv'
<1> USE MsgCenterAssumption DEF IInv, pageVars, popupVars, serverVars, histVars
<1>1. CASE thread[t].at = "replied"
  <2>1. thread' \in [Slot -> ThreadType] /\ \A u \in Slot : JobGood(thread'[u], published')
    BY <1>1, PlaceStep DEF HandleList, TypeOK
  <2>2. [to |-> thread[t].arg, reply |-> thread[t].reply] \in SignalsOf(published)
    BY DEF HandleList, OnlyPublished, JobGood, SignalsOf
  <2>3. signals' \in Seq(SignalsOf(published))
    BY <1>1, <2>2, AppendProperties DEF HandleList, OnlyPublished
  <2>4. signals' \in Seq(SignalType)
    BY <2>3, SignalsTyped DEF TypeOK
  <2>5. m_msgDataIsEmpty' \in BOOLEAN /\ UNCHANGED m_msgDataIsReady
    BY <1>1 DEF HandleList, TypeOK
  <2>6. QED
    BY <2>1, <2>3, <2>4, <2>5 DEF HandleList, TypeOK, OnlyPublished
<1>2. CASE thread[t].at = "stored"
  <2>1. thread' \in [Slot -> ThreadType] /\ \A u \in Slot : JobGood(thread'[u], published')
    BY <1>2, AskGood, SlotStep DEF HandleList, Becomes, TypeOK
  <2>2. QED
    BY <1>2, <2>1 DEF HandleList, TypeOK, OnlyPublished
<1>3. QED
  BY <1>1, <1>2 DEF HandleList

LEMMA HandleDetailsInv == ASSUME IInv, NEW t \in Slot, HandleDetails(t) PROVE IInv'
<1> USE MsgCenterAssumption DEF IInv, pageVars, popupVars, serverVars, histVars
<1>1. CASE thread[t].at = "replied"
  <2>1. thread' \in [Slot -> ThreadType] /\ \A u \in Slot : JobGood(thread'[u], published')
    BY <1>1, PlaceStep DEF HandleDetails, TypeOK
  <2>2. thread[t].arg \in Msg
    BY DEF HandleDetails, OnlyPublished, JobGood, TypeOK
  <2>3. details' \in Msg /\ layout' \subseteq Msg /\ m_msgReady' \in BOOLEAN
    BY <1>1, <2>2 DEF HandleDetails, TypeOK
  <2>4. QED
    BY <2>1, <2>3 DEF HandleDetails, TypeOK, OnlyPublished
<1>2. CASE thread[t].at = "stored"
  <2>1. thread' \in [Slot -> ThreadType] /\ \A u \in Slot : JobGood(thread'[u], published')
    BY <1>2, AskGood, SlotStep DEF HandleDetails, Becomes, TypeOK
  <2>2. layout' \subseteq Msg /\ m_msgReady' \in BOOLEAN /\ UNCHANGED details
    BY <1>2 DEF HandleDetails, TypeOK, OnlyPublished, JobGood
  <2>3. QED
    BY <2>1, <2>2 DEF HandleDetails, TypeOK, OnlyPublished
<1>3. QED
  BY <1>1, <1>2 DEF HandleDetails

LEMMA HandleForceInv == ASSUME IInv, NEW t \in Slot, HandleForce(t) PROVE IInv'
<1> USE MsgCenterAssumption DEF IInv, pageVars, popupVars, serverVars, histVars
<1>1. thread' \in [Slot -> ThreadType] /\ \A u \in Slot : JobGood(thread'[u], published')
  BY AskGood, SlotStep DEF HandleForce, Becomes, TypeOK
<1>2. JobGood(thread[t], published)
  BY DEF OnlyPublished
<1>3. \A msg \in thread[t].reply : [popup |-> msg] \in SignalsOf(published)
  BY <1>2 DEF JobGood, SignalsOf
<1>4. thread[t].reply = {} \/ \E msg \in Msg : thread[t].reply = {msg}
  BY <1>2 DEF JobGood, HandleForce
<1>5. signals' \in Seq(SignalsOf(published))
  <2>1. CASE thread[t].reply = {}
    <3>1. signals' = signals
      BY <1>3, <1>4, <2>1, NoticeSignals DEF HandleForce, OnlyPublished
    <3>2. QED
      BY <3>1 DEF OnlyPublished
  <2>2. ASSUME NEW msg \in Msg, thread[t].reply = {msg}
        PROVE  signals' \in Seq(SignalsOf(published))
    <3>1. signals' = Append(signals, [popup |-> msg])
      <4> DEFINE all == SignalsOf(published)
                 reply == thread[t].reply
      <4>1. signals \in Seq(all) /\ (\A m \in reply : [popup |-> m] \in all)
        BY <1>3 DEF OnlyPublished
      <4>2. reply = {} \/ \E m \in Msg : reply = {m}
        BY <1>4
      <4>3. signals' = signals \o SetToSeq({[popup |-> m] : m \in reply})
        BY DEF HandleForce
      <4>4. reply = {msg}
        BY <2>2
      <4> HIDE DEF all, reply
      <4>5. \A m : reply = {m} =>
              signals \o SetToSeq({[popup |-> x] : x \in reply}) = Append(signals, [popup |-> m])
        BY <4>1, <4>2, NoticeSignals, ZenonT(30)
      <4>6. QED
        BY <4>3, <4>4, <4>5, Zenon
    <3>2. [popup |-> msg] \in SignalsOf(published)
      BY <1>3, <2>2
    <3>3. QED
      BY <3>1, <3>2, AppendProperties DEF OnlyPublished
  <2>3. QED
    BY <1>4, <2>1, <2>2
<1>6. signals' \in Seq(SignalType)
  BY <1>5, SignalsTyped DEF TypeOK
<1>7. QED
  BY <1>1, <1>5, <1>6 DEF HandleForce, TypeOK, OnlyPublished

LEMMA WorkInv == ASSUME IInv, NEW t \in Slot, Work(t) PROVE IInv'
<1> USE MsgCenterAssumption DEF IInv, pageVars, popupVars, serverVars, histVars
<1>1. CASE ShowSpinner(t)
  <2>1. thread' \in [Slot -> ThreadType] /\ \A u \in Slot : JobGood(thread'[u], published')
    BY <1>1, PlaceStep DEF ShowSpinner, TypeOK
  <2>2. QED
    BY <1>1, <2>1 DEF ShowSpinner, TypeOK, OnlyPublished
<1>2. CASE HandleUnread(t)
  <2>1. thread' \in [Slot -> ThreadType] /\ \A u \in Slot : JobGood(thread'[u], published')
    BY <1>2, AskGood, SlotStep DEF HandleUnread, Becomes, TypeOK
  <2>2. counted' \subseteq Msg
    BY <1>2 DEF HandleUnread, OnlyPublished, JobGood, TypeOK
  <2>3. QED
    BY <1>2, <2>1, <2>2 DEF HandleUnread, TypeOK, OnlyPublished
<1>3. QED
  BY <1>1, <1>2, ServeInv, FailInv, HandleListInv, HandleDetailsInv, HandleForceInv DEF Work

LEMMA PublishInv == ASSUME IInv, NEW msg \in Msg, Publish(msg) PROVE IInv'
<1> USE DEF IInv, pageVars, popupVars, serverVars, histVars
<1>1. published \subseteq published' /\ published' \subseteq Msg
  BY DEF Publish, TypeOK
<1>2. TypeOK'
  BY <1>1 DEF Publish, TypeOK
<1>3. signals' \in Seq(SignalsOf(published'))
  BY <1>1, SignalsGrow DEF Publish, OnlyPublished
<1>4. \A u \in Slot : JobGood(thread'[u], published')
  BY <1>1 DEF Publish, OnlyPublished, JobGood
<1>5. list' \in [Tab -> SUBSET published']
  BY <1>1 DEF Publish, OnlyPublished
<1>6. QED
  BY <1>2, <1>3, <1>4, <1>5 DEF OnlyPublished

LEMMA StepInv == IInv /\ [Next]_vars => IInv'
<1> SUFFICES ASSUME IInv, [Next]_vars
             PROVE  IInv'
  OBVIOUS
<1>1. CASE UNCHANGED vars
  BY <1>1 DEF IInv, TypeOK, OnlyPublished, vars, pageVars, popupVars, serverVars, histVars
<1>2. CASE Next
  BY <1>2, UserInv, SignalInv, WorkInv, PublishInv DEF Next
<1>3. QED
  BY <1>1, <1>2

\* The inductive invariant: what is on its way was published before.
THEOREM Inductive == Spec => []IInv
<1>1. Init => IInv
  BY InitInv
<1>2. IInv /\ [Next]_vars => IInv'
  BY StepInv
<1>3. QED
  BY <1>1, <1>2, PTL DEF Spec

\* The types of the variables; among them that the server counts nothing as
\* read, and hands out nothing as a notice, that it has not published.
THEOREM TypesOK == Spec => []TypeOK
<1>1. IInv => TypeOK
  BY DEF IInv
<1>2. QED
  BY <1>1, Inductive, PTL

-----------------------------------------------------------------------------
(* Lemmas about the jobs and the signals *)

LEMMA SlotsAfter ==
  ASSUME TypeOK, NEW t \in Slot, NEW j, Becomes(t, j)
  PROVE  thread'[t] = j /\ \A u \in Slot \ {t} : thread'[u] = thread[u]
BY DEF TypeOK, Becomes

LEMMA AskFields ==
  ASSUME NEW op, NEW arg
  PROVE  /\ Ask(op, arg).op = op /\ Ask(op, arg).arg = arg /\ Ask(op, arg).reply = {}
         /\ Ask(op, arg).at = (IF op = "list" THEN "asked" ELSE "sent")
         /\ Free.op = "none" /\ Free.at = "free"
BY DEF Ask, Free

LEMMA PlaceFields ==
  ASSUME TypeOK, NEW t \in Slot, NEW place, Becomes(t, [thread[t] EXCEPT !.at = place])
  PROVE  /\ thread'[t].at = place /\ thread'[t].op = thread[t].op
         /\ thread'[t].arg = thread[t].arg /\ thread'[t].reply = thread[t].reply
         /\ \A u \in Slot \ {t} : thread'[u] = thread[u]
<1>1. thread[t] \in ThreadType
  BY DEF TypeOK
<1>2. thread'[t] = [thread[t] EXCEPT !.at = place]
  BY SlotsAfter
<1>3. QED
  BY <1>1, <1>2, SlotsAfter DEF ThreadType

LEMMA ReplyFields ==
  ASSUME TypeOK, NEW t \in Slot, NEW msgs, Replies(t, msgs)
  PROVE  /\ thread'[t].at = "replied" /\ thread'[t].op = thread[t].op
         /\ thread'[t].arg = thread[t].arg /\ thread'[t].reply = msgs
         /\ \A u \in Slot \ {t} : thread'[u] = thread[u]
<1>1. thread[t] \in ThreadType
  BY DEF TypeOK
<1>2. thread'[t] = [thread[t] EXCEPT !.at = "replied", !.reply = msgs]
  BY SlotsAfter DEF Replies
<1>3. QED
  BY <1>1, <1>2, SlotsAfter DEF ThreadType, Replies

\* A notice that is queued, or taken, is no list.
LEMMA NoticeQueued ==
  ASSUME NEW S, NEW s \in Seq(S), NEW msg \in Msg, NEW X
  PROVE  /\ Append(s, [popup |-> msg]) \in Seq(AnyPopup) => s \in Seq(AnyPopup)
         /\ s \in Seq(AnyPopup) => Append(s, [popup |-> msg]) \in Seq(AnyPopup)
         /\ s \in Seq(AnyPopup \cup X) => Append(s, [popup |-> msg]) \in Seq(AnyPopup \cup X)
<1> DEFINE e == [popup |-> msg]
<1>1. e \in AnyPopup
  BY DEF AnyPopup
<1> HIDE DEF e
<1>2. ASSUME Append(s, e) \in Seq(AnyPopup)
      PROVE  s \in Seq(AnyPopup)
  <2>1. s \in Seq(S \cup {e}) /\ e \in S \cup {e}
    BY SeqMonotonic
  <2>2. /\ Len(Append(s, e)) = Len(s) + 1
        /\ \A i \in 1..Len(s) : Append(s, e)[i] = s[i]
    BY <2>1, AppendProperties
  <2>3. \A i \in 1..Len(s) : s[i] \in AnyPopup
    BY <1>2, <2>2, ElementOfSeq
  <2>4. s \in [1..Len(s) -> AnyPopup]
    BY <2>3
  <2>5. QED
    BY <2>4
<1>3. ASSUME NEW T, s \in Seq(T), AnyPopup \subseteq T
      PROVE  Append(s, e) \in Seq(T)
  BY <1>1, <1>3, AppendProperties
<1>4. QED
  BY <1>2, <1>3 DEF e

LEMMA ListQueued ==
  ASSUME NEW S, NEW s \in Seq(S), NEW type, NEW msgs
  PROVE  Append(s, [to |-> type, reply |-> msgs]) \notin Seq(AnyPopup)
<1> DEFINE e == [to |-> type, reply |-> msgs]
<1>1. e \notin AnyPopup
  BY DEF AnyPopup
<1> HIDE DEF e
<1>2. s \in Seq(S \cup {e}) /\ e \in S \cup {e}
  BY SeqMonotonic
<1>3. Append(s, e)[Len(s) + 1] = e /\ Len(Append(s, e)) = Len(s) + 1
  BY <1>2, AppendProperties
<1>4. Append(s, e) \notin Seq(AnyPopup)
  BY <1>1, <1>3
<1>5. QED
  BY <1>4 DEF e

LEMMA SignalTaken ==
  ASSUME NEW S, NEW s \in Seq(S), s # <<>>, NEW T
  PROVE  /\ s \in Seq(T) => Tail(s) \in Seq(T) /\ Head(s) \in T
         /\ Head(s) \in T /\ Tail(s) \in Seq(T) => s \in Seq(T)
<1>1. s \in Seq(T) => Tail(s) \in Seq(T) /\ Head(s) \in T
  BY HeadTailProperties
<1>2. ASSUME Head(s) \in T, Tail(s) \in Seq(T)
      PROVE  s \in Seq(T)
  <2>1. /\ Len(Tail(s)) = Len(s) - 1 /\ Len(s) \in Nat \ {0}
        /\ \A i \in 1..Len(Tail(s)) : Tail(s)[i] = s[i + 1]
    BY HeadTailProperties, EmptySeq
  <2>2. ASSUME NEW i \in 1..Len(s)
        PROVE  s[i] \in T
    <3>1. CASE i = 1
      BY <1>2, <3>1
    <3>2. CASE i # 1
      <4>1. i - 1 \in 1..Len(Tail(s)) /\ s[i] = Tail(s)[i - 1]
        BY <2>1, <3>2
      <4>2. QED
        BY <1>2, <4>1, ElementOfSeq
    <3>3. QED
      BY <3>1, <3>2
  <2>3. s \in [1..Len(s) -> T]
    BY <2>2
  <2>4. QED
    BY <2>1, <2>3
<1>3. QED
  BY <1>1, <1>2

\* The notices of a reply leave the queued lists alone.
LEMMA NoticesQueued ==
  ASSUME IInv, NEW t \in Slot, HandleForce(t), NEW X
  PROVE  /\ signals' \in Seq(AnyPopup) <=> signals \in Seq(AnyPopup)
         /\ signals \in Seq(AnyPopup \cup X) => signals' \in Seq(AnyPopup \cup X)
<1> DEFINE all == SignalsOf(published)
           reply == thread[t].reply
<1>1. signals \in Seq(all) /\ (\A m \in reply : [popup |-> m] \in all)
  BY DEF IInv, OnlyPublished, JobGood, SignalsOf
<1>2. reply = {} \/ \E m \in Msg : reply = {m}
  BY DEF IInv, OnlyPublished, JobGood, HandleForce
<1>3. signals' = signals \o SetToSeq({[popup |-> m] : m \in reply})
  BY DEF HandleForce
<1> HIDE DEF all, reply
<1>4. signals' = signals \/ \E m \in Msg : signals' = Append(signals, [popup |-> m])
  <2>1. /\ reply = {} => signals \o SetToSeq({[popup |-> msg] : msg \in reply}) = signals
        /\ \A msg : reply = {msg} =>
             signals \o SetToSeq({[popup |-> m] : m \in reply}) = Append(signals, [popup |-> msg])
    BY <1>1, <1>2, NoticeSignals, ZenonT(30)
  <2>2. QED
    BY <1>2, <1>3, <2>1, Zenon
<1>5. QED
  BY <1>1, <1>4, NoticeQueued

-----------------------------------------------------------------------------
(* Lists that do not overlap *)

\* What has nothing to do with the lists.
LEMMA ListsKept ==
  ASSUME ListsApart, EmptyIsTold, UNCHANGED <<asked, list, m_msgDataIsEmpty>>,
         "list" \in failed => "list" \in failed',
         \A u \in Slot : thread[u].op = "list" \/ thread'[u].op = "list" => thread'[u] = thread[u],
         signals' \in Seq(AnyPopup) <=> signals \in Seq(AnyPopup),
         signals' \in Seq(AnyPopup \cup FittingList(asked, m_msgDataIsEmpty))
  PROVE  ListsApart' /\ EmptyIsTold'
<1>1. FittingList(asked, m_msgDataIsEmpty)' = FittingList(asked, m_msgDataIsEmpty)
  BY DEF FittingList
<1>2. ListsApart'
  BY <1>1 DEF ListsApart, OpenList
<1>3. \A u \in Slot : OpenList(thread[u]) <=> OpenList(thread'[u])
  BY DEF OpenList
<1>4. EmptyIsTold'
  BY <1>3 DEF EmptyIsTold
<1>5. QED
  BY <1>2, <1>4

\* The same for a thread that is not a list's and queues nothing.
LEMMA OtherThread ==
  ASSUME ListsApart, EmptyIsTold, UNCHANGED <<asked, list, m_msgDataIsEmpty, signals>>,
         "list" \in failed => "list" \in failed',
         NEW t \in Slot, thread[t].op # "list", thread'[t].op # "list",
         \A u \in Slot \ {t} : thread'[u] = thread[u]
  PROVE  ListsApart' /\ EmptyIsTold'
BY ListsKept DEF ListsApart

\* A list that is asked for when there is none on its way.
LEMMA AskedApart ==
  ASSUME IInv, NEW t \in Slot, NEW type \in Tab, getMsgListByType(t, type), ~crossed',
         UNCHANGED <<signals, list, m_msgDataIsEmpty>>
  PROVE  ListsApart' /\ EmptyIsTold'
<1>1. signals = <<>> /\ \A u \in Slot : thread[u].op # "list"
  BY DEF getMsgListByType, Busy
<1>2. thread'[t] = Ask("list", type) /\ \A u \in Slot \ {t} : thread'[u] = thread[u]
  BY SlotsAfter DEF getMsgListByType, IInv
<1>3. thread'[t].op = "list" /\ thread'[t].at = "asked" /\ thread'[t].arg = type
  BY <1>2, AskFields
<1>4. asked' = type /\ signals' = <<>>
  BY <1>1 DEF getMsgListByType
<1>5. signals' \in Seq(AnyPopup)
      /\ signals' \in Seq(AnyPopup \cup FittingList(asked, m_msgDataIsEmpty)')
  BY <1>4
<1>6. ListsApart'
  BY <1>1, <1>2, <1>3, <1>4, <1>5 DEF ListsApart, OpenList
<1>7. OpenList(thread'[t])
  BY <1>3 DEF OpenList
<1>8. QED
  BY <1>6, <1>7 DEF EmptyIsTold

\* The popup's thread is not a list's.
LEMMA PopupApart ==
  ASSUME IInv, ListsApart, EmptyIsTold, NEW t \in Slot, NEW msg, OpenPopup(t, msg),
         UNCHANGED <<asked, list, m_msgDataIsEmpty>>,
         signals' \in Seq(AnyPopup) <=> signals \in Seq(AnyPopup),
         signals' \in Seq(AnyPopup \cup FittingList(asked, m_msgDataIsEmpty))
  PROVE  ListsApart' /\ EmptyIsTold'
<1>1. thread[t] = Free /\ thread'[t] = Ask("details", msg)
      /\ \A u \in Slot \ {t} : thread'[u] = thread[u]
  BY SlotsAfter DEF OpenPopup, getMsgDetailsById, IInv
<1>2. thread[t].op # "list" /\ thread'[t].op # "list"
  BY <1>1, AskFields
<1>3. "list" \in failed => "list" \in failed'
  BY DEF OpenPopup
<1>4. QED
  BY <1>1, <1>2, <1>3, ListsKept

LEMMA UserLists == IInv /\ ListsInv /\ User => ListsInv'
<1> SUFFICES ASSUME IInv, ListsInv, User, ~crossed'
             PROVE  ListsApart' /\ EmptyIsTold'
  BY DEF ListsInv
<1> USE DEF pageVars, popupVars, serverVars, histVars
<1>1. ASSUME NEW t \in Slot, OnLoginSuccess(t)
      PROVE  ListsApart' /\ EmptyIsTold'
  <2>1. thread[t] = Free /\ thread'[t] = Ask("unread", None)
        /\ \A u \in Slot \ {t} : thread'[u] = thread[u]
    BY <1>1, SlotsAfter DEF OnLoginSuccess, IInv
  <2>2. thread[t].op # "list" /\ thread'[t].op # "list"
    BY <2>1, AskFields
  <2>3. QED
    BY <1>1, <2>1, <2>2, OtherThread DEF OnLoginSuccess, ListsInv
<1>2. ASSUME NEW t \in Slot, OpenPage(t)
      PROVE  ListsApart' /\ EmptyIsTold'
  BY <1>2, AskedApart, MsgCenterAssumption DEF OpenPage
<1>3. ASSUME NEW t \in Slot, NEW type \in Tab, ClickTab(t, type)
      PROVE  ListsApart' /\ EmptyIsTold'
  BY <1>3, AskedApart DEF ClickTab
<1>4. ASSUME NEW t \in Slot, NEW msg \in Msg, ClickMessage(t, msg)
      PROVE  ListsApart' /\ EmptyIsTold'
  <2>1. OpenPopup(t, msg) /\ UNCHANGED <<asked, list, m_msgDataIsEmpty, signals>>
    BY <1>4 DEF ClickMessage
  <2>2. ListsApart /\ EmptyIsTold
    BY <2>1 DEF OpenPopup, ListsInv
  <2>3. QED
    BY <2>1, <2>2, PopupApart DEF ListsApart
<1>5. CASE ClosePopup
  BY <1>5, ListsKept DEF ClosePopup, ListsInv, ListsApart
<1>6. QED
  BY <1>1, <1>2, <1>3, <1>4, <1>5 DEF User

LEMMA SignalLists == IInv /\ ListsInv /\ OnSignal => ListsInv'
<1> SUFFICES ASSUME IInv, ListsInv, OnSignal, ~crossed'
             PROVE  ListsApart' /\ EmptyIsTold'
  BY DEF ListsInv
<1> USE DEF pageVars, popupVars, serverVars, histVars
<1> DEFINE Fits == FittingList(asked, m_msgDataIsEmpty)
<1>1. ListsApart /\ EmptyIsTold
  BY DEF OnSignal, OnUpdateList, OnForcePopupMsg, OpenPopup, ListsInv
<1>2. signals \in Seq(AnyPopup \cup Fits)
  BY <1>1 DEF ListsApart
<1>3. CASE OnUpdateList
  <2>1. signals # <<>> /\ "to" \in DOMAIN Head(signals) /\ signals' = Tail(signals)
        /\ list' = [list EXCEPT ![Head(signals).to] = Head(signals).reply]
        /\ UNCHANGED <<asked, m_msgDataIsEmpty, thread, failed>>
    BY <1>3 DEF OnUpdateList
  <2>2. Head(signals) \in AnyPopup \cup Fits /\ Tail(signals) \in Seq(AnyPopup \cup Fits)
    BY <1>2, <2>1, HeadTailProperties
  <2>3. Head(signals) \in Fits /\ Head(signals) \notin AnyPopup
    BY <2>1, <2>2 DEF AnyPopup
  <2>4. Head(signals).to = asked /\ (m_msgDataIsEmpty <=> Head(signals).reply = {})
    BY <2>3 DEF FittingList
  <2>5. signals \notin Seq(AnyPopup)
    BY <1>2, <2>1, <2>3, SignalTaken
  <2>6. \A u \in Slot : ~OpenList(thread[u])
    BY <1>1, <2>5 DEF ListsApart
  <2>7. Fits' = Fits
    BY <2>1 DEF FittingList
  <2>8. ListsApart'
    BY <1>1, <2>1, <2>2, <2>6, <2>7 DEF ListsApart
  <2>9. asked # None => list'[asked] = Head(signals).reply
    BY <2>1, <2>4 DEF IInv, TypeOK
  <2>10. EmptyIsTold'
    BY <2>1, <2>4, <2>9 DEF EmptyIsTold
  <2>11. QED
    BY <2>8, <2>10
<1>4. ASSUME NEW t \in Slot, OnForcePopupMsg(t)
      PROVE  ListsApart' /\ EmptyIsTold'
  <2>1. signals # <<>> /\ "popup" \in DOMAIN Head(signals) /\ signals' = Tail(signals)
        /\ UNCHANGED <<asked, m_msgDataIsEmpty, list>>
        /\ OpenPopup(t, Head(signals).popup)
    BY <1>4 DEF OnForcePopupMsg
  <2>2. Head(signals) \in AnyPopup \cup Fits /\ Tail(signals) \in Seq(AnyPopup \cup Fits)
    BY <1>2, <2>1, HeadTailProperties
  <2>3. Head(signals) \in AnyPopup
    BY <2>1, <2>2 DEF FittingList
  <2>4. signals' \in Seq(AnyPopup) <=> signals \in Seq(AnyPopup)
    BY <1>2, <2>1, <2>3, SignalTaken
  <2>5. QED
    BY <1>1, <2>1, <2>2, <2>4, PopupApart
<1>5. QED
  BY <1>3, <1>4 DEF OnSignal

LEMMA SpinnerLists ==
  ASSUME IInv, ListsApart, EmptyIsTold, NEW t \in Slot, ShowSpinner(t)
  PROVE  ListsApart' /\ EmptyIsTold'
<1>1. thread[t].op = "list"
  <2>1. thread[t].at = "asked"
    BY DEF ShowSpinner
  <2>2. QED
    BY <2>1 DEF IInv, OnlyPublished, JobGood
<1>2. OpenList(thread[t])
  BY <1>1 DEF ShowSpinner, OpenList
<1>3. /\ thread'[t].at = "sent" /\ thread'[t].op = "list" /\ thread'[t].arg = thread[t].arg
      /\ \A u \in Slot \ {t} : thread'[u] = thread[u]
  BY <1>1, PlaceFields DEF ShowSpinner, IInv
<1>4. UNCHANGED <<asked, signals, list, failed>> /\ ~m_msgDataIsEmpty'
  BY DEF ShowSpinner, histVars
<1>5. signals' \in Seq(AnyPopup)
  BY <1>2, <1>4 DEF ListsApart
<1>6. signals' \in Seq(AnyPopup \cup FittingList(asked, m_msgDataIsEmpty)')
  BY <1>5, SeqMonotonic
<1>7. ListsApart'
  BY <1>1, <1>3, <1>4, <1>5, <1>6 DEF ListsApart, OpenList
<1>8. OpenList(thread'[t])
  BY <1>3 DEF OpenList
<1>9. QED
  BY <1>7, <1>8 DEF EmptyIsTold

LEMMA ServeLists ==
  ASSUME IInv, ListsApart, EmptyIsTold, NEW t \in Slot, Serve(t)
  PROVE  ListsApart' /\ EmptyIsTold'
<1>1. PICK msgs : Replies(t, msgs)
  BY DEF Serve
<1>2. /\ thread'[t].at = "replied" /\ thread'[t].op = thread[t].op
      /\ thread'[t].arg = thread[t].arg
      /\ \A u \in Slot \ {t} : thread'[u] = thread[u]
  BY <1>1, ReplyFields DEF IInv
<1>3. UNCHANGED <<asked, signals, list, failed, m_msgDataIsEmpty>> /\ thread[t].at = "sent"
  BY DEF Serve, pageVars, histVars
<1>4. FittingList(asked, m_msgDataIsEmpty)' = FittingList(asked, m_msgDataIsEmpty)
  BY <1>3 DEF FittingList
<1>5. \A u \in Slot : OpenList(thread'[u]) <=> OpenList(thread[u])
  BY <1>2, <1>3 DEF OpenList
<1>6. \A u \in Slot : /\ thread'[u].op = thread[u].op /\ thread'[u].arg = thread[u].arg
                      /\ thread[u].at = "asked" => thread'[u].at = "asked"
  BY <1>2, <1>3
<1>7. ListsApart'
  BY <1>3, <1>4, <1>5, <1>6 DEF ListsApart
<1>8. EmptyIsTold'
  BY <1>3, <1>5 DEF EmptyIsTold
<1>9. QED
  BY <1>7, <1>8

LEMMA FailLists ==
  ASSUME IInv, ListsApart, EmptyIsTold, NEW t \in Slot, Fail(t)
  PROVE  ListsApart' /\ EmptyIsTold'
<1>1. /\ thread'[t] = (IF thread[t].op = "unread" THEN Ask("force", None) ELSE Free)
      /\ \A u \in Slot \ {t} : thread'[u] = thread[u]
  BY SlotsAfter DEF Fail, IInv
<1>2. thread'[t].op # "list"
  BY <1>1, AskFields
<1>3. /\ UNCHANGED <<asked, signals, list, m_msgDataIsEmpty>>
      /\ failed \subseteq failed' /\ (thread[t].op = "list" => "list" \in failed')
  BY DEF Fail
<1>4. CASE thread[t].op # "list"
  BY <1>1, <1>2, <1>3, <1>4, OtherThread
<1>5. CASE thread[t].op = "list"
  <2>1. FittingList(asked, m_msgDataIsEmpty)' = FittingList(asked, m_msgDataIsEmpty)
    BY <1>3 DEF FittingList
  <2>2. \A u \in Slot : thread'[u].op = "list" => thread'[u] = thread[u]
    BY <1>1, <1>2
  <2>3. ListsApart'
    BY <1>3, <2>1, <2>2 DEF ListsApart, OpenList
  <2>4. EmptyIsTold'
    BY <1>3, <1>5 DEF EmptyIsTold
  <2>5. QED
    BY <2>3, <2>4
<1>6. QED
  BY <1>4, <1>5

LEMMA HandleListLists ==
  ASSUME IInv, ListsApart, EmptyIsTold, NEW t \in Slot, HandleList(t)
  PROVE  ListsApart' /\ EmptyIsTold'
<1>1. thread[t].op = "list" /\ UNCHANGED <<asked, list, failed>>
  BY DEF HandleList, histVars
<1>2. thread[t].arg = asked /\ \A u \in Slot \ {t} : thread[u].op # "list"
  BY <1>1 DEF ListsApart
<1>3. CASE thread[t].at = "replied"
  <2> DEFINE sig == [to |-> thread[t].arg, reply |-> thread[t].reply]
  <2>1. /\ thread'[t].at = "stored" /\ thread'[t].op = "list" /\ thread'[t].arg = asked
        /\ \A u \in Slot \ {t} : thread'[u] = thread[u]
    BY <1>1, <1>2, <1>3, PlaceFields DEF HandleList, IInv
  <2>2. signals \in Seq(AnyPopup) /\ ~m_msgDataIsEmpty
    BY <1>1, <1>3 DEF ListsApart, OpenList
  <2>3. signals' = Append(signals, sig) /\ (m_msgDataIsEmpty' <=> thread[t].reply = {})
    BY <1>3, <2>2 DEF HandleList
  <2>4. sig \in FittingList(asked, m_msgDataIsEmpty)'
    <3>1. thread[t].reply \in SUBSET Msg
      BY DEF IInv, TypeOK, ThreadType
    <3>2. QED
      BY <1>1, <1>2, <2>3, <3>1 DEF FittingList
  <2>5. signals' \in Seq(AnyPopup \cup FittingList(asked, m_msgDataIsEmpty)')
    <3> HIDE DEF sig
    <3>1. signals \in Seq(AnyPopup \cup FittingList(asked, m_msgDataIsEmpty)')
      BY <2>2, SeqMonotonic
    <3>2. QED
      BY <2>3, <2>4, <3>1, AppendProperties
  <2>6. signals' \notin Seq(AnyPopup)
    BY <2>2, <2>3, ListQueued
  <2>7. \A u \in Slot : ~OpenList(thread'[u])
    BY <1>2, <2>1 DEF OpenList
  <2>8. ListsApart'
    BY <1>1, <1>2, <2>1, <2>5, <2>7 DEF ListsApart
  <2>9. EmptyIsTold'
    BY <2>6 DEF EmptyIsTold
  <2>10. QED
    BY <2>8, <2>9
<1>4. CASE thread[t].at = "stored"
  <2>1. /\ thread'[t] = Ask("unread", None) /\ UNCHANGED <<signals, m_msgDataIsEmpty>>
        /\ \A u \in Slot \ {t} : thread'[u] = thread[u]
    BY <1>4, SlotsAfter DEF HandleList, IInv
  <2>2. \A u \in Slot : thread'[u].op # "list" /\ ~OpenList(thread[u])
    BY <1>2, <1>4, <2>1, AskFields DEF OpenList
  <2>3. FittingList(asked, m_msgDataIsEmpty)' = FittingList(asked, m_msgDataIsEmpty)
    BY <1>1, <2>1 DEF FittingList
  <2>4. ListsApart'
    BY <1>1, <2>1, <2>2, <2>3 DEF ListsApart, OpenList
  <2>5. EmptyIsTold'
    BY <1>1, <2>1, <2>2 DEF EmptyIsTold
  <2>6. QED
    BY <2>4, <2>5
<1>5. QED
  BY <1>3, <1>4 DEF HandleList

LEMMA WorkLists == ASSUME IInv, ListsInv, NEW t \in Slot, Work(t) PROVE ListsInv'
<1> SUFFICES ASSUME ~crossed'
             PROVE  ListsApart' /\ EmptyIsTold'
  BY DEF ListsInv
<1> USE DEF pageVars, popupVars, serverVars, histVars
<1>1. ListsApart /\ EmptyIsTold
  <2>1. crossed' = crossed
    BY DEF Work, ShowSpinner, Serve, Fail, HandleUnread, HandleList, HandleDetails, HandleForce
  <2>2. QED
    BY <2>1 DEF ListsInv
<1>2. CASE HandleUnread(t)
  <2>1. thread'[t] = Ask("force", None) /\ \A u \in Slot \ {t} : thread'[u] = thread[u]
    BY <1>2, SlotsAfter DEF HandleUnread, IInv
  <2>2. thread[t].op # "list" /\ thread'[t].op # "list"
    BY <1>2, <2>1, AskFields DEF HandleUnread
  <2>3. QED
    BY <1>1, <1>2, <2>1, <2>2, OtherThread DEF HandleUnread
<1>3. CASE HandleDetails(t)
  <2>1. thread[t].op # "list" /\ thread'[t].op # "list"
        /\ \A u \in Slot \ {t} : thread'[u] = thread[u]
    <3>1. CASE thread[t].at = "replied"
      BY <1>3, <3>1, PlaceFields DEF HandleDetails, IInv
    <3>2. CASE thread[t].at = "stored"
      BY <1>3, <3>2, SlotsAfter, AskFields DEF HandleDetails, IInv
    <3>3. QED
      BY <1>3, <3>1, <3>2 DEF HandleDetails
  <2>2. QED
    BY <1>1, <1>3, <2>1, OtherThread DEF HandleDetails
<1>4. CASE HandleForce(t)
  <2>1. thread[t].op # "list" /\ thread'[t].op # "list"
        /\ \A u \in Slot \ {t} : thread'[u] = thread[u]
    BY <1>4, SlotsAfter, AskFields DEF HandleForce, IInv
  <2>2. /\ signals' \in Seq(AnyPopup) <=> signals \in Seq(AnyPopup)
        /\ signals' \in Seq(AnyPopup \cup FittingList(asked, m_msgDataIsEmpty))
    BY <1>1, <1>4, NoticesQueued DEF ListsApart
  <2>3. UNCHANGED <<asked, list, m_msgDataIsEmpty, failed>>
    BY <1>4 DEF HandleForce
  <2>4. QED
    BY <1>1, <2>1, <2>2, <2>3, ListsKept
<1>5. QED
  BY <1>1, <1>2, <1>3, <1>4, SpinnerLists, ServeLists, FailLists, HandleListLists DEF Work

LEMMA ListsStep == IInv /\ ListsInv /\ [Next]_vars => ListsInv'
<1> SUFFICES ASSUME IInv, ListsInv, [Next]_vars
             PROVE  ListsInv'
  OBVIOUS
<1> USE DEF pageVars, popupVars, serverVars, histVars
<1>1. CASE UNCHANGED vars
  BY <1>1, ListsKept DEF vars, ListsInv, ListsApart
<1>2. ASSUME NEW msg \in Msg, Publish(msg)
      PROVE  ListsInv'
  BY <1>2, ListsKept DEF Publish, ListsInv, ListsApart
<1>3. QED
  BY <1>1, <1>2, UserLists, SignalLists, WorkLists DEF Next

\* Once nothing is on its way, the tab that was asked for last tells whether
\* it is empty: no list thread and no queued list can still change it.
THEOREM EmptyTabsFit == Spec => []EmptyFits
<1>1. Init => ListsInv
  <2> SUFFICES ASSUME Init
               PROVE  ListsApart /\ EmptyIsTold
    BY DEF ListsInv
  <2>1. \A t \in Slot : thread[t].op = "none"
    BY DEF Init, Free
  <2>2. signals \in Seq(AnyPopup \cup FittingList(asked, m_msgDataIsEmpty))
    BY DEF Init
  <2>3. QED
    BY <2>1, <2>2 DEF Init, ListsApart, EmptyIsTold, OpenList
<1>2. IInv /\ ListsInv /\ [Next]_vars => ListsInv'
  BY ListsStep
<1>3. IInv /\ ListsInv => EmptyFits
  <2> SUFFICES ASSUME IInv, ListsInv, ~crossed, "list" \notin failed, Quiet, tab = asked
               PROVE  m_msgDataIsEmpty <=> list[tab] = {}
    BY DEF EmptyFits
  <2>1. signals = <<>> /\ \A t \in Slot : ~OpenList(thread[t])
    BY DEF Quiet, OpenList, Free
  <2>2. asked # None
    BY MsgCenterAssumption DEF IInv, TypeOK
  <2>3. signals \in Seq(AnyPopup)
    BY <2>1
  <2>4. QED
    BY <2>1, <2>2, <2>3 DEF ListsInv, EmptyIsTold
<1>4. QED
  BY <1>1, <1>2, <1>3, Inductive, PTL DEF Spec

-----------------------------------------------------------------------------
(* Popups that do not lie on each other *)

LEMMA OnePopup ==
  ASSUME NEW s \in Seq(Msg), s # <<>>, Len(s) <= 1
  PROVE  Len(s) = 1
<1>1. Len(s) \in Nat \ {0}
  BY EmptySeq
<1>2. QED
  BY <1>1

\* What has nothing to do with the popups.
LEMMA PopupsKept ==
  ASSUME PopupsApart, UNCHANGED <<popups, m_msgReady, details, layout>>,
         \A u \in Slot : thread'[u].op = "details" => thread'[u] = thread[u]
  PROVE  PopupsApart'
BY DEF PopupsApart, Carries

\* The same for a thread that is not a popup's.
LEMMA NoPopupThread ==
  ASSUME PopupsApart, UNCHANGED <<popups, m_msgReady, details, layout>>,
         NEW t \in Slot, thread'[t].op # "details",
         \A u \in Slot \ {t} : thread'[u] = thread[u]
  PROVE  PopupsApart'
BY PopupsKept

\* A popup that opens when there is none and no details are on their way.
LEMMA OpenedAlone ==
  ASSUME IInv, NEW t \in Slot, NEW msg \in Msg, OpenPopup(t, msg), ~crossed'
  PROVE  PopupsApart'
<1>1. popups = <<>> /\ \A u \in Slot : thread[u].op # "details"
  BY DEF OpenPopup, Busy
<1>2. thread'[t] = Ask("details", msg) /\ \A u \in Slot \ {t} : thread'[u] = thread[u]
  BY SlotsAfter DEF OpenPopup, getMsgDetailsById, IInv
<1>3. thread'[t].op = "details" /\ thread'[t].at = "sent" /\ thread'[t].arg = msg
  BY <1>2, AskFields
<1>4. popups' = <<msg>> /\ m_msgReady' = FALSE
  BY <1>1 DEF OpenPopup, getMsgDetailsById
<1>5. popups'[1] = msg /\ Len(popups') = 1
  BY <1>4
<1>6. QED
  BY <1>1, <1>2, <1>3, <1>4, <1>5 DEF PopupsApart, Carries

LEMMA UIPopups == IInv /\ PopupsInv /\ (User \/ OnSignal) => PopupsInv'
<1> SUFFICES ASSUME IInv, PopupsInv, User \/ OnSignal, ~crossed'
             PROVE  PopupsApart'
  BY DEF PopupsInv
<1> USE DEF pageVars, popupVars, serverVars, histVars
<1>1. ASSUME NEW t \in Slot, OnLoginSuccess(t)
      PROVE  PopupsApart'
  <2>1. thread'[t] = Ask("unread", None) /\ \A u \in Slot \ {t} : thread'[u] = thread[u]
    BY <1>1, SlotsAfter DEF OnLoginSuccess, IInv
  <2>2. thread'[t].op # "details"
    BY <2>1, AskFields
  <2>3. QED
    BY <1>1, <2>1, <2>2, NoPopupThread DEF OnLoginSuccess, PopupsInv
<1>2. ASSUME NEW t \in Slot, NEW type \in Tab, getMsgListByType(t, type), UNCHANGED popupVars
      PROVE  PopupsApart'
  <2>1. thread'[t] = Ask("list", type) /\ \A u \in Slot \ {t} : thread'[u] = thread[u]
    BY <1>2, SlotsAfter DEF getMsgListByType, IInv
  <2>2. thread'[t].op # "details"
    BY <2>1, AskFields
  <2>3. PopupsApart
    BY <1>2 DEF getMsgListByType, PopupsInv
  <2>4. QED
    BY <1>2, <2>1, <2>2, <2>3, NoPopupThread
<1>3. ASSUME NEW t \in Slot, OpenPage(t) \/ \E type \in Tab : ClickTab(t, type)
      PROVE  PopupsApart'
  BY <1>2, <1>3, MsgCenterAssumption DEF OpenPage, ClickTab
<1>4. ASSUME NEW t \in Slot, NEW msg \in Msg, ClickMessage(t, msg)
      PROVE  PopupsApart'
  BY <1>4, OpenedAlone DEF ClickMessage
<1>5. CASE ClosePopup
  <2>1. PopupsApart /\ UNCHANGED <<m_msgReady, details, layout, thread>>
    BY <1>5 DEF ClosePopup, PopupsInv
  <2>2. popups' = <<>>
    <3>1. Len(popups) = 1
      BY <1>5, <2>1, OnePopup DEF ClosePopup, PopupsApart, IInv, TypeOK
    <3>2. popups' = SubSeq(popups, 1, 0)
      BY <1>5, <3>1 DEF ClosePopup, Front
    <3>3. QED
      BY <3>2, SubSeqEmpty
  <2>3. QED
    BY <2>1, <2>2 DEF PopupsApart, Carries
<1>6. CASE OnUpdateList
  BY <1>6, PopupsKept DEF OnUpdateList, PopupsInv
<1>7. ASSUME NEW t \in Slot, OnForcePopupMsg(t)
      PROVE  PopupsApart'
  <2>1. Head(signals).popup \in Msg
    <3>1. Head(signals) \in SignalsOf(published) /\ "popup" \in DOMAIN Head(signals)
      BY <1>7, HeadTailProperties DEF OnForcePopupMsg, IInv, OnlyPublished
    <3>2. QED
      BY <3>1 DEF SignalsOf, IInv, TypeOK
  <2>2. QED
    BY <1>7, <2>1, OpenedAlone DEF OnForcePopupMsg
<1>8. QED
  BY <1>1, <1>3, <1>4, <1>5, <1>6, <1>7 DEF User, OnSignal

LEMMA ServePopups ==
  ASSUME IInv, PopupsApart, NEW t \in Slot, Serve(t)
  PROVE  PopupsApart'
<1>1. PICK msgs : Replies(t, msgs) /\ (thread[t].op = "details" => msgs = {thread[t].arg})
  BY DEF Serve
<1>2. /\ thread'[t].at = "replied" /\ thread'[t].op = thread[t].op
      /\ thread'[t].arg = thread[t].arg /\ thread'[t].reply = msgs
      /\ \A u \in Slot \ {t} : thread'[u] = thread[u]
  BY <1>1, ReplyFields DEF IInv
<1>3. UNCHANGED <<popups, m_msgReady, details, layout>>
  BY DEF Serve, popupVars
<1>4. \A u \in Slot : thread'[u].op = "details" => Carries(thread[u])
  BY <1>2 DEF PopupsApart
<1>5. \A u \in Slot : thread'[u].op = "details" => Carries(thread[u])'
  <2>1. ASSUME NEW u \in Slot, thread'[u].op = "details"
        PROVE  Carries(thread[u])'
    <3>1. CASE u = t
      BY <1>1, <1>2, <1>3, <1>4, <2>1, <3>1 DEF Carries
    <3>2. CASE u # t
      BY <1>2, <1>3, <1>4, <2>1, <3>2 DEF Carries
    <3>3. QED
      BY <3>1, <3>2
  <2>2. QED
    BY <2>1
<1>6. \A u \in Slot : thread'[u].op = thread[u].op
  BY <1>2
<1>7. QED
  BY <1>3, <1>5, <1>6 DEF PopupsApart

LEMMA HandleDetailsPopups ==
  ASSUME IInv, PopupsApart, NEW t \in Slot, HandleDetails(t)
  PROVE  PopupsApart'
<1>1. thread[t].op = "details" /\ popups' = popups
  BY DEF HandleDetails
<1>2. Carries(thread[t]) /\ \A u \in Slot \ {t} : thread[u].op # "details"
  BY <1>1 DEF PopupsApart
<1>3. CASE thread[t].at = "replied"
  <2>1. /\ thread'[t].at = "stored" /\ thread'[t].op = "details"
        /\ thread'[t].arg = thread[t].arg /\ thread'[t].reply = thread[t].reply
        /\ \A u \in Slot \ {t} : thread'[u] = thread[u]
    BY <1>1, <1>3, PlaceFields DEF HandleDetails, IInv
  <2>2. details' = thread[t].arg /\ layout' = {} /\ m_msgReady' = m_msgReady
    BY <1>3 DEF HandleDetails
  <2>3. Carries(thread[t])'
    BY <1>1, <1>2, <1>3, <2>1, <2>2 DEF Carries
  <2>4. ~m_msgReady'
    BY <1>2, <2>2 DEF Carries
  <2>5. QED
    BY <1>1, <1>2, <2>1, <2>3, <2>4 DEF PopupsApart
<1>4. CASE thread[t].at = "stored"
  <2>1. /\ thread'[t] = Ask("unread", None)
        /\ \A u \in Slot \ {t} : thread'[u] = thread[u]
    BY <1>4, SlotsAfter DEF HandleDetails, IInv
  <2>2. \A u \in Slot : thread'[u].op # "details"
    BY <1>2, <2>1, AskFields
  <2>3. details' = thread[t].arg /\ layout' = {thread[t].arg}
    BY <1>2, <1>4 DEF HandleDetails, Carries
  <2>4. popups # <<>> => popups[1] = thread[t].arg
    BY <1>2 DEF Carries
  <2>5. QED
    BY <1>1, <2>2, <2>3, <2>4 DEF PopupsApart
<1>5. QED
  BY <1>3, <1>4 DEF HandleDetails

LEMMA WorkPopups == ASSUME IInv, PopupsInv, NEW t \in Slot, Work(t) PROVE PopupsInv'
<1> SUFFICES ASSUME ~crossed'
             PROVE  PopupsApart'
  BY DEF PopupsInv
<1> USE DEF pageVars, popupVars, serverVars, histVars
<1>1. PopupsApart
  <2>1. crossed' = crossed
    BY DEF Work, ShowSpinner, Serve, Fail, HandleUnread, HandleList, HandleDetails, HandleForce
  <2>2. QED
    BY <2>1 DEF PopupsInv
<1>2. CASE ShowSpinner(t)
  <2>1. thread[t].op # "details"
    BY <1>2 DEF ShowSpinner, IInv, OnlyPublished, JobGood
  <2>2. thread'[t].op # "details" /\ \A u \in Slot \ {t} : thread'[u] = thread[u]
    BY <1>2, <2>1, PlaceFields DEF ShowSpinner, IInv
  <2>3. QED
    BY <1>1, <1>2, <2>2, NoPopupThread DEF ShowSpinner
<1>3. CASE Fail(t)
  <2>1. thread'[t].op # "details" /\ \A u \in Slot \ {t} : thread'[u] = thread[u]
    BY <1>3, SlotsAfter, AskFields DEF Fail, IInv
  <2>2. QED
    BY <1>1, <1>3, <2>1, NoPopupThread DEF Fail
<1>4. CASE HandleUnread(t)
  <2>1. thread'[t].op # "details" /\ \A u \in Slot \ {t} : thread'[u] = thread[u]
    BY <1>4, SlotsAfter, AskFields DEF HandleUnread, IInv
  <2>2. QED
    BY <1>1, <1>4, <2>1, NoPopupThread DEF HandleUnread
<1>5. CASE HandleList(t)
  <2>1. thread'[t].op # "details" /\ \A u \in Slot \ {t} : thread'[u] = thread[u]
    <3>1. CASE thread[t].at = "replied"
      BY <1>5, <3>1, PlaceFields DEF HandleList, IInv
    <3>2. CASE thread[t].at = "stored"
      BY <1>5, <3>2, SlotsAfter, AskFields DEF HandleList, IInv
    <3>3. QED
      BY <1>5, <3>1, <3>2 DEF HandleList
  <2>2. QED
    BY <1>1, <1>5, <2>1, NoPopupThread DEF HandleList
<1>6. CASE HandleForce(t)
  <2>1. thread'[t].op # "details" /\ \A u \in Slot \ {t} : thread'[u] = thread[u]
    BY <1>6, SlotsAfter, AskFields DEF HandleForce, IInv
  <2>2. QED
    BY <1>1, <1>6, <2>1, NoPopupThread DEF HandleForce
<1>7. QED
  BY <1>1, <1>2, <1>3, <1>4, <1>5, <1>6, ServePopups, HandleDetailsPopups DEF Work

LEMMA PopupsStep == IInv /\ PopupsInv /\ [Next]_vars => PopupsInv'
<1> SUFFICES ASSUME IInv, PopupsInv, [Next]_vars
             PROVE  PopupsInv'
  OBVIOUS
<1> USE DEF pageVars, popupVars, serverVars, histVars
<1>1. CASE UNCHANGED vars
  BY <1>1, PopupsKept DEF vars, PopupsInv
<1>2. ASSUME NEW msg \in Msg, Publish(msg)
      PROVE  PopupsInv'
  BY <1>2, PopupsKept DEF Publish, PopupsInv
<1>3. QED
  BY <1>1, <1>2, UIPopups, WorkPopups DEF Next

\* A popup that lies alone shows the text and the layout of its own message
\* once its spinner is gone (getMsgDetailsById).
THEOREM LonePopupShowsItself == Spec => []LoneNoticeIsOwn
<1>1. Init => PopupsInv
  <2> SUFFICES ASSUME Init
               PROVE  PopupsApart
    BY DEF PopupsInv
  <2>1. popups = <<>> /\ Len(popups) = 0 /\ \A t \in Slot : thread[t].op = "none"
    BY DEF Init, Free
  <2>2. QED
    BY <2>1 DEF PopupsApart
<1>2. IInv /\ PopupsInv /\ [Next]_vars => PopupsInv'
  BY PopupsStep
<1>3. IInv /\ PopupsInv => LoneNoticeIsOwn
  <2> SUFFICES ASSUME IInv, PopupsInv, ~crossed, popups # <<>>, m_msgReady
               PROVE  details = Last(popups) /\ layout = {Last(popups)}
    BY DEF LoneNoticeIsOwn
  <2>1. Len(popups) = 1
    BY OnePopup DEF PopupsInv, PopupsApart, IInv, TypeOK
  <2>2. QED
    BY <2>1 DEF PopupsInv, PopupsApart, Last
<1>4. QED
  BY <1>1, <1>2, <1>3, Inductive, PTL DEF Spec

-----------------------------------------------------------------------------
(* Nobody waits for what is not on its way *)

\* Who waits for a list or for details has a thread that will end the wait.
ListComes    == asked # None => m_msgDataIsReady \/ Busy("list")
DetailsCome  == popups # <<>> => m_msgReady \/ Busy("details") \/ "details" \in failed
WaitsServed  == ListComes /\ DetailsCome

\* At rest neither the page nor a popup turns its spinner, but for a popup
\* whose details failed, however lists and popups overlapped and failed.
NoSpinnerLeft ==
  Quiet =>
    /\ asked # None => m_msgDataIsReady
    /\ popups # <<>> => m_msgReady \/ "details" \in failed

LEMMA StaysBusy ==
  ASSUME NEW op, NEW t \in Slot, \A u \in Slot \ {t} : thread'[u] = thread[u],
         thread[t].op # op \/ thread'[t].op = op
  PROVE  Busy(op) => Busy(op)'
<1> SUFFICES ASSUME NEW u \in Slot, thread[u].op = op
             PROVE  Busy(op)'
  BY DEF Busy
<1>1. thread'[u].op = op
  BY DEF Busy
<1>2. QED
  BY <1>1 DEF Busy

\* The user and the signals start threads in free slots, and close popups.
LEMMA UIServed ==
  ASSUME IInv, WaitsServed, User \/ OnSignal
  PROVE  WaitsServed'
<1> USE DEF pageVars, popupVars, serverVars, histVars
<1>1. ASSUME NEW t \in Slot, NEW type \in Tab, getMsgListByType(t, type),
             UNCHANGED <<m_msgDataIsReady, popupVars>>
      PROVE  WaitsServed'
  <2>1. thread[t].op = "none" /\ thread'[t].op = "list" /\ \A u \in Slot \ {t} : thread'[u] = thread[u]
    BY <1>1, SlotsAfter, AskFields DEF getMsgListByType, IInv
  <2>2. Busy("list")'
    BY <2>1 DEF Busy
  <2>3. Busy("details") => Busy("details")'
    BY <2>1, StaysBusy
  <2>4. "details" \in failed => "details" \in failed'
    BY <1>1 DEF getMsgListByType
  <2>5. ListComes'
    BY <2>2 DEF ListComes
  <2>6. DetailsCome'
    BY <1>1, <2>3, <2>4 DEF WaitsServed, DetailsCome
  <2>7. QED
    BY <2>5, <2>6 DEF WaitsServed
<1>2. ASSUME NEW t \in Slot, NEW msg, OpenPopup(t, msg), UNCHANGED <<asked, m_msgDataIsReady>>
      PROVE  WaitsServed'
  <2>1. thread[t].op = "none" /\ thread'[t].op = "details" /\ \A u \in Slot \ {t} : thread'[u] = thread[u]
    BY <1>2, SlotsAfter, AskFields DEF OpenPopup, getMsgDetailsById, IInv
  <2>2. Busy("details")'
    BY <2>1 DEF Busy
  <2>3. Busy("list") => Busy("list")'
    BY <2>1, StaysBusy
  <2>4. ListComes'
    BY <1>2, <2>3 DEF WaitsServed, ListComes
  <2>5. DetailsCome'
    BY <2>2 DEF DetailsCome
  <2>6. QED
    BY <2>4, <2>5 DEF WaitsServed
<1>3. ASSUME NEW t \in Slot, OnLoginSuccess(t)
      PROVE  WaitsServed'
  <2>1. thread[t].op = "none" /\ \A u \in Slot \ {t} : thread'[u] = thread[u]
    BY <1>3, SlotsAfter, AskFields DEF OnLoginSuccess, IInv
  <2>2. (Busy("list") => Busy("list")') /\ (Busy("details") => Busy("details")')
    BY <2>1, StaysBusy
  <2>3. ListComes' /\ DetailsCome'
    BY <1>3, <2>2 DEF OnLoginSuccess, WaitsServed, ListComes, DetailsCome
  <2>4. QED
    BY <2>3 DEF WaitsServed
<1>4. CASE ClosePopup \/ OnUpdateList
  <2>1. UNCHANGED <<thread, asked, m_msgDataIsReady, m_msgReady, failed>>
        /\ (popups' # <<>> => popups # <<>>)
    BY <1>4 DEF ClosePopup, OnUpdateList
  <2>2. (Busy("list") => Busy("list")') /\ (Busy("details") => Busy("details")')
    BY <2>1 DEF Busy
  <2>3. ListComes' /\ DetailsCome'
    BY <2>1, <2>2 DEF WaitsServed, ListComes, DetailsCome
  <2>4. QED
    BY <2>3 DEF WaitsServed
<1>5. ASSUME NEW t \in Slot, OpenPage(t)
      PROVE  WaitsServed'
  BY <1>1, <1>5, MsgCenterAssumption DEF OpenPage
<1>6. ASSUME NEW t \in Slot, NEW type \in Tab, ClickTab(t, type)
      PROVE  WaitsServed'
  BY <1>1, <1>6 DEF ClickTab
<1>7. ASSUME NEW t \in Slot, NEW msg \in Msg, ClickMessage(t, msg)
      PROVE  WaitsServed'
  BY <1>2, <1>7 DEF ClickMessage
<1>8. ASSUME NEW t \in Slot, OnForcePopupMsg(t)
      PROVE  WaitsServed'
  BY <1>2, <1>8 DEF OnForcePopupMsg
<1>9. QED
  BY <1>3, <1>4, <1>5, <1>6, <1>7, <1>8 DEF User, OnSignal

\* A thread leaves a list or details only by ending the wait for it.
LEMMA WorkServed ==
  ASSUME IInv, WaitsServed, NEW t \in Slot, Work(t)
  PROVE  WaitsServed'
<1> USE DEF pageVars, popupVars, serverVars, histVars
<1>1. UNCHANGED <<asked, popups>> /\ \A u \in Slot \ {t} : thread'[u] = thread[u]
  BY SlotsAfter DEF Work, ShowSpinner, Serve, Replies, Fail, HandleUnread, HandleList, HandleDetails,
     HandleForce, IInv
<1>2. CASE ShowSpinner(t) \/ Serve(t)
  <2>1. thread'[t].op = thread[t].op
    BY <1>2, PlaceFields, ReplyFields DEF ShowSpinner, Serve, IInv
  <2>2. (Busy("list") => Busy("list")') /\ (Busy("details") => Busy("details")')
    BY <1>1, <2>1, StaysBusy
  <2>3. UNCHANGED <<m_msgReady, failed>>
    BY <1>2 DEF ShowSpinner, Serve
  <2>4. DetailsCome'
    BY <1>1, <2>2, <2>3 DEF WaitsServed, DetailsCome
  <2>5. ListComes'
    <3>1. CASE Serve(t)
      BY <1>1, <2>2, <3>1 DEF Serve, WaitsServed, ListComes
    <3>2. CASE ShowSpinner(t)
      <4>1. thread[t].op = "list"
        BY <3>2 DEF ShowSpinner, IInv, OnlyPublished, JobGood
      <4>2. QED
        BY <2>1, <4>1 DEF ListComes, Busy
    <3>3. QED
      BY <1>2, <3>1, <3>2
  <2>6. QED
    BY <2>4, <2>5 DEF WaitsServed
<1>3. CASE Fail(t)
  <2>1. ListComes'
    <3>1. thread[t].op # "list" => (Busy("list") => Busy("list")')
      BY <1>1, StaysBusy
    <3>2. IF thread[t].op = "list" THEN m_msgDataIsReady' = TRUE ELSE m_msgDataIsReady' = m_msgDataIsReady
      BY <1>3 DEF Fail, IInv, TypeOK
    <3>3. QED
      BY <1>1, <3>1, <3>2 DEF WaitsServed, ListComes
  <2>2. DetailsCome'
    <3>1. thread[t].op # "details" => (Busy("details") => Busy("details")')
      BY <1>1, StaysBusy
    <3>2. thread[t].op = "details" => "details" \in failed'
      BY <1>3 DEF Fail
    <3>3. failed \subseteq failed' /\ m_msgReady' = m_msgReady
      BY <1>3 DEF Fail
    <3>4. QED
      BY <1>1, <3>1, <3>2, <3>3 DEF WaitsServed, DetailsCome
  <2>3. QED
    BY <2>1, <2>2 DEF WaitsServed
<1>4. CASE HandleList(t)
  <2>1. thread[t].op = "list" /\ UNCHANGED <<m_msgReady, failed>>
    BY <1>4 DEF HandleList
  <2>2. DetailsCome'
    <3>1. Busy("details") => Busy("details")'
      BY <1>1, <2>1, StaysBusy
    <3>2. QED
      BY <1>1, <2>1, <3>1 DEF WaitsServed, DetailsCome
  <2>3. ListComes'
    <3>1. CASE thread[t].at = "replied"
      <4>1. thread'[t].op = "list"
        BY <1>4, <2>1, <3>1, PlaceFields DEF HandleList, IInv
      <4>2. QED
        BY <4>1 DEF ListComes, Busy
    <3>2. CASE thread[t].at # "replied"
      BY <1>4, <3>2 DEF HandleList, ListComes
    <3>3. QED
      BY <3>1, <3>2
  <2>4. QED
    BY <2>2, <2>3 DEF WaitsServed
<1>5. CASE HandleDetails(t)
  <2>1. thread[t].op = "details" /\ UNCHANGED <<m_msgDataIsReady, failed>>
    BY <1>5 DEF HandleDetails
  <2>2. ListComes'
    <3>1. Busy("list") => Busy("list")'
      BY <1>1, <2>1, StaysBusy
    <3>2. QED
      BY <1>1, <2>1, <3>1 DEF WaitsServed, ListComes
  <2>3. DetailsCome'
    <3>1. CASE thread[t].at = "replied"
      <4>1. thread'[t].op = "details"
        BY <1>5, <2>1, <3>1, PlaceFields DEF HandleDetails, IInv
      <4>2. QED
        BY <4>1 DEF DetailsCome, Busy
    <3>2. CASE thread[t].at # "replied"
      BY <1>5, <3>2 DEF HandleDetails, DetailsCome
    <3>3. QED
      BY <3>1, <3>2
  <2>4. QED
    BY <2>2, <2>3 DEF WaitsServed
<1>6. CASE HandleUnread(t) \/ HandleForce(t)
  <2>1. thread[t].op \in {"unread", "force"} /\ UNCHANGED <<m_msgDataIsReady, m_msgReady, failed>>
    BY <1>6 DEF HandleUnread, HandleForce
  <2>2. (Busy("list") => Busy("list")') /\ (Busy("details") => Busy("details")')
    BY <1>1, <2>1, StaysBusy
  <2>3. ListComes' /\ DetailsCome'
    BY <1>1, <2>1, <2>2 DEF WaitsServed, ListComes, DetailsCome
  <2>4. QED
    BY <2>3 DEF WaitsServed
<1>7. QED
  BY <1>2, <1>3, <1>4, <1>5, <1>6 DEF Work

LEMMA ServedStep == IInv /\ WaitsServed /\ [Next]_vars => WaitsServed'
<1> SUFFICES ASSUME IInv, WaitsServed, [Next]_vars
             PROVE  WaitsServed'
  OBVIOUS
<1>1. CASE (\E msg \in Msg : Publish(msg)) \/ UNCHANGED vars
  <2>1. UNCHANGED <<thread, asked, m_msgDataIsReady, popups, m_msgReady, failed>>
    BY <1>1 DEF Publish, vars, pageVars, popupVars, serverVars, histVars
  <2>2. (Busy("list") => Busy("list")') /\ (Busy("details") => Busy("details")')
    BY <2>1 DEF Busy
  <2>3. ListComes' /\ DetailsCome'
    BY <2>1, <2>2 DEF WaitsServed, ListComes, DetailsCome
  <2>4. QED
    BY <2>3 DEF WaitsServed
<1>2. QED
  BY <1>1, UIServed, WorkServed DEF Next

\* Every way out of getMsgListByType and of getMsgDetailsById's success takes
\* its spinner away, whatever overlaps: at rest none is left, except that of a
\* popup whose details failed.
THEOREM NoSpinnerStays == Spec => []NoSpinnerLeft
<1>1. Init => WaitsServed
  BY DEF Init, WaitsServed, ListComes, DetailsCome
<1>2. IInv /\ WaitsServed /\ [Next]_vars => WaitsServed'
  BY ServedStep
<1>3. WaitsServed => NoSpinnerLeft
  BY AskFields DEF WaitsServed, ListComes, DetailsCome, NoSpinnerLeft, Quiet, Busy
<1>4. QED
  BY <1>1, <1>2, <1>3, Inductive, PTL DEF Spec
=============================================================================
