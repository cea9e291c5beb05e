---------------------------- MODULE PagesProofs ----------------------------
(***************************************************************************)
(* Proofs about Pages for any accounts, labels, words, editions of the     *)
(* recommended games and number of requests in flight.                     *)
(***************************************************************************)
EXTENDS Pages, SequenceTheorems, TLAPS

\* Recommended games that are on their way were published before, and what is
\* not a query carries an account's token or none.
JobGood(job, last) ==
  /\ job.op = "hot" /\ job.at = "ok" => job.got \in 1..last
  /\ job.op \notin QueryView => job.key \in Account \cup {None}
SignalsOf(last) == {sig \in SignalType : sig.view = "hot" => sig.got \in 1..last}

OnlyPublished ==
  /\ \A t \in Slot : JobGood(thread[t], edition)
  /\ signals \in Seq(SignalsOf(edition))

IInv == TypeOK /\ OnlyPublished

\* The lists behind the tabs begin with those of the first edition, however
\* often it was appended; so the index of a tab finds its own list.
First == Edition[1]
TabsInv ==
  edition = 1 =>
    \/ m_tabTitleList = <<>> /\ m_hotGamesList = <<>>
    \/ /\ m_tabTitleList = First /\ First # <<>>
       /\ tab \in 1..Len(First) /\ hotGames = First[tab] /\ ~m_showLoading
       /\ Len(m_hotGamesList) >= Len(First)
       /\ \A i \in 1..Len(First) : m_hotGamesList[i] = First[i]

\* Who waits for something has a thread, or a signal, that will end the wait.
Waits(op)  == \E t \in Slot : thread[t].op = op
HotSignal  == \E i \in 1..Len(signals) : signals[i].view = "hot"

BannerComes == m_bannerModelIsReady \/ "banner" \in failed \/ Waits("banner")
SignComes ==
  /\ wanted["sign"] # None => m_signDataIsReady \/ Waits("sign")
  /\ m_enableSign # "blank" => m_signDataIsReady
RewardComes == wanted["reward"] # None => m_signRewardIsReady \/ Waits("reward")
GamesCome ==
  m_showLoading => "hot" \in failed \/ Waits("banner") \/ Waits("hot") \/ HotSignal

HangInv == BannerComes /\ SignComes /\ RewardComes /\ GamesCome

\* While lists of signs do not cross, there is one request for them, it carries
\* the token of the account, and what it or the label says of this account is so
\* unless the day or the account changed since it was asked for.
SignOps == {"sign", "post"}
OneSign ==
  \A t, u \in Slot : thread[t].op \in SignOps /\ thread[u].op \in SignOps => t = u
SignToken ==
  \A t \in Slot : thread[t].op = "sign" /\ thread[t].at \in {"sent", "ok"} => thread[t].key = account
SaysTrue ==
  /\ m_enableSign = "signed" => account \in signed
  /\ \A t \in Slot :
       thread[t].op = "sign" /\ thread[t].at = "ok" /\ thread[t].got = 1 => account \in signed

SignGood == OneSign /\ SignToken /\ (~outdated => SaysTrue)
SignInv  == "sign" \notin crossed => SignGood

\* Until a request for v crosses another one, every thread and every signal on
\* its way to v brings what was asked for: the label or word, or the data of the
\* account, which is still the one that asked.
Brings(job, v, acc, want) ==
  /\ v \in QueryView => want = (IF job.op = "labels" THEN FirstLabel ELSE job.key)
  /\ v \notin QueryView =>
       want = acc /\ (job.op # "post" /\ job.at \in {"sent", "ok"} => job.key = acc)

Fitting(v, want) == {sig \in SignalType : sig.view = v => sig.key = want}
Silent(v)        == {sig \in SignalType : sig.view # v}
NoneFor(v) == signals \in Seq(Silent(v)) /\ \A t \in Slot : v \notin Leads(thread[t].op)

ViewGood(v) ==
  /\ \A t \in Slot : v \in Leads(thread[t].op) => Brings(thread[t], v, account, wanted[v])
  /\ signals \in Seq(Fitting(v, wanted[v]))
  /\ NoneFor(v) /\ v \notin failed => shown[v] = wanted[v]

ViewsInv == \A v \in View : v \notin crossed => ViewGood(v)

-----------------------------------------------------------------------------
(* Lemmas about the views and the chain of the tables *)

LEMMA TableNames == TableView = {"order", "redeem", "duration", "game"}
<1>1. DOMAIN Tables = {1, 2, 3, 4}
  BY DEF Tables
<1>2. Tables[1] = "order" /\ Tables[2] = "redeem" /\ Tables[3] = "duration" /\ Tables[4] = "game"
  BY DEF Tables
<1>3. QED
  BY <1>1, <1>2 DEF TableView, Range

LEMMA Positions ==
  /\ Position("order") = 1 /\ Position("redeem") = 2
  /\ Position("duration") = 3 /\ Position("game") = 4
<1>1. Tables[1] = "order" /\ Tables[2] = "redeem" /\ Tables[3] = "duration" /\ Tables[4] = "game"
      /\ Len(Tables) = 4
  BY DEF Tables
<1>2. \A i \in 1..Len(Tables) : i \in {1, 2, 3, 4}
  BY <1>1
<1>3. 1 \in 1..Len(Tables) /\ 2 \in 1..Len(Tables) /\ 3 \in 1..Len(Tables) /\ 4 \in 1..Len(Tables)
  BY <1>1
<1>4. Position("order") = 1
  BY <1>1, <1>2, <1>3 DEF Position
<1>5. Position("redeem") = 2
  BY <1>1, <1>2, <1>3 DEF Position
<1>6. Position("duration") = 3
  BY <1>1, <1>2, <1>3 DEF Position
<1>7. Position("game") = 4
  BY <1>1, <1>2, <1>3 DEF Position
<1>8. QED
  BY <1>4, <1>5, <1>6, <1>7

\* The tables that are yet to be filled.
LEMMA RestOfChain ==
  /\ Rest("order") = {"order", "redeem", "duration", "game"}
  /\ Rest("redeem") = {"redeem", "duration", "game"}
  /\ Rest("duration") = {"duration", "game"}
  /\ Rest("game") = {"game"}
<1>1. Tables[1] = "order" /\ Tables[2] = "redeem" /\ Tables[3] = "duration" /\ Tables[4] = "game"
      /\ Len(Tables) = 4
  BY DEF Tables
<1>2. 1..4 = {1, 2, 3, 4} /\ 2..4 = {2, 3, 4} /\ 3..4 = {3, 4} /\ 4..4 = {4}
  OBVIOUS
<1>3. QED
  BY <1>1, <1>2, Positions DEF Rest

\* HandleTable goes on to the rest of the chain without the table it filled.
LEMMA NextTable ==
  ASSUME NEW v \in TableView, Rest(v) # {v}
  PROVE  /\ Tables[Position(v) + 1] \in TableView
         /\ v \notin Rest(Tables[Position(v) + 1])
         /\ Rest(v) = {v} \cup Rest(Tables[Position(v) + 1])
<1>1. Tables[2] = "redeem" /\ Tables[3] = "duration" /\ Tables[4] = "game"
  BY DEF Tables
<1>2. v \in {"order", "redeem", "duration"}
  BY TableNames, RestOfChain
<1>3. CASE v = "order"
  BY <1>1, <1>3, TableNames, Positions, RestOfChain
<1>4. CASE v = "redeem"
  BY <1>1, <1>4, TableNames, Positions, RestOfChain
<1>5. CASE v = "duration"
  BY <1>1, <1>5, TableNames, Positions, RestOfChain
<1>6. QED
  BY <1>2, <1>3, <1>4, <1>5

LEMMA RestInTables ==
  ASSUME NEW v \in TableView
  PROVE  Rest(v) \subseteq TableView /\ v \in Rest(v)
BY TableNames, RestOfChain

\* Where a request leads to.
LEMMA LeadsTo ==
  /\ \A v \in TableView : Leads(v) = Rest(v)
  /\ Leads("labels") = {"games"}
  /\ Leads("post") = {"sign"}
  /\ Leads("reward") = {"reward", "client"}
  /\ \A op \in {"games", "search", "sign", "promo", "client", "none", "banner", "hot"} :
       Leads(op) = {op}
<1>1. \A op \in {"labels", "post", "reward", "games", "search", "sign", "promo", "client", "none",
                 "banner", "hot"} : op \notin TableView
  BY TableNames
<1>2. QED
  BY <1>1 DEF Leads

LEMMA ViewNames ==
  /\ View = {"games", "search", "sign", "reward", "promo", "client",
             "order", "redeem", "duration", "game"}
  /\ Op = View \cup {"none", "banner", "hot", "labels", "post"}
BY TableNames DEF View, Op, QueryView, OwnView

LEMMA LeadsInOp ==
  ASSUME NEW op \in Op
  PROVE  Leads(op) \subseteq Op
<1>1. CASE op \in TableView
  BY <1>1, LeadsTo, RestInTables, ViewNames, TableNames
<1>2. CASE op \notin TableView
  BY <1>2, LeadsTo, ViewNames, TableNames
<1>3. QED
  BY <1>1, <1>2

-----------------------------------------------------------------------------
(* Lemmas about the slots *)

LEMMA SlotsAfter ==
  ASSUME TypeOK, NEW t \in Slot, NEW j, Becomes(t, j)
  PROVE  thread'[t] = j /\ \A u \in Slot \ {t} : thread'[u] = thread[u]
BY DEF TypeOK, Becomes

LEMMA SlotStep ==
  ASSUME IInv, edition \in Nat, edition' \in Nat, edition <= edition',
         NEW t \in Slot, NEW j \in ThreadType, JobGood(j, edition'),
         Becomes(t, j)
  PROVE  thread' \in [Slot -> ThreadType] /\ \A u \in Slot : JobGood(thread'[u], edition')
<1>1. thread' \in [Slot -> ThreadType]
  BY DEF IInv, TypeOK, Becomes
<1>2. ASSUME NEW u \in Slot
      PROVE  JobGood(thread'[u], edition')
  <2>1. CASE u = t
    BY <2>1, SlotsAfter DEF IInv
  <2>2. CASE u # t
    <3>1. thread'[u] = thread[u]
      BY <2>2, SlotsAfter DEF IInv
    <3>2. JobGood(thread[u], edition)
      BY DEF IInv, OnlyPublished
    <3>3. QED
      BY <3>1, <3>2 DEF JobGood
  <2>3. QED
    BY <2>1, <2>2
<1>3. QED
  BY <1>1, <1>2

LEMMA AskedGood ==
  ASSUME NEW op \in Op, NEW key \in Key, NEW last, op \notin QueryView => key = None
  PROVE  /\ Asked(op, key) \in ThreadType /\ JobGood(Asked(op, key), last)
         /\ Free \in ThreadType /\ JobGood(Free, last)
<1>1. "none" \in Op /\ None \in Key
  BY DEF Op, Key
<1>2. QED
  BY <1>1 DEF Asked, Free, ThreadType, JobGood

LEMMA AskedFields ==
  ASSUME NEW op, NEW key
  PROVE  /\ Asked(op, key).op = op /\ Asked(op, key).at = "asked"
         /\ Asked(op, key).key = key /\ Asked(op, key).got = 0
         /\ Free.op = "none" /\ Free.at = "free"
BY DEF Asked, Free

LEMMA EditionIsNat ==
  ASSUME TypeOK
  PROVE  edition \in Nat /\ edition >= 1 /\ edition <= Len(Edition) /\ Len(Edition) \in Nat
<1>1. Edition \in Seq(Seq(Games))
  BY PagesAssumption
<1>2. Len(Edition) \in Nat
  BY <1>1
<1>3. edition \in 1..Len(Edition)
  BY DEF TypeOK
<1> DEFINE n == Len(Edition)
<1> HIDE DEF n
<1>4. n \in Nat /\ edition \in 1..n => edition \in Nat /\ edition >= 1 /\ edition <= n /\ n \in Nat
  OBVIOUS
<1>5. QED
  BY <1>2, <1>3, <1>4 DEF n

\* A step that replaces a request by another one, or ends it.
LEMMA AskStep ==
  ASSUME IInv, NEW t \in Slot, NEW op \in Op, NEW key \in Key,
         op \notin QueryView => key = None,
         Becomes(t, Asked(op, key)) \/ Becomes(t, Free), edition' = edition
  PROVE  thread' \in [Slot -> ThreadType] /\ \A u \in Slot : JobGood(thread'[u], edition')
<1>1. edition \in Nat /\ edition' \in Nat /\ edition <= edition'
  BY EditionIsNat DEF IInv
<1>2. PICK j \in {Asked(op, key), Free} : Becomes(t, j)
  OBVIOUS
<1>3. j \in ThreadType /\ JobGood(j, edition')
  BY AskedGood
<1>4. QED
  BY <1>1, <1>2, <1>3, SlotStep

\* A signal that is queued.
LEMMA SignalGood ==
  ASSUME NEW view \in Op, NEW key \in Key, NEW got \in Nat, NEW last,
         view = "hot" => got \in 1..last
  PROVE  Signal(view, key, got) \in SignalsOf(last)
BY DEF Signal, SignalType, SignalsOf

LEMMA SignalsTyped ==
  ASSUME NEW last, NEW s \in Seq(SignalsOf(last))
  PROVE  s \in Seq(SignalType)
<1>1. SignalsOf(last) \subseteq SignalType
  BY DEF SignalsOf
<1>2. QED
  BY <1>1, SeqMonotonic

LEMMA ActsStep ==
  ASSUME TypeOK, UserActs
  PROVE  acts' \in 0..MaxActs
<1>1. MaxActs \in Nat
  BY PagesAssumption
<1>2. acts \in 0..MaxActs /\ acts < MaxActs /\ acts' = acts + 1
  BY DEF TypeOK, UserActs
<1>3. QED
  BY <1>1, <1>2

LEMMA WantsStep ==
  ASSUME TypeOK, NEW op \in Op, NEW key \in Key, Wants(op, key)
  PROVE  wanted' \in [View -> Key] /\ crossed' \subseteq View /\ failed' \subseteq Op
<1>1. wanted' \in [View -> Key]
  BY DEF TypeOK, Wants
<1>2. crossed' \subseteq View /\ failed' \subseteq Op
  BY DEF TypeOK, Wants
<1>3. QED
  BY <1>1, <1>2

LEMMA Keys ==
  /\ Account \subseteq Key /\ Label \subseteq Key /\ Word \subseteq Key
  /\ None \in Key /\ FirstLabel \in Key
BY PagesAssumption DEF Key

LEMMA InitInv == Init => IInv
<1> SUFFICES ASSUME Init
             PROVE  IInv
  OBVIOUS
<1>1. "banner" \in Op /\ None \in Key
  BY DEF Op, Key
<1>2. thread \in [Slot -> ThreadType] /\ \A t \in Slot : JobGood(thread[t], edition)
  <2>1. PICK t \in Slot : thread = [s \in Slot |-> IF s = t THEN Asked("banner", None) ELSE Free]
    BY DEF Init
  <2>2. /\ Asked("banner", None) \in ThreadType /\ JobGood(Asked("banner", None), edition)
        /\ Free \in ThreadType /\ JobGood(Free, edition)
    BY <1>1, AskedGood
  <2>3. QED
    BY <2>1, <2>2
<1>3. m_tabTitleList \in Seq(Games) /\ m_hotGamesList \in Seq(Games) /\ signals \in Seq(SignalType)
      /\ signals \in Seq(SignalsOf(edition))
  <2>1. m_tabTitleList = <<>> /\ m_hotGamesList = <<>> /\ signals = <<>>
    BY DEF Init
  <2>2. QED
    BY <2>1, EmptySeq
<1>4. edition \in 1..Len(Edition)
  <2>1. Edition \in Seq(Seq(Games)) /\ Edition # <<>>
    BY PagesAssumption
  <2>2. Len(Edition) \in Nat \ {0}
    BY <2>1, EmptySeq
  <2>3. edition = 1
    BY DEF Init
  <2> DEFINE n == Len(Edition)
  <2> HIDE DEF n
  <2>4. n \in Nat \ {0} => 1 \in 1..n
    OBVIOUS
  <2>5. QED
    BY <2>2, <2>3, <2>4 DEF n
<1>5. acts \in 0..MaxActs
  <2>1. MaxActs \in Nat
    BY PagesAssumption
  <2>2. acts = 0
    BY DEF Init
  <2>3. QED
    BY <2>1, <2>2
<1>6. shown \in [View -> Key] /\ wanted \in [View -> Key]
  BY <1>1 DEF Init
<1>7. /\ account \in Account \cup {None} /\ tab \in Nat \ {0} /\ hotGames \in Games \cup {None}
      /\ m_enableSign \in {"blank", "signed", "unsigned"}
      /\ signed \subseteq Account /\ crossed \subseteq View /\ failed \subseteq Op
  BY DEF Init
<1>8. /\ m_bannerModelIsReady \in BOOLEAN /\ m_signDataIsReady \in BOOLEAN
      /\ m_signRewardIsReady \in BOOLEAN /\ m_showLoading \in BOOLEAN /\ outdated \in BOOLEAN
  BY Zenon DEF Init
<1>9. TypeOK
  BY <1>2, <1>3, <1>4, <1>5, <1>6, <1>7, <1>8 DEF TypeOK
<1>10. QED
  BY <1>2, <1>3, <1>9 DEF IInv, OnlyPublished

-----------------------------------------------------------------------------
(* The user's steps *)

LEMMA AsksInv ==
  ASSUME IInv, NEW t \in Slot, NEW op \in Op, NEW key \in Key, Asks(t, op, key)
  PROVE  IInv'
<1>1. edition' = edition
  BY DEF Asks, serverVars
<1>2. thread' \in [Slot -> ThreadType] /\ \A u \in Slot : JobGood(thread'[u], edition')
  <2> DEFINE k == IF op \in QueryView THEN key ELSE None
  <2>1. k \in Key /\ Becomes(t, Asked(op, k)) /\ (op \notin QueryView => k = None)
    BY Keys DEF Asks
  <2> HIDE DEF k
  <2>2. QED
    BY <1>1, <2>1, AskStep
<1>3. wanted' \in [View -> Key] /\ crossed' \subseteq View /\ failed' \subseteq Op
  BY WantsStep DEF Asks, IInv
<1>4. acts' \in 0..MaxActs
  BY ActsStep DEF Asks, IInv
<1>5. TypeOK'
  BY <1>2, <1>3, <1>4 DEF Asks, IInv, TypeOK, homeVars, signVars, serverVars
<1>6. OnlyPublished'
  BY <1>1, <1>2 DEF Asks, IInv, OnlyPublished
<1>7. QED
  BY <1>5, <1>6 DEF IInv

\* Whatever the user asks for is a request for a view with a key.
LEMMA UserAsksIsAsk ==
  ASSUME NEW t \in Slot, UserAsks(t), TypeOK
  PROVE  \/ getBannerData(t)
         \/ \E op \in View \cup {"labels", "post"}, key \in Key :
              /\ Asks(t, op, key)
              /\ op = "labels" => key = FirstLabel
              /\ op \notin QueryView \cup {"labels"} => key = account /\ account # None
              /\ op = "post" => m_enableSign = "unsigned"
<1> USE Keys, ViewNames DEF QueryView
<1>1. account \in Key
  BY DEF TypeOK
<1>2. CASE getBannerData(t)
  BY <1>2
<1>3. CASE getAllGameLabel(t)
  BY <1>3 DEF getAllGameLabel
<1>4. ASSUME NEW label \in Label, getGameListByLabel(t, label)
      PROVE  Asks(t, "games", label) /\ label \in Key
  BY <1>4 DEF getGameListByLabel
<1>5. ASSUME NEW word \in Word, gameSearch(t, word) \/ homeSearch(t, word)
      PROVE  (Asks(t, "games", word) \/ Asks(t, "search", word)) /\ word \in Key
  BY <1>5 DEF gameSearch, homeSearch
<1>6. CASE getSigninList(t)
  BY <1>1, <1>6 DEF getSigninList
<1>7. CASE postSignin(t)
  BY <1>1, <1>7 DEF postSignin
<1>8. CASE getSignReward(t)
  BY <1>1, <1>8 DEF getSignReward
<1>9. CASE getPromoCode(t)
  BY <1>1, <1>9 DEF getPromoCode
<1>10. CASE getOrderList(t)
  BY <1>1, <1>10 DEF getOrderList
<1>11. QED
  BY <1>2, <1>3, <1>4, <1>5, <1>6, <1>7, <1>8, <1>9, <1>10 DEF UserAsks

LEMMA UserInv == ASSUME IInv, NEW t \in Slot, UserAsks(t) PROVE IInv'
<1>1. CASE getBannerData(t)
  BY <1>1, AsksInv, Keys, ViewNames DEF getBannerData
<1>2. ASSUME NEW op \in View \cup {"labels", "post"}, NEW key \in Key, Asks(t, op, key)
      PROVE  IInv'
  <2>1. op \in Op
    BY ViewNames
  <2>2. QED
    BY <1>2, <2>1, AsksInv
<1>3. QED
  BY <1>1, <1>2, UserAsksIsAsk DEF IInv

LEMMA SelectInv ==
  ASSUME IInv, NEW i \in 1..Len(m_tabTitleList), SelectIndex(i)
  PROVE  IInv'
<1>1. Len(m_tabTitleList) \in Nat /\ Len(m_hotGamesList) \in Nat
  <2>1. m_tabTitleList \in Seq(Games) /\ m_hotGamesList \in Seq(Games)
    BY DEF IInv, TypeOK
  <2>2. QED
    BY <2>1
<1>2. tab' \in Nat \ {0}
  BY <1>1 DEF SelectIndex
<1>3. hotGames' \in Games \cup {None} /\ m_showLoading' \in BOOLEAN
  <2>1. CASE i > Len(m_hotGamesList)
    BY <2>1 DEF SelectIndex, IInv, TypeOK
  <2>2. CASE ~(i > Len(m_hotGamesList))
    <3>1. i \in 1..Len(m_hotGamesList)
      BY <1>1, <2>2
    <3>2. m_hotGamesList[i] \in Games
      BY <3>1, ElementOfSeq DEF IInv, TypeOK
    <3>3. hotGames' = m_hotGamesList[i] /\ m_showLoading' = FALSE
      BY <2>2 DEF SelectIndex
    <3>4. QED
      BY <3>2, <3>3
  <2>3. QED
    BY <2>1, <2>2
<1>4. TypeOK'
  BY <1>2, <1>3 DEF SelectIndex, IInv, TypeOK, signVars, serverVars, history
<1>5. OnlyPublished'
  BY DEF SelectIndex, IInv, OnlyPublished, serverVars
<1>6. QED
  BY <1>4, <1>5 DEF IInv

LEMMA ChangeInv ==
  ASSUME IInv, NEW a \in Account \cup {None}, ChangeAccount(a)
  PROVE  IInv'
<1>1. acts' \in 0..MaxActs
  BY ActsStep DEF ChangeAccount, IInv, TypeOK
<1>2. crossed' \subseteq View
  BY DEF ChangeAccount, IInv, TypeOK, View
<1>3. TypeOK'
  BY <1>1, <1>2 DEF ChangeAccount, IInv, TypeOK, homeVars, signVars, serverVars
<1>4. OnlyPublished'
  BY DEF ChangeAccount, IInv, OnlyPublished, serverVars
<1>5. QED
  BY <1>3, <1>4 DEF IInv

-----------------------------------------------------------------------------
(* The threads' steps *)

\* A reply, or the start of a request, keeps the fields it does not set.
LEMMA StartFields ==
  ASSUME TypeOK, NEW t \in Slot, Start(t)
  PROVE  /\ thread'[t].op = thread[t].op /\ thread'[t].at = "sent"
         /\ thread'[t].got = thread[t].got
         /\ thread'[t].key = (IF thread[t].op \in QueryView THEN thread[t].key ELSE account)
         /\ thread'[t] \in ThreadType
         /\ \A u \in Slot \ {t} : thread'[u] = thread[u]
<1> DEFINE k == IF thread[t].op \in QueryView THEN thread[t].key ELSE account
<1>1. thread[t] \in ThreadType /\ account \in Key
  BY DEF TypeOK, Key
<1>2. Becomes(t, [thread[t] EXCEPT !.at = "sent", !.key = k])
  BY <1>1 DEF Start, ThreadType
<1>3. k \in Key
  BY <1>1 DEF ThreadType
<1>4. thread'[t] = [thread[t] EXCEPT !.at = "sent", !.key = k]
      /\ \A u \in Slot \ {t} : thread'[u] = thread[u]
  BY <1>2, SlotsAfter
<1> HIDE DEF k
<1>5. /\ thread'[t].op = thread[t].op /\ thread'[t].at = "sent" /\ thread'[t].key = k
      /\ thread'[t].got = thread[t].got /\ thread'[t] \in ThreadType
  BY <1>1, <1>3, <1>4 DEF ThreadType
<1>6. QED
  BY <1>4, <1>5 DEF k

LEMMA ServeFields ==
  ASSUME IInv, NEW t \in Slot, Serve(t)
  PROVE  /\ thread'[t].op = thread[t].op /\ thread'[t].at = "ok"
         /\ thread'[t].key = thread[t].key
         /\ thread[t].op = "hot" => thread'[t].got = edition
         /\ thread[t].op = "sign" /\ thread'[t].got = 1 => thread[t].key \in signed
         /\ thread'[t] \in ThreadType
         /\ \A u \in Slot \ {t} : thread'[u] = thread[u]
<1> DEFINE g == CASE thread[t].op = "hot" -> edition
                  [] thread[t].op = "sign" /\ thread[t].key \in signed -> 1
                  [] OTHER -> 0
<1>1. thread[t] \in ThreadType /\ edition \in Nat
  BY EditionIsNat DEF IInv, TypeOK
<1>2. Becomes(t, [thread[t] EXCEPT !.at = "ok", !.got = g])
  BY DEF Serve
<1>3. /\ g \in Nat /\ (thread[t].op = "hot" => g = edition)
      /\ thread[t].op = "sign" /\ g = 1 => thread[t].key \in signed
  BY <1>1
<1>4. thread'[t] = [thread[t] EXCEPT !.at = "ok", !.got = g]
      /\ \A u \in Slot \ {t} : thread'[u] = thread[u]
  BY <1>2, SlotsAfter DEF IInv
<1> HIDE DEF g
<1>5. /\ thread'[t].op = thread[t].op /\ thread'[t].at = "ok" /\ thread'[t].key = thread[t].key
      /\ thread'[t].got = g /\ thread'[t] \in ThreadType
  BY <1>1, <1>3, <1>4 DEF ThreadType
<1>6. QED
  BY <1>3, <1>4, <1>5

\* A slot whose new job is known by its fields.
LEMMA FieldStep ==
  ASSUME IInv, NEW t \in Slot, NEW j, Becomes(t, j), edition' = edition,
         thread'[t] \in ThreadType, JobGood(thread'[t], edition')
  PROVE  thread' \in [Slot -> ThreadType] /\ \A u \in Slot : JobGood(thread'[u], edition')
<1>1. thread'[t] = j
  BY SlotsAfter DEF IInv
<1>2. edition \in Nat /\ edition' \in Nat /\ edition <= edition'
  BY EditionIsNat DEF IInv
<1>3. QED
  BY <1>1, <1>2, SlotStep

LEMMA StartInv == ASSUME IInv, NEW t \in Slot, Start(t) PROVE IInv'
<1>1. edition' = edition
  BY DEF Start, serverVars
<1>2. thread' \in [Slot -> ThreadType] /\ \A u \in Slot : JobGood(thread'[u], edition')
  <2>1. thread'[t] \in ThreadType /\ JobGood(thread'[t], edition')
    BY StartFields DEF JobGood, IInv, TypeOK
  <2>2. QED
    BY <1>1, <2>1, FieldStep DEF Start
<1>3. /\ m_bannerModelIsReady' \in BOOLEAN /\ m_signDataIsReady' \in BOOLEAN
      /\ m_signRewardIsReady' \in BOOLEAN /\ outdated' \in BOOLEAN
  BY DEF Start
<1>4. m_enableSign' \in {"blank", "signed", "unsigned"}
  BY DEF Start, IInv, TypeOK
<1>5. TypeOK'
  BY <1>2, <1>3, <1>4 DEF Start, IInv, TypeOK, serverVars
<1>6. OnlyPublished'
  BY <1>1, <1>2 DEF Start, IInv, OnlyPublished
<1>7. QED
  BY <1>5, <1>6 DEF IInv

LEMMA ServeInv == ASSUME IInv, NEW t \in Slot, Serve(t) PROVE IInv'
<1>1. edition' = edition
  BY DEF Serve
<1>2. thread' \in [Slot -> ThreadType] /\ \A u \in Slot : JobGood(thread'[u], edition')
  <2>1. thread'[t] \in ThreadType /\ JobGood(thread'[t], edition')
    BY <1>1, ServeFields, EditionIsNat DEF JobGood, IInv, OnlyPublished
  <2>2. QED
    BY <1>1, <2>1, FieldStep DEF Serve
<1>3. signed' \subseteq Account
  <2>1. thread[t].op = "post" => thread[t].key \in Account
    BY DEF Serve, IInv, OnlyPublished, JobGood, QueryView
  <2>2. QED
    BY <2>1 DEF Serve, IInv, TypeOK
<1>4. TypeOK'
  BY <1>2, <1>3 DEF Serve, IInv, TypeOK, homeVars, signVars, history
<1>5. OnlyPublished'
  BY <1>1, <1>2 DEF Serve, IInv, OnlyPublished
<1>6. QED
  BY <1>4, <1>5 DEF IInv

\* A slot that turns to another request of its chain, or ends.
LEMMA GoesOnStep ==
  ASSUME IInv, NEW t \in Slot, edition' = edition,
         NEW op \in {"banner", "hot", "games", "sign", "client"} \cup TableView,
         NEW key \in {None, FirstLabel}, op # "games" => key = None,
         Becomes(t, Asked(op, key)) \/ Becomes(t, Free)
  PROVE  thread' \in [Slot -> ThreadType] /\ \A u \in Slot : JobGood(thread'[u], edition')
<1>1. op \in Op /\ key \in Key /\ (op \notin QueryView => key = None)
  BY Keys, ViewNames DEF QueryView, View
<1>2. QED
  BY <1>1, AskStep

LEMMA EndsStep ==
  ASSUME IInv, NEW t \in Slot, edition' = edition, Becomes(t, Free)
  PROVE  thread' \in [Slot -> ThreadType] /\ \A u \in Slot : JobGood(thread'[u], edition')
<1>1. "banner" \in {"banner", "hot", "games", "sign", "client"} \cup TableView
  OBVIOUS
<1>2. QED
  BY <1>1, GoesOnStep

LEMMA OpTyped ==
  ASSUME IInv, NEW t \in Slot
  PROVE  thread[t].op \in Op /\ thread[t].key \in Key /\ thread[t].got \in Nat
BY DEF IInv, TypeOK, ThreadType

LEMMA SpinnerStep ==
  ASSUME IInv, NEW op \in Op, EndsSpinner(op)
  PROVE  /\ m_signDataIsReady' \in BOOLEAN /\ m_signRewardIsReady' \in BOOLEAN
         /\ m_enableSign' \in {"blank", "signed", "unsigned"} /\ failed' \subseteq Op
<1>1. m_signDataIsReady' \in BOOLEAN /\ m_signRewardIsReady' \in BOOLEAN
  BY DEF EndsSpinner
<1>2. m_enableSign' \in {"blank", "signed", "unsigned"}
  BY DEF EndsSpinner, IInv, TypeOK
<1>3. failed' \subseteq Op
  BY LeadsInOp DEF EndsSpinner, IInv, TypeOK
<1>4. QED
  BY <1>1, <1>2, <1>3

LEMMA FailInv == ASSUME IInv, NEW t \in Slot, Fail(t) PROVE IInv'
<1>1. edition' = edition
  BY DEF Fail, serverVars
<1>2. thread' \in [Slot -> ThreadType] /\ \A u \in Slot : JobGood(thread'[u], edition')
  <2>1. Becomes(t, Asked("banner", None)) \/ Becomes(t, Free)
    BY DEF Fail
  <2>2. QED
    BY <1>1, <2>1, GoesOnStep
<1>3. /\ m_signDataIsReady' \in BOOLEAN /\ m_signRewardIsReady' \in BOOLEAN
      /\ m_enableSign' \in {"blank", "signed", "unsigned"} /\ failed' \subseteq Op
  <2>1. CASE thread[t].op = "banner"
    BY <2>1 DEF Fail, signVars, IInv, TypeOK
  <2>2. CASE thread[t].op # "banner"
    BY <2>2, SpinnerStep, OpTyped DEF Fail
  <2>3. QED
    BY <2>1, <2>2
<1>4. TypeOK'
  BY <1>2, <1>3 DEF Fail, IInv, TypeOK, homeVars, serverVars
<1>5. OnlyPublished'
  BY <1>1, <1>2 DEF Fail, IInv, OnlyPublished
<1>6. QED
  BY <1>4, <1>5 DEF IInv

LEMMA RefuseInv == ASSUME IInv, NEW t \in Slot, Refuse(t) PROVE IInv'
<1>1. edition' = edition
  BY DEF Refuse, serverVars
<1>2. thread' \in [Slot -> ThreadType] /\ \A u \in Slot : JobGood(thread'[u], edition')
  <2>1. Becomes(t, Asked("hot", None)) \/ Becomes(t, Free)
    BY DEF Refuse
  <2>2. QED
    BY <1>1, <2>1, GoesOnStep
<1>3. /\ m_signDataIsReady' \in BOOLEAN /\ m_signRewardIsReady' \in BOOLEAN
      /\ m_enableSign' \in {"blank", "signed", "unsigned"} /\ failed' \subseteq Op
  BY SpinnerStep, OpTyped DEF Refuse
<1>4. m_bannerModelIsReady' \in BOOLEAN
  BY DEF Refuse
<1>5. TypeOK'
  BY <1>2, <1>3, <1>4 DEF Refuse, IInv, TypeOK, serverVars
<1>6. OnlyPublished'
  BY <1>1, <1>2 DEF Refuse, IInv, OnlyPublished
<1>7. QED
  BY <1>5, <1>6 DEF IInv

\* A reply that is queued for the UI thread.
LEMMA QueueStep ==
  ASSUME IInv, NEW view \in Op, NEW key \in Key, NEW got \in Nat,
         view = "hot" => got \in 1..edition,
         Queue(Signal(view, key, got)), edition' = edition
  PROVE  signals' \in Seq(SignalType) /\ signals' \in Seq(SignalsOf(edition'))
<1>1. Signal(view, key, got) \in SignalsOf(edition)
  BY SignalGood
<1>2. signals' \in Seq(SignalsOf(edition))
  BY <1>1, AppendProperties DEF Queue, IInv, OnlyPublished
<1>3. QED
  BY <1>2, SignalsTyped

LEMMA ShowsStep ==
  ASSUME IInv, NEW v \in View, NEW key \in Key, Shows(v, key)
  PROVE  shown' \in [View -> Key]
BY DEF IInv, TypeOK, Shows

LEMMA WorkerInv == ASSUME IInv, NEW t \in Slot, Worker(t) PROVE IInv'
<1> USE DEF homeVars, signVars, serverVars, history
<1> DEFINE Keeps == thread' \in [Slot -> ThreadType]
                    /\ \A u \in Slot : JobGood(thread'[u], edition')
<1>1. CASE HandleBanner(t)
  <2>1. edition' = edition /\ m_bannerModelIsReady' \in BOOLEAN
    BY <1>1 DEF HandleBanner
  <2>2. Keeps
    BY <1>1, <2>1, GoesOnStep DEF HandleBanner
  <2>3. QED
    BY <1>1, <2>1, <2>2 DEF HandleBanner, IInv, TypeOK, OnlyPublished
<1>2. CASE HandleLabels(t)
  <2>1. Keeps /\ edition' = edition
    BY <1>2, GoesOnStep DEF HandleLabels
  <2>2. QED
    BY <1>2, <2>1 DEF HandleLabels, IInv, TypeOK, OnlyPublished
<1>3. CASE HandleGames(t)
  <2>1. Keeps /\ edition' = edition
    BY <1>3, EndsStep DEF HandleGames
  <2>2. thread[t].op = "hot" => thread[t].got \in 1..edition
    BY <1>3 DEF HandleGames, Handle, IInv, OnlyPublished, JobGood
  <2>3. signals' \in Seq(SignalType) /\ signals' \in Seq(SignalsOf(edition'))
    BY <1>3, <2>1, <2>2, OpTyped, QueueStep DEF HandleGames
  <2>4. QED
    BY <1>3, <2>1, <2>3 DEF HandleGames, IInv, TypeOK, OnlyPublished
<1>4. CASE HandleSign(t)
  <2>1. Keeps /\ edition' = edition
    BY <1>4, EndsStep DEF HandleSign
  <2>2. signals' \in Seq(SignalType) /\ signals' \in Seq(SignalsOf(edition'))
    BY <1>4, <2>1, OpTyped, QueueStep, ViewNames DEF HandleSign
  <2>3. m_signDataIsReady' \in BOOLEAN /\ m_enableSign' \in {"blank", "signed", "unsigned"}
    BY <1>4 DEF HandleSign, IInv, TypeOK
  <2>4. QED
    BY <1>4, <2>1, <2>2, <2>3 DEF HandleSign, IInv, TypeOK, OnlyPublished
<1>5. CASE HandlePost(t)
  <2>1. Keeps /\ edition' = edition
    BY <1>5, GoesOnStep DEF HandlePost
  <2>2. QED
    BY <1>5, <2>1 DEF HandlePost, IInv, TypeOK, OnlyPublished
<1>6. CASE HandleReward(t)
  <2>1. Keeps /\ edition' = edition
    BY <1>6, GoesOnStep DEF HandleReward
  <2>2. signals' \in Seq(SignalType) /\ signals' \in Seq(SignalsOf(edition'))
    BY <1>6, <2>1, OpTyped, QueueStep, ViewNames DEF HandleReward
  <2>3. m_signRewardIsReady' \in BOOLEAN
    BY <1>6 DEF HandleReward
  <2>4. QED
    BY <1>6, <2>1, <2>2, <2>3 DEF HandleReward, IInv, TypeOK, OnlyPublished
<1>7. CASE HandleMember(t)
  <2>1. Keeps /\ edition' = edition
    BY <1>7, EndsStep DEF HandleMember
  <2>2. shown' \in [View -> Key]
    BY <1>7, OpTyped, ShowsStep, ViewNames DEF HandleMember, Handle
  <2>3. QED
    BY <1>7, <2>1, <2>2 DEF HandleMember, IInv, TypeOK, OnlyPublished
<1>8. CASE HandleTable(t)
  <2>1. Keeps /\ edition' = edition
    <3>1. CASE Rest(thread[t].op) = {thread[t].op}
      BY <1>8, <3>1, EndsStep DEF HandleTable
    <3>2. CASE Rest(thread[t].op) # {thread[t].op}
      <4>1. Tables[Position(thread[t].op) + 1] \in TableView
        BY <1>8, <3>2, NextTable DEF HandleTable
      <4>2. QED
        BY <1>8, <3>2, <4>1, GoesOnStep DEF HandleTable
    <3>3. QED
      BY <3>1, <3>2
  <2>2. shown' \in [View -> Key]
    BY <1>8, OpTyped, ShowsStep DEF HandleTable, View
  <2>3. QED
    BY <1>8, <2>1, <2>2 DEF HandleTable, IInv, TypeOK, OnlyPublished
<1>9. QED
  BY <1>1, <1>2, <1>3, <1>4, <1>5, <1>6, <1>7, <1>8, StartInv DEF Worker

-----------------------------------------------------------------------------
(* The steps of the UI thread and of the service *)

LEMMA TakenStep ==
  ASSUME IInv, NEW views, NextSignal(views)
  PROVE  /\ Head(signals) \in SignalsOf(edition) /\ Head(signals).view \in views
         /\ signals' \in Seq(SignalsOf(edition)) /\ signals' \in Seq(SignalType)
<1>1. signals # <<>> /\ signals' = Tail(signals) /\ Head(signals).view \in views
  BY DEF NextSignal
<1>2. Head(signals) \in SignalsOf(edition) /\ Tail(signals) \in Seq(SignalsOf(edition))
  BY <1>1, HeadTailProperties DEF IInv, OnlyPublished
<1>3. QED
  BY <1>1, <1>2, SignalsTyped

LEMMA EditionTyped ==
  ASSUME IInv, NEW k \in 1..edition
  PROVE  Edition[k] \in Seq(Games)
<1>1. Edition \in Seq(Seq(Games))
  BY PagesAssumption
<1>2. edition \in Nat /\ edition <= Len(Edition) /\ Len(Edition) \in Nat
  BY EditionIsNat DEF IInv
<1> DEFINE n == Len(Edition)
<1> HIDE DEF n
<1>3. n \in Nat /\ edition \in Nat /\ edition <= n => k \in 1..n
  OBVIOUS
<1>4. k \in 1..Len(Edition)
  BY <1>2, <1>3 DEF n
<1>5. QED
  BY <1>1, <1>4, ElementOfSeq

LEMMA OnHotInv == IInv /\ OnHot => IInv'
<1> SUFFICES ASSUME IInv, OnHot
             PROVE  IInv'
  OBVIOUS
<1> USE DEF homeVars, signVars, serverVars, history
<1>1. Head(signals) \in SignalsOf(edition) /\ Head(signals).view = "hot"
      /\ signals' \in Seq(SignalsOf(edition)) /\ signals' \in Seq(SignalType)
  BY TakenStep DEF OnHot
<1>2. Head(signals).got \in 1..edition
  BY <1>1 DEF SignalsOf
<1>3. m_tabTitleList' \in Seq(Games)
  BY <1>2, EditionTyped DEF OnHot
<1>4. m_hotGamesList' \in Seq(Games)
  <2>1. m_hotGamesList \in Seq(Games) /\ Edition[Head(signals).got] \in Seq(Games)
    BY <1>2, EditionTyped DEF IInv, TypeOK
  <2>2. m_hotGamesList' = m_hotGamesList \o Edition[Head(signals).got]
    BY DEF OnHot
  <2>3. QED
    BY <2>1, <2>2, ConcatProperties
<1>5. hotGames' \in Games \cup {None} /\ m_showLoading' \in BOOLEAN
  <2>1. CASE m_hotGamesList' = <<>>
    BY <2>1 DEF OnHot, IInv, TypeOK
  <2>2. CASE m_hotGamesList' # <<>>
    <3>1. hotGames' = m_hotGamesList'[1] /\ m_showLoading' = FALSE
      BY <2>2 DEF OnHot
    <3>2. m_hotGamesList'[1] \in Games
      BY <1>4, <2>2, EmptySeq, ElementOfSeq
    <3>3. QED
      BY <3>1, <3>2
  <2>3. QED
    BY <2>1, <2>2
<1>6. tab' \in Nat \ {0}
  BY DEF OnHot
<1>7. TypeOK'
  BY <1>1, <1>3, <1>4, <1>5, <1>6 DEF OnHot, IInv, TypeOK
<1>8. OnlyPublished'
  BY <1>1 DEF OnHot, IInv, OnlyPublished
<1>9. QED
  BY <1>7, <1>8 DEF IInv

LEMMA OnListInv == IInv /\ OnList => IInv'
<1> SUFFICES ASSUME IInv, OnList
             PROVE  IInv'
  OBVIOUS
<1> USE DEF homeVars, signVars, serverVars, history
<1>1. Head(signals) \in SignalsOf(edition) /\ Head(signals).view \in View
      /\ signals' \in Seq(SignalsOf(edition)) /\ signals' \in Seq(SignalType)
  BY TakenStep DEF OnList
<1>2. Head(signals).key \in Key
  BY <1>1 DEF SignalsOf, SignalType
<1>3. shown' \in [View -> Key]
  BY <1>1, <1>2, ShowsStep DEF OnList
<1>4. TypeOK'
  BY <1>1, <1>3 DEF OnList, IInv, TypeOK
<1>5. OnlyPublished'
  BY <1>1 DEF OnList, IInv, OnlyPublished
<1>6. QED
  BY <1>4, <1>5 DEF IInv

LEMMA PublishInv == IInv /\ Publish => IInv'
<1> SUFFICES ASSUME IInv, Publish
             PROVE  IInv'
  OBVIOUS
<1> USE DEF homeVars, signVars, serverVars, history
<1>1. edition \in Nat /\ edition >= 1 /\ Len(Edition) \in Nat
  BY EditionIsNat DEF IInv
<1>2. edition' = edition + 1 /\ edition < Len(Edition)
  BY DEF Publish
<1> DEFINE n == Len(Edition)
<1> HIDE DEF n
<1>3. edition < n /\ n \in Nat => edition + 1 \in 1..n
  BY <1>1
<1>4. edition' \in 1..Len(Edition)
  BY <1>1, <1>2, <1>3 DEF n
<1>5. 1..edition \subseteq 1..edition'
  BY <1>1, <1>2
<1>6. \A u \in Slot : JobGood(thread'[u], edition')
  BY <1>5 DEF Publish, IInv, OnlyPublished, JobGood
<1>7. signals' \in Seq(SignalsOf(edition'))
  <2>1. SignalsOf(edition) \subseteq SignalsOf(edition')
    BY <1>5 DEF SignalsOf
  <2>2. QED
    BY <2>1, SeqMonotonic DEF Publish, IInv, OnlyPublished
<1>8. TypeOK'
  BY <1>4 DEF Publish, IInv, TypeOK
<1>9. QED
  BY <1>6, <1>7, <1>8 DEF IInv, OnlyPublished

LEMMA StepInv == IInv /\ [Next]_vars => IInv'
<1> SUFFICES ASSUME IInv, [Next]_vars
             PROVE  IInv'
  OBVIOUS
<1> USE DEF homeVars, signVars, serverVars, history
<1>1. CASE UNCHANGED vars
  BY <1>1 DEF IInv, TypeOK, OnlyPublished, vars
<1>2. CASE Midnight
  BY <1>2 DEF Midnight, IInv, TypeOK, OnlyPublished
<1>3. QED
  BY <1>1, <1>2, UserInv, WorkerInv, ServeInv, FailInv, RefuseInv, SelectInv, ChangeInv,
     OnHotInv, OnListInv, PublishInv DEF Next, UI

\* The inductive invariant: recommended games on their way are of a published
\* edition, and what is not a query carries an account's token.
THEOREM Inductive == Spec => []IInv
<1>1. Init => IInv
  BY InitInv
<1>2. IInv /\ [Next]_vars => IInv'
  BY StepInv
<1>3. QED
  BY <1>1, <1>2, PTL DEF Spec

\* The types of the variables; among them that no tab has the index 0 and that
\* only accounts have signed in.
THEOREM TypesOK == Spec => []TypeOK
<1>1. IInv => TypeOK
  BY DEF IInv
<1>2. QED
  BY <1>1, Inductive, PTL

-----------------------------------------------------------------------------
(* The tabs of the recommended games *)

\* What leaves the tabs alone.
LEMMA TabsKept ==
  ASSUME TabsInv, UNCHANGED <<m_tabTitleList, m_hotGamesList, tab, hotGames, m_showLoading, edition>>
  PROVE  TabsInv'
BY DEF TabsInv, First

LEMMA FirstTyped ==
  ASSUME IInv
  PROVE  First \in Seq(Games) /\ Len(First) \in Nat /\ (First # <<>> => 1 \in 1..Len(First))
<1>1. 1 \in 1..edition
  BY EditionIsNat DEF IInv
<1>2. First \in Seq(Games)
  BY <1>1, EditionTyped DEF First
<1>3. Len(First) \in Nat /\ (First # <<>> => Len(First) \in Nat \ {0})
  BY <1>2, EmptySeq
<1> DEFINE n == Len(First)
<1> HIDE DEF n
<1>4. n \in Nat \ {0} => 1 \in 1..n
  OBVIOUS
<1>5. QED
  BY <1>2, <1>3, <1>4 DEF n

LEMMA OnHotTabs == IInv /\ TabsInv /\ OnHot => TabsInv'
<1> SUFFICES ASSUME IInv, TabsInv, OnHot, edition' = 1
             PROVE  TabsInv'
  BY DEF TabsInv
<1>1. edition = 1
  BY DEF OnHot, serverVars
<1>2. Head(signals).got = 1
  <2>1. Head(signals) \in SignalsOf(1) /\ Head(signals).view = "hot"
    BY <1>1, TakenStep DEF OnHot
  <2>2. Head(signals).got \in 1..1
    BY <2>1 DEF SignalsOf
  <2>3. QED
    BY <2>2
<1>3. /\ m_tabTitleList' = First /\ m_hotGamesList' = m_hotGamesList \o First /\ tab' = 1
      /\ m_hotGamesList' # <<>> => hotGames' = m_hotGamesList'[1] /\ m_showLoading' = FALSE
  BY <1>2 DEF OnHot, First
<1>4. m_hotGamesList \in Seq(Games) /\ First \in Seq(Games) /\ Len(First) \in Nat
  BY FirstTyped DEF IInv, TypeOK
<1>5. First' = First
  BY DEF First
<1>6. CASE First = <<>>
  <2>1. m_tabTitleList = <<>> /\ m_hotGamesList = <<>>
    BY <1>1, <1>6 DEF TabsInv
  <2>2. m_tabTitleList' = <<>> /\ m_hotGamesList' = <<>>
    BY <1>3, <1>4, <1>6, <2>1, ConcatEmptySeq
  <2>3. QED
    BY <2>2 DEF TabsInv
<1>7. CASE First # <<>>
  <2>1. Len(m_hotGamesList') >= Len(First) /\ \A i \in 1..Len(First) : m_hotGamesList'[i] = First[i]
    <3>1. CASE m_hotGamesList = <<>>
      <4>1. m_hotGamesList' = First
        BY <1>3, <1>4, <3>1, ConcatEmptySeq
      <4>2. QED
        BY <1>4, <4>1
    <3>2. CASE m_hotGamesList # <<>>
      <4> DEFINE n == Len(First)
                 m == Len(m_hotGamesList)
      <4>1. m \in Nat /\ n \in Nat /\ m >= n /\ \A i \in 1..n : m_hotGamesList[i] = First[i]
        BY <1>1, <1>4, <3>2 DEF TabsInv
      <4>2. /\ Len(m_hotGamesList') = m + n
            /\ \A i \in 1..(m + n) : i <= m => m_hotGamesList'[i] = m_hotGamesList[i]
        BY <1>3, <1>4, ConcatProperties
      <4> HIDE DEF n, m
      <4>3. m + n >= n /\ \A i \in 1..n : i \in 1..(m + n) /\ i <= m
        BY <4>1
      <4>4. Len(m_hotGamesList') >= n /\ \A i \in 1..n : m_hotGamesList'[i] = First[i]
        BY <4>1, <4>2, <4>3
      <4>5. QED
        BY <4>4 DEF n
    <3>3. QED
      BY <3>1, <3>2
  <2>2. 1 \in 1..Len(First)
    BY <1>7, FirstTyped
  <2>3. m_hotGamesList' # <<>>
    <3>1. Len(First) # 0 /\ Len(First) \in Nat
      BY <1>4, <1>7, EmptySeq
    <3>2. Len(m_hotGamesList') # 0
      <4> DEFINE n == Len(First)
                 m == Len(m_hotGamesList')
      <4>1. n \in Nat /\ n # 0 /\ m >= n
        BY <2>1, <3>1
      <4> HIDE DEF n, m
      <4>2. m # 0
        BY <4>1
      <4>3. QED
        BY <4>2 DEF m
    <3>3. QED
      BY <3>2
  <2>4. hotGames' = First[1] /\ m_showLoading' = FALSE
    BY <1>3, <2>1, <2>2, <2>3
  <2>5. tab' \in 1..Len(First) /\ hotGames' = First[tab']
    BY <1>3, <2>2, <2>4
  <2>6. QED
    BY <1>3, <1>5, <1>7, <2>1, <2>4, <2>5 DEF TabsInv
<1>8. QED
  BY <1>6, <1>7

LEMMA SelectTabs ==
  ASSUME IInv, TabsInv, NEW i \in 1..Len(m_tabTitleList), SelectIndex(i)
  PROVE  TabsInv'
<1> SUFFICES ASSUME edition' = 1
             PROVE  TabsInv'
  BY DEF TabsInv
<1>1. edition = 1 /\ UNCHANGED <<m_tabTitleList, m_hotGamesList>> /\ tab' = i
  BY DEF SelectIndex, serverVars
<1>2. CASE m_tabTitleList = <<>>
  BY <1>2
<1>3. CASE m_tabTitleList # <<>>
  <2>1. /\ m_tabTitleList = First /\ First # <<>> /\ Len(m_hotGamesList) >= Len(First)
        /\ \A k \in 1..Len(First) : m_hotGamesList[k] = First[k]
    BY <1>1, <1>3 DEF TabsInv
  <2>2. i \in 1..Len(First) /\ m_hotGamesList[i] = First[i]
    BY <2>1
  <2>3. ~(i > Len(m_hotGamesList))
    <3> DEFINE n == Len(First)
               m == Len(m_hotGamesList)
    <3>1. n \in Nat /\ m \in Nat /\ m >= n /\ i \in 1..n
      BY <2>1, <2>2, FirstTyped DEF IInv, TypeOK
    <3> HIDE DEF n, m
    <3>2. ~(i > m)
      BY <3>1
    <3>3. QED
      BY <3>2 DEF m
  <2>4. hotGames' = First[i] /\ m_showLoading' = FALSE
    BY <2>2, <2>3 DEF SelectIndex
  <2>5. First' = First
    BY DEF First
  <2>6. QED
    BY <1>1, <2>1, <2>2, <2>4, <2>5 DEF TabsInv
<1>4. QED
  BY <1>2, <1>3

LEMMA PublishTabs == IInv /\ Publish => TabsInv'
<1> SUFFICES ASSUME IInv, Publish
             PROVE  edition' # 1
  BY DEF TabsInv
<1>1. edition \in Nat /\ edition >= 1 /\ edition' = edition + 1
  BY EditionIsNat DEF IInv, Publish
<1>2. QED
  BY <1>1

LEMMA TabsStep == IInv /\ TabsInv /\ [Next]_vars => TabsInv'
<1> SUFFICES ASSUME IInv, TabsInv, [Next]_vars
             PROVE  TabsInv'
  OBVIOUS
<1> USE DEF homeVars, serverVars
<1> DEFINE Kept == UNCHANGED <<m_tabTitleList, m_hotGamesList, tab, hotGames, m_showLoading, edition>>
<1>1. ASSUME NEW t \in Slot, Worker(t) \/ Serve(t) \/ Fail(t) \/ Refuse(t)
      PROVE  Kept
  BY <1>1 DEF Worker, Start, HandleBanner, HandleLabels, HandleGames, HandleSign, HandlePost,
     HandleReward, HandleMember, HandleTable, Serve, Fail, Refuse
<1>2. ASSUME NEW t \in Slot, UserAsks(t)
      PROVE  Kept
  BY <1>2 DEF UserAsks, Asks, getBannerData, getAllGameLabel, getGameListByLabel, gameSearch,
     homeSearch, getSigninList, postSignin, getSignReward, getPromoCode, getOrderList
<1>3. (\E a \in Account \cup {None} : ChangeAccount(a)) \/ OnList \/ Midnight \/ UNCHANGED vars => Kept
  BY DEF ChangeAccount, OnList, Midnight, vars
<1> HIDE DEF Kept
<1>4. Kept => TabsInv'
  BY TabsKept DEF Kept
<1>5. QED
  BY <1>1, <1>2, <1>3, <1>4, OnHotTabs, SelectTabs, PublishTabs DEF Next, UI

\* As long as the first edition stands, a tab shows its own list: refreshes
\* append the same lists again, and those in front are the ones of the titles.
THEOREM TabsShowOwn == Spec => []TabShowsOwnList
<1>1. Init => TabsInv
  BY DEF Init, TabsInv
<1>2. IInv /\ TabsInv /\ [Next]_vars => TabsInv'
  BY TabsStep
<1>3. TabsInv => TabShowsOwnList
  BY DEF TabsInv, TabShowsOwnList
<1>4. QED
  BY <1>1, <1>2, <1>3, Inductive, PTL DEF Spec

-----------------------------------------------------------------------------
(* Nothing hangs *)

\* A slot that has, or gets, another job than op does not end the wait for op.
LEMMA StillWaits ==
  ASSUME NEW t \in Slot, NEW op, thread[t].op # op \/ thread'[t].op = op,
         \A u \in Slot \ {t} : thread'[u] = thread[u],
         Waits(op)
  PROVE  Waits(op)'
<1>1. PICK u \in Slot : thread[u].op = op
  BY DEF Waits
<1>2. thread'[u].op = op
  BY <1>1
<1>3. QED
  BY <1>2 DEF Waits

LEMMA NowWaits ==
  ASSUME NEW t \in Slot, NEW op, thread'[t].op = op
  PROVE  Waits(op)'
BY DEF Waits

LEMMA HotQueued ==
  ASSUME IInv, NEW view \in Op, NEW key \in Key, NEW got \in Nat,
         Queue(Signal(view, key, got))
  PROVE  /\ HotSignal => HotSignal'
         /\ view = "hot" => HotSignal'
<1> DEFINE sig == Signal(view, key, got)
           n == Len(signals)
<1>1. sig \in SignalType /\ sig.view = view
  BY DEF Signal, SignalType
<1>2. signals \in Seq(SignalType) /\ signals' = Append(signals, sig)
  BY DEF Queue, IInv, TypeOK
<1> HIDE DEF sig
<1>3. /\ Len(signals') = n + 1 /\ n \in Nat
      /\ \A i \in 1..n : signals'[i] = signals[i]
      /\ signals'[n + 1] = sig
  BY <1>1, <1>2, AppendProperties
<1> HIDE DEF n
<1>4. n + 1 \in 1..Len(signals') /\ \A i \in 1..n : i \in 1..Len(signals')
  BY <1>3
<1>5. HotSignal => HotSignal'
  BY <1>3, <1>4 DEF HotSignal, n
<1>6. view = "hot" => HotSignal'
  BY <1>1, <1>3, <1>4 DEF HotSignal
<1>7. QED
  BY <1>5, <1>6

LEMMA HotTaken ==
  ASSUME IInv, NEW views, NextSignal(views), "hot" \notin views, HotSignal
  PROVE  HotSignal'
<1> DEFINE n == Len(signals)
<1>1. signals \in Seq(SignalType) /\ signals # <<>> /\ signals' = Tail(signals)
      /\ Head(signals).view \in views
  BY DEF NextSignal, IInv, TypeOK
<1>2. Len(signals') = n - 1 /\ n \in Nat \ {0} /\ \A i \in 1..Len(signals') : signals'[i] = signals[i + 1]
  BY <1>1, HeadTailProperties, EmptySeq
<1>3. PICK i \in 1..n : signals[i].view = "hot"
  BY DEF HotSignal
<1>4. i # 1
  BY <1>1, <1>3
<1> HIDE DEF n
<1>5. i - 1 \in 1..Len(signals') /\ (i - 1) + 1 = i
  BY <1>2, <1>4
<1>6. signals'[i - 1].view = "hot"
  BY <1>2, <1>3, <1>5
<1>7. QED
  BY <1>5, <1>6 DEF HotSignal

LEMMA FreeIsNone ==
  ASSUME NEW t \in Slot, thread[t] = Free
  PROVE  thread[t].op = "none"
BY DEF Free

\* What the user's request for op asks for is waited for.
LEMMA AsksHang ==
  ASSUME IInv, HangInv, NEW t \in Slot, NEW key \in Key,
         NEW op \in View \cup {"labels", "post", "banner"}, Asks(t, op, key),
         op = "post" => m_enableSign = "unsigned"
  PROVE  HangInv'
<1>1. /\ thread'[t].op = op /\ thread[t].op = "none"
      /\ \A u \in Slot \ {t} : thread'[u] = thread[u]
  BY SlotsAfter, AskedFields, FreeIsNone DEF Asks, IInv
<1>2. \A o \in {"banner", "sign", "reward", "hot"} : Waits(o) => Waits(o)'
  BY <1>1, StillWaits
<1>3. Waits(op)'
  BY <1>1, NowWaits
<1>4. UNCHANGED <<m_bannerModelIsReady, m_signDataIsReady, m_signRewardIsReady, m_enableSign,
                  m_showLoading, signals>>
  BY DEF Asks, homeVars, signVars
<1>5. failed' = failed \ Leads(op)
      /\ \A v \in View : wanted'[v] = IF v \in Leads(op) THEN key ELSE wanted[v]
  BY DEF Asks, Wants
<1>6. /\ "hot" \notin Leads(op)
      /\ "banner" \in Leads(op) => op = "banner"
      /\ "sign" \in Leads(op) => op = "sign" \/ op = "post"
      /\ "reward" \in Leads(op) => op = "reward"
      /\ "sign" \in View /\ "reward" \in View
  BY LeadsTo, ViewNames, TableNames, RestOfChain
<1>7. BannerComes'
  BY <1>2, <1>3, <1>4, <1>5, <1>6 DEF HangInv, BannerComes
<1>8. SignComes'
  BY <1>2, <1>3, <1>4, <1>5, <1>6 DEF HangInv, SignComes
<1>9. RewardComes'
  BY <1>2, <1>3, <1>4, <1>5, <1>6 DEF HangInv, RewardComes
<1>10. GamesCome'
  BY <1>2, <1>4, <1>5, <1>6 DEF HangInv, GamesCome, HotSignal
<1>11. QED
  BY <1>7, <1>8, <1>9, <1>10 DEF HangInv

LEMMA UserHang == ASSUME IInv, HangInv, NEW t \in Slot, UserAsks(t) PROVE HangInv'
<1>1. CASE getBannerData(t)
  BY <1>1, AsksHang, Keys DEF getBannerData
<1>2. QED
  BY <1>1, UserAsksIsAsk, AsksHang DEF IInv

\* A slot whose job is not one that is waited for, and flags that stay.
LEMMA HangKept ==
  ASSUME HangInv, NEW t \in Slot,
         \A u \in Slot \ {t} : thread'[u] = thread[u],
         \A o \in {"banner", "sign", "reward", "hot"} : thread[t].op # o \/ thread'[t].op = o,
         UNCHANGED <<m_bannerModelIsReady, signVars, m_showLoading, wanted>>,
         failed \subseteq failed', HotSignal => HotSignal'
  PROVE  HangInv'
<1>1. \A o \in {"banner", "sign", "reward", "hot"} : Waits(o) => Waits(o)'
  BY StillWaits
<1>2. BannerComes' /\ RewardComes' /\ GamesCome'
  BY <1>1 DEF HangInv, BannerComes, RewardComes, GamesCome, signVars
<1>3. SignComes'
  BY <1>1 DEF HangInv, SignComes, signVars
<1>4. QED
  BY <1>2, <1>3 DEF HangInv

LEMMA SameSignals == UNCHANGED signals => (HotSignal => HotSignal')
BY DEF HotSignal

LEMMA StartHang == ASSUME IInv, HangInv, NEW t \in Slot, Start(t) PROVE HangInv'
<1>1. thread'[t].op = thread[t].op /\ \A u \in Slot \ {t} : thread'[u] = thread[u]
  BY StartFields DEF IInv
<1>2. \A o \in {"banner", "sign", "reward", "hot"} : Waits(o) => Waits(o)'
  BY <1>1, StillWaits
<1>3. \A o \in {"banner", "sign", "reward"} : thread[t].op = o => Waits(o)'
  BY <1>1, NowWaits
<1>4. /\ UNCHANGED <<m_showLoading, wanted, failed, signals>>
      /\ m_bannerModelIsReady /\ thread[t].op # "banner" => m_bannerModelIsReady'
      /\ m_signDataIsReady /\ thread[t].op # "sign" => m_signDataIsReady'
      /\ m_signRewardIsReady /\ thread[t].op # "reward" => m_signRewardIsReady'
      /\ m_enableSign' # "blank" => m_enableSign # "blank" /\ thread[t].op # "sign"
  BY DEF Start
<1>5. HotSignal => HotSignal'
  BY <1>4, SameSignals
<1>6. BannerComes'
  BY <1>2, <1>3, <1>4 DEF HangInv, BannerComes
<1>7. SignComes'
  BY <1>2, <1>3, <1>4 DEF HangInv, SignComes
<1>8. RewardComes'
  BY <1>2, <1>3, <1>4 DEF HangInv, RewardComes
<1>9. GamesCome'
  BY <1>2, <1>4, <1>5 DEF HangInv, GamesCome
<1>10. QED
  BY <1>6, <1>7, <1>8, <1>9 DEF HangInv

\* The end of a request that failed or was refused: nothing is waited for any
\* more, unless it was the banner.
LEMMA EndHang ==
  ASSUME IInv, HangInv, NEW t \in Slot,
         EndsSpinner(thread[t].op), UNCHANGED <<m_showLoading, wanted, signals>>,
         \A u \in Slot \ {t} : thread'[u] = thread[u],
         thread[t].op = "banner" => thread'[t].op = "hot",
         thread[t].op # "banner" => UNCHANGED m_bannerModelIsReady
  PROVE  HangInv'
<1>1. \A o \in {"banner", "sign", "reward", "hot"} : thread[t].op # o /\ Waits(o) => Waits(o)'
  BY StillWaits
<1>2. thread[t].op = "banner" => Waits("hot")'
  BY NowWaits
<1>3. /\ failed \subseteq failed'
      /\ thread[t].op \in {"banner", "hot"} => thread[t].op \in failed'
      /\ m_signDataIsReady \/ thread[t].op = "sign" => m_signDataIsReady'
      /\ m_signRewardIsReady \/ thread[t].op = "reward" => m_signRewardIsReady'
      /\ m_enableSign' # "blank" => m_enableSign # "blank"
  BY LeadsTo DEF EndsSpinner
<1>4. HotSignal => HotSignal'
  BY SameSignals
<1>5. BannerComes'
  BY <1>1, <1>3 DEF HangInv, BannerComes
<1>6. SignComes'
  BY <1>1, <1>3 DEF HangInv, SignComes
<1>7. RewardComes'
  BY <1>1, <1>3 DEF HangInv, RewardComes
<1>8. GamesCome'
  BY <1>1, <1>2, <1>3, <1>4 DEF HangInv, GamesCome
<1>9. QED
  BY <1>5, <1>6, <1>7, <1>8 DEF HangInv

LEMMA FailHang == ASSUME IInv, HangInv, NEW t \in Slot, Fail(t) \/ Refuse(t) PROVE HangInv'
<1> USE DEF homeVars, signVars, serverVars
<1>1. CASE Fail(t) /\ thread[t].op = "banner"
  <2>1. thread'[t].op = "banner" /\ \A u \in Slot \ {t} : thread'[u] = thread[u]
    BY <1>1, SlotsAfter, AskedFields DEF Fail, IInv
  <2>2. UNCHANGED <<m_bannerModelIsReady, m_signDataIsReady, m_signRewardIsReady, m_enableSign,
                    m_showLoading, wanted, failed, signals>>
    BY <1>1 DEF Fail
  <2>3. QED
    BY <1>1, <2>1, <2>2, HangKept, SameSignals
<1>2. CASE Fail(t) /\ thread[t].op # "banner"
  <2>1. \A u \in Slot \ {t} : thread'[u] = thread[u]
    BY <1>2, SlotsAfter DEF Fail, IInv
  <2>2. EndsSpinner(thread[t].op)
        /\ UNCHANGED <<m_showLoading, wanted, signals, m_bannerModelIsReady>>
    BY <1>2 DEF Fail
  <2>3. QED
    BY <1>2, <2>1, <2>2, EndHang
<1>3. CASE Refuse(t)
  <2>1. /\ thread[t].op = "banner" => thread'[t].op = "hot"
        /\ \A u \in Slot \ {t} : thread'[u] = thread[u]
    BY <1>3, SlotsAfter, AskedFields DEF Refuse, IInv
  <2>2. /\ EndsSpinner(thread[t].op) /\ UNCHANGED <<m_showLoading, wanted, signals>>
        /\ thread[t].op # "banner" => UNCHANGED m_bannerModelIsReady
    BY <1>3 DEF Refuse, IInv, TypeOK
  <2>3. QED
    BY <2>1, <2>2, EndHang
<1>4. QED
  BY <1>1, <1>2, <1>3

LEMMA WorkerHang == ASSUME IInv, HangInv, NEW t \in Slot, Worker(t) PROVE HangInv'
<1> USE DEF homeVars, signVars, serverVars, history
<1> DEFINE Others == \A u \in Slot \ {t} : thread'[u] = thread[u]
<1>1. CASE HandleBanner(t)
  <2>1. thread[t].op = "banner" /\ thread'[t].op = "hot" /\ Others
    BY <1>1, SlotsAfter, AskedFields DEF HandleBanner, Handle, IInv
  <2>2. m_bannerModelIsReady' = TRUE
        /\ UNCHANGED <<m_signDataIsReady, m_signRewardIsReady, m_enableSign, m_showLoading, wanted,
                       failed, signals>>
    BY <1>1 DEF HandleBanner
  <2>3. \A o \in {"sign", "reward", "hot"} : Waits(o) => Waits(o)'
    BY <2>1, StillWaits
  <2>4. Waits("hot")'
    BY <2>1, NowWaits
  <2>5. BannerComes' /\ RewardComes' /\ GamesCome'
    BY <2>2, <2>3, <2>4 DEF HangInv, BannerComes, RewardComes, GamesCome
  <2>6. SignComes'
    BY <2>2, <2>3 DEF HangInv, SignComes
  <2>7. QED
    BY <2>5, <2>6 DEF HangInv
<1>2. CASE HandleLabels(t) \/ HandlePost(t)
  <2>1. thread[t].op \in {"labels", "post"} /\ Others
    BY <1>2, SlotsAfter DEF HandleLabels, HandlePost, Handle, IInv
  <2>2. UNCHANGED <<m_bannerModelIsReady, signVars, m_showLoading, wanted, failed, signals>>
    BY <1>2 DEF HandleLabels, HandlePost
  <2>3. QED
    BY <2>1, <2>2, HangKept, SameSignals
<1>3. CASE HandleGames(t)
  <2>1. Others /\ thread[t].op \in {"games", "search", "hot"} /\ thread'[t].op = "none"
    BY <1>3, SlotsAfter, AskedFields DEF HandleGames, Handle, IInv, QueryView
  <2>2. (HotSignal => HotSignal') /\ (thread[t].op = "hot" => HotSignal')
    BY <1>3, HotQueued, OpTyped DEF HandleGames
  <2>3. UNCHANGED <<m_bannerModelIsReady, m_signDataIsReady, m_signRewardIsReady, m_enableSign,
                    m_showLoading, wanted, failed>>
    BY <1>3 DEF HandleGames
  <2>4. \A o \in {"banner", "sign", "reward"} : Waits(o) => Waits(o)'
    BY <2>1, StillWaits
  <2>5. thread[t].op # "hot" /\ Waits("hot") => Waits("hot")'
    BY <2>1, StillWaits
  <2>6. BannerComes' /\ RewardComes'
    BY <2>3, <2>4 DEF HangInv, BannerComes, RewardComes
  <2>7. SignComes'
    BY <2>3, <2>4 DEF HangInv, SignComes
  <2>8. GamesCome'
    BY <2>2, <2>3, <2>4, <2>5 DEF HangInv, GamesCome
  <2>9. QED
    BY <2>6, <2>7, <2>8 DEF HangInv
<1>4. CASE HandleSign(t)
  <2>1. Others /\ thread[t].op = "sign"
    BY <1>4, SlotsAfter DEF HandleSign, Handle, IInv
  <2>2. HotSignal => HotSignal'
    <3>1. "sign" \in Op /\ 0 \in Nat /\ thread[t].key \in Key
      BY OpTyped, ViewNames
    <3>2. QED
      BY <1>4, <3>1, HotQueued DEF HandleSign
  <2>3. m_signDataIsReady' = TRUE
        /\ UNCHANGED <<m_bannerModelIsReady, m_signRewardIsReady, m_showLoading, wanted, failed>>
    BY <1>4 DEF HandleSign
  <2>4. \A o \in {"banner", "reward", "hot"} : Waits(o) => Waits(o)'
    BY <2>1, StillWaits
  <2>5. BannerComes' /\ RewardComes' /\ GamesCome'
    BY <2>2, <2>3, <2>4 DEF HangInv, BannerComes, RewardComes, GamesCome
  <2>6. SignComes'
    BY <2>3 DEF SignComes
  <2>7. QED
    BY <2>5, <2>6 DEF HangInv
<1>5. CASE HandleReward(t)
  <2>1. Others /\ thread[t].op = "reward"
    BY <1>5, SlotsAfter DEF HandleReward, Handle, IInv
  <2>2. HotSignal => HotSignal'
    <3>1. "reward" \in Op /\ 0 \in Nat /\ thread[t].key \in Key
      BY OpTyped, ViewNames
    <3>2. QED
      BY <1>5, <3>1, HotQueued DEF HandleReward
  <2>3. m_signRewardIsReady' = TRUE
        /\ UNCHANGED <<m_bannerModelIsReady, m_signDataIsReady, m_enableSign, m_showLoading, wanted,
                       failed>>
    BY <1>5 DEF HandleReward
  <2>4. \A o \in {"banner", "sign", "hot"} : Waits(o) => Waits(o)'
    BY <2>1, StillWaits
  <2>5. BannerComes' /\ RewardComes' /\ GamesCome'
    BY <2>2, <2>3, <2>4 DEF HangInv, BannerComes, RewardComes, GamesCome
  <2>6. SignComes'
    BY <2>3, <2>4 DEF HangInv, SignComes
  <2>7. QED
    BY <2>5, <2>6 DEF HangInv
<1>6. CASE HandleMember(t)
  <2>1. thread[t].op \in {"promo", "client"} /\ Others
    BY <1>6, SlotsAfter DEF HandleMember, Handle, IInv
  <2>2. UNCHANGED <<m_bannerModelIsReady, signVars, m_showLoading, wanted, failed, signals>>
    BY <1>6 DEF HandleMember
  <2>3. QED
    BY <2>1, <2>2, HangKept, SameSignals
<1>7. CASE HandleTable(t)
  <2>1. thread[t].op \notin {"banner", "sign", "reward", "hot"} /\ Others
    BY <1>7, SlotsAfter, TableNames DEF HandleTable, IInv
  <2>2. UNCHANGED <<m_bannerModelIsReady, signVars, m_showLoading, wanted, failed, signals>>
    BY <1>7 DEF HandleTable
  <2>3. QED
    BY <2>1, <2>2, HangKept, SameSignals
<1>8. QED
  BY <1>1, <1>2, <1>3, <1>4, <1>5, <1>6, <1>7, StartHang DEF Worker

LEMMA ServeHang == ASSUME IInv, HangInv, NEW t \in Slot, Serve(t) PROVE HangInv'
<1>1. thread'[t].op = thread[t].op /\ \A u \in Slot \ {t} : thread'[u] = thread[u]
  BY ServeFields
<1>2. UNCHANGED <<m_bannerModelIsReady, signVars, m_showLoading, wanted, failed, signals>>
  BY DEF Serve, homeVars, history
<1>3. QED
  BY <1>1, <1>2, HangKept, SameSignals

\* What has to do with the spinners neither by its thread nor by its signal.
LEMMA HangStays ==
  ASSUME HangInv, UNCHANGED <<thread, wanted, failed>>,
         UNCHANGED <<m_bannerModelIsReady, signVars>>,
         m_showLoading' => m_showLoading /\ (HotSignal => HotSignal')
  PROVE  HangInv'
<1>1. \A o : Waits(o) => Waits(o)'
  BY DEF Waits
<1>2. BannerComes' /\ RewardComes' /\ GamesCome'
  BY <1>1 DEF HangInv, BannerComes, RewardComes, GamesCome, signVars
<1>3. SignComes'
  BY <1>1 DEF HangInv, SignComes, signVars
<1>4. QED
  BY <1>2, <1>3 DEF HangInv

\* selectIndex finds a list, since the reply brought one.
LEMMA OnHotEnds ==
  ASSUME NothingEmpty, IInv, OnHot
  PROVE  m_showLoading' = FALSE
<1>1. Head(signals) \in SignalsOf(edition) /\ Head(signals).view = "hot"
  BY TakenStep DEF OnHot
<1> DEFINE k == Head(signals).got
<1>2. k \in 1..edition
  BY <1>1 DEF SignalsOf
<1>3. Edition[k] \in Seq(Games)
  BY <1>2, EditionTyped
<1>4. Edition[k] # <<>>
  <2> DEFINE n == Len(Edition)
  <2>1. edition \in Nat /\ edition <= n /\ n \in Nat
    BY EditionIsNat DEF IInv
  <2>2. \A i \in 1..n : Edition[i] # <<>>
    BY DEF NothingEmpty
  <2> HIDE DEF n, k
  <2>3. k \in 1..n
    BY <1>2, <2>1
  <2>4. QED
    BY <2>2, <2>3
<1>5. m_hotGamesList' = m_hotGamesList \o Edition[k] /\ m_hotGamesList \in Seq(Games)
  BY DEF OnHot, IInv, TypeOK
<1> HIDE DEF k
<1>6. m_hotGamesList' # <<>>
  BY <1>3, <1>4, <1>5, ConcatEqualIffEmpty
<1>7. QED
  BY <1>6 DEF OnHot

LEMMA HangStep ==
  ASSUME NothingEmpty, IInv, HangInv, [Next]_vars
  PROVE  HangInv'
<1> USE DEF homeVars, signVars, serverVars, history
<1>1. CASE UNCHANGED vars
  BY <1>1, HangStays, SameSignals DEF vars
<1>2. ASSUME NEW i \in 1..Len(m_tabTitleList), SelectIndex(i)
      PROVE  HangInv'
  <2>1. m_showLoading' => m_showLoading
    BY <1>2 DEF SelectIndex
  <2>2. QED
    BY <1>2, <2>1, HangStays, SameSignals DEF SelectIndex
<1>3. ASSUME NEW a \in Account \cup {None}, ChangeAccount(a)
      PROVE  HangInv'
  BY <1>3, HangStays, SameSignals DEF ChangeAccount
<1>4. CASE OnHot
  BY <1>4, OnHotEnds, HangStays DEF OnHot
<1>5. CASE OnList
  <2>1. HotSignal => HotSignal'
    BY <1>5, HotTaken, ViewNames DEF OnList
  <2>2. QED
    BY <1>5, <2>1, HangStays DEF OnList
<1>6. CASE Publish \/ Midnight
  BY <1>6, HangStays, SameSignals DEF Publish, Midnight
<1>7. QED
  BY <1>1, <1>2, <1>3, <1>4, <1>5, <1>6, UserHang, WorkerHang, ServeHang, FailHang DEF Next, UI

LEMMA InitHang == Init => HangInv
<1> SUFFICES ASSUME Init
             PROVE  HangInv
  OBVIOUS
<1>1. Waits("banner")
  <2>1. PICK t \in Slot : thread = [s \in Slot |-> IF s = t THEN Asked("banner", None) ELSE Free]
    BY DEF Init
  <2>2. thread[t].op = "banner"
    BY <2>1, AskedFields
  <2>3. QED
    BY <2>2 DEF Waits
<1>2. wanted["sign"] = None /\ wanted["reward"] = None /\ m_enableSign = "blank"
  BY ViewNames DEF Init
<1>3. QED
  BY <1>1, <1>2 DEF HangInv, BannerComes, SignComes, RewardComes, GamesCome

\* When nothing is on its way any more, nothing is waited for: whoever turns a
\* spinner on leaves a thread behind that ends it, which takes a service that
\* recommends something.
THEOREM NoSpinnerStays ==
  ASSUME NothingEmpty
  PROVE  Spec => []NothingHangs
<1>1. Init => HangInv
  BY InitHang
<1>2. IInv /\ HangInv /\ [Next]_vars => HangInv'
  BY HangStep
<1>3. HangInv => NothingHangs
  <2> SUFFICES ASSUME HangInv, AtRest
               PROVE  /\ m_bannerModelIsReady \/ "banner" \in failed
                      /\ wanted["sign"] # None => m_signDataIsReady
                      /\ wanted["reward"] # None => m_signRewardIsReady
                      /\ m_showLoading => "hot" \in failed
    BY DEF NothingHangs
  <2>1. \A o \in {"banner", "sign", "reward", "hot"} : ~Waits(o)
    BY DEF AtRest, Waits, Free
  <2>2. ~HotSignal
    BY DEF AtRest, HotSignal
  <2>3. QED
    BY <2>1, <2>2 DEF HangInv, BannerComes, SignComes, RewardComes, GamesCome
<1>4. QED
  BY <1>1, <1>2, <1>3, Inductive, PTL DEF Spec

-----------------------------------------------------------------------------
(* The label of the sign-in *)

\* A slot whose new job says nothing about the sign-in that is not so.
LEMMA SignSlot ==
  ASSUME SignGood, NEW t \in Slot, \A u \in Slot \ {t} : thread'[u] = thread[u],
         UNCHANGED account, signed \subseteq signed', outdated => outdated',
         ~outdated /\ m_enableSign' = "signed" => m_enableSign = "signed" \/ account \in signed,
         thread'[t].op \in SignOps => thread[t].op \in SignOps,
         thread'[t].op = "sign" /\ thread'[t].at \in {"sent", "ok"} => thread'[t].key = account,
         ~outdated /\ thread'[t].op = "sign" /\ thread'[t].at = "ok" /\ thread'[t].got = 1
           => account \in signed
  PROVE  SignGood'
<1>1. OneSign'
  BY DEF SignGood, OneSign
<1>2. SignToken'
  <2>1. ASSUME NEW u \in Slot, thread'[u].op = "sign", thread'[u].at \in {"sent", "ok"}
        PROVE  thread'[u].key = account'
    <3>1. CASE u = t
      BY <2>1, <3>1
    <3>2. CASE u # t
      BY <2>1, <3>2 DEF SignGood, SignToken
    <3>3. QED
      BY <3>1, <3>2
  <2>2. QED
    BY <2>1 DEF SignToken
<1>3. ASSUME ~outdated'
      PROVE  SaysTrue'
  <2>1. ~outdated /\ SaysTrue
    BY <1>3 DEF SignGood
  <2>2. m_enableSign' = "signed" => account' \in signed'
    BY <2>1 DEF SaysTrue
  <2>3. ASSUME NEW u \in Slot, thread'[u].op = "sign", thread'[u].at = "ok", thread'[u].got = 1
        PROVE  account' \in signed'
    <3>1. CASE u = t
      BY <2>1, <2>3, <3>1
    <3>2. CASE u # t
      BY <2>1, <2>3, <3>2 DEF SaysTrue
    <3>3. QED
      BY <3>1, <3>2
  <2>4. QED
    BY <2>2, <2>3 DEF SaysTrue
<1>4. QED
  BY <1>1, <1>2, <1>3 DEF SignGood

\* A slot that has, or goes on to, a request for something else.
LEMMA OtherSlot ==
  ASSUME SignGood, NEW t \in Slot, \A u \in Slot \ {t} : thread'[u] = thread[u],
         UNCHANGED <<account, outdated>>, signed \subseteq signed',
         m_enableSign' = "signed" => m_enableSign = "signed",
         thread'[t].op \notin SignOps
  PROVE  SignGood'
BY SignSlot DEF SignOps

LEMMA SignInFlight ==
  ASSUME NEW t \in Slot, thread[t].op \in SignOps
  PROVE  InFlight("sign")
<1>1. "sign" \in Leads(thread[t].op)
  BY LeadsTo DEF SignOps
<1>2. QED
  BY <1>1 DEF InFlight

LEMMA AsksSign ==
  ASSUME IInv, SignInv, NEW t \in Slot, NEW op \in Op, NEW key \in Key, Asks(t, op, key),
         "sign" \notin crossed'
  PROVE  SignGood'
<1>1. /\ thread'[t].op = op /\ thread'[t].at = "asked"
      /\ \A u \in Slot \ {t} : thread'[u] = thread[u]
  BY SlotsAfter, AskedFields DEF Asks, IInv
<1>2. SignGood /\ UNCHANGED <<account, outdated, signed, m_enableSign>>
  BY DEF Asks, Wants, SignInv, signVars, serverVars
<1>3. CASE op \in SignOps
  <2>1. "sign" \in Leads(op) /\ "sign" \in View
    BY <1>3, LeadsTo, ViewNames DEF SignOps
  <2>2. ~InFlight("sign")
    BY <2>1 DEF Asks, Wants
  <2>3. \A u \in Slot : thread[u].op \notin SignOps
    BY <2>2, SignInFlight
  <2>4. OneSign' /\ SignToken'
    BY <1>1, <2>3 DEF OneSign, SignToken, SignOps
  <2>5. ~outdated' => SaysTrue'
    BY <1>1, <1>2, <2>3 DEF SignGood, SaysTrue, SignOps
  <2>6. QED
    BY <2>4, <2>5 DEF SignGood
<1>4. CASE op \notin SignOps
  BY <1>1, <1>2, <1>4, OtherSlot
<1>5. QED
  BY <1>3, <1>4

LEMMA UserSign ==
  ASSUME IInv, SignInv, NEW t \in Slot, UserAsks(t), "sign" \notin crossed'
  PROVE  SignGood'
<1>1. CASE getBannerData(t)
  BY <1>1, AsksSign, Keys, ViewNames DEF getBannerData
<1>2. ASSUME NEW op \in View \cup {"labels", "post"}, NEW key \in Key, Asks(t, op, key)
      PROVE  SignGood'
  BY <1>2, AsksSign, ViewNames
<1>3. QED
  BY <1>1, <1>2, UserAsksIsAsk DEF IInv

LEMMA StartSign == ASSUME IInv, SignGood, NEW t \in Slot, Start(t) PROVE SignGood'
<1>1. /\ thread'[t].op = thread[t].op /\ thread'[t].at = "sent"
      /\ thread[t].op \notin QueryView => thread'[t].key = account
      /\ \A u \in Slot \ {t} : thread'[u] = thread[u]
  BY StartFields DEF IInv
<1>2. UNCHANGED <<account, signed>>
  BY DEF Start, serverVars
<1>3. CASE thread[t].op = "sign"
  <2>1. m_enableSign' = "blank"
    BY <1>3 DEF Start
  <2>2. \A u \in Slot \ {t} : thread'[u].op \notin SignOps
    BY <1>1, <1>3 DEF SignGood, OneSign, SignOps
  <2>3. OneSign'
    BY <2>2 DEF OneSign
  <2>4. SignToken'
    <3>1. thread'[t].key = account'
      BY <1>1, <1>2, <1>3 DEF QueryView
    <3>2. QED
      BY <2>2, <3>1 DEF SignToken, SignOps
  <2>5. SaysTrue'
    BY <1>1, <2>1, <2>2 DEF SaysTrue, SignOps
  <2>6. QED
    BY <2>3, <2>4, <2>5 DEF SignGood
<1>4. CASE thread[t].op # "sign"
  <2>1. m_enableSign' = m_enableSign /\ (outdated => outdated')
    BY <1>4 DEF Start
  <2>2. QED
    BY <1>1, <1>2, <1>4, <2>1, SignSlot
<1>5. QED
  BY <1>3, <1>4

LEMMA ServeSign == ASSUME IInv, SignGood, NEW t \in Slot, Serve(t) PROVE SignGood'
<1>1. /\ thread'[t].op = thread[t].op /\ thread'[t].at = "ok"
      /\ thread'[t].key = thread[t].key
      /\ thread[t].op = "sign" /\ thread'[t].got = 1 => thread[t].key \in signed
      /\ \A u \in Slot \ {t} : thread'[u] = thread[u]
  BY ServeFields
<1>2. UNCHANGED <<account, m_enableSign, outdated>> /\ signed \subseteq signed' /\ thread[t].at = "sent"
  BY DEF Serve, signVars, history
<1>3. thread[t].op = "sign" => thread[t].key = account
  BY <1>2 DEF SignGood, SignToken
<1>4. QED
  BY <1>1, <1>2, <1>3, SignSlot

LEMMA FailSign ==
  ASSUME IInv, SignGood, NEW t \in Slot, Fail(t) \/ Refuse(t)
  PROVE  SignGood'
<1>1. \A u \in Slot \ {t} : thread'[u] = thread[u]
  BY SlotsAfter DEF Fail, Refuse, IInv
<1>2. thread'[t].op \notin SignOps
  BY SlotsAfter, AskedFields DEF Fail, Refuse, SignOps, IInv
<1>3. UNCHANGED <<account, signed, outdated>> /\ (m_enableSign' = "signed" => m_enableSign = "signed")
  BY DEF Fail, Refuse, EndsSpinner, signVars, serverVars
<1>4. QED
  BY <1>1, <1>2, <1>3, OtherSlot

LEMMA WorkerSign == ASSUME IInv, SignGood, NEW t \in Slot, Worker(t) PROVE SignGood'
<1> USE DEF homeVars, signVars, serverVars, history
<1>1. CASE HandleSign(t)
  <2>1. thread'[t].op = "none" /\ \A u \in Slot \ {t} : thread'[u] = thread[u]
    BY <1>1, SlotsAfter, AskedFields DEF HandleSign, IInv
  <2>2. UNCHANGED <<account, signed, outdated>>
    BY <1>1 DEF HandleSign
  <2>3. ~outdated /\ m_enableSign' = "signed" => account \in signed
    BY <1>1 DEF HandleSign, Handle, SignGood, SaysTrue
  <2>4. QED
    BY <2>1, <2>2, <2>3, SignSlot DEF SignOps
<1>2. CASE HandlePost(t)
  <2>1. /\ thread[t].op = "post" /\ thread'[t].op = "sign" /\ thread'[t].at = "asked"
        /\ \A u \in Slot \ {t} : thread'[u] = thread[u]
    BY <1>2, SlotsAfter, AskedFields DEF HandlePost, Handle, IInv
  <2>2. UNCHANGED <<account, signed, outdated, m_enableSign>>
    BY <1>2 DEF HandlePost
  <2>3. QED
    BY <2>1, <2>2, SignSlot DEF SignOps
<1>3. CASE HandleTable(t)
  <2>1. \A u \in Slot \ {t} : thread'[u] = thread[u]
    BY <1>3, SlotsAfter DEF HandleTable, IInv
  <2>2. thread'[t].op \notin SignOps
    <3>1. CASE Rest(thread[t].op) = {thread[t].op}
      BY <1>3, <3>1, SlotsAfter, AskedFields DEF HandleTable, IInv, SignOps
    <3>2. CASE Rest(thread[t].op) # {thread[t].op}
      <4> DEFINE next == Tables[Position(thread[t].op) + 1]
      <4>1. next \in TableView
        BY <1>3, <3>2, NextTable DEF HandleTable
      <4>2. thread'[t].op = next
        BY <1>3, <3>2, SlotsAfter, AskedFields DEF HandleTable, IInv
      <4> HIDE DEF next
      <4>3. QED
        BY <4>1, <4>2, TableNames DEF SignOps
    <3>3. QED
      BY <3>1, <3>2
  <2>3. UNCHANGED <<account, signed, outdated, m_enableSign>>
    BY <1>3 DEF HandleTable
  <2>4. QED
    BY <2>1, <2>2, <2>3, OtherSlot
<1>4. CASE HandleBanner(t) \/ HandleLabels(t) \/ HandleGames(t) \/ HandleReward(t) \/ HandleMember(t)
  <2>1. thread'[t].op \notin SignOps /\ \A u \in Slot \ {t} : thread'[u] = thread[u]
    BY <1>4, SlotsAfter, AskedFields DEF HandleBanner, HandleLabels, HandleGames, HandleReward,
       HandleMember, IInv, SignOps
  <2>2. UNCHANGED <<account, signed, outdated, m_enableSign>>
    BY <1>4 DEF HandleBanner, HandleLabels, HandleGames, HandleReward, HandleMember
  <2>3. QED
    BY <2>1, <2>2, OtherSlot
<1>5. QED
  BY <1>1, <1>2, <1>3, <1>4, StartSign DEF Worker

\* What has nothing to do with the sign-in.
LEMMA SignKept ==
  ASSUME SignGood, UNCHANGED <<account, thread, m_enableSign, signed, outdated>>
  PROVE  SignGood'
BY DEF SignGood, OneSign, SignToken, SaysTrue

LEMMA SignStep == IInv /\ SignInv /\ [Next]_vars => SignInv'
<1> SUFFICES ASSUME IInv, SignInv, [Next]_vars, "sign" \notin crossed'
             PROVE  SignGood'
  BY DEF SignInv
<1> USE DEF homeVars, signVars, serverVars, history
<1>1. ASSUME NEW t \in Slot, Worker(t) \/ Serve(t) \/ Fail(t) \/ Refuse(t)
      PROVE  SignGood'
  <2>1. SignGood
    BY <1>1 DEF SignInv, Worker, Start, HandleBanner, HandleLabels, HandleGames, HandleSign,
       HandlePost, HandleReward, HandleMember, HandleTable, Serve, Fail, Refuse
  <2>2. QED
    BY <1>1, <2>1, WorkerSign, ServeSign, FailSign
<1>2. ASSUME NEW i \in 1..Len(m_tabTitleList), SelectIndex(i)
      PROVE  SignGood'
  BY <1>2, SignKept DEF SelectIndex, SignInv
<1>3. ASSUME NEW a \in Account \cup {None}, ChangeAccount(a)
      PROVE  SignGood'
  <2>1. "sign" \in OwnView
    BY DEF OwnView
  <2>2. ~InFlight("sign") /\ outdated' = TRUE /\ thread' = thread
    BY <1>3, <2>1 DEF ChangeAccount
  <2>3. \A u \in Slot : thread'[u].op \notin SignOps
    BY <2>2, SignInFlight
  <2>4. OneSign' /\ SignToken'
    BY <2>3 DEF OneSign, SignToken, SignOps
  <2>5. QED
    BY <2>2, <2>4 DEF SignGood
<1>4. CASE UI \/ Publish
  BY <1>4, SignKept DEF UI, OnHot, OnList, Publish, SignInv
<1>5. CASE Midnight
  <2>1. SignGood /\ outdated' = TRUE /\ UNCHANGED <<thread, account>>
    BY <1>5 DEF Midnight, SignInv
  <2>2. OneSign' /\ SignToken'
    BY <2>1 DEF SignGood, OneSign, SignToken
  <2>3. QED
    BY <2>1, <2>2 DEF SignGood
<1>6. CASE UNCHANGED vars
  BY <1>6, SignKept DEF vars, SignInv
<1>7. QED
  BY <1>1, <1>2, <1>3, <1>4, <1>5, <1>6, UserSign DEF Next

\* The label says "signed in today" only of a user who has: the reply that sets
\* it was made for the account that is logged in, on this day.
THEOREM LabelIsTrue == Spec => []SignLabelTrue
<1>1. Init => SignInv
  <2> SUFFICES ASSUME Init
               PROVE  SignGood
    BY DEF SignInv
  <2>1. \A t \in Slot : thread[t].op \in {"banner", "none"}
    <3>1. PICK t \in Slot : thread = [s \in Slot |-> IF s = t THEN Asked("banner", None) ELSE Free]
      BY DEF Init
    <3>2. QED
      BY <3>1, AskedFields
  <2>2. m_enableSign = "blank"
    BY DEF Init
  <2>3. QED
    BY <2>1, <2>2 DEF SignGood, OneSign, SignToken, SaysTrue, SignOps
<1>2. IInv /\ SignInv /\ [Next]_vars => SignInv'
  BY SignStep
<1>3. SignInv => SignLabelTrue
  BY DEF SignInv, SignGood, SaysTrue, SignLabelTrue
<1>4. QED
  BY <1>1, <1>2, <1>3, Inductive, PTL DEF Spec

-----------------------------------------------------------------------------
(* The views *)

\* A slot whose new job brings v what was asked for.
LEMMA ViewSlot ==
  ASSUME NEW v \in View, ViewGood(v), NEW t \in Slot,
         \A u \in Slot \ {t} : thread'[u] = thread[u],
         UNCHANGED account, wanted'[v] = wanted[v],
         v \in Leads(thread'[t].op) => Brings(thread'[t], v, account, wanted[v]),
         signals' \in Seq(Fitting(v, wanted[v])),
         NoneFor(v)' /\ v \notin failed' => shown'[v] = wanted[v]
  PROVE  ViewGood(v)'
<1>1. ASSUME NEW u \in Slot, v \in Leads(thread'[u].op)
      PROVE  Brings(thread'[u], v, account', wanted'[v])
  <2>1. CASE u = t
    BY <1>1, <2>1
  <2>2. CASE u # t
    BY <1>1, <2>2 DEF ViewGood
  <2>3. QED
    BY <2>1, <2>2
<1>2. QED
  BY <1>1 DEF ViewGood

\* The same for one that goes on to v if it led there, or failed on the way.
LEMMA ViewGoesOn ==
  ASSUME NEW v \in View, ViewGood(v), NEW t \in Slot,
         \A u \in Slot \ {t} : thread'[u] = thread[u],
         UNCHANGED <<account, signals>>, wanted'[v] = wanted[v], shown'[v] = shown[v],
         v \in failed => v \in failed',
         v \in Leads(thread'[t].op) => Brings(thread'[t], v, account, wanted[v]),
         v \in Leads(thread[t].op) => v \in Leads(thread'[t].op) \/ v \in failed'
  PROVE  ViewGood(v)'
<1>1. signals' \in Seq(Fitting(v, wanted[v]))
  BY DEF ViewGood
<1>2. ASSUME NoneFor(v)', v \notin failed'
      PROVE  shown'[v] = wanted[v]
  <2>1. \A u \in Slot : v \notin Leads(thread[u].op)
    BY <1>2 DEF NoneFor
  <2>2. NoneFor(v)
    BY <1>2, <2>1 DEF NoneFor
  <2>3. QED
    BY <1>2, <2>2 DEF ViewGood
<1>3. QED
  BY <1>1, <1>2, ViewSlot

\* What a slot that is done, or busy with something else, leads to.
LEMMA LeadsAside ==
  ASSUME NEW v \in View
  PROVE  /\ \A op \in {"none", "banner", "hot"} : v \notin Leads(op)
         /\ v \in Leads(v)
         /\ v \in QueryView => \A op \in Op : v \in Leads(op) => op = v \/ op = "labels"
         /\ v \notin QueryView => \A op \in Op : v \in Leads(op) => op \notin QueryView \cup {"labels"}
<1>1. \A op \in {"none", "banner", "hot"} : v \notin Leads(op)
  BY LeadsTo, ViewNames
<1>2. v \in Leads(v)
  <2>1. CASE v \in TableView
    BY <2>1, LeadsTo, RestInTables
  <2>2. CASE v \notin TableView
    BY <2>2, LeadsTo, ViewNames, TableNames
  <2>3. QED
    BY <2>1, <2>2
<1>3. ASSUME NEW op \in Op, v \in Leads(op), v \in QueryView
      PROVE  op = v \/ op = "labels"
  <2>1. op \notin TableView
    BY <1>3, LeadsTo, RestInTables, TableNames DEF QueryView
  <2>2. QED
    BY <1>3, <2>1, LeadsTo, ViewNames, TableNames DEF QueryView
<1>4. ASSUME NEW op \in Op, v \in Leads(op), v \notin QueryView
      PROVE  op \notin QueryView \cup {"labels"}
  BY <1>4, LeadsTo DEF QueryView
<1>5. QED
  BY <1>1, <1>2, <1>3, <1>4

\* Signals that are queued or taken.
LEMMA ViewQueued ==
  ASSUME IInv, NEW v \in View, NEW want, NEW view \in Op, NEW key \in Key, NEW got \in Nat,
         signals \in Seq(Fitting(v, want)), Queue(Signal(view, key, got)),
         view = v => key = want
  PROVE  /\ signals' \in Seq(Fitting(v, want))
         /\ signals' \in Seq(Silent(v)) => view # v /\ signals \in Seq(Silent(v))
<1> DEFINE sig == Signal(view, key, got)
           n == Len(signals)
<1>1. sig \in SignalType /\ sig.view = view /\ sig.key = key
  BY DEF Signal, SignalType
<1>2. signals \in Seq(SignalType) /\ signals' = Append(signals, sig)
  BY DEF Queue, IInv, TypeOK
<1> HIDE DEF sig
<1>3. /\ Len(signals') = n + 1 /\ n \in Nat
      /\ \A i \in 1..n : signals'[i] = signals[i]
      /\ signals'[n + 1] = sig
  BY <1>1, <1>2, AppendProperties
<1>4. signals' \in Seq(Fitting(v, want))
  <2>1. sig \in Fitting(v, want)
    BY <1>1 DEF Fitting
  <2>2. QED
    BY <1>2, <2>1, AppendProperties
<1>5. ASSUME signals' \in Seq(Silent(v))
      PROVE  view # v /\ signals \in Seq(Silent(v))
  <2>1. sig \in Silent(v) /\ \A i \in 1..n : signals[i] \in Silent(v)
    <3>1. \A i \in 1..Len(signals') : signals'[i] \in Silent(v)
      BY <1>5, ElementOfSeq
    <3> HIDE DEF n
    <3>2. n + 1 \in 1..Len(signals') /\ \A i \in 1..n : i \in 1..Len(signals')
      BY <1>3
    <3>3. QED
      BY <1>3, <3>1, <3>2
  <2>2. signals \in [1..n -> Silent(v)]
    BY <1>2, <2>1
  <2>3. QED
    BY <1>1, <1>3, <2>1, <2>2 DEF Silent
<1>6. QED
  BY <1>4, <1>5

LEMMA ViewTaken ==
  ASSUME IInv, NEW v \in View, NEW want, NEW views, NextSignal(views),
         signals \in Seq(Fitting(v, want))
  PROVE  /\ signals' \in Seq(Fitting(v, want))
         /\ Head(signals).view = v => Head(signals).key = want
         /\ Head(signals).view # v /\ signals' \in Seq(Silent(v)) => signals \in Seq(Silent(v))
<1>1. signals # <<>> /\ signals' = Tail(signals) /\ signals \in Seq(SignalType)
  BY DEF NextSignal, IInv, TypeOK
<1>2. Head(signals) \in Fitting(v, want) /\ signals' \in Seq(Fitting(v, want))
  BY <1>1, HeadTailProperties
<1>3. ASSUME Head(signals).view # v, Tail(signals) \in Seq(Silent(v))
      PROVE  signals \in Seq(Silent(v))
  <2> DEFINE n == Len(signals)
             T == Silent(v)
  <2>1. Head(signals) \in T
    BY <1>2, <1>3 DEF Fitting, Silent
  <2>2. /\ Len(Tail(signals)) = n - 1 /\ n \in Nat \ {0} /\ Head(signals) = signals[1]
        /\ \A i \in 1..Len(Tail(signals)) : Tail(signals)[i] = signals[i + 1]
    BY <1>1, HeadTailProperties, EmptySeq
  <2> HIDE DEF n, T
  <2>3. ASSUME NEW i \in 1..n
        PROVE  signals[i] \in T
    <3>1. CASE i = 1
      BY <2>1, <2>2, <3>1
    <3>2. CASE i # 1
      <4>1. i - 1 \in 1..Len(Tail(signals)) /\ signals[i] = Tail(signals)[i - 1]
        BY <2>2, <3>2
      <4>2. QED
        BY <1>3, <4>1, ElementOfSeq DEF T
    <3>3. QED
      BY <3>1, <3>2
  <2>4. signals \in [1..n -> T]
    BY <1>1, <2>3 DEF n
  <2>5. QED
    BY <2>2, <2>4 DEF T
<1>4. QED
  BY <1>1, <1>2, <1>3 DEF Fitting

\* What is not in flight has neither a thread nor a signal.
LEMMA NotInFlight ==
  ASSUME IInv, NEW v \in View, ~InFlight(v)
  PROVE  NoneFor(v)
<1>1. \A t \in Slot : v \notin Leads(thread[t].op)
  BY DEF InFlight
<1>2. signals \in Seq(SignalType)
  BY DEF IInv, TypeOK
<1>3. \A i \in 1..Len(signals) : signals[i] \in Silent(v)
  <2>1. ASSUME NEW i \in 1..Len(signals)
        PROVE  signals[i] \in Silent(v)
    <3>1. signals[i] \in SignalType
      BY <1>2, ElementOfSeq
    <3>2. v \notin Leads(signals[i].view)
      BY DEF InFlight
    <3>3. signals[i].view # v
      BY <3>2, LeadsAside
    <3>4. QED
      BY <3>1, <3>3 DEF Silent
  <2>2. QED
    BY <2>1
<1>4. signals \in [1..Len(signals) -> Silent(v)]
  BY <1>2, <1>3
<1>5. signals \in Seq(Silent(v))
  BY <1>2, <1>4
<1>6. QED
  BY <1>1, <1>5 DEF NoneFor

\* The user asks for v, or for something else.
LEMMA AsksView ==
  ASSUME IInv, NEW v \in View, ViewGood(v), v \notin crossed',
         NEW t \in Slot, NEW op \in Op, NEW key \in Key, Asks(t, op, key),
         op = "labels" => key = FirstLabel,
         op \in View \cup {"post"} => op \in QueryView \/ key = account
  PROVE  ViewGood(v)'
<1> DEFINE k == IF op \in QueryView THEN key ELSE None
<1>1. /\ thread'[t].op = op /\ thread'[t].at = "asked" /\ thread'[t].key = k
      /\ \A u \in Slot \ {t} : thread'[u] = thread[u]
  BY SlotsAfter, AskedFields DEF Asks, IInv
<1>2. thread[t].op = "none"
  BY AskedFields DEF Asks
<1>3. UNCHANGED <<account, signals, shown>>
  BY DEF Asks
<1>4. CASE v \in Leads(op)
  <2>1. ~InFlight(v) /\ wanted'[v] = key
    BY <1>4 DEF Asks, Wants
  <2>2. NoneFor(v)
    BY <2>1, NotInFlight
  <2>3. Brings(thread'[t], v, account, key)
    <3>1. CASE v \in QueryView
      <4>1. op = v \/ op = "labels"
        BY <1>4, <3>1, LeadsAside
      <4>2. thread'[t].op # "labels" => thread'[t].key = key
        BY <1>1, <3>1, <4>1
      <4>3. QED
        BY <1>1, <3>1, <4>2 DEF Brings
    <3>2. CASE v \notin QueryView
      <4>1. op \notin QueryView \cup {"labels"}
        BY <1>4, <3>2, LeadsAside
      <4>2. op \in View \cup {"post"}
        BY <1>4, <4>1, LeadsAside, ViewNames
      <4>3. QED
        BY <1>1, <3>2, <4>1, <4>2 DEF Brings
    <3>3. QED
      BY <3>1, <3>2
  <2>4. \A u \in Slot : v \in Leads(thread'[u].op) => Brings(thread'[u], v, account', wanted'[v])
    BY <1>1, <1>3, <2>1, <2>2, <2>3 DEF NoneFor
  <2>5. signals' \in Seq(Fitting(v, wanted'[v]))
    <3>1. Silent(v) \subseteq Fitting(v, key)
      BY DEF Silent, Fitting
    <3>2. signals' \in Seq(Silent(v))
      BY <1>3, <2>2 DEF NoneFor
    <3>3. QED
      BY <2>1, <3>1, <3>2, SeqMonotonic
  <2>6. ~NoneFor(v)'
    BY <1>1, <1>4 DEF NoneFor
  <2>7. QED
    BY <2>4, <2>5, <2>6 DEF ViewGood
<1>5. CASE v \notin Leads(op)
  <2>1. wanted'[v] = wanted[v] /\ (v \in failed => v \in failed')
    BY <1>5 DEF Asks, Wants
  <2>2. v \notin Leads(thread'[t].op) /\ v \notin Leads(thread[t].op)
    BY <1>1, <1>2, <1>5, LeadsAside
  <2>3. QED
    BY <1>1, <1>3, <2>1, <2>2, ViewGoesOn
<1>6. QED
  BY <1>4, <1>5

LEMMA UserView ==
  ASSUME IInv, NEW v \in View, ViewGood(v), v \notin crossed', NEW t \in Slot, UserAsks(t)
  PROVE  ViewGood(v)'
<1>1. CASE getBannerData(t)
  <2>1. Asks(t, "banner", None) /\ "banner" \in Op /\ None \in Key
    BY <1>1, Keys, ViewNames DEF getBannerData
  <2>2. "banner" \notin View \cup {"post", "labels"}
    BY ViewNames
  <2>3. QED
    BY <2>1, <2>2, AsksView
<1>2. ASSUME NEW op \in View \cup {"labels", "post"}, NEW key \in Key, Asks(t, op, key),
             op = "labels" => key = FirstLabel,
             op \notin QueryView \cup {"labels"} => key = account
      PROVE  ViewGood(v)'
  <2>1. op \in Op /\ "labels" \notin View \cup {"post"}
    BY ViewNames
  <2>2. op \in View \cup {"post"} => op \in QueryView \/ key = account
    BY <1>2, <2>1
  <2>3. QED
    BY <1>2, <2>1, <2>2, AsksView
<1>3. QED
  BY <1>1, <1>2, UserAsksIsAsk DEF IInv

LEMMA StartView ==
  ASSUME IInv, NEW v \in View, ViewGood(v), NEW t \in Slot, Start(t)
  PROVE  ViewGood(v)'
<1>1. /\ thread'[t].op = thread[t].op /\ thread'[t].at = "sent"
      /\ thread'[t].key = (IF thread[t].op \in QueryView THEN thread[t].key ELSE account)
      /\ \A u \in Slot \ {t} : thread'[u] = thread[u]
  BY StartFields DEF IInv
<1>2. UNCHANGED <<account, signals, wanted, shown, failed>>
  BY DEF Start
<1>3. ASSUME v \in Leads(thread[t].op)
      PROVE  Brings(thread'[t], v, account, wanted[v])
  <2>1. Brings(thread[t], v, account, wanted[v]) /\ thread[t].op \in Op
    BY <1>3, OpTyped DEF ViewGood
  <2>2. CASE v \in QueryView
    <3>1. thread[t].op # "labels" => thread[t].op \in QueryView
      BY <1>3, <2>1, <2>2, LeadsAside
    <3>2. QED
      BY <1>1, <2>1, <2>2, <3>1 DEF Brings
  <2>3. CASE v \notin QueryView
    <3>1. thread[t].op \notin QueryView
      BY <1>3, <2>1, <2>3, LeadsAside
    <3>2. QED
      BY <1>1, <2>1, <2>3, <3>1 DEF Brings
  <2>4. QED
    BY <2>2, <2>3
<1>4. QED
  BY <1>1, <1>2, <1>3, ViewGoesOn

LEMMA ServeView ==
  ASSUME IInv, NEW v \in View, ViewGood(v), NEW t \in Slot, Serve(t)
  PROVE  ViewGood(v)'
<1>1. /\ thread'[t].op = thread[t].op /\ thread'[t].key = thread[t].key
      /\ \A u \in Slot \ {t} : thread'[u] = thread[u]
  BY ServeFields
<1>2. UNCHANGED <<account, signals, wanted, shown, failed>> /\ thread[t].at = "sent"
  BY DEF Serve, history
<1>3. v \in Leads(thread[t].op) => Brings(thread'[t], v, account, wanted[v])
  BY <1>1, <1>2 DEF ViewGood, Brings
<1>4. QED
  BY <1>1, <1>2, <1>3, ViewGoesOn

\* A failure is remembered for every view that the request would have led to.
LEMMA FailView ==
  ASSUME IInv, NEW v \in View, ViewGood(v), NEW t \in Slot, Fail(t) \/ Refuse(t)
  PROVE  ViewGood(v)'
<1>1. /\ thread'[t].op \in {"none", "banner", "hot"}
      /\ \A u \in Slot \ {t} : thread'[u] = thread[u]
  BY SlotsAfter, AskedFields DEF Fail, Refuse, IInv
<1>2. UNCHANGED <<account, signals, wanted, shown>> /\ failed \subseteq failed'
  BY DEF Fail, Refuse, EndsSpinner
<1>3. v \notin Leads(thread'[t].op)
  BY <1>1, LeadsAside
<1>4. v \in Leads(thread[t].op) => v \in failed'
  <2>1. CASE thread[t].op = "banner"
    BY <2>1, LeadsAside
  <2>2. CASE thread[t].op # "banner"
    BY <2>2 DEF Fail, Refuse, EndsSpinner
  <2>3. QED
    BY <2>1, <2>2
<1>5. QED
  BY <1>1, <1>2, <1>3, <1>4, ViewGoesOn

\* A thread that queues a signal with what it brought, and is done with the view.
LEMMA QueueView ==
  ASSUME IInv, NEW v \in View, ViewGood(v), NEW t \in Slot,
         \A u \in Slot \ {t} : thread'[u] = thread[u],
         UNCHANGED <<account, wanted, shown, failed>>,
         NEW view \in Op, NEW key \in Key, NEW got \in Nat, Queue(Signal(view, key, got)),
         view = v => key = wanted[v],
         v \in Leads(thread'[t].op) => Brings(thread'[t], v, account, wanted[v]),
         v \in Leads(thread[t].op) => view = v \/ v \in Leads(thread'[t].op)
  PROVE  ViewGood(v)'
<1>1. signals \in Seq(Fitting(v, wanted[v]))
  BY DEF ViewGood
<1>2. /\ signals' \in Seq(Fitting(v, wanted[v]))
      /\ signals' \in Seq(Silent(v)) => view # v /\ signals \in Seq(Silent(v))
  BY <1>1, ViewQueued
<1>3. ASSUME NoneFor(v)', v \notin failed'
      PROVE  shown'[v] = wanted[v]
  <2>1. view # v /\ signals \in Seq(Silent(v)) /\ v \notin Leads(thread'[t].op)
    BY <1>2, <1>3 DEF NoneFor
  <2>2. \A u \in Slot : v \notin Leads(thread[u].op)
    BY <1>3, <2>1 DEF NoneFor
  <2>3. QED
    BY <1>3, <2>1, <2>2 DEF NoneFor, ViewGood
<1>4. QED
  BY <1>2, <1>3, ViewSlot

\* A thread that is on the way to another request.
LEMMA NextView ==
  ASSUME IInv, NEW v \in View, ViewGood(v), NEW t \in Slot,
         HandleBanner(t) \/ HandleLabels(t) \/ HandlePost(t)
  PROVE  ViewGood(v)'
<1>1. \A u \in Slot \ {t} : thread'[u] = thread[u]
  BY SlotsAfter DEF HandleBanner, HandleLabels, HandlePost, IInv
<1>2. UNCHANGED <<account, signals, wanted, shown, failed>>
  BY DEF HandleBanner, HandleLabels, HandlePost, history
<1>3. CASE HandleBanner(t)
  <2>1. thread'[t].op = "hot" /\ thread[t].op = "banner"
    BY <1>3, SlotsAfter, AskedFields DEF HandleBanner, Handle, IInv
  <2>2. QED
    BY <1>1, <1>2, <2>1, LeadsAside, ViewGoesOn
<1>4. CASE HandleLabels(t)
  <2>1. /\ thread[t].op = "labels" /\ thread'[t].op = "games" /\ thread'[t].key = FirstLabel
    BY <1>4, SlotsAfter, AskedFields DEF HandleLabels, Handle, IInv
  <2>2. Leads(thread[t].op) = {"games"} /\ Leads(thread'[t].op) = {"games"} /\ "games" \in QueryView
    BY <2>1, LeadsTo DEF QueryView
  <2>3. v \in Leads(thread'[t].op) => Brings(thread'[t], v, account, wanted[v])
    BY <2>1, <2>2 DEF ViewGood, Brings
  <2>4. QED
    BY <1>1, <1>2, <2>2, <2>3, ViewGoesOn
<1>5. CASE HandlePost(t)
  <2>1. thread[t].op = "post" /\ thread'[t].op = "sign" /\ thread'[t].at = "asked"
    BY <1>5, SlotsAfter, AskedFields DEF HandlePost, Handle, IInv
  <2>2. Leads(thread[t].op) = {"sign"} /\ Leads(thread'[t].op) = {"sign"} /\ "sign" \notin QueryView
    BY <2>1, LeadsTo DEF QueryView
  <2>3. v \in Leads(thread'[t].op) => Brings(thread'[t], v, account, wanted[v])
    BY <2>1, <2>2 DEF ViewGood, Brings
  <2>4. QED
    BY <1>1, <1>2, <2>2, <2>3, ViewGoesOn
<1>6. QED
  BY <1>3, <1>4, <1>5

\* A thread that hands its data to the UI thread.
LEMMA SendView ==
  ASSUME IInv, NEW v \in View, ViewGood(v), NEW t \in Slot,
         HandleGames(t) \/ HandleSign(t) \/ HandleReward(t)
  PROVE  ViewGood(v)'
<1>1. \A u \in Slot \ {t} : thread'[u] = thread[u]
  BY SlotsAfter DEF HandleGames, HandleSign, HandleReward, IInv
<1>2. UNCHANGED <<account, wanted, shown, failed>>
  BY DEF HandleGames, HandleSign, HandleReward, history
<1>3. thread[t].op \in Op /\ thread[t].key \in Key /\ thread[t].got \in Nat /\ 0 \in Nat
  BY OpTyped
<1>4. v \in Leads(thread[t].op) => Brings(thread[t], v, account, wanted[v])
  BY DEF ViewGood
<1>5. CASE HandleGames(t)
  <2>1. thread[t].op \in QueryView \cup {"hot"} /\ thread'[t].op = "none"
    BY <1>5, SlotsAfter, AskedFields DEF HandleGames, Handle, IInv
  <2>2. Queue(Signal(thread[t].op, thread[t].key, thread[t].got))
    BY <1>5 DEF HandleGames
  <2>3. Leads(thread[t].op) = {thread[t].op} /\ thread[t].op # "labels" /\ v \notin Leads(thread'[t].op)
    BY <2>1, LeadsTo, LeadsAside DEF QueryView
  <2>4. thread[t].op = v => v \in QueryView
    BY <2>1, ViewNames
  <2>5. thread[t].op = v => thread[t].key = wanted[v]
    BY <1>4, <2>3, <2>4 DEF Brings
  <2>6. QED
    BY <1>1, <1>2, <1>3, <2>2, <2>3, <2>5, QueueView
<1>6. CASE HandleSign(t)
  <2>1. thread[t].op = "sign" /\ thread[t].at = "ok" /\ thread'[t].op = "none"
    BY <1>6, SlotsAfter, AskedFields DEF HandleSign, Handle, IInv
  <2>2. Queue(Signal("sign", thread[t].key, 0)) /\ "sign" \in Op
    BY <1>6, ViewNames DEF HandleSign
  <2>3. Leads(thread[t].op) = {"sign"} /\ v \notin Leads(thread'[t].op) /\ "sign" \notin QueryView
    BY <2>1, LeadsTo, LeadsAside DEF QueryView
  <2>4. "sign" = v => thread[t].key = wanted[v]
    BY <1>4, <2>1, <2>3 DEF Brings
  <2>5. v \in Leads(thread[t].op) => "sign" = v
    BY <2>3
  <2>6. QED
    BY <1>1, <1>2, <1>3, <2>2, <2>3, <2>4, <2>5, QueueView
<1>7. CASE HandleReward(t)
  <2>1. /\ thread[t].op = "reward" /\ thread[t].at = "ok"
        /\ thread'[t].op = "client" /\ thread'[t].at = "asked"
    BY <1>7, SlotsAfter, AskedFields DEF HandleReward, Handle, IInv
  <2>2. Queue(Signal("reward", thread[t].key, 0)) /\ "reward" \in Op
    BY <1>7, ViewNames DEF HandleReward
  <2>3. /\ Leads(thread[t].op) = {"reward", "client"} /\ Leads(thread'[t].op) = {"client"}
        /\ "reward" \notin QueryView /\ "client" \notin QueryView
    BY <2>1, LeadsTo DEF QueryView
  <2>4. "reward" = v => thread[t].key = wanted[v]
    BY <1>4, <2>1, <2>3 DEF Brings
  <2>5. v \in Leads(thread'[t].op) => Brings(thread'[t], v, account, wanted[v])
    BY <1>4, <2>1, <2>3 DEF Brings
  <2>6. v \in Leads(thread[t].op) => "reward" = v \/ v \in Leads(thread'[t].op)
    BY <2>3
  <2>7. QED
    BY <1>1, <1>2, <1>3, <2>2, <2>4, <2>5, <2>6, QueueView
<1>8. QED
  BY <1>5, <1>6, <1>7

\* A thread that shows what it brought in its own view, and goes on to the other
\* views that it led to.
LEMMA ShowView ==
  ASSUME IInv, NEW v \in View, ViewGood(v), NEW t \in Slot,
         \A u \in Slot \ {t} : thread'[u] = thread[u],
         UNCHANGED <<account, signals, wanted, failed>>,
         thread[t].op \in View \ QueryView, thread[t].at = "ok",
         Shows(thread[t].op, thread[t].key),
         thread'[t].at = "asked" \/ v \notin Leads(thread'[t].op),
         v # thread[t].op => (v \in Leads(thread[t].op) <=> v \in Leads(thread'[t].op)),
         v \notin QueryView \/ v \notin Leads(thread'[t].op)
  PROVE  ViewGood(v)'
<1> DEFINE op == thread[t].op
<1>1. v \in Leads(op) => Brings(thread[t], v, account, wanted[v])
  BY DEF ViewGood
<1>2. shown'[op] = thread[t].key /\ \A w \in View \ {op} : shown'[w] = shown[w]
  BY DEF Shows, IInv, TypeOK
<1>3. v = op => v \in Leads(op) /\ v \notin QueryView
  BY LeadsAside
<1>4. CASE v = op
  <2>1. op # "post"
    BY ViewNames
  <2>2. wanted[v] = account /\ thread[t].key = account
    BY <1>1, <1>3, <1>4, <2>1 DEF Brings
  <2>3. shown'[v] = wanted[v]
    BY <1>2, <1>4, <2>2
  <2>4. v \in Leads(thread'[t].op) => Brings(thread'[t], v, account, wanted[v])
    BY <1>3, <1>4, <2>2 DEF Brings
  <2>5. QED
    BY <2>3, <2>4, ViewSlot DEF ViewGood
<1>5. CASE v # op
  <2>1. shown'[v] = shown[v]
    BY <1>2, <1>5
  <2>2. v \in Leads(thread'[t].op) => Brings(thread'[t], v, account, wanted[v])
    BY <1>1, <1>5 DEF Brings
  <2>3. QED
    BY <1>5, <2>1, <2>2, ViewGoesOn
<1>6. QED
  BY <1>4, <1>5

\* The members of the session, and the tables one after the other.
LEMMA MemberView ==
  ASSUME IInv, NEW v \in View, ViewGood(v), NEW t \in Slot, HandleMember(t)
  PROVE  ViewGood(v)'
<1>1. /\ \A u \in Slot \ {t} : thread'[u] = thread[u]
      /\ thread[t].op \in {"promo", "client"} /\ thread[t].at = "ok" /\ thread'[t].op = "none"
      /\ Shows(thread[t].op, thread[t].key)
      /\ UNCHANGED <<account, signals, wanted, failed>>
  BY SlotsAfter, AskedFields DEF HandleMember, Handle, IInv, history
<1>2. Leads(thread[t].op) = {thread[t].op} /\ v \notin Leads(thread'[t].op)
  BY <1>1, LeadsTo, LeadsAside
<1>3. thread[t].op \in View \ QueryView
  BY <1>1, ViewNames DEF QueryView
<1>4. QED
  BY <1>1, <1>2, <1>3, ShowView

LEMMA TableGoesOn ==
  ASSUME IInv, NEW v \in View, ViewGood(v), NEW t \in Slot, HandleTable(t)
  PROVE  ViewGood(v)'
<1> DEFINE op   == thread[t].op
           next == Tables[Position(op) + 1]
<1>1. /\ \A u \in Slot \ {t} : thread'[u] = thread[u]
      /\ op \in TableView /\ thread[t].at = "ok"
      /\ Shows(thread[t].op, thread[t].key)
      /\ UNCHANGED <<account, signals, wanted, failed>>
  BY SlotsAfter DEF HandleTable, IInv, history
<1>2. op \in View \ QueryView /\ Leads(op) = Rest(op) /\ TableView \cap QueryView = {}
  BY <1>1, ViewNames, TableNames, LeadsTo DEF QueryView
<1>3. CASE Rest(op) = {op}
  <2>1. thread'[t].op = "none"
    BY <1>3, SlotsAfter, AskedFields DEF HandleTable, IInv
  <2>2. v \notin Leads(thread'[t].op)
    BY <2>1, LeadsAside
  <2>3. v # op => v \notin Leads(op)
    BY <1>2, <1>3
  <2>4. QED
    BY <1>1, <1>2, <2>2, <2>3, ShowView
<1>4. CASE Rest(op) # {op}
  <2>1. next \in TableView /\ Rest(op) = {op} \cup Rest(next)
    BY <1>1, <1>4, NextTable
  <2>2. thread'[t].op = next /\ thread'[t].at = "asked"
    BY <1>4, SlotsAfter, AskedFields DEF HandleTable, IInv
  <2> HIDE DEF next
  <2>3. Leads(thread'[t].op) = Rest(next) /\ Rest(next) \subseteq TableView
    BY <2>1, <2>2, LeadsTo, RestInTables
  <2>4. v # op => (v \in Leads(op) <=> v \in Leads(thread'[t].op))
    BY <1>2, <2>1, <2>3
  <2>5. v \notin QueryView \/ v \notin Leads(thread'[t].op)
    BY <1>2, <2>3
  <2>6. QED
    BY <1>1, <1>2, <2>2, <2>4, <2>5, ShowView
<1>5. QED
  BY <1>3, <1>4

LEMMA WorkerView ==
  ASSUME IInv, NEW v \in View, ViewGood(v), NEW t \in Slot, Worker(t)
  PROVE  ViewGood(v)'
BY StartView, NextView, SendView, MemberView, TableGoesOn DEF Worker

\* A signal is taken: what it shows is what was asked for.
LEMMA OnHotView ==
  ASSUME IInv, NEW v \in View, ViewGood(v), OnHot
  PROVE  ViewGood(v)'
<1>1. NextSignal({"hot"}) /\ UNCHANGED <<account, thread, wanted, shown, failed>>
  BY DEF OnHot, history
<1>2. signals \in Seq(Fitting(v, wanted[v]))
  BY DEF ViewGood
<1>3. Head(signals).view # v
  BY <1>1, ViewNames DEF NextSignal
<1>4. signals' \in Seq(Fitting(v, wanted[v])) /\ (signals' \in Seq(Silent(v)) => signals \in Seq(Silent(v)))
  BY <1>1, <1>2, <1>3, ViewTaken
<1>5. NoneFor(v)' => NoneFor(v)
  BY <1>1, <1>4 DEF NoneFor
<1>6. QED
  BY <1>1, <1>4, <1>5 DEF ViewGood

LEMMA OnListView ==
  ASSUME IInv, NEW v \in View, ViewGood(v), OnList
  PROVE  ViewGood(v)'
<1> DEFINE sig == Head(signals)
<1>1. /\ NextSignal(View) /\ UNCHANGED <<account, thread, wanted, failed>>
      /\ Shows(sig.view, sig.key) /\ sig.view \in View
  BY DEF OnList, NextSignal, history
<1>2. shown'[sig.view] = sig.key /\ \A w \in View \ {sig.view} : shown'[w] = shown[w]
  BY <1>1 DEF Shows, IInv, TypeOK
<1>3. signals \in Seq(Fitting(v, wanted[v]))
  BY DEF ViewGood
<1>4. /\ signals' \in Seq(Fitting(v, wanted[v]))
      /\ sig.view = v => sig.key = wanted[v]
      /\ sig.view # v /\ signals' \in Seq(Silent(v)) => signals \in Seq(Silent(v))
  BY <1>1, <1>3, ViewTaken
<1>5. ASSUME NoneFor(v)', v \notin failed'
      PROVE  shown'[v] = wanted'[v]
  <2>1. CASE sig.view = v
    BY <1>1, <1>2, <1>4, <2>1
  <2>2. CASE sig.view # v
    <3>1. NoneFor(v)
      BY <1>1, <1>4, <1>5, <2>2 DEF NoneFor
    <3>2. QED
      BY <1>1, <1>2, <1>5, <2>2, <3>1 DEF ViewGood
  <2>3. QED
    BY <2>1, <2>2
<1>6. QED
  BY <1>1, <1>4, <1>5 DEF ViewGood

\* The account changes: a view of its data that was on its way is crossed.
LEMMA ChangeView ==
  ASSUME IInv, NEW v \in View, ViewGood(v), v \notin crossed',
         NEW a \in Account \cup {None}, ChangeAccount(a)
  PROVE  ViewGood(v)'
<1>1. UNCHANGED <<thread, signals, shown, wanted, failed>>
  BY DEF ChangeAccount
<1>2. ASSUME NEW t \in Slot, v \in Leads(thread[t].op)
      PROVE  Brings(thread[t], v, account', wanted[v])
  <2>1. InFlight(v)
    BY <1>2 DEF InFlight
  <2>2. v \in QueryView
    BY <2>1 DEF ChangeAccount, View
  <2>3. Brings(thread[t], v, account, wanted[v])
    BY <1>2 DEF ViewGood
  <2>4. QED
    BY <2>2, <2>3 DEF Brings
<1>3. NoneFor(v)' <=> NoneFor(v)
  BY <1>1 DEF NoneFor
<1>4. QED
  BY <1>1, <1>2, <1>3 DEF ViewGood

\* What has nothing to do with the views.
LEMMA ViewKept ==
  ASSUME NEW v \in View, ViewGood(v), UNCHANGED <<account, thread, signals, shown, wanted, failed>>
  PROVE  ViewGood(v)'
<1>1. NoneFor(v)' <=> NoneFor(v)
  BY DEF NoneFor
<1>2. QED
  BY <1>1 DEF ViewGood

\* No step takes a view out of those that were crossed.
LEMMA CrossedGrows == [Next]_vars => crossed \subseteq crossed'
<1> SUFFICES ASSUME [Next]_vars
             PROVE  crossed \subseteq crossed'
  OBVIOUS
<1> USE DEF homeVars, signVars, serverVars, history
<1>1. ASSUME NEW t \in Slot, UserAsks(t)
      PROVE  crossed \subseteq crossed'
  BY <1>1 DEF UserAsks, getBannerData, getAllGameLabel, getGameListByLabel, gameSearch, homeSearch,
     getSigninList, postSignin, getSignReward, getPromoCode, getOrderList, Asks, Wants
<1>2. ASSUME NEW t \in Slot, Worker(t) \/ Serve(t) \/ Fail(t) \/ Refuse(t)
      PROVE  crossed \subseteq crossed'
  BY <1>2 DEF Worker, Start, HandleBanner, HandleLabels, HandleGames, HandleSign, HandlePost,
     HandleReward, HandleMember, HandleTable, Serve, Fail, Refuse
<1>3. ASSUME NEW i \in 1..Len(m_tabTitleList), SelectIndex(i)
      PROVE  crossed \subseteq crossed'
  BY <1>3 DEF SelectIndex
<1>4. ASSUME NEW a \in Account \cup {None}, ChangeAccount(a)
      PROVE  crossed \subseteq crossed'
  BY <1>4 DEF ChangeAccount
<1>5. CASE UI \/ Publish \/ Midnight
  BY <1>5 DEF UI, OnHot, OnList, Publish, Midnight
<1>6. CASE UNCHANGED vars
  BY <1>6 DEF vars
<1>7. QED
  BY <1>1, <1>2, <1>3, <1>4, <1>5, <1>6 DEF Next

LEMMA ViewsStep == IInv /\ ViewsInv /\ [Next]_vars => ViewsInv'
<1> SUFFICES ASSUME IInv, ViewsInv, [Next]_vars, NEW v \in View, v \notin crossed'
             PROVE  ViewGood(v)'
  BY DEF ViewsInv
<1>1. ViewGood(v)
  BY CrossedGrows DEF ViewsInv
<1> USE DEF homeVars, signVars, serverVars, history
<1>2. ASSUME NEW t \in Slot, UserAsks(t) \/ Worker(t) \/ Serve(t) \/ Fail(t) \/ Refuse(t)
      PROVE  ViewGood(v)'
  BY <1>1, <1>2, UserView, WorkerView, ServeView, FailView
<1>3. ASSUME NEW i \in 1..Len(m_tabTitleList), SelectIndex(i)
      PROVE  ViewGood(v)'
  BY <1>1, <1>3, ViewKept DEF SelectIndex
<1>4. ASSUME NEW a \in Account \cup {None}, ChangeAccount(a)
      PROVE  ViewGood(v)'
  BY <1>1, <1>4, ChangeView
<1>5. CASE UI
  BY <1>1, <1>5, OnHotView, OnListView DEF UI
<1>6. CASE Publish \/ Midnight
  BY <1>1, <1>6, ViewKept DEF Publish, Midnight
<1>7. CASE UNCHANGED vars
  BY <1>1, <1>7, ViewKept DEF vars
<1>8. QED
  BY <1>2, <1>3, <1>4, <1>5, <1>6, <1>7 DEF Next

\* A view shows what its user asked for last: through getAllGameLabel's and
\* postSignin's second request, getSignReward's refresh of the client, and the
\* four requests of getOrderList's chain, which each read the token anew.
THEOREM LoneViewsShowOwn == Spec => []LoneViewIsOwn
<1>1. Init => ViewsInv
  <2> SUFFICES ASSUME Init, NEW v \in View
               PROVE  ViewGood(v)
    BY DEF ViewsInv
  <2>1. \A t \in Slot : thread[t].op \in {"banner", "none"}
    <3>1. PICK t \in Slot : thread = [s \in Slot |-> IF s = t THEN Asked("banner", None) ELSE Free]
      BY DEF Init
    <3>2. QED
      BY <3>1, AskedFields
  <2>2. \A t \in Slot : v \notin Leads(thread[t].op)
    BY <2>1, LeadsAside
  <2>3. signals \in Seq(Fitting(v, wanted[v]))
    BY EmptySeq DEF Init
  <2>4. shown[v] = wanted[v]
    BY DEF Init
  <2>5. QED
    BY <2>2, <2>3, <2>4 DEF ViewGood
<1>2. IInv /\ ViewsInv /\ [Next]_vars => ViewsInv'
  BY ViewsStep
<1>3. IInv /\ ViewsInv => LoneViewIsOwn
  BY NotInFlight DEF ViewsInv, ViewGood, LoneViewIsOwn
<1>4. QED
  BY <1>1, <1>2, <1>3, Inductive, PTL DEF Spec
=============================================================================
