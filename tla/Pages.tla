------------------------------- MODULE Pages -------------------------------
(***************************************************************************)
(* What the pages show: the requests of HomePage (banner, recommended      *)
(* games, labels, searches, sign-in, rewards, promotion code) and the      *)
(* chain of requests that fills the four tables of the user's page.  A     *)
(* view is a place that a reply is shown in.  All have one pattern: a      *)
(* detached thread per request, the last reply that is handled is shown,   *)
(* and nothing compares it with what was asked for last.  The pane of the  *)
(* recommended goods is hidden and works like that of the games.           *)
(***************************************************************************)
EXTENDS Naturals, Sequences, SequencesExt

CONSTANTS
  Account,     \* accounts of the service
  Label,       \* labels that games are listed by
  FirstLabel,  \* the first one
  Word,        \* what is searched for
  Games,       \* lists of games
  Edition,     \* the recommended games, edition by edition: a list for every tab
  None,
  Slot,        \* bound: requests in flight
  MaxActs      \* bound: requests that the user starts, and logouts

ASSUME PagesAssumption ==
  /\ FirstLabel \in Label
  /\ None \notin Account \cup Label \cup Word \cup Games
  /\ Edition \in Seq(Seq(Games)) /\ Edition # <<>>
  /\ MaxActs \in Nat

VARIABLES
  account,               \* Session: whose token requests are made with
  m_bannerModelIsReady,  \* HomePage
  m_signDataIsReady,     \* HomePage
  m_signRewardIsReady,   \* HomePage
  m_enableSign,          \* HomePage: "signed", "unsigned" today, or "blank" (no text)
  m_tabTitleList,        \* HomeHotGamesTabModel: the tabs on screen
  m_hotGamesList,        \* HomeHotGamesTabModel: the lists behind the tabs
  m_showLoading,         \* HomeHotGamesTabModel
  tab,                   \* the chosen tab
  hotGames,              \* HomeHotGamesModel: the list below the tabs
  shown,                 \* the views: whose, or which, data they show
  thread,                \* the requests
  signals,               \* signals queued to the UI thread
  edition,               \* server: number of the edition of the recommended games
  signed,                \* server: who has signed in today
  acts,                  \* number of things the user has done
  wanted,                \* history: what was asked for last, by view
  crossed,               \* history: views that were asked for while a request was in flight
  failed,                \* history: views whose last request failed
  outdated               \* history: account or day changed since the list of signs was asked for

homeVars == <<m_bannerModelIsReady, m_tabTitleList, m_hotGamesList, m_showLoading, tab, hotGames>>
signVars == <<m_signDataIsReady, m_signRewardIsReady, m_enableSign>>
serverVars == <<edition, signed>>
history == <<wanted, crossed, failed, outdated>>
vars == <<account, homeVars, signVars, shown, thread, signals, serverVars, acts, history>>

QueryView == {"games", "search"}                  \* AllGamesPage, the pane of results
OwnView   == {"sign", "reward", "promo", "client"}
Tables    == <<"order", "redeem", "duration", "game">>
TableView == Range(Tables)
View      == QueryView \cup OwnView \cup TableView

Op  == View \cup {"none", "banner", "hot", "labels", "post"}
Key == Account \cup Label \cup Word \cup {None}

\* key: what the request asks for, or whose token it carries.  got: of a
\* reply, the edition of the recommended games, or 1 for a day already signed.
ThreadType == [op: Op, at: {"free", "asked", "sent", "ok"}, key: Key, got: Nat]
SignalType == [view: Op, key: Key, got: Nat]

Free == [op |-> "none", at |-> "free", key |-> None, got |-> 0]
Asked(op, key) == [op |-> op, at |-> "asked", key |-> key, got |-> 0]
Signal(view, key, got) == [view |-> view, key |-> key, got |-> got]

TypeOK ==
  /\ account \in Account \cup {None}
  /\ m_bannerModelIsReady \in BOOLEAN
  /\ m_signDataIsReady \in BOOLEAN
  /\ m_signRewardIsReady \in BOOLEAN
  /\ m_enableSign \in {"blank", "signed", "unsigned"}
  /\ m_tabTitleList \in Seq(Games)
  /\ m_hotGamesList \in Seq(Games)
  /\ m_showLoading \in BOOLEAN
  /\ tab \in Nat \ {0}
  /\ hotGames \in Games \cup {None}
  /\ shown \in [View -> Key]
  /\ thread \in [Slot -> ThreadType]
  /\ signals \in Seq(SignalType)
  /\ edition \in 1..Len(Edition)
  /\ signed \subseteq Account
  /\ acts \in 0..MaxActs
  /\ wanted \in [View -> Key]
  /\ crossed \subseteq View
  /\ failed \subseteq Op
  /\ outdated \in BOOLEAN

\* The home page asks for its banner as soon as it is complete.  The flags of
\* the sign-in are not initialised.
Init ==
  /\ account = None
  /\ m_bannerModelIsReady = FALSE
  /\ m_signDataIsReady \in BOOLEAN
  /\ m_signRewardIsReady \in BOOLEAN
  /\ m_enableSign = "blank"
  /\ m_tabTitleList = <<>>
  /\ m_hotGamesList = <<>>
  /\ m_showLoading = TRUE
  /\ tab = 1
  /\ hotGames = None
  /\ shown = [v \in View |-> None]
  /\ \E t \in Slot : thread = [s \in Slot |-> IF s = t THEN Asked("banner", None) ELSE Free]
  /\ signals = <<>>
  /\ edition = 1
  /\ signed = {}
  /\ acts = 0
  /\ wanted = [v \in View |-> None]
  /\ crossed = {}
  /\ failed = {}
  /\ outdated = FALSE

Position(v) == CHOOSE i \in 1..Len(Tables) : Tables[i] = v
\* The tables that a chain which is busy with v has yet to fill.
Rest(v) == {Tables[i] : i \in Position(v)..Len(Tables)}
\* The views that a request for op, or its chain, ends up in.
Leads(op) ==
  CASE op \in TableView -> Rest(op)
    [] op = "labels"    -> {"games"}
    [] op = "post"      -> {"sign"}
    [] op = "reward"    -> {"reward", "client"}
    [] OTHER            -> {op}

InFlight(v) ==
  \/ \E t \in Slot : v \in Leads(thread[t].op)
  \/ \E i \in 1..Len(signals) : v \in Leads(signals[i].view)

Becomes(t, r) == thread' = [thread EXCEPT ![t] = r]
Queue(s) == signals' = Append(signals, s)
Shows(v, key) == shown' = [shown EXCEPT ![v] = key]
UserActs == acts < MaxActs /\ acts' = acts + 1

\* History: the user asks for the views that op leads to.
Wants(op, key) ==
  /\ wanted' = [v \in View |-> IF v \in Leads(op) THEN key ELSE wanted[v]]
  /\ crossed' = crossed \cup {v \in Leads(op) \cap View : InFlight(v)}
  /\ failed' = failed \ Leads(op)

-----------------------------------------------------------------------------
(* The user, and the UI thread's part of the operations *)

\* The user asks for the views that op leads to; the thread starts.
Asks(t, op, key) ==
  /\ thread[t] = Free
  /\ UserActs
  /\ Becomes(t, Asked(op, IF op \in QueryView THEN key ELSE None))
  /\ Wants(op, key)
  /\ UNCHANGED <<account, homeVars, signVars, shown, signals, serverVars, outdated>>

\* The refresh button, or a click that leads back to the home page.
getBannerData(t) == Asks(t, "banner", None)

\* LeftRectPage's second button: the labels, and the games of the first.
getAllGameLabel(t) == account # None /\ Asks(t, "labels", FirstLabel)

getGameListByLabel(t, labelId) == account # None /\ Asks(t, "games", labelId)

gameSearch(t, keyWords) == account # None /\ Asks(t, "games", keyWords)

\* The search box of the title bar.
homeSearch(t, keyWords) == Asks(t, "search", keyWords)

\* SigninPopup asks only if the list is empty.
getSigninList(t) ==
  /\ account # None
  /\ shown["sign"] = None
  /\ Asks(t, "sign", account)

\* Mistake: the button says at once that the user has signed in.
postSignin_SaysSigned(t) ==
  /\ account # None
  /\ m_enableSign = "unsigned"
  /\ thread[t] = Free
  /\ UserActs
  /\ Becomes(t, Asked("post", None))
  /\ Wants("post", account)
  /\ m_enableSign' = "signed"
  /\ UNCHANGED <<account, homeVars, m_signDataIsReady, m_signRewardIsReady, shown, signals,
                 serverVars, outdated>>

\* The button works while it says that the user has not signed in today.
postSignin(t) ==
  /\ account # None
  /\ m_enableSign = "unsigned"
  /\ Asks(t, "post", account)

getSignReward(t) == account # None /\ Asks(t, "reward", account)

getPromoCode(t) == account # None /\ Asks(t, "promo", account)

\* The user's page.
getOrderList(t) == account # None /\ Asks(t, "order", account)

\* Mistake: a tab is chosen by the index of the code, which counts from zero.
SelectIndex_FromZero(i) ==
  /\ i \in 1..Len(m_tabTitleList)
  /\ tab' = i - 1
  /\ IF i > Len(m_hotGamesList)
     THEN UNCHANGED <<hotGames, m_showLoading>>
     ELSE hotGames' = m_hotGamesList[i] /\ m_showLoading' = FALSE
  /\ UNCHANGED <<account, m_bannerModelIsReady, m_tabTitleList, m_hotGamesList, signVars,
                 shown, thread, signals, serverVars, acts, history>>

\* A tab of the recommended games: HomeHotGamesTabModel's selectIndex.
SelectIndex(i) ==
  /\ i \in 1..Len(m_tabTitleList)
  /\ tab' = i
  /\ IF i > Len(m_hotGamesList)
     THEN UNCHANGED <<hotGames, m_showLoading>>
     ELSE hotGames' = m_hotGamesList[i] /\ m_showLoading' = FALSE
  /\ UNCHANGED <<account, m_bannerModelIsReady, m_tabTitleList, m_hotGamesList, signVars,
                 shown, thread, signals, serverVars, acts, history>>

\* Session: the user logs in, or out.  No page is cleared.
ChangeAccount(a) ==
  /\ a # account
  /\ IF a = None THEN UserActs ELSE account = None /\ UNCHANGED acts
  /\ account' = a
  /\ crossed' = crossed \cup {v \in OwnView \cup TableView : InFlight(v)}
  /\ outdated' = TRUE
  /\ UNCHANGED <<homeVars, signVars, shown, thread, signals, serverVars, wanted, failed>>

-----------------------------------------------------------------------------
(* The threads *)

\* The thread runs: it puts the spinner up and reads the token.
Start(t) ==
  /\ thread[t].at = "asked"
  /\ Becomes(t, [thread[t] EXCEPT !.at = "sent",
                                  !.key = IF thread[t].op \in QueryView THEN @ ELSE account])
  /\ m_bannerModelIsReady' = (m_bannerModelIsReady /\ thread[t].op # "banner")
  /\ m_signDataIsReady' = (m_signDataIsReady /\ thread[t].op # "sign")
  /\ m_signRewardIsReady' = (m_signRewardIsReady /\ thread[t].op # "reward")
  /\ m_enableSign' = IF thread[t].op = "sign" THEN "blank" ELSE m_enableSign
  /\ outdated' = (outdated /\ thread[t].op # "sign")
  /\ UNCHANGED <<account, m_tabTitleList, m_hotGamesList, m_showLoading, tab, hotGames, shown,
                 signals, serverVars, acts, wanted, crossed, failed>>

\* The request is answered: from here on the reply is on its way.
Serve(t) ==
  /\ thread[t].at = "sent"
  /\ thread[t].op \in OwnView \cup TableView \cup {"post"} => thread[t].key # None
  /\ thread[t].op = "post" => thread[t].key \notin signed
  /\ signed' = IF thread[t].op = "post" THEN signed \cup {thread[t].key} ELSE signed
  /\ Becomes(t, [thread[t] EXCEPT !.at = "ok",
                   !.got = CASE thread[t].op = "hot" -> edition
                             [] thread[t].op = "sign" /\ thread[t].key \in signed -> 1
                             [] OTHER -> 0])
  /\ UNCHANGED <<account, homeVars, signVars, shown, signals, edition, acts, history>>

\* What the failure of a request does to the flags: it ends the spinner, if
\* there is one.
EndsSpinner(op) ==
  /\ m_signDataIsReady' = (m_signDataIsReady \/ op = "sign")
  /\ m_signRewardIsReady' = (m_signRewardIsReady \/ op = "reward")
  /\ m_enableSign' = IF op = "sign" THEN "blank" ELSE m_enableSign
  /\ failed' = failed \cup Leads(op)

\* Mistake: a failure leaves the spinner on.
Fail_KeepsSpinner(t) ==
  /\ thread[t].at \in {"sent", "ok"}
  /\ IF thread[t].op = "banner"
     THEN Becomes(t, Asked("banner", None)) /\ UNCHANGED failed
     ELSE Becomes(t, Free) /\ failed' = failed \cup Leads(thread[t].op)
  /\ UNCHANGED <<account, homeVars, signVars, shown, signals, serverVars, acts, wanted, crossed,
                 outdated>>

\* The transfer fails, or its reply is lost: only the banner's request is repeated,
\* at once.
Fail(t) ==
  /\ thread[t].at \in {"sent", "ok"}
  /\ IF thread[t].op = "banner"
     THEN Becomes(t, Asked("banner", None)) /\ UNCHANGED <<signVars, failed>>
     ELSE Becomes(t, Free) /\ EndsSpinner(thread[t].op)
  /\ UNCHANGED <<account, homeVars, shown, signals, serverVars, acts, wanted, crossed, outdated>>

\* A status other than 200: the banner is given up, but not the games below it.
Refuse(t) ==
  /\ thread[t].at = "sent"
  /\ Becomes(t, IF thread[t].op = "banner" THEN Asked("hot", None) ELSE Free)
  /\ m_bannerModelIsReady' = (m_bannerModelIsReady /\ thread[t].op # "banner")
  /\ EndsSpinner(thread[t].op)
  /\ UNCHANGED <<account, m_tabTitleList, m_hotGamesList, m_showLoading, tab, hotGames, shown,
                 signals, serverVars, acts, wanted, crossed, outdated>>

\* A request whose reply is handled without a signal, or that leads to another.
Handle(t, op) == thread[t].op = op /\ thread[t].at = "ok"

\* The banner is there; the games below it are asked for.
HandleBanner(t) ==
  /\ Handle(t, "banner")
  /\ m_bannerModelIsReady' = TRUE
  /\ Becomes(t, Asked("hot", None))
  /\ UNCHANGED <<account, m_tabTitleList, m_hotGamesList, m_showLoading, tab, hotGames, signVars,
                 shown, signals, serverVars, acts, history>>

\* getAllGameLabel's reply: the games of the first label are asked for.
HandleLabels(t) ==
  /\ Handle(t, "labels")
  /\ Becomes(t, Asked("games", FirstLabel))
  /\ UNCHANGED <<account, homeVars, signVars, shown, signals, serverVars, acts, history>>

\* The recommended games, the games of a label, the results of a search.
HandleGames(t) ==
  /\ \E op \in QueryView \cup {"hot"} : Handle(t, op)
  /\ Queue(Signal(thread[t].op, thread[t].key, thread[t].got))
  /\ Becomes(t, Free)
  /\ UNCHANGED <<account, homeVars, signVars, shown, serverVars, acts, history>>

\* getSigninList's reply decides what the button says today, unless no entry of
\* the list is of the client's date: then the label stays as it is.
HandleSign(t) ==
  /\ Handle(t, "sign")
  /\ Queue(Signal("sign", thread[t].key, 0))
  /\ m_enableSign' \in {m_enableSign, IF thread[t].got = 1 THEN "signed" ELSE "unsigned"}
  /\ m_signDataIsReady' = TRUE
  /\ Becomes(t, Free)
  /\ UNCHANGED <<account, homeVars, m_signRewardIsReady, shown, serverVars, acts, history>>

\* postSignin's reply: the list is asked for again.
HandlePost(t) ==
  /\ Handle(t, "post")
  /\ Becomes(t, Asked("sign", None))
  /\ UNCHANGED <<account, homeVars, signVars, shown, signals, serverVars, acts, history>>

\* getSignReward's reply: the client's information is refreshed.
HandleReward(t) ==
  /\ Handle(t, "reward")
  /\ Queue(Signal("reward", thread[t].key, 0))
  /\ m_signRewardIsReady' = TRUE
  /\ Becomes(t, Asked("client", None))
  /\ UNCHANGED <<account, homeVars, m_signDataIsReady, m_enableSign, shown, serverVars, acts,
                 history>>

\* The promotion code and the client's information are members of the objects.
HandleMember(t) ==
  /\ \E op \in {"promo", "client"} : Handle(t, op)
  /\ Shows(thread[t].op, thread[t].key)
  /\ Becomes(t, Free)
  /\ UNCHANGED <<account, homeVars, signVars, signals, serverVars, acts, history>>

\* Mistake: the next request of the chain starts before the table is filled, and instead of it.
HandleTable_OnlyLast(t) ==
  /\ thread[t].op \in TableView /\ thread[t].at = "ok"
  /\ IF Len(Tables) > Position(thread[t].op)
     THEN Becomes(t, Asked(Tables[Position(thread[t].op) + 1], None)) /\ UNCHANGED shown
     ELSE Becomes(t, Free) /\ Shows(thread[t].op, thread[t].key)
  /\ UNCHANGED <<account, homeVars, signVars, signals, serverVars, acts, history>>

\* The worker itself fills its table and goes on to the next one.
HandleTable(t) ==
  /\ thread[t].op \in TableView /\ thread[t].at = "ok"
  /\ Shows(thread[t].op, thread[t].key)
  /\ Becomes(t, IF Rest(thread[t].op) = {thread[t].op} THEN Free
                ELSE Asked(Tables[Position(thread[t].op) + 1], None))
  /\ UNCHANGED <<account, homeVars, signVars, signals, serverVars, acts, history>>

Worker(t) ==
  \/ Start(t) \/ HandleBanner(t) \/ HandleLabels(t) \/ HandleGames(t) \/ HandleSign(t)
  \/ HandlePost(t) \/ HandleReward(t) \/ HandleMember(t) \/ HandleTable(t)

-----------------------------------------------------------------------------
(* The UI thread: signals *)

NextSignal(views) == signals # <<>> /\ Head(signals).view \in views /\ signals' = Tail(signals)

\* Mistake: the first tab is marked, but its list is not shown.
OnHot_KeepsGames ==
  /\ NextSignal({"hot"})
  /\ m_tabTitleList' = Edition[Head(signals).got]
  /\ m_hotGamesList' = m_hotGamesList \o Edition[Head(signals).got]
  /\ tab' = 1
  /\ IF hotGames = None
     THEN hotGames' = m_hotGamesList'[1] /\ m_showLoading' = FALSE
     ELSE UNCHANGED <<hotGames, m_showLoading>>
  /\ UNCHANGED <<account, m_bannerModelIsReady, signVars, shown, thread, serverVars, acts, history>>

\* HomeHotGamesTabModel: the titles are replaced, the lists appended to those
\* that are there, and the first list is shown.
OnHot ==
  /\ NextSignal({"hot"})
  /\ m_tabTitleList' = Edition[Head(signals).got]
  /\ m_hotGamesList' = m_hotGamesList \o Edition[Head(signals).got]
  /\ tab' = 1
  /\ IF m_hotGamesList' = <<>>
     THEN UNCHANGED <<hotGames, m_showLoading>>
     ELSE hotGames' = m_hotGamesList'[1] /\ m_showLoading' = FALSE
  /\ UNCHANGED <<account, m_bannerModelIsReady, signVars, shown, thread, serverVars, acts, history>>

\* The other models show what comes, whoever asked for it.
OnList ==
  /\ NextSignal(View)
  /\ Shows(Head(signals).view, Head(signals).key)
  /\ UNCHANGED <<account, homeVars, signVars, thread, serverVars, acts, history>>

UI == OnHot \/ OnList

-----------------------------------------------------------------------------
(* The service *)

\* New recommendations are published.
Publish ==
  /\ edition < Len(Edition)
  /\ edition' = edition + 1
  /\ UNCHANGED <<account, homeVars, signVars, shown, thread, signals, signed, acts, history>>

\* Another day begins: nobody has signed in.
Midnight ==
  /\ signed # {}
  /\ signed' = {}
  /\ outdated' = TRUE
  /\ UNCHANGED <<account, homeVars, signVars, shown, thread, signals, edition, acts, wanted,
                 crossed, failed>>

UserAsks(t) ==
  \/ getBannerData(t)
  \/ getAllGameLabel(t)
  \/ \E label \in Label : getGameListByLabel(t, label)
  \/ \E word \in Word : gameSearch(t, word) \/ homeSearch(t, word)
  \/ getSigninList(t)
  \/ postSignin(t)
  \/ getSignReward(t)
  \/ getPromoCode(t)
  \/ getOrderList(t)

Next ==
  \/ \E t \in Slot : UserAsks(t) \/ Worker(t) \/ Serve(t) \/ Fail(t) \/ Refuse(t)
  \/ \E i \in 1..Len(m_tabTitleList) : SelectIndex(i)
  \/ \E a \in Account \cup {None} : ChangeAccount(a)
  \/ UI
  \/ Publish
  \/ Midnight

Spec == Init /\ [][Next]_vars

-----------------------------------------------------------------------------
(* Properties *)

AtRest == signals = <<>> /\ \A t \in Slot : thread[t] = Free

\* As long as the service recommends the same games, the list below the tabs
\* is the chosen tab's, however often the home page is refreshed and whichever
\* replies cross: updateHotGamesTitle marks the first tab and shows its list.
TabShowsOwnList ==
  (edition = 1 /\ m_tabTitleList # <<>>) => (hotGames = m_tabTitleList[tab] /\ ~m_showLoading)

\* A view shows what its user asked for last once the reply is handled, if no
\* request for it overlapped another or failed: through getAllGameLabel's and
\* postSignin's second request, and along the chain of the four tables, of
\* which each request reads the token anew.
LoneViewIsOwn ==
  \A v \in View \ (crossed \cup failed) : ~InFlight(v) => shown[v] = wanted[v]

\* "今日已签到" is said only of a user who has signed in today, unless the day
\* or the user changed since the list was asked for, or two lists crossed:
\* postSignin leaves the label to the next getSigninList.
SignLabelTrue ==
  (m_enableSign = "signed" /\ ~outdated /\ "sign" \notin crossed) => account \in signed

\* The service never recommends nothing: selectIndex, which ends the spinner of
\* the recommended games, returns early if there is no first list.
NothingEmpty == \A k \in 1..Len(Edition) : Edition[k] # <<>>

\* When all requests are done the page is not left waiting: the banner is there
\* unless it was refused, for a failed transfer of getBannerData is repeated as
\* long as it takes; and no spinner turns for what somebody asked for, except that
\* of the recommended games, after their one request failed (or, without
\* NothingEmpty, brought none).
NothingHangs ==
  AtRest =>
    /\ m_bannerModelIsReady \/ "banner" \in failed
    /\ wanted["sign"] # None => m_signDataIsReady
    /\ wanted["reward"] # None => m_signRewardIsReady
    /\ m_showLoading => "hot" \in failed

-----------------------------------------------------------------------------
(* A property that fails *)

\* After a refresh ("刷新首页数据") the list below a tab is the one that came
\* with its title.
RefreshShowsNew ==
  (m_tabTitleList # <<>> /\ tab = 1) => hotGames = m_tabTitleList[1]
=============================================================================
