------------------------------ MODULE Session ------------------------------
(***************************************************************************)
(* The user's session: LoginPopup.qml, the login, logout and password      *)
(* operations of HttpClient, the chain of requests that a login starts     *)
(* (userLogin, getUserInfo, refreshClientInfo) and what it saves in the    *)
(* registry for the next start.  Every request has a detached thread that  *)
(* reads the members when it starts to run; the user does not wait for it. *)
(* (m_bIsRefresh is left out: nobody calls refreshClientInfo with true.)   *)
(***************************************************************************)
EXTENDS Naturals, FiniteSets

CONSTANTS
  Account,   \* accounts of the service
  Pass,      \* passwords
  None,      \* no account, no password
  Slot,      \* bound: chains of requests in flight
  MaxActs    \* bound: what the user does

ASSUME SessionAssumption ==
  /\ None \notin Account
  /\ None \notin Pass
  /\ MaxActs \in Nat

VARIABLES
  m_bUserLogined,   \* HttpClient: what the pages show
  m_strToken,       \* HttpClient: the account that requests are made for
  m_strUserName,    \* HttpClient: typed, loaded from the registry or replied
  m_strUserPass,    \* HttpClient: typed or loaded from the registry
  m_rememberPass,   \* HttpClient: the check box of the login
  m_strUserId,      \* HttpClient: whose user information was stored last
  m_vipLabel,       \* HttpClient: whose label, discount and times were stored last
  m_vipFlags,       \* HttpClient: whose badge is shown
  registry,         \* rememberPass, userName and userData
  loginOpen,        \* LoginPopup is on screen
  loginSignals,     \* loginSuccess signals queued to the UI thread
  thread,           \* the chains of requests
  pass,             \* server: the password of every account
  accepted,         \* server: pairs of account and password that logged in
  acts,             \* number of things the user has done
  overlapped,       \* history: the user logged in or out, or left, in the middle
  refused           \* history: a request failed since the user last tried to log in

userVars == <<m_bUserLogined, m_strToken, m_strUserName, m_strUserPass, m_rememberPass>>
infoVars == <<m_strUserId, m_vipLabel, m_vipFlags>>
uiVars   == <<loginOpen, loginSignals, acts, overlapped, refused>>
vars == <<userVars, infoVars, registry, uiVars, thread, pass, accepted>>

Someone == Account \cup {None}
Secret  == Pass \cup {None}

\* op: the request that the thread is busy with.  at: "asked" before the
\* thread has read the members, "sent" until the server answers, then the
\* steps of the reply's handler.  who, pwd: what the request carries or, of
\* the reply, whose it is.
ThreadType ==
  [op: {"none", "login", "info", "client", "profile", "exchange", "modify"},
   at: {"free", "asked", "sent", "ok", "logined", "remember", "name", "data"},
   who: Someone, pwd: Secret]

Free == [op |-> "none", at |-> "free", who |-> None, pwd |-> None]
Asked(op, pwd) == [op |-> op, at |-> "asked", who |-> None, pwd |-> pwd]

TypeOK ==
  /\ m_bUserLogined \in BOOLEAN
  /\ m_strToken \in Someone
  /\ m_strUserName \in Someone
  /\ m_strUserPass \in Secret
  /\ m_rememberPass \in BOOLEAN
  /\ m_strUserId \in Someone
  /\ m_vipLabel \in Someone
  /\ m_vipFlags \in Someone
  /\ registry \in [rememberPass: BOOLEAN, userName: Someone, userData: Secret]
  /\ loginOpen \in BOOLEAN
  /\ loginSignals \in Nat
  /\ thread \in [Slot -> ThreadType]
  /\ pass \in [Account -> Pass]
  /\ accepted \subseteq Account \X Pass
  /\ acts \in 0..MaxActs
  /\ overlapped \in BOOLEAN
  /\ refused \in BOOLEAN

Init ==
  /\ registry = [rememberPass |-> FALSE, userName |-> None, userData |-> None]
  /\ m_bUserLogined = FALSE
  /\ m_strToken = None
  /\ m_strUserName = None
  /\ m_strUserPass = None
  /\ m_rememberPass = FALSE
  /\ m_strUserId = None
  /\ m_vipLabel = None
  /\ m_vipFlags = None
  /\ loginOpen = FALSE
  /\ loginSignals = 0
  /\ thread = [t \in Slot |-> Free]
  /\ pass \in [Account -> Pass]
  /\ accepted = {}
  /\ acts = 0
  /\ overlapped = FALSE
  /\ refused = FALSE

Busy  == {t \in Slot : thread[t].at # "free"}
Quiet == Busy = {} /\ loginSignals = 0

\* The user does something; Disturbing: something that changes the account.
UserActs   == acts < MaxActs /\ acts' = acts + 1
Disturbing == overlapped' = (overlapped \/ ~Quiet)

Becomes(t, r) == thread' = [thread EXCEPT ![t] = r]
GoesTo(t, place) == thread' = [thread EXCEPT ![t].at = place]

-----------------------------------------------------------------------------
(* The user *)

\* The account button, and pages that need a login, open the login popup.
OpenLogin ==
  /\ ~m_bUserLogined
  /\ ~loginOpen
  /\ loginOpen' = TRUE
  /\ UNCHANGED <<userVars, infoVars, registry, loginSignals, acts, overlapped, refused,
                 thread, pass, accepted>>

\* Mistake: closing the popup takes a login's success with it.
CloseLogin_TakesSignal ==
  /\ loginOpen
  /\ loginOpen' = FALSE
  /\ loginSignals' = loginSignals - 1
  /\ UNCHANGED <<userVars, infoVars, registry, acts, overlapped, refused, thread, pass,
                 accepted>>

\* The cross or Escape; a login that is under way goes on.
CloseLogin ==
  /\ loginOpen
  /\ loginOpen' = FALSE
  /\ UNCHANGED <<userVars, infoVars, registry, loginSignals, acts, overlapped, refused,
                 thread, pass, accepted>>

\* Mistake: the pair is saved before the server has seen it.
userLogin_SavesAtOnce(t, userName, userPass, rememberPass) ==
  /\ loginOpen
  /\ thread[t] = Free
  /\ UserActs
  /\ Disturbing
  /\ m_rememberPass' = rememberPass
  /\ m_strUserName' = userName
  /\ m_strUserPass' = userPass
  /\ registry' = [rememberPass |-> rememberPass, userName |-> userName, userData |-> userPass]
  /\ refused' = FALSE
  /\ Becomes(t, Asked("login", None))
  /\ UNCHANGED <<m_bUserLogined, m_strToken, infoVars, loginOpen, loginSignals, pass, accepted>>

\* The login button works as often as it is clicked.
userLogin(t, userName, userPass, rememberPass) ==
  /\ loginOpen
  /\ thread[t] = Free
  /\ UserActs
  /\ Disturbing
  /\ m_rememberPass' = rememberPass
  /\ m_strUserName' = userName
  /\ m_strUserPass' = userPass
  /\ refused' = FALSE
  /\ Becomes(t, Asked("login", None))
  /\ UNCHANGED <<m_bUserLogined, m_strToken, infoVars, registry, loginOpen,
                 loginSignals, pass, accepted>>

\* The menu's last entry, there only for a user who is logged in.
userLogout ==
  /\ m_bUserLogined
  /\ ~loginOpen
  /\ UserActs
  /\ Disturbing
  /\ m_bUserLogined' = FALSE
  /\ m_strToken' = None
  /\ m_vipFlags' = None
  /\ loginOpen' = TRUE
  /\ UNCHANGED <<m_strUserName, m_strUserPass, m_rememberPass, m_strUserId, m_vipLabel,
                 registry, loginSignals, refused, thread, pass, accepted>>

\* ModifyPassPopup: a wrong current password is rejected without a request.
modifyUserPass(t, userPass, currentPass) ==
  /\ m_bUserLogined
  /\ ~loginOpen
  /\ UserActs
  /\ \/ /\ currentPass # m_strUserPass
        /\ UNCHANGED thread
     \/ /\ currentPass = m_strUserPass
        /\ thread[t] = Free
        /\ Becomes(t, Asked("modify", userPass))
  /\ UNCHANGED <<userVars, infoVars, registry, loginOpen, loginSignals, overlapped, refused,
                 pass, accepted>>

\* realNameAuth and enableTeenageMode, which ask for the user information again,
\* and exchangeActivateCode, which refreshes the client's.
Profile(t, op) ==
  /\ m_bUserLogined
  /\ ~loginOpen
  /\ UserActs
  /\ thread[t] = Free
  /\ Becomes(t, Asked(op, None))
  /\ UNCHANGED <<userVars, infoVars, registry, loginOpen, loginSignals, overlapped, refused, pass,
                 accepted>>

\* The process ends, with whatever its threads were doing, and starts again:
\* loadUserInfo takes the user from the registry if that was asked for.
Restart ==
  /\ UserActs
  /\ Disturbing
  /\ m_bUserLogined' = FALSE
  /\ m_strToken' = None
  /\ m_rememberPass' = registry.rememberPass
  /\ m_strUserName' = IF registry.rememberPass THEN registry.userName ELSE None
  /\ m_strUserPass' = IF registry.rememberPass THEN registry.userData ELSE None
  /\ m_strUserId' = None
  /\ m_vipLabel' = None
  /\ m_vipFlags' = None
  /\ loginOpen' = FALSE
  /\ loginSignals' = 0
  /\ thread' = [t \in Slot |-> Free]
  /\ UNCHANGED <<registry, refused, pass, accepted>>

\* LoginPopup's onLoginSuccess.
OnLoginSuccess ==
  /\ loginSignals > 0
  /\ loginSignals' = loginSignals - 1
  /\ loginOpen' = FALSE
  /\ UNCHANGED <<userVars, infoVars, registry, acts, overlapped, refused, thread,
                 pass, accepted>>

-----------------------------------------------------------------------------
(* The threads *)

\* The thread runs and reads what its request carries.
Start(t) ==
  /\ thread[t].at = "asked"
  /\ Becomes(t, IF thread[t].op = "login"
                THEN [thread[t] EXCEPT !.at = "sent", !.who = m_strUserName, !.pwd = m_strUserPass]
                ELSE [thread[t] EXCEPT !.at = "sent", !.who = m_strToken])
  /\ UNCHANGED <<userVars, infoVars, registry, uiVars, pass, accepted>>

\* A failed transfer or a status other than 200: a message, and no more.
Refuse(t) ==
  /\ thread[t].at = "sent"
  /\ Becomes(t, Free)
  /\ refused' = TRUE
  /\ UNCHANGED <<userVars, infoVars, registry, loginOpen, loginSignals, acts, overlapped, pass,
                 accepted>>

\* Mistake: the status of the login's reply is not looked at.
ServeLogin_AnyStatus(t) ==
  /\ thread[t].at = "sent"
  /\ thread[t].op = "login"
  /\ thread[t].who # None
  /\ GoesTo(t, "ok")
  /\ accepted' = accepted \cup (IF pass[thread[t].who] = thread[t].pwd
                                THEN {<<thread[t].who, thread[t].pwd>>} ELSE {})
  /\ UNCHANGED <<userVars, infoVars, registry, uiVars, pass>>

\* The server accepts the password (and the code of the image).
ServeLogin(t) ==
  /\ thread[t].at = "sent"
  /\ thread[t].op = "login"
  /\ thread[t].who # None
  /\ thread[t].pwd = pass[thread[t].who]
  /\ GoesTo(t, "ok")
  /\ accepted' = accepted \cup {<<thread[t].who, thread[t].pwd>>}
  /\ UNCHANGED <<userVars, infoVars, registry, uiVars, pass>>

\* The other requests need a token.  The handlers of profile and exchange do
\* nothing but ask again: getUserInfo, refreshClientInfo.
Serve(t) ==
  /\ thread[t].at = "sent"
  /\ thread[t].who # None
  /\ \/ thread[t].op \in {"info", "client"} /\ GoesTo(t, "ok")
     \/ thread[t].op = "profile" /\ Becomes(t, Asked("info", None))
     \/ thread[t].op = "exchange" /\ Becomes(t, Asked("client", None))
  /\ UNCHANGED <<userVars, infoVars, registry, uiVars, pass, accepted>>

\* The password is changed; the reply may get lost.
ServeModify(t) ==
  /\ thread[t].at = "sent"
  /\ thread[t].op = "modify"
  /\ thread[t].who # None
  /\ pass' = [pass EXCEPT ![thread[t].who] = thread[t].pwd]
  /\ Becomes(t, Free)
  /\ UNCHANGED <<userVars, infoVars, registry, uiVars, accepted>>

\* Mistake: the user is logged in before there is a token.
HandleLogin_FlagFirst(t) ==
  /\ thread[t].op = "login"
  /\ \/ /\ thread[t].at = "ok"
        /\ m_bUserLogined' = TRUE
        /\ GoesTo(t, "logined")
        /\ UNCHANGED <<m_strToken, loginSignals>>
     \/ /\ thread[t].at = "logined"
        /\ m_strToken' = thread[t].who
        /\ loginSignals' = loginSignals + 1
        /\ Becomes(t, Asked("info", None))
        /\ UNCHANGED m_bUserLogined
  /\ UNCHANGED <<m_strUserName, m_strUserPass, m_rememberPass, infoVars, registry,
                 loginOpen, acts, overlapped, refused, pass, accepted>>

\* userLogin's reply: the token first, then the rest, and getUserInfo.
HandleLogin(t) ==
  /\ thread[t].op = "login"
  /\ \/ /\ thread[t].at = "ok"
        /\ m_strToken' = thread[t].who
        /\ GoesTo(t, "logined")
        /\ UNCHANGED <<m_bUserLogined, loginSignals>>
     \/ /\ thread[t].at = "logined"
        /\ m_bUserLogined' = TRUE
        /\ loginSignals' = loginSignals + 1
        /\ Becomes(t, Asked("info", None))
        /\ UNCHANGED m_strToken
  /\ UNCHANGED <<m_strUserName, m_strUserPass, m_rememberPass, infoVars, registry,
                 loginOpen, acts, overlapped, refused, pass, accepted>>

\* parseUserInfoReply stores what the server says of the user.
HandleInfo(t) ==
  /\ thread[t].op = "info"
  /\ thread[t].at = "ok"
  /\ m_strUserId' = thread[t].who
  /\ m_strUserName' = thread[t].who
  /\ GoesTo(t, "remember")
  /\ UNCHANGED <<m_bUserLogined, m_strToken, m_strUserPass, m_rememberPass, m_vipLabel,
                 m_vipFlags, registry, uiVars, pass, accepted>>

\* Mistake: the client's information is not refreshed.
SaveUser_NoRefresh(t) ==
  /\ \/ /\ thread[t].at = "remember"
        /\ registry' = [registry EXCEPT !.rememberPass = m_rememberPass]
        /\ GoesTo(t, "name")
     \/ /\ thread[t].at = "name"
        /\ registry' = [registry EXCEPT !.userName = m_strUserName]
        /\ GoesTo(t, "data")
     \/ /\ thread[t].at = "data"
        /\ registry' = [registry EXCEPT !.userData = m_strUserPass]
        /\ Becomes(t, Free)
  /\ UNCHANGED <<userVars, infoVars, uiVars, pass, accepted>>

\* Then it writes the registry, value by value, and refreshes the client's
\* information.
SaveUser(t) ==
  /\ \/ /\ thread[t].at = "remember"
        /\ registry' = [registry EXCEPT !.rememberPass = m_rememberPass]
        /\ GoesTo(t, "name")
     \/ /\ thread[t].at = "name"
        /\ registry' = [registry EXCEPT !.userName = m_strUserName]
        /\ GoesTo(t, "data")
     \/ /\ thread[t].at = "data"
        /\ registry' = [registry EXCEPT !.userData = m_strUserPass]
        /\ Becomes(t, Asked("client", None))
  /\ UNCHANGED <<userVars, infoVars, uiVars, pass, accepted>>

\* Mistake: the badge is painted only if there was none.
HandleClient_OldBadge(t) ==
  /\ thread[t].op = "client"
  /\ thread[t].at = "ok"
  /\ m_vipLabel' = IF m_vipLabel = None THEN thread[t].who ELSE m_vipLabel
  /\ m_vipFlags' = m_vipLabel'
  /\ Becomes(t, Free)
  /\ UNCHANGED <<userVars, m_strUserId, registry, uiVars, pass, accepted>>

\* parseRefreshClientInfo.
HandleClient(t) ==
  /\ thread[t].op = "client"
  /\ thread[t].at = "ok"
  /\ m_vipLabel' = thread[t].who
  /\ m_vipFlags' = thread[t].who
  /\ Becomes(t, Free)
  /\ UNCHANGED <<userVars, m_strUserId, registry, uiVars, pass, accepted>>

-----------------------------------------------------------------------------

User ==
  \/ OpenLogin
  \/ CloseLogin
  \/ \E t \in Slot, a \in Account, p \in Pass, r \in BOOLEAN : userLogin(t, a, p, r)
  \/ userLogout
  \/ \E t \in Slot, p, q \in Pass : modifyUserPass(t, p, q)
  \/ \E t \in Slot : Profile(t, "profile") \/ Profile(t, "exchange")
  \/ Restart

Work(t) ==
  \/ Start(t)
  \/ Refuse(t)
  \/ ServeLogin(t)
  \/ Serve(t)
  \/ ServeModify(t)
  \/ HandleLogin(t)
  \/ HandleInfo(t)
  \/ SaveUser(t)
  \/ HandleClient(t)

Next == User \/ OnLoginSuccess \/ \E t \in Slot : Work(t)

Spec == Init /\ [][Next]_vars

-----------------------------------------------------------------------------
(* Properties *)

LoggedInOnce(a) == a = None \/ \E p \in Pass : <<a, p>> \in accepted

\* Whatever overlaps: the account that requests are made for, and the accounts
\* whose information, discount and badge are shown, have logged in with their
\* password (userLogin, parseUserInfoReply, parseRefreshClientInfo).
OnlyAccepted ==
  LoggedInOnce(m_strToken) /\ LoggedInOnce(m_strUserId) /\ LoggedInOnce(m_vipLabel)
    /\ LoggedInOnce(m_vipFlags)

\* If the user waits before changing the account and before leaving: who is
\* shown as logged in has a token, and who is not has none (the order of
\* the assignments in userLogin, userLogout).
LoginHasToken ==
  ~overlapped =>
    /\ m_bUserLogined => m_strToken # None
    /\ Quiet /\ ~m_bUserLogined => m_strToken = None

\* Under the same condition the registry holds, at rest, one account and a
\* password that it logged in with, whatever attempts failed in between
\* (parseUserInfoReply writes m_strUserName and m_strUserPass).
SavedPair ==
  ~overlapped /\ Quiet /\ registry.userName # None =>
    <<registry.userName, registry.userData>> \in accepted

\* Under the same condition, what a reply stores is stored for the account that
\* is logged in (parseUserInfoReply, parseRefreshClientInfo).
RepliesAreOwn ==
  [][~overlapped' =>
       /\ m_strUserId' \in {m_strUserId, m_strToken, None}
       /\ m_vipLabel' \in {m_vipLabel, m_strToken, None}
       /\ m_vipFlags' \in {m_vipFlags, m_strToken, None}]_vars

\* Under the same condition, a session none of whose requests failed shows, at
\* rest, its own account everywhere (the chain userLogin, getUserInfo,
\* refreshClientInfo).
SessionIsOwn ==
  ~overlapped /\ Quiet /\ m_bUserLogined /\ ~refused =>
    {m_strToken, m_strUserName, m_strUserId, m_vipLabel, m_vipFlags} = {m_strToken}
=============================================================================
