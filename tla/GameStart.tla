----------------------------- MODULE GameStart -----------------------------
(***************************************************************************)
(* The details of a game, its appointment and its start (GameDetails.cpp,  *)
(* GameDetailsPage.qml, StartGamePopup.qml).  One set of members holds the *)
(* selected game.  Detached threads write them, a reply at a time, and     *)
(* read them whenever they get to it; so a start asks for the remaining    *)
(* time, asks for a token and starts the stream with what is selected at   *)
(* each of these moments.  The streams are StreamWindow's.                 *)
(***************************************************************************)
EXTENDS Naturals, Sequences

CONSTANTS
  Account, Game,
  Playable,  \* games that can be played; the others can be booked
  Bare,      \* games whose package or channel is missing
  None,
  Slot,      \* bound: requests in flight
  Proc, NoStream, MaxCloses,
  MaxActs    \* bound: requests that the user starts, and logouts

\* What a stream is started with: a game's package and channel, or empty ones.
Stream == Game \cup {None}

ASSUME GameStartAssumption ==
  /\ None \notin Account \cup Game
  /\ Playable \subseteq Game
  /\ Bare \subseteq Game
  /\ NoStream \notin Stream
  /\ MaxCloses \in Nat
  /\ MaxActs \in Nat

VARIABLES
  account,              \* Session: who is logged in
  m_startGameNoTips,    \* HttpClient
  startPopup,           \* StartGamePopup is open
  page,                 \* the game that the page of details was opened for
  m_selectGameId,       \* GameDetails: the game, its name, icon and type
  m_enablePlay,         \* GameDetails
  m_enableStart,        \* GameDetails
  m_packageName,        \* GameDetails: whose package and channel, None if empty
  m_appointmentStatus,  \* GameDetails: what the button offers: "book", "cancel" or ""
  thread,               \* the requests
  booked,               \* server: who has booked what
  proc,                 \* the streams
  acts,                 \* number of things the user has done
  labelOf,              \* history: whose bookings the label was asked for
  doubtful,             \* history: requests for the label crossed or failed
  started               \* history: the starts with nothing in between, of each launch

settings == <<m_startGameNoTips, startPopup>>
members == <<m_selectGameId, m_enablePlay, m_enableStart, m_packageName, m_appointmentStatus>>
history == <<labelOf, doubtful, started>>
vars == <<account, settings, page, members, thread, booked, proc, acts, history>>

Window == INSTANCE StreamWindow

\* game: what the request is about; of a start, what a token is asked for.
\* time: of a start, the game that time is asked for.  user: whose token the
\* request carries.  yes: whether the game is, or shall be, booked; of a start,
\* whether the reply brought a token.  lone: history: the start came from its
\* game's page, and no other was selected since.
ThreadType == [op: {"none", "details", "appoint", "start"},
               at: {"free", "asked", "sent", "ok", "named", "token", "replied"},
               game: Game \cup {None}, time: Game \cup {None}, user: Account \cup {None},
               yes: BOOLEAN, lone: BOOLEAN]

\* A launch: the game, and whether there is a token or the empty string.
Launched == [game: Game, token: BOOLEAN]

Free == [op |-> "none", at |-> "free", game |-> None, time |-> None, user |-> None,
         yes |-> FALSE, lone |-> FALSE]
Asked(op, game) == [Free EXCEPT !.op = op, !.at = "asked", !.game = game]

TypeOK ==
  /\ account \in Account \cup {None}
  /\ m_startGameNoTips \in BOOLEAN
  /\ startPopup \in BOOLEAN
  /\ page \in Game \cup {None}
  /\ m_selectGameId \in Game \cup {None}
  /\ m_enablePlay \in BOOLEAN
  /\ m_enableStart \in BOOLEAN
  /\ m_packageName \in Game \cup {None}
  /\ m_appointmentStatus \in {"", "book", "cancel"}
  /\ thread \in [Slot -> ThreadType]
  /\ \A t \in Slot : thread[t].at = "free" => thread[t] = Free
  /\ booked \subseteq Account \X Game
  /\ Window!TypeOK
  /\ acts \in 0..MaxActs
  /\ labelOf \in Account \cup {None}
  /\ doubtful \in BOOLEAN
  /\ started \in [Launched -> Nat]

\* The flags of the button are not initialised.
Init ==
  /\ account = None
  /\ m_startGameNoTips = FALSE
  /\ startPopup = FALSE
  /\ page = None
  /\ m_selectGameId = None
  /\ m_enablePlay \in BOOLEAN
  /\ m_enableStart \in BOOLEAN
  /\ m_packageName = None
  /\ m_appointmentStatus = ""
  /\ thread = [t \in Slot |-> Free]
  /\ booked = {}
  /\ Window!Init
  /\ acts = 0
  /\ labelOf = None
  /\ doubtful = FALSE
  /\ started = [l \in Launched |-> 0]

Becomes(t, r) == thread' = [thread EXCEPT ![t] = r]
UserActs == acts < MaxActs /\ acts' = acts + 1
Busy(op) == \E t \in Slot : thread[t].op = op

\* History: t is a start from the page of its game, and no other was selected since.
Lone(t) == thread[t].op = "start" /\ thread[t].lone

\* History: a request for the label begins.
AsksLabel(fresh) == doubtful' = (Busy("details") \/ Busy("appoint") \/ (doubtful /\ ~fresh))

-----------------------------------------------------------------------------
(* The user *)

\* A game of some list is clicked.  Only icon and description are cleared.
getGameDetailsInfo(t, gameId) ==
  /\ ~startPopup
  /\ thread[t] = Free
  /\ UserActs
  /\ page' = gameId
  /\ Becomes(t, Asked("details", gameId))
  /\ AsksLabel(TRUE)
  /\ UNCHANGED <<account, settings, members, booked, proc, labelOf, started>>

\* The details page's button, of a game that is not playable yet.
appointmentGame(t) ==
  /\ account # None /\ page # None /\ ~startPopup
  /\ ~m_enablePlay
  /\ thread[t] = Free
  /\ UserActs
  /\ Becomes(t, Asked("appoint", None))
  /\ AsksLabel(FALSE)
  /\ UNCHANGED <<account, settings, page, members, booked, proc, labelOf, started>>

\* A start without package and channel is refused here, and only here.
queryUserRemainTime(t) ==
  /\ UserActs
  /\ IF m_packageName = None THEN UNCHANGED thread
     ELSE /\ thread[t] = Free
          /\ Becomes(t, [Asked("start", None) EXCEPT
                           !.lone = page = m_selectGameId /\ page = m_packageName])

\* The same button, of a playable game: it asks first, unless told not to.
ClickStart(t) ==
  /\ account # None /\ page # None /\ ~startPopup
  /\ m_enablePlay /\ m_enableStart
  /\ IF m_startGameNoTips
     THEN queryUserRemainTime(t) /\ UNCHANGED startPopup
     ELSE startPopup' = TRUE /\ UNCHANGED <<acts, thread>>
  /\ UNCHANGED <<account, m_startGameNoTips, page, members, booked, proc, history>>

\* StartGamePopup is confirmed, with or without "do not ask again".
ConfirmStart(t, noTips) ==
  /\ startPopup
  /\ startPopup' = FALSE
  /\ m_startGameNoTips' = noTips
  /\ queryUserRemainTime(t)
  /\ UNCHANGED <<account, page, members, booked, proc, history>>

CancelStart ==
  /\ startPopup
  /\ startPopup' = FALSE
  /\ UNCHANGED <<account, m_startGameNoTips, page, members, thread, booked, proc, acts, history>>

\* The login refreshes no details: LoginPopup waits for a page that is not there.
ChangeAccount(a) ==
  /\ ~startPopup
  /\ IF a = None THEN UserActs /\ account # None ELSE account = None /\ UNCHANGED acts
  /\ account' = a
  /\ UNCHANGED <<settings, page, members, thread, booked, proc, history>>

\* The client ends, or crashes, and is started again.  The streams go on.
Restart ==
  /\ UserActs
  /\ account' = None
  /\ startPopup' = FALSE
  /\ page' = None
  /\ m_selectGameId' = None
  /\ m_enablePlay' \in BOOLEAN
  /\ m_enableStart' \in BOOLEAN
  /\ m_packageName' = None
  /\ m_appointmentStatus' = ""
  /\ thread' = [t \in Slot |-> Free]
  /\ doubtful' = FALSE
  /\ UNCHANGED <<m_startGameNoTips, booked, proc, labelOf, started>>

-----------------------------------------------------------------------------
(* The threads *)

\* A thread runs: it reads the token and what is selected.
Run(t) ==
  /\ thread[t].at = "asked"
  /\ Becomes(t, CASE thread[t].op = "details" -> [thread[t] EXCEPT !.at = "sent", !.user = account]
                  [] thread[t].op = "appoint" ->
                       [thread[t] EXCEPT !.at = "sent", !.user = account, !.game = m_selectGameId,
                                         !.yes = m_appointmentStatus = "book"]
                  [] thread[t].op = "start" ->
                       [thread[t] EXCEPT !.at = "sent", !.user = account, !.time = m_selectGameId])
  /\ UNCHANGED <<account, settings, page, members, booked, proc, acts, history>>

\* The service answers.  An appointment is kept before its reply is sent; that
\* there is time left, and a token, is said of the game that was asked about.
\* Nobody looks at the status of the reply to getCtoken: a refusal with a "data"
\* in it brings no token and goes on all the same.
Serve(t) ==
  /\ thread[t].op # "details" => thread[t].user # None
  /\ thread[t].op = "appoint" => thread[t].game # None
  /\ \/ thread[t].at = "sent" /\ Becomes(t, [thread[t] EXCEPT !.at = "ok",
           !.yes = IF thread[t].op = "details" THEN <<thread[t].user, thread[t].game>> \in booked
                   ELSE @])
     \/ /\ thread[t].at = "token"
        /\ \E yes \in BOOLEAN :
             /\ yes => thread[t].game # None
             /\ Becomes(t, [thread[t] EXCEPT !.at = "replied", !.yes = yes])
  /\ booked' = IF thread[t].op # "appoint" THEN booked
               ELSE IF thread[t].yes THEN booked \cup {<<thread[t].user, thread[t].game>>}
               ELSE booked \ {<<thread[t].user, thread[t].game>>}
  /\ UNCHANGED <<account, settings, page, members, proc, acts, history>>

\* Mistake: a failed request leaves its traces behind.
Fail_KeepsRequest(t) ==
  /\ thread[t].at \in {"sent", "ok", "token", "replied"}
  /\ Becomes(t, [thread[t] EXCEPT !.at = "free"])
  /\ doubtful' = (doubtful \/ thread[t].op # "start")
  /\ UNCHANGED <<account, settings, page, members, booked, proc, acts, labelOf, started>>

\* A request, or its reply, is lost, or refused: no time is left, for example, or
\* there is no "data" in the reply to getCtoken.
Fail(t) ==
  /\ thread[t].at \in {"sent", "ok", "token", "replied"}
  /\ Becomes(t, Free)
  /\ doubtful' = (doubtful \/ thread[t].op # "start")
  /\ UNCHANGED <<account, settings, page, members, booked, proc, acts, labelOf, started>>

\* History: a game is selected while starts are on their way.
Selects(t, r) ==
  thread' = [s \in Slot |-> IF s = t THEN r
                            ELSE [thread[s] EXCEPT !.lone = @ /\ m_selectGameId = thread[t].game]]

\* Mistake: the label of the game before stays, unless this one is booked.
StoreName_KeepsLabel(t) ==
  /\ thread[t].op = "details" /\ thread[t].at = "ok"
  /\ m_enablePlay' = (thread[t].game \in Playable)
  /\ m_appointmentStatus' = IF thread[t].yes THEN "cancel"
                            ELSE IF m_appointmentStatus = "" THEN "book" ELSE m_appointmentStatus
  /\ m_selectGameId' = thread[t].game
  /\ labelOf' = thread[t].user
  /\ Selects(t, [thread[t] EXCEPT !.at = "named"])
  /\ UNCHANGED <<account, settings, page, m_enableStart, m_packageName, booked, proc, acts,
                 doubtful, started>>

\* The reply of the details is stored: label, name, icon, type, id ...
StoreName(t) ==
  /\ thread[t].op = "details" /\ thread[t].at = "ok"
  /\ m_enablePlay' = (thread[t].game \in Playable)
  /\ m_appointmentStatus' = IF thread[t].yes THEN "cancel" ELSE "book"
  /\ m_selectGameId' = thread[t].game
  /\ labelOf' = thread[t].user
  /\ Selects(t, [thread[t] EXCEPT !.at = "named"])
  /\ UNCHANGED <<account, settings, page, m_enableStart, m_packageName, booked, proc, acts,
                 doubtful, started>>

\* ... and then package and channel.
StorePackage(t) ==
  /\ thread[t].at = "named"
  /\ m_packageName' = IF thread[t].game \in Bare THEN None ELSE thread[t].game
  /\ m_enableStart' = (thread[t].game \notin Bare)
  /\ Selects(t, Free)
  /\ UNCHANGED <<account, settings, page, m_selectGameId, m_enablePlay, m_appointmentStatus, booked,
                 proc, acts, history>>

HandleAppointment(t) ==
  /\ thread[t].op = "appoint" /\ thread[t].at = "ok"
  /\ m_appointmentStatus' = IF thread[t].yes THEN "cancel" ELSE "book"
  /\ labelOf' = thread[t].user
  /\ Becomes(t, Free)
  /\ UNCHANGED <<account, settings, page, m_selectGameId, m_enablePlay, m_enableStart, m_packageName,
                 booked, proc, acts, doubtful, started>>

\* Time is left: a token is asked for, with the package that is selected now.
HandleTime(t) ==
  /\ thread[t].op = "start" /\ thread[t].at = "ok"
  /\ Becomes(t, [thread[t] EXCEPT !.at = "token", !.game = m_packageName])
  /\ UNCHANGED <<account, settings, page, members, booked, proc, acts, history>>

\* What t launches: the package that is selected now, with the token it got, if any.
Launch(t) == [game |-> m_packageName, token |-> thread[t].yes]

\* Mistake: the stream starts as soon as time is left, without waiting for the token.
startStream_NoToken(t, p) ==
  /\ thread[t].at \in {"token", "replied"}
  /\ Window!Spawn(p, m_packageName)
  /\ started' = IF Lone(t) THEN [started EXCEPT ![Launch(t)] = @ + 1] ELSE started
  /\ Becomes(t, Free)
  /\ UNCHANGED <<account, settings, page, members, booked, acts, labelOf, doubtful>>

\* The stream is started, with the package that is selected now, token or not.
startStream(t, p) ==
  /\ thread[t].at = "replied"
  /\ Window!Spawn(p, m_packageName)
  /\ started' = IF Lone(t) THEN [started EXCEPT ![Launch(t)] = @ + 1] ELSE started
  /\ Becomes(t, Free)
  /\ UNCHANGED <<account, settings, page, members, booked, acts, labelOf, doubtful>>

-----------------------------------------------------------------------------
(* The streams, and all together *)

StreamStep == \E p \in Proc : Window!Runs(p) \/ Window!Close(p)

StreamRuns ==
  /\ StreamStep
  /\ UNCHANGED <<account, settings, page, members, thread, booked, acts, history>>

UserSteps(t) ==
  \/ \E gameId \in Game : getGameDetailsInfo(t, gameId)
  \/ appointmentGame(t)
  \/ ClickStart(t)
  \/ \E noTips \in BOOLEAN : ConfirmStart(t, noTips)

Worker(t) ==
  \/ Run(t) \/ StoreName(t) \/ StorePackage(t) \/ HandleAppointment(t) \/ HandleTime(t)
  \/ \E p \in Proc : startStream(t, p)

Next ==
  \/ \E t \in Slot : UserSteps(t) \/ Worker(t) \/ Serve(t) \/ Fail(t)
  \/ CancelStart
  \/ \E a \in Account \cup {None} : ChangeAccount(a)
  \/ Restart
  \/ StreamRuns

\* The processes of the streams run.
Spec == Init /\ [][Next]_vars /\ \A p \in Proc : WF_vars(Window!Runs(p) /\ UNCHANGED
          <<account, settings, page, members, thread, booked, acts, history>>)

-----------------------------------------------------------------------------
(* Properties *)

\* The button of a game that is to be booked says what the service would do,
\* unless requests for details or appointments crossed or failed, or the user is
\* not the one that the details were asked for: appointmentGame takes what to do
\* from the label, and the label from what it did.
LoneLabelTrue ==
  (~doubtful /\ ~Busy("details") /\ ~Busy("appoint") /\ m_selectGameId # None
   /\ account # None /\ labelOf = account)
    => (m_appointmentStatus = "cancel") = (<<account, m_selectGameId>> \in booked)

\* What a start was told that time is left for, and what came of asking for a token.
checkedFor == [t \in Slot |-> IF Lone(t) /\ thread[t].at \in {"ok", "token", "replied"}
                              THEN thread[t].time ELSE None]
repliedTo == [t \in Slot |-> IF Lone(t) /\ thread[t].at = "replied"
                             THEN [game |-> thread[t].game, token |-> thread[t].yes] ELSE None]

Permit == INSTANCE StreamPermit WITH
  Request <- Slot, checked <- checkedFor, replied <- repliedTo, streams <- started

\* A start from the page of its game, during which no other game is selected,
\* starts the stream of this game, after the service has said that there is time
\* for it and has replied to the request for a token of it, once for each reply,
\* and with a token just if there is one in that reply (queryUserRemainTime,
\* startStream).  That it has a token is not promised: see Serve.
LoneStartPermitted == Permit!Spec

\* Of the streams, see StreamWindow.
ClosedGameStops == Window!ClosedGameStops
ClosedWindowEnds == Window!ClosedWindowEnds
=============================================================================
