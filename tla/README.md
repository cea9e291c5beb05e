# kukagame: a TLA+ verification project

kukagame is a Windows client for a cloud-gaming service: a Qt 5/QML user
interface over a few C++ singletons that talk to the service with HTTP
requests. This directory holds TLA+ models of its logic, TLC configurations
that check them on small instances, and TLAPS proofs of the most important
results for every value of the constants. The repository has no tests and no
documents; what the program promises is taken from its code, its comments and
its messages.

Contents: how the client works; inventory; the models; the runs; fairness;
the proofs; the disagreements found; what is abstracted; what is not modelled
and the plan.

## How the client works

All components share one pattern, and nearly every hazard comes from it.

1. The UI thread runs QML handlers, timers and queued signals, one at a time.
   A handler calls a `Q_INVOKABLE` method of a singleton (`HttpClient`,
   `MsgCenter`, `HomePage`, `GameDetails`).
2. The method writes a few members and starts a detached `std::thread`, one for
   every call. Nothing limits, orders or joins these threads, and nobody waits.
3. The thread reads members when it gets to run (not when it was asked for),
   then calls `CommonFunc::SendHttpRequest`, which holds the one global mutex
   `oMutex` for the whole transfer.
4. After the mutex is released, the thread handles the reply: it writes
   members, starts further requests, and emits signals that are queued to the
   UI thread. Handlers of several replies may interleave.
5. A failed transfer or a status other than 200 shows a message and ends the
   operation, mostly without putting anything back. Three operations look at less:
   `createOrder` closes the popup on a refusal, the download takes an error page for
   the package, and `queryUserRemainTime` never looks at the status of the reply to
   `getCtoken`, only for a "data" in it (`GameDetails.cpp:341-358`): a refusal that has
   one starts the stream with an empty token.

So members are read late, written by whoever comes last, and shared by all the
popups and requests that use them. The hard behaviours are interleaving, stale
members, overtaking replies, partial failure, and threads that outlive what they
were started for. The process may end at any time; only the registry and the
files in the temporary directory survive.

## Inventory

| Component | State | Operations | Interacts with | What makes it correct |
|---|---|---|---|---|
| Payment checkout (`HttpClient`, `PayPopup.qml`) | order number, amount, code on display, spinner; popup with two timers | `createOrder`, `generateWechatQR`, `generateAlipayQR`, `query...OrderStatus`, `close...Order`, popup open/close/select, timers | shop server, payment companies, `oMutex` | success only for a paid order; the code on screen is for the order, amount and method on screen; the popup ends |
| Request lock (`CommonFunc`) | `oMutex` | `SendHttpRequest` | every operation | mutual exclusion, no way out with the lock held |
| Client update (`HttpClient`, update popups) | offer flags, address, `m_bManual`; files | `checkUpdateVersion`, `compareVersion`, `downloadUpdatePackage` | server, file system, `update.exe` | only newer versions offered; updater started on whole files |
| Session (`HttpClient`, `LoginPopup.qml`) | token, name, password, flags, what was stored of the user; registry | `userLogin`, `userLogout`, `modifyUserPass`, `getUserInfo`, `refreshClientInfo`, `loadUserInfo` | server, registry, every request's token | what is used and shown belongs to an account that logged in; the saved pair is one that the server accepted at a login (after `modifyUserPass` it may no longer work) |
| Message center (`MsgCenter`) | lists, spinners, details, unread numbers, popups | `getUnReadNum`, `getMsgListByType`, `getMsgDetailsById`, `getForceNotice` | session (login starts it), notice popups | spinners end, the chain of requests ends, a popup shows its own message |
| Home page (`HomePage`, tab models) | banner, tabs and the lists behind them, labels, search results, sign-in, promotion code | `getBannerData`, `getHotGamesList`, `getGameListByLabel`, `gameSearch`, `getSigninList`, `postSignin`, `getSignReward`, ... | session (token, refresh) | no spinner stays, the list below a tab is the tab's, a view shows what was asked for last |
| Account tables | four Qt tables | `getOrderList` and the chain after it | session | the tables hold one account's rows |
| Game details and start (`GameDetails`) | the selected game, its package, the appointment's label | `getGameDetailsInfo`, `appointmentGame`, `queryUserRemainTime`, `startStream` | session, stream window | the game started is the one that time is left for and a token was asked for; the label says what the service would do |
| Stream window (Electron, `src/src/`) | one process per start: window, messages to its page, timers | spawn, load, close, destroy, quit | started by `startStream` | one window; a closed window stops its game and goes away |
| Settings, exit, single instance (`main.cpp`, `TitleBar.qml`, `ExitAppTips.qml`) | shared memory, two flags, their copy in the registry | start, close, the popup, the tray's menu | registry | one instance; the exit that was chosen is kept |
| Shop lists | two Qt models | `getGoodsList`, `verifyCanBuyVip` | session, checkout | |
| Registration, SMS codes, teenage mode | none that outlives its reply | one request each | session | |
| Image cache, vendored code | none of its own | | | |

`PROJECT.json` lists the same components with their files and status, and under
`hazards` each hazard at its line.

## The models

One module per component; `MC*` modules only give values to constants.

| Module | Models | Uses |
|---|---|---|
| `PayFlow` | the payment popup, its timers, every order request | |
| `PayOrderly` | `PayFlow` with a user who lets a purchase come to rest | `PayFlow`, `Checkout` |
| `Checkout` | abstract: what a checkout promises, with no threads or messages | |
| `RequestLock` | `SendHttpRequest` step by step | `Channel` |
| `Channel` | abstract: a request is one step | |
| `Version` | `compareVersion` and the test for an update | |
| `Update` | version checks, the two update popups, downloads | `Version` |
| `Session` | login, logout, password, the chain of user requests, registry, restart | |
| `MsgCenter` | message lists, notice popups, the chain of counts and notices | |
| `Pages` | the requests of the home page and the user's page, and the views that show their replies | |
| `GameStart` | the selected game, its appointment, and the requests before a stream | `StreamWindow`, `StreamPermit` |
| `StreamPermit` | abstract: which streams may be started | |
| `StreamWindow` | the processes of the stream's window | |
| `ClientExit` | the client's process, the close button, the popup and the registry's flags | |
| `RequestLockProofs`, `UpdateProofs`, `SessionProofs`, `MsgCenterProofs`, `PagesProofs`, `GameStartProofs`, `ClientExitProofs` | proofs | the module of that name |
| `PayFlowProofs` | proofs | `PayOrderly`, and with it `PayFlow` and `Checkout` |

Variables of the C++ singletons keep their names (`m_strOrderSn`,
`m_bUserLogined`, ...), and so do operations. Common conventions:

- **Threads.** A variable `thread` maps slots to jobs. A job has an operation, a
  place (`asked` before it has read the members, `sent` until the server answers,
  then its handler's steps) and what it carries. Reading members is a step of its
  own, because the code reads them when the thread runs. A thread whose last act
  is to start another request becomes that request. The number of slots is a
  bound on concurrency, not a lock: `SendHttpRequest`'s lock only orders the
  transfers, and any order of the replies' handlers is allowed.
- **Messages.** A request fails, or is carried out and its reply lost, or is
  carried out and answered.
- **Signals** emitted on worker threads are queued and handled later on the UI
  thread.
- **Mistakes.** An operator `X_Mistake`, next to the definition `X`, is a
  plausible bug in that code, and is used to show that a property would catch it.

**PayFlow.** A purchase is the n-th click on a buy button; its number stands for
goods, amount and order number. `Buy` is the click with all it does on the UI
thread; `TimerCloseTriggered` and `TimerQueryTriggered` are the popup's timers (90 and 2
seconds in the code; the countdown is a constant, and queries come at any time);
`Select` the method buttons; `Start`, `Serve` and `Handle` the life of a thread;
`posted` the signals that the workers queue for the UI thread. What the user sees is not
`m_strCodeUrl` but `imageQr`, the popup's `Image`, whose two bindings are evaluated upon two
signals: `generateCodeImage` stores the code, clears `m_bQRLoading` and emits `qrLoadingChanged`
(`HandleQR`), and then emits `codeUrlChanged` (`AnnounceCode`); `OnQrLoadingChanged` and
`OnCodeUrlChanged` take them in this order, other things happening in between.
`OnClosePayPopup` is the third queued signal. The server's orders and the payment
companies' trades, the phone that scans and pays, are external, and behave as
the code uses them: an order is paid only by somebody who scanned its code.

**Checkout** knows purchases, what is on offer, what was paid and what the user
was told. `PayOrderly` implements it with the mapping given in the module.

**RequestLock.** Threads wait for `oMutex`, connect (or fail to), the server acts,
the transfer ends or breaks, the lock goes back. `Channel` has a call, a failure,
and an effect with its reply as single steps; the mapping hides a served request
until the lock is released.

**Update.** Versions are sequences of numbers, compared the way the code does.
Files are the two the download thread keeps in the temporary directory;
`Remove`, `Copy`, `Open`, `Write`, `TransferFails`, `StartUpdater` are its
steps, each of which may fail where the call may fail. The answer to a download
may be an error page: curl is not told to treat one as a failure.

**Session.** Accounts and passwords are model values. `m_strUserId`, `m_vipLabel`
and `m_vipFlags` are *whose* information was stored last. Token and login flag
are two steps of `HandleLogin`, and the registry's values three steps of
`SaveUser`, since a logout or the process's end may come between.

**MsgCenter.** Messages are model values with a tab; the server may publish at any
time, and hands a forced notice out once. A popup is its message's id on a
stack, and `details` is the message whose text the one `MsgCenter` holds.

**Pages.** Twelve operations of `HomePage` and the four tables of `HttpClient` have
one pattern, so a *view* is a place that replies are shown in, and `shown` is whose, or
which, data it shows. `Asks` is the call that the operations share; what differs
between them is kept: the banner that is repeated on a failed transfer and leads to the
recommended games, the labels that lead to the first label's games, the sign-in that
leads to the list of signs, the reward that leads to the client's information, the
tables that follow each other (`HandleTable`), who shows the reply (the UI thread by a
signal, or the worker), and which flags a failure resets (`Fail`, `Refuse`).
`OnHot` and `SelectIndex` are `HomeHotGamesTabModel`'s. `Edition` is what the
service recommends: after `Publish`, other lists than before.

**GameStart.** The reply to `getGameDetailsInfo` is stored in two steps, `StoreName` and
`StorePackage`, because two replies may interleave there. A start is one thread with
three requests' worth of steps: `Run` reads the game that time is asked for, `HandleTime`
reads the package that a token is asked for, `startStream` reads the package that is
launched. `Restart` ends the client: its threads are gone, the streams go on.

**StreamWindow**, instantiated by `GameStart`. A process waits for Electron
(`createWindow` takes the lock or quits), loads its page, and sends it messages;
`inbox` is what the page has not handled yet. Messages sent before the page listens
are lost. The timer of 1.5 seconds is taken to be longer than the page needs to handle
what was sent. Cloudplay's SDK is external: off, on or stopped.

**StreamPermit** knows what time is left for, what the service replied to a request for a
token, and how often each launch was made: a game, with a token or without, since a refusal
may pass for a reply (`Serve` of `GameStart` chooses). `GameStart` implements it for starts from the page of their
game during which no other game is selected (`Lone`); the history variable `started`
counts only these.

**ClientExit.** `popup` holds the two properties of `ExitAppTips.qml`, which every popup
begins with as false, besides the members that the popup shows. The button's two writes to the
registry are two steps, `SaveClose` and `Confirm`, with a crash possible in between (`torn`).

## The runs

| Run | Expected | What it shows |
|---|---|---|
| `pay_any` | pass | `SuccessOnlyForPaid`, `ScreenFollows`, `TimersFollowPopup`, `PopupAlwaysCloses`: whatever is clicked and however threads overlap, a success is announced only for a paid order, no code is visible while the spinner is asked for and the screen catches up with what the workers stored, timers live as long as the popup, and the countdown alone takes it away |
| `pay_orderly` | pass | `RequestsOwnOrder`, `AmountIsOwn`, `CodeOnScreen` and the refinement of `Checkout`, for a user who waits |
| `pay_stale_order` | violation | `SuccessIsForOpenPurchase` |
| `request_lock` | pass | `LockInv`, the refinement of `Channel`, and `EveryRequestReturns` |
| `update_any` | pass | offers, forced updates, lone downloads, and that a download ends |
| `update_forced` | violation | `ForcedUpdate` |
| `session_any` | pass | `OnlyAccepted` under any overlap; `LoginHasToken`, `SavedPair`, `RepliesAreOwn`, `SessionIsOwn` for a user who waits between changes of the account |
| `msg_any` | pass | `ListArrives`, `DetailsArrive`, `ComesToRest` under any overlap and failure; `EmptyFits`, `LoneNoticeIsOwn` without overlap |
| `pages_any` | pass | `TabShowsOwnList` and `NothingHangs` under any overlap and failure; `LoneViewIsOwn`, `SignLabelTrue` for what was asked for alone |
| `pages_refresh` | violation | `RefreshShowsNew` |
| `start_any` | pass | `ClosedGameStops`, `ClosedWindowEnds` under any overlap; `LoneLabelTrue` and the refinement of `StreamPermit` for requests that nothing crosses |
| `exit_choice` | violation | `SilentCloseAsChosen` |

Properties come in two kinds. Some hold whatever happens. Others do not, because
the code lets operations overwrite each other's members; those are stated for a
user who waits, with a history variable (`overlapped`, `crossed`, `doubtful`, `lone`) or a module
(`PayOrderly`) that says what waiting means. They show that the sequential logic
is right, and that every failure of theirs needs an overlap.

### Bounds

| Run | Bounds | Why they are enough |
|---|---|---|
| `pay_any` | two purchases, one slot for query and method threads besides each purchase's create and close slots, countdown 2, one signal queued at a time, one thread left over from the first purchase, one change of method | every hazard is between a purchase and the one before it; a leftover query, code or create of the first meets the second, and the countdown restarts with a change |
| `pay_orderly` | two purchases, two slots, countdown 2, two method changes | overlapping queries, and a code asked for before and after a change |
| `request_lock` | three threads, two requests each | one holds the lock, two compete, and each comes back |
| `update_*` | two checks, two downloads, four releases of which one is older and one has three parts, a package of two writes | an automatic against a manual check, a download over another |
| `session_any` | two accounts, two passwords, two chains of requests, four acts of the user | login, logout and login again with a chain of the first login in flight, then a restart |
| `msg_any` | two messages under two tabs, one forced, two requests, two acts | a list against another list, a clicked message against a forced notice |
| `pages_*` | two users, two labels, one word, two editions of two tabs, two requests at a time, two acts | two requests for one view, a chain over a change of account, a refresh with new recommendations, a sign-in after midnight |
| `start_any` | one user, a game to play, another, one to book, one without a package; two requests, two processes, one close for each window, three acts | two games' replies interleave, another is selected before or during a start, a start during another one's end, a restart of the client |
| `exit_choice` | two processes | an answer, an end, a start, and a second instance beside it |

`pay_stale_order` has `pay_any`'s values with countdown 1, two queued signals and two threads left over.
`pay_any` keeps the queue at one signal because its state space is large: a worker that finds the queue
full waits, so that signals pile up only in `pay_orderly`; the invariants of `pay_any` are proved for any
length of the queue.
`MaxActs`, `MaxSignals`, `MaxLeftover`, `MaxSelects`, `MaxPurchases`, `MaxChecks`,
`MaxDownloads`, `MaxAsks` and the slots are the only bounds; all are constants and
appear in guards of the user's actions or of thread starts. Deadlock is not
checked (`CHECK_DEADLOCK FALSE`): a client whose user has used up the acts, and
whose threads have ended, stops. `MCSession` uses symmetry of accounts, passwords
and slots, `MCPages` of accounts and slots; their properties are safety properties.

## Fairness

- Worker threads run: weak fairness on the steps of each thread (`RequestLock`, `Update`'s
  downloads, `MsgCenter`). The scheduler gives every thread time.
- A request returns. In `MsgCenter` that is part of the fairness of a thread; in
  `RequestLock` it is analysed: the connection has a time limit
  (`CURLOPT_CONNECTTIMEOUT`), so it ends; the transfer has none, so nothing is assumed
  of its end, and `EveryRequestReturns` has the premise `NoStall` instead. Without that
  premise one stalled transfer stops every operation of the client; it is listed as a
  hazard. Taking the lock is weakly fair only, because `std::mutex` promises no order;
  a thread that waits is served since every run has finitely many requests. A client
  that never stops asking could starve one.
- The download has limits on connection and speed, so its end is assumed of every step.
- `timerClose` fires again and again while it is running (`FairSpec` of `PayFlow`): weak
  fairness on the one timer.
- A process of the stream's window runs, and its timer expires (`StreamWindow`, and
  `GameStart` around it): weak fairness on what it does by itself, none on the user's close.
- The UI thread takes queued signals (`MsgCenter`).
- Nothing is assumed of the user, of the server's news, or of replies in `PayFlow`.

## The proofs

`tlapm` proves each of the following for all values of the constants (any number
of accounts, purchases, threads, messages, versions, sizes). They rest on the named
assumptions of the modules, and two theorems on one more each, which the text below
names: `NeverTakesBack` and `NothingEmpty`. TLC evaluates all of them in the runs. Every
safety invariant, action property and refinement that a passing run checks is the
statement of a theorem.

**PayFlowProofs, whatever is clicked.** `TypeCorrect`, `SuccessIsTrue` (`SuccessOnlyForPaid`),
`ImageFollows` (`ScreenFollows`), `TimersFollow` (`TimersFollowPopup`). The inductive
invariant adds to these: what a thread carries between its request and its handler (an
answered query's order is paid, a code on its way to the screen is of an order that the server knows), which is
needed since handlers run long after the server's answer;
that the close slot of a purchase is unused until its popup closes; and that both
timers run exactly while the popup is open.

**PayFlowProofs, used in order.** `OrdersAreOwn` (`RequestsOwnOrder`), `AmountsAreOwn`
(`AmountIsOwn`), `CodeIsOwn` (`CodeOnScreen`) and `ImplementsCheckout` (the refinement of
`Checkout`), for `OrderlySpec`. The invariant `OrderlyInv` has two phases. Until the
order's number is stored (`AwaitsOrder`) the one thing in flight is the request that
brings it; from then on (`HasOrder`) all jobs, signals, trades and the stored code are of the
latest purchase, its amount and the selected method (`StoredCodeIsOwn`). `CodeIsOwn` follows from the
stored code and `ScreenFollows`, which says that the `Image` shows it unless it is still announced. The phases are what makes the
properties inductive: a thread reads `m_strOrderSn` when it runs, so that its request names
the right order follows only if the number cannot still be on its way. The refinement
has one step per action; paying is the only step of the payment companies that `Checkout`
sees, and handling a query's answer the one that tells.

**RequestLockProofs.** `LockHolds` (`LockInv`) and `Atomic` (`OneAtATime`): the lock is
held exactly by the thread inside the transfer, and `RequestLock` implements
`Channel`. The refinement needs the invariant that the last entry of the
server's log is the holder's whenever its request was served and not yet returned.

**UpdateProofs.** `CompareIsOrder`: `compareVersion` is the lexicographic order of four
numbers. `TypeCorrect`, `OffersNewer` (`OfferIsNewer`), `LaunchesWhole`
(`LaunchedWholeAlone`), `ForcesAlone` (`ForcesRightlyAlone`). The inductive invariant
says in addition that a reply names a published release, that an offer has an
address, that a lone check's kind is still `m_bManual`, and which files a lone
download has prepared at each of its stages. `OffersConsistent` (`OfferIsConsistent`) assumes
`NeverTakesBack`: versions have four parts, as `main.cpp`'s "3.0.4.8" has, and after a newer
release the server publishes none that is not.
Without it the property fails, because an update once found is never forgotten
(`parseCheckUpdateVersion` sets `m_findNewVersion` and nothing resets it). Its invariant
adds that replies do not overtake each other while checks do not overlap, so that
a reply never names an older release than the one on offer, and that the stored
address is an update's; with `CompareIsOrder` it follows that a later release is one too.

**SessionProofs, under any overlap.** `TypeCorrect` and `OnlyAcceptedShown` (`OnlyAccepted`).
The inductive invariant adds that every thread past its login request carries an account
that has logged in; the claim alone is not inductive, since a late reply stores what its
thread has carried for as long as it likes.

**SessionProofs, while the account only changes at rest.** `TokenFollowsLogin`
(`LoginHasToken`), `SavedPairAccepted` (`SavedPair`), `SessionShowsItself` (`SessionIsOwn`) and
`RepliesStoreOwn` (`RepliesAreOwn`). The invariant `OwnInv` says which places belong to which
requests, that the login popup covers a session only while a login's success is on its
way, and, unless changes overlapped: a login under way is alone and carries what was
typed (`LoginAlone`); a session has a token and the pair it was opened with (`SessionInv`);
other requests carry that token (`CarriesToken`); the registry holds an accepted pair but
between two of its values (`SavedInv`); and what a session still lacks is on its way
unless a request failed (`ShownInv`). The last is the property at rest turned into one of
every state, and needs `CarriesToken` to know that what comes is the session's own.

**MsgCenterProofs.** `TypesOK` (`TypeOK`), `EmptyTabsFit` (`EmptyFits`) and
`LonePopupShowsItself` (`LoneNoticeIsOwn`). `Inductive`: all that is asked for, on its way,
queued or listed was published before. `ListsInv`, unless lists crossed: there is one list
thread, it is for the tab that was asked for, while it is open no list is queued and the
flag is down, and a queued list fits the flag. This is needed because the worker sets
`m_msgDataIsEmpty` and the UI thread sets the list. `PopupsInv`, unless popups crossed: there is
one popup and one thread for details, which is for it; until its reply is stored and laid
out the spinner is on, and when the spinner is off the text is that popup's.
`NoSpinnerStays` states the safety half of `ListArrives` and `DetailsArrive` under any overlap
(`NoSpinnerLeft`): who waits for a list or for details has a thread that will end the wait,
so that at rest only a popup whose details failed still waits.

**PagesProofs.** `TypesOK` (`TypeOK`), and for each of the run's four properties an invariant
of its own over `Inductive` (the recommended games on their way were published, and what
is not a query carries an account's token or none).

- `TabsShowOwn` (`TabShowsOwnList`): while there is one edition, the lists behind the tabs,
  to which every refresh appends, begin with that edition's, so a tab's index finds its list.
- `NoSpinnerStays` (`NothingHangs`): who waits for something has a thread or a signal that
  will end the wait, or its request failed. It assumes `NothingEmpty`, that the service
  never recommends an empty list. The attempt to prove it without showed why: `selectIndex`
  returns early when there is no first list, so an empty reply leaves the spinner on.
- `LabelIsTrue` (`SignLabelTrue`): while lists of signs do not cross there is one request for
  them, with the token of the account, and what its reply or the label says of this account
  is so, unless day or account changed.
- `LoneViewsShowOwn` (`LoneViewIsOwn`): until a request for a view crosses another one, every
  thread and every signal on its way to the view brings what was asked for
  (`Brings`, `Fitting`), and if there is none the view shows it. *On its way* follows the second
  requests: labels to games, sign-in to signs, reward to client, and the chain of tables, where
  `NextTable` says that the chain goes on to the rest without the table just filled. That
  each of the four reads the token anew is harmless because a change of the account counts
  as crossing every view of the account's data that is in flight.

**GameStartProofs.** `TypeCorrect`, `OneStreamWindow`, `ClosedStops` (`ClosedGameStops`),
`LabelTrue` (`LoneLabelTrue`) and `StartIsPermitted` (`LoneStartPermitted`). The inductive
invariant has five parts. `Types`, which says besides the types that a request in flight
is for something. `StageInv`: which places belong to which requests. `WindowInv`: one
window, and for each process what its inbox may hold, namely one start among exits,
with an exit behind it if the window was closed late; without that a late close
might meet a game not yet started. `LoneInv`: a start that is still lone was made from
the page of the selected game, which has a package, and asks time and token for it.
`LabelInv`: unless the history is in doubt there is one request for the label at most, and
it knows what the service has stored, or is about to. From `LoneInv` each step maps to
one of `StreamPermit` or to a stutter.

**ClientExitProofs.** `TypeCorrect`, `OneInstance` (`OneClient`) and `ChoiceIsKept`
(`ChoiceKept`): what was confirmed last is what the registry holds and the client does,
after any number of restarts, except for the case that `exit_choice` shows and a crash
between the two writes of an answer. The
inductive invariant relates the open popup's own properties to the members it shows, once
it was clicked in, and the registry to what was chosen.

Left to TLC is everything temporal under fairness: `PopupAlwaysCloses`,
`EveryRequestReturns`, `DownloadEnds`, `ListArrives`, `DetailsArrive`, `ComesToRest` and
`ClosedWindowEnds`. It is out of the prover's reach, as ENABLED is. The four properties that
fail are refuted by TLC.

## Disagreements found

Each is a run in which TLC finds the counterexample; `PROJECT.json` quotes the line
of the repository that says otherwise.

1. *A stale order number* (`pay_stale_order`). `m_strOrderSn` survives its popup, so
   a popup whose order was never created announces the success of an older order.
2. *A forced update that is not forced* (`update_forced`). `m_bManual` belongs to
   whichever check was started last, not to the reply.
3. *A refresh that shows the old games* (`pages_refresh`). The titles of the tabs are
   replaced by a refresh, but the new lists are appended behind the old ones.
4. *An exit that is remembered wrongly* (`exit_choice`). The popup acts by the members it
   shows, and saves two properties of its own that only a click sets.

Also met, and not given a run, by where they happen:

- *Payment.* `generateCodeImage` takes the spinner away before it announces the new code
  (`HttpClient.cpp:1605-1606`), and the `Image` follows each signal on its own
  (`PayPopup.qml:400-408`): after a change of the method, or in the next popup, the old code is
  visible until `codeUrlChanged` is handled. `CodeOnScreen` leaves this moment out. A success
  still queued when the next popup opens closes that one.
- *Update.* The download never looks at the status, so the updater may be started on an
  error page (`HttpClient.cpp:1119`). Two downloads at once empty each other's file, so
  `LaunchedWholeAlone` is about a lone one.
- *Session.* `modifyUserPass` compares the current password with the one typed at login
  (`HttpClient.cpp:483`), so a second change is refused until the next login.
- *Messages.* Popups share one set of members, and two waiting notices open on top of each
  other with one text (`MsgCenter.cpp:216`). The reply for an empty tab, handled after the
  user went on to another tab, declares that one empty too (so `EmptyFits` asks for no overlap),
  and the links to the message page load the first list while the page may be on another tab
  (so it asks for `tab = asked`). `m_bIsRefresh` and `m_unReadFlag` are never used by the
  pages (nobody calls `refreshClientInfo(true)`).
- *Update.* An update once found is offered for good: `parseCheckUpdateVersion` sets
  `m_findNewVersion`, and nothing resets it when the server takes the update back
  (`OfferIsConsistent` is proved for servers that do not).
- *Pages.* A reply without recommended games leaves their spinner on for good, as `selectIndex`
  returns early (`models/HomeHotGamesTabModel.cpp:109`). Replies are shown whatever was asked for last
  (`GameLabelListModel.cpp:54`). The
  sign-in popup asks only while its list is empty, so the list and its label stay for the
  next day and the next user (`SigninPopup.qml:17`); `SignLabelTrue` excepts both.
- *Starting a game.* That package and channel are not empty is looked at once, before two
  requests; details of another game that arrive in between, of a game without a package even,
  decide what is started (`GameDetails.cpp:358`). `LoneStartPermitted` is about starts
  during which no other game is selected. `LoginPopup` refreshes the details only for a
  page that has another number, so they never are. A refusal of `getCtoken` with a "data" in it
  starts the stream with an empty token (`GameDetails.cpp:349`); so `LoneStartPermitted` promises that
  a launch has the token of its reply, not that it has one.
- *The stream's window.* A game started while the window before it is still closing finds the
  lock taken, and its start is lost without a message (`src/src/main.js:11`). A window
  closed before its page listens loses the message, and may start its game and be destroyed,
  so `ClosedGameStops` is about a window closed after its page was loaded.
- *The client.* A second start ends without showing the window of the first, which may be in
  the tray (`main.cpp:132`).

## What is abstracted

- JSON, URLs, encryption, texts, image sizes, QR drawing: what they carry, not how.
- A data race on a member is a choice between its old and its new value, made by the
  order of steps; torn values of `QString` are not modelled. The four unread numbers of
  a reply are stored in one step.
- The server acts on a request, if at all, before the client's transfer ends.
- `update.exe` is a binary outside the source; what it does with the package is unknown
  here, so properties end where it is started.
- The process's end is modelled where something survives it: `Session`'s registry,
  the files of an earlier download in `Update`, the streams in `GameStart`, and the
  registry's flags in `ClientExit`.
- `MCUpdate`'s releases grow except for the one that is older on purpose.
- A game's package and channel are stored and cleared together, and count as one; the
  pictures, texts and goods of a game are left out, as are the recommended goods, whose pane
  is hidden and works like that of the games.
- A list in `Pages` is what it was asked for, not its rows; the guard of
  `GamesOrderTableModel::getData` that lets one row too many through is only reached with
  the row of a delegate on screen.
- Image code, registration and SMS operations keep no state and are left out; the popup
  that the home page's banner opens is the same as one opened from a list.

## What is not modelled, and the plan

Of the client's own code:

- Registration, SMS codes, image codes and the teenage mode are single requests that show
  a message. Those that go on to `getUserInfo` are `Session`'s `Profile`; nothing that
  outlives the reply depends on the others.
- The shop's lists: one request, always with the same argument, and a comparison of a name
  with `Session`'s label.
- The QML pages' layout and navigation, the help dialogs and the web views keep no state
  that another component reads.
- The network access for images in QML configures a cache of Qt and does nothing else.

Most of the repository's lines are not the client's: `src/third` (curl, OpenSSL, zlib,
libhv, JSON), the logging library and the QR-code generator come from elsewhere, and are
external here. The client's own code is about 5,100 lines of C++ and 10,400 of QML, of
which the greater part is layout; the models translate its control.

What is left:

1. The safety half of the other liveness properties, as invariants that a theorem can state:
   who waits for the end of a download or of a window has a thread or a timer that will end
   the wait, as `NothingHangs` says of the pages and `NoSpinnerLeft` of the messages.
2. More of what the abstract specifications promise, proved of them alone: `Checkout` tells
   of a success only what was paid, `StreamPermit` starts once for each reply.
