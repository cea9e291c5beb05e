------------------------------- MODULE Update -------------------------------
(***************************************************************************)
(* Updating the client: the version check of HttpClient, which a timer     *)
(* starts once and the update popup every time it opens, the two popups    *)
(* that offer an update (CheckUpdatePopup.qml, ForceUpdatePopup.qml), and  *)
(* the detached thread that copies the updater, downloads the package and  *)
(* starts the updater.  Several checks and several downloads may run at    *)
(* the same time; they share the members of HttpClient and the files in    *)
(* the temporary directory.                                                *)
(***************************************************************************)
EXTENDS Version, FiniteSets

CONSTANTS
  Installed,     \* the version in the registry
  Releases,      \* what the server publishes over time, a sequence of versions
  MaxChecks,     \* bound: version checks
  MaxDownloads,  \* bound: downloads
  ZipSize        \* writes that an answer to a download takes

\* Releases may have any number of parts; the installed version has the four
\* that compareVersion reads.
ASSUME UpdateAssumption ==
  /\ Installed \in Seq(Nat)
  /\ Len(Installed) >= 4
  /\ Releases \in Seq(Seq(Nat))
  /\ Releases # <<>>
  /\ MaxChecks \in Nat
  /\ MaxDownloads \in Nat
  /\ ZipSize \in Nat \ {0}

Check    == 1..MaxChecks
Download == 1..MaxDownloads
Release  == 1..Len(Releases)
NoUrl    == 0
Page     == Len(Releases) + 1   \* an error page, sent in place of a package

VARIABLES
  m_bManual,         \* HttpClient: the check last started was the user's
  m_verMessage,      \* HttpClient: what the popups say
  m_findNewVersion,  \* HttpClient: there is an update to offer
  m_strFilePackUrl,  \* HttpClient: the release to download, or NoUrl
  started,           \* the three-second timer has fired
  check,             \* the threads that check the version
  forceSignals,      \* showForceUpdate signals queued to the UI thread
  popups,            \* update popups on screen, the topmost last
  download,          \* the threads that download the package
  tempFile,          \* temporary directory: the updater and its library
  zip,               \* temporary directory: kuka_update.zip
  app,               \* "running", "quit" or "crashed"
  launched,          \* what the updater found when it was started
  server,            \* the release the server offers and whether it is forced
  overlapped,        \* history: two checks have been in flight together
  shared             \* history: two downloads have run together

clientVars == <<m_bManual, m_verMessage, m_findNewVersion, m_strFilePackUrl>>
uiVars     == <<started, forceSignals, popups>>
fileVars   == <<tempFile, zip, app, launched>>
vars == <<clientVars, uiVars, check, download, fileVars, server, overlapped, shared>>

CheckType ==
  [at: {"none", "sending", "answered", "done"}, manual: BOOLEAN, release: Release \cup {NoUrl},
   forced: BOOLEAN]

Popup == [kind: {"check", "force"}, clicked: BOOLEAN]

\* at: the next step of downloadUpdatePackage; body: what the server sends.
DownloadType ==
  [at: {"none", "removeExe", "copyExe", "removeDll", "copyDll", "open", "writing",
        "failed", "done"},
   body: Release \cup {NoUrl, Page}, pos: 1..(ZipSize + 1)]

\* The copies are "left" by an earlier update, or "copied" by this session.
File     == {"update.exe", "7z.dll"}
FileType == [File -> {"absent", "left", "copied"}]

\* What every part of the file comes from, NoUrl being a hole.
ZipType == [1..ZipSize -> Release \cup {NoUrl, Page}]
Empty   == [i \in 1..ZipSize |-> NoUrl]

TypeOK ==
  /\ m_bManual \in BOOLEAN
  /\ m_verMessage \in {"", "checking", "newest", "description"}
  /\ m_findNewVersion \in BOOLEAN
  /\ m_strFilePackUrl \in Release \cup {NoUrl}
  /\ started \in BOOLEAN
  /\ check \in [Check -> CheckType]
  /\ forceSignals \in Nat
  /\ popups \in Seq(Popup)
  /\ download \in [Download -> DownloadType]
  /\ tempFile \in FileType
  /\ zip \in ZipType
  /\ app \in {"running", "quit", "crashed"}
  /\ launched \in [tempFile: FileType, zip: ZipType]
  /\ server \in [release: Release, forced: BOOLEAN]
  /\ overlapped \in BOOLEAN
  /\ shared \in BOOLEAN

Init ==
  /\ m_bManual \in BOOLEAN            \* the constructor does not set it
  /\ m_verMessage = ""
  /\ m_findNewVersion = FALSE
  /\ m_strFilePackUrl = NoUrl
  /\ started = FALSE
  /\ check = [c \in Check |-> [at |-> "none", manual |-> FALSE, release |-> NoUrl,
                               forced |-> FALSE]]
  /\ forceSignals = 0
  /\ popups = <<>>
  /\ download = [d \in Download |-> [at |-> "none", body |-> NoUrl, pos |-> 1]]
  /\ tempFile \in {[f \in File |-> "absent"], [f \in File |-> "left"]}
  /\ zip = Empty
  /\ app = "running"
  /\ launched = [tempFile |-> [f \in File |-> "absent"], zip |-> Empty]
  /\ server \in [release: {1}, forced: BOOLEAN]
  /\ overlapped = FALSE
  /\ shared = FALSE

InFlight == {c \in Check : check[c].at \in {"sending", "answered"}}
Active   == {d \in Download : download[d].at \notin {"none", "failed", "done"}}

\* Threads are numbered in the order in which they are started.
IsNext(n, threads) ==
  /\ threads[n].at = "none"
  /\ \A k \in 1..(n - 1) : threads[k].at # "none"

\* The process exists: everything below happens in it.
Running == app = "running"

-----------------------------------------------------------------------------
(* Checking the version *)

\* Mistake: a check that is not the user's does not reset m_bManual.
checkUpdateVersion_KeepsManual(c, bManual) ==
  /\ IsNext(c, check)
  /\ m_bManual' = (m_bManual \/ bManual)
  /\ m_verMessage' = "checking"
  /\ check' = [check EXCEPT ![c] = [@ EXCEPT !.at = "sending", !.manual = bManual]]
  /\ overlapped' = (overlapped \/ InFlight # {})
  /\ UNCHANGED <<m_findNewVersion, m_strFilePackUrl, forceSignals, download, fileVars,
                 server, shared>>

\* On the UI thread; then a thread of its own asks for the current release.
checkUpdateVersion(c, bManual) ==
  /\ IsNext(c, check)
  /\ m_bManual' = bManual
  /\ m_verMessage' = "checking"
  /\ check' = [check EXCEPT ![c] = [@ EXCEPT !.at = "sending", !.manual = bManual]]
  /\ overlapped' = (overlapped \/ InFlight # {})
  /\ UNCHANGED <<m_findNewVersion, m_strFilePackUrl, forceSignals, download, fileVars,
                 server, shared>>

\* Three seconds after the start, once.
OnTimeOut(c) ==
  /\ Running
  /\ ~started
  /\ started' = TRUE
  /\ checkUpdateVersion(c, FALSE)
  /\ UNCHANGED popups

\* The menu opens a new CheckUpdatePopup; the menu is out of reach while a
\* modal popup is on screen.
OpenCheckPopup(c) ==
  /\ Running
  /\ popups = <<>>
  /\ popups' = <<[kind |-> "check", clicked |-> FALSE]>>
  /\ checkUpdateVersion(c, TRUE)
  /\ UNCHANGED started

\* The request of a check: a failed transfer or a status other than 200 ends
\* the thread with a message and changes nothing.
ServeCheck(c) ==
  /\ Running
  /\ check[c].at = "sending"
  /\ \/ check' = [check EXCEPT ![c] = [@ EXCEPT !.at = "answered",
                      !.release = server.release, !.forced = server.forced]]
     \/ check' = [check EXCEPT ![c].at = "done"]
  /\ UNCHANGED <<clientVars, uiVars, download, fileVars, server, overlapped, shared>>

\* A release the server knows, or NoUrl, as a version list.
IsUpdate(r) == r # NoUrl /\ IsNewVersion(Releases[r], Installed)

\* Mistake: the package's address is kept only when there was none before.
parseCheckUpdateVersion_FirstUrl(c) ==
  /\ Running
  /\ check[c].at = "answered"
  /\ check' = [check EXCEPT ![c].at = "done"]
  /\ m_strFilePackUrl' = IF m_strFilePackUrl = NoUrl THEN check[c].release
                                                     ELSE m_strFilePackUrl
  /\ \/ /\ ~IsUpdate(check[c].release)
        /\ m_verMessage' = "newest"
        /\ UNCHANGED <<m_findNewVersion, forceSignals>>
     \/ /\ IsUpdate(check[c].release)
        /\ m_verMessage' = "description"
        /\ m_findNewVersion' = TRUE
        /\ forceSignals' = IF check[c].forced /\ ~m_bManual THEN forceSignals + 1
                                                          ELSE forceSignals
  /\ UNCHANGED <<m_bManual, started, popups, download, fileVars, server, overlapped, shared>>

\* The reply with status 200.
parseCheckUpdateVersion(c) ==
  /\ Running
  /\ check[c].at = "answered"
  /\ check' = [check EXCEPT ![c].at = "done"]
  /\ m_strFilePackUrl' = check[c].release
  /\ \/ /\ ~IsUpdate(check[c].release)
        /\ m_verMessage' = "newest"
        /\ UNCHANGED <<m_findNewVersion, forceSignals>>
     \/ /\ IsUpdate(check[c].release)
        /\ m_verMessage' = "description"
        /\ m_findNewVersion' = TRUE
        /\ forceSignals' = IF check[c].forced /\ ~m_bManual THEN forceSignals + 1
                                                          ELSE forceSignals
  /\ UNCHANGED <<m_bManual, started, popups, download, fileVars, server, overlapped,
                 shared>>

\* main.qml opens a new ForceUpdatePopup over whatever is there.
OnShowForceUpdate ==
  /\ Running
  /\ forceSignals > 0
  /\ forceSignals' = forceSignals - 1
  /\ popups' = Append(popups, [kind |-> "force", clicked |-> FALSE])
  /\ UNCHANGED <<clientVars, started, check, download, fileVars, server, overlapped,
                 shared>>

\* Only CheckUpdatePopup can be closed; a download it started goes on.
CloseCheckPopup ==
  /\ Running
  /\ Len(popups) = 1
  /\ popups[1].kind = "check"
  /\ popups' = <<>>
  /\ UNCHANGED <<clientVars, started, forceSignals, check, download, fileVars, server,
                 overlapped, shared>>

\* The update button of the topmost popup: it works once per popup, and
\* CheckUpdatePopup shows it only when there is an update.
ClickUpdate(d) ==
  /\ Running
  /\ popups # <<>>
  /\ LET top == popups[Len(popups)]
     IN  /\ ~top.clicked
         /\ top.kind = "check" => m_findNewVersion
  /\ popups' = [popups EXCEPT ![Len(popups)].clicked = TRUE]
  /\ IsNext(d, download)
  /\ download' = [download EXCEPT ![d].at = "removeExe"]
  /\ shared' = (shared \/ Active # {})
  /\ UNCHANGED <<clientVars, started, forceSignals, check, fileVars, server, overlapped>>

-----------------------------------------------------------------------------
(* downloadUpdatePackage, which sends no request through the request lock *)

Goes(d, step) == download' = [download EXCEPT ![d].at = step]

\* QFile::remove, when there is such a file, fails if the file is in use.
Remove(d, at, next, file) ==
  /\ download[d].at = at
  /\ Goes(d, next)
  /\ \/ tempFile' = [tempFile EXCEPT ![file] = "absent"]
     \/ tempFile' = tempFile
  /\ UNCHANGED <<zip, app, launched>>

\* Mistake: the result of the copy is not looked at.
Copy_Unchecked(d, at, next, file) ==
  /\ download[d].at = at
  /\ Goes(d, next)
  /\ \/ tempFile[file] = "absent" /\ tempFile' = [tempFile EXCEPT ![file] = "copied"]
     \/ tempFile' = tempFile
  /\ UNCHANGED <<zip, app, launched>>

\* Mistake: a copy that failed is tried again, for ever.
Copy_Retries(d, at, next, file) ==
  /\ download[d].at = at
  /\ \/ /\ tempFile[file] = "absent"
        /\ tempFile' = [tempFile EXCEPT ![file] = "copied"]
        /\ Goes(d, next)
     \/ Goes(d, IF at = "copyExe" THEN "removeExe" ELSE "removeDll") /\ tempFile' = tempFile
  /\ UNCHANGED <<zip, app, launched>>

\* QFile::copy does not overwrite, and may fail for other reasons.
Copy(d, at, next, file) ==
  /\ download[d].at = at
  /\ \/ /\ tempFile[file] = "absent"
        /\ tempFile' = [tempFile EXCEPT ![file] = "copied"]
        /\ Goes(d, next)
     \/ Goes(d, "failed") /\ tempFile' = tempFile
  /\ UNCHANGED <<zip, app, launched>>

\* fopen(zipPath, "wb+") empties the file, whoever else writes to it; curl is
\* told the address as it is now.  The answer is the package or an error page:
\* the status is not looked at.  Without a file, fclose(NULL) ends the process
\* when the transfer does.
Open(d) ==
  /\ download[d].at = "open"
  /\ \/ /\ \E body \in {m_strFilePackUrl, Page} :
             download' = [download EXCEPT ![d] = [at |-> "writing", body |-> body, pos |-> 1]]
        /\ zip' = Empty
        /\ app' = app
     \/ /\ Goes(d, "failed")
        /\ app' = "crashed"
        /\ zip' = zip
  /\ UNCHANGED <<tempFile, launched>>

\* Mistake: the end of the package is not noticed.
Write_PastEnd(d) ==
  /\ download[d].at = "writing"
  /\ zip' = [zip EXCEPT ![download[d].pos] = download[d].body]
  /\ download' = [download EXCEPT ![d].pos = @ + 1]
  /\ UNCHANGED <<tempFile, app, launched>>

\* writeFileCallBack, at this writer's own place in the file.
Write(d) ==
  /\ download[d].at = "writing"
  /\ download[d].pos <= ZipSize
  /\ zip' = [zip EXCEPT ![download[d].pos] = download[d].body]
  /\ download' = [download EXCEPT ![d].pos = @ + 1]
  /\ UNCHANGED <<tempFile, app, launched>>

\* No connection, less than 10 bytes a second for 10 seconds, a broken one.
TransferFails(d) ==
  /\ download[d].at = "writing"
  /\ Goes(d, "failed")
  /\ UNCHANGED fileVars

\* The updater is started on what is in the temporary directory; the client quits.
StartUpdater(d) ==
  /\ download[d].at = "writing"
  /\ download[d].pos = ZipSize + 1
  /\ Goes(d, "done")
  /\ launched' = [tempFile |-> tempFile, zip |-> zip]
  /\ app' = "quit"
  /\ UNCHANGED <<tempFile, zip>>

DownloadStep(d) ==
  /\ Running
  /\ \/ Remove(d, "removeExe", "copyExe", "update.exe")
     \/ Copy(d, "copyExe", "removeDll", "update.exe")
     \/ Remove(d, "removeDll", "copyDll", "7z.dll")
     \/ Copy(d, "copyDll", "open", "7z.dll")
     \/ Open(d)
     \/ Write(d)
     \/ TransferFails(d)
     \/ StartUpdater(d)
  /\ UNCHANGED <<clientVars, uiVars, check, server, overlapped, shared>>

\* The server publishes its next release; what it once forced may change.
Publish ==
  /\ server.release < Len(Releases)
  /\ \E f \in BOOLEAN : server' = [release |-> server.release + 1, forced |-> f]
  /\ UNCHANGED <<clientVars, uiVars, check, download, fileVars, overlapped, shared>>

-----------------------------------------------------------------------------

Next ==
  \/ \E c \in Check : OnTimeOut(c) \/ OpenCheckPopup(c)
  \/ \E c \in Check : ServeCheck(c) \/ parseCheckUpdateVersion(c)
  \/ OnShowForceUpdate
  \/ CloseCheckPopup
  \/ \E d \in Download : ClickUpdate(d) \/ DownloadStep(d)
  \/ Publish

Spec == Init /\ [][Next]_vars

\* A download thread keeps running, and its transfer comes to an end: curl
\* gives up a connection after 10 seconds and a transfer that is too slow.
FairSpec == Spec /\ \A d \in Download : WF_vars(DownloadStep(d))

-----------------------------------------------------------------------------
(* Properties *)

Offered ==
  \/ m_findNewVersion
  \/ forceSignals > 0
  \/ \E i \in DOMAIN popups : popups[i].kind = "force"

\* An update is offered, by the button or by a popup that cannot be closed,
\* only if the server has published a version that is newer than the installed
\* one in the order of version numbers (compareVersion,
\* parseCheckUpdateVersion).
OfferIsNewer == Offered => \E r \in 1..server.release : Newer(Releases[r], Installed)

\* Release r is newer than what is installed, in the order of version numbers.
NewerRelease(r) == Len(Releases[r]) = Len(Installed) /\ Newer(Releases[r], Installed)

\* What OfferIsConsistent needs of the server: versions have four parts, as the
\* installed one does ("3.0.4.8" in main.cpp), and after a newer release it
\* publishes none that is not.  (An update once found is never forgotten:
\* parseCheckUpdateVersion sets m_findNewVersion and nothing resets it.)
NeverTakesBack ==
  /\ Len(Installed) = 4
  /\ \A r, s \in Release : r < s /\ NewerRelease(r) => NewerRelease(s)

\* As long as no two checks have been in flight together: once an update is
\* offered, the popup does not call the client up to date, and what a
\* download fetches is newer than what is installed.
OfferIsConsistent ==
  ~overlapped =>
    /\ m_findNewVersion => m_verMessage # "newest"
    /\ \A d \in Download :
         download[d].body \in Release => Newer(Releases[download[d].body], Installed)

\* The updater is started on files that this download prepared: its own copy
\* of update.exe and 7z.dll and the whole of one answer of the server.
LaunchedWhole ==
  app = "quit" =>
    /\ \A f \in File : launched.tempFile[f] = "copied"
    /\ launched.zip[1] # NoUrl
    /\ \A i, j \in 1..ZipSize : launched.zip[i] = launched.zip[j]

\* This holds as long as no two downloads have run together.
LaunchedWholeAlone == ~shared => LaunchedWhole

\* The reply of check c forces an update exactly if the check was automatic,
\* the version is newer and the server forces it.
ForcesRightly(c) ==
  (check[c].at = "answered" /\ check'[c].at = "done") =>
    (forceSignals' > forceSignals
       <=> check[c].forced /\ IsUpdate(check[c].release) /\ ~check[c].manual)

\* True of every check as long as no two have been in flight together.
ForcesRightlyAlone == [][~overlapped => \A c \in Check : ForcesRightly(c)]_vars

\* A download ends: with the updater started, with a message, or with the
\* process; the 10-second limits on the connection and on the speed make it.
DownloadEnds == \A d \in Download : d \in Active ~> (d \notin Active \/ app # "running")

-----------------------------------------------------------------------------
(* Properties that fail *)

\* A check that was not started by hand forces the update (the comment above
\* the last condition of parseCheckUpdateVersion): with two checks in flight,
\* m_bManual belongs to the one started last.
ForcedUpdate == [][\A c \in Check : ForcesRightly(c)]_vars
=============================================================================
