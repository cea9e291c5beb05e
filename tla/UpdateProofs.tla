----------------------------- MODULE UpdateProofs -----------------------------
(***************************************************************************)
(* Proofs about Update for any versions, any number of checks, downloads   *)
(* and writes: what is offered is newer, and a download that runs alone    *)
(* starts the updater on files that are all its own.                       *)
(***************************************************************************)
EXTENDS Update, TLAPS

(* Versions *)

LEMMA Parts ==
  ASSUME NEW v \in Seq(Nat)
  PROVE  /\ Len(v) \in Nat
         /\ DOMAIN v = 1..Len(v)
         /\ \A i \in 1..Len(v) : v[i] \in Nat
  OBVIOUS

\* Whatever the length, calling a version newer means that it is.
LEMMA CalledNewer ==
  ASSUME NEW v \in Seq(Nat), NEW w \in Seq(Nat), Len(v) = Len(w), Len(w) >= 4,
         compareVersion(v, w)
  PROVE  Newer(v, w)
<1>1. \A i \in 1..4 : i \in DOMAIN v \cap DOMAIN w
  BY Parts
<1>2. ASSUME NEW i \in 1..4, v[i] > w[i], \A j \in 1..(i - 1) : v[j] = w[j]
      PROVE  Newer(v, w)
  BY <1>1, <1>2 DEF Newer
<1>3. CASE v[1] > w[1]
  BY <1>2, <1>3
<1>4. CASE v[1] = w[1] /\ v[2] > w[2]
  BY <1>2, <1>4
<1>5. CASE v[1] = w[1] /\ v[2] = w[2] /\ v[3] > w[3]
  BY <1>2, <1>5
<1>6. CASE v[1] = w[1] /\ v[2] = w[2] /\ v[3] = w[3] /\ v[4] > w[4]
  BY <1>2, <1>6
<1>7. QED
  BY <1>3, <1>4, <1>5, <1>6 DEF compareVersion

\* compareVersion is the order of version numbers: of two lists of four parts
\* the first is called newer exactly if the first difference is in its favour.
THEOREM CompareIsOrder ==
  ASSUME NEW v \in Seq(Nat), NEW w \in Seq(Nat), Len(v) = 4, Len(w) = 4
  PROVE  compareVersion(v, w) <=> Newer(v, w)
<1>1. ASSUME Newer(v, w)
      PROVE  compareVersion(v, w)
  <2>1. DOMAIN v \cap DOMAIN w = 1..4
    BY Parts
  <2>2. PICK i \in 1..4 : v[i] > w[i] /\ \A j \in 1..(i - 1) : v[j] = w[j]
    BY <1>1, <2>1 DEF Newer
  <2>3. CASE i = 1
    BY <2>2, <2>3 DEF compareVersion
  <2>4. CASE i = 2
    <3>1. v[1] = w[1]
      BY <2>2, <2>4
    <3>2. QED
      BY <2>2, <2>4, <3>1 DEF compareVersion
  <2>5. CASE i = 3
    <3>1. v[1] = w[1] /\ v[2] = w[2]
      BY <2>2, <2>5
    <3>2. QED
      BY <2>2, <2>5, <3>1 DEF compareVersion
  <2>6. CASE i = 4
    <3>1. v[1] = w[1] /\ v[2] = w[2] /\ v[3] = w[3]
      BY <2>2, <2>6
    <3>2. QED
      BY <2>2, <2>6, <3>1 DEF compareVersion
  <2>7. QED
    BY <2>3, <2>4, <2>5, <2>6
<1>2. ASSUME compareVersion(v, w)
      PROVE  Newer(v, w)
  <2>1. Len(v) = Len(w) /\ Len(w) >= 4
    OBVIOUS
  <2>2. QED
    BY <1>2, <2>1, CalledNewer, Zenon
<1>3. QED
  BY <1>1, <1>2

LEMMA NewIsNewer ==
  ASSUME NEW v \in Seq(Nat), IsNewVersion(v, Installed)
  PROVE  Newer(v, Installed)
  BY CalledNewer, UpdateAssumption DEF IsNewVersion

-----------------------------------------------------------------------------
(* The inductive invariant *)

\* A reply names a release the server has published.
RepliesPublished ==
  \A c \in Check : check[c].at = "answered" => check[c].release \in 1..server.release

\* Whoever can start a download, or has started one, has an address for it.
UrlKnown == (Offered \/ Active # {}) => m_strFilePackUrl # NoUrl

\* What a lone download has prepared, step by step.
Prepared ==
  /\ \A d, e \in Download : d \in Active /\ e \in Active => d = e
  /\ \A d \in Download :
       download[d].at \in {"removeDll", "copyDll", "open", "writing"} => tempFile["update.exe"] = "copied"
  /\ \A d \in Download :
       download[d].at \in {"open", "writing"} => tempFile["7z.dll"] = "copied"
  /\ \A d \in Download :
       download[d].at = "writing" =>
         /\ download[d].body # NoUrl
         /\ \A i \in 1..ZipSize :
              i < download[d].pos => zip[i] = download[d].body

AlonePrepared == ~shared => Prepared

\* As long as no two checks were in flight together, m_bManual is that of the
\* check in flight.
ManualIsOwn ==
  ~overlapped => \A c \in InFlight : /\ check[c].manual = m_bManual
                                    /\ \A e \in InFlight : e = c

IInv ==
  /\ TypeOK
  /\ ManualIsOwn
  /\ RepliesPublished
  /\ OfferIsNewer
  /\ UrlKnown
  /\ AlonePrepared
  /\ LaunchedWholeAlone

LEMMA Constants ==
  /\ Releases \in Seq(Seq(Nat))
  /\ Len(Releases) \in Nat \ {0}
  /\ 1 \in Release
  /\ NoUrl \notin Release
  /\ Page # NoUrl
  /\ ZipSize \in Nat \ {0}
  /\ \A r \in Release : Releases[r] \in Seq(Nat)
  BY UpdateAssumption DEF Release, NoUrl, Page

LEMMA InitInv == Init => IInv
<1> SUFFICES ASSUME Init
             PROVE  IInv
  OBVIOUS
<1>1. TypeOK
  <2>1. check \in [Check -> CheckType]
    <3>1. [at |-> "none", manual |-> FALSE, release |-> NoUrl, forced |-> FALSE] \in CheckType
      BY DEF CheckType
    <3>2. QED
      BY <3>1 DEF Init
  <2>2. download \in [Download -> DownloadType]
    <3>1. [at |-> "none", body |-> NoUrl, pos |-> 1] \in DownloadType
      BY Constants DEF DownloadType
    <3>2. QED
      BY <3>1 DEF Init
  <2>3. tempFile \in FileType
    BY DEF Init, FileType
  <2>4. zip \in ZipType
    BY DEF Init, ZipType, Empty
  <2>5. launched \in [tempFile: FileType, zip: ZipType]
    <3>1. [f \in File |-> "absent"] \in FileType /\ Empty \in ZipType
      BY DEF FileType, ZipType, Empty
    <3>2. QED
      BY <3>1 DEF Init
  <2>6. server \in [release: Release, forced: BOOLEAN]
    <3>1. server \in [release: {1}, forced: BOOLEAN]
      BY DEF Init
    <3>2. QED
      BY <3>1, Constants
  <2>7. popups \in Seq(Popup)
    <3>1. popups = <<>>
      BY DEF Init
    <3>2. QED
      BY <3>1
  <2>8. /\ m_bManual \in BOOLEAN
        /\ m_verMessage \in {"", "checking", "newest", "description"}
        /\ m_findNewVersion \in BOOLEAN
        /\ m_strFilePackUrl \in Release \cup {NoUrl}
        /\ started \in BOOLEAN
        /\ forceSignals \in Nat
        /\ app \in {"running", "quit", "crashed"}
        /\ overlapped \in BOOLEAN
        /\ shared \in BOOLEAN
    BY DEF Init
  <2>9. QED
    BY <2>1, <2>2, <2>3, <2>4, <2>5, <2>6, <2>7, <2>8 DEF TypeOK
<1>2. RepliesPublished
  BY DEF RepliesPublished, Init
<1>3. ~Offered
  <2>1. popups = <<>> /\ m_findNewVersion = FALSE /\ forceSignals = 0
    BY DEF Init
  <2>2. DOMAIN popups = {}
    BY <2>1
  <2>3. ~(forceSignals > 0)
    BY <2>1
  <2>4. QED
    BY <2>1, <2>2, <2>3, Zenon DEF Offered
<1>4. Active = {}
  BY DEF Active, Init
<1>5. OfferIsNewer
  BY <1>3 DEF OfferIsNewer
<1>6. UrlKnown
  BY <1>3, <1>4 DEF UrlKnown
<1>7. \A d \in Download : download[d].at = "none"
  BY DEF Init
<1>8. AlonePrepared
  BY <1>4, <1>7 DEF AlonePrepared, Prepared
<1>9. LaunchedWholeAlone
  BY DEF LaunchedWholeAlone, LaunchedWhole, Init
<1>10. ManualIsOwn
  <2>1. InFlight = {}
    BY DEF InFlight, Init
  <2>2. QED
    BY <2>1 DEF ManualIsOwn
<1>11. QED
  BY <1>1, <1>2, <1>5, <1>6, <1>8, <1>9, <1>10 DEF IInv

\* A check that changes only its own record.
LEMMA CheckStep ==
  ASSUME TypeOK, NEW c \in Check, NEW r \in CheckType,
         check' = [check EXCEPT ![c] = r]
  PROVE  /\ check' \in [Check -> CheckType]
         /\ check'[c] = r
         /\ \A e \in Check : e # c => check'[e] = check[e]
  BY DEF TypeOK

\* The same of a download.
LEMMA DownloadRecord ==
  ASSUME TypeOK, NEW d \in Download, NEW r \in DownloadType,
         download' = [download EXCEPT ![d] = r]
  PROVE  /\ download' \in [Download -> DownloadType]
         /\ download'[d] = r
         /\ \A e \in Download : e # d => download'[e] = download[e]
  BY DEF TypeOK

\* A download thread that goes on to its next step.
LEMMA GoesOn ==
  ASSUME TypeOK, NEW d \in Download,
         NEW step \in {"removeExe", "copyExe", "removeDll", "copyDll", "open", "writing",
                       "failed", "done"},
         Goes(d, step)
  PROVE  /\ download' \in [Download -> DownloadType]
         /\ download'[d].at = step
         /\ download'[d].body = download[d].body
         /\ download'[d].pos = download[d].pos
         /\ \A e \in Download : e # d => download'[e] = download[e]
<1>1. download[d] \in DownloadType
  BY DEF TypeOK
<1>2. [download[d] EXCEPT !.at = step] \in DownloadType
  BY <1>1 DEF DownloadType
<1>3. download' = [download EXCEPT ![d] = [download[d] EXCEPT !.at = step]]
  BY DEF Goes
<1>4. /\ download' \in [Download -> DownloadType]
      /\ download'[d] = [download[d] EXCEPT !.at = step]
      /\ \A e \in Download : e # d => download'[e] = download[e]
  BY <1>2, <1>3, DownloadRecord
<1>5. QED
  BY <1>1, <1>4 DEF DownloadType

\* The start of a check.
LEMMA CheckStarts ==
  ASSUME TypeOK, NEW c \in Check, NEW b \in BOOLEAN, checkUpdateVersion(c, b),
         started' \in BOOLEAN, popups' \in Seq(Popup)
  PROVE  TypeOK'
<1>1. check[c] \in CheckType
  BY DEF TypeOK
<1>2. [check[c] EXCEPT !.at = "sending", !.manual = b] \in CheckType
  BY <1>1 DEF CheckType
<1>3. check' \in [Check -> CheckType]
  <2>1. check' = [check EXCEPT ![c] = [check[c] EXCEPT !.at = "sending", !.manual = b]]
    BY DEF checkUpdateVersion
  <2>2. QED
    BY <1>2, <2>1, CheckStep
<1>4. m_bManual' \in BOOLEAN /\ m_verMessage' = "checking"
  BY DEF checkUpdateVersion
<1>5. overlapped' \in BOOLEAN
  BY DEF checkUpdateVersion
<1>6. UNCHANGED <<m_findNewVersion, m_strFilePackUrl, forceSignals, download, tempFile, zip,
                  app, launched, server, shared>>
  BY DEF checkUpdateVersion, fileVars
<1>7. QED
  BY <1>3, <1>4, <1>5, <1>6 DEF TypeOK

\* Every step keeps the types.
LEMMA StepType == TypeOK /\ [Next]_vars => TypeOK'
<1> SUFFICES ASSUME TypeOK, [Next]_vars
             PROVE  TypeOK'
  OBVIOUS
<1>2. ASSUME NEW c \in Check, OnTimeOut(c)
      PROVE  TypeOK'
  <2>1. started' \in BOOLEAN /\ checkUpdateVersion(c, FALSE) /\ popups' = popups
    BY <1>2 DEF OnTimeOut
  <2>2. popups' \in Seq(Popup)
    BY <2>1 DEF TypeOK
  <2>3. QED
    BY <2>1, <2>2, CheckStarts
<1>3. ASSUME NEW c \in Check, OpenCheckPopup(c)
      PROVE  TypeOK'
  <2>1. /\ popups' = <<[kind |-> "check", clicked |-> FALSE]>>
        /\ checkUpdateVersion(c, TRUE)
        /\ started' = started
    BY <1>3 DEF OpenCheckPopup
  <2>2. [kind |-> "check", clicked |-> FALSE] \in Popup
    BY DEF Popup
  <2>3. popups' \in Seq(Popup)
    BY <2>1, <2>2
  <2>4. started' \in BOOLEAN
    BY <2>1 DEF TypeOK
  <2>5. QED
    BY <2>1, <2>3, <2>4, CheckStarts
<1>4. ASSUME NEW c \in Check, ServeCheck(c)
      PROVE  TypeOK'
  <2>1. check[c] \in CheckType /\ server.release \in Release /\ server.forced \in BOOLEAN
    BY DEF TypeOK
  <2>2. /\ [check[c] EXCEPT !.at = "answered", !.release = server.release,
                            !.forced = server.forced] \in CheckType
        /\ [check[c] EXCEPT !.at = "done"] \in CheckType
    BY <2>1 DEF CheckType
  <2>3. \/ check' = [check EXCEPT ![c] = [check[c] EXCEPT !.at = "answered",
                          !.release = server.release, !.forced = server.forced]]
        \/ check' = [check EXCEPT ![c] = [check[c] EXCEPT !.at = "done"]]
    BY <1>4 DEF ServeCheck
  <2>4. check' \in [Check -> CheckType]
    BY <2>2, <2>3, CheckStep
  <2>5. UNCHANGED <<clientVars, uiVars, download, fileVars, server, overlapped, shared>>
    BY <1>4 DEF ServeCheck
  <2>6. QED
    BY <2>4, <2>5, ZenonT(40) DEF TypeOK, clientVars, uiVars, fileVars
<1>5. ASSUME NEW c \in Check, parseCheckUpdateVersion(c)
      PROVE  TypeOK'
  <2>1. check[c] \in CheckType
    BY DEF TypeOK
  <2>2. [check[c] EXCEPT !.at = "done"] \in CheckType /\ check[c].release \in Release \cup {NoUrl}
    BY <2>1 DEF CheckType
  <2>3. check' = [check EXCEPT ![c] = [check[c] EXCEPT !.at = "done"]]
    BY <1>5 DEF parseCheckUpdateVersion
  <2>4. check' \in [Check -> CheckType]
    BY <2>2, <2>3, CheckStep
  <2>5. m_strFilePackUrl' \in Release \cup {NoUrl}
    BY <1>5, <2>2 DEF parseCheckUpdateVersion
  <2>6. m_findNewVersion \in BOOLEAN /\ forceSignals \in Nat
    BY DEF TypeOK
  <2>7. /\ m_verMessage' \in {"", "checking", "newest", "description"}
        /\ m_findNewVersion' \in BOOLEAN
        /\ forceSignals' \in Nat
    <3>1. m_verMessage' \in {"newest", "description"}
      BY <1>5 DEF parseCheckUpdateVersion
    <3>2. m_findNewVersion' = m_findNewVersion \/ m_findNewVersion' = TRUE
      BY <1>5 DEF parseCheckUpdateVersion
    <3>3. forceSignals' = forceSignals \/ forceSignals' = forceSignals + 1
      BY <1>5 DEF parseCheckUpdateVersion
    <3>4. forceSignals' \in Nat
      BY <2>6, <3>3
    <3>5. m_findNewVersion' \in BOOLEAN
      BY <2>6, <3>2
    <3>6. QED
      BY <3>1, <3>4, <3>5
  <2>8. UNCHANGED <<m_bManual, started, popups, download, tempFile, zip, app, launched,
                    server, overlapped, shared>>
    BY <1>5 DEF parseCheckUpdateVersion, fileVars
  <2>9. QED
    BY <2>4, <2>5, <2>7, <2>8 DEF TypeOK
<1>6. CASE OnShowForceUpdate
  <2>1. [kind |-> "force", clicked |-> FALSE] \in Popup
    BY DEF Popup
  <2>2. popups \in Seq(Popup) /\ forceSignals \in Nat
    BY DEF TypeOK
  <2>3. /\ popups' = Append(popups, [kind |-> "force", clicked |-> FALSE])
        /\ forceSignals > 0
        /\ forceSignals' = forceSignals - 1
    BY <1>6 DEF OnShowForceUpdate
  <2>4. popups' \in Seq(Popup) /\ forceSignals' \in Nat
    BY <2>1, <2>2, <2>3
  <2>5. UNCHANGED <<clientVars, started, check, download, fileVars, server, overlapped,
                    shared>>
    BY <1>6 DEF OnShowForceUpdate
  <2>6. QED
    BY <2>4, <2>5, ZenonT(40) DEF TypeOK, clientVars, fileVars
<1>7. CASE CloseCheckPopup
  <2>1. popups' = <<>>
    BY <1>7 DEF CloseCheckPopup
  <2>2. popups' \in Seq(Popup)
    BY <2>1
  <2>3. UNCHANGED <<clientVars, started, forceSignals, check, download, fileVars, server,
                    overlapped, shared>>
    BY <1>7 DEF CloseCheckPopup
  <2>4. QED
    BY <2>2, <2>3, ZenonT(40) DEF TypeOK, clientVars, fileVars
<1>8. ASSUME NEW d \in Download, ClickUpdate(d)
      PROVE  TypeOK'
  <2>1. popups \in Seq(Popup) /\ popups # <<>>
    BY <1>8 DEF TypeOK, ClickUpdate
  <2>2. Len(popups) \in 1..Len(popups) /\ popups[Len(popups)] \in Popup
    BY <2>1
  <2>3. [popups[Len(popups)] EXCEPT !.clicked = TRUE] \in Popup
    BY <2>2 DEF Popup
  <2>4. popups' = [popups EXCEPT ![Len(popups)] =
                      [popups[Len(popups)] EXCEPT !.clicked = TRUE]]
    BY <1>8 DEF ClickUpdate
  <2>5. popups' \in Seq(Popup)
    BY <2>1, <2>2, <2>3, <2>4
  <2>6. Goes(d, "removeExe")
    BY <1>8 DEF ClickUpdate, Goes
  <2>7. download' \in [Download -> DownloadType]
    BY <2>6, GoesOn
  <2>8. shared' \in BOOLEAN
    BY <1>8 DEF ClickUpdate
  <2>9. UNCHANGED <<clientVars, started, forceSignals, check, fileVars, server, overlapped>>
    BY <1>8 DEF ClickUpdate
  <2>10. QED
    BY <2>5, <2>7, <2>8, <2>9 DEF TypeOK, clientVars, fileVars
<1>9. ASSUME NEW d \in Download, DownloadStep(d)
      PROVE  TypeOK'
  <2>0. UNCHANGED <<clientVars, uiVars, check, server, overlapped, shared>>
    BY <1>9 DEF DownloadStep
  <2>1. ASSUME download' \in [Download -> DownloadType], tempFile' \in FileType,
               zip' \in ZipType, app' \in {"running", "quit", "crashed"},
               launched' \in [tempFile: FileType, zip: ZipType]
        PROVE  TypeOK'
    BY <2>0, <2>1 DEF TypeOK, clientVars, uiVars
  <2>2. /\ tempFile \in FileType
        /\ zip \in ZipType
        /\ app \in {"running", "quit", "crashed"}
        /\ launched \in [tempFile: FileType, zip: ZipType]
        /\ download[d] \in DownloadType
        /\ m_strFilePackUrl \in Release \cup {NoUrl}
    BY DEF TypeOK
  <2>3. ASSUME NEW at, NEW next \in {"copyExe", "copyDll"}, NEW f \in File,
               Remove(d, at, next, f)
        PROVE  TypeOK'
    <3>1. download' \in [Download -> DownloadType]
      BY <2>3, GoesOn DEF Remove
    <3>2. tempFile' \in FileType
      BY <2>2, <2>3 DEF Remove, FileType
    <3>3. UNCHANGED <<zip, app, launched>>
      BY <2>3 DEF Remove
    <3>4. QED
      BY <2>1, <2>2, <3>1, <3>2, <3>3
  <2>4. ASSUME NEW at, NEW next \in {"removeDll", "open"}, NEW f \in File,
               Copy(d, at, next, f)
        PROVE  TypeOK'
    <3>1. Goes(d, next) \/ Goes(d, "failed")
      BY <2>4 DEF Copy
    <3>2. download' \in [Download -> DownloadType]
      BY <3>1, GoesOn
    <3>3. tempFile' \in FileType
      BY <2>2, <2>4 DEF Copy, FileType
    <3>4. UNCHANGED <<zip, app, launched>>
      BY <2>4 DEF Copy
    <3>5. QED
      BY <2>1, <2>2, <3>2, <3>3, <3>4
  <2>5. CASE Open(d)
    <3>1. \A body \in {m_strFilePackUrl, Page} :
            [at |-> "writing", body |-> body, pos |-> 1] \in DownloadType
      BY <2>2, Constants DEF DownloadType
    <3>2. \/ /\ \E body \in {m_strFilePackUrl, Page} :
                  download' = [download EXCEPT ![d] = [at |-> "writing", body |-> body,
                                                       pos |-> 1]]
             /\ zip' = Empty /\ app' = app
          \/ Goes(d, "failed") /\ zip' = zip /\ app' = "crashed"
      BY <2>5 DEF Open
    <3>3. download' \in [Download -> DownloadType]
      BY <3>1, <3>2, GoesOn, DownloadRecord
    <3>4. Empty \in ZipType
      BY DEF ZipType, Empty
    <3>5. UNCHANGED <<tempFile, launched>>
      BY <2>5 DEF Open
    <3>6. zip' \in ZipType /\ app' \in {"running", "quit", "crashed"}
      BY <2>2, <3>2, <3>4
    <3>7. QED
      BY <2>1, <2>2, <3>3, <3>5, <3>6
  <2>6. CASE Write(d)
    <3>1. /\ download[d].pos \in 1..ZipSize
          /\ download[d].body \in Release \cup {NoUrl, Page}
      BY <2>2, <2>6, Constants DEF Write, DownloadType
    <3>2. zip' \in ZipType
      BY <2>2, <2>6, <3>1 DEF Write, ZipType
    <3>3. [download[d] EXCEPT !.pos = download[d].pos + 1] \in DownloadType
      <4>1. download[d].pos + 1 \in 1..(ZipSize + 1)
        BY <3>1, Constants
      <4>2. QED
        BY <2>2, <4>1 DEF DownloadType
    <3>4. download' = [download EXCEPT ![d] = [download[d] EXCEPT !.pos = download[d].pos + 1]]
      BY <2>6 DEF Write
    <3>5. download' \in [Download -> DownloadType]
      BY <3>3, <3>4, DownloadRecord
    <3>6. UNCHANGED <<tempFile, app, launched>>
      BY <2>6 DEF Write
    <3>7. QED
      BY <2>1, <2>2, <3>2, <3>5, <3>6
  <2>7. CASE TransferFails(d)
    <3>1. download' \in [Download -> DownloadType]
      BY <2>7, GoesOn DEF TransferFails
    <3>2. UNCHANGED fileVars
      BY <2>7 DEF TransferFails
    <3>3. QED
      BY <2>1, <2>2, <3>1, <3>2 DEF fileVars
  <2>8. CASE StartUpdater(d)
    <3>1. download' \in [Download -> DownloadType]
      BY <2>8, GoesOn DEF StartUpdater
    <3>2. /\ launched' = [tempFile |-> tempFile, zip |-> zip]
          /\ app' = "quit"
          /\ UNCHANGED <<tempFile, zip>>
      BY <2>8 DEF StartUpdater
    <3>3. launched' \in [tempFile: FileType, zip: ZipType]
      BY <2>2, <3>2
    <3>4. QED
      BY <2>1, <2>2, <3>1, <3>2, <3>3
  <2>9. "update.exe" \in File /\ "7z.dll" \in File
    BY DEF File
  <2>10. QED
    BY <1>9, <2>3, <2>4, <2>5, <2>6, <2>7, <2>8, <2>9 DEF DownloadStep
<1>10. CASE Publish
  <2>1. PICK f \in BOOLEAN : server' = [release |-> server.release + 1, forced |-> f]
    BY <1>10 DEF Publish
  <2>2. server.release \in Release /\ server.release < Len(Releases)
    BY <1>10 DEF Publish, TypeOK
  <2>3. server.release + 1 \in Release
    BY <2>2, Constants DEF Release
  <2>4. server' \in [release: Release, forced: BOOLEAN]
    BY <2>1, <2>3
  <2>5. UNCHANGED <<clientVars, uiVars, check, download, fileVars, overlapped, shared>>
    BY <1>10 DEF Publish
  <2>6. QED
    BY <2>4, <2>5 DEF TypeOK, clientVars, uiVars, fileVars
<1>11. CASE UNCHANGED vars
  BY <1>11, ZenonT(40) DEF vars, TypeOK, clientVars, uiVars, fileVars
<1>12. QED
  BY <1>2, <1>3, <1>4, <1>5, <1>6, <1>7, <1>8, <1>9, <1>10, <1>11 DEF Next

-----------------------------------------------------------------------------
(* The other parts of the invariant, action by action *)

\* What each part depends on.
LEMMA RepliesFrame ==
  RepliesPublished /\ UNCHANGED <<check, server>> => RepliesPublished'
  BY DEF RepliesPublished

LEMMA OfferFrame ==
  OfferIsNewer /\ (Offered' => Offered) /\ UNCHANGED server => OfferIsNewer'
  BY DEF OfferIsNewer

LEMMA OfferedFrame ==
  UNCHANGED <<m_findNewVersion, forceSignals, popups>> => (Offered' <=> Offered)
  BY DEF Offered

LEMMA UrlFrame ==
  UrlKnown /\ (Offered' => Offered) /\ (Active' # {} => Active # {})
    /\ UNCHANGED m_strFilePackUrl => UrlKnown'
  BY DEF UrlKnown

LEMMA ActiveFrame ==
  UNCHANGED download => Active' = Active
  BY DEF Active

LEMMA PreparedFrame ==
  AlonePrepared /\ UNCHANGED <<download, tempFile, zip, shared>> => AlonePrepared'
  BY ActiveFrame DEF AlonePrepared, Prepared

LEMMA LaunchedFrame ==
  LaunchedWholeAlone /\ UNCHANGED <<app, launched, shared>> => LaunchedWholeAlone'
  BY DEF LaunchedWholeAlone, LaunchedWhole

LEMMA ManualFrame ==
  ManualIsOwn /\ UNCHANGED <<m_bManual, check, overlapped>> => ManualIsOwn'
  BY DEF ManualIsOwn, InFlight

\* The start of a check.
LEMMA CheckStartsInv ==
  ASSUME IInv, NEW c \in Check, NEW b \in BOOLEAN, checkUpdateVersion(c, b),
         Offered' => Offered, TypeOK'
  PROVE  IInv'
<1>1. TypeOK /\ check[c] \in CheckType
  BY DEF IInv, TypeOK
<1>2. /\ check' \in [Check -> CheckType]
      /\ check'[c] = [check[c] EXCEPT !.at = "sending", !.manual = b]
      /\ \A e \in Check : e # c => check'[e] = check[e]
  <2>1. [check[c] EXCEPT !.at = "sending", !.manual = b] \in CheckType
    BY <1>1 DEF CheckType
  <2>2. check' = [check EXCEPT ![c] = [check[c] EXCEPT !.at = "sending", !.manual = b]]
    BY DEF checkUpdateVersion
  <2>3. QED
    BY <1>1, <2>1, <2>2, CheckStep
<1>3. check'[c].at = "sending" /\ check'[c].manual = b
  BY <1>1, <1>2 DEF CheckType
<1>4. UNCHANGED <<m_strFilePackUrl, download, tempFile, zip, app, launched, server, shared>>
  BY DEF checkUpdateVersion, fileVars
<1>5. ManualIsOwn'
  <2>1. m_bManual' = b /\ (overlapped' <=> (overlapped \/ InFlight # {}))
    BY DEF checkUpdateVersion
  <2>2. SUFFICES ASSUME ~overlapped, InFlight = {}
                 PROVE  \A e \in InFlight' : e = c
    BY <1>3, <2>1, <2>2 DEF ManualIsOwn
  <2>3. QED
    BY <1>2, <2>2 DEF InFlight
<1>6. RepliesPublished'
  BY <1>2, <1>3, <1>4 DEF IInv, RepliesPublished
<1>7. OfferIsNewer' /\ UrlKnown'
  BY <1>4, OfferFrame, UrlFrame, ActiveFrame DEF IInv
<1>8. AlonePrepared' /\ LaunchedWholeAlone'
  BY <1>4, PreparedFrame, LaunchedFrame DEF IInv
<1>9. QED
  BY <1>5, <1>6, <1>7, <1>8 DEF IInv

\* A check that goes from one stage of its flight to its end, or to the next.
LEMMA CheckGoesOn ==
  ASSUME ManualIsOwn, NEW c \in InFlight, UNCHANGED <<m_bManual, overlapped>>,
         check'[c].manual = check[c].manual,
         \A e \in Check : e # c => check'[e] = check[e]
  PROVE  ManualIsOwn'
<1>1. InFlight' \subseteq InFlight
  BY DEF InFlight
<1>2. QED
  BY <1>1 DEF ManualIsOwn, InFlight

\* One step of a download that runs alone.
LEMMA DownloadInv ==
  ASSUME IInv, TypeOK', NEW d \in Download, DownloadStep(d)
  PROVE  IInv'
<1>1. /\ TypeOK
      /\ download[d] \in DownloadType
      /\ zip \in ZipType
      /\ tempFile \in FileType
      /\ "update.exe" \in File
      /\ "7z.dll" \in File
  BY DEF IInv, TypeOK, File
<1>2. UNCHANGED <<m_bManual, m_verMessage, m_findNewVersion, m_strFilePackUrl, started,
                  forceSignals, popups, check, server, overlapped, shared>>
  BY DEF DownloadStep, clientVars, uiVars
<1>3. app # "quit"
  BY DEF DownloadStep, Running
<1>4. d \in Active
  BY DEF DownloadStep, Remove, Copy, Open, Write, TransferFails, StartUpdater, Active
<1>5. ManualIsOwn' /\ RepliesPublished' /\ OfferIsNewer' /\ UrlKnown'
  BY <1>2, <1>4, ManualFrame, RepliesFrame, OfferedFrame, OfferFrame, UrlFrame DEF IInv
<1> DEFINE \* The step prepares what its next stage needs.
   Stage(at, dl) ==
      /\ at \in {"removeDll", "copyDll", "open", "writing"} => tempFile'["update.exe"] = "copied"
      /\ at \in {"open", "writing"} => tempFile'["7z.dll"] = "copied"
      /\ at = "writing" =>
           /\ dl.body # NoUrl
           /\ \A i \in 1..ZipSize : i < dl.pos => zip'[i] = dl.body
<1>6. ASSUME \A e \in Download : e # d => download'[e] = download[e],
             Prepared => Stage(download'[d].at, download'[d])
      PROVE  AlonePrepared'
  <2>1. SUFFICES ASSUME ~shared
                 PROVE  Prepared'
    BY <1>2 DEF AlonePrepared
  <2>2. Prepared /\ \A e \in Download : e \in Active => e = d
    BY <1>4, <2>1 DEF IInv, AlonePrepared, Prepared
  <2>3. Stage(download'[d].at, download'[d])
    BY <1>6, <2>2
  <2>4. \A e \in Download : e # d => download'[e].at \in {"none", "failed", "done"}
    BY <1>6, <2>2 DEF Active
  <2>5. \A e \in Active' : e = d
    BY <2>4 DEF Active
  <2>6. QED
    BY <2>3, <2>4, <2>5 DEF Prepared
<1>7. ASSUME NEW at, NEW next, NEW f \in File,
             \/ at = "removeExe" /\ next = "copyExe" /\ f = "update.exe"
             \/ at = "removeDll" /\ next = "copyDll" /\ f = "7z.dll",
             Remove(d, at, next, f)
      PROVE  AlonePrepared' /\ LaunchedWholeAlone'
  <2>1. /\ download'[d].at = next
        /\ \A e \in Download : e # d => download'[e] = download[e]
    BY <1>1, <1>7, GoesOn DEF Remove
  <2>2. UNCHANGED <<zip, app, launched>> /\ download[d].at = at
    BY <1>7 DEF Remove
  <2>3. next = "copyDll" => tempFile'["update.exe"] = tempFile["update.exe"]
    BY <1>1, <1>7 DEF Remove, FileType
  <2>4. Prepared => Stage(download'[d].at, download'[d])
    BY <1>7, <2>1, <2>2, <2>3 DEF Prepared
  <2>5. QED
    BY <1>2, <1>6, <2>1, <2>2, <2>4, LaunchedFrame DEF IInv
<1>8. ASSUME NEW at, NEW next, NEW f \in File,
             \/ at = "copyExe" /\ next = "removeDll" /\ f = "update.exe"
             \/ at = "copyDll" /\ next = "open" /\ f = "7z.dll",
             Copy(d, at, next, f)
      PROVE  AlonePrepared' /\ LaunchedWholeAlone'
  <2>1. UNCHANGED <<zip, app, launched>> /\ download[d].at = at
    BY <1>8 DEF Copy
  <2>2. CASE Goes(d, "failed")
    <3>1. /\ download'[d].at = "failed"
          /\ \A e \in Download : e # d => download'[e] = download[e]
      BY <1>1, <2>2, GoesOn
    <3>2. QED
      BY <1>2, <1>6, <2>1, <3>1, LaunchedFrame DEF IInv
  <2>3. CASE Goes(d, next) /\ tempFile' = [tempFile EXCEPT ![f] = "copied"]
    <3>1. /\ download'[d].at = next
          /\ \A e \in Download : e # d => download'[e] = download[e]
      BY <1>1, <1>8, <2>3, GoesOn
    <3>2. tempFile'[f] = "copied" /\ \A g \in File : g # f => tempFile'[g] = tempFile[g]
      BY <1>1, <2>3 DEF FileType
    <3>3. Prepared => Stage(download'[d].at, download'[d])
      BY <1>1, <1>8, <2>1, <3>1, <3>2 DEF Prepared
    <3>4. QED
      BY <1>2, <1>6, <2>1, <3>1, <3>3, LaunchedFrame DEF IInv
  <2>4. QED
    BY <1>8, <2>2, <2>3 DEF Copy
<1>9. CASE Open(d)
  <2>1. CASE Goes(d, "failed") /\ app' = "crashed"
    <3>1. /\ download'[d].at = "failed"
          /\ \A e \in Download : e # d => download'[e] = download[e]
      BY <1>1, <2>1, GoesOn
    <3>2. AlonePrepared'
      BY <1>6, <3>1
    <3>3. LaunchedWholeAlone'
      BY <2>1 DEF LaunchedWholeAlone, LaunchedWhole
    <3>4. QED
      BY <1>1, <1>5, <3>2, <3>3 DEF IInv
  <2>2. ASSUME NEW body \in {m_strFilePackUrl, Page},
               download' = [download EXCEPT ![d] = [at |-> "writing", body |-> body, pos |-> 1]],
               zip' = Empty, app' = app
        PROVE  IInv'
    <3>1. [at |-> "writing", body |-> body, pos |-> 1] \in DownloadType
      <4>1. m_strFilePackUrl \in Release \cup {NoUrl}
        BY <1>1 DEF TypeOK
      <4>2. QED
        BY <4>1, Constants DEF DownloadType
    <3>2. /\ download'[d] = [at |-> "writing", body |-> body, pos |-> 1]
          /\ \A e \in Download : e # d => download'[e] = download[e]
      BY <1>1, <2>2, <3>1, DownloadRecord
    <3>3. body # NoUrl
      BY <1>4, Constants DEF IInv, UrlKnown
    <3>4. UNCHANGED <<tempFile, launched>> /\ download[d].at = "open"
      BY <1>9 DEF Open
    <3>5. Prepared => Stage(download'[d].at, download'[d])
      BY <3>2, <3>3, <3>4 DEF Prepared
    <3>6. QED
      BY <1>1, <1>2, <1>5, <1>6, <2>2, <3>2, <3>4, <3>5, LaunchedFrame DEF IInv
  <2>3. QED
    BY <1>9, <2>1, <2>2 DEF Open
<1>10. CASE Write(d)
  <2>1. /\ download[d].at = "writing"
        /\ download[d].pos \in 1..ZipSize
        /\ zip' = [zip EXCEPT ![download[d].pos] = download[d].body]
        /\ UNCHANGED <<tempFile, app, launched>>
    BY <1>1, <1>10, Constants DEF Write, DownloadType
  <2>2. download' = [download EXCEPT ![d] = [download[d] EXCEPT !.pos = download[d].pos + 1]]
    BY <1>10 DEF Write
  <2>3. /\ download'[d].at = "writing"
        /\ download'[d].body = download[d].body
        /\ download'[d].pos = download[d].pos + 1
        /\ \A e \in Download : e # d => download'[e] = download[e]
    BY <1>1, <2>1, <2>2 DEF DownloadType, TypeOK
  <2>4. \A i \in 1..ZipSize : zip'[i] = IF i = download[d].pos THEN download[d].body
                                                               ELSE zip[i]
    BY <1>1, <2>1 DEF ZipType
  <2>5. \A i \in 1..ZipSize : i < download[d].pos + 1 => i = download[d].pos \/ i < download[d].pos
    BY <2>1, Constants
  <2>6. Prepared => Stage(download'[d].at, download'[d])
    BY <2>1, <2>3, <2>4, <2>5 DEF Prepared
  <2>7. QED
    BY <1>1, <1>2, <1>5, <1>6, <2>1, <2>3, <2>6, LaunchedFrame DEF IInv
<1>11. CASE TransferFails(d)
  <2>1. /\ download'[d].at = "failed"
        /\ \A e \in Download : e # d => download'[e] = download[e]
    BY <1>1, <1>11, GoesOn DEF TransferFails
  <2>2. UNCHANGED <<app, launched>>
    BY <1>11 DEF TransferFails, fileVars
  <2>3. QED
    BY <1>1, <1>2, <1>5, <1>6, <2>1, <2>2, LaunchedFrame DEF IInv
<1>12. CASE StartUpdater(d)
  <2>1. /\ download'[d].at = "done"
        /\ \A e \in Download : e # d => download'[e] = download[e]
    BY <1>1, <1>12, GoesOn DEF StartUpdater
  <2>2. /\ download[d].at = "writing"
        /\ download[d].pos = ZipSize + 1
        /\ launched' = [tempFile |-> tempFile, zip |-> zip]
    BY <1>12 DEF StartUpdater
  <2>3. ASSUME ~shared
        PROVE  LaunchedWhole'
    <3>1. /\ tempFile["update.exe"] = "copied"
          /\ tempFile["7z.dll"] = "copied"
          /\ download[d].body # NoUrl
          /\ \A i \in 1..ZipSize : i < download[d].pos => zip[i] = download[d].body
      BY <2>2, <2>3 DEF IInv, AlonePrepared, Prepared
    <3>2. \A i \in 1..ZipSize : zip[i] = download[d].body
      BY <2>2, <3>1, Constants
    <3>3. 1 \in 1..ZipSize
      BY Constants
    <3>4. QED
      BY <2>2, <3>1, <3>2, <3>3 DEF LaunchedWhole, File
  <2>4. LaunchedWholeAlone'
    BY <1>2, <2>3 DEF LaunchedWholeAlone
  <2>5. QED
    BY <1>1, <1>5, <1>6, <2>1, <2>4 DEF IInv
<1>13. QED
  BY <1>1, <1>5, <1>7, <1>8, <1>9, <1>10, <1>11, <1>12 DEF DownloadStep, IInv

LEMMA StepInv == IInv /\ [Next]_vars => IInv'
<1> SUFFICES ASSUME IInv, [Next]_vars
             PROVE  IInv'
  OBVIOUS
<1>1. TypeOK /\ TypeOK'
  BY StepType DEF IInv
<1>2. ASSUME NEW c \in Check, OnTimeOut(c)
      PROVE  IInv'
  <2>1. checkUpdateVersion(c, FALSE) /\ popups' = popups
    BY <1>2 DEF OnTimeOut
  <2>2. UNCHANGED <<m_findNewVersion, forceSignals>>
    BY <2>1 DEF checkUpdateVersion
  <2>3. QED
    BY <1>1, <2>1, <2>2, OfferedFrame, CheckStartsInv
<1>3. ASSUME NEW c \in Check, OpenCheckPopup(c)
      PROVE  IInv'
  <2>1. /\ checkUpdateVersion(c, TRUE)
        /\ popups' = <<[kind |-> "check", clicked |-> FALSE]>>
    BY <1>3 DEF OpenCheckPopup
  <2>2. UNCHANGED <<m_findNewVersion, forceSignals>>
    BY <2>1 DEF checkUpdateVersion
  <2>3. \A i \in DOMAIN popups' : popups'[i].kind = "check"
    BY <2>1
  <2>4. Offered' => Offered
    BY <2>2, <2>3 DEF Offered
  <2>5. QED
    BY <1>1, <2>1, <2>4, CheckStartsInv
<1>4. ASSUME NEW c \in Check, ServeCheck(c)
      PROVE  IInv'
  <2>1. /\ check[c] \in CheckType
        /\ check[c].at = "sending"
        /\ server.release \in Release
        /\ server.forced \in BOOLEAN
    BY <1>1, <1>4 DEF TypeOK, ServeCheck
  <2>2. UNCHANGED <<clientVars, uiVars, download, fileVars, server, overlapped, shared>>
    BY <1>4 DEF ServeCheck
  <2>3. \/ check' = [check EXCEPT ![c] = [check[c] EXCEPT !.at = "answered",
                          !.release = server.release, !.forced = server.forced]]
        \/ check' = [check EXCEPT ![c] = [check[c] EXCEPT !.at = "done"]]
    BY <1>4 DEF ServeCheck
  <2>4. /\ \A e \in Check : e # c => check'[e] = check[e]
        /\ check'[c].manual = check[c].manual
        /\ check'[c].at = "answered" => check'[c].release = server.release
    <3>1. /\ [check[c] EXCEPT !.at = "answered", !.release = server.release,
                              !.forced = server.forced] \in CheckType
          /\ [check[c] EXCEPT !.at = "done"] \in CheckType
      BY <2>1 DEF CheckType
    <3>2. \/ check'[c] = [check[c] EXCEPT !.at = "answered", !.release = server.release,
                                         !.forced = server.forced]
          \/ check'[c] = [check[c] EXCEPT !.at = "done"]
      BY <1>1, <2>3, <3>1, CheckStep
    <3>3. \A e \in Check : e # c => check'[e] = check[e]
      BY <1>1, <2>3, <3>1, CheckStep
    <3>4. QED
      BY <2>1, <3>2, <3>3 DEF CheckType
  <2>5. RepliesPublished'
    <3>1. server.release \in 1..server.release
      BY <2>1 DEF Release
    <3>2. QED
      BY <2>2, <2>4, <3>1 DEF IInv, RepliesPublished
  <2>6. ManualIsOwn'
    BY <2>1, <2>2, <2>4, CheckGoesOn DEF IInv, InFlight, clientVars
  <2>7. QED
    BY <1>1, <2>2, <2>5, <2>6, OfferedFrame, OfferFrame, ActiveFrame, UrlFrame,
       PreparedFrame, LaunchedFrame DEF IInv, clientVars, uiVars, fileVars
<1>5. ASSUME NEW c \in Check, parseCheckUpdateVersion(c)
      PROVE  IInv'
  <2>1. check[c] \in CheckType /\ check[c].at = "answered"
    BY <1>1, <1>5 DEF TypeOK, parseCheckUpdateVersion
  <2>2. UNCHANGED <<m_bManual, started, popups, download, tempFile, zip, app, launched,
                    server, overlapped, shared>>
    BY <1>5 DEF parseCheckUpdateVersion, fileVars
  <2>3. /\ \A e \in Check : e # c => check'[e] = check[e]
        /\ check'[c].manual = check[c].manual
        /\ check'[c].at = "done"
    <3>1. check' = [check EXCEPT ![c] = [check[c] EXCEPT !.at = "done"]]
      BY <1>5 DEF parseCheckUpdateVersion
    <3>2. QED
      BY <1>1, <2>1, <3>1 DEF CheckType, TypeOK
  <2>4. RepliesPublished'
    BY <2>2, <2>3 DEF IInv, RepliesPublished
  <2>5. ManualIsOwn'
    BY <2>1, <2>2, <2>3, CheckGoesOn DEF IInv, InFlight
  <2>6. check[c].release \in 1..server.release /\ server.release \in Release
    BY <1>1, <2>1 DEF IInv, RepliesPublished, TypeOK
  <2>7. UrlKnown'
    <3>1. m_strFilePackUrl' = check[c].release
      BY <1>5 DEF parseCheckUpdateVersion
    <3>2. check[c].release # NoUrl
      BY <2>6 DEF NoUrl
    <3>3. QED
      BY <3>1, <3>2 DEF UrlKnown
  <2>8. OfferIsNewer'
    <3>1. CASE IsUpdate(check[c].release)
      <4>1. check[c].release \in Release
        BY <2>6 DEF Release
      <4>2. Releases[check[c].release] \in Seq(Nat)
        BY <4>1, Constants
      <4>3. Newer(Releases[check[c].release], Installed)
        BY <3>1, <4>2, NewIsNewer DEF IsUpdate
      <4>4. QED
        BY <2>2, <2>6, <4>3 DEF OfferIsNewer
    <3>2. CASE ~IsUpdate(check[c].release)
      <4>1. UNCHANGED <<m_findNewVersion, forceSignals>>
        BY <1>5, <3>2 DEF parseCheckUpdateVersion
      <4>2. QED
        BY <2>2, <4>1, OfferedFrame, OfferFrame DEF IInv
    <3>3. QED
      BY <3>1, <3>2
  <2>9. QED
    BY <1>1, <2>2, <2>4, <2>5, <2>7, <2>8, PreparedFrame, LaunchedFrame DEF IInv
<1>6. CASE OnShowForceUpdate
  <2>1. /\ forceSignals > 0
        /\ UNCHANGED <<clientVars, started, check, download, fileVars, server, overlapped,
                       shared>>
    BY <1>6 DEF OnShowForceUpdate
  <2>2. Offered
    BY <2>1 DEF Offered
  <2>3. QED
    BY <1>1, <2>1, <2>2, OfferFrame, ActiveFrame, UrlFrame, RepliesFrame, ManualFrame,
       PreparedFrame, LaunchedFrame DEF IInv, clientVars, fileVars
<1>7. CASE CloseCheckPopup
  <2>1. /\ popups' = <<>>
        /\ UNCHANGED <<clientVars, started, forceSignals, check, download, fileVars, server,
                       overlapped, shared>>
    BY <1>7 DEF CloseCheckPopup
  <2>2. DOMAIN popups' = {}
    BY <2>1
  <2>3. Offered' => Offered
    BY <2>1, <2>2 DEF Offered, clientVars
  <2>4. QED
    BY <1>1, <2>1, <2>3, OfferFrame, ActiveFrame, UrlFrame, RepliesFrame, ManualFrame,
       PreparedFrame, LaunchedFrame DEF IInv, clientVars, fileVars
<1>8. ASSUME NEW d \in Download, ClickUpdate(d)
      PROVE  IInv'
  <2>1. /\ UNCHANGED <<clientVars, started, forceSignals, check, fileVars, server, overlapped>>
        /\ Goes(d, "removeExe")
    BY <1>8 DEF ClickUpdate, Goes
  <2>2. /\ popups \in Seq(Popup)
        /\ popups # <<>>
        /\ popups[Len(popups)].kind = "check" => m_findNewVersion
    BY <1>1, <1>8 DEF TypeOK, ClickUpdate
  <2>3. Offered
    <3>1. Len(popups) \in DOMAIN popups /\ popups[Len(popups)] \in Popup
      BY <2>2
    <3>2. QED
      BY <2>2, <3>1 DEF Offered, Popup
  <2>4. OfferIsNewer' /\ UrlKnown'
    BY <2>1, <2>3 DEF IInv, OfferIsNewer, UrlKnown, clientVars
  <2>5. AlonePrepared'
    <3>1. /\ download'[d].at = "removeExe"
          /\ \A e \in Download : e # d => download'[e] = download[e]
      BY <1>1, <2>1, GoesOn
    <3>2. SUFFICES ASSUME Active = {}
                   PROVE  Prepared'
      BY <1>8 DEF ClickUpdate, AlonePrepared
    <3>3. \A e \in Download : e # d => download'[e].at \in {"none", "failed", "done"}
      BY <3>1, <3>2 DEF Active
    <3>4. \A e \in Active' : e = d
      BY <3>3 DEF Active
    <3>5. QED
      BY <3>1, <3>3, <3>4 DEF Prepared
  <2>6. LaunchedWholeAlone'
    <3>1. shared' = (shared \/ Active # {}) /\ UNCHANGED <<app, launched>>
      BY <1>8 DEF ClickUpdate, fileVars
    <3>2. QED
      BY <3>1 DEF IInv, LaunchedWholeAlone, LaunchedWhole
  <2>7. QED
    BY <1>1, <2>1, <2>4, <2>5, <2>6, RepliesFrame, ManualFrame DEF IInv, clientVars
<1>9. ASSUME NEW d \in Download, DownloadStep(d)
      PROVE  IInv'
  BY <1>1, <1>9, DownloadInv
<1>10. CASE Publish
  <2>1. server.release \in Nat /\ server'.release = server.release + 1
    <3>1. server.release \in Release
      BY <1>1 DEF TypeOK
    <3>2. PICK f \in BOOLEAN : server' = [release |-> server.release + 1, forced |-> f]
      BY <1>10 DEF Publish
    <3>3. QED
      BY <3>1, <3>2 DEF Release
  <2>2. UNCHANGED <<clientVars, uiVars, check, download, fileVars, overlapped, shared>>
    BY <1>10 DEF Publish
  <2>3. 1..server.release \subseteq 1..server'.release
    BY <2>1
  <2>4. RepliesPublished'
    BY <2>2, <2>3 DEF IInv, RepliesPublished
  <2>5. OfferIsNewer'
    BY <2>2, <2>3, OfferedFrame DEF IInv, OfferIsNewer, clientVars, uiVars
  <2>6. QED
    BY <1>1, <2>2, <2>4, <2>5, OfferedFrame, ActiveFrame, UrlFrame, ManualFrame,
       PreparedFrame, LaunchedFrame DEF IInv, clientVars, uiVars, fileVars
<1>11. CASE UNCHANGED vars
  BY <1>1, <1>11, OfferedFrame, OfferFrame, ActiveFrame, UrlFrame, RepliesFrame, ManualFrame,
     PreparedFrame, LaunchedFrame DEF IInv, vars, clientVars, uiVars, fileVars
<1>12. QED
  BY <1>2, <1>3, <1>4, <1>5, <1>6, <1>7, <1>8, <1>9, <1>10, <1>11 DEF Next

-----------------------------------------------------------------------------
(* The theorems *)

\* The invariant holds of every behaviour.
THEOREM Inductive == Spec => []IInv
<1>1. Init => IInv
  BY InitInv
<1>2. IInv /\ [Next]_vars => IInv'
  BY StepInv
<1>3. QED
  BY <1>1, <1>2, PTL DEF Spec

\* No member of HttpClient, thread or file is ever outside its type.
THEOREM TypeCorrect == Spec => []TypeOK
<1>1. IInv => TypeOK
  BY DEF IInv
<1>2. QED
  BY <1>1, Inductive, PTL

\* An update is offered only for a version newer than the installed one,
\* whatever versions the server publishes, in whatever order the replies come.
THEOREM OffersNewer == Spec => []OfferIsNewer
<1>1. IInv => OfferIsNewer
  BY DEF IInv
<1>2. QED
  BY <1>1, Inductive, PTL

\* A download that ran alone starts the updater on its own files and the whole
\* of one answer of the server.
THEOREM LaunchesWhole == Spec => []LaunchedWholeAlone
<1>1. IInv => LaunchedWholeAlone
  BY DEF IInv
<1>2. QED
  BY <1>1, Inductive, PTL

\* One step forces an update only as the check that it answers demands.
LEMMA StepForces ==
  IInv /\ [Next]_vars => [~overlapped => \A c \in Check : ForcesRightly(c)]_vars
<1> SUFFICES ASSUME IInv, [Next]_vars, ~overlapped, NEW c \in Check,
                    check[c].at = "answered", check'[c].at = "done"
             PROVE  forceSignals' > forceSignals
                      <=> check[c].forced /\ IsUpdate(check[c].release) /\ ~check[c].manual
  BY DEF ForcesRightly
<1>1. /\ TypeOK
      /\ check[c].manual = m_bManual
      /\ \A e \in InFlight : e = c
  BY DEF IInv, ManualIsOwn, InFlight
<1>2. forceSignals \in Nat
  BY <1>1 DEF TypeOK
<1>3. ASSUME parseCheckUpdateVersion(c)
      PROVE  forceSignals' > forceSignals
               <=> check[c].forced /\ IsUpdate(check[c].release) /\ ~check[c].manual
  <2>1. CASE check[c].forced /\ IsUpdate(check[c].release) /\ ~check[c].manual
    <3>1. forceSignals' = forceSignals + 1
      BY <1>1, <1>3, <2>1 DEF parseCheckUpdateVersion
    <3>2. QED
      BY <1>2, <2>1, <3>1
  <2>2. CASE ~(check[c].forced /\ IsUpdate(check[c].release) /\ ~check[c].manual)
    <3>1. forceSignals' = forceSignals
      BY <1>1, <1>3, <2>2 DEF parseCheckUpdateVersion
    <3>2. QED
      BY <1>2, <2>2, <3>1
  <2>3. QED
    BY <2>1, <2>2
<1>4. ASSUME NEW e \in Check, checkUpdateVersion(e, TRUE) \/ checkUpdateVersion(e, FALSE)
      PROVE  FALSE
  <2>1. check[e].at = "none" /\ \E b \in BOOLEAN :
          check' = [check EXCEPT ![e] = [check[e] EXCEPT !.at = "sending", !.manual = b]]
    BY <1>4 DEF checkUpdateVersion, IsNext
  <2>2. e # c
    BY <2>1
  <2>3. check'[c] = check[c]
    BY <2>1, <2>2, <1>1 DEF TypeOK
  <2>4. QED
    BY <2>3
<1>5. ASSUME NEW e \in Check, ServeCheck(e)
      PROVE  FALSE
  <2>1. e \in InFlight /\ check[e].at = "sending"
    BY <1>5 DEF ServeCheck, InFlight
  <2>2. QED
    BY <1>1, <2>1
<1>6. ASSUME NEW e \in Check, parseCheckUpdateVersion(e)
      PROVE  e = c
  <2>1. e \in InFlight
    BY <1>6 DEF parseCheckUpdateVersion, InFlight
  <2>2. QED
    BY <1>1, <2>1
<1>7. check' # check
  OBVIOUS
<1>8. QED
  BY <1>3, <1>4, <1>5, <1>6, <1>7 DEF Next, OnTimeOut, OpenCheckPopup, OnShowForceUpdate,
     CloseCheckPopup, ClickUpdate, DownloadStep, Publish, vars

\* As long as no two checks were in flight together, an update is forced
\* exactly by the automatic checks whose reply demands it.
THEOREM ForcesAlone == Spec => ForcesRightlyAlone
<1>1. IInv /\ [Next]_vars => [~overlapped => \A c \in Check : ForcesRightly(c)]_vars
  BY StepForces
<1>2. QED
  BY <1>1, Inductive, PTL DEF Spec, ForcesRightlyAlone

-----------------------------------------------------------------------------
(* What is offered stays consistent if the server takes no update back *)

\* While no two checks were in flight together, a reply is not older than the
\* release that was kept last.
RepliesForward ==
  ~overlapped =>
    /\ m_strFilePackUrl <= server.release
    /\ \A c \in Check : check[c].at = "answered" => m_strFilePackUrl <= check[c].release

\* Whoever can start a download, or has started one, has the address of an update.
UpdateKnown == ~overlapped => (Offered \/ Active # {} => IsUpdate(m_strFilePackUrl))

Consistent == IInv /\ RepliesForward /\ UpdateKnown /\ OfferIsConsistent

LEMMA KnownIsNewer ==
  ASSUME NEW r \in Release \cup {NoUrl}, IsUpdate(r)
  PROVE  r \in Release /\ Newer(Releases[r], Installed)
<1>1. r \in Release /\ Releases[r] \in Seq(Nat)
  BY Constants DEF IsUpdate
<1>2. QED
  BY <1>1, NewIsNewer DEF IsUpdate

\* Releases are numbered.
LEMMA Numbers ==
  ASSUME TypeOK
  PROVE  server.release \in Release /\ server.release \in Nat /\ m_strFilePackUrl \in Nat
<1>1. server.release \in Release /\ m_strFilePackUrl \in Release \cup {NoUrl}
  BY DEF TypeOK
<1>2. QED
  BY <1>1 DEF Release, NoUrl

LEMMA ConsistentInit == Init => Consistent
<1> SUFFICES ASSUME Init
             PROVE  Consistent
  OBVIOUS
<1>1. IInv
  BY InitInv
<1>2. /\ \A d \in Download : download[d].at = "none" /\ download[d].body = NoUrl
      /\ \A c \in Check : check[c].at = "none"
  BY DEF Init
<1>3. RepliesForward
  <2>1. server.release = 1 /\ m_strFilePackUrl = 0
    BY DEF Init, NoUrl
  <2>2. QED
    BY <1>2, <2>1 DEF RepliesForward
<1>4. UpdateKnown
  <2>1. Active = {}
    BY <1>2 DEF Active
  <2>2. ~Offered
    <3>1. popups = <<>> /\ forceSignals = 0 /\ ~m_findNewVersion
      BY DEF Init
    <3>2. DOMAIN popups = {}
      BY <3>1
    <3>3. QED
      BY <3>1, <3>2 DEF Offered
  <2>3. QED
    BY <2>1, <2>2 DEF UpdateKnown
<1>5. OfferIsConsistent
  BY <1>2, Constants DEF Init, OfferIsConsistent
<1>6. QED
  BY <1>1, <1>3, <1>4, <1>5 DEF Consistent

\* A step that offers nothing new, leaves the address alone and lets downloads
\* fetch only what they did or the address that is kept.
LEMMA ConsistentFrame ==
  ASSUME Consistent, IInv', overlapped' = overlapped, UNCHANGED <<m_strFilePackUrl, m_findNewVersion>>,
         m_verMessage' \in {m_verMessage, "checking"},
         server.release <= server'.release,
         \A c \in Check : check'[c].at = "answered" =>
           check'[c].release = server.release
             \/ (check[c].at = "answered" /\ check'[c].release = check[c].release),
         Offered' \/ Active' # {} => Offered \/ Active # {},
         \A d \in Download : download'[d].body \in Release =>
           download'[d].body = download[d].body
             \/ (download'[d].body = m_strFilePackUrl /\ Active # {})
  PROVE  Consistent'
<1> SUFFICES ASSUME ~overlapped
             PROVE  RepliesForward' /\ UpdateKnown' /\ OfferIsConsistent'
  BY DEF Consistent, RepliesForward, UpdateKnown, OfferIsConsistent
<1>1. /\ server.release \in Nat /\ server'.release \in Nat
      /\ m_strFilePackUrl \in Release \cup {NoUrl} /\ m_strFilePackUrl \in Nat
  <2>1. server'.release \in Nat
    <3>1. server'.release \in Release
      BY DEF IInv, TypeOK
    <3>2. QED
      BY <3>1 DEF Release
  <2>2. QED
    BY <2>1, Numbers DEF Consistent, IInv, TypeOK
<1>2. RepliesForward'
  BY <1>1 DEF Consistent, RepliesForward
<1>3. UpdateKnown'
  BY DEF Consistent, UpdateKnown
<1>4. OfferIsConsistent'
  <2>1. Active # {} => Newer(Releases[m_strFilePackUrl], Installed)
    BY <1>1, KnownIsNewer DEF Consistent, UpdateKnown
  <2>2. QED
    BY <2>1 DEF Consistent, OfferIsConsistent
<1>5. QED
  BY <1>2, <1>3, <1>4

LEMMA CheckConsistent ==
  ASSUME Consistent, NEW c \in Check, NEW b \in BOOLEAN, checkUpdateVersion(c, b),
         Offered' => Offered, IInv'
  PROVE  Consistent'
<1>1. TypeOK /\ check[c] \in CheckType
  BY DEF Consistent, IInv, TypeOK
<1>2. /\ UNCHANGED <<m_findNewVersion, m_strFilePackUrl, forceSignals, download, server>>
      /\ m_verMessage' = "checking"
      /\ overlapped' = (overlapped \/ InFlight # {})
  BY DEF checkUpdateVersion
<1>3. /\ check'[c].at = "sending"
      /\ \A e \in Check : e # c => check'[e] = check[e]
  <2>1. [check[c] EXCEPT !.at = "sending", !.manual = b] \in CheckType
    BY <1>1 DEF CheckType
  <2>2. check' = [check EXCEPT ![c] = [check[c] EXCEPT !.at = "sending", !.manual = b]]
    BY DEF checkUpdateVersion
  <2>3. QED
    BY <1>1, <2>1, <2>2, CheckStep DEF CheckType
<1> SUFFICES ASSUME ~overlapped, ~overlapped'
             PROVE  RepliesForward' /\ UpdateKnown' /\ OfferIsConsistent'
  BY <1>2 DEF Consistent, RepliesForward, UpdateKnown, OfferIsConsistent
<1>4. RepliesForward'
  BY <1>2, <1>3 DEF Consistent, RepliesForward
<1>5. UpdateKnown' /\ OfferIsConsistent'
  BY <1>2, ActiveFrame DEF Consistent, UpdateKnown, OfferIsConsistent
<1>6. QED
  BY <1>4, <1>5

\* What the code takes for an update is a newer release, so a later one is too.
LEMMA StaysUpdate ==
  ASSUME NeverTakesBack, NEW r \in Release, NEW s \in Release, r <= s, IsUpdate(r)
  PROVE  IsUpdate(s)
<1>1. Releases \in Seq(Seq(Nat)) /\ Installed \in Seq(Nat) /\ Len(Installed) = 4
  BY UpdateAssumption DEF NeverTakesBack
<1>2. \A k \in Release : k \in Nat /\ k # NoUrl /\ Releases[k] \in Seq(Nat)
  BY <1>1 DEF Release, NoUrl
<1>3. ASSUME NEW k \in Release
      PROVE  IsUpdate(k) <=> NewerRelease(k)
  <2>1. Releases[k] \in Seq(Nat) /\ k # NoUrl
    BY <1>2
  <2>2. Len(Releases[k]) = Len(Installed)
          => (compareVersion(Releases[k], Installed) <=> Newer(Releases[k], Installed))
    BY <1>1, <2>1, CompareIsOrder
  <2>3. QED
    BY <2>1, <2>2 DEF IsUpdate, IsNewVersion, NewerRelease
<1>4. CASE r = s
  BY <1>4
<1>5. CASE r # s
  <2>1. r < s
    BY <1>2, <1>5
  <2>2. QED
    BY <1>3, <2>1 DEF NeverTakesBack
<1>6. QED
  BY <1>4, <1>5

\* The reply of a check: it is not older than what was found before, so that
\* what was an update then is one now.
LEMMA ReplyConsistent ==
  ASSUME NeverTakesBack, Consistent, NEW c \in Check, parseCheckUpdateVersion(c), IInv'
  PROVE  Consistent'
<1> DEFINE r == check[c].release
<1>1. TypeOK /\ check[c] \in CheckType /\ check[c].at = "answered" /\ r \in 1..server.release
      /\ server.release \in Release
  BY DEF Consistent, IInv, TypeOK, RepliesPublished, parseCheckUpdateVersion
<1>2. r \in Release /\ r \in Nat /\ server.release \in Nat
  BY <1>1 DEF Release
<1>3. /\ UNCHANGED <<popups, download, server, overlapped>> /\ m_strFilePackUrl' = r
  BY DEF parseCheckUpdateVersion
<1>4. /\ check'[c].at = "done"
      /\ \A e \in Check : e # c => check'[e] = check[e]
  <2>1. check' = [check EXCEPT ![c] = [check[c] EXCEPT !.at = "done"]]
    BY DEF parseCheckUpdateVersion
  <2>2. QED
    BY <1>1, <2>1 DEF CheckType, TypeOK
<1> SUFFICES ASSUME ~overlapped
             PROVE  RepliesForward' /\ UpdateKnown' /\ OfferIsConsistent'
  BY <1>3 DEF Consistent, RepliesForward, UpdateKnown, OfferIsConsistent
<1>5. RepliesForward'
  <2>1. \A e \in Check : check'[e].at # "answered"
    BY <1>1, <1>4 DEF Consistent, IInv, ManualIsOwn, InFlight
  <2>2. r <= server.release
    BY <1>1
  <2>3. QED
    BY <1>3, <2>1, <2>2 DEF RepliesForward
<1>6. Offered \/ Active # {} => IsUpdate(r)
  <2>1. SUFFICES ASSUME IsUpdate(m_strFilePackUrl)
                 PROVE  IsUpdate(r)
    BY DEF Consistent, UpdateKnown
  <2>2. m_strFilePackUrl \in Release /\ m_strFilePackUrl <= r
    BY <1>1, <2>1, KnownIsNewer DEF Consistent, RepliesForward, IInv, TypeOK
  <2>3. QED
    BY <1>2, <2>1, <2>2, StaysUpdate
<1>7. CASE IsUpdate(r)
  <2>1. m_verMessage' = "description"
    BY <1>7 DEF parseCheckUpdateVersion
  <2>2. QED
    BY <1>3, <1>5, <1>7, <2>1 DEF UpdateKnown, OfferIsConsistent, Consistent
<1>8. CASE ~IsUpdate(r)
  <2>1. UNCHANGED <<m_findNewVersion, forceSignals>>
    BY <1>8 DEF parseCheckUpdateVersion
  <2>2. ~Offered /\ Active = {} /\ ~Offered' /\ Active' = {} /\ ~m_findNewVersion'
    BY <1>3, <1>6, <1>8, <2>1, OfferedFrame, ActiveFrame DEF Offered
  <2>3. QED
    BY <1>3, <1>5, <2>2 DEF UpdateKnown, OfferIsConsistent, Consistent
<1>9. QED
  BY <1>7, <1>8

LEMMA DownloadConsistent ==
  ASSUME Consistent, NEW d \in Download, DownloadStep(d), IInv'
  PROVE  Consistent'
<1>1. TypeOK /\ download[d] \in DownloadType /\ server.release \in Nat
  BY Numbers DEF Consistent, IInv, TypeOK
<1>2. UNCHANGED <<m_verMessage, m_findNewVersion, m_strFilePackUrl, started, forceSignals, popups, check,
                  server, overlapped>>
  BY DEF DownloadStep, clientVars, uiVars
<1>3. Active # {}
  <2>1. download[d].at \in {"removeExe", "copyExe", "removeDll", "copyDll", "open", "writing"}
    BY DEF DownloadStep, Remove, Copy, Open, Write, TransferFails, StartUpdater
  <2>2. QED
    BY <2>1 DEF Active
<1>4. \A e \in Download : e # d => download'[e] = download[e]
  BY <1>1 DEF DownloadStep, Remove, Copy, Open, Write, TransferFails, StartUpdater, Goes, TypeOK
<1>5. download'[d].body \in {download[d].body, m_strFilePackUrl, Page}
  <2>1. ASSUME NEW step \in {"removeExe", "copyExe", "removeDll", "copyDll", "open", "writing",
                             "failed", "done"}, Goes(d, step)
        PROVE  download'[d].body = download[d].body
    BY <1>1, <2>1, GoesOn
  <2>2. CASE Open(d)
    <3>1. CASE Goes(d, "failed")
      BY <2>1, <3>1
    <3>2. ASSUME NEW body \in {m_strFilePackUrl, Page},
                 download' = [download EXCEPT ![d] = [at |-> "writing", body |-> body, pos |-> 1]]
          PROVE  download'[d].body = body
      BY <1>1, <3>2 DEF TypeOK
    <3>3. QED
      BY <2>2, <3>1, <3>2 DEF Open
  <2>3. CASE Write(d)
    <3>1. download' = [download EXCEPT ![d] = [download[d] EXCEPT !.pos = @ + 1]]
      BY <2>3 DEF Write
    <3>2. QED
      BY <1>1, <3>1 DEF TypeOK, DownloadType
  <2>4. QED
    BY <2>1, <2>2, <2>3 DEF DownloadStep, Remove, Copy, TransferFails, StartUpdater
<1>6. \A e \in Download : download'[e].body \in Release =>
        download'[e].body = download[e].body
          \/ (download'[e].body = m_strFilePackUrl /\ Active # {})
  <2>1. Page \notin Release
    BY Constants DEF Page, Release
  <2>2. QED
    BY <1>3, <1>4, <1>5, <2>1
<1>7. QED
  BY <1>1, <1>2, <1>3, <1>6, ConsistentFrame

LEMMA ConsistentStep ==
  ASSUME NeverTakesBack, Consistent, [Next]_vars
  PROVE  Consistent'
<1>1. IInv /\ IInv' /\ TypeOK /\ server.release \in Nat
  BY StepInv, Numbers DEF Consistent, IInv
<1>2. ASSUME NEW c \in Check, OnTimeOut(c) \/ OpenCheckPopup(c)
      PROVE  Consistent'
  <2>1. CASE OnTimeOut(c)
    <3>1. checkUpdateVersion(c, FALSE) /\ UNCHANGED <<m_findNewVersion, forceSignals, popups>>
      BY <2>1 DEF OnTimeOut, checkUpdateVersion
    <3>2. QED
      BY <1>1, <3>1, OfferedFrame, CheckConsistent
  <2>2. CASE OpenCheckPopup(c)
    <3>1. /\ checkUpdateVersion(c, TRUE) /\ UNCHANGED <<m_findNewVersion, forceSignals>>
          /\ popups' = <<[kind |-> "check", clicked |-> FALSE]>>
      BY <2>2 DEF OpenCheckPopup, checkUpdateVersion
    <3>2. \A i \in DOMAIN popups' : popups'[i].kind = "check"
      BY <3>1
    <3>3. Offered' => Offered
      BY <3>1, <3>2 DEF Offered
    <3>4. QED
      BY <1>1, <3>1, <3>3, CheckConsistent
  <2>3. QED
    BY <1>2, <2>1, <2>2
<1>3. ASSUME NEW c \in Check, ServeCheck(c)
      PROVE  Consistent'
  <2>1. check[c] \in CheckType
    BY <1>1 DEF TypeOK
  <2>2. UNCHANGED <<clientVars, uiVars, download, server, overlapped>>
    BY <1>3 DEF ServeCheck
  <2>3. /\ \A e \in Check : e # c => check'[e] = check[e]
        /\ check'[c].at = "answered" => check'[c].release = server.release
    <3>1. \/ check'[c] = [check[c] EXCEPT !.at = "answered", !.release = server.release,
                                         !.forced = server.forced]
          \/ check'[c] = [check[c] EXCEPT !.at = "done"]
      BY <1>1, <1>3 DEF ServeCheck, TypeOK
    <3>2. \A e \in Check : e # c => check'[e] = check[e]
      BY <1>1, <1>3 DEF ServeCheck, TypeOK
    <3>3. QED
      BY <2>1, <3>1, <3>2 DEF CheckType
  <2>4. QED
    BY <1>1, <2>2, <2>3, OfferedFrame, ActiveFrame, ConsistentFrame DEF clientVars, uiVars
<1>4. ASSUME NEW c \in Check, parseCheckUpdateVersion(c)
      PROVE  Consistent'
  BY <1>1, <1>4, ReplyConsistent
<1>5. CASE OnShowForceUpdate
  <2>1. Offered /\ UNCHANGED <<clientVars, check, download, server, overlapped>>
    BY <1>5 DEF OnShowForceUpdate, Offered
  <2>2. QED
    BY <1>1, <2>1, ConsistentFrame DEF clientVars
<1>6. CASE CloseCheckPopup
  <2>1. /\ popups' = <<>>
        /\ UNCHANGED <<clientVars, started, forceSignals, check, download, server, overlapped>>
    BY <1>6 DEF CloseCheckPopup
  <2>2. DOMAIN popups' = {}
    BY <2>1
  <2>3. Offered' => Offered
    BY <2>1, <2>2 DEF Offered, clientVars
  <2>4. QED
    BY <1>1, <2>1, <2>3, ActiveFrame, ConsistentFrame DEF clientVars
<1>7. ASSUME NEW d \in Download, ClickUpdate(d)
      PROVE  Consistent'
  <2>1. /\ UNCHANGED <<clientVars, started, forceSignals, check, server, overlapped>>
        /\ Goes(d, "removeExe")
    BY <1>7 DEF ClickUpdate, Goes
  <2>2. Offered
    <3>1. /\ popups \in Seq(Popup) /\ popups # <<>>
          /\ popups[Len(popups)].kind = "check" => m_findNewVersion
      BY <1>1, <1>7 DEF TypeOK, ClickUpdate
    <3>2. Len(popups) \in DOMAIN popups /\ popups[Len(popups)] \in Popup
      BY <3>1
    <3>3. QED
      BY <3>1, <3>2 DEF Offered, Popup
  <2>3. \A e \in Download : download'[e].body = download[e].body
    BY <1>1, <2>1, GoesOn
  <2>4. QED
    BY <1>1, <2>1, <2>2, <2>3, ConsistentFrame DEF clientVars
<1>8. ASSUME NEW d \in Download, DownloadStep(d)
      PROVE  Consistent'
  BY <1>1, <1>8, DownloadConsistent
<1>9. CASE Publish
  <2>1. PICK f \in BOOLEAN : server' = [release |-> server.release + 1, forced |-> f]
    BY <1>9 DEF Publish
  <2>2. server.release <= server'.release
    BY <1>1, <2>1
  <2>3. UNCHANGED <<clientVars, uiVars, check, download, overlapped>>
    BY <1>9 DEF Publish
  <2>4. QED
    BY <1>1, <2>2, <2>3, OfferedFrame, ActiveFrame, ConsistentFrame DEF clientVars, uiVars
<1>10. CASE UNCHANGED vars
  BY <1>1, <1>10, OfferedFrame, ActiveFrame, ConsistentFrame DEF vars, clientVars, uiVars
<1>11. QED
  BY <1>2, <1>3, <1>4, <1>5, <1>6, <1>7, <1>8, <1>9, <1>10 DEF Next

\* If the server takes no update back and no two checks were in flight
\* together, the popup does not call the client up to date once it offers an
\* update, and every package that is fetched is newer than what is installed
\* (parseCheckUpdateVersion, downloadUpdatePackage).
THEOREM OffersConsistent ==
  ASSUME NeverTakesBack
  PROVE  Spec => []OfferIsConsistent
<1>1. Init => Consistent
  BY ConsistentInit
<1>2. Consistent /\ [Next]_vars => Consistent'
  BY ConsistentStep
<1>3. Consistent => OfferIsConsistent
  BY DEF Consistent
<1>4. QED
  BY <1>1, <1>2, <1>3, PTL DEF Spec
=============================================================================
