---------------------------- MODULE SessionProofs ----------------------------
(***************************************************************************)
(* Proofs about Session for any accounts, passwords and number of chains   *)
(* of requests in flight.                                                  *)
(***************************************************************************)
EXTENDS Session, TLAPS

\* A login that is still to be answered carries what the user typed; every
\* other request and every reply is of an account that has logged in.  A change
\* of the password carries the new one.
CarriedIn(a, acc) == a = None \/ \E p \in Pass : <<a, p>> \in acc

JobGood(job, acc) ==
  /\ (job.op = "login" /\ job.at \in {"asked", "sent"}) \/ CarriedIn(job.who, acc)
  /\ job.op = "modify" => job.pwd \in Pass

JobsGood == \A t \in Slot : JobGood(thread[t], accepted)

IInv == TypeOK /\ OnlyAccepted /\ JobsGood

-----------------------------------------------------------------------------
(* Lemmas *)

\* A slot that receives a good job keeps the type of thread and the other
\* slots' jobs good, since the server takes no login back.
LEMMA SlotStep ==
  ASSUME TypeOK, JobsGood, accepted \subseteq accepted',
         NEW t \in Slot, NEW j \in ThreadType, JobGood(j, accepted'),
         thread' = [thread EXCEPT ![t] = j]
  PROVE  thread' \in [Slot -> ThreadType] /\ JobsGood'
<1>1. thread' \in [Slot -> ThreadType]
  BY DEF TypeOK
<1>2. ASSUME NEW u \in Slot
      PROVE  JobGood(thread'[u], accepted')
  <2>1. CASE u = t
    BY <2>1 DEF TypeOK
  <2>2. CASE u # t
    <3>1. thread'[u] = thread[u]
      BY <2>2 DEF TypeOK
    <3>2. JobGood(thread[u], accepted)
      BY DEF JobsGood
    <3>3. QED
      BY <3>1, <3>2 DEF JobGood, CarriedIn
  <2>3. QED
    BY <2>1, <2>2
<1>3. QED
  BY <1>1, <1>2 DEF JobsGood

\* The same for a slot that only goes on to another place.
LEMMA PlaceStep ==
  ASSUME TypeOK, JobsGood, accepted \subseteq accepted',
         NEW t \in Slot,
         NEW place \in {"free", "asked", "sent", "ok", "logined", "remember", "name", "data"},
         CarriedIn(thread[t].who, accepted'),
         GoesTo(t, place)
  PROVE  thread' \in [Slot -> ThreadType] /\ JobsGood'
<1> DEFINE j == [thread[t] EXCEPT !.at = place]
<1>1. thread[t] \in ThreadType /\ JobGood(thread[t], accepted)
  BY DEF TypeOK, JobsGood
<1>2. j \in ThreadType /\ j.who = thread[t].who /\ j.op = thread[t].op /\ j.pwd = thread[t].pwd
  BY <1>1 DEF ThreadType
<1>3. JobGood(j, accepted')
  BY <1>1, <1>2 DEF JobGood
<1>4. thread' = [thread EXCEPT ![t] = j]
  BY DEF GoesTo
<1> HIDE DEF j
<1>5. QED
  BY <1>2, <1>3, <1>4, SlotStep

\* A new request carries nothing yet.
LEMMA AskedGood ==
  ASSUME NEW acc, NEW pwd \in Secret,
         NEW op \in {"none", "login", "info", "client", "profile", "exchange", "modify"},
         op = "modify" => pwd \in Pass
  PROVE  /\ Asked(op, pwd) \in ThreadType /\ JobGood(Asked(op, pwd), acc)
         /\ Free \in ThreadType /\ JobGood(Free, acc)
BY DEF Asked, Free, ThreadType, JobGood, CarriedIn, Someone, Secret

\* The user's bounded number of acts, and whether they were in time.
LEMMA ActsStep ==
  ASSUME TypeOK, UserActs
  PROVE  acts' \in 0..MaxActs
BY SessionAssumption DEF TypeOK, UserActs

LEMMA DisturbingStep ==
  ASSUME TypeOK, Disturbing
  PROVE  overlapped' \in BOOLEAN
BY DEF TypeOK, Disturbing

LEMMA InitInv == Init => IInv
<1> SUFFICES ASSUME Init
             PROVE  IInv
  OBVIOUS
<1>1. TypeOK
  <2>1. thread \in [Slot -> ThreadType]
    BY DEF Init, Someone, Secret, ThreadType, Free
  <2>2. registry \in [rememberPass: BOOLEAN, userName: Someone, userData: Secret]
    BY DEF Init, Someone, Secret
  <2>3. acts \in 0..MaxActs /\ loginSignals \in Nat
    BY SessionAssumption DEF Init
  <2>4. QED
    BY <2>1, <2>2, <2>3 DEF Init, TypeOK, Someone, Secret
<1>2. OnlyAccepted
  BY DEF Init, OnlyAccepted, LoggedInOnce
<1>3. JobsGood
  BY DEF Init, JobsGood, JobGood, CarriedIn, Free
<1>4. QED
  BY <1>1, <1>2, <1>3 DEF IInv

-----------------------------------------------------------------------------
(* The steps *)

LEMMA UserInv == IInv /\ User => IInv'
<1> SUFFICES ASSUME IInv, User
             PROVE  IInv'
  OBVIOUS
<1> USE SessionAssumption DEF IInv, userVars, infoVars
<1>1. CASE OpenLogin \/ CloseLogin
  BY <1>1 DEF OpenLogin, CloseLogin, TypeOK, OnlyAccepted, LoggedInOnce, JobsGood, JobGood, CarriedIn
<1>2. ASSUME NEW t \in Slot, NEW a \in Account, NEW p \in Pass, NEW r \in BOOLEAN,
             userLogin(t, a, p, r)
      PROVE  IInv'
  <2>1. thread' \in [Slot -> ThreadType] /\ JobsGood'
    BY <1>2, AskedGood, SlotStep DEF userLogin, Becomes, Secret
  <2>2. OnlyAccepted'
    BY <1>2 DEF userLogin, OnlyAccepted, LoggedInOnce
  <2>3. TypeOK'
    BY <1>2, <2>1, ActsStep, DisturbingStep DEF userLogin, TypeOK, Someone, Secret
  <2>4. QED
    BY <2>1, <2>2, <2>3
<1>3. CASE userLogout
  <2>1. TypeOK'
    BY <1>3, ActsStep, DisturbingStep DEF userLogout, TypeOK, Someone
  <2>2. OnlyAccepted' /\ JobsGood'
    BY <1>3 DEF userLogout, OnlyAccepted, LoggedInOnce, JobsGood, JobGood, CarriedIn
  <2>3. QED
    BY <2>1, <2>2
<1>4. ASSUME NEW t \in Slot, NEW p \in Pass, NEW q \in Pass, modifyUserPass(t, p, q)
      PROVE  IInv'
  <2>1. thread' \in [Slot -> ThreadType] /\ JobsGood'
    <3>1. CASE UNCHANGED thread
      BY <1>4, <3>1 DEF modifyUserPass, TypeOK, JobsGood, JobGood, CarriedIn
    <3>2. CASE Becomes(t, Asked("modify", p))
      BY <1>4, <3>2, AskedGood, SlotStep DEF modifyUserPass, Becomes, Secret
    <3>3. QED
      BY <1>4, <3>1, <3>2 DEF modifyUserPass
  <2>2. OnlyAccepted'
    BY <1>4 DEF modifyUserPass, OnlyAccepted, LoggedInOnce
  <2>3. TypeOK'
    BY <1>4, <2>1, ActsStep DEF modifyUserPass, TypeOK
  <2>4. QED
    BY <2>1, <2>2, <2>3
<1>5. ASSUME NEW t \in Slot, NEW op \in {"profile", "exchange"}, Profile(t, op)
      PROVE  IInv'
  <2>1. thread' \in [Slot -> ThreadType] /\ JobsGood'
    BY <1>5, AskedGood, SlotStep DEF Profile, Becomes, Secret
  <2>2. OnlyAccepted'
    BY <1>5 DEF Profile, OnlyAccepted, LoggedInOnce
  <2>3. TypeOK'
    BY <1>5, <2>1, ActsStep DEF Profile, TypeOK
  <2>4. QED
    BY <2>1, <2>2, <2>3
<1>6. CASE Restart
  <2>1. thread' \in [Slot -> ThreadType] /\ JobsGood'
    BY <1>6 DEF Restart, Free, ThreadType, Someone, Secret, JobsGood, JobGood, CarriedIn
  <2>2. OnlyAccepted'
    BY <1>6 DEF Restart, OnlyAccepted, LoggedInOnce
  <2>3. TypeOK'
    <3>1. m_strUserName' \in Someone /\ m_strUserPass' \in Secret /\ m_rememberPass' \in BOOLEAN
      BY <1>6 DEF Restart, TypeOK, Someone, Secret
    <3>2. loginSignals' \in Nat
      BY <1>6 DEF Restart
    <3>3. QED
      BY <1>6, <2>1, <3>1, <3>2, ActsStep, DisturbingStep DEF Restart, TypeOK, Someone
  <2>4. QED
    BY <2>1, <2>2, <2>3
<1>7. QED
  BY <1>1, <1>2, <1>3, <1>4, <1>5, <1>6 DEF User

LEMMA WorkInv ==
  ASSUME IInv, NEW t \in Slot, Work(t)
  PROVE  IInv'
<1> USE SessionAssumption DEF IInv, userVars, infoVars, uiVars
<1>1. thread[t] \in ThreadType /\ JobGood(thread[t], accepted)
  BY DEF TypeOK, JobsGood
<1>2. CASE Start(t)
  <2>1. CASE thread[t].op = "login"
    <3> DEFINE j == [thread[t] EXCEPT !.at = "sent", !.who = m_strUserName, !.pwd = m_strUserPass]
    <3>1. j \in ThreadType /\ JobGood(j, accepted')
      BY <1>1, <2>1 DEF TypeOK, ThreadType, JobGood
    <3>2. thread' = [thread EXCEPT ![t] = j]
      BY <1>2, <2>1 DEF Start, Becomes
    <3> HIDE DEF j
    <3>3. thread' \in [Slot -> ThreadType] /\ JobsGood'
      BY <1>2, <3>1, <3>2, SlotStep DEF Start
    <3>4. QED
      BY <1>2, <3>3 DEF Start, TypeOK, OnlyAccepted, LoggedInOnce
  <2>2. CASE thread[t].op # "login"
    <3> DEFINE j == [thread[t] EXCEPT !.at = "sent", !.who = m_strToken]
    <3>1. j \in ThreadType /\ j.who = m_strToken /\ j.op = thread[t].op /\ j.pwd = thread[t].pwd
      BY <1>1 DEF TypeOK, ThreadType
    <3>2. JobGood(j, accepted')
      BY <1>1, <1>2, <3>1 DEF Start, JobGood, CarriedIn, OnlyAccepted, LoggedInOnce
    <3>3. thread' = [thread EXCEPT ![t] = j]
      BY <1>2, <2>2 DEF Start, Becomes
    <3> HIDE DEF j
    <3>4. thread' \in [Slot -> ThreadType] /\ JobsGood'
      BY <1>2, <3>1, <3>2, <3>3, SlotStep DEF Start
    <3>5. QED
      BY <1>2, <3>4, ZenonT(40) DEF Start, TypeOK, OnlyAccepted, LoggedInOnce
  <2>3. QED
    BY <2>1, <2>2
<1>3. CASE Refuse(t)
  <2>1. thread' \in [Slot -> ThreadType] /\ JobsGood'
    BY <1>3, AskedGood, SlotStep DEF Refuse, Becomes, Secret
  <2>2. QED
    BY <1>3, <2>1 DEF Refuse, TypeOK, OnlyAccepted, LoggedInOnce
<1>4. CASE ServeLogin(t)
  <2>1. thread[t].who \in Account /\ thread[t].pwd \in Pass
    BY <1>1, <1>4 DEF ServeLogin, ThreadType, TypeOK, Someone
  <2>2. /\ accepted \subseteq accepted'
        /\ accepted' \subseteq Account \X Pass
        /\ CarriedIn(thread[t].who, accepted')
    BY <1>4, <2>1 DEF ServeLogin, CarriedIn, TypeOK
  <2>3. thread' \in [Slot -> ThreadType] /\ JobsGood'
    BY <1>4, <2>2, PlaceStep DEF ServeLogin
  <2>4. OnlyAccepted'
    BY <1>4, <2>2 DEF ServeLogin, OnlyAccepted, LoggedInOnce
  <2>5. QED
    BY <1>4, <2>2, <2>3, <2>4 DEF ServeLogin, TypeOK
<1>5. CASE Serve(t)
  <2>1. thread' \in [Slot -> ThreadType] /\ JobsGood'
    <3>1. CASE thread[t].op \in {"info", "client"} /\ GoesTo(t, "ok")
      BY <1>1, <1>5, <3>1, PlaceStep DEF Serve, JobGood
    <3>2. CASE Becomes(t, Asked("info", None)) \/ Becomes(t, Asked("client", None))
      BY <1>5, <3>2, AskedGood, SlotStep DEF Serve, Becomes, Secret
    <3>3. QED
      BY <1>5, <3>1, <3>2 DEF Serve
  <2>2. QED
    BY <1>5, <2>1, ZenonT(40) DEF Serve, TypeOK, OnlyAccepted, LoggedInOnce
<1>6. CASE ServeModify(t)
  <2>1. thread' \in [Slot -> ThreadType] /\ JobsGood'
    BY <1>6, AskedGood, SlotStep DEF ServeModify, Becomes, Secret
  <2>2. pass' \in [Account -> Pass]
    <3>1. thread[t].who \in Account /\ thread[t].pwd \in Pass
      BY <1>1, <1>6 DEF ServeModify, ThreadType, Someone, JobGood
    <3>2. QED
      BY <1>6, <3>1 DEF ServeModify, TypeOK
  <2>3. QED
    BY <1>6, <2>1, <2>2, ZenonT(40) DEF ServeModify, TypeOK, OnlyAccepted, LoggedInOnce
<1>7. CASE HandleLogin(t)
  <2>1. CarriedIn(thread[t].who, accepted)
    BY <1>1, <1>7 DEF HandleLogin, JobGood
  <2>2. thread' \in [Slot -> ThreadType] /\ JobsGood'
    <3>1. CASE GoesTo(t, "logined")
      BY <1>7, <2>1, <3>1, PlaceStep DEF HandleLogin
    <3>2. CASE Becomes(t, Asked("info", None))
      BY <1>7, <3>2, AskedGood, SlotStep DEF HandleLogin, Becomes, Secret
    <3>3. QED
      BY <1>7, <3>1, <3>2 DEF HandleLogin
  <2>3. OnlyAccepted'
    BY <1>7, <2>1 DEF HandleLogin, OnlyAccepted, LoggedInOnce, CarriedIn
  <2>4. TypeOK'
    <3>1. loginSignals' \in Nat
      BY <1>7 DEF HandleLogin, TypeOK
    <3>2. m_bUserLogined' \in BOOLEAN /\ m_strToken' \in Someone
      BY <1>1, <1>7 DEF HandleLogin, TypeOK, ThreadType
    <3>3. QED
      BY <1>7, <2>2, <3>1, <3>2 DEF HandleLogin, TypeOK
  <2>5. QED
    BY <2>2, <2>3, <2>4
<1>8. CASE HandleInfo(t) \/ HandleClient(t)
  <2>1. CarriedIn(thread[t].who, accepted)
    BY <1>1, <1>8 DEF HandleInfo, HandleClient, JobGood
  <2>2. thread' \in [Slot -> ThreadType] /\ JobsGood'
    <3>1. CASE HandleInfo(t)
      BY <2>1, <3>1, PlaceStep DEF HandleInfo
    <3>2. CASE HandleClient(t)
      BY <3>2, AskedGood, SlotStep DEF HandleClient, Becomes, Secret
    <3>3. QED
      BY <1>8, <3>1, <3>2
  <2>3. OnlyAccepted'
    BY <1>8, <2>1 DEF HandleInfo, HandleClient, OnlyAccepted, LoggedInOnce, CarriedIn
  <2>4. TypeOK'
    BY <1>1, <1>8, <2>2 DEF HandleInfo, HandleClient, TypeOK, ThreadType
  <2>5. QED
    BY <2>2, <2>3, <2>4
<1>9. CASE SaveUser(t)
  <2>1. CarriedIn(thread[t].who, accepted)
    BY <1>1, <1>9 DEF SaveUser, JobGood
  <2>2. thread' \in [Slot -> ThreadType] /\ JobsGood'
    <3>1. CASE GoesTo(t, "name") \/ GoesTo(t, "data")
      BY <1>9, <2>1, <3>1, PlaceStep DEF SaveUser
    <3>2. CASE Becomes(t, Asked("client", None))
      BY <1>9, <3>2, AskedGood, SlotStep DEF SaveUser, Becomes, Secret
    <3>3. QED
      BY <1>9, <3>1, <3>2 DEF SaveUser
  <2>3. registry' \in [rememberPass: BOOLEAN, userName: Someone, userData: Secret]
    BY <1>9 DEF SaveUser, TypeOK
  <2>4. QED
    BY <1>9, <2>2, <2>3 DEF SaveUser, TypeOK, OnlyAccepted, LoggedInOnce
<1>10. QED
  BY <1>2, <1>3, <1>4, <1>5, <1>6, <1>7, <1>8, <1>9 DEF Work

LEMMA StepInv == IInv /\ [Next]_vars => IInv'
<1> SUFFICES ASSUME IInv, [Next]_vars
             PROVE  IInv'
  OBVIOUS
<1>1. CASE User
  BY <1>1, UserInv
<1>2. CASE OnLoginSuccess
  <2>1. loginSignals' \in Nat
    BY <1>2 DEF OnLoginSuccess, IInv, TypeOK
  <2>2. QED
    BY <1>2, <2>1 DEF OnLoginSuccess, userVars, infoVars, IInv, TypeOK, OnlyAccepted,
                      LoggedInOnce, JobsGood, JobGood, CarriedIn
<1>3. ASSUME NEW t \in Slot, Work(t)
      PROVE  IInv'
  BY <1>3, WorkInv
<1>4. CASE UNCHANGED vars
  BY <1>4, ZenonT(40) DEF vars, userVars, infoVars, uiVars, IInv, TypeOK, OnlyAccepted, LoggedInOnce,
              JobsGood, JobGood, CarriedIn
<1>5. QED
  BY <1>1, <1>2, <1>3, <1>4 DEF Next

-----------------------------------------------------------------------------
(* Theorems *)

\* IInv holds in every state, for any accounts, passwords and requests.
THEOREM Inductive == Spec => []IInv
  BY InitInv, StepInv, PTL DEF Spec

\* Every variable of the session keeps its type.
THEOREM TypeCorrect == Spec => []TypeOK
  BY Inductive, PTL DEF IInv

\* However logins, logouts, restarts and late replies overlap, requests are
\* made for, and information is shown of, accounts that have logged in
\* (userLogin, parseUserInfoReply, parseRefreshClientInfo).
THEOREM OnlyAcceptedShown == Spec => []OnlyAccepted
  BY Inductive, PTL DEF IInv

-----------------------------------------------------------------------------
(* What orderly use adds: the user changes the account, and leaves, at rest *)

\* What a thread is doing fits what it asks for.
Shaped(job) ==
  /\ job.op = "none" => job.at = "free"
  /\ job.op = "login" => job.at \in {"asked", "sent", "ok", "logined"}
  /\ job.at \in {"remember", "name", "data"} => job.op = "info"
  /\ job.at = "logined" => job.op = "login"
  /\ job.at = "free" => job.op = "none"

\* Only a login's success is on its way where the popup covers a session.
PopupInv == loginOpen /\ m_bUserLogined => loginSignals > 0

TypedPair == <<m_strUserName, m_strUserPass>>
SavedUser == <<registry.userName, registry.userData>>

\* A login that is under way is alone, and carries what the user typed.
LoginAlone ==
  \A t \in Slot : thread[t].op = "login" =>
    /\ ~m_bUserLogined
    /\ \A u \in Slot : u # t => thread[u].op = "none"
    /\ thread[t].at # "asked" => TypedPair = <<thread[t].who, thread[t].pwd>>
    /\ thread[t].at \in {"ok", "logined"} => TypedPair \in accepted
    /\ thread[t].at = "logined" => m_strToken = thread[t].who

\* A session has a token, and the pair it was opened with.
SessionInv ==
  /\ m_bUserLogined =>
       m_strToken # None /\ m_strUserName = m_strToken /\ TypedPair \in accepted
  /\ ~m_bUserLogined =>
       /\ \A t \in Slot : thread[t].op \in {"none", "login"}
       /\ m_strToken = None \/ \E t \in Slot : thread[t].at = "logined"

\* Every other request carries the token of the session.
CarriesToken ==
  \A t \in Slot :
    thread[t].op \notin {"none", "login"} /\ thread[t].at # "asked" => thread[t].who = m_strToken

\* The registry holds a pair, but for the moment between two of its values.
SavedInv ==
  /\ (\A t \in Slot : thread[t].at # "data") =>
       registry.userName = None \/ SavedUser \in accepted
  /\ \A t \in Slot : thread[t].at = "data" => registry.userName = m_strUserName

\* What a session still lacks is on its way, unless a request failed.
InfoComing   == \E t \in Slot : thread[t].op = "info" /\ thread[t].at \in {"asked", "sent", "ok"}
ClientComing == \E t \in Slot : thread[t].op \in {"info", "client"}
ShownInv ==
  m_bUserLogined /\ ~refused =>
    /\ m_strUserId = m_strToken \/ InfoComing
    /\ (m_vipLabel = m_strToken /\ m_vipFlags = m_strToken) \/ ClientComing

Orderly == LoginAlone /\ SessionInv /\ CarriesToken /\ SavedInv /\ ShownInv
OwnInv ==
  /\ IInv
  /\ \A t \in Slot : Shaped(thread[t])
  /\ PopupInv
  /\ ~overlapped => Orderly

-----------------------------------------------------------------------------
(* Lemmas *)

\* One slot changes, the others do not.
LEMMA AtStep ==
  ASSUME TypeOK, NEW t \in Slot, NEW r, Becomes(t, r)
  PROVE  /\ thread'[t] = r
         /\ \A u \in Slot : u # t => thread'[u] = thread[u]
BY DEF TypeOK, Becomes

LEMMA AtPlace ==
  ASSUME TypeOK, NEW t \in Slot, NEW place, GoesTo(t, place)
  PROVE  /\ thread'[t].op = thread[t].op
         /\ thread'[t].at = place
         /\ thread'[t].who = thread[t].who
         /\ thread'[t].pwd = thread[t].pwd
         /\ \A u \in Slot : u # t => thread'[u] = thread[u]
<1>1. thread[t] \in ThreadType
  BY DEF TypeOK
<1>2. thread'[t] = [thread[t] EXCEPT !.at = place] /\ \A u \in Slot : u # t => thread'[u] = thread[u]
  BY DEF TypeOK, GoesTo
<1>3. QED
  BY <1>1, <1>2 DEF ThreadType

\* The fields of the records that the requests are made of.
LEMMA NewFields ==
  ASSUME NEW op, NEW pwd
  PROVE  /\ Asked(op, pwd).op = op /\ Asked(op, pwd).at = "asked"
         /\ Free.op = "none" /\ Free.at = "free"
BY DEF Asked, Free

\* The thread that starts to run.
LEMMA StartFields ==
  ASSUME TypeOK, NEW t \in Slot, Start(t)
  PROVE  /\ thread'[t].op = thread[t].op
         /\ thread'[t].at = "sent"
         /\ thread[t].op = "login" =>
              thread'[t].who = m_strUserName /\ thread'[t].pwd = m_strUserPass
         /\ thread[t].op # "login" => thread'[t].who = m_strToken
         /\ \A u \in Slot : u # t => thread'[u] = thread[u]
<1>1. thread[t] \in ThreadType
  BY DEF TypeOK
<1>2. CASE thread[t].op = "login"
  <2>1. Becomes(t, [thread[t] EXCEPT !.at = "sent", !.who = m_strUserName, !.pwd = m_strUserPass])
    BY <1>2 DEF Start
  <2>2. thread'[t] = [thread[t] EXCEPT !.at = "sent", !.who = m_strUserName, !.pwd = m_strUserPass]
        /\ \A u \in Slot : u # t => thread'[u] = thread[u]
    BY <2>1, AtStep
  <2>3. /\ thread'[t].op = thread[t].op /\ thread'[t].at = "sent"
        /\ thread'[t].who = m_strUserName /\ thread'[t].pwd = m_strUserPass
    BY <1>1, <2>2 DEF ThreadType
  <2>4. QED
    BY <1>2, <2>2, <2>3
<1>3. CASE thread[t].op # "login"
  <2>1. Becomes(t, [thread[t] EXCEPT !.at = "sent", !.who = m_strToken])
    BY <1>3 DEF Start
  <2>2. thread'[t] = [thread[t] EXCEPT !.at = "sent", !.who = m_strToken]
        /\ \A u \in Slot : u # t => thread'[u] = thread[u]
    BY <2>1, AtStep
  <2>3. thread'[t].op = thread[t].op /\ thread'[t].at = "sent" /\ thread'[t].who = m_strToken
    BY <1>1, <2>2 DEF ThreadType
  <2>4. QED
    BY <1>3, <2>2, <2>3
<1>4. QED
  BY <1>2, <1>3

\* At rest, and before the first login of a session, nothing runs.
LEMMA AtRest ==
  ASSUME OwnInv, Disturbing, ~overlapped'
  PROVE  /\ Orderly
         /\ loginSignals = 0
         /\ \A t \in Slot : thread[t].at = "free" /\ thread[t].op = "none"
<1>1. Quiet /\ ~overlapped
  BY DEF Disturbing
<1>2. \A t \in Slot : thread[t].at = "free"
  BY <1>1 DEF Quiet, Busy
<1>3. QED
  BY <1>1, <1>2 DEF OwnInv, Quiet, Shaped

\* OwnInv holds at the start of the program and is kept by every step.
LEMMA OwnInit == Init => OwnInv
<1> SUFFICES ASSUME Init
             PROVE  OwnInv
  OBVIOUS
<1>1. \A t \in Slot : thread[t] = Free
  BY DEF Init
<1>2. Orderly
  BY <1>1, NewFields DEF Init, Orderly, LoginAlone, SessionInv, CarriesToken, SavedInv, ShownInv
<1>3. QED
  BY <1>1, <1>2, NewFields, InitInv DEF Init, OwnInv, Shaped, PopupInv

LEMMA UserOwn ==
  ASSUME OwnInv, User
  PROVE  OwnInv'
<1> USE DEF userVars, infoVars
<1>1. IInv' /\ IInv /\ TypeOK
  BY UserInv DEF OwnInv, IInv
<1>2. CASE OpenLogin \/ CloseLogin
  BY <1>1, <1>2 DEF OpenLogin, CloseLogin, OwnInv, Shaped, PopupInv, Orderly, LoginAlone, SessionInv,
     CarriesToken, SavedInv, ShownInv, TypedPair, SavedUser, InfoComing, ClientComing
<1>3. ASSUME NEW t \in Slot, NEW a \in Account, NEW p \in Pass, NEW r \in BOOLEAN,
             userLogin(t, a, p, r)
      PROVE  OwnInv'
  <2>1. /\ thread'[t].op = "login" /\ thread'[t].at = "asked"
        /\ \A u \in Slot : u # t => thread'[u] = thread[u]
    BY <1>1, <1>3, AtStep, NewFields DEF userLogin
  <2>2. (\A u \in Slot : Shaped(thread[u]))' /\ PopupInv'
    BY <1>3, <2>1 DEF userLogin, OwnInv, Shaped, PopupInv
  <2>3. ASSUME ~overlapped'
        PROVE  Orderly'
    <3>1. /\ Orderly /\ loginSignals = 0
          /\ \A u \in Slot : thread[u].at = "free" /\ thread[u].op = "none"
      BY <1>3, <2>3, AtRest DEF userLogin
    <3>2. ~m_bUserLogined
      BY <1>1, <1>3, <3>1 DEF userLogin, OwnInv, PopupInv
    <3>3. LoginAlone' /\ SessionInv' /\ CarriesToken'
      BY <1>3, <2>1, <3>1, <3>2 DEF userLogin, Orderly, LoginAlone, SessionInv, CarriesToken
    <3>4. SavedInv' /\ ShownInv'
      BY <1>3, <2>1, <3>1, <3>2 DEF userLogin, Orderly, SavedInv, ShownInv, SavedUser
    <3>5. QED
      BY <3>3, <3>4 DEF Orderly
  <2>4. QED
    BY <1>1, <2>2, <2>3 DEF OwnInv
<1>4. CASE userLogout
  <2>1. (\A u \in Slot : Shaped(thread[u]))' /\ PopupInv'
    BY <1>4 DEF userLogout, OwnInv, Shaped, PopupInv
  <2>2. ASSUME ~overlapped'
        PROVE  Orderly'
    <3>1. /\ Orderly /\ \A u \in Slot : thread[u].at = "free" /\ thread[u].op = "none"
      BY <1>4, <2>2, AtRest DEF userLogout
    <3>2. QED
      BY <1>4, <3>1 DEF userLogout, Orderly, LoginAlone, SessionInv, CarriesToken, SavedInv, ShownInv,
                        SavedUser
  <2>3. QED
    BY <1>1, <2>1, <2>2 DEF OwnInv
<1>5. ASSUME NEW t \in Slot, NEW op \in {"profile", "exchange", "modify"}, NEW pwd,
             m_bUserLogined, ~loginOpen, thread[t] = Free, Becomes(t, Asked(op, pwd)),
             UNCHANGED <<userVars, infoVars, registry, loginOpen, loginSignals, overlapped, refused,
                         accepted>>
      PROVE  OwnInv'
  <2>1. /\ thread'[t].op = op /\ thread'[t].at = "asked"
        /\ \A u \in Slot : u # t => thread'[u] = thread[u]
        /\ thread[t].op = "none" /\ thread[t].at = "free"
    BY <1>1, <1>5, AtStep, NewFields
  <2>2. (\A u \in Slot : Shaped(thread[u]))' /\ PopupInv'
    BY <1>5, <2>1 DEF OwnInv, Shaped, PopupInv
  <2>3. ASSUME ~overlapped'
        PROVE  Orderly'
    <3>1. Orderly
      BY <1>5, <2>3 DEF OwnInv
    <3>2. LoginAlone' /\ SessionInv' /\ CarriesToken'
      BY <1>5, <2>1, <3>1 DEF Orderly, LoginAlone, SessionInv, CarriesToken, TypedPair
    <3>3. SavedInv' /\ ShownInv'
      BY <1>5, <2>1, <3>1 DEF Orderly, SavedInv, ShownInv, SavedUser, InfoComing, ClientComing
    <3>4. QED
      BY <3>2, <3>3 DEF Orderly
  <2>4. QED
    BY <1>1, <2>2, <2>3 DEF OwnInv
<1>6. ASSUME NEW t \in Slot, NEW p \in Pass, NEW q \in Pass, modifyUserPass(t, p, q)
      PROVE  OwnInv'
  <2>1. CASE UNCHANGED thread
    BY <1>1, <1>6, <2>1 DEF modifyUserPass, OwnInv, Shaped, PopupInv, Orderly, LoginAlone, SessionInv,
       CarriesToken, SavedInv, ShownInv, TypedPair, SavedUser, InfoComing, ClientComing
  <2>2. CASE thread[t] = Free /\ Becomes(t, Asked("modify", p))
    BY <1>5, <1>6, <2>2 DEF modifyUserPass
  <2>3. QED
    BY <1>6, <2>1, <2>2 DEF modifyUserPass
<1>7. ASSUME NEW t \in Slot, NEW op \in {"profile", "exchange"}, Profile(t, op)
      PROVE  OwnInv'
  BY <1>5, <1>7 DEF Profile
<1>8. CASE Restart
  <2>1. \A u \in Slot : thread'[u].op = "none" /\ thread'[u].at = "free"
    BY <1>8, NewFields DEF Restart
  <2>2. (\A u \in Slot : Shaped(thread[u]))' /\ PopupInv'
    BY <1>8, <2>1 DEF Restart, Shaped, PopupInv
  <2>3. ASSUME ~overlapped'
        PROVE  Orderly'
    <3>1. Orderly /\ \A u \in Slot : thread[u].at = "free" /\ thread[u].op = "none"
      BY <1>8, <2>3, AtRest DEF Restart
    <3>2. QED
      BY <1>8, <2>1, <3>1 DEF Restart, Orderly, LoginAlone, SessionInv, CarriesToken, SavedInv, ShownInv,
                              SavedUser
  <2>4. QED
    BY <1>1, <2>2, <2>3 DEF OwnInv
<1>9. QED
  BY <1>2, <1>3, <1>4, <1>6, <1>7, <1>8 DEF User

\* A thread of the session stays one: the request it makes next, or its end,
\* leaves all but what the session still lacks as it was.
LEMMA ThreadOwn ==
  ASSUME OwnInv, NEW t \in Slot, thread[t].op \notin {"none", "login"},
         \A u \in Slot : u # t => thread'[u] = thread[u],
         thread'[t].op # "login", thread'[t].at # "logined", Orderly,
         thread'[t].op = "none" \/ thread'[t].at = "asked" \/ thread'[t].who = m_strToken,
         UNCHANGED <<userVars, accepted>>
  PROVE  LoginAlone' /\ SessionInv' /\ CarriesToken'
<1>1. m_bUserLogined
  BY DEF Orderly, SessionInv
<1>2. QED
  BY <1>1 DEF Orderly, LoginAlone, SessionInv, CarriesToken, TypedPair, userVars

LEMMA WorkOwn ==
  ASSUME OwnInv, NEW t \in Slot, Work(t)
  PROVE  OwnInv'
<1> USE DEF userVars, infoVars, uiVars
<1>1. IInv' /\ IInv /\ TypeOK /\ Shaped(thread[t])
  BY WorkInv DEF OwnInv, IInv
<1>2. CASE Start(t)
  <2>1. /\ thread'[t].op = thread[t].op
        /\ thread'[t].at = "sent"
        /\ thread[t].op = "login" =>
              thread'[t].who = m_strUserName /\ thread'[t].pwd = m_strUserPass
        /\ thread[t].op # "login" => thread'[t].who = m_strToken
        /\ \A u \in Slot : u # t => thread'[u] = thread[u]
    BY <1>1, <1>2, StartFields
  <2>2. (\A u \in Slot : Shaped(thread[u]))' /\ PopupInv'
    BY <1>1, <1>2, <2>1 DEF Start, OwnInv, Shaped, PopupInv
  <2>3. ASSUME ~overlapped'
        PROVE  Orderly'
    <3>1. Orderly
      BY <1>2, <2>3 DEF Start, OwnInv
    <3>2. LoginAlone' /\ SessionInv' /\ CarriesToken'
      BY <1>2, <2>1, <3>1 DEF Start, Orderly, LoginAlone, SessionInv, CarriesToken, TypedPair
    <3>3. SavedInv' /\ ShownInv'
      BY <1>2, <2>1, <3>1 DEF Start, Orderly, SavedInv, ShownInv, SavedUser, InfoComing, ClientComing
    <3>4. QED
      BY <3>2, <3>3 DEF Orderly
  <2>4. QED
    BY <1>1, <2>2, <2>3 DEF OwnInv
<1>3. CASE Refuse(t)
  <2>1. /\ thread'[t].op = "none" /\ thread'[t].at = "free"
        /\ \A u \in Slot : u # t => thread'[u] = thread[u]
    BY <1>1, <1>3, AtStep, NewFields DEF Refuse
  <2>2. (\A u \in Slot : Shaped(thread[u]))' /\ PopupInv'
    BY <1>3, <2>1 DEF Refuse, OwnInv, Shaped, PopupInv
  <2>3. ASSUME ~overlapped'
        PROVE  Orderly'
    <3>1. Orderly
      BY <1>3, <2>3 DEF Refuse, OwnInv
    <3>2. LoginAlone' /\ SessionInv' /\ CarriesToken'
      BY <1>3, <2>1, <3>1 DEF Refuse, Orderly, LoginAlone, SessionInv, CarriesToken, TypedPair
    <3>3. SavedInv' /\ ShownInv'
      BY <1>3, <2>1, <3>1 DEF Refuse, Orderly, SavedInv, ShownInv, SavedUser
    <3>4. QED
      BY <3>2, <3>3 DEF Orderly
  <2>4. QED
    BY <1>1, <2>2, <2>3 DEF OwnInv
<1>4. CASE ServeLogin(t)
  <2>1. /\ thread'[t].op = "login" /\ thread'[t].at = "ok"
        /\ thread'[t].who = thread[t].who /\ thread'[t].pwd = thread[t].pwd
        /\ \A u \in Slot : u # t => thread'[u] = thread[u]
    BY <1>1, <1>4, AtPlace DEF ServeLogin
  <2>2. (\A u \in Slot : Shaped(thread[u]))' /\ PopupInv'
    BY <1>4, <2>1 DEF ServeLogin, OwnInv, Shaped, PopupInv
  <2>3. ASSUME ~overlapped'
        PROVE  Orderly'
    <3>1. Orderly
      BY <1>4, <2>3 DEF ServeLogin, OwnInv
    <3>2. TypedPair = <<thread[t].who, thread[t].pwd>> /\ TypedPair' = TypedPair /\ TypedPair \in accepted'
      BY <1>4, <3>1 DEF ServeLogin, Orderly, LoginAlone, TypedPair
    <3>3. LoginAlone' /\ SessionInv' /\ CarriesToken'
      BY <1>4, <2>1, <3>1, <3>2 DEF ServeLogin, Orderly, LoginAlone, SessionInv, CarriesToken
    <3>4. SavedInv' /\ ShownInv'
      BY <1>4, <2>1, <3>1 DEF ServeLogin, Orderly, SavedInv, ShownInv, SavedUser, InfoComing, ClientComing,
                              LoginAlone
    <3>5. QED
      BY <3>3, <3>4 DEF Orderly
  <2>4. QED
    BY <1>1, <2>2, <2>3 DEF OwnInv
<1>5. CASE Serve(t)
  <2>1. /\ \A u \in Slot : u # t => thread'[u] = thread[u]
        /\ \/ /\ thread[t].op \in {"info", "client"} /\ thread'[t].op = thread[t].op
              /\ thread'[t].at = "ok" /\ thread'[t].who = thread[t].who
           \/ /\ thread[t].op \in {"profile", "exchange"} /\ thread'[t].op \in {"info", "client"}
              /\ thread'[t].at = "asked"
    BY <1>1, <1>5, AtStep, AtPlace, NewFields DEF Serve
  <2>2. (\A u \in Slot : Shaped(thread[u]))' /\ PopupInv'
    BY <1>5, <2>1 DEF Serve, OwnInv, Shaped, PopupInv
  <2>3. ASSUME ~overlapped'
        PROVE  Orderly'
    <3>1. Orderly
      BY <1>5, <2>3 DEF Serve, OwnInv
    <3>2. thread[t].who = m_strToken
      BY <1>5, <2>1, <3>1 DEF Serve, Orderly, CarriesToken
    <3>3. LoginAlone' /\ SessionInv' /\ CarriesToken'
      BY <1>5, <2>1, <3>1, <3>2, ThreadOwn DEF Serve
    <3>4. SavedInv' /\ ShownInv'
      BY <1>5, <2>1, <3>1 DEF Serve, Orderly, SavedInv, ShownInv, SavedUser, InfoComing, ClientComing
    <3>5. QED
      BY <3>3, <3>4 DEF Orderly
  <2>4. QED
    BY <1>1, <2>2, <2>3 DEF OwnInv
<1>6. CASE ServeModify(t)
  <2>1. /\ thread'[t].op = "none" /\ thread'[t].at = "free"
        /\ \A u \in Slot : u # t => thread'[u] = thread[u]
    BY <1>1, <1>6, AtStep, NewFields DEF ServeModify
  <2>2. (\A u \in Slot : Shaped(thread[u]))' /\ PopupInv'
    BY <1>6, <2>1 DEF ServeModify, OwnInv, Shaped, PopupInv
  <2>3. ASSUME ~overlapped'
        PROVE  Orderly'
    <3>1. Orderly
      BY <1>6, <2>3 DEF ServeModify, OwnInv
    <3>2. LoginAlone' /\ SessionInv' /\ CarriesToken'
      BY <1>6, <2>1, <3>1, ThreadOwn DEF ServeModify
    <3>3. SavedInv' /\ ShownInv'
      BY <1>6, <2>1, <3>1 DEF ServeModify, Orderly, SavedInv, ShownInv, SavedUser, InfoComing, ClientComing
    <3>4. QED
      BY <3>2, <3>3 DEF Orderly
  <2>4. QED
    BY <1>1, <2>2, <2>3 DEF OwnInv
<1>7. CASE HandleLogin(t)
  <2>1. CASE thread[t].at = "ok"
    <3>1. /\ thread'[t].op = "login" /\ thread'[t].at = "logined"
          /\ thread'[t].who = thread[t].who /\ thread'[t].pwd = thread[t].pwd
          /\ m_strToken' = thread[t].who
          /\ UNCHANGED <<m_bUserLogined, loginSignals>>
          /\ \A u \in Slot : u # t => thread'[u] = thread[u]
      BY <1>1, <1>7, <2>1, AtPlace DEF HandleLogin
    <3>2. (\A u \in Slot : Shaped(thread[u]))' /\ PopupInv'
      BY <1>7, <3>1 DEF HandleLogin, OwnInv, Shaped, PopupInv
    <3>3. ASSUME ~overlapped'
          PROVE  Orderly'
      <4>1. Orderly
        BY <1>7, <3>3 DEF HandleLogin, OwnInv
      <4>2. ~m_bUserLogined /\ \A u \in Slot : u # t => thread[u].op = "none"
        BY <1>7, <4>1 DEF HandleLogin, Orderly, LoginAlone
      <4>3. LoginAlone' /\ SessionInv' /\ CarriesToken'
        BY <1>7, <2>1, <3>1, <4>1, <4>2 DEF HandleLogin, Orderly, LoginAlone, SessionInv, CarriesToken,
                                            TypedPair
      <4>4. SavedInv' /\ ShownInv'
        BY <1>7, <2>1, <3>1, <4>1, <4>2 DEF HandleLogin, Orderly, SavedInv, ShownInv, SavedUser
      <4>5. QED
        BY <4>3, <4>4 DEF Orderly
    <3>4. QED
      BY <1>1, <3>2, <3>3 DEF OwnInv
  <2>2. CASE thread[t].at = "logined"
    <3>1. /\ thread'[t].op = "info" /\ thread'[t].at = "asked"
          /\ m_bUserLogined' = TRUE /\ loginSignals' = loginSignals + 1
          /\ UNCHANGED m_strToken
          /\ \A u \in Slot : u # t => thread'[u] = thread[u]
      BY <1>1, <1>7, <2>2, AtStep, NewFields DEF HandleLogin
    <3>2. loginSignals' > 0
      BY <1>1, <3>1 DEF TypeOK
    <3>3. (\A u \in Slot : Shaped(thread[u]))' /\ PopupInv'
      BY <1>7, <3>1, <3>2 DEF HandleLogin, OwnInv, Shaped, PopupInv
    <3>4. ASSUME ~overlapped'
          PROVE  Orderly'
      <4>1. Orderly
        BY <1>7, <3>4 DEF HandleLogin, OwnInv
      <4>2. /\ \A u \in Slot : u # t => thread[u].op = "none"
            /\ TypedPair = <<thread[t].who, thread[t].pwd>> /\ TypedPair \in accepted
            /\ m_strToken = thread[t].who
        BY <1>7, <2>2, <4>1 DEF HandleLogin, Orderly, LoginAlone
      <4>3. m_strToken # None /\ m_strUserName = m_strToken
        BY <1>1, <4>2, SessionAssumption DEF TypedPair, TypeOK
      <4>4. LoginAlone' /\ SessionInv' /\ CarriesToken'
        BY <1>7, <2>2, <3>1, <4>1, <4>2, <4>3 DEF HandleLogin, LoginAlone, SessionInv, CarriesToken,
                                                  TypedPair
      <4>5. SavedInv' /\ ShownInv'
        BY <1>7, <2>2, <3>1, <4>1, <4>2 DEF HandleLogin, Orderly, SavedInv, ShownInv, SavedUser,
                                            InfoComing, ClientComing
      <4>6. QED
        BY <4>4, <4>5 DEF Orderly
    <3>5. QED
      BY <1>1, <3>3, <3>4 DEF OwnInv
  <2>3. QED
    BY <1>7, <2>1, <2>2 DEF HandleLogin
<1>8. CASE HandleInfo(t)
  <2>1. /\ thread'[t].op = "info" /\ thread'[t].at = "remember" /\ thread'[t].who = thread[t].who
        /\ \A u \in Slot : u # t => thread'[u] = thread[u]
    BY <1>1, <1>8, AtPlace DEF HandleInfo
  <2>2. (\A u \in Slot : Shaped(thread[u]))' /\ PopupInv'
    BY <1>8, <2>1 DEF HandleInfo, OwnInv, Shaped, PopupInv
  <2>3. ASSUME ~overlapped'
        PROVE  Orderly'
    <3>1. Orderly
      BY <1>8, <2>3 DEF HandleInfo, OwnInv
    <3>2. m_bUserLogined /\ thread[t].who = m_strToken
      BY <1>8, <3>1 DEF HandleInfo, Orderly, CarriesToken, SessionInv
    <3>3. m_strUserName' = m_strUserName
      BY <1>8, <3>1, <3>2 DEF HandleInfo, Orderly, SessionInv
    <3>4. LoginAlone' /\ SessionInv' /\ CarriesToken'
      BY <1>8, <2>1, <3>1, <3>2, <3>3, ThreadOwn DEF HandleInfo
    <3>5. SavedInv' /\ ShownInv'
      BY <1>8, <2>1, <3>1, <3>2, <3>3 DEF HandleInfo, Orderly, SavedInv, ShownInv, SavedUser, InfoComing,
                                          ClientComing
    <3>6. QED
      BY <3>4, <3>5 DEF Orderly
  <2>4. QED
    BY <1>1, <2>2, <2>3 DEF OwnInv
<1>9. CASE SaveUser(t)
  <2>1. thread[t].op = "info"
    BY <1>1, <1>9 DEF SaveUser, Shaped
  <2>2. /\ \A u \in Slot : u # t => thread'[u] = thread[u]
        /\ \/ /\ thread[t].at = "remember" /\ thread'[t].at = "name"
              /\ thread'[t].op = "info" /\ thread'[t].who = thread[t].who
              /\ registry'.userName = registry.userName /\ registry'.userData = registry.userData
           \/ /\ thread[t].at = "name" /\ thread'[t].at = "data"
              /\ thread'[t].op = "info" /\ thread'[t].who = thread[t].who
              /\ registry'.userName = m_strUserName
           \/ /\ thread[t].at = "data" /\ thread'[t].at = "asked" /\ thread'[t].op = "client"
              /\ registry'.userName = registry.userName /\ registry'.userData = m_strUserPass
    BY <1>1, <1>9, <2>1, AtPlace, AtStep, NewFields DEF SaveUser, TypeOK
  <2>3. (\A u \in Slot : Shaped(thread[u]))' /\ PopupInv'
    BY <1>9, <2>2 DEF SaveUser, OwnInv, Shaped, PopupInv
  <2>4. ASSUME ~overlapped'
        PROVE  Orderly'
    <3>1. Orderly
      BY <1>9, <2>4 DEF SaveUser, OwnInv
    <3>2. m_bUserLogined /\ thread[t].who = m_strToken
      BY <2>1, <2>2, <3>1 DEF Orderly, CarriesToken, SessionInv
    <3>3. LoginAlone' /\ SessionInv' /\ CarriesToken'
      BY <1>9, <2>1, <2>2, <3>1, <3>2, ThreadOwn DEF SaveUser
    <3>4. SavedInv'
      BY <1>9, <2>2, <3>1, <3>2 DEF SaveUser, Orderly, SavedInv, SessionInv, SavedUser, TypedPair
    <3>5. ShownInv'
      BY <1>9, <2>1, <2>2, <3>1 DEF SaveUser, Orderly, ShownInv, InfoComing, ClientComing
    <3>6. QED
      BY <3>3, <3>4, <3>5 DEF Orderly
  <2>5. QED
    BY <1>1, <2>3, <2>4 DEF OwnInv
<1>10. CASE HandleClient(t)
  <2>1. /\ thread'[t].op = "none" /\ thread'[t].at = "free"
        /\ \A u \in Slot : u # t => thread'[u] = thread[u]
    BY <1>1, <1>10, AtStep, NewFields DEF HandleClient
  <2>2. (\A u \in Slot : Shaped(thread[u]))' /\ PopupInv'
    BY <1>10, <2>1 DEF HandleClient, OwnInv, Shaped, PopupInv
  <2>3. ASSUME ~overlapped'
        PROVE  Orderly'
    <3>1. Orderly
      BY <1>10, <2>3 DEF HandleClient, OwnInv
    <3>2. thread[t].who = m_strToken
      BY <1>10, <3>1 DEF HandleClient, Orderly, CarriesToken
    <3>3. LoginAlone' /\ SessionInv' /\ CarriesToken'
      BY <1>10, <2>1, <3>1, ThreadOwn DEF HandleClient
    <3>4. SavedInv' /\ ShownInv'
      BY <1>10, <2>1, <3>1, <3>2 DEF HandleClient, Orderly, SavedInv, ShownInv, SavedUser, InfoComing
    <3>5. QED
      BY <3>3, <3>4 DEF Orderly
  <2>4. QED
    BY <1>1, <2>2, <2>3 DEF OwnInv
<1>11. QED
  BY <1>2, <1>3, <1>4, <1>5, <1>6, <1>7, <1>8, <1>9, <1>10 DEF Work

LEMMA OwnStep == OwnInv /\ [Next]_vars => OwnInv'
<1> SUFFICES ASSUME OwnInv, [Next]_vars
             PROVE  OwnInv'
  OBVIOUS
<1>1. IInv'
  BY StepInv DEF OwnInv
<1>2. CASE OnLoginSuccess
  <2>1. PopupInv'
    BY <1>2 DEF OnLoginSuccess, PopupInv
  <2>2. QED
    BY <1>1, <1>2, <2>1 DEF OnLoginSuccess, userVars, infoVars, OwnInv, Shaped, Orderly, LoginAlone,
       SessionInv, CarriesToken, SavedInv, ShownInv, TypedPair, SavedUser, InfoComing, ClientComing
<1>3. ASSUME NEW t \in Slot, Work(t)
      PROVE  OwnInv'
  BY <1>3, WorkOwn
<1>4. CASE UNCHANGED vars
  BY <1>1, <1>4 DEF vars, userVars, infoVars, uiVars, OwnInv, Shaped, PopupInv, Orderly, LoginAlone,
     SessionInv, CarriesToken, SavedInv, ShownInv, TypedPair, SavedUser, InfoComing, ClientComing
<1>5. QED
  BY <1>2, <1>3, <1>4, UserOwn DEF Next

-----------------------------------------------------------------------------
(* Theorems *)

\* OwnInv holds in every state, for any accounts, passwords and requests.
THEOREM OwnInductive == Spec => []OwnInv
  BY OwnInit, OwnStep, PTL DEF Spec

\* If the account only changes at rest: who is logged in has a token, and at
\* rest who is not has none (userLogin, userLogout).
THEOREM TokenFollowsLogin == Spec => []LoginHasToken
<1>1. OwnInv => LoginHasToken
  BY DEF OwnInv, LoginHasToken, Orderly, SessionInv, Quiet, Busy
<1>2. QED
  BY <1>1, OwnInductive, PTL

\* Under the same condition the registry holds, at rest, a pair that the
\* server has accepted (parseUserInfoReply).
THEOREM SavedPairAccepted == Spec => []SavedPair
<1>1. OwnInv => SavedPair
  BY DEF OwnInv, SavedPair, Orderly, SavedInv, SavedUser, Quiet, Busy
<1>2. QED
  BY <1>1, OwnInductive, PTL

\* Under the same condition a session without a failed request shows, at
\* rest, its own account everywhere (userLogin, getUserInfo, refreshClientInfo).
THEOREM SessionShowsItself == Spec => []SessionIsOwn
<1>1. OwnInv => SessionIsOwn
  <2> SUFFICES ASSUME OwnInv, ~overlapped, Quiet, m_bUserLogined, ~refused
               PROVE  {m_strToken, m_strUserName, m_strUserId, m_vipLabel, m_vipFlags} = {m_strToken}
    BY DEF SessionIsOwn
  <2>1. \A t \in Slot : thread[t].op = "none"
    BY DEF Quiet, Busy, OwnInv, Shaped
  <2>2. QED
    BY <2>1 DEF OwnInv, Orderly, SessionInv, ShownInv, InfoComing, ClientComing
<1>2. QED
  BY <1>1, OwnInductive, PTL

\* Under the same condition a reply stores only what belongs to the account
\* that is logged in (parseUserInfoReply, parseRefreshClientInfo).
THEOREM RepliesStoreOwn == Spec => RepliesAreOwn
<1> DEFINE Own == ~overlapped' =>
                    /\ m_strUserId' \in {m_strUserId, m_strToken, None}
                    /\ m_vipLabel' \in {m_vipLabel, m_strToken, None}
                    /\ m_vipFlags' \in {m_vipFlags, m_strToken, None}
<1>1. OwnInv /\ [Next]_vars => [Own]_vars
  <2> SUFFICES ASSUME OwnInv, Next, ~overlapped'
               PROVE  Own
    OBVIOUS
  <2> USE DEF userVars, infoVars, uiVars
  <2>1. CASE User \/ OnLoginSuccess
    BY <2>1 DEF User, OpenLogin, CloseLogin, userLogin, userLogout, modifyUserPass, Profile, Restart,
                OnLoginSuccess
  <2>2. ASSUME NEW t \in Slot, Work(t)
        PROVE  Own
    <3>1. CASE HandleInfo(t) \/ HandleClient(t)
      <4>1. thread[t].who = m_strToken
        BY <3>1 DEF HandleInfo, HandleClient, OwnInv, Orderly, CarriesToken
      <4>2. QED
        BY <3>1, <4>1 DEF HandleInfo, HandleClient
    <3>2. CASE UNCHANGED infoVars
      BY <3>2
    <3>3. QED
      BY <2>2, <3>1, <3>2 DEF Work, Start, Refuse, ServeLogin, Serve, ServeModify, HandleLogin, SaveUser
  <2>3. QED
    BY <2>1, <2>2 DEF Next
<1>2. QED
  BY <1>1, OwnInductive, PTL DEF Spec, RepliesAreOwn
=============================================================================
