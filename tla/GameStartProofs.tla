-------------------------- MODULE GameStartProofs ---------------------------
(***************************************************************************)
(* Proofs about GameStart and, within it, StreamWindow, for any users,     *)
(* games, requests in flight, processes and closes.                        *)
(***************************************************************************)
EXTENDS GameStart, TLAPS

-----------------------------------------------------------------------------
(* Types *)

\* A request that is in flight is for something.
Purposeful == \A t \in Slot : thread[t].at = "free" \/ thread[t].op # "none"

Types == TypeOK /\ Purposeful

LEMMA FreeType == Free \in ThreadType /\ Free.at = "free" /\ Free.op = "none" /\ ~Free.lone
BY DEF Free, ThreadType

LEMMA AskedType ==
  ASSUME NEW op \in {"details", "appoint", "start"}, NEW g \in Game \cup {None}
  PROVE  /\ Asked(op, g) \in ThreadType
         /\ Asked(op, g).at = "asked" /\ Asked(op, g).op = op /\ ~Asked(op, g).lone
BY DEF Asked, Free, ThreadType

\* A slot that gets a request, or becomes free, keeps the type of thread.
LEMMA SlotStep ==
  ASSUME Types, NEW t \in Slot, NEW r \in ThreadType, Becomes(t, r),
         r = Free \/ (r.at # "free" /\ r.op # "none")
  PROVE  /\ thread' \in [Slot -> ThreadType]
         /\ \A s \in Slot : thread'[s].at = "free" => thread'[s] = Free
         /\ Purposeful'
BY FreeType DEF Types, TypeOK, Purposeful, Becomes

\* ... and so does a slot whose reply selects a game.
LEMMA SelectsStep ==
  ASSUME Types, NEW t \in Slot, NEW r \in ThreadType, Selects(t, r),
         r = Free \/ (r.at # "free" /\ r.op # "none")
  PROVE  /\ thread' \in [Slot -> ThreadType]
         /\ \A s \in Slot : thread'[s].at = "free" => thread'[s] = Free
         /\ Purposeful'
<1>1. ASSUME NEW s \in Slot, s # t
      PROVE  /\ thread'[s] \in ThreadType
             /\ thread'[s].at = thread[s].at /\ thread'[s].op = thread[s].op
             /\ thread[s] = Free => thread'[s] = Free
  <2>1. thread[s] \in ThreadType
    BY DEF Types, TypeOK
  <2>2. thread'[s] = [thread[s] EXCEPT !.lone = @ /\ m_selectGameId = thread[t].game]
    BY <1>1 DEF Selects
  <2>3. thread'[s] \in ThreadType
    BY <2>1, <2>2 DEF ThreadType
  <2>4. thread'[s].at = thread[s].at /\ thread'[s].op = thread[s].op
    BY <2>1, <2>2 DEF ThreadType
  <2>5. ASSUME thread[s] = Free PROVE thread'[s] = Free
    <3>1. (Free.lone /\ m_selectGameId = thread[t].game) = FALSE
      BY FreeType
    <3>2. thread'[s] = [Free EXCEPT !.lone = FALSE]
      BY <2>2, <2>5, <3>1
    <3> QED
      BY <3>2 DEF Free
  <2> QED
    BY <2>3, <2>4, <2>5
<1>2. thread'[t] = r
  BY DEF Selects
<1>3. thread' \in [Slot -> ThreadType]
  BY <1>1, <1>2 DEF Selects
<1>4. ASSUME NEW s \in Slot
      PROVE  /\ thread'[s].at = "free" => thread'[s] = Free
             /\ thread'[s].at = "free" \/ thread'[s].op # "none"
  <2>1. CASE s = t
    BY <2>1, <1>2, FreeType
  <2>2. CASE s # t
    BY <2>2, <1>1 DEF Types, TypeOK, Purposeful
  <2> QED
    BY <2>1, <2>2
<1> QED
  BY <1>3, <1>4 DEF Purposeful

\* What Close and Receive make of a process is one.
LEMMA ProcChange ==
  ASSUME NEW r \in Window!ProcType, NEW inbox \in Seq({"start", "exit"}),
         NEW sdk \in {"off", "on", "stopped"}, NEW timers \in Nat, NEW late \in BOOLEAN
  PROVE  /\ [r EXCEPT !.inbox = inbox, !.timers = timers, !.late = late] \in Window!ProcType
         /\ [r EXCEPT !.inbox = inbox, !.sdk = sdk] \in Window!ProcType
<1> DEFINE S == Seq({"start", "exit"})
<1>1. inbox \in S
  OBVIOUS
<1>2. Window!ProcType =
        [at: {"none", "boot", "load", "dom", "open", "destroyed", "refused"},
         stream: Stream \cup {NoStream}, inbox: S, sdk: {"off", "on", "stopped"},
         timers: Nat, late: BOOLEAN]
  BY DEF Window!ProcType
<1> HIDE DEF S
<1> QED
  BY <1>1, <1>2

\* The processes of the streams keep their type.
LEMMA WindowTypes ==
  ASSUME GameStartAssumption, Window!TypeOK, Window!Next
  PROVE  Window!TypeOK'
<1> DEFINE S == Seq({"start", "exit"})
<1>1. \A p \in Proc : proc[p].inbox \in S /\ proc[p].timers \in Nat /\ proc[p] \in Window!ProcType
  BY DEF Window!TypeOK, Window!ProcType
<1>2. \A q \in S : Append(q, "start") \in S /\ Append(q, "exit") \in S
  OBVIOUS
<1>3. \A q \in S : q # <<>> => Tail(q) \in S
  OBVIOUS
<1>0. Window!ProcType =
        [at: {"none", "boot", "load", "dom", "open", "destroyed", "refused"},
         stream: Stream \cup {NoStream}, inbox: S, sdk: {"off", "on", "stopped"},
         timers: Nat, late: BOOLEAN]
  BY DEF Window!ProcType
<1> HIDE DEF S
<1>4. ASSUME NEW p \in Proc, NEW stream \in Stream, Window!Spawn(p, stream) PROVE Window!TypeOK'
  BY <1>0, <1>1, <1>4, ZenonT(40) DEF Window!Spawn, Window!TypeOK
<1>5. ASSUME NEW p \in Proc, Window!createWindow(p) PROVE Window!TypeOK'
  BY <1>0, <1>1, <1>5 DEF Window!createWindow, Window!TypeOK
<1>6. ASSUME NEW p \in Proc, Window!DomReady(p) PROVE Window!TypeOK'
  BY <1>0, <1>1, <1>6 DEF Window!DomReady, Window!TypeOK
<1>7. ASSUME NEW p \in Proc, Window!FinishLoad(p) PROVE Window!TypeOK'
  <2> DEFINE inbox == Append(proc[p].inbox, "start")
  <2>1. inbox \in S
    BY <1>1, <1>2
  <2>2. proc' = [proc EXCEPT ![p] = [proc[p] EXCEPT !.at = "open", !.inbox = inbox]]
    BY <1>7 DEF Window!FinishLoad
  <2> HIDE DEF inbox
  <2> QED
    BY <1>0, <1>1, <2>1, <2>2, ZenonT(40) DEF Window!TypeOK
<1>8. ASSUME NEW p \in Proc, Window!Receive(p) PROVE Window!TypeOK'
  <2> DEFINE inbox == Tail(proc[p].inbox)
             sdk == IF Head(proc[p].inbox) = "start" THEN "on"
                    ELSE IF proc[p].sdk = "on" THEN "stopped" ELSE proc[p].sdk
  <2>1. inbox \in S
    BY <1>1, <1>3, <1>8 DEF Window!Receive
  <2>2. sdk \in {"off", "on", "stopped"}
    BY <1>0, <1>1
  <2>3. proc' = [proc EXCEPT ![p] = [proc[p] EXCEPT !.inbox = inbox, !.sdk = sdk]]
    BY <1>8 DEF Window!Receive
  <2> HIDE DEF inbox, sdk
  <2>4. [proc[p] EXCEPT !.inbox = inbox, !.sdk = sdk] \in Window!ProcType
    BY <1>1, <2>1, <2>2, ProcChange DEF S
  <2> QED
    BY <2>3, <2>4 DEF Window!TypeOK
<1>9. ASSUME NEW p \in Proc, Window!Timeout(p) PROVE Window!TypeOK'
  BY <1>0, <1>1, <1>9, SMTT(30) DEF Window!Timeout, Window!TypeOK
<1>10. ASSUME NEW p \in Proc, Window!Quit(p) PROVE Window!TypeOK'
  <2>1. Window!NoProc \in Window!ProcType
    BY DEF Window!NoProc, Window!ProcType
  <2> QED
    BY <1>10, <2>1 DEF Window!Quit, Window!TypeOK
<1>11. ASSUME NEW p \in Proc, Window!Close(p) PROVE Window!TypeOK'
  <2> DEFINE inbox == IF proc[p].at = "load" THEN proc[p].inbox ELSE Append(proc[p].inbox, "exit")
             timers == proc[p].timers + 1
             late == proc[p].late \/ proc[p].at = "open"
  <2>1. inbox \in S /\ timers \in Nat /\ late \in BOOLEAN
    BY <1>1, <1>2
  <2>2. proc' = [proc EXCEPT ![p] = [proc[p] EXCEPT !.inbox = inbox, !.timers = timers, !.late = late]]
    BY <1>11 DEF Window!Close
  <2> HIDE DEF inbox, timers, late
  <2>3. [proc[p] EXCEPT !.inbox = inbox, !.timers = timers, !.late = late] \in Window!ProcType
    BY <1>1, <2>1, ProcChange DEF S
  <2> QED
    BY <2>2, <2>3 DEF Window!TypeOK
<1> QED
  BY <1>4, <1>5, <1>6, <1>7, <1>8, <1>9, <1>10, <1>11 DEF Window!Next, Window!Runs

\* As far as the processes are concerned, GameStart's steps are StreamWindow's.
LEMMA WindowStep ==
  ASSUME TypeOK, [Next]_vars
  PROVE  [Window!Next]_proc
<1>1. CASE UNCHANGED vars
  BY <1>1 DEF vars
<1>2. ASSUME NEW t \in Slot, NEW p \in Proc, startStream(t, p) PROVE Window!Next
  BY <1>2 DEF startStream, TypeOK, Stream, Window!Next
<1>3. CASE StreamRuns
  BY <1>3 DEF StreamRuns, StreamStep, Window!Next
<1>4. ASSUME NEW t \in Slot, UserSteps(t) PROVE UNCHANGED proc
  BY <1>4 DEF UserSteps, getGameDetailsInfo, appointmentGame, ClickStart, ConfirmStart
<1>5. ASSUME NEW t \in Slot,
             \/ Run(t) \/ StoreName(t) \/ StorePackage(t) \/ HandleAppointment(t) \/ HandleTime(t)
             \/ Serve(t) \/ Fail(t)
      PROVE  UNCHANGED proc
  BY <1>5 DEF Run, StoreName, StorePackage, HandleAppointment, HandleTime, Serve, Fail
<1>6. CASE CancelStart \/ (\E a \in Account \cup {None} : ChangeAccount(a)) \/ Restart
  BY <1>6 DEF CancelStart, ChangeAccount, Restart
<1> QED
  BY <1>1, <1>2, <1>3, <1>4, <1>5, <1>6 DEF Next, Worker

\* What the types say of the members that no thread or process is part of.
MemberTypes ==
  /\ account \in Account \cup {None}
  /\ m_startGameNoTips \in BOOLEAN
  /\ startPopup \in BOOLEAN
  /\ page \in Game \cup {None}
  /\ m_selectGameId \in Game \cup {None}
  /\ m_enablePlay \in BOOLEAN
  /\ m_enableStart \in BOOLEAN
  /\ m_packageName \in Game \cup {None}
  /\ m_appointmentStatus \in {"", "book", "cancel"}
  /\ booked \subseteq Account \X Game
  /\ acts \in 0..MaxActs
  /\ labelOf \in Account \cup {None}
  /\ doubtful \in BOOLEAN
  /\ started \in [Launched -> Nat]

ThreadTypes ==
  /\ thread \in [Slot -> ThreadType]
  /\ \A t \in Slot : thread[t].at = "free" => thread[t] = Free
  /\ Purposeful

LEMMA TypesAre == Types <=> MemberTypes /\ ThreadTypes /\ Window!TypeOK
BY DEF Types, TypeOK, MemberTypes, ThreadTypes

LEMMA ActsCount == ASSUME GameStartAssumption, Types, UserActs PROVE acts' \in 0..MaxActs
<1>1. MaxActs \in Nat
  BY DEF GameStartAssumption
<1>2. acts \in 0..MaxActs
  BY DEF Types, TypeOK
<1> QED
  BY <1>1, <1>2 DEF UserActs

LEMMA MembersNext ==
  ASSUME GameStartAssumption, Types, [Next]_vars
  PROVE  MemberTypes'
<1> USE TypesAre
<1>1. CASE UNCHANGED vars
  BY <1>1, ZenonT(40) DEF vars, settings, members, history, MemberTypes
<1>2. ASSUME NEW t \in Slot, NEW g \in Game, getGameDetailsInfo(t, g) PROVE MemberTypes'
  BY <1>2, ActsCount DEF getGameDetailsInfo, AsksLabel, Busy, settings, members, MemberTypes
<1>3. ASSUME NEW t \in Slot, appointmentGame(t) PROVE MemberTypes'
  BY <1>3, ActsCount DEF appointmentGame, AsksLabel, Busy, settings, members, MemberTypes
<1>4. ASSUME NEW t \in Slot, ClickStart(t) PROVE MemberTypes'
  BY <1>4, ActsCount DEF ClickStart, queryUserRemainTime, members, history, MemberTypes
<1>5. ASSUME NEW t \in Slot, NEW noTips \in BOOLEAN, ConfirmStart(t, noTips) PROVE MemberTypes'
  BY <1>5, ActsCount, ZenonT(60) DEF ConfirmStart, queryUserRemainTime, members, history, MemberTypes
<1>6. CASE CancelStart
  BY <1>6 DEF CancelStart, members, history, MemberTypes
<1>7. ASSUME NEW a \in Account \cup {None}, ChangeAccount(a) PROVE MemberTypes'
  BY <1>7, ActsCount, ZenonT(40) DEF ChangeAccount, settings, members, history, MemberTypes
<1>8. CASE Restart
  BY <1>8, ActsCount DEF Restart, MemberTypes
<1>9. ASSUME NEW t \in Slot, Run(t) PROVE MemberTypes'
  BY <1>9, ZenonT(40) DEF Run, settings, members, history, MemberTypes
<1>10. ASSUME NEW t \in Slot, Serve(t) PROVE MemberTypes'
  <2>1. thread[t].op = "appoint" => <<thread[t].user, thread[t].game>> \in Account \X Game
    BY <1>10 DEF Serve, ThreadTypes, ThreadType
  <2>2. booked \subseteq Account \X Game
    BY DEF MemberTypes
  <2> DEFINE booking == <<thread[t].user, thread[t].game>>
  <2>3. \/ booked' = booked
        \/ thread[t].op = "appoint" /\ booked' = booked \cup {booking}
        \/ booked' = booked \ {booking}
    BY <1>10 DEF Serve
  <2> HIDE DEF booking
  <2>4. thread[t].op = "appoint" => booking \in Account \X Game
    BY <2>1 DEF booking
  <2>5. booked' \subseteq Account \X Game
    <3> DEFINE Bookings == Account \X Game
    <3>1. booked \subseteq Bookings /\ (thread[t].op = "appoint" => booking \in Bookings)
      BY <2>2, <2>4
    <3> HIDE DEF Bookings
    <3>2. booked' \subseteq Bookings
      BY <2>3, <3>1
    <3> QED
      BY <3>2 DEF Bookings
  <2> QED
    BY <1>10, <2>5, ZenonT(40) DEF Serve, settings, members, history, MemberTypes
<1>11. ASSUME NEW t \in Slot, Fail(t) PROVE MemberTypes'
  BY <1>11 DEF Fail, settings, members, MemberTypes
<1>12. ASSUME NEW t \in Slot, StoreName(t) PROVE MemberTypes'
  <2>1. thread[t].user \in Account \cup {None} /\ thread[t].game \in Game \cup {None}
    BY DEF ThreadTypes, ThreadType
  <2>2. m_enablePlay' \in BOOLEAN /\ m_appointmentStatus' \in {"book", "cancel"}
    BY <1>12 DEF StoreName
  <2>3. m_selectGameId' \in Game \cup {None} /\ labelOf' \in Account \cup {None}
    BY <1>12, <2>1 DEF StoreName
  <2>4. UNCHANGED <<account, settings, page, m_enableStart, m_packageName, booked, acts, doubtful,
                    started>>
    BY <1>12 DEF StoreName
  <2> QED
    BY <2>2, <2>3, <2>4 DEF settings, MemberTypes
<1>13. ASSUME NEW t \in Slot, StorePackage(t) PROVE MemberTypes'
  <2>1. thread[t].game \in Game \cup {None}
    BY DEF ThreadTypes, ThreadType
  <2>2. m_enableStart' \in BOOLEAN /\ m_packageName' \in Game \cup {None}
    BY <1>13, <2>1 DEF StorePackage
  <2>3. UNCHANGED <<account, settings, page, m_selectGameId, m_enablePlay, m_appointmentStatus,
                    booked, acts, labelOf, doubtful, started>>
    BY <1>13 DEF StorePackage, history
  <2> QED
    BY <2>2, <2>3 DEF settings, MemberTypes
<1>14. ASSUME NEW t \in Slot, HandleAppointment(t) PROVE MemberTypes'
  <2>1. thread[t].user \in Account \cup {None}
    BY DEF ThreadTypes, ThreadType
  <2> QED
    BY <1>14, <2>1 DEF HandleAppointment, settings, MemberTypes
<1>15. ASSUME NEW t \in Slot, HandleTime(t) PROVE MemberTypes'
  BY <1>15, ZenonT(40) DEF HandleTime, settings, members, history, MemberTypes
<1>16. ASSUME NEW t \in Slot, NEW p \in Proc, startStream(t, p) PROVE MemberTypes'
  <2>1. started' \in [Launched -> Nat]
    <3> DEFINE launch == Launch(t)
    <3>1. started \in [Launched -> Nat]
      BY DEF MemberTypes
    <3>2. started' \in {started, [started EXCEPT ![launch] = @ + 1]}
      BY <1>16 DEF startStream
    <3> HIDE DEF launch
    <3> QED
      BY <3>1, <3>2
  <2> QED
    BY <1>16, <2>1, ZenonT(40) DEF startStream, settings, members, MemberTypes
<1>17. CASE StreamRuns
  BY <1>17, ZenonT(40) DEF StreamRuns, settings, members, history, MemberTypes
<1> QED
  BY <1>1, <1>2, <1>3, <1>4, <1>5, <1>6, <1>7, <1>8, <1>9, <1>10, <1>11, <1>12, <1>13, <1>14, <1>15,
     <1>16, <1>17 DEF Next, UserSteps, Worker

\* What is made of a request that is in flight.
Request(r) == r \in ThreadType /\ r.at # "free" /\ r.op # "none"

LEMMA RequestAt ==
  ASSUME NEW r \in ThreadType, r.op # "none",
         NEW at \in {"asked", "sent", "ok", "named"}
  PROVE  Request([r EXCEPT !.at = at])
BY DEF ThreadType, Request

LEMMA RequestAnswer ==
  ASSUME NEW r \in ThreadType, r.op # "none", NEW yes \in BOOLEAN
  PROVE  /\ Request([r EXCEPT !.at = "ok", !.yes = yes])
         /\ Request([r EXCEPT !.at = "replied", !.yes = yes])
BY DEF ThreadType, Request

LEMMA RequestToken ==
  ASSUME NEW r \in ThreadType, r.op # "none", NEW game \in Game \cup {None}
  PROVE  Request([r EXCEPT !.at = "token", !.game = game])
BY DEF ThreadType, Request

LEMMA RequestSent ==
  ASSUME NEW r \in ThreadType, r.op # "none", NEW user \in Account \cup {None},
         NEW game \in Game \cup {None}, NEW yes \in BOOLEAN
  PROVE  /\ Request([r EXCEPT !.at = "sent", !.user = user])
         /\ Request([r EXCEPT !.at = "sent", !.user = user, !.time = game])
         /\ Request([r EXCEPT !.at = "sent", !.user = user, !.game = game, !.yes = yes])
<1>1. Request([r EXCEPT !.at = "sent", !.user = user])
  BY DEF ThreadType, Request
<1>2. Request([r EXCEPT !.at = "sent", !.user = user, !.time = game])
  BY DEF ThreadType, Request
<1>3. Request([r EXCEPT !.at = "sent", !.user = user, !.game = game, !.yes = yes])
  BY DEF ThreadType, Request
<1> QED
  BY <1>1, <1>2, <1>3

\* A start that was just asked for.
StartAsked(lone) == [Asked("start", None) EXCEPT !.lone = lone]

LEMMA StartAskedType ==
  ASSUME NEW lone \in BOOLEAN
  PROVE  /\ StartAsked(lone) \in ThreadType
         /\ StartAsked(lone).at = "asked" /\ StartAsked(lone).op = "start"
         /\ StartAsked(lone).lone = lone
BY DEF StartAsked, Asked, Free, ThreadType

LEMMA StartAsks ==
  ASSUME NEW t \in Slot, queryUserRemainTime(t), thread' # thread
  PROVE  \E lone \in BOOLEAN : /\ Becomes(t, StartAsked(lone))
                               /\ lone => /\ page = m_selectGameId
                                          /\ page = m_packageName
                                          /\ m_packageName # None
<1> DEFINE lone == page = m_selectGameId /\ page = m_packageName
<1>1. Becomes(t, StartAsked(lone)) /\ m_packageName # None
  BY DEF queryUserRemainTime, StartAsked
<1>2. lone \in BOOLEAN
  OBVIOUS
<1> QED
  BY <1>1, <1>2

LEMMA ThreadsNext ==
  ASSUME GameStartAssumption, Types, [Next]_vars
  PROVE  ThreadTypes'
<1> USE TypesAre
<1>0. ASSUME UNCHANGED thread PROVE ThreadTypes'
  BY <1>0 DEF ThreadTypes, Purposeful
<1>a. ASSUME NEW t \in Slot, NEW r \in ThreadType, Becomes(t, r),
             r = Free \/ Request(r)
      PROVE  ThreadTypes'
  BY <1>a, SlotStep DEF ThreadTypes, Request
<1>b. ASSUME NEW t \in Slot, NEW r \in ThreadType, Selects(t, r),
             r = Free \/ Request(r)
      PROVE  ThreadTypes'
  BY <1>b, SelectsStep DEF ThreadTypes, Request
<1>c. ASSUME NEW t \in Slot, thread[t].at # "free"
      PROVE  thread[t] \in ThreadType /\ thread[t].op # "none"
  BY <1>c DEF ThreadTypes, Purposeful
<1>d. ASSUME NEW t \in Slot, queryUserRemainTime(t) PROVE ThreadTypes'
  BY <1>d, <1>0, <1>a, StartAsks, StartAskedType DEF Request
<1>1. CASE UNCHANGED vars
  BY <1>1, <1>0 DEF vars
<1>2. ASSUME NEW t \in Slot, NEW g \in Game, getGameDetailsInfo(t, g) PROVE ThreadTypes'
  BY <1>2, <1>a, AskedType DEF getGameDetailsInfo, Request
<1>3. ASSUME NEW t \in Slot, appointmentGame(t) PROVE ThreadTypes'
  BY <1>3, <1>a, AskedType DEF appointmentGame, Request
<1>4. ASSUME NEW t \in Slot, ClickStart(t) PROVE ThreadTypes'
  BY <1>4, <1>0, <1>d DEF ClickStart
<1>5. ASSUME NEW t \in Slot, NEW noTips \in BOOLEAN, ConfirmStart(t, noTips) PROVE ThreadTypes'
  BY <1>5, <1>d DEF ConfirmStart
<1>6. CASE CancelStart
  BY <1>6, <1>0 DEF CancelStart
<1>7. ASSUME NEW a \in Account \cup {None}, ChangeAccount(a) PROVE ThreadTypes'
  BY <1>7, <1>0 DEF ChangeAccount
<1>8. CASE Restart
  BY <1>8, FreeType DEF Restart, ThreadTypes, Purposeful
<1>9. ASSUME NEW t \in Slot, Run(t) PROVE ThreadTypes'
  <2>1. thread[t] \in ThreadType /\ thread[t].op # "none"
    BY <1>9, <1>c DEF Run
  <2>2. thread[t].op \in {"details", "appoint", "start"}
    BY <2>1 DEF ThreadType
  <2> DEFINE yes == m_appointmentStatus = "book"
  <2>3. account \in Account \cup {None} /\ m_selectGameId \in Game \cup {None} /\ yes \in BOOLEAN
    BY DEF MemberTypes
  <2>4. CASE thread[t].op = "details"
    <3>1. Becomes(t, [thread[t] EXCEPT !.at = "sent", !.user = account])
      BY <1>9, <2>4 DEF Run
    <3> QED
      BY <3>1, <2>1, <2>3, <1>a, RequestSent DEF Request
  <2>5. CASE thread[t].op = "appoint"
    <3>1. Becomes(t, [thread[t] EXCEPT !.at = "sent", !.user = account, !.game = m_selectGameId,
                                       !.yes = yes])
      BY <1>9, <2>5 DEF Run
    <3> HIDE DEF yes
    <3> QED
      BY <3>1, <2>1, <2>3, <1>a, RequestSent DEF Request
  <2>6. CASE thread[t].op = "start"
    <3>1. Becomes(t, [thread[t] EXCEPT !.at = "sent", !.user = account, !.time = m_selectGameId])
      BY <1>9, <2>6 DEF Run
    <3> QED
      BY <3>1, <2>1, <2>3, <1>a, RequestSent, ZenonT(40) DEF Request
  <2> QED
    BY <2>2, <2>4, <2>5, <2>6
<1>10. ASSUME NEW t \in Slot, Serve(t) PROVE ThreadTypes'
  <2>1. thread[t] \in ThreadType /\ thread[t].op # "none"
    BY <1>10, <1>c DEF Serve
  <2>2. CASE thread[t].at = "sent"
    <3> DEFINE yes == IF thread[t].op = "details" THEN <<thread[t].user, thread[t].game>> \in booked
                      ELSE thread[t].yes
    <3>1. Becomes(t, [thread[t] EXCEPT !.at = "ok", !.yes = yes])
      BY <1>10, <2>2 DEF Serve
    <3>2. yes \in BOOLEAN
      <4>1. thread[t].yes \in BOOLEAN
        BY <2>1 DEF ThreadType
      <4>2. (<<thread[t].user, thread[t].game>> \in booked) \in BOOLEAN
        OBVIOUS
      <4> QED
        BY <4>1, <4>2
    <3> HIDE DEF yes
    <3> QED
      BY <3>1, <3>2, <2>1, <1>a, RequestAnswer DEF Request
  <2>3. CASE thread[t].at = "token"
    <3>1. PICK yes \in BOOLEAN : Becomes(t, [thread[t] EXCEPT !.at = "replied", !.yes = yes])
      BY <1>10, <2>3 DEF Serve
    <3> QED
      BY <3>1, <2>1, <1>a, RequestAnswer DEF Request
  <2> QED
    BY <1>10, <2>2, <2>3 DEF Serve
<1>11. ASSUME NEW t \in Slot, Fail(t) PROVE ThreadTypes'
  BY <1>11, <1>a, FreeType DEF Fail
<1>12. ASSUME NEW t \in Slot, StoreName(t) PROVE ThreadTypes'
  <2>1. thread[t] \in ThreadType /\ thread[t].op # "none"
    BY <1>12, <1>c DEF StoreName
  <2>2. Selects(t, [thread[t] EXCEPT !.at = "named"])
    BY <1>12 DEF StoreName
  <2> QED
    BY <2>1, <2>2, <1>b, RequestAt DEF Request
<1>13. ASSUME NEW t \in Slot, StorePackage(t) PROVE ThreadTypes'
  BY <1>13, <1>b, FreeType DEF StorePackage
<1>14. ASSUME NEW t \in Slot, HandleAppointment(t) PROVE ThreadTypes'
  BY <1>14, <1>a, FreeType DEF HandleAppointment
<1>15. ASSUME NEW t \in Slot, HandleTime(t) PROVE ThreadTypes'
  <2>1. thread[t] \in ThreadType /\ thread[t].op # "none" /\ m_packageName \in Game \cup {None}
    BY <1>15, <1>c DEF HandleTime, MemberTypes
  <2>2. Becomes(t, [thread[t] EXCEPT !.at = "token", !.game = m_packageName])
    BY <1>15 DEF HandleTime
  <2> QED
    BY <2>1, <2>2, <1>a, RequestToken DEF Request
<1>16. ASSUME NEW t \in Slot, NEW p \in Proc, startStream(t, p) PROVE ThreadTypes'
  BY <1>16, <1>a, FreeType DEF startStream
<1>17. CASE StreamRuns
  BY <1>17, <1>0 DEF StreamRuns
<1> QED
  BY <1>1, <1>2, <1>3, <1>4, <1>5, <1>6, <1>7, <1>8, <1>9, <1>10, <1>11, <1>12, <1>13, <1>14, <1>15,
     <1>16, <1>17 DEF Next, UserSteps, Worker

LEMMA InitTypes == ASSUME GameStartAssumption, Init PROVE Types
<1>1. Window!TypeOK
  <2>1. Window!NoProc \in Window!ProcType
    BY DEF Window!NoProc, Window!ProcType
  <2> QED
    BY <2>1 DEF Init, Window!Init, Window!TypeOK
<1>2. MemberTypes
  <2>1. acts \in 0..MaxActs
    <3>1. acts = 0 /\ MaxActs \in Nat
      BY DEF Init, GameStartAssumption
    <3> QED
      BY <3>1
  <2>2. started \in [Launched -> Nat]
    BY DEF Init
  <2>3. booked \subseteq Account \X Game
    BY DEF Init
  <2> QED
    BY <2>1, <2>2, <2>3 DEF Init, MemberTypes
<1>3. ThreadTypes
  BY FreeType DEF Init, ThreadTypes, Purposeful
<1> QED
  BY <1>1, <1>2, <1>3, TypesAre

LEMMA NextTypes == ASSUME GameStartAssumption, Types, [Next]_vars PROVE Types'
<1>1. Window!TypeOK'
  <2>1. [Window!Next]_proc
    BY WindowStep DEF Types
  <2> QED
    BY <2>1, WindowTypes DEF Types, TypeOK, Window!TypeOK
<1> QED
  BY <1>1, MembersNext, ThreadsNext DEF Types, TypeOK, MemberTypes, ThreadTypes

-----------------------------------------------------------------------------
(* The streams *)

Message == {"start", "exit"}
Exits(q) == \A i \in 1..Len(q) : q[i] = "exit"
\* One start among exits, one of them behind it if the window was closed late.
StartIn(q, late) ==
  \E i \in 1..Len(q) : /\ q[i] = "start"
                       /\ \A j \in 1..Len(q) : j # i => q[j] = "exit"
                       /\ late => i < Len(q)

LEMMA ExitsGrow ==
  ASSUME NEW q \in Seq(Message), Exits(q)
  PROVE  Exits(Append(q, "exit")) /\ StartIn(Append(q, "start"), FALSE)
<1>1. Exits(Append(q, "exit"))
  BY DEF Exits, Message
<1>2. Len(q) + 1 \in 1..Len(Append(q, "start")) /\ Append(q, "start")[Len(q) + 1] = "start"
  BY DEF Message
<1>3. \A j \in 1..Len(Append(q, "start")) : j # Len(q) + 1 => Append(q, "start")[j] = "exit"
  BY DEF Exits, Message
<1> QED
  BY <1>1, <1>2, <1>3 DEF StartIn

LEMMA ExitsShrink ==
  ASSUME NEW q \in Seq(Message), Exits(q), q # <<>>
  PROVE  Head(q) = "exit" /\ Tail(q) \in Seq(Message) /\ Exits(Tail(q))
<1>1. Head(q) = q[1] /\ 1 \in 1..Len(q)
  OBVIOUS
<1>2. Tail(q) \in Seq(Message) /\ Len(Tail(q)) = Len(q) - 1
  OBVIOUS
<1>3. \A i \in 1..Len(Tail(q)) : Tail(q)[i] = q[i + 1] /\ i + 1 \in 1..Len(q)
  OBVIOUS
<1> QED
  BY <1>1, <1>2, <1>3 DEF Exits

LEMMA StartStays ==
  ASSUME NEW q \in Seq(Message), NEW late \in BOOLEAN, StartIn(q, late)
  PROVE  StartIn(Append(q, "exit"), TRUE)
<1>1. PICK i \in 1..Len(q) : q[i] = "start" /\ \A j \in 1..Len(q) : j # i => q[j] = "exit"
  BY DEF StartIn
<1> DEFINE a == Append(q, "exit")
<1>2. Len(a) = Len(q) + 1 /\ a[Len(q) + 1] = "exit" /\ \A j \in 1..Len(q) : a[j] = q[j]
  BY DEF Message
<1>3. Len(q) \in Nat
  OBVIOUS
<1> HIDE DEF a
<1>4. i \in 1..Len(a) /\ a[i] = "start" /\ i < Len(a)
  BY <1>1, <1>2, <1>3
<1>5. \A j \in 1..Len(a) : j # i => a[j] = "exit"
  BY <1>1, <1>2, <1>3
<1> QED
  BY <1>4, <1>5 DEF StartIn, a

LEMMA StartTaken ==
  ASSUME NEW q \in Seq(Message), NEW late \in BOOLEAN, StartIn(q, late)
  PROVE  /\ q # <<>> /\ Tail(q) \in Seq(Message) /\ Head(q) \in Message
         /\ Head(q) = "start" => Exits(Tail(q)) /\ (late => Tail(q) # <<>>)
         /\ Head(q) # "start" => StartIn(Tail(q), late)
<1>1. PICK i \in 1..Len(q) : /\ q[i] = "start"
                             /\ \A j \in 1..Len(q) : j # i => q[j] = "exit"
                             /\ late => i < Len(q)
  BY DEF StartIn
<1>2. q # <<>>
  BY <1>1
<1>3. Head(q) = q[1] /\ Head(q) \in Message /\ Len(q) \in Nat
  BY <1>2
<1> DEFINE r == Tail(q)
<1>4. r \in Seq(Message) /\ Len(r) = Len(q) - 1
  BY <1>2
<1>5. \A j \in 1..Len(r) : r[j] = q[j + 1] /\ j + 1 \in 1..Len(q)
  BY <1>2
<1>6. Len(<<>>) = 0
  OBVIOUS
<1> HIDE DEF r
<1>7. ASSUME Head(q) = "start" PROVE Exits(r) /\ (late => r # <<>>)
  <2>1. i = 1
    BY <1>1, <1>3, <1>7
  <2> QED
    BY <2>1, <1>1, <1>3, <1>4, <1>5, <1>6 DEF Exits
<1>8. ASSUME Head(q) # "start" PROVE StartIn(r, late)
  <2>1. i # 1
    BY <1>1, <1>3, <1>8
  <2>2. i - 1 \in 1..Len(r) /\ r[i - 1] = "start" /\ (late => i - 1 < Len(r))
    BY <2>1, <1>1, <1>3, <1>4, <1>5
  <2>3. \A j \in 1..Len(r) : j # i - 1 => r[j] = "exit"
    BY <1>1, <1>3, <1>4, <1>5
  <2> QED
    BY <2>2, <2>3 DEF StartIn
<1> QED
  BY <1>2, <1>3, <1>4, <1>7, <1>8 DEF r

\* What may be on its way to the page of process r, how far its game is, and
\* that a late close has a message on its way until the game has stopped.
PageGood(r) ==
  /\ r.at = "boot" => r.inbox = <<>> /\ r.sdk = "off"
  /\ r.at \in {"none", "boot", "load", "dom", "refused"} => ~r.late
  /\ r.at = "load" => r.inbox = <<>> /\ r.sdk = "off"
  /\ r.at = "dom" => Exits(r.inbox) /\ r.sdk = "off"
  /\ r.at = "open" =>
       \/ r.sdk = "off" /\ StartIn(r.inbox, r.late)
       \/ r.sdk = "on" /\ Exits(r.inbox) /\ (r.late => r.inbox # <<>>)
       \/ r.sdk = "stopped" /\ Exits(r.inbox)
  /\ r.at = "destroyed" /\ r.late => r.sdk = "stopped"

WindowInv == Window!OneWindow /\ \A p \in Proc : PageGood(proc[p])

\* One process changes, without getting a window that it had not.
LEMMA ProcStep ==
  ASSUME Window!TypeOK, WindowInv, NEW p \in Proc, NEW r, PageGood(r),
         proc' = [proc EXCEPT ![p] = r],
         r.at \in {"load", "dom", "open"}
           => Window!HasWindow(p) \/ \A q \in Proc \ {p} : ~Window!HasWindow(q)
  PROVE  WindowInv'
<1>1. proc'[p] = r /\ \A q \in Proc \ {p} : proc'[q] = proc[q]
  BY DEF Window!TypeOK
<1>2. \A q \in Proc : PageGood(proc'[q])
  BY <1>1 DEF WindowInv
<1>3. Window!OneWindow'
  BY <1>1 DEF WindowInv, Window!OneWindow, Window!HasWindow
<1> QED
  BY <1>2, <1>3 DEF WindowInv

LEMMA WindowInit == Window!Init => WindowInv
BY DEF Window!Init, Window!NoProc, WindowInv, Window!OneWindow, Window!HasWindow, PageGood

LEMMA WindowNext ==
  ASSUME Window!TypeOK, WindowInv, Window!Next
  PROVE  WindowInv'
<1> DEFINE Goes(p, r) == proc' = [proc EXCEPT ![p] = r]
<1>0. \A p \in Proc : PageGood(proc[p]) /\ proc[p] \in Window!ProcType
                      /\ proc[p].inbox \in Seq(Message) /\ proc[p].late \in BOOLEAN
  BY DEF WindowInv, Window!TypeOK, Window!ProcType, Message
<1>1. ASSUME NEW p \in Proc, NEW stream \in Stream, Window!Spawn(p, stream) PROVE WindowInv'
  <2> DEFINE r == [proc[p] EXCEPT !.at = "boot", !.stream = stream]
  <2>1. Goes(p, r) /\ r.at = "boot" /\ PageGood(r)
    <3>1. Goes(p, r) /\ proc[p] = Window!NoProc
      BY <1>1 DEF Window!Spawn
    <3>2. r.at = "boot" /\ r.inbox = <<>> /\ r.sdk = "off" /\ r.late = FALSE
      BY <3>1 DEF Window!NoProc
    <3> HIDE DEF r
    <3> QED
      BY <3>1, <3>2 DEF PageGood
  <2> QED
    BY <2>1, ProcStep
<1>2. ASSUME NEW p \in Proc, Window!createWindow(p) PROVE WindowInv'
  <2>1. CASE \E q \in Proc \ {p} : Window!HasLock(q)
    <3> DEFINE r == [proc[p] EXCEPT !.at = "refused"]
    <3>1. Goes(p, r) /\ r.at = "refused" /\ PageGood(r)
      BY <1>0, <1>2, <2>1 DEF Window!createWindow, Window!ProcType, PageGood
    <3> QED
      BY <3>1, ProcStep
  <2>2. CASE ~\E q \in Proc \ {p} : Window!HasLock(q)
    <3> DEFINE r == [proc[p] EXCEPT !.at = "load"]
    <3>1. Goes(p, r) /\ PageGood(r)
      BY <1>0, <1>2, <2>2 DEF Window!createWindow, Window!ProcType, PageGood
    <3>2. \A q \in Proc \ {p} : ~Window!HasWindow(q)
      BY <2>2 DEF Window!HasLock
    <3> QED
      BY <3>1, <3>2, ProcStep
  <2> QED
    BY <2>1, <2>2
<1>3. ASSUME NEW p \in Proc, Window!DomReady(p) PROVE WindowInv'
  <2> DEFINE r == [proc[p] EXCEPT !.at = "dom"]
  <2>1. Goes(p, r) /\ PageGood(r) /\ Window!HasWindow(p)
    BY <1>0, <1>3 DEF Window!DomReady, Window!HasWindow, Window!ProcType, PageGood, Exits
  <2> QED
    BY <2>1, ProcStep
<1>4. ASSUME NEW p \in Proc, Window!FinishLoad(p) PROVE WindowInv'
  <2> DEFINE inbox == Append(proc[p].inbox, "start")
             r == [proc[p] EXCEPT !.at = "open", !.inbox = inbox]
  <2>1. Exits(proc[p].inbox) /\ proc[p].sdk = "off" /\ proc[p].late = FALSE
    BY <1>0, <1>4 DEF Window!FinishLoad, PageGood
  <2>2. StartIn(inbox, FALSE)
    BY <1>0, <2>1, ExitsGrow
  <2>3. Goes(p, r) /\ Window!HasWindow(p)
    BY <1>4 DEF Window!FinishLoad, Window!HasWindow
  <2> HIDE DEF inbox
  <2>4. r.at = "open" /\ r.inbox = inbox /\ r.sdk = "off" /\ r.late = FALSE
    BY <1>0, <2>1 DEF Window!ProcType
  <2>5. PageGood(r)
    BY <2>2, <2>4 DEF PageGood
  <2> QED
    BY <2>3, <2>5, ProcStep
<1>5. ASSUME NEW p \in Proc, Window!Receive(p) PROVE WindowInv'
  <2> DEFINE inbox == Tail(proc[p].inbox)
             sdk == IF Head(proc[p].inbox) = "start" THEN "on"
                    ELSE IF proc[p].sdk = "on" THEN "stopped" ELSE proc[p].sdk
             r == [proc[p] EXCEPT !.inbox = inbox, !.sdk = sdk]
  <2>1. Goes(p, r) /\ Window!HasWindow(p) /\ proc[p].inbox # <<>>
    BY <1>5 DEF Window!Receive
  <2>2. r.at = proc[p].at /\ r.inbox = inbox /\ r.sdk = sdk /\ r.late = proc[p].late
    BY <1>0 DEF Window!ProcType
  <2>3. proc[p].at \in {"dom", "open"}
    BY <1>0, <2>1 DEF Window!HasWindow, PageGood
  <2>4. CASE proc[p].at = "dom"
    <3>1. Exits(inbox) /\ sdk = "off"
      BY <1>0, <2>1, <2>4, ExitsShrink DEF PageGood
    <3> HIDE DEF r, inbox, sdk
    <3> QED
      BY <1>0, <2>1, <2>2, <2>4, <3>1, ProcStep DEF PageGood
  <2>5. CASE proc[p].at = "open" /\ proc[p].sdk = "off"
    <3>1. StartIn(proc[p].inbox, proc[p].late)
      BY <1>0, <2>5 DEF PageGood
    <3>2. \/ sdk = "on" /\ Exits(inbox) /\ (proc[p].late => inbox # <<>>)
          \/ sdk = "off" /\ StartIn(inbox, proc[p].late)
      BY <1>0, <2>5, <3>1, StartTaken
    <3> HIDE DEF r, inbox, sdk
    <3>3. PageGood(r)
      BY <2>2, <2>5, <3>2 DEF PageGood
    <3> QED
      BY <2>1, <3>3, ProcStep
  <2>6. CASE proc[p].at = "open" /\ proc[p].sdk # "off"
    <3>1. Exits(proc[p].inbox) /\ proc[p].sdk \in {"on", "stopped"}
      BY <1>0, <2>6 DEF PageGood
    <3>2. sdk = "stopped" /\ Exits(inbox)
      BY <1>0, <2>1, <3>1, ExitsShrink
    <3> HIDE DEF r, inbox, sdk
    <3>3. PageGood(r)
      BY <2>2, <2>6, <3>2 DEF PageGood
    <3> QED
      BY <2>1, <3>3, ProcStep
  <2> QED
    BY <2>3, <2>4, <2>5, <2>6
<1>6. ASSUME NEW p \in Proc, Window!Timeout(p) PROVE WindowInv'
  <2> DEFINE r == [proc[p] EXCEPT !.at = "destroyed"]
  <2>1. Goes(p, r) /\ proc[p].inbox = <<>> /\ Window!HasWindow(p)
    BY <1>6 DEF Window!Timeout
  <2>2. r.at = "destroyed" /\ r.sdk = proc[p].sdk /\ r.late = proc[p].late
    BY <1>0 DEF Window!ProcType
  <2>3. ~StartIn(<<>>, proc[p].late)
    BY DEF StartIn
  <2>4. proc[p].late => proc[p].sdk = "stopped"
    BY <1>0, <2>1, <2>3 DEF Window!HasWindow, PageGood
  <2> HIDE DEF r
  <2>5. PageGood(r)
    BY <2>2, <2>4 DEF PageGood
  <2> QED
    BY <2>1, <2>2, <2>5, ProcStep
<1>7. ASSUME NEW p \in Proc, Window!Quit(p) PROVE WindowInv'
  <2>1. Goes(p, Window!NoProc) /\ Window!NoProc.at = "none" /\ PageGood(Window!NoProc)
    BY <1>7 DEF Window!Quit, Window!NoProc, PageGood
  <2> QED
    BY <2>1, ProcStep
<1>8. ASSUME NEW p \in Proc, Window!Close(p) PROVE WindowInv'
  <2> DEFINE inbox == IF proc[p].at = "load" THEN proc[p].inbox ELSE Append(proc[p].inbox, "exit")
             late == proc[p].late \/ proc[p].at = "open"
             r == [proc[p] EXCEPT !.inbox = inbox, !.timers = proc[p].timers + 1, !.late = late]
  <2>1. Goes(p, r) /\ Window!HasWindow(p)
    BY <1>8 DEF Window!Close
  <2>2. r.at = proc[p].at /\ r.inbox = inbox /\ r.sdk = proc[p].sdk /\ r.late = late
    BY <1>0 DEF Window!ProcType
  <2>3. CASE proc[p].at = "load"
    <3>1. inbox = <<>> /\ ~late /\ proc[p].sdk = "off"
      BY <1>0, <2>3 DEF PageGood
    <3> HIDE DEF r, inbox, late
    <3>2. PageGood(r)
      BY <2>2, <2>3, <3>1 DEF PageGood
    <3> QED
      BY <2>1, <3>2, ProcStep
  <2>4. CASE proc[p].at = "dom"
    <3>1. Exits(inbox) /\ ~late /\ proc[p].sdk = "off"
      BY <1>0, <2>4, ExitsGrow DEF PageGood
    <3> HIDE DEF r, inbox, late
    <3>2. PageGood(r)
      BY <2>2, <2>4, <3>1 DEF PageGood
    <3> QED
      BY <2>1, <3>2, ProcStep
  <2>5. CASE proc[p].at = "open"
    <3>1. late = TRUE /\ inbox = Append(proc[p].inbox, "exit") /\ inbox # <<>>
      BY <1>0, <2>5 DEF Message
    <3>2. \/ proc[p].sdk = "off" /\ StartIn(inbox, TRUE)
          \/ proc[p].sdk \in {"on", "stopped"} /\ Exits(inbox)
      <4>1. CASE proc[p].sdk = "off"
        BY <1>0, <2>5, <3>1, <4>1, StartStays DEF PageGood
      <4>2. CASE proc[p].sdk # "off"
        BY <1>0, <2>5, <3>1, <4>2, ExitsGrow DEF PageGood
      <4> QED
        BY <4>1, <4>2
    <3> HIDE DEF r, inbox, late
    <3>3. PageGood(r)
      BY <2>2, <2>5, <3>1, <3>2 DEF PageGood
    <3> QED
      BY <2>1, <3>3, ProcStep
  <2> QED
    BY <2>1, <2>3, <2>4, <2>5 DEF Window!HasWindow
<1> QED
  BY <1>1, <1>2, <1>3, <1>4, <1>5, <1>6, <1>7, <1>8 DEF Window!Next, Window!Runs

-----------------------------------------------------------------------------
(* Starts *)

\* What a start from its own game's page knows as long as no other game is
\* selected: the package is the game's, and so is whatever it has asked for.
LoneGood(r) ==
  r.op = "start" /\ r.lone =>
    /\ m_packageName = m_selectGameId
    /\ m_packageName \in Game
    /\ r.at \in {"sent", "ok", "token", "replied"} => r.time = m_selectGameId
    /\ r.at \in {"token", "replied"} => r.game = m_packageName

LoneInv ==
  /\ m_packageName \notin Bare
  /\ \A t \in Slot : LoneGood(thread[t])

LEMMA LoneInit == ASSUME GameStartAssumption, Init PROVE LoneInv
BY FreeType DEF GameStartAssumption, Init, LoneInv, LoneGood

\* One request changes, and what is selected does not.
LEMMA LoneStep ==
  ASSUME Types, LoneInv, NEW t \in Slot, NEW r, Becomes(t, r), LoneGood(r),
         UNCHANGED <<m_selectGameId, m_packageName>>
  PROVE  LoneInv'
<1>1. thread'[t] = r /\ \A s \in Slot \ {t} : thread'[s] = thread[s]
  BY DEF Types, TypeOK, Becomes
<1> QED
  BY <1>1 DEF LoneInv, LoneGood

\* A game is selected: a start that is still lone afterwards was so before, and
\* that game was selected.
LEMMA SelectsLone ==
  ASSUME Types, NEW t \in Slot, NEW r, Selects(t, r), NEW s \in Slot, s # t
  PROVE  /\ thread'[s].op = thread[s].op /\ thread'[s].at = thread[s].at
         /\ thread'[s].time = thread[s].time /\ thread'[s].game = thread[s].game
         /\ thread'[s].yes = thread[s].yes
         /\ thread'[s].lone => thread[s].lone /\ m_selectGameId = thread[t].game
         /\ thread'[s].lone \in BOOLEAN
<1>1. thread'[s] = [thread[s] EXCEPT !.lone = @ /\ m_selectGameId = thread[t].game]
  BY DEF Selects
<1>2. thread[s] \in ThreadType
  BY DEF Types, TypeOK
<1>3. thread'[s].lone = (thread[s].lone /\ m_selectGameId = thread[t].game)
  BY <1>1, <1>2 DEF ThreadType
<1>4. /\ thread'[s].op = thread[s].op /\ thread'[s].at = thread[s].at
      /\ thread'[s].time = thread[s].time /\ thread'[s].game = thread[s].game
      /\ thread'[s].yes = thread[s].yes
  BY <1>1, <1>2 DEF ThreadType
<1> QED
  BY <1>3, <1>4

LEMMA LoneNext ==
  ASSUME GameStartAssumption, Types, LoneInv, [Next]_vars
  PROVE  LoneInv'
<1> DEFINE Kept == UNCHANGED <<m_selectGameId, m_packageName>>
<1>0. ASSUME UNCHANGED thread, Kept PROVE LoneInv'
  BY <1>0 DEF LoneInv, LoneGood
<1>f. LoneGood(Free)
  BY FreeType DEF LoneGood
<1>t. \A t \in Slot : thread[t] \in ThreadType /\ LoneGood(thread[t])
  BY DEF Types, TypeOK, LoneInv
<1>d. ASSUME NEW t \in Slot, queryUserRemainTime(t), Kept PROVE LoneInv'
  <2>1. CASE thread' = thread
    BY <2>1, <1>d, <1>0
  <2>2. CASE thread' # thread
    <3>1. PICK lone \in BOOLEAN : /\ Becomes(t, StartAsked(lone))
                                  /\ lone => /\ page = m_selectGameId
                                             /\ page = m_packageName
                                             /\ m_packageName # None
      BY <2>2, <1>d, StartAsks
    <3>2. LoneGood(StartAsked(lone))
      BY <3>1, StartAskedType DEF LoneGood, Types, TypeOK
    <3> QED
      BY <3>1, <3>2, <1>d, LoneStep
  <2> QED
    BY <2>1, <2>2
<1>1. CASE UNCHANGED vars
  BY <1>1, <1>0 DEF vars, members
<1>2. ASSUME NEW t \in Slot, NEW g \in Game, getGameDetailsInfo(t, g) PROVE LoneInv'
  <2>1. LoneGood(Asked("details", g)) /\ Becomes(t, Asked("details", g)) /\ Kept
    BY <1>2, AskedType DEF getGameDetailsInfo, members, LoneGood
  <2> QED
    BY <2>1, LoneStep
<1>3. ASSUME NEW t \in Slot, appointmentGame(t) PROVE LoneInv'
  <2>1. LoneGood(Asked("appoint", None)) /\ Becomes(t, Asked("appoint", None)) /\ Kept
    BY <1>3, AskedType DEF appointmentGame, members, LoneGood
  <2> QED
    BY <2>1, LoneStep
<1>4. ASSUME NEW t \in Slot, ClickStart(t) PROVE LoneInv'
  BY <1>4, <1>0, <1>d DEF ClickStart, members
<1>5. ASSUME NEW t \in Slot, NEW noTips \in BOOLEAN, ConfirmStart(t, noTips) PROVE LoneInv'
  BY <1>5, <1>d DEF ConfirmStart, members
<1>6. CASE CancelStart
  BY <1>6, <1>0 DEF CancelStart, members
<1>7. ASSUME NEW a \in Account \cup {None}, ChangeAccount(a) PROVE LoneInv'
  BY <1>7, <1>0 DEF ChangeAccount, members
<1>8. CASE Restart
  BY <1>8, FreeType DEF Restart, LoneInv, LoneGood, GameStartAssumption
<1>9. ASSUME NEW t \in Slot, Run(t) PROVE LoneInv'
  <2>1. Kept
    BY <1>9 DEF Run, members
  <2>2. thread[t].op \in {"details", "appoint", "start"} /\ thread[t].at = "asked"
    BY <1>9, <1>t DEF Run, ThreadType, Types, Purposeful
  <2> DEFINE yes == m_appointmentStatus = "book"
             r1 == [thread[t] EXCEPT !.at = "sent", !.user = account]
             r2 == [thread[t] EXCEPT !.at = "sent", !.user = account, !.game = m_selectGameId,
                                     !.yes = yes]
             r3 == [thread[t] EXCEPT !.at = "sent", !.user = account, !.time = m_selectGameId]
  <2>3. CASE thread[t].op = "details"
    <3>1. Becomes(t, r1)
      BY <1>9, <2>3 DEF Run
    <3>2. r1.op = "details"
      BY <1>t, <2>3 DEF ThreadType
    <3> HIDE DEF r1
    <3> QED
      BY <2>1, <3>1, <3>2, LoneStep DEF LoneGood
  <2>4. CASE thread[t].op = "appoint"
    <3>1. Becomes(t, r2)
      BY <1>9, <2>4 DEF Run
    <3>2. r2.op = "appoint"
      BY <1>t, <2>4 DEF ThreadType
    <3> HIDE DEF r2
    <3> QED
      BY <2>1, <3>1, <3>2, LoneStep DEF LoneGood
  <2>5. CASE thread[t].op = "start"
    <3>1. Becomes(t, r3)
      BY <1>9, <2>5 DEF Run
    <3>2. r3.op = "start" /\ r3.at = "sent" /\ r3.time = m_selectGameId /\ r3.lone = thread[t].lone
      BY <1>t, <2>5 DEF ThreadType
    <3> HIDE DEF r3
    <3>3. LoneGood(r3)
      BY <1>t, <2>5, <3>2 DEF LoneGood
    <3> QED
      BY <2>1, <3>1, <3>3, LoneStep
  <2> QED
    BY <2>2, <2>3, <2>4, <2>5
<1>10. ASSUME NEW t \in Slot, Serve(t) PROVE LoneInv'
  <2>1. Kept
    BY <1>10 DEF Serve, members
  <2>2. CASE thread[t].at = "sent"
    <3> DEFINE yes == IF thread[t].op = "details" THEN <<thread[t].user, thread[t].game>> \in booked
                      ELSE thread[t].yes
               r == [thread[t] EXCEPT !.at = "ok", !.yes = yes]
    <3>1. Becomes(t, r)
      BY <1>10, <2>2 DEF Serve
    <3>2. r.op = thread[t].op /\ r.lone = thread[t].lone /\ r.at = "ok" /\ r.time = thread[t].time
      BY <1>t DEF ThreadType
    <3> HIDE DEF r
    <3>3. LoneGood(r)
      BY <1>t, <2>2, <3>2 DEF LoneGood
    <3> QED
      BY <2>1, <3>1, <3>3, LoneStep
  <2>3. CASE thread[t].at = "token"
    <3>0. PICK yes \in BOOLEAN : Becomes(t, [thread[t] EXCEPT !.at = "replied", !.yes = yes])
      BY <1>10, <2>3 DEF Serve
    <3> DEFINE r == [thread[t] EXCEPT !.at = "replied", !.yes = yes]
    <3>1. Becomes(t, r)
      BY <3>0
    <3>2. /\ r.op = thread[t].op /\ r.lone = thread[t].lone /\ r.at = "replied"
          /\ r.time = thread[t].time /\ r.game = thread[t].game
      BY <1>t DEF ThreadType
    <3> HIDE DEF r
    <3>3. LoneGood(r)
      BY <1>t, <2>3, <3>2 DEF LoneGood
    <3> QED
      BY <2>1, <3>1, <3>3, LoneStep
  <2> QED
    BY <1>10, <2>2, <2>3 DEF Serve
<1>11. ASSUME NEW t \in Slot, Fail(t) PROVE LoneInv'
  BY <1>11, <1>f, LoneStep DEF Fail, members
<1>12. ASSUME NEW t \in Slot, StoreName(t) PROVE LoneInv'
  <2> DEFINE r == [thread[t] EXCEPT !.at = "named"]
  <2>1. /\ m_selectGameId' = thread[t].game /\ m_packageName' = m_packageName
        /\ Selects(t, r) /\ thread[t].op = "details"
    BY <1>12 DEF StoreName
  <2>2. thread'[t].op = "details"
    <3>1. thread'[t] = r
      BY <2>1 DEF Selects
    <3> QED
      BY <3>1, <2>1, <1>t DEF ThreadType
  <2>3. ASSUME NEW s \in Slot, s # t PROVE LoneGood(thread[s])'
    BY <2>1, <2>3, <1>t, SelectsLone DEF LoneGood
  <2> QED
    BY <2>1, <2>2, <2>3 DEF LoneInv, LoneGood
<1>13. ASSUME NEW t \in Slot, StorePackage(t) PROVE LoneInv'
  <2>1. /\ m_selectGameId' = m_selectGameId /\ Selects(t, Free)
        /\ m_packageName' = IF thread[t].game \in Bare THEN None ELSE thread[t].game
    BY <1>13 DEF StorePackage
  <2>2. thread'[t] = Free
    BY <2>1 DEF Selects
  <2>3. ASSUME NEW s \in Slot, s # t PROVE LoneGood(thread[s])'
    BY <2>1, <2>3, <1>t, SelectsLone DEF LoneGood, LoneInv
  <2>4. m_packageName' \notin Bare
    BY <2>1 DEF GameStartAssumption
  <2> QED
    BY <2>2, <2>3, <2>4, FreeType DEF LoneInv, LoneGood
<1>14. ASSUME NEW t \in Slot, HandleAppointment(t) PROVE LoneInv'
  BY <1>14, <1>f, LoneStep DEF HandleAppointment
<1>15. ASSUME NEW t \in Slot, HandleTime(t) PROVE LoneInv'
  <2> DEFINE r == [thread[t] EXCEPT !.at = "token", !.game = m_packageName]
  <2>1. Becomes(t, r) /\ Kept /\ thread[t].at = "ok"
    BY <1>15 DEF HandleTime, members
  <2>2. /\ r.op = thread[t].op /\ r.lone = thread[t].lone /\ r.at = "token"
        /\ r.time = thread[t].time /\ r.game = m_packageName
    BY <1>t DEF ThreadType
  <2> HIDE DEF r
  <2>3. LoneGood(r)
    BY <1>t, <2>1, <2>2 DEF LoneGood
  <2> QED
    BY <2>1, <2>3, LoneStep
<1>16. ASSUME NEW t \in Slot, NEW p \in Proc, startStream(t, p) PROVE LoneInv'
  BY <1>16, <1>f, LoneStep DEF startStream, members
<1>17. CASE StreamRuns
  BY <1>17, <1>0 DEF StreamRuns, members
<1> QED
  BY <1>1, <1>2, <1>3, <1>4, <1>5, <1>6, <1>7, <1>8, <1>9, <1>10, <1>11, <1>12, <1>13, <1>14, <1>15,
     <1>16, <1>17 DEF Next, UserSteps, Worker

-----------------------------------------------------------------------------
(* The permit *)

\* What checkedFor and repliedTo make of one request.
CheckedBy(r) == IF (r.op = "start" /\ r.lone) /\ r.at \in {"ok", "token", "replied"} THEN r.time
                ELSE None
RepliedBy(r) == IF (r.op = "start" /\ r.lone) /\ r.at = "replied"
                THEN [game |-> r.game, token |-> r.yes] ELSE None

LEMMA PermitMaps ==
  /\ checkedFor = [s \in Slot |-> CheckedBy(thread[s])]
  /\ repliedTo = [s \in Slot |-> RepliedBy(thread[s])]
  /\ checkedFor' = [s \in Slot |-> CheckedBy(thread'[s])]
  /\ repliedTo' = [s \in Slot |-> RepliedBy(thread'[s])]
BY DEF checkedFor, repliedTo, Lone, CheckedBy, RepliedBy

LEMMA PermitInit == Init => Permit!Init
BY PermitMaps, FreeType
DEF Init, Permit!Init, Permit!Launch, Launched, CheckedBy, RepliedBy

\* One request changes.
LEMMA PermitStep ==
  ASSUME Types, NEW t \in Slot, NEW r, Becomes(t, r)
  PROVE  /\ checkedFor' = [checkedFor EXCEPT ![t] = CheckedBy(r)]
         /\ repliedTo' = [repliedTo EXCEPT ![t] = RepliedBy(r)]
         /\ checkedFor[t] = CheckedBy(thread[t])
         /\ repliedTo[t] = RepliedBy(thread[t])
<1>1. thread'[t] = r /\ \A s \in Slot \ {t} : thread'[s] = thread[s]
  BY DEF Types, TypeOK, Becomes
<1> QED
  BY <1>1, PermitMaps

\* ... to what makes no difference to the permit,
LEMMA PermitSame ==
  ASSUME Types, NEW t \in Slot, NEW r, Becomes(t, r), UNCHANGED started,
         CheckedBy(r) = CheckedBy(thread[t]), RepliedBy(r) = RepliedBy(thread[t])
  PROVE  UNCHANGED Permit!vars
<1>1. /\ checkedFor' = [checkedFor EXCEPT ![t] = checkedFor[t]]
      /\ repliedTo' = [repliedTo EXCEPT ![t] = repliedTo[t]]
  BY PermitStep
<1>2. checkedFor' = checkedFor /\ repliedTo' = repliedTo
  BY <1>1, PermitMaps
<1> QED
  BY <1>2 DEF Permit!vars

\* ... or one or more requests come to nothing.
LEMMA PermitDrop ==
  ASSUME UNCHANGED started, NEW D \in SUBSET Slot,
         \A s \in Slot : \/ s \in D /\ CheckedBy(thread'[s]) = None /\ RepliedBy(thread'[s]) = None
                         \/ /\ s \notin D
                            /\ CheckedBy(thread'[s]) = CheckedBy(thread[s])
                            /\ RepliedBy(thread'[s]) = RepliedBy(thread[s])
  PROVE  Permit!Next
<1>1. checkedFor' = [s \in Slot |-> IF s \in D THEN None ELSE checkedFor[s]]
  BY PermitMaps
<1>2. repliedTo' = [s \in Slot |-> IF s \in D THEN None ELSE repliedTo[s]]
  BY PermitMaps
<1>3. Permit!Drop(D)
  BY <1>1, <1>2 DEF Permit!Drop
<1> QED
  BY <1>3 DEF Permit!Next

\* A game is selected: the starts that are not lone any more are dropped.
LEMMA PermitSelects ==
  ASSUME Types, NEW t \in Slot, NEW r, Selects(t, r), UNCHANGED started,
         CheckedBy(r) = None, RepliedBy(r) = None
  PROVE  Permit!Next
<1> DEFINE D == {s \in Slot : s = t \/ m_selectGameId # thread[t].game}
<1>1. thread'[t] = r
  BY DEF Selects
<1>2. ASSUME NEW s \in Slot, s # t, m_selectGameId = thread[t].game
      PROVE  CheckedBy(thread'[s]) = CheckedBy(thread[s]) /\ RepliedBy(thread'[s]) = RepliedBy(thread[s])
  <2>1. thread'[s] = [thread[s] EXCEPT !.lone = @ /\ m_selectGameId = thread[t].game]
    BY <1>2 DEF Selects
  <2>2. thread[s] \in ThreadType
    BY DEF Types, TypeOK
  <2>3. thread'[s].lone <=> thread[s].lone
    BY <1>2, <2>1, <2>2 DEF ThreadType
  <2> QED
    BY <1>2, <2>3, SelectsLone DEF CheckedBy, RepliedBy
<1>3. ASSUME NEW s \in Slot, s # t, m_selectGameId # thread[t].game
      PROVE  CheckedBy(thread'[s]) = None /\ RepliedBy(thread'[s]) = None
  BY <1>3, SelectsLone DEF CheckedBy, RepliedBy
<1>4. D \in SUBSET Slot
  OBVIOUS
<1>5. \A s \in Slot : \/ s \in D /\ CheckedBy(thread'[s]) = None /\ RepliedBy(thread'[s]) = None
                      \/ /\ s \notin D
                         /\ CheckedBy(thread'[s]) = CheckedBy(thread[s])
                         /\ RepliedBy(thread'[s]) = RepliedBy(thread[s])
  BY <1>1, <1>2, <1>3
<1> HIDE DEF D
<1> QED
  BY <1>4, <1>5, PermitDrop

LEMMA PermitNext ==
  ASSUME GameStartAssumption, Types, LoneInv, [Next]_vars
  PROVE  [Permit!Next]_(Permit!vars)
<1> DEFINE Goal == [Permit!Next]_(Permit!vars)
<1>0. ASSUME UNCHANGED <<thread, started>> PROVE Goal
  BY <1>0, PermitMaps DEF Permit!vars
<1>f. CheckedBy(Free) = None /\ RepliedBy(Free) = None
  BY FreeType DEF CheckedBy, RepliedBy
<1>t. \A t \in Slot : thread[t] \in ThreadType /\ LoneGood(thread[t])
  BY DEF Types, TypeOK, LoneInv
<1>d. ASSUME NEW t \in Slot, queryUserRemainTime(t), UNCHANGED started PROVE Goal
  <2>1. CASE thread' = thread
    BY <2>1, <1>d, <1>0
  <2>2. CASE thread' # thread
    <3>1. PICK lone \in BOOLEAN : Becomes(t, StartAsked(lone))
      BY <2>2, <1>d, StartAsks
    <3>2. thread[t] = Free
      BY <2>2, <1>d DEF queryUserRemainTime
    <3>3. CheckedBy(StartAsked(lone)) = None /\ RepliedBy(StartAsked(lone)) = None
      BY StartAskedType DEF CheckedBy, RepliedBy
    <3> QED
      BY <3>1, <3>2, <3>3, <1>d, <1>f, PermitSame
  <2> QED
    BY <2>1, <2>2
<1>1. CASE UNCHANGED vars
  BY <1>1, <1>0 DEF vars, history
<1>2. ASSUME NEW t \in Slot, NEW g \in Game, getGameDetailsInfo(t, g) PROVE Goal
  <2>1. /\ Becomes(t, Asked("details", g)) /\ thread[t] = Free /\ UNCHANGED started
        /\ CheckedBy(Asked("details", g)) = None /\ RepliedBy(Asked("details", g)) = None
    BY <1>2, AskedType DEF getGameDetailsInfo, CheckedBy, RepliedBy
  <2> QED
    BY <2>1, <1>f, PermitSame
<1>3. ASSUME NEW t \in Slot, appointmentGame(t) PROVE Goal
  <2>1. /\ Becomes(t, Asked("appoint", None)) /\ thread[t] = Free /\ UNCHANGED started
        /\ CheckedBy(Asked("appoint", None)) = None /\ RepliedBy(Asked("appoint", None)) = None
    BY <1>3, AskedType DEF appointmentGame, CheckedBy, RepliedBy
  <2> QED
    BY <2>1, <1>f, PermitSame
<1>4. ASSUME NEW t \in Slot, ClickStart(t) PROVE Goal
  BY <1>4, <1>0, <1>d DEF ClickStart, history
<1>5. ASSUME NEW t \in Slot, NEW noTips \in BOOLEAN, ConfirmStart(t, noTips) PROVE Goal
  BY <1>5, <1>d DEF ConfirmStart, history
<1>6. CASE CancelStart
  BY <1>6, <1>0 DEF CancelStart, history
<1>7. ASSUME NEW a \in Account \cup {None}, ChangeAccount(a) PROVE Goal
  BY <1>7, <1>0 DEF ChangeAccount, history
<1>8. CASE Restart
  <2>1. \A s \in Slot : thread'[s] = Free
    BY <1>8 DEF Restart
  <2>2. UNCHANGED started
    BY <1>8 DEF Restart
  <2> QED
    BY <2>1, <2>2, <1>f, PermitDrop
<1>9. ASSUME NEW t \in Slot, Run(t) PROVE Goal
  <2>1. thread[t].at = "asked" /\ UNCHANGED started
    BY <1>9 DEF Run, history
  <2>2. thread[t].op \in {"details", "appoint", "start"}
    BY <2>1, <1>t DEF ThreadType, Types, Purposeful
  <2> DEFINE yes == m_appointmentStatus = "book"
             r1 == [thread[t] EXCEPT !.at = "sent", !.user = account]
             r2 == [thread[t] EXCEPT !.at = "sent", !.user = account, !.game = m_selectGameId,
                                     !.yes = yes]
             r3 == [thread[t] EXCEPT !.at = "sent", !.user = account, !.time = m_selectGameId]
  <2>3. r1.at = "sent" /\ r2.at = "sent" /\ r3.at = "sent"
    BY <1>t DEF ThreadType
  <2>4. Becomes(t, r1) \/ Becomes(t, r2) \/ Becomes(t, r3)
    BY <1>9, <2>2 DEF Run
  <2> HIDE DEF r1, r2, r3
  <2> QED
    BY <2>1, <2>3, <2>4, PermitSame DEF CheckedBy, RepliedBy
<1>10. ASSUME NEW t \in Slot, Serve(t) PROVE Goal
  <2>0. UNCHANGED started
    BY <1>10 DEF Serve, history
  <2>1. CASE thread[t].at = "sent"
    <3> DEFINE yes == IF thread[t].op = "details" THEN <<thread[t].user, thread[t].game>> \in booked
                      ELSE thread[t].yes
               r == [thread[t] EXCEPT !.at = "ok", !.yes = yes]
    <3>1. Becomes(t, r)
      BY <1>10, <2>1 DEF Serve
    <3>2. r.op = thread[t].op /\ r.lone = thread[t].lone /\ r.at = "ok" /\ r.time = thread[t].time
      BY <1>t DEF ThreadType
    <3> HIDE DEF r
    <3>3. CASE thread[t].op = "start" /\ thread[t].lone
      <4>1. CheckedBy(r) = m_selectGameId /\ RepliedBy(r) = None /\ m_selectGameId \in Game
        BY <1>t, <2>1, <3>2, <3>3 DEF CheckedBy, RepliedBy, LoneGood
      <4>2. CheckedBy(thread[t]) = None /\ RepliedBy(thread[t]) = None
        BY <2>1 DEF CheckedBy, RepliedBy
      <4>3. repliedTo' = [repliedTo EXCEPT ![t] = repliedTo[t]]
        BY <3>1, <4>1, <4>2, PermitStep
      <4>4. repliedTo' = repliedTo
        BY <4>3, PermitMaps
      <4>5. Permit!Check(t, m_selectGameId)
        BY <2>0, <3>1, <4>1, <4>2, <4>4, PermitStep DEF Permit!Check
      <4> QED
        BY <4>1, <4>5 DEF Permit!Next
    <3>4. CASE ~(thread[t].op = "start" /\ thread[t].lone)
      BY <2>0, <3>1, <3>2, <3>4, PermitSame DEF CheckedBy, RepliedBy
    <3> QED
      BY <3>3, <3>4
  <2>2. CASE thread[t].at = "token"
    <3>0. PICK yes \in BOOLEAN : Becomes(t, [thread[t] EXCEPT !.at = "replied", !.yes = yes])
      BY <1>10, <2>2 DEF Serve
    <3> DEFINE r == [thread[t] EXCEPT !.at = "replied", !.yes = yes]
               launch == [game |-> m_packageName, token |-> yes]
    <3>1. Becomes(t, r)
      BY <3>0
    <3>2. /\ r.op = thread[t].op /\ r.lone = thread[t].lone /\ r.at = "replied"
          /\ r.time = thread[t].time /\ r.game = thread[t].game /\ r.yes = yes
      BY <1>t DEF ThreadType
    <3> HIDE DEF r
    <3>3. CASE thread[t].op = "start" /\ thread[t].lone
      <4>1. /\ CheckedBy(r) = m_packageName /\ m_packageName \in Game
            /\ CheckedBy(thread[t]) = m_packageName /\ RepliedBy(thread[t]) = None
            /\ r.game = m_packageName
        BY <1>t, <2>2, <3>2, <3>3 DEF CheckedBy, RepliedBy, LoneGood
      <4>5. RepliedBy(r) = launch
        BY <3>2, <3>3, <4>1 DEF RepliedBy
      <4>6. launch \in Permit!Launch /\ launch.game = m_packageName
        BY <4>1 DEF Permit!Launch
      <4> HIDE DEF launch
      <4>2. checkedFor' = [checkedFor EXCEPT ![t] = checkedFor[t]]
        BY <3>1, <4>1, PermitStep
      <4>3. checkedFor' = checkedFor
        BY <4>2, PermitMaps
      <4>4. Permit!Reply(t, launch)
        BY <2>0, <3>1, <4>1, <4>3, <4>5, <4>6, PermitStep DEF Permit!Reply
      <4> QED
        BY <4>4, <4>6 DEF Permit!Next
    <3>4. CASE ~(thread[t].op = "start" /\ thread[t].lone)
      BY <2>0, <3>1, <3>2, <3>4, PermitSame DEF CheckedBy, RepliedBy
    <3> QED
      BY <3>3, <3>4
  <2> QED
    BY <1>10, <2>1, <2>2 DEF Serve
<1>11. ASSUME NEW t \in Slot, Fail(t) PROVE Goal
  <2>1. Becomes(t, Free) /\ UNCHANGED started
    BY <1>11 DEF Fail
  <2>2. thread'[t] = Free /\ \A s \in Slot \ {t} : thread'[s] = thread[s]
    BY <2>1 DEF Becomes, Types, TypeOK
  <2>3. {t} \in SUBSET Slot
    OBVIOUS
  <2>4. \A s \in Slot :
          \/ s \in {t} /\ CheckedBy(thread'[s]) = None /\ RepliedBy(thread'[s]) = None
          \/ /\ s \notin {t}
             /\ CheckedBy(thread'[s]) = CheckedBy(thread[s])
             /\ RepliedBy(thread'[s]) = RepliedBy(thread[s])
    BY <2>2, <1>f
  <2> QED
    BY <2>1, <2>3, <2>4, PermitDrop
<1>12. ASSUME NEW t \in Slot, StoreName(t) PROVE Goal
  <2> DEFINE r == [thread[t] EXCEPT !.at = "named"]
  <2>1. Selects(t, r) /\ UNCHANGED started
    BY <1>12 DEF StoreName
  <2>2. r.at = "named"
    BY <1>t DEF ThreadType
  <2>3. CheckedBy(r) = None /\ RepliedBy(r) = None
    BY <2>2 DEF CheckedBy, RepliedBy
  <2> QED
    BY <2>1, <2>3, PermitSelects
<1>13. ASSUME NEW t \in Slot, StorePackage(t) PROVE Goal
  BY <1>13, <1>f, PermitSelects DEF StorePackage, history
<1>14. ASSUME NEW t \in Slot, HandleAppointment(t) PROVE Goal
  <2>1. Becomes(t, Free) /\ UNCHANGED started /\ thread[t].op = "appoint"
    BY <1>14 DEF HandleAppointment
  <2> QED
    BY <2>1, <1>f, PermitSame DEF CheckedBy, RepliedBy
<1>15. ASSUME NEW t \in Slot, HandleTime(t) PROVE Goal
  <2> DEFINE r == [thread[t] EXCEPT !.at = "token", !.game = m_packageName]
  <2>1. Becomes(t, r) /\ thread[t].at = "ok" /\ UNCHANGED started
    BY <1>15 DEF HandleTime, history
  <2>2. /\ r.op = thread[t].op /\ r.lone = thread[t].lone /\ r.at = "token"
        /\ r.time = thread[t].time
    BY <1>t DEF ThreadType
  <2> HIDE DEF r
  <2> QED
    BY <2>1, <2>2, PermitSame DEF CheckedBy, RepliedBy
<1>16. ASSUME NEW t \in Slot, NEW p \in Proc, startStream(t, p) PROVE Goal
  <2>1. Becomes(t, Free) /\ thread[t].at = "replied"
    BY <1>16 DEF startStream
  <2>2. CASE thread[t].op = "start" /\ thread[t].lone
    <3> DEFINE launch == Launch(t)
    <3>1. started' = [started EXCEPT ![launch] = @ + 1]
      BY <1>16, <2>2 DEF startStream, Lone
    <3>2. thread[t].game = m_packageName /\ m_packageName \in Game /\ thread[t].yes \in BOOLEAN
      BY <1>t, <2>1, <2>2 DEF LoneGood, ThreadType
    <3>3. launch \in Permit!Launch
      BY <3>2 DEF Launch, Permit!Launch
    <3>4. RepliedBy(thread[t]) = launch
      BY <2>1, <2>2, <3>2 DEF RepliedBy, Launch
    <3> HIDE DEF launch
    <3>5. Permit!Start(t, launch)
      BY <2>1, <3>1, <3>4, <1>f, PermitStep DEF Permit!Start
    <3> QED
      BY <3>3, <3>5 DEF Permit!Next
  <2>3. CASE ~(thread[t].op = "start" /\ thread[t].lone)
    <3>1. UNCHANGED started
      BY <1>16, <2>3 DEF startStream, Lone
    <3> QED
      BY <2>1, <2>3, <3>1, <1>f, PermitSame DEF CheckedBy, RepliedBy
  <2> QED
    BY <2>2, <2>3
<1>17. CASE StreamRuns
  BY <1>17, <1>0 DEF StreamRuns, history
<1> QED
  BY <1>1, <1>2, <1>3, <1>4, <1>5, <1>6, <1>7, <1>8, <1>9, <1>10, <1>11, <1>12, <1>13, <1>14, <1>15,
     <1>16, <1>17 DEF Next, UserSteps, Worker

-----------------------------------------------------------------------------
(* What is asked for, and how far that gets *)

Staged(r) ==
  /\ r.at = "named" => r.op = "details"
  /\ r.at \in {"token", "replied"} => r.op = "start"

StageInv == \A t \in Slot : Staged(thread[t])

LEMMA StageInit == Init => StageInv
BY FreeType DEF Init, StageInv, Staged

LEMMA StageStep ==
  ASSUME Types, StageInv, NEW t \in Slot, NEW r, Becomes(t, r), Staged(r)
  PROVE  StageInv'
<1>1. \A s \in Slot : thread'[s] = IF s = t THEN r ELSE thread[s]
  BY DEF Types, TypeOK, Becomes
<1> QED
  BY <1>1 DEF StageInv, Staged

LEMMA StageNext ==
  ASSUME GameStartAssumption, Types, StageInv, [Next]_vars
  PROVE  StageInv'
<1>0. ASSUME UNCHANGED thread PROVE StageInv'
  BY <1>0 DEF StageInv, Staged
<1>f. Staged(Free)
  BY FreeType DEF Staged
<1>t. \A t \in Slot : thread[t] \in ThreadType
  BY DEF Types, TypeOK
<1>d. ASSUME NEW t \in Slot, queryUserRemainTime(t) PROVE StageInv'
  <2>1. \A lone \in BOOLEAN : Staged(StartAsked(lone))
    BY StartAskedType DEF Staged
  <2> QED
    BY <2>1, <1>d, <1>0, StartAsks, StageStep
<1>1. CASE UNCHANGED vars
  BY <1>1, <1>0 DEF vars
<1>2. ASSUME NEW t \in Slot, NEW g \in Game, getGameDetailsInfo(t, g) PROVE StageInv'
  BY <1>2, AskedType, StageStep DEF getGameDetailsInfo, Staged
<1>3. ASSUME NEW t \in Slot, appointmentGame(t) PROVE StageInv'
  BY <1>3, AskedType, StageStep DEF appointmentGame, Staged
<1>4. ASSUME NEW t \in Slot, ClickStart(t) PROVE StageInv'
  BY <1>4, <1>0, <1>d DEF ClickStart
<1>5. ASSUME NEW t \in Slot, NEW noTips \in BOOLEAN, ConfirmStart(t, noTips) PROVE StageInv'
  BY <1>5, <1>d DEF ConfirmStart
<1>6. CASE CancelStart
  BY <1>6, <1>0 DEF CancelStart
<1>7. ASSUME NEW a \in Account \cup {None}, ChangeAccount(a) PROVE StageInv'
  BY <1>7, <1>0 DEF ChangeAccount
<1>8. CASE Restart
  BY <1>8, <1>f DEF Restart, StageInv
<1>9. ASSUME NEW t \in Slot, Run(t) PROVE StageInv'
  <2> DEFINE yes == m_appointmentStatus = "book"
             r1 == [thread[t] EXCEPT !.at = "sent", !.user = account]
             r2 == [thread[t] EXCEPT !.at = "sent", !.user = account, !.game = m_selectGameId,
                                     !.yes = yes]
             r3 == [thread[t] EXCEPT !.at = "sent", !.user = account, !.time = m_selectGameId]
  <2>1. thread[t].op \in {"details", "appoint", "start"}
    BY <1>9, <1>t DEF Run, ThreadType, Types, Purposeful
  <2>2. Becomes(t, r1) \/ Becomes(t, r2) \/ Becomes(t, r3)
    BY <1>9, <2>1 DEF Run
  <2>3. r1.at = "sent" /\ r2.at = "sent" /\ r3.at = "sent"
    BY <1>t DEF ThreadType
  <2> HIDE DEF r1, r2, r3
  <2> QED
    BY <2>2, <2>3, StageStep DEF Staged
<1>10. ASSUME NEW t \in Slot, Serve(t) PROVE StageInv'
  <2> DEFINE r1(b) == [thread[t] EXCEPT !.at = "ok", !.yes = b]
             r2(b) == [thread[t] EXCEPT !.at = "replied", !.yes = b]
             yes == <<thread[t].user, thread[t].game>> \in booked
  <2>1. \/ Becomes(t, r1(yes)) \/ Becomes(t, r1(thread[t].yes))
        \/ thread[t].at = "token" /\ \E b \in BOOLEAN : Becomes(t, r2(b))
    BY <1>10 DEF Serve
  <2>2. ASSUME NEW b PROVE r1(b).at = "ok"
    BY <1>t DEF ThreadType
  <2>3. ASSUME NEW b PROVE r2(b).at = "replied" /\ r2(b).op = thread[t].op
    BY <1>t DEF ThreadType
  <2> HIDE DEF r1, r2, yes
  <2>4. CASE Becomes(t, r1(yes)) \/ Becomes(t, r1(thread[t].yes))
    BY <2>2, <2>4, StageStep DEF Staged
  <2>5. CASE thread[t].at = "token" /\ \E b \in BOOLEAN : Becomes(t, r2(b))
    BY <2>3, <2>5, StageStep DEF StageInv, Staged
  <2> QED
    BY <2>1, <2>4, <2>5
<1>11. ASSUME NEW t \in Slot, Fail(t) PROVE StageInv'
  BY <1>11, <1>f, StageStep DEF Fail
<1>s. ASSUME NEW t \in Slot, NEW r, Selects(t, r), Staged(r) PROVE StageInv'
  <2>1. thread'[t] = r
    BY <1>s DEF Selects
  <2>2. \A s \in Slot \ {t} : thread'[s].op = thread[s].op /\ thread'[s].at = thread[s].at
    BY <1>s, SelectsLone
  <2> QED
    BY <1>s, <2>1, <2>2 DEF StageInv, Staged
<1>12. ASSUME NEW t \in Slot, StoreName(t) PROVE StageInv'
  <2> DEFINE r == [thread[t] EXCEPT !.at = "named"]
  <2>1. Selects(t, r) /\ thread[t].op = "details"
    BY <1>12 DEF StoreName
  <2>2. r.at = "named" /\ r.op = "details"
    BY <2>1, <1>t DEF ThreadType
  <2> HIDE DEF r
  <2> QED
    BY <2>1, <2>2, <1>s DEF Staged
<1>13. ASSUME NEW t \in Slot, StorePackage(t) PROVE StageInv'
  BY <1>13, <1>f, <1>s DEF StorePackage
<1>14. ASSUME NEW t \in Slot, HandleAppointment(t) PROVE StageInv'
  BY <1>14, <1>f, StageStep DEF HandleAppointment
<1>15. ASSUME NEW t \in Slot, HandleTime(t) PROVE StageInv'
  <2> DEFINE r == [thread[t] EXCEPT !.at = "token", !.game = m_packageName]
  <2>1. Becomes(t, r) /\ thread[t].op = "start"
    BY <1>15 DEF HandleTime
  <2>2. r.at = "token" /\ r.op = "start"
    BY <2>1, <1>t DEF ThreadType
  <2> HIDE DEF r
  <2> QED
    BY <2>1, <2>2, StageStep DEF Staged
<1>16. ASSUME NEW t \in Slot, NEW p \in Proc, startStream(t, p) PROVE StageInv'
  BY <1>16, <1>f, StageStep DEF startStream
<1>17. CASE StreamRuns
  BY <1>17, <1>0 DEF StreamRuns
<1> QED
  BY <1>1, <1>2, <1>3, <1>4, <1>5, <1>6, <1>7, <1>8, <1>9, <1>10, <1>11, <1>12, <1>13, <1>14, <1>15,
     <1>16, <1>17 DEF Next, UserSteps, Worker

-----------------------------------------------------------------------------
(* The label *)

LabelOp(r) == r.op \in {"details", "appoint"}

\* The label says what the service would do.
LabelFits ==
  m_selectGameId # None => (m_appointmentStatus = "cancel") = (<<labelOf, m_selectGameId>> \in booked)

\* What the one request for the label knows, on its way.
LabelGood(r) ==
  /\ r.op = "details" /\ r.at = "ok" => r.yes = (<<r.user, r.game>> \in booked)
  /\ r.op = "details" /\ r.at = "named" => LabelFits
  /\ r.op = "appoint" /\ r.at \in {"sent", "ok"} => r.game = m_selectGameId
  /\ r.op = "appoint" /\ r.at = "ok" => r.yes = (<<r.user, r.game>> \in booked)

LabelInv ==
  ~doubtful =>
    /\ \A s, t \in Slot : LabelOp(thread[s]) /\ LabelOp(thread[t]) => s = t
    /\ (\A t \in Slot : ~LabelOp(thread[t])) => LabelFits
    /\ \A t \in Slot : LabelOp(thread[t]) => LabelGood(thread[t])

LEMMA LabelInit == Init => LabelInv
BY FreeType DEF Init, LabelInv, LabelOp, LabelFits

\* A request that is not for the label changes.
LEMMA LabelOther ==
  ASSUME Types, LabelInv, NEW t \in Slot, NEW r, Becomes(t, r),
         ~LabelOp(thread[t]), ~LabelOp(r),
         UNCHANGED <<m_selectGameId, m_appointmentStatus, labelOf, booked, doubtful>>
  PROVE  LabelInv'
<1>1. thread'[t] = r /\ \A s \in Slot \ {t} : thread'[s] = thread[s]
  BY DEF Types, TypeOK, Becomes
<1> QED
  BY <1>1 DEF LabelInv, LabelOp, LabelFits, LabelGood

\* The request for the label changes, or begins when there is no other.
LEMMA LabelStep ==
  ASSUME Types, NEW t \in Slot, NEW r, thread'[t] = r,
         \A s \in Slot \ {t} : thread'[s].op = thread[s].op,
         ~doubtful' => \A s \in Slot \ {t} : ~LabelOp(thread[s]),
         ~doubtful' => IF LabelOp(r) THEN LabelGood(thread[t])' ELSE LabelFits'
  PROVE  LabelInv'
<1> SUFFICES ASSUME ~doubtful' PROVE LabelInv'
  BY DEF LabelInv
<1>1. \A s \in Slot \ {t} : ~LabelOp(thread'[s])
  BY DEF LabelOp
<1>2. \A s \in Slot : LabelOp(thread'[s]) => s = t
  BY <1>1
<1>3. LabelOp(thread'[t]) => LabelGood(thread[t])'
  BY DEF LabelGood, LabelFits
<1>4. (\A s \in Slot : ~LabelOp(thread'[s])) => LabelFits'
  OBVIOUS
<1> QED
  BY <1>2, <1>3, <1>4 DEF LabelInv, LabelOp

\* As long as nothing is in doubt, the request for the label is the only one.
LEMMA LabelAlone ==
  ASSUME LabelInv, ~doubtful, NEW t \in Slot, LabelOp(thread[t])
  PROVE  LabelGood(thread[t]) /\ \A s \in Slot \ {t} : ~LabelOp(thread[s])
BY DEF LabelInv

LEMMA LabelNext ==
  ASSUME GameStartAssumption, Types, StageInv, LabelInv, [Next]_vars
  PROVE  LabelInv'
<1> DEFINE Kept == UNCHANGED <<m_selectGameId, m_appointmentStatus, labelOf, booked, doubtful>>
<1>0. ASSUME UNCHANGED thread, Kept PROVE LabelInv'
  BY <1>0 DEF LabelInv, LabelOp, LabelFits, LabelGood
<1>f. ~LabelOp(Free)
  BY FreeType DEF LabelOp
<1>t. \A t \in Slot : thread[t] \in ThreadType
  BY DEF Types, TypeOK
<1>o. ASSUME NEW t \in Slot, NEW r, Becomes(t, r)
      PROVE  thread'[t] = r /\ \A s \in Slot \ {t} : thread'[s] = thread[s]
  BY <1>o DEF Types, TypeOK, Becomes
<1>d. ASSUME NEW t \in Slot, queryUserRemainTime(t), Kept PROVE LabelInv'
  <2>1. CASE thread' = thread
    BY <2>1, <1>d, <1>0
  <2>2. CASE thread' # thread
    <3>1. PICK lone \in BOOLEAN : Becomes(t, StartAsked(lone))
      BY <2>2, <1>d, StartAsks
    <3>2. thread[t] = Free
      BY <2>2, <1>d DEF queryUserRemainTime
    <3>3. ~LabelOp(StartAsked(lone))
      BY StartAskedType DEF LabelOp
    <3> QED
      BY <3>1, <3>2, <3>3, <1>d, <1>f, LabelOther
  <2> QED
    BY <2>1, <2>2
<1>1. CASE UNCHANGED vars
  BY <1>1, <1>0 DEF vars, members, history
<1>2. ASSUME NEW t \in Slot, NEW g \in Game, getGameDetailsInfo(t, g) PROVE LabelInv'
  <2>1. ~doubtful' => \A s \in Slot : ~LabelOp(thread[s])
    BY <1>2 DEF getGameDetailsInfo, AsksLabel, Busy, LabelOp
  <2>2. Becomes(t, Asked("details", g))
    BY <1>2 DEF getGameDetailsInfo
  <2>3. LabelOp(Asked("details", g)) /\ LabelGood(thread[t])'
    BY <2>2, <1>o, AskedType DEF LabelOp, LabelGood
  <2> QED
    BY <2>1, <2>2, <2>3, <1>o, LabelStep
<1>3. ASSUME NEW t \in Slot, appointmentGame(t) PROVE LabelInv'
  <2>1. ~doubtful' => \A s \in Slot : ~LabelOp(thread[s])
    BY <1>3 DEF appointmentGame, AsksLabel, Busy, LabelOp
  <2>2. Becomes(t, Asked("appoint", None))
    BY <1>3 DEF appointmentGame
  <2>3. LabelOp(Asked("appoint", None)) /\ LabelGood(thread[t])'
    BY <2>2, <1>o, AskedType DEF LabelOp, LabelGood
  <2> QED
    BY <2>1, <2>2, <2>3, <1>o, LabelStep
<1>4. ASSUME NEW t \in Slot, ClickStart(t) PROVE LabelInv'
  BY <1>4, <1>0, <1>d DEF ClickStart, members, history
<1>5. ASSUME NEW t \in Slot, NEW noTips \in BOOLEAN, ConfirmStart(t, noTips) PROVE LabelInv'
  BY <1>5, <1>d DEF ConfirmStart, members, history
<1>6. CASE CancelStart
  BY <1>6, <1>0 DEF CancelStart, members, history
<1>7. ASSUME NEW a \in Account \cup {None}, ChangeAccount(a) PROVE LabelInv'
  BY <1>7, <1>0 DEF ChangeAccount, members, history
<1>8. CASE Restart
  <2>1. m_selectGameId' = None /\ \A s \in Slot : thread'[s] = Free
    BY <1>8 DEF Restart
  <2> QED
    BY <2>1, <1>f DEF LabelInv, LabelFits, LabelOp
<1>9. ASSUME NEW t \in Slot, Run(t) PROVE LabelInv'
  <2>1. Kept
    BY <1>9 DEF Run, members, history
  <2>2. thread[t].op \in {"details", "appoint", "start"} /\ thread[t].at = "asked"
    BY <1>9, <1>t DEF Run, ThreadType, Types, Purposeful
  <2> DEFINE yes == m_appointmentStatus = "book"
             r1 == [thread[t] EXCEPT !.at = "sent", !.user = account]
             r2 == [thread[t] EXCEPT !.at = "sent", !.user = account, !.game = m_selectGameId,
                                     !.yes = yes]
             r3 == [thread[t] EXCEPT !.at = "sent", !.user = account, !.time = m_selectGameId]
  <2>3. CASE thread[t].op = "details"
    <3>1. Becomes(t, r1)
      BY <1>9, <2>3 DEF Run
    <3>2. r1.op = "details" /\ r1.at = "sent"
      BY <1>t, <2>3 DEF ThreadType
    <3> HIDE DEF r1
    <3>3. LabelOp(r1) /\ LabelOp(thread[t]) /\ LabelGood(thread[t])'
      BY <2>3, <3>1, <3>2, <1>o DEF LabelOp, LabelGood
    <3> QED
      BY <2>1, <3>1, <3>3, <1>o, LabelStep, LabelAlone
  <2>4. CASE thread[t].op = "appoint"
    <3>1. Becomes(t, r2)
      BY <1>9, <2>4 DEF Run
    <3>2. r2.op = "appoint" /\ r2.at = "sent" /\ r2.game = m_selectGameId
      BY <1>t, <2>4 DEF ThreadType
    <3> HIDE DEF r2
    <3>3. LabelOp(r2) /\ LabelOp(thread[t]) /\ LabelGood(thread[t])'
      BY <2>1, <2>4, <3>1, <3>2, <1>o DEF LabelOp, LabelGood
    <3> QED
      BY <2>1, <3>1, <3>3, <1>o, LabelStep, LabelAlone
  <2>5. CASE thread[t].op = "start"
    <3>1. Becomes(t, r3)
      BY <1>9, <2>5 DEF Run
    <3>2. r3.op = "start"
      BY <1>t, <2>5 DEF ThreadType
    <3> HIDE DEF r3
    <3> QED
      BY <2>1, <2>5, <3>1, <3>2, LabelOther DEF LabelOp
  <2> QED
    BY <2>2, <2>3, <2>4, <2>5
<1>10. ASSUME NEW t \in Slot, Serve(t) PROVE LabelInv'
  <2>0. UNCHANGED <<m_selectGameId, m_appointmentStatus, labelOf, doubtful>>
    BY <1>10 DEF Serve, members, history
  <2>1. CASE thread[t].op = "start"
    <3> DEFINE r1 == [thread[t] EXCEPT !.at = "ok", !.yes = thread[t].yes]
               r2(b) == [thread[t] EXCEPT !.at = "replied", !.yes = b]
    <3>1. booked' = booked
      BY <1>10, <2>1 DEF Serve
    <3>2. Becomes(t, r1) \/ \E b \in BOOLEAN : Becomes(t, r2(b))
      BY <1>10, <2>1 DEF Serve
    <3>3. r1.op = "start" /\ \A b : r2(b).op = "start"
      BY <1>t, <2>1 DEF ThreadType
    <3> HIDE DEF r1, r2
    <3> QED
      BY <2>0, <2>1, <3>1, <3>2, <3>3, LabelOther DEF LabelOp
  <2>2. CASE thread[t].op = "details" /\ thread[t].at = "sent"
    <3> DEFINE yes == <<thread[t].user, thread[t].game>> \in booked
               r == [thread[t] EXCEPT !.at = "ok", !.yes = yes]
    <3>1. Becomes(t, r) /\ booked' = booked
      BY <1>10, <2>2 DEF Serve
    <3>2. r.op = "details" /\ r.at = "ok" /\ r.yes = yes /\ r.user = thread[t].user
          /\ r.game = thread[t].game
      BY <1>t, <2>2 DEF ThreadType
    <3>3. r.yes = (<<r.user, r.game>> \in booked')
      BY <3>1, <3>2
    <3> HIDE DEF r, yes
    <3>4. LabelOp(r) /\ LabelOp(thread[t]) /\ LabelGood(thread[t])'
      BY <2>2, <3>1, <3>2, <3>3, <1>o DEF LabelOp, LabelGood
    <3> QED
      BY <2>0, <3>1, <3>4, <1>o, LabelStep, LabelAlone
  <2>3. CASE thread[t].op = "appoint" /\ thread[t].at = "sent"
    <3> DEFINE r == [thread[t] EXCEPT !.at = "ok", !.yes = thread[t].yes]
               booking == <<thread[t].user, thread[t].game>>
    <3>1. /\ Becomes(t, r)
          /\ booked' = IF thread[t].yes THEN booked \cup {booking} ELSE booked \ {booking}
      BY <1>10, <2>3 DEF Serve
    <3>2. /\ r.op = "appoint" /\ r.at = "ok" /\ r.yes = thread[t].yes /\ r.yes \in BOOLEAN
          /\ r.user = thread[t].user /\ r.game = thread[t].game
      BY <1>t, <2>3 DEF ThreadType
    <3>3. r.yes = (booking \in booked')
      <4> HIDE DEF booking, r
      <4>1. CASE r.yes
        BY <4>1, <3>1, <3>2
      <4>2. CASE ~r.yes
        BY <4>2, <3>1, <3>2
      <4> QED
        BY <4>1, <4>2
    <3>4. r.yes = (<<r.user, r.game>> \in booked')
      BY <3>2, <3>3
    <3>5. ~doubtful => r.game = m_selectGameId /\ \A s \in Slot \ {t} : ~LabelOp(thread[s])
      BY <2>3, <3>2, LabelAlone DEF LabelOp, LabelGood
    <3> HIDE DEF r
    <3>6. LabelOp(r) /\ (~doubtful' => LabelGood(thread[t])')
      BY <2>0, <3>1, <3>2, <3>4, <3>5, <1>o DEF LabelOp, LabelGood
    <3> QED
      BY <2>0, <3>1, <3>5, <3>6, <1>o, LabelStep
  <2>4. CASE LabelOp(thread[t]) /\ thread[t].at = "token"
    <3>0. PICK yes \in BOOLEAN : Becomes(t, [thread[t] EXCEPT !.at = "replied", !.yes = yes])
      BY <1>10, <2>4 DEF Serve
    <3> DEFINE r == [thread[t] EXCEPT !.at = "replied", !.yes = yes]
    <3>1. Becomes(t, r)
      BY <3>0
    <3>2. r.op = thread[t].op /\ r.at = "replied"
      BY <1>t DEF ThreadType
    <3> HIDE DEF r
    <3>3. LabelOp(r) /\ LabelGood(thread[t])'
      BY <2>4, <3>1, <3>2, <1>o DEF LabelOp, LabelGood
    <3> QED
      BY <2>0, <2>4, <3>1, <3>3, <1>o, LabelStep, LabelAlone
  <2>5. thread[t].op \in {"details", "appoint", "start"} /\ thread[t].at \in {"sent", "token"}
    BY <1>10, <1>t DEF Serve, ThreadType, Types, Purposeful
  <2> QED
    BY <2>1, <2>2, <2>3, <2>4, <2>5 DEF LabelOp
<1>11. ASSUME NEW t \in Slot, Fail(t) PROVE LabelInv'
  <2>1. /\ Becomes(t, Free)
        /\ UNCHANGED <<m_selectGameId, m_appointmentStatus, labelOf, booked>>
        /\ doubtful' = (doubtful \/ thread[t].op # "start") /\ thread[t].at # "free"
    BY <1>11 DEF Fail, members
  <2>2. CASE thread[t].op = "start"
    <3>1. doubtful' = doubtful
      BY <2>1, <2>2 DEF Types, TypeOK
    <3> QED
      BY <2>1, <2>2, <3>1, <1>f, LabelOther DEF LabelOp
  <2>3. CASE thread[t].op # "start"
    BY <2>1, <2>3 DEF LabelInv
  <2> QED
    BY <2>2, <2>3
<1>12. ASSUME NEW t \in Slot, StoreName(t) PROVE LabelInv'
  <2> DEFINE r == [thread[t] EXCEPT !.at = "named"]
  <2>1. /\ m_appointmentStatus' = IF thread[t].yes THEN "cancel" ELSE "book"
        /\ m_selectGameId' = thread[t].game /\ labelOf' = thread[t].user
        /\ Selects(t, r) /\ booked' = booked /\ doubtful' = doubtful
        /\ thread[t].op = "details" /\ thread[t].at = "ok"
    BY <1>12 DEF StoreName
  <2>2. thread'[t] = r /\ r.op = "details" /\ r.at = "named"
    <3>1. thread'[t] = r
      BY <2>1 DEF Selects
    <3> QED
      BY <3>1, <2>1, <1>t DEF ThreadType
  <2>3. \A s \in Slot \ {t} : thread'[s].op = thread[s].op
    BY <2>1, SelectsLone
  <2>4. ASSUME ~doubtful PROVE LabelFits' /\ \A s \in Slot \ {t} : ~LabelOp(thread[s])
    <3>1. /\ thread[t].yes = (<<thread[t].user, thread[t].game>> \in booked)
          /\ \A s \in Slot \ {t} : ~LabelOp(thread[s])
      BY <2>1, <2>4, LabelAlone DEF LabelOp, LabelGood
    <3>2. (m_appointmentStatus' = "cancel") <=> (<<labelOf', m_selectGameId'>> \in booked')
      <4>1. thread[t].yes \in BOOLEAN
        BY <1>t DEF ThreadType
      <4>2. <<labelOf', m_selectGameId'>> \in booked' <=> thread[t].yes
        BY <2>1, <3>1
      <4>3. m_appointmentStatus' = "cancel" <=> thread[t].yes
        BY <2>1, <4>1
      <4> QED
        BY <4>2, <4>3
    <3> QED
      BY <3>1, <3>2 DEF LabelFits
  <2> HIDE DEF r
  <2>5. LabelOp(r) /\ (~doubtful => LabelGood(thread[t])')
    BY <2>2, <2>4 DEF LabelOp, LabelGood
  <2> QED
    BY <2>1, <2>2, <2>3, <2>4, <2>5, LabelStep
<1>13. ASSUME NEW t \in Slot, StorePackage(t) PROVE LabelInv'
  <2>1. Selects(t, Free) /\ Kept /\ thread[t].at = "named"
    BY <1>13 DEF StorePackage, history
  <2>2. thread'[t] = Free
    BY <2>1 DEF Selects
  <2>3. \A s \in Slot \ {t} : thread'[s].op = thread[s].op
    BY <2>1, SelectsLone
  <2>4. CASE thread[t].op = "details"
    <3>1. ~doubtful => LabelFits /\ \A s \in Slot \ {t} : ~LabelOp(thread[s])
      BY <2>1, <2>4, LabelAlone DEF LabelOp, LabelGood
    <3>2. LabelFits => LabelFits'
      BY <2>1 DEF LabelFits
    <3> QED
      BY <2>1, <2>2, <2>3, <3>1, <3>2, <1>f, LabelStep
  <2> QED
    BY <2>1, <2>4 DEF StageInv, Staged
<1>14. ASSUME NEW t \in Slot, HandleAppointment(t) PROVE LabelInv'
  <2>1. /\ Becomes(t, Free) /\ thread[t].op = "appoint" /\ thread[t].at = "ok"
        /\ m_appointmentStatus' = IF thread[t].yes THEN "cancel" ELSE "book"
        /\ labelOf' = thread[t].user /\ m_selectGameId' = m_selectGameId
        /\ booked' = booked /\ doubtful' = doubtful
    BY <1>14 DEF HandleAppointment
  <2>2. ASSUME ~doubtful PROVE LabelFits' /\ \A s \in Slot \ {t} : ~LabelOp(thread[s])
    <3>1. /\ thread[t].yes = (<<thread[t].user, thread[t].game>> \in booked)
          /\ thread[t].game = m_selectGameId
          /\ \A s \in Slot \ {t} : ~LabelOp(thread[s])
      BY <2>1, <2>2, LabelAlone DEF LabelOp, LabelGood
    <3>2. (m_appointmentStatus' = "cancel") <=> (<<labelOf', m_selectGameId'>> \in booked')
      <4>1. thread[t].yes \in BOOLEAN
        BY <1>t DEF ThreadType
      <4>2. <<labelOf', m_selectGameId'>> \in booked' <=> thread[t].yes
        BY <2>1, <3>1
      <4>3. m_appointmentStatus' = "cancel" <=> thread[t].yes
        BY <2>1, <4>1
      <4> QED
        BY <4>2, <4>3
    <3> QED
      BY <3>1, <3>2 DEF LabelFits
  <2> QED
    BY <2>1, <2>2, <1>o, <1>f, LabelStep
<1>15. ASSUME NEW t \in Slot, HandleTime(t) PROVE LabelInv'
  <2> DEFINE r == [thread[t] EXCEPT !.at = "token", !.game = m_packageName]
  <2>1. Becomes(t, r) /\ Kept /\ thread[t].op = "start"
    BY <1>15 DEF HandleTime, members, history
  <2>2. r.op = "start"
    BY <2>1, <1>t DEF ThreadType
  <2> HIDE DEF r
  <2> QED
    BY <2>1, <2>2, LabelOther DEF LabelOp
<1>16. ASSUME NEW t \in Slot, NEW p \in Proc, startStream(t, p) PROVE LabelInv'
  <2>1. Becomes(t, Free) /\ Kept /\ thread[t].at = "replied"
    BY <1>16 DEF startStream, members
  <2> QED
    BY <2>1, <1>f, LabelOther DEF StageInv, Staged, LabelOp
<1>17. CASE StreamRuns
  BY <1>17, <1>0 DEF StreamRuns, members, history
<1> QED
  BY <1>1, <1>2, <1>3, <1>4, <1>5, <1>6, <1>7, <1>8, <1>9, <1>10, <1>11, <1>12, <1>13, <1>14, <1>15,
     <1>16, <1>17 DEF Next, UserSteps, Worker

-----------------------------------------------------------------------------
(* The theorems *)

IInv == Types /\ StageInv /\ WindowInv /\ LoneInv /\ LabelInv

LEMMA InitGood == ASSUME GameStartAssumption, Init PROVE IInv
BY InitTypes, StageInit, WindowInit, LoneInit, LabelInit DEF Init, IInv

LEMMA NextGood == ASSUME GameStartAssumption, IInv, [Next]_vars PROVE IInv'
<1>1. WindowInv'
  <2>1. CASE Window!Next
    BY <2>1, WindowNext DEF IInv, Types, TypeOK
  <2>2. CASE UNCHANGED proc
    BY <2>2 DEF IInv, WindowInv, PageGood, Window!OneWindow, Window!HasWindow
  <2> QED
    BY <2>1, <2>2, WindowStep DEF IInv, Types
<1> QED
  BY <1>1, NextTypes, StageNext, LoneNext, LabelNext DEF IInv

\* The inductive invariant holds of every behaviour of GameStart.
LEMMA Inductive == Spec => []IInv
BY GameStartAssumption, InitGood, NextGood, PTL DEF Spec

\* Every variable of the start of a game, and of its streams, keeps its type.
THEOREM TypeCorrect == Spec => []TypeOK
BY Inductive, PTL DEF IInv, Types

\* However many games are started, one stream has a window at a time: the
\* others do not get the single-instance lock of main.js.
THEOREM OneStreamWindow == Spec => []Window!OneWindow
BY Inductive, PTL DEF IInv, WindowInv

\* A window that is closed after its page was loaded has stopped its game by the
\* time that the timer of main.js destroys it.
THEOREM ClosedStops == Spec => []ClosedGameStops
<1>1. IInv => ClosedGameStops
  BY DEF IInv, WindowInv, PageGood, ClosedGameStops, Window!ClosedGameStops
<1> QED
  BY <1>1, Inductive, PTL

\* A button that says "book" or "cancel" of the selected game, after requests
\* for the label that neither crossed nor failed, says what the service would do.
THEOREM LabelTrue == Spec => []LoneLabelTrue
<1>1. IInv => LoneLabelTrue
  <2> SUFFICES ASSUME LabelInv, ~doubtful, ~Busy("details"), ~Busy("appoint"),
                      m_selectGameId # None, labelOf = account
               PROVE  (m_appointmentStatus = "cancel") = (<<account, m_selectGameId>> \in booked)
    BY DEF IInv, LoneLabelTrue
  <2>1. \A t \in Slot : ~LabelOp(thread[t])
    BY DEF Busy, LabelOp
  <2> QED
    BY <2>1 DEF LabelInv, LabelFits
<1> QED
  BY <1>1, Inductive, PTL

\* The starts that GameDetails makes from the page of their game, while no other
\* is selected, are those that StreamPermit allows: each after time is left for
\* the game and the service has replied to the request for a token of it, once for
\* each reply, and with a token just if that reply brought one: a refusal that
\* queryUserRemainTime takes for a token starts the stream without.
THEOREM StartIsPermitted == Spec => LoneStartPermitted
<1>1. Init => Permit!Init
  BY PermitInit
<1>2. IInv /\ [Next]_vars => [Permit!Next]_(Permit!vars)
  BY GameStartAssumption, PermitNext DEF IInv
<1> QED
  BY <1>1, <1>2, Inductive, PTL DEF Spec, LoneStartPermitted, Permit!Spec
=============================================================================
