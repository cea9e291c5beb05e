-------------------------- MODULE ClientExitProofs --------------------------
(***************************************************************************)
(* Proofs about ClientExit, for any number of attempts to start the        *)
(* client.                                                                 *)
(***************************************************************************)
EXTENDS ClientExit, TLAPS

Running == \E p \in Process : Runs(p)

\* Every popup opens with the check box off, as the member is then, and each
\* click sets both.
BoxShown == popup.open => popup.noNotify = m_noNotify

\* Unless somebody clicked in the popup, or crossed out one that was clicked in,
\* the members are what was confirmed.
MembersKept ==
  (Running /\ ~popup.clicked /\ ~crossed /\ ~untouched /\ ~torn)
    => [noNotify |-> m_noNotify, closeExit |-> m_closeExit] = chosen

\* The registry holds the answer, but for the moment in which it holds half of a new one.
RegistryKept ==
  /\ ~untouched /\ ~torn /\ ~popup.saving => registry = chosen
  /\ popup.saving => registry.closeExit = popup.exitApp

\* A popup belongs to a running client.
PopupRuns == popup.open => Running

IInv == TypeOK /\ OneClient /\ BoxShown /\ MembersKept /\ RegistryKept /\ PopupRuns

-----------------------------------------------------------------------------

LEMMA InitGood == Init => IInv
<1> SUFFICES ASSUME Init PROVE IInv
  OBVIOUS
<1>1. ~Running
  BY DEF Init, Running, Runs
<1>2. TypeOK
  BY DEF Init, TypeOK, Closed, Settings
<1>3. OneClient /\ BoxShown /\ RegistryKept /\ PopupRuns
  BY <1>1 DEF Init, OneClient, BoxShown, RegistryKept, PopupRuns, Running, Closed
<1> QED
  BY <1>1, <1>2, <1>3 DEF IInv, MembersKept

\* A process that goes to any state but those of a running client keeps
\* OneClient; so does the running one.
LEMMA OneStays ==
  ASSUME TypeOK, OneClient, NEW p \in Process, NEW s \in {"none", "starting", "window", "tray"},
         Becomes(p, s), s \in {"window", "tray"} => \A q \in Process \ {p} : ~Runs(q)
  PROVE  process' \in [Process -> {"none", "starting", "window", "tray"}] /\ OneClient'
BY DEF TypeOK, OneClient, Runs, Becomes

\* A client that opens, clicks or answers a popup runs, and takes it along.
LEMMA PopupStays == ASSUME IInv, Next PROVE PopupRuns'
<1> SUFFICES ASSUME NEW p \in Process, popup'.open,
                    \/ Launch(p) \/ CreateMemory(p) \/ Quit(p) \/ ClickClose(p) \/ ShowWindow(p)
                    \/ \E exit \in BOOLEAN : ChooseExit(p, exit)
                    \/ ClickNoNotify(p) \/ CrossOut(p) \/ SaveClose(p) \/ Confirm(p)
             PROVE  \E q \in Process : Runs(q)'
  BY DEF Next, PopupRuns, Running
<1>1. process \in [Process -> {"none", "starting", "window", "tray"}] /\ ~Closed.open
  BY DEF IInv, TypeOK, Closed
<1>2. CASE Launch(p)
  <2>1. PICK q \in Process : Runs(q)
    BY <1>2 DEF Launch, client, IInv, PopupRuns, Running
  <2> QED
    BY <1>1, <1>2, <2>1 DEF Launch, Becomes, Runs
<1>3. CASE CreateMemory(p)
  BY <1>1, <1>3 DEF CreateMemory, client, Becomes, Runs
<1>4. CASE Quit(p) \/ CrossOut(p) \/ Confirm(p)
  BY <1>1, <1>4 DEF Quit, CrossOut, Confirm
<1>5. CASE ClickClose(p)
  BY <1>1, <1>5 DEF ClickClose, Ready, Runs
<1>6. CASE ShowWindow(p)
  BY <1>1, <1>6 DEF ShowWindow, Becomes, Runs
<1>7. CASE (\E exit \in BOOLEAN : ChooseExit(p, exit)) \/ ClickNoNotify(p) \/ SaveClose(p)
  BY <1>1, <1>7 DEF ChooseExit, ClickNoNotify, SaveClose, Asking, Runs
<1> QED
  BY <1>2, <1>3, <1>4, <1>5, <1>6, <1>7

\* No step runs a second client, parts the check box from its member, or changes
\* the answer unseen.
LEMMA NextGood == IInv /\ [Next]_vars => IInv'
<1> SUFFICES ASSUME IInv, [Next]_vars PROVE IInv'
  OBVIOUS
<1> USE DEF IInv
<1>1. CASE UNCHANGED vars
  BY <1>1 DEF vars, client, history, TypeOK, OneClient, BoxShown, MembersKept, RegistryKept,
              PopupRuns, Running, Runs, Closed
<1> SUFFICES ASSUME Next PROVE IInv'
  BY <1>1
<1>p. PopupRuns'
  BY PopupStays
<1> USE <1>p
<1>2. ASSUME NEW p \in Process, Launch(p) PROVE IInv'
  <2>1. TypeOK' /\ OneClient'
    BY <1>2, OneStays DEF Launch, TypeOK, client, history, Closed
  <2>2. Running' => Running
    BY <1>2 DEF Launch, Becomes, Running, Runs, TypeOK
  <2> QED
    BY <1>2, <2>1, <2>2 DEF Launch, client, history, BoxShown, MembersKept, RegistryKept
<1>3. ASSUME NEW p \in Process, CreateMemory(p) PROVE IInv'
  <2>1. CASE \E q \in Process : Runs(q)
    <3>1. TypeOK' /\ OneClient'
      BY <1>3, <2>1, OneStays DEF CreateMemory, TypeOK, client, Closed
    <3>2. UNCHANGED <<m_noNotify, m_closeExit, popup, registry, chosen, crossed, untouched, torn>>
      BY <1>3, <2>1 DEF CreateMemory, client
    <3> QED
      BY <2>1, <3>1, <3>2 DEF BoxShown, MembersKept, RegistryKept, Running
  <2>2. CASE ~\E q \in Process : Runs(q)
    <3>1. process' \in [Process -> {"none", "starting", "window", "tray"}] /\ OneClient'
      BY <1>3, <2>2, OneStays DEF CreateMemory
    <3>2. TypeOK'
      <4>1. m_noNotify' \in BOOLEAN /\ m_closeExit' \in BOOLEAN
        BY <1>3, <2>2 DEF CreateMemory, TypeOK, Settings
      <4>2. popup' = Closed /\ crossed' = FALSE /\ UNCHANGED <<registry, chosen, untouched, torn>>
        BY <1>3, <2>2 DEF CreateMemory
      <4> QED
        BY <3>1, <4>1, <4>2 DEF TypeOK, Closed, Settings
    <3>3. registry \in Settings /\ registry = [noNotify |-> registry.noNotify,
                                               closeExit |-> registry.closeExit]
      BY DEF TypeOK, Settings
    <3>4. ~popup.saving
      BY <2>2 DEF PopupRuns, Running, TypeOK, Closed
    <3> QED
      BY <1>3, <2>2, <3>1, <3>2, <3>3, <3>4
      DEF CreateMemory, BoxShown, MembersKept, RegistryKept, Closed
  <2> QED
    BY <2>1, <2>2
<1>4. ASSUME NEW p \in Process, Quit(p) PROVE IInv'
  <2>1. TypeOK' /\ OneClient'
    <3>1. popup' \in [open: BOOLEAN, noNotify: BOOLEAN, exitApp: BOOLEAN, clicked: BOOLEAN,
                      saving: BOOLEAN]
          /\ popup' = Closed
      BY <1>4 DEF Quit, Closed
    <3>2. torn' \in BOOLEAN
      BY <1>4 DEF Quit, TypeOK
    <3> QED
      BY <1>4, <3>1, <3>2, OneStays DEF Quit, TypeOK
  <2>2. ~Running'
    BY <1>4 DEF Quit, Becomes, Running, Runs, TypeOK, OneClient
  <2> QED
    BY <1>4, <2>1, <2>2 DEF Quit, BoxShown, MembersKept, RegistryKept, Closed
<1>5. ASSUME NEW p \in Process, ClickClose(p) PROVE IInv'
  <2>1. Running /\ \A q \in Process \ {p} : ~Runs(q)
    BY <1>5 DEF ClickClose, Ready, Running, Runs, OneClient
  <2>2. CASE m_noNotify
    <3>1. TypeOK' /\ OneClient'
      BY <1>5, <2>1, <2>2, OneStays DEF ClickClose, TypeOK, history, Closed
    <3> QED
      BY <1>5, <2>1, <2>2, <3>1 DEF ClickClose, history, BoxShown, MembersKept, RegistryKept
  <2>3. CASE ~m_noNotify
    <3>1. TypeOK' /\ popup'.open /\ ~popup'.noNotify /\ ~popup'.clicked /\ ~popup'.saving
      BY <1>5, <2>3 DEF ClickClose, Ready, TypeOK, history, Closed, Opened
    <3>2. ~popup.clicked /\ ~popup.saving
      BY <1>5 DEF ClickClose, Ready, TypeOK, Closed
    <3> QED
      BY <1>5, <2>1, <2>3, <3>1, <3>2
      DEF ClickClose, history, OneClient, BoxShown, MembersKept, RegistryKept, Runs, TypeOK
  <2> QED
    BY <2>2, <2>3
<1>6. ASSUME NEW p \in Process, ShowWindow(p) PROVE IInv'
  <2>1. Running /\ \A q \in Process \ {p} : ~Runs(q)
    BY <1>6 DEF ShowWindow, Running, Runs, OneClient
  <2>2. TypeOK' /\ OneClient'
    BY <1>6, <2>1, OneStays DEF ShowWindow, TypeOK, client, history, Closed
  <2> QED
    BY <1>6, <2>1, <2>2 DEF ShowWindow, client, history, BoxShown, MembersKept, RegistryKept
<1>7. ASSUME NEW p \in Process, NEW exit \in BOOLEAN, ChooseExit(p, exit) PROVE IInv'
  <2>1. TypeOK' /\ popup'.open /\ popup'.clicked /\ popup'.noNotify = popup.noNotify
    BY <1>7 DEF ChooseExit, Asking, TypeOK, history, Closed
  <2>2. ~popup.saving /\ ~popup'.saving
    BY <1>7 DEF ChooseExit, Asking, TypeOK
  <2> QED
    BY <1>7, <2>1, <2>2 DEF ChooseExit, history, OneClient, BoxShown, MembersKept, RegistryKept, Runs
<1>8. ASSUME NEW p \in Process, ClickNoNotify(p) PROVE IInv'
  <2>1. TypeOK' /\ popup'.open /\ popup'.clicked /\ popup'.noNotify = m_noNotify'
    BY <1>8 DEF ClickNoNotify, Asking, TypeOK, history, Closed
  <2>2. ~popup.saving /\ ~popup'.saving
    BY <1>8 DEF ClickNoNotify, Asking, TypeOK
  <2> QED
    BY <1>8, <2>1, <2>2 DEF ClickNoNotify, history, OneClient, BoxShown, MembersKept, RegistryKept, Runs
<1>9. ASSUME NEW p \in Process, CrossOut(p) PROVE IInv'
  <2>1. TypeOK' /\ ~popup'.open /\ popup.clicked \in BOOLEAN
    BY <1>9 DEF CrossOut, TypeOK, Closed
  <2>2. Running' => Running
    BY <1>9 DEF CrossOut, Running, Runs
  <2>3. ~popup.saving /\ ~popup'.saving
    BY <1>9 DEF CrossOut, Asking, Closed
  <2> QED
    BY <1>9, <2>1, <2>2, <2>3 DEF CrossOut, OneClient, BoxShown, MembersKept, RegistryKept, Runs
<1>10. ASSUME NEW p \in Process, SaveClose(p) PROVE IInv'
  <2>1. popup' = [popup EXCEPT !.saving = TRUE] /\ popup.open
    BY <1>10 DEF SaveClose, Asking
  <2>2. registry' \in Settings /\ registry'.closeExit = popup'.exitApp
    BY <1>10, <2>1 DEF SaveClose, TypeOK, Settings
  <2>3. TypeOK'
    BY <1>10, <2>1, <2>2 DEF SaveClose, TypeOK, history
  <2>4. /\ popup'.open = popup.open /\ popup'.noNotify = popup.noNotify /\ popup'.saving
        /\ popup'.clicked = popup.clicked
    BY <2>1 DEF TypeOK
  <2> QED
    BY <1>10, <2>2, <2>3, <2>4
    DEF SaveClose, history, OneClient, BoxShown, MembersKept, RegistryKept, Running, Runs
<1>11. ASSUME NEW p \in Process, Confirm(p) PROVE IInv'
  <2>1. \A q \in Process \ {p} : ~Runs(q)
    BY <1>11 DEF Confirm, Runs, OneClient
  <2>2. process' \in [Process -> {"none", "starting", "window", "tray"}] /\ OneClient'
    BY <1>11, <2>1, OneStays DEF Confirm
  <2>3. popup.open /\ popup'= Closed
    BY <1>11 DEF Confirm, TypeOK, Closed
  <2>4. /\ registry' \in Settings
        /\ registry' = [noNotify |-> popup.noNotify, closeExit |-> popup.exitApp]
    BY <1>11 DEF Confirm, TypeOK, Settings, RegistryKept
  <2>5. TypeOK' /\ ~popup'.open /\ ~popup'.saving
    <3>1. popup' \in [open: BOOLEAN, noNotify: BOOLEAN, exitApp: BOOLEAN, clicked: BOOLEAN,
                      saving: BOOLEAN]
          /\ ~popup'.open /\ ~popup'.saving
      BY <2>3 DEF Closed
    <3>2. chosen' \in Settings /\ untouched' \in BOOLEAN
      BY <1>11 DEF Confirm, TypeOK, Settings
    <3>3. torn' \in BOOLEAN /\ crossed' \in BOOLEAN /\ UNCHANGED <<m_noNotify, m_closeExit>>
      BY <1>11 DEF Confirm
    <3> QED
      BY <2>2, <2>3, <2>4, <3>1, <3>2, <3>3 DEF TypeOK
  <2>6. RegistryKept'
    BY <1>11, <2>3, <2>4, <2>5 DEF Confirm, RegistryKept, BoxShown
  <2>7. MembersKept'
    BY <1>11 DEF Confirm, MembersKept
  <2> QED
    BY <2>2, <2>5, <2>6, <2>7 DEF BoxShown
<1> QED
  BY <1>1, <1>2, <1>3, <1>4, <1>5, <1>6, <1>7, <1>8, <1>9, <1>10, <1>11 DEF Next

\* The inductive invariant holds of every behaviour of ClientExit.
LEMMA Inductive == Spec => []IInv
BY InitGood, NextGood, PTL DEF Spec

\* Every variable keeps its type.
THEOREM TypeCorrect == Spec => []TypeOK
BY Inductive, PTL DEF IInv

\* Of any number of attempts to start the client, one runs at a time: the
\* others fail to create the shared memory (main.cpp).
THEOREM OneInstance == Spec => []OneClient
BY Inductive, PTL DEF IInv

\* What was confirmed in ExitAppTips is what the registry holds and the client
\* does, also after restarts, as ChoiceKept states it.
THEOREM ChoiceIsKept == Spec => []ChoiceKept
<1>1. IInv => ChoiceKept
  <2> SUFFICES ASSUME IInv, ~untouched, ~torn, Running, ~popup.open, ~crossed
               PROVE  [noNotify |-> m_noNotify, closeExit |-> m_closeExit] = chosen
    BY DEF ChoiceKept, IInv, RegistryKept, Running
  <2>1. ~popup.clicked
    BY DEF IInv, TypeOK, Closed
  <2> QED
    BY <2>1 DEF IInv, MembersKept
<1> QED
  BY <1>1, Inductive, PTL
=============================================================================
