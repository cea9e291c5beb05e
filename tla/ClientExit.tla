----------------------------- MODULE ClientExit -----------------------------
(***************************************************************************)
(* The life of the client's process: one instance at a time (main.cpp), a  *)
(* window that the close button hides or ends (TitleBar.qml), the popup    *)
(* that asks which (ExitAppTips.qml), and the registry that remembers the  *)
(* answer.  The popup shows HttpClient's members, sets them with each      *)
(* click, acts by them when confirmed, and saves two properties of its own *)
(* that every popup begins with as false.                                  *)
(***************************************************************************)
CONSTANT Process  \* bound: processes of the client alive, or starting

VARIABLES
  process,           \* the processes: "none", "starting", "window", "tray"
  m_noNotify,        \* HttpClient of the running process
  m_closeExit,       \* HttpClient of the running process
  popup,             \* ExitAppTips: its properties exitApp and noNotify, or closed
  registry,          \* the saved settings
  chosen,            \* history: what the last confirmed popup showed
  crossed,           \* history: this process had a popup clicked in, and not confirmed
  untouched,         \* history: an answer was confirmed as it was found, exit selected
  torn               \* history: the client crashed between the two saves of an answer

vars == <<process, m_noNotify, m_closeExit, popup, registry, chosen, crossed, untouched, torn>>
client == <<m_noNotify, m_closeExit, popup>>
history == <<chosen, crossed, untouched, torn>>

Settings == [noNotify: BOOLEAN, closeExit: BOOLEAN]
Closed == [open |-> FALSE, noNotify |-> FALSE, exitApp |-> FALSE, clicked |-> FALSE,
           saving |-> FALSE]
Opened == [Closed EXCEPT !.open = TRUE]

TypeOK ==
  /\ process \in [Process -> {"none", "starting", "window", "tray"}]
  /\ m_noNotify \in BOOLEAN
  /\ m_closeExit \in BOOLEAN
  /\ popup \in [open: BOOLEAN, noNotify: BOOLEAN, exitApp: BOOLEAN, clicked: BOOLEAN,
                saving: BOOLEAN]
  /\ popup = Closed \/ popup.open
  /\ registry \in Settings
  /\ chosen \in Settings
  /\ crossed \in BOOLEAN
  /\ untouched \in BOOLEAN
  /\ torn \in BOOLEAN

\* The first start writes the defaults.
Init ==
  /\ process = [p \in Process |-> "none"]
  /\ m_noNotify = FALSE
  /\ m_closeExit = FALSE
  /\ popup = Closed
  /\ registry = [noNotify |-> FALSE, closeExit |-> FALSE]
  /\ chosen = registry
  /\ crossed = FALSE
  /\ untouched = FALSE
  /\ torn = FALSE

Runs(p) == process[p] \in {"window", "tray"}
Becomes(p, state) == process' = [process EXCEPT ![p] = state]
\* The popup is modal: nothing else of the window can be clicked.
Ready(p) == process[p] = "window" /\ ~popup.open
\* The popup takes clicks: its button's handler is not running.
Asking(p) == process[p] = "window" /\ popup.open /\ ~popup.saving

-----------------------------------------------------------------------------

\* The user starts the client, perhaps because it is in the tray.
Launch(p) ==
  /\ process[p] = "none"
  /\ Becomes(p, "starting")
  /\ UNCHANGED <<client, registry, history>>

\* Only the process that creates the shared memory goes on, and loads the
\* settings; another ends, without showing the window of the first.
CreateMemory(p) ==
  /\ process[p] = "starting"
  /\ IF \E q \in Process : Runs(q)
     THEN Becomes(p, "none") /\ UNCHANGED <<client, crossed>>
     ELSE /\ Becomes(p, "window")
          /\ m_noNotify' = registry.noNotify
          /\ m_closeExit' = registry.closeExit
          /\ popup' = Closed
          /\ crossed' = FALSE
  /\ UNCHANGED <<registry, chosen, untouched, torn>>

\* Qt.quit or a crash: from the tray's menu, for an update, or on its own; while
\* an answer is saved only a crash.
Quit(p) ==
  /\ Runs(p)
  /\ Becomes(p, "none")
  /\ popup' = Closed
  /\ torn' = (torn \/ popup.saving)
  /\ UNCHANGED <<m_noNotify, m_closeExit, registry, chosen, crossed, untouched>>

\* The close button of the title bar.
ClickClose(p) ==
  /\ Ready(p)
  /\ IF m_noNotify
     THEN Becomes(p, IF m_closeExit THEN "none" ELSE "tray") /\ UNCHANGED popup
     ELSE popup' = Opened /\ UNCHANGED process
  /\ UNCHANGED <<m_noNotify, m_closeExit, registry, history>>

\* The tray's icon or menu.
ShowWindow(p) ==
  /\ process[p] = "tray"
  /\ Becomes(p, "window")
  /\ UNCHANGED <<client, registry, history>>

\* A radio button.
ChooseExit(p, exit) ==
  /\ Asking(p)
  /\ m_closeExit' = exit
  /\ popup' = [popup EXCEPT !.exitApp = exit, !.clicked = TRUE]
  /\ UNCHANGED <<process, m_noNotify, registry, history>>

\* The check box.
ClickNoNotify(p) ==
  /\ Asking(p)
  /\ m_noNotify' = ~m_noNotify
  /\ popup' = [popup EXCEPT !.noNotify = ~m_noNotify, !.clicked = TRUE]
  /\ UNCHANGED <<process, m_closeExit, registry, history>>

\* The cross: nothing is saved, and nothing taken back.
CrossOut(p) ==
  /\ Asking(p)
  /\ popup' = Closed
  /\ crossed' = (crossed \/ popup.clicked)
  /\ UNCHANGED <<process, m_noNotify, m_closeExit, registry, chosen, untouched, torn>>

\* The button saves what was clicked, in two writes to the registry ...
SaveClose(p) ==
  /\ Asking(p)
  /\ registry' = [registry EXCEPT !.closeExit = popup.exitApp]
  /\ popup' = [popup EXCEPT !.saving = TRUE]
  /\ UNCHANGED <<process, m_noNotify, m_closeExit, history>>

\* ... and acts by what the popup shows.  The handler begins with Qt.quit() or
\* hide(), but the first only posts an event and nothing sees the second before
\* the handler ends.
Confirm(p) ==
  /\ process[p] = "window" /\ popup.saving
  /\ registry' = [registry EXCEPT !.noNotify = popup.noNotify]
  /\ Becomes(p, IF m_closeExit THEN "none" ELSE "tray")
  /\ popup' = Closed
  /\ chosen' = [noNotify |-> m_noNotify, closeExit |-> m_closeExit]
  /\ crossed' = FALSE
  /\ untouched' = (m_closeExit # popup.exitApp)
  /\ torn' = FALSE
  /\ UNCHANGED <<m_noNotify, m_closeExit>>

Next ==
  \E p \in Process :
    \/ Launch(p) \/ CreateMemory(p) \/ Quit(p)
    \/ ClickClose(p) \/ ShowWindow(p)
    \/ \E exit \in BOOLEAN : ChooseExit(p, exit)
    \/ ClickNoNotify(p) \/ CrossOut(p) \/ SaveClose(p) \/ Confirm(p)

Spec == Init /\ [][Next]_vars

-----------------------------------------------------------------------------
(* Properties *)

\* QSharedMemory keeps all but one process out.
OneClient == \A p, q \in Process : Runs(p) /\ Runs(q) => p = q

\* What the user confirmed last is what the registry holds and, unless a popup
\* was clicked in and crossed out, what the client will do, also after restarts
\* in between; as long as an answer is not confirmed just as it was found, with
\* the exit selected, and no crash tore the two writes of one apart.
ChoiceKept ==
  (~untouched /\ ~torn) =>
    /\ ~popup.saving => registry = chosen
    /\ (\E p \in Process : Runs(p)) /\ ~popup.open /\ ~crossed
         => [noNotify |-> m_noNotify, closeExit |-> m_closeExit] = chosen

-----------------------------------------------------------------------------
(* A property that fails *)

\* Once "不再提醒" was confirmed beside "退出酷卡云游戏" or "最小化到系统托盘",
\* the close button does this one without asking.
SilentCloseAsChosen ==
  \A p \in Process :
    Ready(p) /\ m_noNotify /\ ~crossed => chosen.noNotify /\ m_closeExit = chosen.closeExit
=============================================================================
