---------------------------- MODULE StreamWindow ----------------------------
(***************************************************************************)
(* The processes of kukastream.exe, an Electron program that shows a game  *)
(* (src/src: main.js, preload.js, renderer.js, mine.js).  Each start of a  *)
(* game is a process; one of them at a time gets a window.  The main       *)
(* process tells the page in the window what to do with messages, which    *)
(* are lost before the page has its listener.                              *)
(***************************************************************************)
EXTENDS Naturals, Sequences

CONSTANTS
  Proc,      \* bound: processes alive
  Stream,    \* what a process may be started with
  NoStream,  \* not one of them
  MaxCloses  \* bound: how often the user closes one window

VARIABLE proc  \* the processes

\* boot: before whenReady.  load, dom, open: the window is there, and the page
\* has no listener yet, has one, has finished loading.  destroyed: the window is
\* gone, the program is quitting.  refused: quitting without a window.
ProcType == [at: {"none", "boot", "load", "dom", "open", "destroyed", "refused"},
             stream: Stream \cup {NoStream},
             inbox: Seq({"start", "exit"}),       \* cpp-data on its way to the page
             sdk: {"off", "on", "stopped"},       \* Cloudplay
             timers: Nat,                         \* timeouts that will destroy the window
             late: BOOLEAN]                       \* history: closed after the page was loaded

NoProc == [at |-> "none", stream |-> NoStream, inbox |-> <<>>, sdk |-> "off", timers |-> 0,
           late |-> FALSE]

TypeOK == proc \in [Proc -> ProcType]

Init == proc = [p \in Proc |-> NoProc]

HasWindow(p) == proc[p].at \in {"load", "dom", "open"}
\* requestSingleInstanceLock: held until the process is gone.
HasLock(p) == HasWindow(p) \/ proc[p].at = "destroyed"

\* startDetached.
Spawn(p, stream) ==
  /\ proc[p] = NoProc
  /\ proc' = [proc EXCEPT ![p].at = "boot", ![p].stream = stream]

\* Only one process gets the lock; the others quit, and their start is lost.
createWindow(p) ==
  /\ proc[p].at = "boot"
  /\ proc' = [proc EXCEPT ![p].at = IF \E q \in Proc \ {p} : HasLock(q) THEN "refused" ELSE "load"]

\* The page runs its scripts and listens.
DomReady(p) ==
  /\ proc[p].at = "load"
  /\ proc' = [proc EXCEPT ![p].at = "dom"]

\* did-finish-load: the arguments are sent to the page.
FinishLoad(p) ==
  /\ proc[p].at = "dom"
  /\ proc' = [proc EXCEPT ![p].at = "open", ![p].inbox = Append(@, "start")]

\* Mistake: the window is minimized, and the page not told.
Close_Silent(p) ==
  /\ HasWindow(p)
  /\ proc[p].timers < MaxCloses
  /\ proc' = [proc EXCEPT ![p].timers = @ + 1, ![p].late = @ \/ proc[p].at = "open"]

\* The user closes the window: the page is told to exit the game, and a timer
\* destroys the window.
Close(p) ==
  /\ HasWindow(p)
  /\ proc[p].timers < MaxCloses
  /\ proc' = [proc EXCEPT ![p].inbox = IF proc[p].at = "load" THEN @ ELSE Append(@, "exit"),
                          ![p].timers = @ + 1,
                          ![p].late = @ \/ proc[p].at = "open"]

\* The page handles a message: startSDK, or exitGame, that is stopSDK.
Receive(p) ==
  /\ HasWindow(p)
  /\ proc[p].inbox # <<>>
  /\ proc' = [proc EXCEPT ![p].inbox = Tail(@),
                          ![p].sdk = IF Head(proc[p].inbox) = "start" THEN "on"
                                     ELSE IF @ = "on" THEN "stopped" ELSE @]

\* Mistake: the timer closes the window, which only starts another timer.
Timeout_Closes(p) ==
  /\ HasWindow(p)
  /\ proc[p].timers > 0
  /\ proc[p].inbox = <<>>
  /\ proc' = [proc EXCEPT ![p].inbox = Append(@, "exit")]

\* The first timer destroys the window, 1.5 seconds after the close: long enough
\* for the page to handle what was sent to it.
Timeout(p) ==
  /\ HasWindow(p)
  /\ proc[p].timers > 0
  /\ proc[p].inbox = <<>>
  /\ proc' = [proc EXCEPT ![p].at = "destroyed"]

\* window-all-closed, or no lock: app.quit.
Quit(p) ==
  /\ proc[p].at \in {"destroyed", "refused"}
  /\ proc' = [proc EXCEPT ![p] = NoProc]

\* What a process does by itself.
Runs(p) ==
  createWindow(p) \/ DomReady(p) \/ FinishLoad(p) \/ Receive(p) \/ Timeout(p) \/ Quit(p)

Next ==
  \E p \in Proc :
    \/ \E stream \in Stream : Spawn(p, stream)
    \/ Runs(p)
    \/ Close(p)

Spec == Init /\ [][Next]_proc /\ \A p \in Proc : WF_proc(Runs(p))

-----------------------------------------------------------------------------
(* Properties *)

\* However many games are started, and however the starts and ends of their
\* processes interleave, there is one window at most.
OneWindow == \A p, q \in Proc : HasWindow(p) /\ HasWindow(q) => p = q

\* A window that the user closed after its page was loaded takes its game along:
\* the page has stopped the stream before the window is destroyed.  (A window
\* closed earlier may lose the message, start its game and be destroyed.)
ClosedGameStops == \A p \in Proc : proc[p].at = "destroyed" /\ proc[p].late => proc[p].sdk = "stopped"

\* A closed window goes away with its process, and the lock is free for the
\* next game.
ClosedWindowEnds == \A p \in Proc : proc[p].timers > 0 ~> proc[p].at = "none"
=============================================================================
