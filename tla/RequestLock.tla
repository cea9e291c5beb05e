----------------------------- MODULE RequestLock -----------------------------
(***************************************************************************)
(* CommonFunc::SendHttpRequest and the detached threads that call it.  All *)
(* requests of the client go through one function that holds oMutex for    *)
(* the whole transfer; what a thread does with its reply, it does after    *)
(* the lock is free again.  The other modules treat a request as one step; *)
(* this one shows why they may.                                            *)
(***************************************************************************)
EXTENDS Naturals, Sequences

CONSTANTS
  Worker,   \* threads that make requests
  None,     \* nobody holds the lock
  MaxAsks   \* bound: requests per thread

ASSUME LockAssumption ==
  /\ None \notin Worker
  /\ MaxAsks \in Nat

VARIABLES
  oMutex,  \* the thread inside SendHttpRequest, or None
  at,      \* where every thread is
  asks,    \* number of requests every thread has made
  log      \* server: requests it has carried out, in order

vars == <<oMutex, at, asks, log>>

\* "idle": no request.  "waiting": blocked on the lock.  "connecting", "sent",
\* "served": inside curl_easy_perform, the server having acted in the last.
\* "ok", "failed": back from SendHttpRequest with true or false.
Place == {"idle", "waiting", "connecting", "sent", "served", "ok", "failed"}
Inside == {"connecting", "sent", "served"}

TypeOK ==
  /\ oMutex \in Worker \cup {None}
  /\ at \in [Worker -> Place]
  /\ asks \in [Worker -> 0..MaxAsks]
  /\ log \in Seq(Worker \X (1..MaxAsks))

Init ==
  /\ oMutex = None
  /\ at = [w \in Worker |-> "idle"]
  /\ asks = [w \in Worker |-> 0]
  /\ log = <<>>

Goes(w, place) == at' = [at EXCEPT ![w] = place]

\* An operation starts its thread, or a reply's handler the next operation.
Ask(w) ==
  /\ at[w] = "idle"
  /\ asks[w] < MaxAsks
  /\ Goes(w, "waiting")
  /\ asks' = [asks EXCEPT ![w] = @ + 1]
  /\ UNCHANGED <<oMutex, log>>

\* Mistake: the transfer does not wait for the lock.
Lock_Free(w) ==
  /\ at[w] = "waiting"
  /\ Goes(w, "connecting")
  /\ oMutex' = w
  /\ UNCHANGED <<asks, log>>

\* std::unique_lock<std::mutex> lock(oMutex): any waiting thread may win.
Lock(w) ==
  /\ at[w] = "waiting"
  /\ oMutex = None
  /\ Goes(w, "connecting")
  /\ oMutex' = w
  /\ UNCHANGED <<asks, log>>

Connect(w) ==
  /\ at[w] = "connecting"
  /\ Goes(w, "sent")
  /\ UNCHANGED <<oMutex, asks, log>>

ServerActs(w) ==
  /\ at[w] = "sent"
  /\ Goes(w, "served")
  /\ log' = Append(log, <<w, asks[w]>>)
  /\ UNCHANGED <<oMutex, asks>>

\* Mistake: the early return after a failed transfer leaves the lock taken.
Return_KeepsLock(w, place) ==
  /\ Goes(w, place)
  /\ oMutex' = IF place = "ok" THEN None ELSE oMutex
  /\ UNCHANGED <<asks, log>>

\* The function returns and the unique_lock goes out of scope.
Return(w, place) ==
  /\ Goes(w, place)
  /\ oMutex' = None
  /\ UNCHANGED <<asks, log>>

\* No connection within CURLOPT_CONNECTTIMEOUT, or none possible at all.
ConnectFails(w) == at[w] = "connecting" /\ Return(w, "failed")

\* Mistake: a connection that closes early counts as a complete reply.
Succeed_Early(w) == at[w] \in {"sent", "served"} /\ Return(w, "ok")

\* eCode = CURLE_OK: the whole reply has arrived.
Succeed(w) == at[w] = "served" /\ Return(w, "ok")

\* The connection breaks; the server may have acted or not.
Break(w) == at[w] \in {"sent", "served"} /\ Return(w, "failed")

\* The caller handles its reply, without the lock.
Handle(w) ==
  /\ at[w] \in {"ok", "failed"}
  /\ Goes(w, "idle")
  /\ UNCHANGED <<oMutex, asks, log>>

Next ==
  \E w \in Worker :
    Ask(w) \/ Lock(w) \/ Connect(w) \/ ServerActs(w) \/ ConnectFails(w) \/ Succeed(w)
      \/ Break(w) \/ Handle(w)

Spec == Init /\ [][Next]_vars

\* A ready thread runs, and the connection phase ends because curl bounds it.
\* Nothing bounds a transfer once connected: SendHttpRequest sets no timeout
\* for it, so Succeed and Break are not fair.
FairSpec ==
  /\ Spec
  /\ \A w \in Worker :
       /\ WF_vars(Lock(w))
       /\ WF_vars(Connect(w) \/ ConnectFails(w))
       /\ WF_vars(Handle(w))
-----------------------------------------------------------------------------

\* The lock is held by the thread inside curl_easy_perform, if there is one,
\* and given back on every way out; and what the server did last while it is
\* held is the holder's request (SendHttpRequest).
LockInv ==
  /\ \A w \in Worker : at[w] \in Inside <=> oMutex = w
  /\ \A w \in Worker :
       at[w] = "served" => log # <<>> /\ log[Len(log)] = <<w, asks[w]>>

\* Requests are atomic: seen through the lock, the transfer of a request is one
\* step of Channel.  While a served request has not returned, its effect does
\* not count yet; nobody else can have seen it.
SeenLog ==
  IF oMutex # None /\ at[oMutex] = "served" THEN SubSeq(log, 1, Len(log) - 1) ELSE log

SeenCall ==
  [w \in Worker |-> IF at[w] \in Inside \cup {"waiting"} THEN "asked" ELSE at[w]]

C == INSTANCE Channel WITH call <- SeenCall, asks <- asks, log <- SeenLog

OneAtATime == C!Spec

\* Every request comes back, with or without an answer, as long as no transfer
\* stalls for ever after it has connected; one that does blocks every other
\* operation of the client.
NoStall == \A v \in Worker : []<>(at[v] \notin {"sent", "served"})

EveryRequestReturns ==
  NoStall => \A w \in Worker : at[w] = "waiting" ~> at[w] \in {"ok", "failed"}
=============================================================================
