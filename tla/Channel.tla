------------------------------- MODULE Channel -------------------------------
(***************************************************************************)
(* What a caller of CommonFunc::SendHttpRequest may rely on: the server    *)
(* carries out a request and the caller gets its answer in one step, so    *)
(* that no two requests ever overlap; a request is carried out at most     *)
(* once, and an answer means that it was carried out.  A failed transfer   *)
(* means nothing: the server may or may not have acted.                    *)
(***************************************************************************)
EXTENDS Naturals, Sequences

CONSTANTS
  Worker,   \* threads that make requests
  MaxAsks   \* bound: requests per thread

VARIABLES
  call,  \* of every thread: "idle", "asked", "ok" or "failed"
  asks,  \* number of requests every thread has made
  log    \* requests the server has carried out, in order

vars == <<call, asks, log>>

Init ==
  /\ call = [w \in Worker |-> "idle"]
  /\ asks = [w \in Worker |-> 0]
  /\ log = <<>>

Ask(w) ==
  /\ call[w] = "idle"
  /\ asks[w] < MaxAsks
  /\ call' = [call EXCEPT ![w] = "asked"]
  /\ asks' = [asks EXCEPT ![w] = @ + 1]
  /\ log' = log

Serve(w) ==
  /\ call[w] = "asked"
  /\ \/ /\ log' = Append(log, <<w, asks[w]>>)
        /\ \E a \in {"ok", "failed"} : call' = [call EXCEPT ![w] = a]
     \/ /\ log' = log
        /\ call' = [call EXCEPT ![w] = "failed"]
  /\ asks' = asks

Done(w) ==
  /\ call[w] \in {"ok", "failed"}
  /\ call' = [call EXCEPT ![w] = "idle"]
  /\ UNCHANGED <<asks, log>>

Next == \E w \in Worker : Ask(w) \/ Serve(w) \/ Done(w)

Spec == Init /\ [][Next]_vars
=============================================================================
