-------------------------- MODULE RequestLockProofs --------------------------
(***************************************************************************)
(* Proofs about RequestLock for any set of threads and any number of       *)
(* requests: the lock does exclude, and requests are atomic, that is,      *)
(* RequestLock implements Channel.                                         *)
(***************************************************************************)
EXTENDS RequestLock, TLAPS

\* A request that is under way has a number.
Asked == \A w \in Worker : at[w] # "idle" => asks[w] \in 1..MaxAsks

IInv == TypeOK /\ Asked /\ LockInv

\* What the last entry of a log is good for.
LEMMA FrontAppend ==
  ASSUME NEW S, NEW s \in Seq(S), NEW e \in S
  PROVE  /\ Append(s, e) \in Seq(S)
         /\ Append(s, e) # <<>>
         /\ Len(Append(s, e)) = Len(s) + 1
         /\ Append(s, e)[Len(Append(s, e))] = e
         /\ SubSeq(Append(s, e), 1, Len(Append(s, e)) - 1) = s
  OBVIOUS

LEMMA AppendFront ==
  ASSUME NEW S, NEW s \in Seq(S), s # <<>>
  PROVE  Append(SubSeq(s, 1, Len(s) - 1), s[Len(s)]) = s
  OBVIOUS

LEMMA InitInv == Init => IInv
  BY LockAssumption DEF Init, IInv, TypeOK, Asked, LockInv, Place, Inside

LEMMA StepInv == IInv /\ [Next]_vars => IInv'
<1> SUFFICES ASSUME IInv, [Next]_vars
             PROVE  IInv'
  OBVIOUS
<1> USE LockAssumption DEF IInv, TypeOK, Asked, LockInv, Place, Inside
<1>1. ASSUME NEW w \in Worker, Ask(w)
      PROVE  IInv'
  BY <1>1 DEF Ask, Goes
<1>2. ASSUME NEW w \in Worker, Lock(w)
      PROVE  IInv'
  BY <1>2 DEF Lock, Goes
<1>3. ASSUME NEW w \in Worker, Connect(w)
      PROVE  IInv'
  BY <1>3 DEF Connect, Goes
<1>4. ASSUME NEW w \in Worker, ServerActs(w)
      PROVE  IInv'
  <2>1. <<w, asks[w]>> \in Worker \X (1..MaxAsks)
    BY <1>4 DEF ServerActs
  <2>2. /\ log' \in Seq(Worker \X (1..MaxAsks))
        /\ log' # <<>>
        /\ log'[Len(log')] = <<w, asks[w]>>
    BY <1>4, <2>1, FrontAppend DEF ServerActs
  <2>3. QED
    BY <1>4, <2>2 DEF ServerActs, Goes
<1>5. ASSUME NEW w \in Worker, ConnectFails(w) \/ Succeed(w) \/ Break(w)
      PROVE  IInv'
  BY <1>5 DEF ConnectFails, Succeed, Break, Return, Goes
<1>6. ASSUME NEW w \in Worker, Handle(w)
      PROVE  IInv'
  BY <1>6 DEF Handle, Goes
<1>7. CASE UNCHANGED vars
  BY <1>7 DEF vars
<1>8. QED
  BY <1>1, <1>2, <1>3, <1>4, <1>5, <1>6, <1>7 DEF Next

\* IInv holds in every state, for any threads and any number of requests.
THEOREM Inductive == Spec => []IInv
  BY InitInv, StepInv, PTL DEF Spec

\* A thread is inside curl_easy_perform exactly when it holds oMutex, and the
\* server's last act under the lock is the holder's request (SendHttpRequest).
THEOREM LockHolds == Spec => []LockInv
  BY Inductive, PTL DEF IInv

-----------------------------------------------------------------------------
(* Refinement *)

LEMMA InitRefines == Init => C!Init
  BY LockAssumption DEF Init, C!Init, SeenCall, SeenLog, Inside

\* While nobody has a served request, the whole log is seen.
LEMMA Unserved ==
  ASSUME IInv, oMutex = None \/ at[oMutex] # "served"
  PROVE  SeenLog = log
  BY DEF SeenLog

\* Every way back from a served request makes its effect visible.
LEMMA Visible ==
  ASSUME IInv, NEW w \in Worker, at[w] = "served"
  PROVE  /\ oMutex = w
         /\ Append(SeenLog, <<w, asks[w]>>) = log
  BY LockAssumption, AppendFront DEF IInv, TypeOK, LockInv, Inside, SeenLog

LEMMA StepRefines == IInv /\ IInv' /\ [Next]_vars => [C!Next]_(C!vars)
<1> SUFFICES ASSUME IInv, IInv', [Next]_vars
             PROVE  C!Next \/ UNCHANGED C!vars
  BY DEF C!vars
<1> USE LockAssumption DEF IInv, TypeOK, LockInv, Place, Inside
<1>1. ASSUME NEW w \in Worker, Ask(w)
      PROVE  C!Ask(w)
  <2>1. SeenLog' = SeenLog
    BY <1>1 DEF Ask, Goes, SeenLog
  <2>2. QED
    BY <1>1, <2>1 DEF Ask, Goes, C!Ask, SeenCall
<1>2. ASSUME NEW w \in Worker, Lock(w)
      PROVE  UNCHANGED C!vars
  BY <1>2 DEF Lock, Goes, C!vars, SeenCall, SeenLog
<1>3. ASSUME NEW w \in Worker, Connect(w)
      PROVE  UNCHANGED C!vars
  BY <1>3 DEF Connect, Goes, C!vars, SeenCall, SeenLog
<1>4. ASSUME NEW w \in Worker, ServerActs(w)
      PROVE  UNCHANGED C!vars
  <2>1. oMutex = w /\ at[w] = "sent" /\ at'[w] = "served" /\ asks[w] \in 1..MaxAsks
    BY <1>4 DEF ServerActs, Goes, Asked
  <2>2. SeenLog' = log
    BY <1>4, <2>1, FrontAppend DEF ServerActs, SeenLog
  <2>3. SeenLog = log
    BY <2>1, Unserved
  <2>4. SeenCall' = SeenCall
    BY <1>4 DEF ServerActs, Goes, SeenCall
  <2>5. QED
    BY <1>4, <2>2, <2>3, <2>4 DEF ServerActs, C!vars
<1>5. ASSUME NEW w \in Worker, NEW a \in {"ok", "failed"}, Return(w, a),
             at[w] \in Inside, a = "ok" => at[w] = "served"
      PROVE  C!Serve(w)
  <2>1. /\ oMutex = w
        /\ SeenLog' = log
        /\ SeenCall[w] = "asked"
        /\ SeenCall' = [SeenCall EXCEPT ![w] = a]
        /\ asks' = asks
    BY <1>5 DEF Return, Goes, SeenCall, SeenLog
  <2>2. CASE at[w] = "served"
    BY <2>1, <2>2, Visible DEF C!Serve
  <2>3. CASE at[w] # "served"
    <3>1. SeenLog = log /\ a = "failed"
      BY <1>5, <2>1, <2>3, Unserved
    <3>2. QED
      BY <2>1, <3>1 DEF C!Serve
  <2>4. QED
    BY <2>2, <2>3
<1>6. ASSUME NEW w \in Worker, ConnectFails(w) \/ Succeed(w) \/ Break(w)
      PROVE  C!Serve(w)
  BY <1>5, <1>6 DEF ConnectFails, Succeed, Break
<1>7. ASSUME NEW w \in Worker, Handle(w)
      PROVE  C!Done(w)
  <2>1. SeenLog' = SeenLog
    BY <1>7 DEF Handle, Goes, SeenLog
  <2>2. QED
    BY <1>7, <2>1 DEF Handle, Goes, C!Done, SeenCall
<1>8. CASE UNCHANGED vars
  BY <1>8 DEF vars, C!vars, SeenCall, SeenLog
<1>9. QED
  BY <1>1, <1>2, <1>3, <1>4, <1>6, <1>7, <1>8 DEF Next, C!Next

\* Requests are atomic: for any threads and any number of requests, the lock
\* turns SendHttpRequest into one indivisible step of Channel, at the moment
\* the function returns.
THEOREM Atomic == Spec => OneAtATime
<1>1. Init => C!Init
  BY InitRefines
<1>2. IInv /\ IInv' /\ [Next]_vars => [C!Next]_(C!vars)
  BY StepRefines
<1>3. QED
  BY <1>1, <1>2, Inductive, PTL DEF Spec, OneAtATime, C!Spec
=============================================================================
