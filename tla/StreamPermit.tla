---------------------------- MODULE StreamPermit ----------------------------
(***************************************************************************)
(* What the start of a game keeps to: a stream is started for a game after *)
(* the service has said that the user has time left for this game and has  *)
(* replied to the request for a token of it, and once for each reply.  The *)
(* stream carries the token of the reply; a refusal that looks like a      *)
(* reply brings none, and the stream is started without.                   *)
(***************************************************************************)
EXTENDS Naturals

CONSTANTS
  Game,
  Request,
  None  \* neither a game nor a launch

\* A stream to start: of which game, and with or without a token.
Launch == [game: Game, token: BOOLEAN]

VARIABLES
  checked,  \* the requests: the game that the user has time for
  replied,  \* the requests: what the reply about the token allows
  streams   \* how often each launch was made

vars == <<checked, replied, streams>>

TypeOK ==
  /\ checked \in [Request -> Game \cup {None}]
  /\ replied \in [Request -> Launch \cup {None}]
  /\ streams \in [Launch -> Nat]

Init ==
  /\ checked = [r \in Request |-> None]
  /\ replied = [r \in Request |-> None]
  /\ streams = [l \in Launch |-> 0]

\* The user has time left for g.
Check(r, g) ==
  /\ checked[r] = None
  /\ replied[r] = None
  /\ checked' = [checked EXCEPT ![r] = g]
  /\ UNCHANGED <<replied, streams>>

\* The service replies about a token, for the same game.
Reply(r, l) ==
  /\ checked[r] = l.game
  /\ replied[r] = None
  /\ replied' = [replied EXCEPT ![r] = l]
  /\ UNCHANGED <<checked, streams>>

Start(r, l) ==
  /\ replied[r] = l
  /\ checked' = [checked EXCEPT ![r] = None]
  /\ replied' = [replied EXCEPT ![r] = None]
  /\ streams' = [streams EXCEPT ![l] = @ + 1]

\* Requests come to nothing.
Drop(requests) ==
  /\ checked' = [r \in Request |-> IF r \in requests THEN None ELSE checked[r]]
  /\ replied' = [r \in Request |-> IF r \in requests THEN None ELSE replied[r]]
  /\ UNCHANGED streams

Next ==
  \/ \E r \in Request, g \in Game : Check(r, g)
  \/ \E r \in Request, l \in Launch : Reply(r, l) \/ Start(r, l)
  \/ \E requests \in SUBSET Request : Drop(requests)

Spec == Init /\ [][Next]_vars
=============================================================================
