---------------------------- MODULE MCClientExit ----------------------------
(* The client, and an attempt to start it once more. *)
EXTENDS ClientExit
CONSTANTS p1, p2
MCProcess == {p1, p2}
=============================================================================
