--------------------------- MODULE MCRequestLock ---------------------------
(* Three threads, two requests each. *)
EXTENDS RequestLock
CONSTANTS w1, w2, w3
MCWorker == {w1, w2, w3}
=============================================================================
