---------------------------- MODULE MCGameStart ----------------------------
(* One user; two games to play, one to book, one without a package; two       *)
(* requests and two processes.                                               *)
EXTENDS GameStart
CONSTANTS a, s1, s2, p1, p2
MCAccount == {a}
MCGame == {"play", "other", "book", "bare"}
MCPlayable == {"play", "other", "bare"}
MCBare == {"bare"}
MCSlot == {s1, s2}
MCProc == {p1, p2}
=============================================================================
