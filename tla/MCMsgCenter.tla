---------------------------- MODULE MCMsgCenter ----------------------------
(* Two messages under two tabs, one of them forced on the user, two requests. *)
EXTENDS MsgCenter
CONSTANTS m1, m2, s1, s2
MCMsg == {m1, m2}
MCTab == {0, 1}
MCTabOf == [msg \in MCMsg |-> IF msg = m1 THEN 0 ELSE 1]
MCForced == {m2}
MCSlot == {s1, s2}
=============================================================================
