------------------------------ MODULE MCSession ------------------------------
(* Two accounts, two passwords, two chains of requests.                       *)
EXTENDS Session, TLC
CONSTANTS alice, bob, p1, p2, s1, s2
MCAccount == {alice, bob}
MCPass == {p1, p2}
MCSlot == {s1, s2}
MCSymmetry == Permutations(MCAccount) \cup Permutations(MCPass) \cup Permutations(MCSlot)
=============================================================================
