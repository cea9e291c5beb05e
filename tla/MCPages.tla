------------------------------ MODULE MCPages ------------------------------
(* Two users, two labels, two editions of two tabs, two requests at a time. *)
EXTENDS Pages
CONSTANTS a, b, s1, s2
MCAccount == {a, b}
MCLabel == {"new", "old"}
MCWord == {"word"}
MCGames == {"games1", "games2", "games3", "games4"}
MCEdition == <<<<"games1", "games2">>, <<"games3", "games4">>>>
MCSlot == {s1, s2}
ASSUME RecommendedAssumption == NothingEmpty
MCSymmetry == Permutations(MCAccount) \cup Permutations(MCSlot)
=============================================================================
