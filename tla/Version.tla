------------------------------- MODULE Version -------------------------------
(***************************************************************************)
(* Version numbers as HttpClient compares them: the strings "a.b.c.d" of   *)
(* the server and of the registry, split at the dots.                      *)
(***************************************************************************)
EXTENDS Naturals, Sequences

\* Mistake: the third numbers are not compared when the new one is smaller.
compareVersion_NoThirdLess(newVersion, currVersion) ==
  \/ newVersion[1] > currVersion[1]
  \/ /\ newVersion[1] = currVersion[1]
     /\ \/ newVersion[2] > currVersion[2]
        \/ /\ newVersion[2] = currVersion[2]
           /\ \/ newVersion[3] > currVersion[3]
              \/ newVersion[4] > currVersion[4]

\* compareVersion: newVersion is newer, the first difference deciding.
compareVersion(newVersion, currVersion) ==
  \/ newVersion[1] > currVersion[1]
  \/ /\ newVersion[1] = currVersion[1]
     /\ \/ newVersion[2] > currVersion[2]
        \/ /\ newVersion[2] = currVersion[2]
           /\ \/ newVersion[3] > currVersion[3]
              \/ /\ newVersion[3] = currVersion[3]
                 /\ newVersion[4] > currVersion[4]

\* parseCheckUpdateVersion compares only lists of one length.  (at(0) to at(3)
\* of a list of fewer than four parts is undefined behaviour.)
IsNewVersion(new, curr) == Len(new) = Len(curr) /\ compareVersion(new, curr)

-----------------------------------------------------------------------------
\* The order versions are meant to have, whatever their length: by the first
\* place in which they differ.
Newer(v, w) ==
  \E i \in DOMAIN v \cap DOMAIN w :
    v[i] > w[i] /\ \A j \in 1..(i - 1) : v[j] = w[j]
=============================================================================
