------------------------------ MODULE MCUpdate ------------------------------
(* The server starts with the installed version, then publishes an older one  *)
(* by mistake of its third number, one of another length, and a newer one.    *)
EXTENDS Update
MCInstalled == <<1, 0, 1, 1>>
MCReleases  == << <<1, 0, 1, 1>>, <<1, 0, 0, 2>>, <<1, 0, 2>>, <<1, 0, 2, 0>> >>

ASSUME ServerAssumption == NeverTakesBack
=============================================================================
