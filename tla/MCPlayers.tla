----------------------------- MODULE MCPlayers -----------------------------
(* Instances of Players for TLC.                                           *)
EXTENDS Players

CONSTANTS f1, f2, f3

\* No list, one of a single file, and lists that overlap.
FourLists == {<<>>, <<f1>>, <<f1, f2, f3>>, <<f3, f2>>}
=============================================================================
