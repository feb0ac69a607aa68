------------------------------- MODULE MCWeb -------------------------------
(* Small instances of WebHistory for TLC: scripts that overlap in any order.    *)
EXTENDS WebHistory, TLC

Scripts == Permutations(Cgis)
=============================================================================
