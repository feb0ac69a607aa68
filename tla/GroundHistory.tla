--------------------------- MODULE GroundHistory ---------------------------
(***************************************************************************)
(* Ground with the messages that were ever marked to be sent, and the      *)
(* properties that need them.                                              *)
(***************************************************************************)
EXTENDS Ground

VARIABLE kept     \* names of all files .unsent there have been

gvars == <<groundVars, kept>>

GInit == GroundInit /\ kept = {}
GNext == GroundNext /\ kept' = kept \cup unsent'
GSpec == GInit /\ [][GNext]_gvars /\ GroundFairness

(* A message the repeater has marked is never lost, whatever is lost, killed or *)
(* timed out after that: it is still to be sent, or was refused, or the server  *)
(* has it (repeater.py, uploader.py, restore.py, add.cgi).                      *)
Accounted == kept \subseteq unsent \cup errs \cup stored

(* Every message that was marked, and that the server takes, is on the server   *)
(* in the end, also when the station crashes, an answer is lost or the script   *)
(* is killed in between (uploader.py, add.cgi).                                 *)
Delivered == \A n \in Names \ Blank : n \in kept ~> n \in stored

(* The repeater and the downloader overwrite the index of the station with the  *)
(* listings of their own; in the end it has all that the server lists           *)
(* (utils.update_index(), downloader.py).                                       *)
Mirrored == <>[](index \subseteq mine)
=============================================================================
