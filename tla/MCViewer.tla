------------------------------ MODULE MCViewer ------------------------------
(* Small instances of Viewer for TLC: a message without a position, three with  *)
(* one and a status message among them.  From 2 to 4 the bearing is so near to  *)
(* 360 that compass_hdng() has no name for it, the others are in two sectors.   *)
(* The index is empty, has all the messages, or lacks two.                      *)
EXTENDS Viewer

MCIndexes == {{}, {2, 4, 5}, {1, 2, 3, 4, 5}}

MCCourse == [p \in Telemetry \X Telemetry |-> (100 * p[1] + 38 * p[2]) % 360]
=============================================================================
