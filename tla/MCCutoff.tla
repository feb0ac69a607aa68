------------------------------ MODULE MCCutoff ------------------------------
(* A small instance of CutoffHistory for TLC.  With the one reading beyond the *)
(* maximum altitude a range is lost and found again by the flight status.     *)
EXTENDS CutoffHistory

MCTimeout == [w \in Watch |-> 1]
MCReadings == {[alt |-> 9, far |-> FALSE]}
MCMinAltitude == -5
=============================================================================
