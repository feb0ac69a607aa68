------------------------------ MODULE MCStatus ------------------------------
(* A small instance of StatusHistory for TLC: three altitudes on both sides of *)
(* the thresholds and of their hysteresis; the lowest is below the ground      *)
(* altitude, where the pressure gives the rate.                               *)
EXTENDS StatusHistory

MCReadings == {[alt |-> a, press |-> -a \div 3] : a \in {2, 3, 4}}
=============================================================================
