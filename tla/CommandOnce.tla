---------------------------- MODULE CommandOnce ----------------------------
(***************************************************************************)
(* What the uplink promises to the operator: while the checks are on, a    *)
(* number is executed at most once between two restarts of the board, and  *)
(* only after all smaller ones that are executed at all.                   *)
(***************************************************************************)
EXTENDS Integers

CONSTANT Numbers

VARIABLES
  times,   \* how often each number has been executed since the checks were off
  strict   \* the checks are on

vars == <<times, strict>>

None == [n \in Numbers |-> 0]

Init == times = None /\ strict \in BOOLEAN

(* The checks may be switched by what is executed, the numbers executed stay. *)
Execute(n) ==
  /\ strict => \A m \in Numbers : times[m] > 0 => m < n
  /\ times' = [IF strict THEN times ELSE None EXCEPT ![n] = @ + 1]
  /\ UNCHANGED strict

Switch == strict' \in BOOLEAN /\ UNCHANGED times

Restart == times' = None /\ strict' \in BOOLEAN

Next == (\E n \in Numbers : Execute(n)) \/ Switch \/ Restart

Spec == Init /\ [][Next]_vars
=============================================================================
