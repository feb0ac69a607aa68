------------------------------- MODULE MCRadio -------------------------------
(* Small instances of Radio for TLC: one process that talks beside the radio  *)
(* and the main process, a clock that stands still, advances or jumps back.   *)
EXTENDS RadioHistory

MCTime == 0..9
=============================================================================
