------------------------------ MODULE Restart ------------------------------
(***************************************************************************)
(* A restart of the board, from the loss of power to the next one: the     *)
(* boot loader runs, from its first instruction to START_APP()             *)
(* (boot/main.c), and then the firmware with its auxiliary power           *)
(* (bsm-2/main.c).  Both read the same card: one that the firmware cannot  *)
(* mount is for the loader one without a file.                             *)
(*                                                                         *)
(* The loader knows nothing of the auxiliary power: whatever it does with  *)
(* a load that brings the board down comes between the crash and the boot  *)
(* that must find POWER FAIL.                                              *)
(***************************************************************************)
EXTENDS BootHistory, PowerGuard

restartVars == <<bvars, powerVars>>

\* START_APP() has been reached.
Running == pc = "app"

RestartInit == BInit /\ PowerInit /\ (works \/ card = NoFile)

RunLoader == BLoader /\ UNCHANGED powerVars

RunMain == Running /\ MainStep /\ UNCHANGED bvars
RunRadio == Running /\ RadioStep /\ UNCHANGED bvars
RunCurr == Running /\ CurrStep /\ UNCHANGED bvars
RunOther == Running /\ (Command \/ Load) /\ UNCHANGED bvars

\* The power fails, the watchdog bites or the ground asks for a reset, in the
\* loader or in the firmware.
CutPower == BPowerUp /\ Crash /\ (works \/ card' = NoFile)

RestartNext == RunLoader \/ RunMain \/ RunRadio \/ RunCurr \/ RunOther \/ CutPower

\* The loader is alone; in the firmware every process that is ready runs in the end.
RestartSpec ==
  /\ RestartInit /\ [][RestartNext]_restartVars
  /\ WF_restartVars(RunLoader) /\ WF_restartVars(RunMain)
  /\ WF_restartVars(RunRadio) /\ WF_restartVars(RunCurr)
=============================================================================
