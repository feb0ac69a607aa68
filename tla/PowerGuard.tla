----------------------------- MODULE PowerGuard -----------------------------
(***************************************************************************)
(* The power of the auxiliary devices (bsm-2/measures.c) and the file that *)
(* remembers, across a crash of the board, that switching it on was tried  *)
(* (bsm-2/logging.c).                                                      *)
(*                                                                         *)
(* Before the power is switched on the file says POWER FAIL, and POWER OK  *)
(* only a second later: if the load brings the board down, the next boot   *)
(* finds POWER FAIL and leaves it off.  Test mode (bsm-2/testmode.c) goes  *)
(* around the file: it switches the output itself.  The boot, the commands *)
(* of the radio process and the overcurrent check of curr_process() meet   *)
(* on these data; a label names what a process waits for, a message, the   *)
(* SD card or timer_delay().                                               *)
(***************************************************************************)

Proc == {"main", "radio", "curr"}
Switcher == {"main", "radio"}        \* who may switch the power on

PowerLabel == {"init", "create",          \* logging_initPower()
          "reload", "prev", "unclean", \* measures_reload()
          "reset",                   \* curr_reset()
          "pend", "power", "settle", \* power_enable(true)
          "test", "tested",          \* testmode_run(), and with the START key down
          "idle",                    \* the main loop, no command, timer_delay(1000)
          "report"}                  \* curr_process()

VARIABLES
  works,       \* the SD card works
  file,       \* what pwr_stat.log says
  aux,        \* aux_out(): the power is on
  override,   \* curr_override
  logged,     \* curr_logged
  over,       \* the current is above curr_limit
  at,         \* where each process is
  tripped,    \* history: the board crashed while power_enable() was switching the
              \* power on, and no switching on has succeeded since
  asked       \* history: since the boot somebody has asked for the power, the
              \* ground or with the START key in test mode

powerVars == <<works, file, aux, override, logged, over, at, tripped, asked>>
history == <<tripped, asked>>

Goto(p, l) == at' = [at EXCEPT ![p] = l]
Booting == at["main"] \notin {"test", "tested", "idle"}
Window(p) == at[p] \in {"power", "settle"}

\* What follows the reload: in the boot test mode if the configuration file says so,
\* which takes a card.
After(p) == IF p = "main" /\ works THEN {"test", "idle"} ELSE {"idle"}

\* A write is lost without a card.
WriteStat(text) == file' = IF works THEN text ELSE file

\* logging_checkPreviousPowerStatus()
NotFailed == file # "FAIL"                          \* mutant: an unreadable file is clean
Clean == works /\ file = "OK"

AtBoot == [p \in Proc |-> IF p = "main" THEN "init" ELSE "idle"]

PowerInit ==
  /\ works \in BOOLEAN /\ file \in {"none", "OK"}
  /\ over = FALSE
  /\ aux = FALSE /\ override = FALSE /\ logged = FALSE
  /\ at = AtBoot
  /\ tripped = FALSE /\ asked = FALSE

-----------------------------------------------------------------------------
(* The boot: logging_initPower(), then measures_init().                      *)

InitPower ==
  /\ at["main"] = "init"
  /\ IF works /\ file = "none" THEN file' = "empty" /\ Goto("main", "create")
     ELSE UNCHANGED file /\ Goto("main", "reload")
  /\ UNCHANGED <<works, aux, override, logged, over, history>>

Create ==
  /\ at["main"] = "create"
  /\ WriteStat("OK")
  /\ Goto("main", "reload")
  /\ UNCHANGED <<works, aux, override, logged, over, history>>

\* measures_reload(): curr_reset(), then the power as the file allows.
Reload(p) ==
  /\ at[p] = "reload"
  /\ override' = FALSE /\ logged' = FALSE
  /\ Goto(p, "prev")
  /\ UNCHANGED <<works, file, aux, over, history>>

CheckPrevious(p) ==
  /\ at[p] = "prev"
  /\ Goto(p, IF Clean THEN "pend" ELSE "unclean")
  /\ UNCHANGED <<works, file, aux, override, logged, over, history>>

\* After its message, cmd_curr_override(0).
Unclean(p) ==
  /\ at[p] = "unclean"
  /\ override' = TRUE /\ aux' = FALSE
  /\ \E l \in After(p) : Goto(p, l)
  /\ UNCHANGED <<works, file, logged, over, history>>

-----------------------------------------------------------------------------
(* power_enable(true).                                                      *)

Pend(p) ==
  /\ at[p] = "pend"
  /\ WriteStat("FAIL")
  /\ Goto(p, "power")
  /\ UNCHANGED <<works, aux, override, logged, over, history>>

SwitchOn(p) ==
  /\ at[p] = "power"
  /\ aux' = TRUE
  /\ Goto(p, "settle")
  /\ UNCHANGED <<works, file, override, logged, over, history>>

\* The second has passed without a crash.
Settle(p) ==
  /\ at[p] = "settle"
  /\ WriteStat("OK")
  /\ tripped' = FALSE
  /\ \E l \in After(p) : Goto(p, l)
  /\ UNCHANGED <<works, aux, override, logged, over, asked>>

-----------------------------------------------------------------------------
(* Test mode: the output is switched without the file, for five seconds.    *)

TestOn ==
  /\ at["main"] = "test"
  /\ aux' = TRUE /\ asked' = TRUE
  /\ Goto("main", "tested")
  /\ UNCHANGED <<works, file, override, logged, over, tripped>>

TestOff ==
  /\ at["main"] = "tested"
  /\ aux' = FALSE
  /\ Goto("main", "test")
  /\ UNCHANGED <<works, file, override, logged, over, history>>

\* Five minutes have passed.
TestEnd ==
  /\ at["main"] = "test"
  /\ Goto("main", "idle")
  /\ UNCHANGED <<works, file, aux, override, logged, over, history>>

-----------------------------------------------------------------------------
(* The commands.                                                            *)

Override(on) ==
  /\ ~Booting /\ at["radio"] = "idle"
  /\ override' = TRUE
  /\ IF on THEN asked' = TRUE /\ Goto("radio", "pend") /\ UNCHANGED aux
     ELSE aux' = FALSE /\ UNCHANGED <<at, asked>>
  /\ UNCHANGED <<works, file, logged, over, tripped>>

CmdReset ==
  /\ ~Booting /\ at["radio"] = "idle"
  /\ asked' = TRUE
  /\ Goto("radio", "reset")
  /\ UNCHANGED <<works, file, aux, override, logged, over, tripped>>

\* curr_reset(), after its message.
CurrReset ==
  /\ at["radio"] = "reset"
  /\ override' = FALSE /\ logged' = FALSE
  /\ Goto("radio", "pend")
  /\ UNCHANGED <<works, file, aux, over, history>>

\* The [measures] section changed by command.
ConfReload ==
  /\ ~Booting /\ at["radio"] = "idle"
  /\ Goto("radio", "reload")
  /\ UNCHANGED <<works, file, aux, override, logged, over, history>>

-----------------------------------------------------------------------------
(* curr_process(), the load and the board.                                   *)

CheckReported ==                                    \* mutant: off only if not yet reported
  /\ ~Booting /\ at["curr"] = "idle"
  /\ ~override /\ over /\ ~logged
  /\ aux' = FALSE
  /\ Goto("curr", "report")
  /\ UNCHANGED <<works, file, override, logged, over, history>>
CheckCurrent ==
  /\ ~Booting /\ at["curr"] = "idle"
  /\ ~override /\ over
  /\ aux' = FALSE
  /\ IF logged THEN UNCHANGED at ELSE Goto("curr", "report")
  /\ UNCHANGED <<works, file, override, logged, over, history>>

Reported ==
  /\ at["curr"] = "report"
  /\ logged' = TRUE
  /\ Goto("curr", "idle")
  /\ UNCHANGED <<works, file, aux, override, over, history>>

Load ==
  /\ over' = ~over
  /\ UNCHANGED <<works, file, aux, override, logged, at, history>>

\* A brown-out, the watchdog or the reset command: only the file survives.
Crash ==
  /\ aux' = FALSE /\ override' = FALSE /\ logged' = FALSE /\ asked' = FALSE
  /\ at' = AtBoot
  /\ tripped' = (tripped \/ \E p \in Switcher : Window(p))
  /\ UNCHANGED <<works, file, over>>

-----------------------------------------------------------------------------
Switching(p) ==
  Reload(p) \/ CheckPrevious(p) \/ Unclean(p) \/ Pend(p) \/ SwitchOn(p) \/ Settle(p)
MainStep == InitPower \/ Create \/ Switching("main") \/ TestOff \/ TestEnd
RadioStep == CurrReset \/ Switching("radio")
CurrStep == CheckCurrent \/ Reported
Command == (\E on \in BOOLEAN : Override(on)) \/ CmdReset \/ ConfReload \/ TestOn

PowerNext == MainStep \/ RadioStep \/ CurrStep \/ Command \/ Load \/ Crash

\* Every process that is ready runs in the end.
Fairness == WF_powerVars(MainStep) /\ WF_powerVars(RadioStep) /\ WF_powerVars(CurrStep)

PowerSpec == PowerInit /\ [][PowerNext]_powerVars /\ Fairness

-----------------------------------------------------------------------------
(* Properties.                                                              *)

\* The type of every variable.
PowerTypeOK ==
  /\ works \in BOOLEAN /\ file \in {"none", "empty", "FAIL", "OK"}
  /\ aux \in BOOLEAN /\ override \in BOOLEAN /\ logged \in BOOLEAN /\ over \in BOOLEAN
  /\ at \in [Proc -> PowerLabel]
  /\ at["main"] # "report" /\ at["curr"] \in {"idle", "report"}
  /\ at["radio"] \notin {"init", "create", "test", "tested", "report"}
  /\ tripped \in BOOLEAN /\ asked \in BOOLEAN

\* A load that brings the board down while power_enable() switches it on is not
\* powered again by the boots that follow, however many crashes there are and at
\* whatever step they come, in test mode too: only the ground or the START key can ask
\* for it.  Of a crash under test mode's own switching nothing is remembered.
NoPowerLoop == tripped /\ ~asked => ~aux

\* The check of the current never leaves an overloaded output on, whatever the
\* commands, the boot and the messages of the check itself interleave.
OvercurrentCut == (aux /\ over /\ ~override) ~> (~aux \/ ~over \/ override)
=============================================================================
