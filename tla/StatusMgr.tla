----------------------------- MODULE StatusMgr -----------------------------
(***************************************************************************)
(* The flight status (bsm-2/status_mgr.c) and the landing buzzer it starts *)
(* (bsm-2/landing_buz.c).                                                  *)
(*                                                                         *)
(* Every ten seconds the status process samples altitude and pressure,     *)
(* keeps moving averages of their changes and decides the status from the  *)
(* vertical direction and the altitude, both with hysteresis.  A mission   *)
(* start (a command, the START key) or a change of the configuration       *)
(* resets the same data from another process.  The kernel is cooperative:  *)
(* an action is the code between two points where a process may lose the   *)
(* CPU, the messages and timer_delay(); a label names the message that a   *)
(* process is sending.                                                     *)
(***************************************************************************)
EXTENDS Integers

CONSTANTS
  GroundAlt, TropopauseAlt, LandingAlt,   \* ground_alt, tropopause_alt, landing_alt
  AltHist,                                \* ALT_HIST
  RateUp, RateDown,    \* rate_up and rate_down, as metres over a full window
  MeanLen,             \* DELTA_MEAN_LEN
  Readings,            \* what the GPS and the pressure sensor may report
  Active               \* bound: which operators act

ASSUME StatusConstants ==
  /\ GroundAlt \in Int /\ TropopauseAlt \in Int /\ LandingAlt \in Int
  /\ AltHist \in Nat /\ RateUp \in Nat
  /\ RateDown \in Int /\ RateDown <= 0
  /\ MeanLen \in Nat \ {0}
  /\ Readings \subseteq [alt : Int, press : Int]
  /\ Active \subseteq {"radio", "main"}

Status == {"NOFIX", "GROUND_WAIT", "TAKEOFF", "STRATOPHERE_UP", "STRATOPHERE_FALL",
           "FALLING", "LANDING", "HOVERING"}
VertDir == {"HOVERING", "UP", "DOWN"}
Proc == {"status", "buzzer", "radio", "main"}
Operator == {"radio", "main"}

Label == {"wait", "test",        \* timer_delay(), or no command; testmode_run()
          "print",               \* status_set(): the new status
          "log", "clear",        \* status_reset(): its own message, the new status
          "beep", "expired",     \* landing_buz_start(), landing_buz_check()
          "buzlog",              \* landing_buz_reset()
          "start"}               \* status_missionStartAt()

VARIABLES
  status,     \* curr_status
  vdir,       \* curr_vdir
  prev,       \* prev_alt, prev_press
  window,     \* alt_delta and press_delta, which are pushed and reset together
  beep,       \* beep: the buzzer sounds
  overdue,    \* the mission has lasted longer than buz_timeout
  pc,         \* where each process is
  verdict,    \* the argument of status_set() while its message is sent
  restart     \* status_reset() was called by status_missionStartAt()

data == <<vdir, prev, window>>
vars == <<status, vdir, prev, window, beep, overdue, pc, verdict, restart>>

Reading == [alt : Int, press : Int]
Zero == [alt |-> 0, press |-> 0]
Plus(a, b) == [alt |-> a.alt + b.alt, press |-> a.press + b.press]
Minus(a, b) == [alt |-> a.alt - b.alt, press |-> a.press - b.press]

Goto(p, l) == pc' = [pc EXCEPT ![p] = l]
Testing == pc["main"] = "test"                      \* testmode()

-----------------------------------------------------------------------------
(* The decision.                                                            *)

TropopauseFixed(s) == TropopauseAlt                 \* mutant: no hysteresis
TropopauseLimit(s) ==
  CASE s = "STRATOPHERE_UP" -> TropopauseAlt - AltHist
    [] s = "FALLING" -> TropopauseAlt + AltHist
    [] OTHER -> TropopauseAlt

LandingLimit(s) == IF s = "LANDING" THEN LandingAlt + AltHist ELSE LandingAlt

\* vertical_dir(): the direction after d at this rate.
VerticalDir(d, rate) ==
  CASE rate > (IF d = "UP" THEN 0 ELSE RateUp) -> "UP"
    [] rate < (IF d = "DOWN" THEN 0 ELSE RateDown) -> "DOWN"
    [] OTHER -> "HOVERING"

\* The chain of status_check(), whose last branch asserts that it is never taken.
\* The code calls vertical_dir() in each test; VerticalDirSettles in StatusProofs
\* shows that the later calls return what the first one did.
Decide(s, d, alt) ==
  CASE d = "HOVERING" /\ alt < GroundAlt -> "GROUND_WAIT"
    [] d = "HOVERING" /\ alt >= GroundAlt -> "HOVERING"
    [] d = "UP" /\ alt < TropopauseLimit(s) -> "TAKEOFF"
    [] d = "UP" /\ alt >= TropopauseLimit(s) -> "STRATOPHERE_UP"
    [] d = "DOWN" /\ alt >= TropopauseLimit(s) -> "STRATOPHERE_FALL"
    [] d = "DOWN" /\ alt < TropopauseLimit(s) /\ alt < LandingLimit(s) -> "LANDING"
    [] d = "DOWN" /\ alt < TropopauseLimit(s) /\ alt >= LandingLimit(s) -> "FALLING"
    [] OTHER -> "assert"

\* The moving averages: MOVING_AVG_RESET, MOVING_AVG_EMPTY, MOVING_AVG_PUSH.
Emptied == [values |-> window.values, sum |-> Zero, cnt |-> 0, idx |-> 0]
Empty == window.cnt = 0

NextIdxLate(i) == IF i + 1 > MeanLen THEN 0 ELSE i + 1     \* mutant: off by one
NextIdx(i) == IF i + 1 >= MeanLen THEN 0 ELSE i + 1

KeepOldest(w) == w.sum                                      \* mutant: the sum only grows
DropOldest(w) == IF w.cnt >= MeanLen THEN Minus(w.sum, w.values[w.idx]) ELSE w.sum

Pushed(w, v) ==
  [values |-> [w.values EXCEPT ![w.idx] = v],
   sum |-> Plus(DropOldest(w), v),
   cnt |-> IF w.cnt < MeanLen THEN w.cnt + 1 ELSE w.cnt,
   idx |-> NextIdx(w.idx)]

\* The ascent over a full window: the GPS above the ground altitude, below it the
\* pressure, nine metres for every mbar lost.
Rate(w, alt) == IF alt >= GroundAlt THEN w.sum.alt ELSE -(9 * w.sum.press)

Init ==
  /\ status = "NOFIX"
  /\ vdir = "HOVERING"
  /\ prev = Zero
  /\ window = [values |-> [i \in 0..(MeanLen - 1) |-> Zero], sum |-> Zero, cnt |-> 0, idx |-> 0]
  /\ beep = FALSE
  /\ overdue = FALSE
  /\ \E m \in {"wait", "test"} : pc = [p \in Proc |-> IF p = "main" THEN m ELSE "wait"]
  /\ verdict = "NOFIX"
  /\ restart = [p \in Proc |-> FALSE]

-----------------------------------------------------------------------------
(* status_process().                                                        *)

\* landing_buz_start() from process p: a message first, if it does not beep yet.
StartAgain(p) == Goto(p, IF beep THEN "beep" ELSE "wait")   \* mutant: the test is negated
StartBuzzer(p) == Goto(p, IF beep THEN "wait" ELSE "beep")

NoFix ==
  /\ pc["status"] = "wait" /\ ~Testing
  /\ Goto("status", "log")
  /\ UNCHANGED <<status, data, beep, overdue, verdict, restart>>

\* Until the window is full the status stays what it was.
Check ==
  /\ pc["status"] = "wait" /\ ~Testing
  /\ \E r \in Readings :
       LET w == Pushed(window, IF Empty THEN Zero ELSE Minus(r, prev))
           d == VerticalDir(vdir, Rate(w, r.alt))
           v == Decide(status, d, r.alt) IN
       /\ prev' = r /\ window' = w
       /\ \/ /\ w.cnt < MeanLen
             /\ UNCHANGED <<vdir, pc, verdict>>
          \/ /\ w.cnt = MeanLen /\ v = status
             /\ vdir' = d
             /\ IF v = "LANDING" THEN StartBuzzer("status") ELSE UNCHANGED pc
             /\ UNCHANGED verdict
          \/ /\ w.cnt = MeanLen /\ v # status
             /\ vdir' = d
             /\ verdict' = v
             /\ Goto("status", "print")
  /\ UNCHANGED <<status, beep, overdue, restart>>

\* The message of status_set() is out: whatever happened meanwhile, the verdict
\* becomes the status.
SetStatus ==
  /\ pc["status"] = "print"
  /\ status' = verdict
  /\ verdict' = "NOFIX"
  /\ IF status' = "LANDING" THEN StartBuzzer("status") ELSE Goto("status", "wait")
  /\ UNCHANGED <<data, beep, overdue, restart>>

-----------------------------------------------------------------------------
(* status_reset(), run by the status process without a fix and by others.    *)

ResetData(p) ==
  /\ status' = "NOFIX"
  /\ window' = Emptied
  /\ vdir' = "HOVERING"
  /\ Goto(p, IF restart[p] THEN "buzlog" ELSE "wait")

ResetLogged(p) ==
  /\ pc[p] = "log"
  /\ IF status = "NOFIX" THEN ResetData(p)
     ELSE Goto(p, "clear") /\ UNCHANGED <<status, vdir, window>>
  /\ UNCHANGED <<prev, beep, overdue, verdict, restart>>

ResetPrinted(p) ==
  /\ pc[p] = "clear"
  /\ ResetData(p)
  /\ UNCHANGED <<prev, beep, overdue, verdict, restart>>

-----------------------------------------------------------------------------
(* The landing buzzer.                                                      *)

\* landing_buz_check(): the message of the timeout is sent once.
CheckTimeout ==
  /\ pc["buzzer"] = "wait" /\ overdue
  /\ Goto("buzzer", "expired") \/ StartBuzzer("buzzer")
  /\ UNCHANGED <<status, data, beep, overdue, verdict, restart>>

Expired ==
  /\ pc["buzzer"] = "expired"
  /\ StartBuzzer("buzzer")
  /\ UNCHANGED <<status, data, beep, overdue, verdict, restart>>

BuzzerOn(p) ==
  /\ pc[p] = "beep"
  /\ beep' = TRUE
  /\ Goto(p, "wait")
  /\ UNCHANGED <<status, data, overdue, verdict, restart>>

\* landing_buz_reset(), after its message.  A mission start goes on with
\* cutoff_reset(), the module Cutoff.
BuzzerReset(p) ==
  /\ pc[p] = "buzlog"
  /\ beep' = FALSE
  /\ restart' = [restart EXCEPT ![p] = FALSE]
  /\ Goto(p, "wait")
  /\ UNCHANGED <<status, data, overdue, verdict>>

Expire ==
  /\ overdue' = TRUE
  /\ UNCHANGED <<status, data, beep, pc, verdict, restart>>

-----------------------------------------------------------------------------
(* The operators: the radio process and the main loop.                       *)

MissionStart(p) ==
  /\ pc[p] = "wait" /\ p \in Active
  /\ Goto(p, "start")
  /\ UNCHANGED <<status, data, beep, overdue, verdict, restart>>

SetMissionStart(p) ==
  /\ pc[p] = "start"
  /\ overdue' = FALSE
  /\ restart' = [restart EXCEPT ![p] = TRUE]
  /\ Goto(p, "log")
  /\ UNCHANGED <<status, data, beep, verdict>>

\* A [status] or [landing_buz] section changed by command: status_reload(),
\* landing_buz_reload().
Reload ==
  /\ pc["radio"] = "wait" /\ "radio" \in Active
  /\ \E l \in {"log", "buzlog"} : Goto("radio", l)
  /\ UNCHANGED <<status, data, beep, overdue, verdict, restart>>

\* status_setTestStatus(), on the key in test mode, and the end of test mode.
TestStatus ==
  /\ Testing
  /\ status' \in Status
  /\ UNCHANGED <<data, beep, overdue, pc, verdict, restart>>

TestEnd ==
  /\ Testing
  /\ Goto("main", "wait")
  /\ UNCHANGED <<status, data, beep, overdue, verdict, restart>>

-----------------------------------------------------------------------------
Reset(p) == ResetLogged(p) \/ ResetPrinted(p)
StatusStep == NoFix \/ Check \/ SetStatus \/ Reset("status") \/ BuzzerOn("status")
BuzzerStep == CheckTimeout \/ Expired \/ BuzzerOn("buzzer")
OperatorStep(p) == SetMissionStart(p) \/ Reset(p) \/ BuzzerReset(p)

Next ==
  \/ StatusStep \/ BuzzerStep \/ Expire \/ Reload \/ TestStatus \/ TestEnd
  \/ \E p \in Operator : MissionStart(p) \/ OperatorStep(p)

\* Every process that is ready runs in the end; test mode lasts five minutes.
Fairness ==
  /\ WF_vars(StatusStep) /\ WF_vars(BuzzerStep) /\ WF_vars(TestEnd)
  /\ \A p \in Operator : WF_vars(OperatorStep(p))

Spec == Init /\ [][Next]_vars /\ Fairness

-----------------------------------------------------------------------------
(* Properties.                                                              *)

\* The type of every variable; in particular "assert", the last branch of the
\* chain of status_check(), is never the verdict.
TypeOK ==
  /\ status \in Status
  /\ vdir \in VertDir
  /\ prev \in Reading
  /\ window \in [values : [0..(MeanLen - 1) -> Reading], sum : Reading, cnt : 0..MeanLen, idx : 0..(MeanLen - 1)]
  /\ beep \in BOOLEAN
  /\ overdue \in BOOLEAN
  /\ pc \in [Proc -> Label]
  /\ verdict \in Status
  /\ restart \in [Proc -> BOOLEAN]

\* The two promises of conf.ini, whatever is reset meanwhile: the buzzer beeps in
\* any case after its timeout from the mission start, and it starts when the
\* balloon comes down to its landing altitude: once LANDING is decided it beeps,
\* though the status is announced before the buzzer is started.
BuzzerBeeps ==
  /\ overdue ~> (beep \/ ~overdue)
  /\ (pc["status"] = "print" /\ verdict = "LANDING") ~> beep

\* A comment in status_check(): stay in the previous state until there is a good
\* approximation of the ascent rate.  The code does not keep it: a verdict whose
\* message a reset overtakes becomes the status over an empty window.
StaysUntilFull ==
  [][status' # status /\ status' # "NOFIX" /\ ~Testing => window.cnt = MeanLen]_vars
=============================================================================
