----------------------------- MODULE Telemetry -----------------------------
(***************************************************************************)
(* The pacing of the telemetry: radio_process() of bsm-2/radio.c.          *)
(*                                                                         *)
(* The radio process looks at the clock ten times a second, between the    *)
(* messages of the ground that it executes and whatever keeps it busy: its *)
(* own transmissions, and those of other processes that it waits for.  It  *)
(* sends a telemetry when more than a period has passed since start, and   *)
(* lets start catch up by whole periods.  The period depends on the        *)
(* mission time, the status and the configuration, which change any time.  *)
(*                                                                         *)
(* Time is relative: age is the present time less start.  The clock stands *)
(* still in the loop, which compares with a clock it has read before.      *)
(***************************************************************************)
EXTENDS Integers

CONSTANTS
  Intervals,    \* values of aprs_interval
  SetupTime,    \* STARTUP_SETUP_TIME
  SetupDelay,   \* STARTUP_SETUP_DELAY
  MaxAge        \* bound: the radio process is not kept busy for longer

VARIABLES
  at,         \* poll: between two rounds; late: in the loop; send: telemetry
  age,        \* timer_clock() - start
  delay,
  mission,    \* status_missionTime(), as far as SetupTime
  relaxed,    \* the status is BSM2_NOFIX or BSM2_GROUND_WAIT
  interval,   \* aprs_interval
  testing     \* testmode()

vars == <<at, age, delay, mission, relaxed, interval, testing>>

Periods == {SetupDelay} \cup Intervals \cup {4 * i : i \in Intervals}

ASSUME TelemetryConstants ==
  /\ Intervals \subseteq Nat \ {0} /\ Intervals # {}
  /\ SetupTime \in Nat /\ SetupDelay \in Nat \ {0}
  /\ MaxAge \in Nat

Init ==
  /\ at = "poll" /\ age = 0 /\ delay = 0
  /\ mission = 0 /\ relaxed = TRUE /\ testing = FALSE
  /\ interval \in Intervals

\* mutant: no period without a fix
PeriodNone == IF relaxed THEN 0 ELSE interval

Period ==
  IF mission < SetupTime THEN SetupDelay
  ELSE IF relaxed THEN 4 * interval
  ELSE interval

(* A round with nothing to send, also in test mode, where it is not looked at.  *)
Rest ==
  /\ at = "poll" /\ ~testing
  /\ age <= Period
  /\ delay' = Period
  /\ UNCHANGED <<at, age, mission, relaxed, interval, testing>>

(* A round that finds the telemetry due.                                        *)
Due ==
  /\ at = "poll" /\ ~testing
  /\ age > Period
  /\ delay' = Period
  /\ at' = "late"
  /\ UNCHANGED <<age, mission, relaxed, interval, testing>>

\* mutant: start runs ahead of the clock
SkipPast ==
  /\ at = "late" /\ age > delay
  /\ age' = age - 2 * delay
  /\ UNCHANGED <<at, delay, mission, relaxed, interval, testing>>

\* mutant: start only catches up to where the next telemetry is due
SkipToDue ==
  /\ at = "late" /\ age > delay
  /\ age' = delay
  /\ UNCHANGED <<at, delay, mission, relaxed, interval, testing>>

(* start += delay                                                               *)
Skip ==
  /\ at = "late" /\ age > delay
  /\ age' = age - delay
  /\ UNCHANGED <<at, delay, mission, relaxed, interval, testing>>

(* radio_sendTelemetry(), which takes as long as the radio is busy.             *)
Send ==
  /\ at = "late" /\ age <= delay
  /\ at' = "send"
  /\ UNCHANGED <<age, delay, mission, relaxed, interval, testing>>

Sent ==
  /\ at = "send"
  /\ at' = "poll"
  /\ UNCHANGED <<age, delay, mission, relaxed, interval, testing>>

(* A radio command that changes aprs_interval: executed inside ax25_poll().     *)
Configure ==
  /\ at = "poll"
  /\ interval' \in Intervals \ {interval}
  /\ UNCHANGED <<at, age, delay, mission, relaxed, testing>>

(* The other processes; the loop itself does not yield to them.                 *)
StatusChange ==
  /\ at # "late"
  /\ relaxed' = ~relaxed
  /\ UNCHANGED <<at, age, delay, mission, interval, testing>>

(* status_missionStartAt(): the time was taken before the message.              *)
MissionStart ==
  /\ at # "late"
  /\ mission' \in 0..mission
  /\ UNCHANGED <<at, age, delay, relaxed, interval, testing>>

TestMode ==
  /\ at # "late"
  /\ testing' = ~testing
  /\ UNCHANGED <<at, age, delay, mission, relaxed, interval>>

Tick ==
  /\ at # "late"
  /\ age < MaxAge
  /\ age' = age + 1
  /\ mission' = IF mission < SetupTime THEN mission + 1 ELSE mission
  /\ UNCHANGED <<at, delay, relaxed, interval, testing>>

RadioProcess == Rest \/ Due \/ Skip \/ Send \/ Sent

Next ==
  \/ Tick
  \/ Rest \/ Due \/ Skip \/ Send \/ Sent
  \/ Configure
  \/ StatusChange \/ MissionStart \/ TestMode

Spec == Init /\ [][Next]_vars /\ WF_vars(Tick) /\ WF_vars(RadioProcess)

-----------------------------------------------------------------------------

(* Every variable keeps its type; in particular start stays in the past, so     *)
(* that the difference of the two clocks never turns negative.                  *)
TypeOK ==
  /\ at \in {"poll", "late", "send"}
  /\ age \in Nat
  /\ delay \in Periods \cup {0}
  /\ mission \in 0..SetupTime
  /\ relaxed \in BOOLEAN /\ testing \in BOOLEAN
  /\ interval \in Intervals

(* The telemetry does not fall silent outside test mode, however the mission is *)
(* restarted and the period stretched meanwhile (radio_process()).              *)
Regular == []<>(at = "send" \/ testing)
=============================================================================
