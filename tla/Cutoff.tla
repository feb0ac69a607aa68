------------------------------- MODULE Cutoff -------------------------------
(***************************************************************************)
(* The wire cutter of the balloon (bsm-2/cutoff.c): the process that       *)
(* decides every second whether the flight must be terminated, the heater  *)
(* pulses that burn the wires, and the commands of the ground and of the   *)
(* START key that pause, resume, reset, restart or fire it by hand.        *)
(*                                                                         *)
(* The kernel is cooperative: a process loses the CPU only inside          *)
(* timer_delay() and inside the message functions (radio_printf, LOG_INFO),*)
(* which wait for semaphores, the SD card and the modem.  An action is the *)
(* code between two such points; while the cutoff process is at one of the *)
(* CPU-holding points no other process takes a step.                       *)
(*                                                                         *)
(* Time is counted in units of the period of the cutoff process.           *)
(***************************************************************************)
EXTENDS Integers

CONSTANTS
  MissionTimeout,  \* mission_timeout
  WarnTime,        \* how long before it the end of the mission is announced
  Timeout,         \* altitude_timeout, dist_timeout, altmax_timeout, by watch
  DeltaAltitude,   \* delta_altitude
  AltmaxMeters,    \* altmax_meters
  PauseTime,       \* PAUSE_TIME
  Rounds,          \* the three rounds of pulses of cutoff_procedure
  PulseOn,         \* how long a pulse heats a wire
  PulseOff,        \* the pause after each pulse
  TestPulse,       \* how long test mode drives the outputs
  MinAltitude,     \* MIN_ALTITUDE
  Readings,        \* what the GPS may report: altitude, and beyond dist_max or not
  MaxClock,        \* bound: the clock stops here, and every delay elapses
  MaxCommands      \* bound: how many commands and key presses arrive

Watch == {"dist", "alt", "maxalt"}
Channel == {0, 1}                        \* N_CUTOFF
Proc == {"cutoff", "radio", "main"}
Operator == {"radio", "main"}

Label == {"sleep", "warn", "check", "arm", "clear", "report", "fire",  \* cutoff_process
          "print", "on", "off",                                        \* cutoff_procedure
          "idle", "start", "status", "reset",                          \* commands, START key
          "test", "testpulse"}                                         \* testmode_run

ASSUME CutoffConstants ==
  /\ MissionTimeout \in Nat /\ WarnTime \in Nat /\ PauseTime \in Nat
  /\ Timeout \in [Watch -> Nat]
  /\ DeltaAltitude \in Nat /\ AltmaxMeters \in Nat
  /\ Rounds \in Nat \ {0} /\ PulseOn \in Nat /\ PulseOff \in Nat /\ TestPulse \in Nat
  /\ MinAltitude \in Int
  /\ Readings \subseteq [alt : Int, far : BOOLEAN] /\ Readings # {}
  /\ MaxClock \in Nat /\ MaxCommands \in Nat

VARIABLES
  clock,         \* timer_clock()
  flying,        \* the status is neither NOFIX nor GROUND_WAIT
  missionStart,  \* mission_start_ticks
  ko,            \* dist_ok/alt_ok/maxalt_ok with their *_ko_time
  altMax,        \* alt_max
  pauseTime,     \* cutoff_pause_time, 0 when not paused
  cut,           \* cut
  heater,        \* the PWM output of each channel
  pc,            \* where each process is
  at,            \* the range check the cutoff process is executing
  sample,        \* its locals now, curr_alt and the distance, while it runs
  pulse,         \* pulses a process has completed in cutoff_procedure
  wake,          \* when the timer_delay() of a process elapses
  stamp,         \* the argument of status_missionStartAt()
  commands       \* how many commands and key presses have arrived

control == <<pauseTime, cut>>
watches == <<ko, altMax>>
procs == <<pulse, wake>>
vars == <<clock, flying, missionStart, ko, altMax, pauseTime, cut, heater,
          pc, at, sample, pulse, wake, stamp, commands>>

NotArmed == -1         \* ko[w]: the check is "ok", its ko_time is not in use
NoSample == [now |-> 0, alt |-> MinAltitude, far |-> FALSE]
Pulses == 2 * Rounds

ChannelOf(k) == k % 2
Elapsed(p) == clock >= wake[p] \/ clock = MaxClock
Goto(p, l) == pc' = [pc EXCEPT ![p] = l]

Testing == pc["main"] \in {"test", "testpulse"}     \* testmode()
Overdue(now) == now - missionStart > MissionTimeout

PausedForever == pauseTime # 0                      \* mutant: a pause never expires
Paused == pauseTime # 0 /\ clock - pauseTime < PauseTime /\ clock < MaxClock

MayCutAgain == ~Testing                             \* mutant: cut is not looked at
MayCut == ~cut /\ ~Testing

\* CUTOFF_ENABLE(c, on)
EnableOnly(c, on) == heater' = [heater EXCEPT ![c] = TRUE]   \* mutant: "on" is ignored
Enable(c, on) == heater' = [heater EXCEPT ![c] = on]

LastPulse(p) == pulse[p] + 1 = Pulses

\* The cutoff process is between two yield points: nobody else runs.
Yielded == pc["cutoff"] \notin {"check", "fire"}

Init ==
  /\ clock = 1
  /\ flying = FALSE
  /\ missionStart = 1
  /\ ko = [w \in Watch |-> NotArmed]
  /\ altMax = MinAltitude
  /\ pauseTime = 0
  /\ cut = FALSE
  /\ heater = [c \in Channel |-> FALSE]
  /\ \E m \in {"idle", "test"} :
       pc = [p \in Proc |-> CASE p = "cutoff" -> "sleep" [] p = "radio" -> "idle" [] OTHER -> m]
  /\ at = "dist"
  /\ sample = NoSample
  /\ pulse = [p \in Proc |-> 0]
  /\ wake = [p \in Proc |-> 2]
  /\ stamp = [p \in Operator |-> 0]
  /\ commands = 0

-----------------------------------------------------------------------------
(* The environment: time and the flight status.                             *)

Tick ==
  /\ clock < MaxClock
  /\ clock' = clock + 1
  /\ UNCHANGED <<flying, missionStart, watches, control, heater, pc, at, sample, procs,
                 stamp, commands>>

StatusChange ==
  /\ Yielded
  /\ flying' = ~flying
  /\ UNCHANGED <<clock, missionStart, watches, control, heater, pc, at, sample, procs,
                 stamp, commands>>

-----------------------------------------------------------------------------
(* cutoff_process() and cutoff_check().                                     *)

\* The loop body is over: back to timer_delay(1000), its locals are gone.
Sleep ==
  /\ Goto("cutoff", "sleep")
  /\ wake' = [wake EXCEPT !["cutoff"] = clock + 1]
  /\ sample' = NoSample
  /\ at' = "dist"

\* cutoff_checkTime(): past the mission timeout the other checks are not
\* evaluated.  The message of the timeout and the one that warns of it are sent
\* once: a process that has already sent it goes on without yielding.
CheckTime(now) ==
  \/ Overdue(now) /\ \E l \in {"report", "fire"} : Goto("cutoff", l)
  \/ ~Overdue(now) /\ Goto("cutoff", "check")
  \/ ~Overdue(now) /\ Overdue(now + WarnTime) /\ Goto("cutoff", "warn")

Wake ==
  /\ pc["cutoff"] = "sleep" /\ Elapsed("cutoff")
  /\ \E r \in Readings : sample' = [now |-> clock, alt |-> r.alt, far |-> r.far]
  /\ CheckTime(clock)
  /\ UNCHANGED <<clock, flying, missionStart, watches, control, heater, at, procs, stamp, commands>>

\* The message is out: the process runs on.
Said ==
  /\ \/ pc["cutoff"] = "warn" /\ Goto("cutoff", "check")
     \/ pc["cutoff"] = "report" /\ Goto("cutoff", "fire")
  /\ UNCHANGED <<clock, flying, missionStart, watches, control, heater, at, sample, procs,
                 stamp, commands>>

Peak == IF flying /\ sample.alt > altMax THEN sample.alt ELSE altMax

OutOfRange(w) ==
  /\ flying
  /\ \/ w = "dist" /\ sample.far
     \/ w = "alt" /\ Peak - sample.alt > DeltaAltitude
     \/ w = "maxalt" /\ sample.alt > AltmaxMeters

\* This check is satisfied: on to the next operand of ||, or to the end.
NextCheck ==
  \/ /\ at # "maxalt"
     /\ at' = IF at = "dist" THEN "alt" ELSE "maxalt"
     /\ Goto("cutoff", "check")
     /\ UNCHANGED <<sample, wake>>
  \/ at = "maxalt" /\ Sleep

\* One of cutoff_checkDist(), cutoff_checkAltitude() and cutoff_checkMaxalt(), up
\* to the message it sends or to its return.
CheckRange ==
  /\ pc["cutoff"] = "check"
  /\ altMax' = IF at = "alt" THEN Peak ELSE altMax
  /\ LET out == OutOfRange(at)
         armed == ko[at] # NotArmed
         over == sample.now - ko[at] > Timeout[at] IN
       \/ /\ out /\ armed /\ over
          /\ \E l \in {"report", "fire"} : Goto("cutoff", l)
          /\ UNCHANGED <<at, sample, wake>>
       \/ /\ out # armed
          /\ Goto("cutoff", IF out THEN "arm" ELSE "clear")
          /\ UNCHANGED <<at, sample, wake>>
       \/ /\ out = armed /\ ~(out /\ over)
          /\ NextCheck
  /\ UNCHANGED <<clock, flying, missionStart, ko, control, heater, pulse, stamp, commands>>

\* The message of a range that is lost or found again is out: only now is the
\* countdown started, at the time of the sample, or cancelled.
StartCountdown ==
  /\ pc["cutoff"] = "arm"
  /\ ko' = [ko EXCEPT ![at] = sample.now]
  /\ NextCheck
  /\ UNCHANGED <<clock, flying, missionStart, altMax, control, heater, pulse, stamp, commands>>

ForgetRecovery ==                                   \* mutant: the flag stays false
  /\ pc["cutoff"] = "clear"
  /\ NextCheck
  /\ UNCHANGED <<clock, flying, missionStart, watches, control, heater, pulse, stamp, commands>>
CancelCountdown ==
  /\ pc["cutoff"] = "clear"
  /\ ko' = [ko EXCEPT ![at] = NotArmed]
  /\ NextCheck
  /\ UNCHANGED <<clock, flying, missionStart, altMax, control, heater, pulse, stamp, commands>>

\* A cutoff condition holds: pending while paused, else the wires are cut, once.
Fire ==
  /\ pc["cutoff"] = "fire"
  /\ \/ Paused /\ Sleep /\ UNCHANGED <<control, pulse>>
     \/ /\ ~Paused
        /\ pauseTime' = 0
        /\ \/ /\ MayCut                                 \* cutoff_cut()
              /\ cut' = TRUE
              /\ Goto("cutoff", "print")
              /\ pulse' = [pulse EXCEPT !["cutoff"] = 0]
              /\ sample' = NoSample /\ at' = "dist"
              /\ UNCHANGED wake
           \/ ~MayCut /\ Sleep /\ UNCHANGED <<cut, pulse>>
  /\ UNCHANGED <<clock, flying, missionStart, watches, heater, stamp, commands>>

-----------------------------------------------------------------------------
(* cutoff_procedure(0xdead), run by the cutoff process or, on command, by    *)
(* the radio process.                                                       *)

StartPulse(p) ==
  /\ pc[p] = "print" /\ Yielded
  /\ Enable(ChannelOf(pulse[p]), TRUE)
  /\ wake' = [wake EXCEPT ![p] = clock + PulseOn]
  /\ Goto(p, "on")
  /\ UNCHANGED <<clock, flying, missionStart, watches, control, at, sample, pulse, stamp, commands>>

EndPulse(p) ==
  /\ pc[p] = "on" /\ Elapsed(p) /\ Yielded
  /\ Enable(ChannelOf(pulse[p]), FALSE)
  /\ wake' = [wake EXCEPT ![p] = clock + PulseOff]
  /\ Goto(p, "off")
  /\ UNCHANGED <<clock, flying, missionStart, watches, control, at, sample, pulse, stamp, commands>>

NextPulse(p) ==
  /\ pc[p] = "off" /\ Elapsed(p) /\ Yielded
  /\ \/ /\ ~LastPulse(p)
        /\ pulse' = [pulse EXCEPT ![p] = @ + 1]
        /\ Goto(p, "print")
        /\ UNCHANGED wake
     \/ /\ LastPulse(p)
        /\ pulse' = [pulse EXCEPT ![p] = 0]
        /\ Goto(p, IF p = "cutoff" THEN "sleep" ELSE "idle")
        /\ wake' = [wake EXCEPT ![p] = clock + 1]
  /\ UNCHANGED <<clock, flying, missionStart, watches, control, heater, at, sample, stamp, commands>>

-----------------------------------------------------------------------------
(* Commands of the uplink, executed by the radio process, and the START key, *)
(* read by the main process.                                                *)

Arrives(p) ==
  /\ pc[p] = "idle" /\ Yielded /\ commands < MaxCommands
  /\ commands' = commands + 1

CmdCutoff ==
  /\ Arrives("radio")
  /\ Goto("radio", "print")
  /\ pulse' = [pulse EXCEPT !["radio"] = 0]
  /\ UNCHANGED <<clock, flying, missionStart, watches, control, heater, at, sample, wake, stamp>>

CmdPause ==
  /\ Arrives("radio")
  /\ pauseTime' = clock
  /\ UNCHANGED <<clock, flying, missionStart, watches, cut, heater, pc, at, sample, procs, stamp>>

CmdResume ==
  /\ Arrives("radio")
  /\ pauseTime' = 0
  /\ UNCHANGED <<clock, flying, missionStart, watches, cut, heater, pc, at, sample, procs, stamp>>

\* cutoff_reset(): the log message comes first, then everything is reset.  A
\* change of the [cutoff] configuration ends the same way.
CmdReset ==
  /\ Arrives("radio")
  /\ Goto("radio", "reset")
  /\ UNCHANGED <<clock, flying, missionStart, watches, control, heater, at, sample, procs, stamp>>

Reset(p) ==
  /\ pc[p] = "reset" /\ Yielded
  /\ ko' = [w \in Watch |-> NotArmed]
  /\ altMax' = MinAltitude
  /\ pauseTime' = 0
  /\ cut' = FALSE
  /\ Goto(p, "idle")
  /\ UNCHANGED <<clock, flying, missionStart, heater, at, sample, procs, stamp, commands>>

\* status_missionStart(): the command or the key.
MissionStart(p) ==
  /\ Arrives(p)
  /\ stamp' = [stamp EXCEPT ![p] = clock]
  /\ Goto(p, "start")
  /\ UNCHANGED <<clock, flying, missionStart, watches, control, heater, at, sample, procs>>

\* After its first message, the start time; after the next ones status_reset(),
\* then cutoff_reset().
SetMissionStart(p) ==
  /\ pc[p] = "start" /\ Yielded
  /\ missionStart' = stamp[p]
  /\ stamp' = [stamp EXCEPT ![p] = 0]
  /\ Goto(p, "status")
  /\ UNCHANGED <<clock, flying, watches, control, heater, at, sample, procs, commands>>

ResetStatus(p) ==
  /\ pc[p] = "status" /\ Yielded
  /\ flying' = FALSE
  /\ Goto(p, "reset")
  /\ UNCHANGED <<clock, missionStart, watches, control, heater, at, sample, procs,
                 stamp, commands>>

-----------------------------------------------------------------------------
(* Test mode: before the main loop, the START key drives every output.       *)

TestPulseOn ==
  /\ pc["main"] = "test" /\ Yielded /\ commands < MaxCommands
  /\ commands' = commands + 1
  /\ heater' = [c \in Channel |-> TRUE]
  /\ wake' = [wake EXCEPT !["main"] = clock + TestPulse]
  /\ Goto("main", "testpulse")
  /\ UNCHANGED <<clock, flying, missionStart, watches, control, at, sample, pulse, stamp>>

TestPulseOff ==
  /\ pc["main"] = "testpulse" /\ Elapsed("main") /\ Yielded
  /\ heater' = [c \in Channel |-> FALSE]
  /\ Goto("main", "test")
  /\ UNCHANGED <<clock, flying, missionStart, watches, control, at, sample, procs, stamp, commands>>

TestEnd ==
  /\ pc["main"] = "test" /\ Yielded
  /\ Goto("main", "idle")
  /\ UNCHANGED <<clock, flying, missionStart, watches, control, heater, at, sample, procs,
                 stamp, commands>>

-----------------------------------------------------------------------------
Procedure(p) == StartPulse(p) \/ EndPulse(p) \/ NextPulse(p)

CutoffStep ==
  Wake \/ Said \/ CheckRange \/ StartCountdown \/ CancelCountdown \/ Fire \/ Procedure("cutoff")

Restart(p) == SetMissionStart(p) \/ ResetStatus(p) \/ Reset(p)

RadioStep == Procedure("radio") \/ Restart("radio")

MainStep == TestPulseOff \/ TestEnd \/ Restart("main")

Request ==
  \/ CmdCutoff \/ CmdPause \/ CmdResume \/ CmdReset
  \/ \E p \in Operator : MissionStart(p)
  \/ TestPulseOn

Next == Tick \/ StatusChange \/ CutoffStep \/ RadioStep \/ MainStep \/ Request

\* The timer interrupt never stops, and the ready list is first-in first-out: a
\* process that is ready stays so until it runs, however often others hold the
\* CPU before it.
Fairness == WF_vars(Tick) /\ WF_vars(CutoffStep) /\ SF_vars(RadioStep) /\ SF_vars(MainStep)

Spec == Init /\ [][Next]_vars /\ Fairness

-----------------------------------------------------------------------------
(* Properties.                                                              *)

\* The type of every variable.
TypeOK ==
  /\ clock \in Nat
  /\ flying \in BOOLEAN
  /\ missionStart \in Nat
  /\ ko \in [Watch -> Int]
  /\ altMax \in Int
  /\ pauseTime \in Nat
  /\ cut \in BOOLEAN
  /\ heater \in [Channel -> BOOLEAN]
  /\ pc \in [Proc -> Label]
  /\ at \in Watch
  /\ sample \in [now : Nat, alt : Int, far : BOOLEAN]
  /\ pulse \in [Proc -> 0..(Pulses - 1)]
  /\ wake \in [Proc -> Nat]
  /\ stamp \in [Operator -> Nat]
  /\ commands \in Nat

InPulse(p, c) == pc[p] = "on" /\ ChannelOf(pulse[p]) = c

\* A wire is heated only while somebody is there to switch it off: a process
\* inside a pulse on that very channel, or test mode in its five seconds.  The
\* automatic procedure, the one of the "cutoff" command and the test pulses all
\* drive the same two outputs and may overlap in any order.
WireHeld ==
  \A c \in Channel :
    heater[c] => InPulse("cutoff", c) \/ InPulse("radio", c) \/ pc["main"] = "testpulse"

\* Every heated wire is switched off again, whatever overlaps.
WireReleased == \A c \in Channel : heater[c] ~> ~heater[c]

\* conf.ini promises that the cutoff is activated when the mission time elapses.
\* A pause, a procedure run by hand or test mode only defer it; a new mission
\* start revokes it.
MissionTimeoutCuts ==
  (clock - missionStart > MissionTimeout) ~> (cut \/ clock - missionStart <= MissionTimeout)
=============================================================================
