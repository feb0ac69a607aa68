------------------------------ MODULE GpsClock ------------------------------
(***************************************************************************)
(* The clock of the flight computer (bsm-2/gps.c), which dates every       *)
(* message and every line of the log.                                      *)
(*                                                                         *)
(* The GPS process sets it from each sentence with a fix.  Without one the *)
(* time process advances it by a second in every lap; it also notices that *)
(* the receiver has fallen silent, and then makes up for the seconds that  *)
(* it did not count while it still believed in the fix.                    *)
(*                                                                         *)
(* The clock is kept here as its lead over the true time of day, which is  *)
(* what matters of it; the time from a sentence may be old when it is      *)
(* read.  Midnight, when the time of the receiver starts again from zero,  *)
(* is left out: Radio has a clock that jumps at will.                      *)
(***************************************************************************)
EXTENDS Integers

CONSTANTS
  Second,    \* units of time in a second
  Late,      \* how late a lap of the time process may end: timer_delay() and
             \* the other processes, which the watchdog bounds
  MaxDelay,  \* how long ago the second in a sentence began when it is read
  MaxLag     \* bound: time stops when the clock is that far behind

ASSUME GpsConstants ==
  /\ Second \in Nat \ {0}
  /\ Late \in Nat /\ MaxDelay \in Nat /\ MaxLag \in Nat

VARIABLES
  fix,      \* gps_fix
  known,    \* the clock has been set
  ahead,    \* gps_clock less the true time, once it has been set
  silent,   \* the time since last_heard, which only matters with a fix
  lap       \* the time since the time process began its delay

clockVars == <<fix, known, ahead, silent, lap>>

ClockInit ==
  /\ fix = FALSE /\ known = FALSE
  /\ ahead = 0 /\ silent = 0 /\ lap = 0

(* Time goes on; the time process runs at the latest after Second + Late.       *)
ClockTick ==
  /\ lap < Second + Late
  /\ ahead > -MaxLag
  /\ lap' = lap + 1
  /\ silent' = IF fix THEN silent + 1 ELSE silent
  /\ ahead' = IF known THEN ahead - 1 ELSE ahead
  /\ UNCHANGED <<fix, known>>

(* aprs_gpgga(): a sentence with a fix, in a second that began age ago.         *)
GoodSentence(age) ==
  /\ fix' = TRUE /\ known' = TRUE
  /\ ahead' = -age
  /\ silent' = 0
  /\ UNCHANGED lap

(* aprs_gpgga(): a sentence without.                                            *)
BadSentence ==
  /\ fix' = FALSE
  /\ silent' = 0
  /\ UNCHANGED <<known, ahead, lap>>

Sentence == BadSentence \/ \E age \in 0..MaxDelay : GoodSentence(age)

\* The seconds without a sentence after which the fix is given up.
Silence == 10

\* mutant: a silence is found too late
QuietLate == silent > (Silence + 2) * Second

Quiet == silent > Silence * Second

\* mutant: the silence is not made up for
MadeUpNothing == 0

\* The seconds of a silence that the time process adds on top of its own.
MadeUp == 9

Advanced(seconds) == IF known THEN ahead + seconds * Second ELSE ahead

\* mutant: the clock is advanced at every lap, with a fix or without
LapAlways ==
  /\ lap >= Second
  /\ lap' = 0
  /\ \/ fix /\ Quiet /\ fix' = FALSE /\ silent' = 0 /\ ahead' = Advanced(MadeUp + 1)
     \/ ~(fix /\ Quiet) /\ ahead' = Advanced(1) /\ UNCHANGED <<fix, silent>>
  /\ UNCHANGED known

(* time_process(): one lap.                                                     *)
Lap ==
  /\ lap >= Second
  /\ lap' = 0
  /\ \/ /\ fix /\ Quiet
        /\ fix' = FALSE /\ silent' = 0
        /\ ahead' = Advanced(MadeUp + 1)
     \/ /\ fix /\ ~Quiet
        /\ UNCHANGED <<fix, silent, ahead>>
     \/ /\ ~fix
        /\ ahead' = Advanced(1)
        /\ UNCHANGED <<fix, silent>>
  /\ UNCHANGED known

ClockNext == ClockTick \/ Sentence \/ Lap

ClockSpec == ClockInit /\ [][ClockNext]_clockVars

-----------------------------------------------------------------------------

(* Every variable keeps its type, and there is no fix without a clock.          *)
ClockTypeOK ==
  /\ fix \in BOOLEAN /\ known \in BOOLEAN
  /\ ahead \in Int /\ silent \in Nat
  /\ lap \in 0..Second + Late
  /\ fix => known

(* The clock is never more than a second ahead of the true time, however fixes  *)
(* come and go around a lap of the time process, and however many seconds it    *)
(* adds at once: when a fix comes back, a date may repeat by a second at most   *)
(* (gps_clock in aprs_gpgga() and time_process()).                              *)
NeverAhead == known => ahead <= Second

(* Where the firmware believes in a fix, it has heard from the receiver within  *)
(* the ten seconds and a lap: the position that status, cutter and telemetry    *)
(* read is no older (gps_fixed()).                                              *)
FixFresh == fix => silent <= Silence * Second + Second + Late

(* When the fix is given up for silence, the clock is right again but for the   *)
(* lap that noticed it and the age of the last sentence (gps_clock += 9).       *)
CatchesUp ==
  [][ fix /\ ~fix' /\ Lap => ahead' >= -(Second + Late + MaxDelay) ]_clockVars
=============================================================================
