----------------------------- MODULE TimingProofs -----------------------------
(***************************************************************************)
(* Proofs about the two clocks of the radio.  Telemetry and                *)
(* TelemetryHistory: when a telemetry is sent, for any intervals, set-up   *)
(* time and delay, and any time for which the radio is busy.  GpsClock:    *)
(* what time it carries, for any lateness of the time process and of the   *)
(* sentences.                                                              *)
(***************************************************************************)
EXTENDS TelemetryHistory, GpsClock, TLAPS

-----------------------------------------------------------------------------
(* The pacing.                                                               *)

\* Between rounds start is before the last telemetry.
SinceInv ==
  /\ at # "late" /\ ever => since < age
  /\ at = "late" => age > 0 /\ delay \in Periods

\* Every telemetry of the window has moved start by a period; in the loop, the
\* last period moved is that of the telemetry to come.
OwedInv ==
  /\ count > 0 => (count - 1) * Shortest + age <= window + Longest
  /\ at = "late" /\ age <= delay /\ count > 0 =>
       count * Shortest + age <= window + Longest

PaceInv ==
  /\ TypeOK
  /\ ever \in BOOLEAN /\ since \in Nat /\ window \in Nat /\ count \in Nat
  /\ SinceInv /\ OwedInv

LEMMA PeriodFacts ==
  /\ \A p \in Periods : p \in Nat \ {0} /\ Shortest <= p /\ p <= Longest
  /\ TypeOK => Period \in Periods
<1>1. \A i \in Intervals : 4 * i \in Nat \ {0}
  BY TelemetryConstants
<1> QED
  BY <1>1, TelemetryConstants, PeriodBounds DEF Periods, Period, TypeOK

LEMMA Distributes ==
  ASSUME NEW n \in Nat, NEW d \in Nat
  PROVE  /\ n * d \in Nat
         /\ (n + 1) * d = n * d + d
         /\ (n - 1) * d = n * d - d
         /\ 0 * d = 0
  OBVIOUS

LEMMA InitInv == HInit => PaceInv
<1> SUFFICES ASSUME HInit PROVE PaceInv
  OBVIOUS
<1>1. TypeOK
  <2>1. relaxed \in BOOLEAN /\ testing \in BOOLEAN /\ interval \in Intervals
    BY DEF HInit, Init
  <2>2. age \in Nat /\ mission \in 0..SetupTime
    BY TelemetryConstants DEF HInit, Init
  <2> QED
    BY <2>1, <2>2 DEF HInit, Init, TypeOK
<1>2. ever \in BOOLEAN /\ ~ever
  BY DEF HInit
<1>3. since = 0 /\ window = 0 /\ count = 0 /\ at = "poll"
  BY DEF HInit, Init
<1>4. SinceInv /\ OwedInv
  BY <1>2, <1>3 DEF SinceInv, OwedInv
<1> QED
  BY <1>1, <1>2, <1>3, <1>4 DEF PaceInv

LEMMA StepInv == PaceInv /\ [HNext]_hvars => PaceInv'
<1> SUFFICES ASSUME PaceInv, [HNext]_hvars PROVE PaceInv'
  OBVIOUS
<1> DEFINE owed == count * Shortest
           history == UNCHANGED <<ever, since, window, count>>
<1>0. /\ owed \in Nat /\ Shortest \in Nat \ {0} /\ Longest \in Nat
      /\ (count - 1) * Shortest = owed - Shortest
      /\ (count + 1) * Shortest = owed + Shortest
  BY Distributes, PeriodBounds DEF PaceInv
<1>a. /\ count > 0 => owed - Shortest + age <= window + Longest
      /\ at = "late" /\ age <= delay /\ count > 0 => owed + age <= window + Longest
  BY <1>0 DEF PaceInv, OwedInv
<1> USE TelemetryConstants
<1>1. CASE Mark
  <2>1. TypeOK' /\ SinceInv'
    BY <1>1 DEF Mark, vars, PaceInv, TypeOK, SinceInv
  <2> QED
    BY <1>1, <2>1 DEF Mark, vars, PaceInv, OwedInv
<1>2. CASE HTick
  <2>1. TypeOK'
    BY <1>2 DEF HTick, Tick, PaceInv, TypeOK
  <2>2. SinceInv'
    BY <1>2 DEF HTick, Tick, PaceInv, TypeOK, SinceInv
  <2>3. OwedInv'
    <3>1. count' = count /\ window' = window + 1 /\ age' = age + 1 /\ at' = at /\ at # "late"
      BY <1>2 DEF HTick, Tick
    <3>2. (count' - 1) * Shortest = owed - Shortest
      BY <3>1, <1>0
    <3>3. age \in Nat /\ window \in Nat
      BY DEF PaceInv, TypeOK
    <3> HIDE DEF owed
    <3> QED
      BY <3>1, <3>2, <3>3, <1>0, <1>a DEF OwedInv
  <2> QED
    BY <1>2, <2>1, <2>2, <2>3 DEF HTick, PaceInv
<1>3. CASE HSend
  <2>1. TypeOK' /\ SinceInv'
    BY <1>3 DEF HSend, Send, PaceInv, TypeOK, SinceInv
  <2>2. OwedInv'
    <3>1. /\ count' = count + 1 /\ window' = window /\ age' = age
          /\ at = "late" /\ at' = "send" /\ age <= delay
      BY <1>3 DEF HSend, Send
    <3>2. delay \in Nat /\ delay <= Longest /\ age \in Nat /\ window \in Nat /\ count \in Nat
      BY <3>1, PeriodFacts DEF PaceInv, TypeOK, SinceInv
    <3>3. (count' - 1) * Shortest = owed
      BY <3>1, <3>2
    <3>4. count = 0 => owed = 0
      BY Distributes, <1>0
    <3>5. (count' - 1) * Shortest + age' <= window' + Longest
      <4>1. owed + age <= window + Longest
        <5> HIDE DEF owed
        <5>1. CASE count = 0
          BY <5>1, <3>1, <3>2, <3>4, <1>0
        <5>2. CASE count > 0
          BY <5>2, <3>1, <1>a
        <5> QED
          BY <5>1, <5>2, <3>2
      <4> HIDE DEF owed
      <4> QED
        BY <4>1, <3>1, <3>3
    <3> QED
      BY <3>5, <3>1 DEF OwedInv
  <2> QED
    BY <1>3, <2>1, <2>2 DEF HSend, PaceInv
<1>4. ASSUME Skip, history PROVE PaceInv'
  <2>1. /\ delay \in Periods /\ delay \in Nat \ {0} /\ Shortest <= delay
        /\ age \in Nat /\ age > delay /\ age' = age - delay
        /\ at = "late" /\ at' = "late" /\ delay' = delay
    BY <1>4, PeriodFacts DEF Skip, PaceInv, TypeOK, SinceInv
  <2>2. TypeOK'
    BY <2>1, <1>4 DEF Skip, PaceInv, TypeOK
  <2>3. SinceInv'
    BY <2>1 DEF SinceInv
  <2>4. OwedInv'
    <3>1. (count' - 1) * Shortest = owed - Shortest /\ count' * Shortest = owed
      BY <1>4, <1>0
    <3>2. window \in Nat /\ window' = window /\ count' = count
      BY <1>4 DEF PaceInv
    <3> HIDE DEF owed
    <3> QED
      BY <2>1, <3>1, <3>2, <1>0, <1>a DEF OwedInv
  <2> QED
    BY <1>4, <2>2, <2>3, <2>4 DEF PaceInv
<1>5. ASSUME Due, history PROVE PaceInv'
  <2>1. /\ Period \in Periods /\ Period \in Nat \ {0} /\ delay' = Period
        /\ age' = age /\ age > Period /\ at' = "late" /\ age \in Nat
    BY <1>5, PeriodFacts DEF Due, PaceInv, TypeOK
  <2>2. TypeOK'
    BY <2>1, <1>5 DEF Due, PaceInv, TypeOK
  <2>3. SinceInv'
    BY <2>1 DEF SinceInv
  <2>4. OwedInv'
    BY <2>1, <1>5 DEF PaceInv, OwedInv
  <2> QED
    BY <1>5, <2>2, <2>3, <2>4 DEF PaceInv
<1>6. ASSUME Rest, history PROVE PaceInv'
  <2>1. Period \in Periods
    BY PeriodFacts DEF PaceInv
  <2> QED
    BY <2>1, <1>6 DEF Rest, PaceInv, TypeOK, SinceInv, OwedInv
<1>7. ASSUME Sent \/ Configure \/ StatusChange \/ MissionStart \/ TestMode, history
      PROVE  PaceInv'
  <2>1. /\ at # "late" /\ at' \in {"poll", "send"}
        /\ age' = age /\ delay' = delay
    BY <1>7 DEF Sent, Configure, StatusChange, MissionStart, TestMode, PaceInv, TypeOK
  <2>2. relaxed' \in BOOLEAN
    BY <1>7 DEF Sent, Configure, StatusChange, MissionStart, TestMode, PaceInv, TypeOK
  <2>3. testing' \in BOOLEAN
    BY <1>7 DEF Sent, Configure, StatusChange, MissionStart, TestMode, PaceInv, TypeOK
  <2>4. interval' \in Intervals /\ mission' \in 0..SetupTime
    BY <1>7 DEF Sent, Configure, StatusChange, MissionStart, TestMode, PaceInv, TypeOK
  <2>5. TypeOK'
    BY <2>1, <2>2, <2>3, <2>4 DEF PaceInv, TypeOK
  <2>6. SinceInv' /\ OwedInv'
    BY <2>1, <1>7 DEF PaceInv, SinceInv, OwedInv
  <2> QED
    BY <2>5, <2>6, <1>7 DEF PaceInv
<1>8. CASE UNCHANGED hvars
  BY <1>8 DEF hvars, vars, PaceInv, TypeOK, SinceInv, OwedInv
<1> QED
  BY <1>1, <1>2, <1>3, <1>4, <1>5, <1>6, <1>7, <1>8 DEF HNext, Others

THEOREM Invariance == HSpec => []PaceInv
  BY InitInv, StepInv, PTL DEF HSpec

(* Every variable of the pacing keeps its type: start stays in the past         *)
(* (radio_process()).                                                           *)
THEOREM PacingTyped == HSpec => []TypeOK
<1>1. PaceInv => TypeOK
  BY DEF PaceInv
<1> QED
  BY <1>1, Invariance, PTL

(* No window holds more telemetries than its periods and those owed when it     *)
(* began (radio_process()).                                                     *)
THEOREM AlwaysPaced == HSpec => []Paced
<1>1. PaceInv => Paced
  <2> SUFFICES ASSUME PaceInv, count > 0
               PROVE  (count - 1) * Shortest <= window + Longest
    BY DEF Paced
  <2> DEFINE before == (count - 1) * Shortest
  <2>1. before \in Int
    BY PeriodBounds DEF PaceInv
  <2>2. before + age <= window + Longest
    BY DEF PaceInv, OwedInv
  <2>3. age \in Nat /\ window \in Nat /\ Longest \in Nat
    BY PeriodBounds DEF PaceInv, TypeOK
  <2> HIDE DEF before
  <2>4. before <= window + Longest
    BY <2>1, <2>2, <2>3
  <2> QED
    BY <2>4 DEF before
<1> QED
  BY <1>1, Invariance, PTL

(* Catching up never costs a telemetry (radio_process()).                       *)
THEOREM PacingNeverLate == HSpec => []NeverLate
<1>1. PaceInv => NeverLate
  <2>1. TypeOK => Period \in Nat
    BY PeriodFacts
  <2> QED
    BY <2>1 DEF PaceInv, TypeOK, SinceInv, NeverLate
<1> QED
  BY <1>1, Invariance, PTL

-----------------------------------------------------------------------------
(* The clock of the GPS.                                                     *)

\* With a fix the clock is late by the silence and the age of the sentence.
FixInv ==
  fix => /\ ahead + silent <= 0
         /\ ahead + silent >= -MaxDelay
         /\ silent <= Silence * Second + lap

\* Without, it is ahead at most by the second it has been given too early.
FreeInv == ~fix /\ known => ahead <= 0 \/ ahead <= Second - lap

ClockInv == ClockTypeOK /\ FixInv /\ FreeInv

\* The ten seconds, as a number of units.
Ten == 10 * Second

LEMMA ClockBounds ==
  /\ Second \in Nat /\ Second > 0 /\ Late \in Nat /\ MaxDelay \in Nat
  /\ Ten \in Nat /\ Silence * Second = Ten
  /\ (MadeUp + 1) * Second = Ten /\ 1 * Second = Second
  BY GpsConstants DEF Ten, Silence, MadeUp

LEMMA ClockInitInv == ClockInit => ClockInv
<1> SUFFICES ASSUME ClockInit PROVE ClockInv
  OBVIOUS
<1>1. ClockTypeOK
  <2>1. fix \in BOOLEAN /\ known \in BOOLEAN /\ ~fix
    BY DEF ClockInit
  <2>2. ahead \in Int /\ silent \in Nat /\ lap \in 0..Second + Late
    BY ClockBounds DEF ClockInit
  <2> QED
    BY <2>1, <2>2 DEF ClockTypeOK
<1> QED
  BY <1>1 DEF ClockInit, ClockInv, FixInv, FreeInv

\* What a lap does, by its cases.
LEMMA LapCases ==
  ASSUME ClockTypeOK, Lap
  PROVE  /\ lap >= Second /\ lap' = 0
         /\ known' = known
         /\ \/ fix /\ ~fix' /\ silent' = 0 /\ silent > Ten /\ ahead' = ahead + Ten
            \/ fix /\ fix' /\ silent' = silent /\ silent <= Ten /\ ahead' = ahead
            \/ /\ ~fix /\ ~fix' /\ silent' = silent
               /\ ahead' = IF known THEN ahead + Second ELSE ahead
<1>1. CASE fix /\ Quiet
  BY <1>1, ClockBounds DEF Lap, Quiet, Advanced, ClockTypeOK
<1>2. CASE fix /\ ~Quiet
  <2>1. fix' = fix /\ silent' = silent /\ ahead' = ahead /\ known' = known
    BY <1>2 DEF Lap
  <2>2. silent <= Ten /\ lap >= Second /\ lap' = 0
    BY <1>2, ClockBounds DEF Lap, Quiet, ClockTypeOK
  <2> QED
    BY <2>1, <2>2, <1>2
<1>3. CASE ~fix
  BY <1>3, ClockBounds DEF Lap, Quiet, Advanced, ClockTypeOK
<1> QED
  BY <1>1, <1>2, <1>3

LEMMA ClockStepInv == ClockInv /\ [ClockNext]_clockVars => ClockInv'
<1> SUFFICES ASSUME ClockInv, [ClockNext]_clockVars PROVE ClockInv'
  OBVIOUS
<1>0. /\ ahead \in Int /\ silent \in Nat /\ lap \in 0..Second + Late
      /\ fix \in BOOLEAN /\ known \in BOOLEAN /\ (fix => known)
  BY DEF ClockInv, ClockTypeOK
<1>a. /\ fix => /\ ahead + silent <= 0 /\ ahead + silent >= -MaxDelay
               /\ silent <= Ten + lap
      /\ ~fix /\ known => ahead <= 0 \/ ahead <= Second - lap
  BY ClockBounds DEF ClockInv, FixInv, FreeInv
<1>b. ASSUME fix' \in BOOLEAN, known' \in BOOLEAN, (fix' => known'),
             ahead' \in Int /\ silent' \in Nat /\ lap' \in 0..Second + Late,
             fix' => /\ ahead' + silent' <= 0 /\ ahead' + silent' >= -MaxDelay
                     /\ silent' <= Ten + lap',
             ~fix' /\ known' => ahead' <= 0 \/ ahead' <= Second - lap'
      PROVE  ClockInv'
  BY <1>b, ClockBounds DEF ClockInv, ClockTypeOK, FixInv, FreeInv
<1>1. CASE ClockTick
  <2>1. fix' = fix /\ known' = known
    BY <1>1 DEF ClockTick
  <2>2. /\ lap' = lap + 1 /\ lap' \in 0..Second + Late
        /\ silent' = (IF fix THEN silent + 1 ELSE silent)
        /\ ahead' = (IF known THEN ahead - 1 ELSE ahead)
    BY <1>1, <1>0, ClockBounds DEF ClockTick
  <2> QED
    BY <2>1, <2>2, <1>0, <1>a, <1>b, ClockBounds
<1>2. ASSUME NEW delayed \in 0..MaxDelay, GoodSentence(delayed) PROVE ClockInv'
  <2>1. fix' /\ known' /\ fix' \in BOOLEAN /\ known' \in BOOLEAN
    BY <1>2 DEF GoodSentence
  <2>2. ahead' = -delayed /\ silent' = 0 /\ lap' = lap
    BY <1>2 DEF GoodSentence
  <2> QED
    BY <2>1, <2>2, <1>0, <1>b, ClockBounds
<1>3. CASE BadSentence
  <2>1. fix' \in BOOLEAN /\ ~fix' /\ known' = known
    BY <1>3 DEF BadSentence
  <2>2. ahead' = ahead /\ silent' = 0 /\ lap' = lap
    BY <1>3 DEF BadSentence
  <2> QED
    BY <2>1, <2>2, <1>0, <1>a, <1>b, ClockBounds
<1>4. CASE Lap
  <2>1. fix' \in BOOLEAN
    BY <1>4, <1>0 DEF Lap
  <2>2. ClockTypeOK
    BY DEF ClockInv
  <2> QED
    BY <2>1, <2>2, <1>4, <1>0, <1>a, <1>b, LapCases, ClockBounds
<1>5. CASE UNCHANGED clockVars
  BY <1>5 DEF clockVars, ClockInv, ClockTypeOK, FixInv, FreeInv
<1> QED
  BY <1>1, <1>2, <1>3, <1>4, <1>5 DEF ClockNext, Sentence

THEOREM ClockInvariance == ClockSpec => []ClockInv
  BY ClockInitInv, ClockStepInv, PTL DEF ClockSpec

(* Every variable of the clock keeps its type (gps.c).                          *)
THEOREM ClockTyped == ClockSpec => []ClockTypeOK
<1>1. ClockInv => ClockTypeOK
  BY DEF ClockInv
<1> QED
  BY <1>1, ClockInvariance, PTL

(* The clock is never more than a second ahead (gps_clock).                     *)
THEOREM ClockNeverAhead == ClockSpec => []NeverAhead
<1>1. ClockInv => NeverAhead
  BY ClockBounds DEF ClockInv, ClockTypeOK, FixInv, FreeInv, NeverAhead
<1> QED
  BY <1>1, ClockInvariance, PTL

(* A fix is no older than the ten seconds and a lap (gps_fix).                  *)
THEOREM FixAlwaysFresh == ClockSpec => []FixFresh
<1>1. ClockInv => FixFresh
  BY ClockBounds DEF ClockInv, ClockTypeOK, FixInv, FixFresh
<1> QED
  BY <1>1, ClockInvariance, PTL

(* Giving up a fix makes up for the silence (time_process()).                   *)
THEOREM SilenceMadeUp == ClockSpec => CatchesUp
<1>1. ClockInv /\ [ClockNext]_clockVars => [fix /\ ~fix' /\ Lap => ahead' >= -(Second + Late + MaxDelay)]_clockVars
  <2> SUFFICES ASSUME ClockInv, fix, ~fix', Lap
               PROVE  ahead' >= -(Second + Late + MaxDelay)
    OBVIOUS
  <2> QED
    BY LapCases, ClockBounds DEF ClockInv, ClockTypeOK, FixInv
<1> QED
  BY <1>1, ClockInvariance, PTL DEF ClockSpec, CatchesUp
=============================================================================
