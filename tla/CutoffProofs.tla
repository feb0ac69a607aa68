----------------------------- MODULE CutoffProofs -----------------------------
(***************************************************************************)
(* Proofs about the wire cutter, for every value of its constants.         *)
(***************************************************************************)
EXTENDS CutoffHistory, TLAPS

-----------------------------------------------------------------------------
(* Types.                                                                   *)

\* A pulse number names one of the channels.
LEMMA ChannelOfType == ASSUME NEW k \in Nat PROVE ChannelOf(k) \in Channel
BY DEF ChannelOf, Channel

\* The locals of a process that sleeps.
LEMMA NoSampleType == NoSample \in [now : Nat, alt : Int, far : BOOLEAN]
BY CutoffConstants DEF NoSample

\* Going back to sleep keeps the types.
LEMMA SleepType ==
  ASSUME TypeOK, Sleep
  PROVE /\ pc' \in [Proc -> Label]
        /\ wake' \in [Proc -> Nat]
        /\ sample' \in [now : Nat, alt : Int, far : BOOLEAN]
        /\ at' \in Watch
BY NoSampleType DEF TypeOK, Sleep, Goto, Proc, Label, Watch

\* Switching an output keeps its type.
LEMMA EnableType ==
  ASSUME NEW c, NEW on \in BOOLEAN, TypeOK, Enable(c, on)
  PROVE heater' \in [Channel -> BOOLEAN]
BY Zenon DEF TypeOK, Enable

\* Going on to the next check keeps the types.
LEMMA NextCheckType ==
  ASSUME TypeOK, NextCheck
  PROVE /\ pc' \in [Proc -> Label]
        /\ wake' \in [Proc -> Nat]
        /\ sample' \in [now : Nat, alt : Int, far : BOOLEAN]
        /\ at' \in Watch
<1>1. CASE at # "maxalt"
  BY <1>1 DEF NextCheck, TypeOK, Goto, Proc, Label, Watch
<1>2. CASE at = "maxalt"
  BY <1>2, SleepType DEF NextCheck
<1>. QED BY <1>1, <1>2

\* Every step keeps every variable in its type.
LEMMA TypeStep == TypeOK /\ [Next]_vars => TypeOK'
<1> SUFFICES ASSUME TypeOK, [Next]_vars PROVE TypeOK'
  OBVIOUS
<1> USE CutoffConstants
<1>1. CASE Tick
  BY <1>1 DEF TypeOK, Tick, watches, control, procs
<1>2. CASE StatusChange
  BY <1>2 DEF TypeOK, StatusChange, watches, control, procs
<1>3. CASE Wake
  <2>1. sample' \in [now : Nat, alt : Int, far : BOOLEAN]
    BY <1>3 DEF TypeOK, Wake
  <2>2. pc' \in [Proc -> Label]
    BY <1>3 DEF TypeOK, Wake, CheckTime, Goto, Proc, Label
  <2>. QED BY <1>3, <2>1, <2>2 DEF TypeOK, Wake, watches, control, procs
<1>4. CASE Said
  BY <1>4 DEF TypeOK, Said, Goto, Proc, Label, watches, control, procs
<1>5. CASE CheckRange
  <2>1. altMax' \in Int
    BY <1>5 DEF TypeOK, CheckRange, Peak
  <2>2. /\ pc' \in [Proc -> Label]
        /\ wake' \in [Proc -> Nat]
        /\ sample' \in [now : Nat, alt : Int, far : BOOLEAN]
        /\ at' \in Watch
    <3>1. CASE NextCheck
      BY <3>1, NextCheckType
    <3>2. CASE /\ \E l \in {"report", "fire", "arm", "clear"} : Goto("cutoff", l)
               /\ UNCHANGED <<at, sample, wake>>
      BY <3>2 DEF TypeOK, Goto, Proc, Label
    <3>. QED BY <1>5, <3>1, <3>2 DEF CheckRange
  <2>. QED BY <1>5, <2>1, <2>2 DEF TypeOK, CheckRange, control
<1>6. CASE StartCountdown
  <2>1. ko' \in [Watch -> Int]
    BY <1>6 DEF TypeOK, StartCountdown
  <2>. QED BY <1>6, <2>1, NextCheckType DEF TypeOK, StartCountdown, control
<1>7. CASE CancelCountdown
  <2>1. ko' \in [Watch -> Int]
    BY <1>7 DEF TypeOK, CancelCountdown, NotArmed
  <2>. QED BY <1>7, <2>1, NextCheckType DEF TypeOK, CancelCountdown, control
<1>8. CASE Fire
  <2>1. CASE Paused /\ Sleep /\ UNCHANGED <<control, pulse>>
    BY <1>8, <2>1, SleepType DEF TypeOK, Fire, watches, control
  <2>2. CASE pauseTime' = 0 /\ ~MayCut /\ Sleep /\ UNCHANGED <<cut, pulse>>
    BY <1>8, <2>2, SleepType DEF TypeOK, Fire, watches
  <2>3. CASE /\ pauseTime' = 0 /\ cut' = TRUE /\ Goto("cutoff", "print")
             /\ pulse' = [pulse EXCEPT !["cutoff"] = 0]
             /\ sample' = NoSample /\ at' = "dist" /\ UNCHANGED wake
    BY <1>8, <2>3, NoSampleType DEF TypeOK, Fire, watches, Goto, Proc, Label, Pulses, Watch
  <2>. QED BY <1>8, <2>1, <2>2, <2>3 DEF Fire
<1>9. ASSUME NEW p \in {"cutoff", "radio"}, Procedure(p) PROVE TypeOK'
  <2>1. CASE StartPulse(p)
    <3>1. heater' \in [Channel -> BOOLEAN]
      BY <2>1, EnableType DEF StartPulse
    <3>. QED BY <2>1, <3>1 DEF TypeOK, StartPulse, Goto, Proc, Label, watches, control
  <2>2. CASE EndPulse(p)
    <3>1. heater' \in [Channel -> BOOLEAN]
      BY <2>2, EnableType DEF EndPulse
    <3>. QED BY <2>2, <3>1 DEF TypeOK, EndPulse, Goto, Proc, Label, watches, control
  <2>3. CASE NextPulse(p)
    <3>1. pulse' \in [Proc -> 0..(Pulses - 1)]
      BY <2>3 DEF TypeOK, NextPulse, LastPulse, Proc, Pulses
    <3>2. wake' \in [Proc -> Nat]
      BY <2>3 DEF TypeOK, NextPulse, Proc
    <3>. QED BY <2>3, <3>1, <3>2 DEF TypeOK, NextPulse, Goto, Proc, Label, watches, control
  <2>. QED BY <1>9, <2>1, <2>2, <2>3 DEF Procedure
<1>10. ASSUME NEW p \in Operator, Restart(p) PROVE TypeOK'
  <2>1. CASE SetMissionStart(p)
    BY <2>1 DEF TypeOK, SetMissionStart, Goto, Proc, Label, Operator, watches, control, procs
  <2>2. CASE ResetStatus(p)
    BY <2>2 DEF TypeOK, ResetStatus, Goto, Proc, Label, Operator, watches, control, procs
  <2>3. CASE Reset(p)
    <3>1. ko' \in [Watch -> Int] /\ altMax' \in Int
      BY <2>3 DEF Reset, NotArmed
    <3>. QED BY <2>3, <3>1 DEF TypeOK, Reset, Goto, Proc, Label, Operator, procs
  <2>. QED BY <1>10, <2>1, <2>2, <2>3 DEF Restart
<1>11. CASE Request
  <2>1. CASE CmdCutoff
    BY <2>1 DEF TypeOK, CmdCutoff, Arrives, Goto, Proc, Label, Pulses, watches, control
  <2>2. CASE CmdPause \/ CmdResume
    BY <2>2 DEF TypeOK, CmdPause, CmdResume, Arrives, watches, procs
  <2>3. CASE CmdReset
    BY <2>3 DEF TypeOK, CmdReset, Arrives, Goto, Proc, Label, watches, control, procs
  <2>4. ASSUME NEW p \in Operator, MissionStart(p) PROVE TypeOK'
    BY <2>4 DEF TypeOK, MissionStart, Arrives, Goto, Proc, Label, Operator, watches, control, procs
  <2>5. CASE TestPulseOn
    BY <2>5 DEF TypeOK, TestPulseOn, Goto, Proc, Label, watches, control
  <2>. QED BY <1>11, <2>1, <2>2, <2>3, <2>4, <2>5 DEF Request
<1>12. CASE TestPulseOff
  BY <1>12 DEF TypeOK, TestPulseOff, Goto, Proc, Label, watches, control, procs
<1>13. CASE TestEnd
  BY <1>13 DEF TypeOK, TestEnd, Goto, Proc, Label, watches, control, procs
<1>14. CASE UNCHANGED vars
  BY <1>14 DEF TypeOK, vars
<1>. QED
  BY <1>1, <1>2, <1>3, <1>4, <1>5, <1>6, <1>7, <1>8, <1>9, <1>10, <1>11, <1>12, <1>13, <1>14
  DEF Next, CutoffStep, RadioStep, MainStep, Operator

\* The initial states are well typed.
LEMMA TypeInit == Init => TypeOK
<1>. SUFFICES ASSUME Init PROVE TypeOK
  OBVIOUS
<1>1. pc \in [Proc -> Label]
  BY DEF Init, Proc, Label
<1>2. ko \in [Watch -> Int] /\ altMax \in Int /\ at \in Watch
  BY CutoffConstants DEF Init, NotArmed, Watch
<1>3. pulse \in [Proc -> 0..(Pulses - 1)]
  BY CutoffConstants DEF Init, Pulses
<1>4. heater \in [Channel -> BOOLEAN] /\ cut \in BOOLEAN /\ flying \in BOOLEAN
  BY Zenon DEF Init
<1>5. clock \in Nat /\ missionStart \in Nat /\ pauseTime \in Nat /\ commands \in Nat
  BY DEF Init
<1>6. wake \in [Proc -> Nat] /\ stamp \in [Operator -> Nat]
  BY DEF Init
<1>7. sample \in [now : Nat, alt : Int, far : BOOLEAN]
  BY NoSampleType DEF Init
<1>. QED BY <1>1, <1>2, <1>3, <1>4, <1>5, <1>6, <1>7 DEF TypeOK

\* The type invariant holds in every reachable state.
THEOREM TypeCorrect == Spec => []TypeOK
BY TypeInit, TypeStep, PTL DEF Spec

-----------------------------------------------------------------------------
(* WireHeld.  A step that switches nothing and ends nobody's pulse keeps it; *)
(* the end of a pulse switches off the one channel its process answered for, *)
(* so a process that holds the other channel is another process.             *)

\* Nothing is switched and whoever answers for an output goes on doing so.
Undisturbed ==
  /\ heater' = heater
  /\ \A p \in {"cutoff", "radio"} : pc[p] = "on" => pc'[p] = "on" /\ pulse'[p] = pulse[p]
  /\ pc["main"] = "testpulse" => pc'["main"] = "testpulse"

LEMMA UndisturbedHeld == WireHeld /\ Undisturbed => WireHeld'
BY DEF WireHeld, Undisturbed, InPulse

\* The steps that are not about the outputs leave them undisturbed.
LEMMA OtherSteps ==
  ASSUME TypeOK,
         \/ Tick \/ StatusChange \/ Wake \/ Said \/ CheckRange \/ StartCountdown
         \/ CancelCountdown \/ Fire \/ CmdCutoff \/ CmdPause \/ CmdResume \/ CmdReset \/ TestEnd
         \/ \E p \in {"cutoff", "radio"} : NextPulse(p)
         \/ \E p \in Operator : MissionStart(p) \/ Restart(p)
         \/ UNCHANGED vars
  PROVE  Undisturbed
<1>. USE DEF Undisturbed, TypeOK, Proc, Goto, control, watches, procs
<1>1. CASE Tick \/ StatusChange \/ UNCHANGED vars
  BY <1>1 DEF Tick, StatusChange, vars
<1>2. CASE Wake \/ Said \/ CheckRange
  BY <1>2 DEF Wake, CheckTime, Said, CheckRange, NextCheck, Sleep
<1>3. CASE StartCountdown \/ CancelCountdown
  BY <1>3 DEF StartCountdown, CancelCountdown, NextCheck, Sleep
<1>4. CASE Fire
  BY <1>4 DEF Fire, Sleep
<1>5. CASE CmdCutoff \/ CmdPause \/ CmdResume \/ CmdReset \/ TestEnd
  BY <1>5 DEF CmdCutoff, CmdPause, CmdResume, CmdReset, TestEnd, Arrives
<1>6. CASE \E p \in {"cutoff", "radio"} : NextPulse(p)
  BY <1>6 DEF NextPulse
<1>7. CASE \E p \in Operator : MissionStart(p) \/ Restart(p)
  BY <1>7 DEF MissionStart, Arrives, Restart, SetMissionStart, ResetStatus, Reset, Operator
<1>. QED BY <1>1, <1>2, <1>3, <1>4, <1>5, <1>6, <1>7

\* Every step keeps every heated wire in somebody's care.
LEMMA HeldStep == TypeOK /\ WireHeld /\ [Next]_vars => WireHeld'
<1> SUFFICES ASSUME TypeOK, WireHeld, [Next]_vars PROVE WireHeld'
  OBVIOUS
<1>1. ASSUME NEW p \in {"cutoff", "radio"}, StartPulse(p) PROVE WireHeld'
  <2>. DEFINE k == ChannelOf(pulse[p])
  <2>1. pc'[p] = "on" /\ pulse' = pulse /\ pc[p] = "print"
    BY <1>1 DEF StartPulse, Goto, TypeOK, Proc
  <2>2. \A q \in Proc : q # p => pc'[q] = pc[q]
    BY <1>1 DEF StartPulse, Goto, TypeOK, Proc
  <2>3. \A c \in Channel : c # k => heater'[c] = heater[c]
    BY <1>1, Zenon DEF StartPulse, Enable, TypeOK
  <2>. QED BY <2>1, <2>2, <2>3 DEF WireHeld, InPulse, Proc
<1>2. ASSUME NEW p \in {"cutoff", "radio"}, EndPulse(p) PROVE WireHeld'
  <2>. DEFINE k == ChannelOf(pulse[p])
  <2>1. pulse' = pulse /\ \A q \in Proc : q # p => pc'[q] = pc[q]
    BY <1>2 DEF EndPulse, Goto, TypeOK, Proc
  <2>2. pulse[p] \in Nat
    BY DEF TypeOK, Proc, Pulses
  <2>3. k \in Channel
    BY <2>2, ChannelOfType
  <2>4. heater'[k] = FALSE /\ \A c \in Channel : c # k => heater'[c] = heater[c]
    BY <1>2, <2>3, Zenon DEF EndPulse, Enable, TypeOK
  <2>. QED BY <2>1, <2>4 DEF WireHeld, InPulse, Proc
<1>3. CASE TestPulseOn
  BY <1>3 DEF TestPulseOn, Goto, WireHeld, TypeOK, Proc
<1>4. CASE TestPulseOff
  BY <1>4, Zenon DEF TestPulseOff, WireHeld
<1>5. CASE Undisturbed
  BY <1>5, UndisturbedHeld
<1>. QED
  BY <1>1, <1>2, <1>3, <1>4, <1>5, OtherSteps
  DEF Next, CutoffStep, RadioStep, MainStep, Request, Procedure, Operator

\* No wire is ever heated with nobody to switch it off, for every number of
\* rounds and every duration.
THEOREM HeldAlways == Spec => []WireHeld
<1>1. Init => WireHeld
  BY DEF Init, WireHeld
<1>. QED BY <1>1, HeldStep, TypeCorrect, PTL DEF Spec

-----------------------------------------------------------------------------
(* CountdownServed.  The property compares outSince with the timeout, the    *)
(* code compares the ko_time; the invariant says that the countdown never    *)
(* began before the balloon was seen out of range.                           *)

\* While a check is executed, its sample is the latest the history knows of.
Evaluating == pc["cutoff"] \in {"warn", "check", "arm", "clear"}

SeenBy(w, t) == outSince[w] # NotArmed /\ outSince[w] <= t

HistoryInv ==
  /\ outSince \in [Watch -> Int] /\ runs \in Nat /\ resets \in Nat
  /\ sample.now <= clock
  /\ \A w \in Watch : outSince[w] <= IF Evaluating THEN sample.now ELSE clock
  /\ \A w \in Watch :
       ko[w] # NotArmed => SeenBy(w, ko[w]) \/ (pc["cutoff"] = "clear" /\ at = w)
  /\ pc["cutoff"] = "arm" => SeenBy(at, sample.now)

\* Steps that run no check and write no flag keep the invariant, if the cutoff
\* process is not taken into or out of the two labels at which one is written.
Aside ==
  /\ outSince' = outSince
  /\ clock' >= clock
  /\ \/ sample' = sample
     \/ sample' = NoSample /\ pc'["cutoff"] \notin {"warn", "check", "arm", "clear"}
  /\ \/ pc'["cutoff"] = pc["cutoff"] /\ at' = at /\ sample' = sample
     \/ pc'["cutoff"] = "check" /\ pc["cutoff"] = "warn" /\ sample' = sample
     \/ /\ pc["cutoff"] \notin {"warn", "check", "arm", "clear"}
        /\ pc'["cutoff"] \notin {"warn", "check", "arm", "clear"}

\* Such a step, with or without a reset of the flags, keeps the invariant.
LEMMA AsideKeeps ==
  ASSUME TypeOK, TypeOK', HistoryInv, Aside, runs' \in Nat, resets' \in Nat,
         ko' = ko \/ ko' = [w \in Watch |-> NotArmed]
  PROVE  HistoryInv'
<1>1. sample'.now <= clock'
  BY DEF Aside, TypeOK, HistoryInv, NoSample
<1>2. \A w \in Watch : outSince'[w] <= IF Evaluating' THEN sample'.now ELSE clock'
  BY DEF Aside, TypeOK, HistoryInv, Evaluating
<1>3. \A w \in Watch :
        ko'[w] # NotArmed => SeenBy(w, ko[w])' \/ (pc'["cutoff"] = "clear" /\ at' = w)
  <2>1. CASE ko' = ko
    BY <2>1 DEF Aside, HistoryInv, SeenBy
  <2>2. CASE ko' = [w \in Watch |-> NotArmed]
    BY <2>2
  <2>. QED BY <2>1, <2>2
<1>4. pc'["cutoff"] = "arm" => SeenBy(at, sample.now)'
  BY DEF Aside, TypeOK, HistoryInv, SeenBy
<1>. QED BY <1>1, <1>2, <1>3, <1>4 DEF Aside, HistoryInv

\* Every step of the other processes and of the environment is such a step, and
\* so are those of the cutoff process outside the checks.
LEMMA AsideSteps ==
  ASSUME TypeOK, HNext,
         \/ Tick \/ StatusChange \/ Said \/ Fire \/ RadioStep \/ MainStep \/ Request
         \/ Procedure("cutoff")
  PROVE  Aside /\ (ko' = ko \/ ko' = [w \in Watch |-> NotArmed])
<1>. USE DEF Aside, TypeOK, Proc, Goto, control, watches, procs
<1>1. ~(pc["cutoff"] = "check" /\ clock' = clock) => outSince' = outSince
  BY DEF HNext, Checks
<1>2. CASE Tick
  BY <1>1, <1>2 DEF Tick
<1>3. CASE StatusChange
  BY <1>1, <1>3 DEF StatusChange, Yielded
<1>4. CASE Said \/ Fire
  BY <1>1, <1>4 DEF Said, Fire, Sleep
<1>5. ASSUME NEW p \in {"cutoff", "radio"}, Procedure(p)
      PROVE Aside /\ ko' = ko
  <2>1. CASE StartPulse(p)
    BY <1>1, <2>1 DEF StartPulse, Yielded
  <2>2. CASE EndPulse(p)
    BY <1>1, <2>2 DEF EndPulse, Yielded
  <2>3. CASE NextPulse(p)
    BY <1>1, <2>3 DEF NextPulse, Yielded
  <2>. QED BY <1>5, <2>1, <2>2, <2>3 DEF Procedure
<1>6. ASSUME NEW p \in Operator, Restart(p)
      PROVE Aside /\ (ko' = ko \/ ko' = [w \in Watch |-> NotArmed])
  BY <1>1, <1>6 DEF Restart, SetMissionStart, ResetStatus, Reset, Yielded, Operator
<1>7. CASE Request
  BY <1>1, <1>7 DEF Request, CmdCutoff, CmdPause, CmdResume, CmdReset, MissionStart, TestPulseOn,
     Arrives, Yielded, Operator
<1>8. CASE TestPulseOff \/ TestEnd
  BY <1>1, <1>8 DEF TestPulseOff, TestEnd, Yielded
<1>. QED BY <1>2, <1>3, <1>4, <1>5, <1>6, <1>7, <1>8 DEF RadioStep, MainStep, Operator

\* Every step keeps the invariant: a wake-up takes a sample of this instant, a
\* check that finds the balloon out of range has the history know it, and a flag
\* is only written at the label its check left the process at.
LEMMA HistoryStep == TypeOK /\ TypeOK' /\ HistoryInv /\ [HNext]_hvars => HistoryInv'
<1> SUFFICES ASSUME TypeOK, TypeOK', HistoryInv, [HNext]_hvars PROVE HistoryInv'
  OBVIOUS
<1>1. CASE UNCHANGED hvars
  BY <1>1 DEF hvars, history, vars, HistoryInv, Evaluating, SeenBy
<1>. SUFFICES ASSUME HNext PROVE HistoryInv'
  BY <1>1
<1>2. runs' \in Nat /\ resets' \in Nat
  BY DEF HNext, HistoryInv
<1>3. CASE Wake
  <2>1. outSince' = outSince /\ ko' = ko /\ clock' = clock /\ sample'.now = clock
    BY <1>3 DEF HNext, Wake, Checks, watches
  <2>2. pc["cutoff"] = "sleep" /\ pc'["cutoff"] \notin {"arm", "clear"}
    BY <1>3 DEF Wake, CheckTime, Goto, TypeOK, Proc
  <2>. QED BY <1>2, <2>1, <2>2 DEF HistoryInv, Evaluating, SeenBy, TypeOK
<1>4. CASE CheckRange
  <2>. DEFINE out == OutOfRange(at)
              armed == ko[at] # NotArmed
  <2>1. pc["cutoff"] = "check" /\ clock' = clock /\ ko' = ko /\ Evaluating
    BY <1>4 DEF CheckRange, Evaluating
  <2>2. /\ outSince' \in [Watch -> Int]
        /\ \A w \in Watch : w # at => outSince'[w] = outSince[w]
        /\ outSince'[at] = IF ~out THEN NotArmed
                           ELSE IF outSince[at] = NotArmed THEN sample.now ELSE outSince[at]
    BY <2>1 DEF HNext, Checks, HistoryInv, TypeOK, NotArmed
  <2>3. \A w \in Watch : outSince'[w] <= sample.now
    BY <2>1, <2>2 DEF HistoryInv, TypeOK, NotArmed
  <2>4. \/ sample' = sample
        \/ sample' = NoSample /\ pc'["cutoff"] = "sleep"
    BY <1>4 DEF CheckRange, NextCheck, Sleep, Goto, TypeOK, Proc
  <2>5. sample'.now <= clock' /\ \A w \in Watch : outSince'[w] <= IF Evaluating' THEN sample'.now ELSE clock'
    BY <2>1, <2>2, <2>3, <2>4 DEF HistoryInv, TypeOK, Evaluating, NoSample
  <2>6. pc'["cutoff"] = "arm" => out /\ at' = at /\ sample' = sample
    BY <1>4 DEF CheckRange, NextCheck, Sleep, Goto, TypeOK, Proc
  <2>7. pc'["cutoff"] = "arm" => SeenBy(at, sample.now)'
    BY <2>1, <2>2, <2>3, <2>6 DEF SeenBy, TypeOK, NotArmed
  <2>8. armed /\ ~out => pc'["cutoff"] = "clear" /\ at' = at
    BY <1>4 DEF CheckRange, Goto, TypeOK, Proc
  <2>9. ASSUME NEW w \in Watch, ko'[w] # NotArmed
        PROVE  SeenBy(w, ko[w])' \/ (pc'["cutoff"] = "clear" /\ at' = w)
    <3>1. SeenBy(w, ko[w])
      BY <2>1, <2>9 DEF HistoryInv
    <3>2. CASE w # at
      BY <2>1, <2>2, <3>1, <3>2 DEF SeenBy
    <3>3. CASE w = at
      BY <2>1, <2>2, <2>8, <2>9, <3>1, <3>3 DEF SeenBy
    <3>. QED BY <3>2, <3>3
  <2>. QED BY <1>2, <2>2, <2>5, <2>7, <2>9 DEF HistoryInv
<1>5. CASE StartCountdown \/ CancelCountdown
  <2>1. /\ outSince' = outSince /\ clock' = clock /\ Evaluating
        /\ \/ sample' = sample
           \/ sample' = NoSample /\ pc'["cutoff"] = "sleep"
        /\ pc'["cutoff"] \notin {"arm", "clear"}
    BY <1>5 DEF HNext, Checks, StartCountdown, CancelCountdown, NextCheck, Sleep, Goto, TypeOK,
       Proc, Evaluating
  <2>2. \A w \in Watch : ko'[w] # NotArmed => SeenBy(w, ko'[w])
    <3>1. CASE StartCountdown
      BY <3>1 DEF StartCountdown, HistoryInv, TypeOK, SeenBy
    <3>2. CASE CancelCountdown
      BY <3>2 DEF CancelCountdown, HistoryInv, TypeOK, SeenBy
    <3>. QED BY <1>5, <3>1, <3>2
  <2>. QED BY <1>2, <2>1, <2>2 DEF HistoryInv, SeenBy, TypeOK, Evaluating, NoSample
<1>6. CASE \/ Tick \/ StatusChange \/ Said \/ Fire \/ RadioStep \/ MainStep \/ Request
           \/ Procedure("cutoff")
  BY <1>2, <1>6, AsideSteps, AsideKeeps
<1>. QED BY <1>3, <1>4, <1>5, <1>6 DEF HNext, Next, CutoffStep

\* The verdict of a range check rests on a countdown that was served in full.
THEOREM CountdownAlwaysServed == HSpec => CountdownServed
<1>. DEFINE Served == Checks /\ pc'["cutoff"] \in {"report", "fire"} =>
                        /\ outSince[at] # NotArmed
                        /\ sample.now - outSince[at] > Timeout[at]
<1>1. HInit => TypeOK /\ HistoryInv
  <2>. SUFFICES ASSUME HInit PROVE TypeOK /\ HistoryInv
    OBVIOUS
  <2>1. TypeOK
    BY TypeInit DEF HInit
  <2>2. ko = [w \in Watch |-> NotArmed] /\ sample = NoSample /\ clock = 1 /\ pc["cutoff"] = "sleep"
    BY DEF HInit, Init, Proc
  <2>. QED BY <2>1, <2>2 DEF HInit, HistoryInv, Evaluating, NotArmed, NoSample
<1>2. [HNext]_hvars => [Next]_vars
  BY DEF HNext, hvars
<1>3. TypeOK /\ HistoryInv /\ [HNext]_hvars => [Served]_hvars
  <2>. SUFFICES ASSUME TypeOK, HistoryInv, HNext, Checks, pc'["cutoff"] \in {"report", "fire"}
                PROVE  /\ outSince[at] # NotArmed
                       /\ sample.now - outSince[at] > Timeout[at]
    BY DEF Served
  <2>1. CheckRange
    BY DEF Checks, HNext, Next, CutoffStep, Procedure, RadioStep, MainStep, Restart, Request, Tick,
       StatusChange, Wake, Said, StartCountdown, CancelCountdown, Fire, StartPulse, EndPulse,
       NextPulse, CmdCutoff, CmdPause, CmdResume, CmdReset, MissionStart, Arrives, SetMissionStart,
       ResetStatus, Reset, TestPulseOn, TestPulseOff, TestEnd, Yielded, TypeOK
  <2>2. ko[at] # NotArmed /\ sample.now - ko[at] > Timeout[at]
    BY <2>1 DEF CheckRange, NextCheck, Sleep, Goto, TypeOK, Proc
  <2>3. SeenBy(at, ko[at])
    BY <2>2 DEF Checks, HistoryInv, TypeOK
  <2>. QED BY <2>2, <2>3, CutoffConstants DEF SeenBy, HistoryInv, TypeOK
<1>. QED BY <1>1, <1>2, <1>3, TypeStep, HistoryStep, PTL DEF HSpec, CountdownServed

-----------------------------------------------------------------------------
(* OncePerReset.                                                            *)

\* A procedure begins only on setting cut, and only a completed reset clears it.
THEOREM OncePerResetAlways == HSpec => []OncePerReset
<1>. DEFINE Counted == TypeOK /\ runs \in Nat /\ resets \in Nat /\ OncePerReset
<1>1. HInit => Counted
  BY TypeInit DEF HInit, OncePerReset, Init
<1>2. Counted /\ [HNext]_hvars => Counted'
  <2>. SUFFICES ASSUME Counted, [HNext]_hvars PROVE Counted'
    OBVIOUS
  <2>1. TypeOK'
    BY TypeStep DEF HNext, hvars
  <2>2. CASE UNCHANGED hvars
    BY <2>1, <2>2 DEF hvars, history, vars, OncePerReset
  <2>3. CASE HNext
    <3>1. /\ runs' = IF Begins THEN runs + 1 ELSE runs
          /\ resets' = IF ResetDone THEN resets + 1 ELSE resets
      BY <2>3 DEF HNext
    <3>2. Begins => ~cut /\ cut'
      BY <2>3 DEF Begins, HNext, Next, CutoffStep, Procedure, RadioStep, MainStep, Restart, Request,
         Tick, StatusChange, Wake, Said, CheckRange, StartCountdown, CancelCountdown, Fire,
         StartPulse, EndPulse, NextPulse, CmdCutoff, CmdPause, CmdResume, CmdReset, MissionStart,
         Arrives, SetMissionStart, ResetStatus, Reset, TestPulseOn, TestPulseOff, TestEnd, Yielded,
         MayCut, Sleep, Goto, TypeOK, Proc
    <3>3. cut /\ ~cut' => ResetDone
      BY <2>3 DEF ResetDone, HNext, Next, CutoffStep, Procedure, RadioStep, MainStep, Restart,
         Request, Tick, StatusChange, Wake, Said, CheckRange, StartCountdown, CancelCountdown, Fire,
         StartPulse, EndPulse, NextPulse, CmdCutoff, CmdPause, CmdResume, CmdReset, MissionStart,
         SetMissionStart, ResetStatus, Reset, TestPulseOn, TestPulseOff, TestEnd,
         control, Goto, TypeOK, Proc, Operator
    <3>. QED BY <2>1, <3>1, <3>2, <3>3 DEF OncePerReset, TypeOK
  <2>. QED BY <2>2, <2>3
<1>. QED BY <1>1, <1>2, PTL DEF HSpec
=============================================================================
