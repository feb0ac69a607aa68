----------------------------- MODULE StatusProofs -----------------------------
(***************************************************************************)
(* Proofs about the flight status, for every value of its constants.       *)
(***************************************************************************)
EXTENDS StatusHistory, TLAPS

-----------------------------------------------------------------------------
(* The decision.                                                            *)

\* status_check() calls vertical_dir(), which remembers its answer, in each of
\* its tests: the later calls answer what the first one did, although the answer
\* has changed the limits they use.
THEOREM VerticalDirSettles ==
  \A d \in VertDir, rate \in Int :
    VerticalDir(VerticalDir(d, rate), rate) = VerticalDir(d, rate)
BY StatusConstants DEF VerticalDir, VertDir

\* The direction is one of the three.
LEMMA VerticalDirType == \A d, rate : VerticalDir(d, rate) \in VertDir
BY DEF VerticalDir, VertDir

\* The limits of the altitude.
LEMMA LimitTypes == \A s : TropopauseLimit(s) \in Int /\ LandingLimit(s) \in Int
BY StatusConstants DEF TropopauseLimit, LandingLimit

\* The last branch of the chain is never taken, whatever the thresholds are.
THEOREM ChainTotal ==
  \A s \in Status, d \in VertDir, alt \in Int : Decide(s, d, alt) \in Status \ {"NOFIX"}
BY StatusConstants, LimitTypes DEF Decide, VertDir, Status

\* Two decisions that cross a threshold back and forth are more than ALT_HIST
\* apart, whatever the directions.
LEMMA DecisionsApart ==
  ASSUME NEW s \in Status, NEW t \in Status, {s, t} \in Neighbours,
         NEW d \in VertDir, NEW e \in VertDir, NEW a \in Int, NEW b \in Int,
         Decide(s, d, a) = t, Decide(t, e, b) = s
  PROVE  b - a > AltHist \/ a - b > AltHist
<1>. USE StatusConstants DEF Decide, TropopauseLimit, LandingLimit
<1>1. CASE s = "TAKEOFF" /\ t = "STRATOPHERE_UP"
  BY <1>1
<1>2. CASE s = "STRATOPHERE_UP" /\ t = "TAKEOFF"
  BY <1>2
<1>3. CASE s = "STRATOPHERE_FALL" /\ t = "FALLING"
  BY <1>3
<1>4. CASE s = "FALLING" /\ t = "STRATOPHERE_FALL"
  BY <1>4
<1>5. CASE s = "FALLING" /\ t = "LANDING"
  BY <1>5
<1>6. CASE s = "LANDING" /\ t = "FALLING"
  BY <1>6
<1>. QED BY <1>1, <1>2, <1>3, <1>4, <1>5, <1>6 DEF Neighbours

-----------------------------------------------------------------------------
(* Types.                                                                   *)

WindowType ==
  [values : [0..(MeanLen - 1) -> Reading], sum : Reading, cnt : 0..MeanLen, idx : 0..(MeanLen - 1)]

\* Differences and sums of readings are readings.
LEMMA ReadingArithmetic ==
  ASSUME NEW a \in Reading, NEW b \in Reading
  PROVE  Plus(a, b) \in Reading /\ Minus(a, b) \in Reading
BY DEF Reading, Plus, Minus

\* A moving average stays one when a value is pushed.
LEMMA PushedType ==
  ASSUME NEW w \in WindowType, NEW v \in Reading
  PROVE  Pushed(w, v) \in WindowType
<1>1. w.idx \in 0..(MeanLen - 1) /\ w.cnt \in 0..MeanLen /\ w.sum \in Reading
      /\ w.values \in [0..(MeanLen - 1) -> Reading]
  BY DEF WindowType
<1>2. [w.values EXCEPT ![w.idx] = v] \in [0..(MeanLen - 1) -> Reading]
  BY <1>1
<1>3. Plus(DropOldest(w), v) \in Reading
  BY <1>1, ReadingArithmetic DEF DropOldest
<1>4. /\ (IF w.cnt < MeanLen THEN w.cnt + 1 ELSE w.cnt) \in 0..MeanLen
      /\ NextIdx(w.idx) \in 0..(MeanLen - 1)
  BY <1>1, StatusConstants DEF NextIdx
<1>. QED BY <1>2, <1>3, <1>4 DEF Pushed, WindowType

\* A reset empties the averages.
LEMMA EmptiedType == TypeOK => Emptied \in WindowType
<1>. SUFFICES ASSUME TypeOK PROVE Emptied \in WindowType
  OBVIOUS
<1>1. Zero \in Reading
  BY DEF Zero, Reading
<1>2. 0 \in 0..MeanLen /\ 0 \in 0..(MeanLen - 1)
  BY StatusConstants
<1>. QED BY <1>1, <1>2 DEF TypeOK, Emptied, WindowType

\* Moving a process keeps the type of the labels.
LEMMA GotoType ==
  ASSUME TypeOK, NEW p \in Proc, NEW l \in Label, Goto(p, l)
  PROVE  pc' \in [Proc -> Label]
BY DEF TypeOK, Goto

\* The data that one execution of the checks leaves behind.
LEMMA CheckType ==
  ASSUME TypeOK, Check
  PROVE  /\ prev' \in Reading /\ window' \in WindowType
         /\ vdir' \in VertDir /\ verdict' \in Status /\ pc' \in [Proc -> Label]
<1>. DEFINE D(r) == IF Empty THEN Zero ELSE Minus(r, prev)
            W(r) == Pushed(window, D(r))
            V(r) == VerticalDir(vdir, Rate(W(r), r.alt))
            S(r) == Decide(status, V(r), r.alt)
<1>1. PICK r \in Readings :
        /\ prev' = r /\ window' = W(r)
        /\ \/ UNCHANGED <<vdir, pc, verdict>>
           \/ /\ vdir' = V(r)
              /\ IF S(r) = "LANDING" THEN StartBuzzer("status") ELSE UNCHANGED pc
              /\ UNCHANGED verdict
           \/ vdir' = V(r) /\ verdict' = S(r) /\ Goto("status", "print")
  BY Zenon DEF Check
<1>2. r \in Reading
  BY StatusConstants DEF Reading
<1>3. D(r) \in Reading
  BY <1>2, ReadingArithmetic DEF Zero, Reading, TypeOK
<1>4. W(r) \in WindowType
  BY <1>3, PushedType DEF TypeOK, WindowType
<1>5. V(r) \in VertDir
  BY VerticalDirType
<1>6. S(r) \in Status
  <2>. HIDE DEF V
  <2>1. r.alt \in Int
    BY <1>2 DEF Reading
  <2>2. Decide(status, V(r), r.alt) \in Status \ {"NOFIX"}
    BY <1>5, <2>1, ChainTotal DEF TypeOK
  <2>. QED BY <2>2
<1>. HIDE DEF D, W, V, S
<1>7. pc' \in [Proc -> Label]
  BY <1>1 DEF TypeOK, StartBuzzer, Goto, Label
<1>. QED BY <1>1, <1>2, <1>4, <1>5, <1>6, <1>7 DEF TypeOK

\* Every step keeps every variable in its type.
LEMMA TypeStep == TypeOK /\ [Next]_vars => TypeOK'
<1> SUFFICES ASSUME TypeOK, [Next]_vars PROVE TypeOK'
  OBVIOUS
<1>1. CASE Check
  BY <1>1, CheckType DEF TypeOK, Check, WindowType
<1>2. CASE NoFix
  BY <1>2 DEF TypeOK, NoFix, Goto, Label, data
<1>3. CASE SetStatus
  <2>1. pc' \in [Proc -> Label]
    BY <1>3 DEF TypeOK, SetStatus, StartBuzzer, Goto, Label
  <2>2. status' \in Status /\ verdict' \in Status
    BY <1>3 DEF TypeOK, SetStatus, Status
  <2>. QED BY <1>3, <2>1, <2>2 DEF TypeOK, SetStatus, data
<1>4. ASSUME NEW p \in Proc, Reset(p) PROVE TypeOK'
  <2>1. CASE ResetData(p)
    BY <1>4, <2>1, EmptiedType
    DEF TypeOK, Reset, ResetLogged, ResetPrinted, ResetData, Goto, Label, Status, VertDir, WindowType
  <2>2. CASE Goto(p, "clear") /\ UNCHANGED <<status, vdir, window>>
    BY <1>4, <2>2 DEF TypeOK, Reset, ResetLogged, ResetPrinted, Goto, Label
  <2>. QED BY <1>4, <2>1, <2>2 DEF Reset, ResetLogged, ResetPrinted
<1>5. ASSUME NEW p \in Proc, BuzzerOn(p) PROVE TypeOK'
  BY <1>5 DEF TypeOK, BuzzerOn, Goto, Label, data
<1>6. CASE CheckTimeout \/ Expired
  BY <1>6 DEF TypeOK, CheckTimeout, Expired, StartBuzzer, Goto, Label, data
<1>7. CASE Expire \/ TestStatus
  BY <1>7 DEF TypeOK, Expire, TestStatus, data
<1>8. CASE Reload \/ TestEnd
  BY <1>8 DEF TypeOK, Reload, TestEnd, Goto, Label, data
<1>9. ASSUME NEW p \in Operator, MissionStart(p) \/ SetMissionStart(p) \/ BuzzerReset(p) PROVE TypeOK'
  <2>1. pc' \in [Proc -> Label]
    BY <1>9 DEF TypeOK, MissionStart, SetMissionStart, BuzzerReset, Goto, Label
  <2>2. restart' \in [Proc -> BOOLEAN] /\ beep' \in BOOLEAN /\ overdue' \in BOOLEAN
    BY <1>9, Zenon DEF TypeOK, MissionStart, SetMissionStart, BuzzerReset
  <2>. QED BY <1>9, <2>1, <2>2 DEF TypeOK, MissionStart, SetMissionStart, BuzzerReset, data
<1>10. CASE UNCHANGED vars
  BY <1>10 DEF TypeOK, vars
<1>. QED BY <1>1, <1>2, <1>3, <1>4, <1>5, <1>6, <1>7, <1>8, <1>9, <1>10
  DEF Next, StatusStep, BuzzerStep, OperatorStep, Operator, Proc

\* The initial states are well typed.
LEMMA TypeInit == Init => TypeOK
<1>. SUFFICES ASSUME Init PROVE TypeOK
  OBVIOUS
<1>1. Zero \in Reading
  BY DEF Zero, Reading
<1>2. 0 \in 0..MeanLen /\ 0 \in 0..(MeanLen - 1)
  BY StatusConstants
<1>3. window \in WindowType
  BY <1>1, <1>2 DEF Init, WindowType
<1>4. pc \in [Proc -> Label]
  BY DEF Init, Label
<1>5. restart \in [Proc -> BOOLEAN] /\ beep \in BOOLEAN /\ overdue \in BOOLEAN
  BY Zenon DEF Init
<1>. QED BY <1>1, <1>3, <1>4, <1>5 DEF Init, TypeOK, WindowType, Status, VertDir

\* The type invariant, and with it that the ASSERT(0) of status_check() is never
\* reached, holds in every reachable state.
THEOREM TypeCorrect == Spec => []TypeOK
BY TypeInit, TypeStep, PTL DEF Spec

-----------------------------------------------------------------------------
(* NoChatter.  The threshold that a decision uses depends on the status at   *)
(* the time of the decision, the change happens when its message is out.     *)
(* What saves the hysteresis is that in between others can only make the     *)
(* status NOFIX, and that test mode is over when a check runs.               *)

PrintInv ==
  pc["status"] = "print" =>
    /\ ~Testing
    /\ status # "NOFIX" => \E d \in VertDir : verdict = Decide(status, d, prev.alt)

TurnInv ==
  /\ turn.alt \in Int
  /\ turn.from # "NOFIX" =>
       turn.from \in Status /\ \E d \in VertDir : status = Decide(turn.from, d, turn.alt)

TurningInv == PrintInv /\ TurnInv

\* A step that leaves the status, the last sample and the decision alone.
LEMMA QuietTurn ==
  ASSUME TurningInv, UNCHANGED <<status, turn>>,
         \/ pc'["status"] # "print"
         \/ UNCHANGED <<prev, verdict>> /\ pc["status"] = "print" /\ (Testing' => Testing)
  PROVE  TurningInv'
BY DEF TurningInv, PrintInv, TurnInv

\* Every step keeps the two invariants.
LEMMA TurnStep == TypeOK /\ TurningInv /\ [HNext]_hvars => TurningInv'
<1> SUFFICES ASSUME TypeOK, TurningInv, [HNext]_hvars PROVE TurningInv'
  OBVIOUS
<1>1. CASE UNCHANGED hvars
  BY <1>1 DEF hvars, history, vars, TurningInv, PrintInv, TurnInv, Testing
<1>. SUFFICES ASSUME HNext PROVE TurningInv'
  BY <1>1
<1>2. SetStatus => pc["status"] = "print" /\ pc'["status"] # "print"
  BY DEF SetStatus, StartBuzzer, Goto, TypeOK, Proc
<1>3. turn' = IF SetStatus THEN [from |-> status, alt |-> prev.alt]
              ELSE IF status' # status THEN NoTurn ELSE turn
  BY DEF HNext
<1>4. CASE Check
  <2>1. pc["status"] = "wait" /\ ~Testing /\ status' = status
    BY <1>4 DEF Check
  <2>2. turn' = turn
    BY <1>2, <1>3, <2>1
  <2>3. pc'["main"] = pc["main"]
    BY <1>4 DEF Check, StartBuzzer, Goto, TypeOK, Proc
  <2>4. pc'["status"] = "print" => \E d \in VertDir : verdict' = Decide(status, d, prev'.alt)
    <3>. DEFINE W(r) == Pushed(window, IF Empty THEN Zero ELSE Minus(r, prev))
                V(r) == VerticalDir(vdir, Rate(W(r), r.alt))
    <3>1. PICK r \in Readings :
            /\ prev' = r
            /\ \/ UNCHANGED pc
               \/ StartBuzzer("status")
               \/ verdict' = Decide(status, V(r), r.alt)
      BY <1>4, Zenon DEF Check
    <3>2. V(r) \in VertDir
      BY VerticalDirType
    <3>. HIDE DEF V
    <3>3. pc'["status"] = "print" => verdict' = Decide(status, V(r), r.alt)
      BY <2>1, <3>1 DEF StartBuzzer, Goto, TypeOK, Proc
    <3>. QED BY <3>1, <3>2, <3>3
  <2>. QED BY <2>1, <2>2, <2>3, <2>4 DEF TurningInv, PrintInv, TurnInv, Testing
<1>5. CASE SetStatus
  <2>1. status' = verdict /\ turn' = [from |-> status, alt |-> prev.alt]
    BY <1>3, <1>5 DEF SetStatus
  <2>2. prev.alt \in Int
    BY DEF TypeOK, Reading
  <2>3. status # "NOFIX" => \E d \in VertDir : verdict = Decide(status, d, prev.alt)
    BY <1>2, <1>5 DEF TurningInv, PrintInv
  <2>. QED BY <1>2, <1>5, <2>1, <2>2, <2>3 DEF TurningInv, PrintInv, TurnInv, TypeOK
<1>6. ASSUME NEW p \in Proc, Reset(p) PROVE TurningInv'
  <2>1. /\ status' = status \/ status' = "NOFIX"
        /\ UNCHANGED <<prev, verdict>>
        /\ pc'["status"] = "print" => pc["status"] = "print"
        /\ Testing' => Testing
    BY <1>2, <1>6 DEF Reset, ResetLogged, ResetPrinted, ResetData, Goto, TypeOK, Proc, Testing
  <2>2. ~SetStatus
    BY <1>6 DEF Reset, ResetLogged, ResetPrinted, ResetData, Goto, SetStatus, StartBuzzer, TypeOK, Proc
  <2>3. turn' = NoTurn \/ (turn' = turn /\ status' = status)
    BY <1>3, <2>2
  <2>. QED BY <2>1, <2>3 DEF TurningInv, PrintInv, TurnInv, NoTurn
<1>7. CASE TestStatus
  <2>1. pc' = pc /\ Testing /\ pc["status"] # "print"
    BY <1>7 DEF TestStatus, TurningInv, PrintInv
  <2>2. turn' = IF status' # status THEN NoTurn ELSE turn
    BY <1>2, <1>3, <2>1
  <2>. QED BY <2>1, <2>2 DEF TurningInv, PrintInv, TurnInv, NoTurn
<1>8. ASSUME \/ NoFix \/ CheckTimeout \/ Expired \/ Expire \/ Reload \/ TestEnd
             \/ BuzzerOn("status") \/ BuzzerOn("buzzer")
             \/ \E p \in Operator : MissionStart(p) \/ SetMissionStart(p) \/ BuzzerReset(p)
      PROVE  TurningInv'
  <2>1. /\ status' = status /\ UNCHANGED <<prev, verdict>>
        /\ \/ pc'["status"] = pc["status"]
           \/ pc'["status"] # "print" /\ pc["status"] # "print"
        /\ Testing' => Testing
    BY <1>8 DEF NoFix, CheckTimeout, Expired, Expire, Reload, TestEnd, BuzzerOn, MissionStart,
       SetMissionStart, BuzzerReset, StartBuzzer, Goto, TypeOK, Proc, Operator, Testing, data
  <2>2. turn' = turn
    BY <1>2, <1>3, <2>1
  <2>. QED BY <2>1, <2>2, QuietTurn
<1>. QED BY <1>4, <1>5, <1>6, <1>7, <1>8
  DEF HNext, Next, StatusStep, BuzzerStep, OperatorStep, Operator, Proc

\* A status does not chatter at a threshold, for every choice of the thresholds:
\* not even ground_alt < landing_alt < tropopause_alt is needed.
THEOREM NeverChatters == HSpec => NoChatter
<1>. DEFINE Apart == {status, status'} \in Neighbours /\ turn.from = status' /\ SetStatus =>
                       prev.alt - turn.alt > AltHist \/ turn.alt - prev.alt > AltHist
<1>1. HInit => TypeOK /\ TurningInv
  <2>. SUFFICES ASSUME HInit PROVE TypeOK /\ TurningInv
    OBVIOUS
  <2>1. pc["status"] = "wait"
    BY DEF HInit, Init, Proc
  <2>. QED BY <2>1, TypeInit DEF HInit, TurningInv, PrintInv, TurnInv, NoTurn
<1>2. [HNext]_hvars => [Next]_vars
  BY DEF HNext, hvars
<1>3. TypeOK /\ TurningInv /\ [HNext]_hvars => [Apart]_hvars
  <2>. SUFFICES ASSUME TypeOK, TurningInv, {status, status'} \in Neighbours,
                       turn.from = status', SetStatus
                PROVE  prev.alt - turn.alt > AltHist \/ turn.alt - prev.alt > AltHist
    BY DEF Apart
  <2>1. status' = verdict /\ pc["status"] = "print" /\ verdict \in Status /\ status \in Status
    BY DEF SetStatus, TypeOK
  <2>2. status # "NOFIX" /\ status' # "NOFIX"
    BY DEF Neighbours
  <2>3. PICK d \in VertDir : verdict = Decide(status, d, prev.alt)
    BY <2>1, <2>2 DEF TurningInv, PrintInv
  <2>4. PICK e \in VertDir : status = Decide(verdict, e, turn.alt)
    BY <2>1, <2>2 DEF TurningInv, TurnInv
  <2>5. prev.alt \in Int /\ turn.alt \in Int
    BY DEF TypeOK, Reading, TurningInv, TurnInv
  <2>6. {verdict, status} \in Neighbours
    BY <2>1 DEF Neighbours
  <2>7. prev.alt - turn.alt > AltHist \/ turn.alt - prev.alt > AltHist
    BY <2>1, <2>3, <2>4, <2>5, <2>6, DecisionsApart
  <2>. QED BY <2>7
<1>. QED BY <1>1, <1>2, <1>3, TypeStep, TurnStep, PTL DEF HSpec, NoChatter

-----------------------------------------------------------------------------
(* ClimbMeasured.  The sum is only adjusted, by the value that comes and the *)
(* one that leaves the circular buffer, so it is right only as long as the   *)
(* buffer holds the changes between the readings seen, in their order: from  *)
(* the first cell while it fills up, from idx on when it is full.            *)

\* The cell that is j cells after cell i.
Slot(i, j) == IF i + j >= MeanLen THEN i + j - MeanLen ELSE i + j

\* The moving average w was pushed the changes between the readings s, the first of
\* them as no change.
Buffered(w, s) ==
  /\ w.cnt = IF Len(s) < MeanLen THEN Len(s) ELSE MeanLen
  /\ w.sum = IF Len(s) = 0 THEN Zero ELSE Minus(s[Len(s)], s[1])
  /\ Len(s) <= MeanLen => w.idx = IF Len(s) = MeanLen THEN 0 ELSE Len(s)
  /\ Len(s) \in 1..MeanLen =>
       /\ w.values[0] = Zero
       /\ \A k \in 1..(Len(s) - 1) : w.values[k] = Minus(s[k + 1], s[k])
  /\ Len(s) = MeanLen + 1 =>
       \A j \in 0..(MeanLen - 1) : w.values[Slot(w.idx, j)] = Minus(s[j + 2], s[j + 1])

ClimbInv ==
  /\ seen \in Seq(Reading) /\ Len(seen) <= MeanLen + 1
  /\ Len(seen) > 0 => prev = seen[Len(seen)]
  /\ Buffered(window, seen)

\* Sums and differences of readings are those of numbers.
LEMMA ReadingSums ==
  ASSUME NEW a \in Reading, NEW b \in Reading, NEW c \in Reading
  PROVE  /\ Plus(Minus(b, a), Minus(c, b)) = Minus(c, a)
         /\ Minus(Minus(c, a), Minus(b, a)) = Minus(c, b)
         /\ Minus(Minus(b, a), Zero) = Minus(b, a)
         /\ Plus(Zero, Zero) = Minus(a, a)
BY DEF Reading, Plus, Minus, Zero

\* The readings seen after one more of them.
LEMMA RecentReadings ==
  ASSUME NEW s \in Seq(Reading), Len(s) <= MeanLen + 1, NEW r \in Reading
  PROVE  LET t == Recent(Append(s, r)) IN
         /\ t \in Seq(Reading)
         /\ Len(t) = IF Len(s) = MeanLen + 1 THEN MeanLen + 1 ELSE Len(s) + 1
         /\ t[Len(t)] = r
         /\ \A k \in 1..(Len(t) - 1) : t[k] = IF Len(s) = MeanLen + 1 THEN s[k + 1] ELSE s[k]
<1>1. /\ Append(s, r) \in Seq(Reading) /\ Len(Append(s, r)) = Len(s) + 1
      /\ Append(s, r)[Len(s) + 1] = r /\ \A k \in 1..Len(s) : Append(s, r)[k] = s[k]
  OBVIOUS
<1>. DEFINE a == Append(s, r)
<1>2. CASE Len(s) = MeanLen + 1
  <2>1. Tail(a) \in Seq(Reading) /\ Len(Tail(a)) = Len(s) /\ \A k \in 1..Len(s) : Tail(a)[k] = a[k + 1]
    BY <1>1, <1>2, StatusConstants
  <2>. QED BY <1>1, <1>2, <2>1, StatusConstants DEF Recent
<1>3. CASE Len(s) # MeanLen + 1
  BY <1>1, <1>3, StatusConstants DEF Recent
<1>. QED BY <1>2, <1>3

\* The cell j of the buffer after a push is the cell j + 1 before it, and but for the
\* last one it is not the cell that the push has written.
LEMMA NextSlot ==
  ASSUME NEW i \in 0..(MeanLen - 1), NEW j \in 0..(MeanLen - 1),
         j # MeanLen - 1
  PROVE  /\ Slot(NextIdx(i), j) = Slot(i, j + 1) /\ Slot(NextIdx(i), j) # i
         /\ Slot(NextIdx(i), j) \in 0..(MeanLen - 1) /\ j + 1 \in 0..(MeanLen - 1)
<1>1. MeanLen \in Nat \ {0} /\ i \in Nat /\ j \in Nat /\ i < MeanLen /\ j + 1 < MeanLen
  BY StatusConstants
<1>2. CASE i + 1 < MeanLen
  <2>1. NextIdx(i) = i + 1
    BY <1>1, <1>2 DEF NextIdx
  <2>2. CASE i + 1 + j < MeanLen
    <3>1. Slot(i + 1, j) = i + 1 + j /\ Slot(i, j + 1) = i + 1 + j
      BY <1>1, <2>2 DEF Slot
    <3>. QED BY <1>1, <2>1, <2>2, <3>1
  <2>3. CASE i + 1 + j >= MeanLen
    <3>1. Slot(i + 1, j) = i + 1 + j - MeanLen /\ Slot(i, j + 1) = i + 1 + j - MeanLen
      BY <1>1, <2>3 DEF Slot
    <3>. QED BY <1>1, <2>1, <2>3, <3>1
  <2>. QED BY <1>1, <2>2, <2>3
<1>3. CASE i + 1 >= MeanLen
  <2>1. i = MeanLen - 1 /\ NextIdx(i) = 0
    BY <1>1, <1>3 DEF NextIdx
  <2>2. Slot(0, j) = j /\ Slot(i, j + 1) = j
    BY <1>1, <2>1 DEF Slot
  <2>. QED BY <1>1, <2>1, <2>2
<1>. QED BY <1>1, <1>2, <1>3

\* MOVING_AVG_PUSH of the change to a new reading: the average still holds the changes.
LEMMA PushBuffers ==
  ASSUME NEW w \in WindowType, NEW s \in Seq(Reading), Len(s) <= MeanLen + 1, Buffered(w, s),
         NEW p \in Reading, Len(s) > 0 => p = s[Len(s)], NEW r \in Reading
  PROVE  Buffered(Pushed(w, IF w.cnt = 0 THEN Zero ELSE Minus(r, p)), Recent(Append(s, r)))
<1>. DEFINE v == IF w.cnt = 0 THEN Zero ELSE Minus(r, p)
            u == Pushed(w, v)
            t == Recent(Append(s, r))
<1>. USE StatusConstants
<1>1. /\ w.idx \in 0..(MeanLen - 1) /\ w.cnt \in 0..MeanLen
      /\ w.values \in [0..(MeanLen - 1) -> Reading]
  BY DEF WindowType
<1>2. /\ u.values = [w.values EXCEPT ![w.idx] = v]
      /\ u.sum = Plus(DropOldest(w), v)
      /\ u.cnt = IF w.cnt < MeanLen THEN w.cnt + 1 ELSE w.cnt
      /\ u.idx = NextIdx(w.idx)
  BY DEF Pushed
<1>3. /\ t \in Seq(Reading)
      /\ Len(t) = IF Len(s) = MeanLen + 1 THEN MeanLen + 1 ELSE Len(s) + 1
      /\ t[Len(t)] = r
      /\ \A k \in 1..(Len(t) - 1) : t[k] = IF Len(s) = MeanLen + 1 THEN s[k + 1] ELSE s[k]
  BY RecentReadings
<1>4. \A k \in 1..Len(s) : s[k] \in Reading
  OBVIOUS
<1>5. Len(s) \in Nat
  OBVIOUS
<1>6. w.cnt = IF Len(s) < MeanLen THEN Len(s) ELSE MeanLen
  BY DEF Buffered
<1>7. \A c \in 0..(MeanLen - 1) : u.values[c] = IF c = w.idx THEN v ELSE w.values[c]
  BY <1>1, <1>2
<1>. HIDE DEF u, t
<1>8. CASE Len(s) = 0
  <2>1. w.idx = 0 /\ w.sum = Zero /\ v = Zero /\ w.cnt = 0
    BY <1>6, <1>8 DEF Buffered
  <2>2. Len(t) = 1 /\ t[1] = r
    BY <1>3, <1>8
  <2>3. u.sum = Minus(r, r)
    BY <1>2, <2>1, ReadingSums DEF DropOldest
  <2>4. u.cnt = 1 /\ u.idx = IF 1 = MeanLen THEN 0 ELSE 1
    BY <1>2, <2>1 DEF NextIdx
  <2>5. u.values[0] = Zero
    BY <1>7, <2>1
  <2>. QED BY <2>2, <2>3, <2>4, <2>5 DEF Buffered, u, t
<1>. SUFFICES ASSUME Len(s) > 0 PROVE Buffered(u, t)
  BY <1>5, <1>8 DEF u, t
<1>9. v = Minus(r, s[Len(s)]) /\ s[Len(s)] \in Reading /\ s[1] \in Reading
  BY <1>4, <1>5, <1>6
<1>10. w.sum = Minus(s[Len(s)], s[1])
  BY DEF Buffered
<1>. HIDE DEF v
<1>11. CASE Len(s) < MeanLen
  <2>1. w.cnt = Len(s) /\ w.idx = Len(s)
    BY <1>6, <1>11 DEF Buffered
  <2>2. Len(t) = Len(s) + 1 /\ t[Len(s) + 1] = r /\ \A k \in 1..Len(s) : t[k] = s[k]
    BY <1>3, <1>5, <1>11
  <2>3. u.sum = Minus(t[Len(t)], t[1])
    BY <1>2, <1>9, <1>10, <1>11, <2>1, <2>2, ReadingSums DEF DropOldest
  <2>4. u.cnt = Len(t) /\ u.idx = IF Len(t) = MeanLen THEN 0 ELSE Len(t)
    BY <1>2, <1>5, <1>11, <2>1, <2>2 DEF NextIdx
  <2>5. w.values[0] = Zero /\ \A k \in 1..(Len(s) - 1) : w.values[k] = Minus(s[k + 1], s[k])
    BY <1>5, <1>11 DEF Buffered
  <2>6. u.values[0] = Zero
    BY <1>7, <2>1, <2>5
  <2>7. ASSUME NEW k \in 1..(Len(t) - 1) PROVE u.values[k] = Minus(t[k + 1], t[k])
    <3>1. CASE k = Len(s)
      BY <1>7, <1>9, <1>11, <2>1, <2>2, <3>1
    <3>2. CASE k # Len(s)
      <4>1. k \in 1..(Len(s) - 1) /\ k \in 0..(MeanLen - 1) /\ k # w.idx
        BY <1>5, <1>11, <2>1, <2>2, <3>2
      <4>2. u.values[k] = w.values[k]
        BY <1>7, <4>1
      <4>3. t[k] = s[k] /\ t[k + 1] = s[k + 1]
        BY <1>5, <2>2, <4>1
      <4>. QED BY <2>5, <4>1, <4>2, <4>3
    <3>. QED BY <3>1, <3>2
  <2>8. Len(t) <= MeanLen /\ Len(t) > 0
    BY <1>5, <1>11, <2>2
  <2>. QED BY <2>3, <2>4, <2>6, <2>7, <2>8 DEF Buffered
<1>12. CASE Len(s) = MeanLen
  <2>1. w.cnt = MeanLen /\ w.idx = 0
    BY <1>6, <1>12 DEF Buffered
  <2>2. Len(t) = MeanLen + 1 /\ t[MeanLen + 1] = r /\ \A k \in 1..MeanLen : t[k] = s[k]
    BY <1>3, <1>12
  <2>3. w.values[0] = Zero /\ \A k \in 1..(MeanLen - 1) : w.values[k] = Minus(s[k + 1], s[k])
    BY <1>12 DEF Buffered
  <2>4. DropOldest(w) = Minus(s[MeanLen], s[1])
    BY <1>9, <1>10, <1>12, <2>1, <2>3, ReadingSums DEF DropOldest
  <2>5. u.sum = Minus(t[Len(t)], t[1])
    BY <1>2, <1>9, <1>12, <2>2, <2>4, ReadingSums
  <2>6. u.cnt = MeanLen /\ u.idx = IF MeanLen = 1 THEN 0 ELSE 1
    BY <1>2, <2>1 DEF NextIdx
  <2>7. ASSUME NEW j \in 0..(MeanLen - 1) PROVE u.values[Slot(u.idx, j)] = Minus(t[j + 2], t[j + 1])
    <3>1. CASE j = MeanLen - 1
      BY <1>7, <1>9, <1>12, <2>1, <2>2, <2>6, <3>1 DEF Slot
    <3>2. CASE j # MeanLen - 1
      <4>1. Slot(u.idx, j) = j + 1 /\ j + 1 \in 1..(MeanLen - 1)
        BY <2>6, <3>2 DEF Slot
      <4>2. u.values[j + 1] = Minus(s[j + 2], s[j + 1])
        BY <1>7, <2>1, <2>3, <4>1
      <4>. QED BY <2>2, <4>1, <4>2
    <3>. QED BY <3>1, <3>2
  <2>. QED BY <2>2, <2>5, <2>6, <2>7 DEF Buffered
<1>13. CASE Len(s) = MeanLen + 1
  <2>1. w.cnt = MeanLen
    BY <1>6, <1>13
  <2>2. Len(t) = MeanLen + 1 /\ t[MeanLen + 1] = r /\ \A k \in 1..MeanLen : t[k] = s[k + 1]
    BY <1>3, <1>13
  <2>3. \A j \in 0..(MeanLen - 1) : w.values[Slot(w.idx, j)] = Minus(s[j + 2], s[j + 1])
    BY <1>13 DEF Buffered
  <2>4. w.values[w.idx] = Minus(s[2], s[1])
    <3>1. Slot(w.idx, 0) = w.idx
      BY <1>1 DEF Slot
    <3>. QED BY <2>3, <3>1
  <2>5. s[2] \in Reading /\ s[MeanLen + 1] \in Reading
    BY <1>4, <1>13
  <2>6. DropOldest(w) = Minus(s[MeanLen + 1], s[2])
    BY <1>9, <1>10, <1>13, <2>1, <2>4, <2>5, ReadingSums DEF DropOldest
  <2>7. u.sum = Minus(t[Len(t)], t[1])
    BY <1>2, <1>9, <1>13, <2>2, <2>5, <2>6, ReadingSums
  <2>8. u.cnt = MeanLen /\ u.idx = NextIdx(w.idx)
    BY <1>2, <2>1
  <2>9. ASSUME NEW j \in 0..(MeanLen - 1) PROVE u.values[Slot(u.idx, j)] = Minus(t[j + 2], t[j + 1])
    <3>1. CASE j = MeanLen - 1
      <4>1. Slot(u.idx, j) = w.idx
        BY <1>1, <2>8, <3>1 DEF Slot, NextIdx
      <4>. QED BY <1>1, <1>7, <1>9, <1>13, <2>2, <3>1, <4>1
    <3>2. CASE j # MeanLen - 1
      <4>1. /\ Slot(u.idx, j) = Slot(w.idx, j + 1) /\ Slot(u.idx, j) # w.idx
            /\ Slot(u.idx, j) \in 0..(MeanLen - 1) /\ j + 1 \in 0..(MeanLen - 1)
        <5>1. /\ Slot(NextIdx(w.idx), j) = Slot(w.idx, j + 1) /\ Slot(NextIdx(w.idx), j) # w.idx
              /\ Slot(NextIdx(w.idx), j) \in 0..(MeanLen - 1) /\ j + 1 \in 0..(MeanLen - 1)
          BY <1>1, <3>2, NextSlot
        <5>. QED BY <2>8, <5>1
      <4>2. u.values[Slot(u.idx, j)] = w.values[Slot(w.idx, j + 1)]
        BY <1>7, <4>1
      <4>3. w.values[Slot(w.idx, j + 1)] = Minus(s[j + 3], s[j + 2])
        BY <2>3, <4>1
      <4>. QED BY <2>2, <4>1, <4>2, <4>3
    <3>. QED BY <3>1, <3>2
  <2>. QED BY <2>2, <2>7, <2>8, <2>9 DEF Buffered
<1>. QED BY <1>5, <1>11, <1>12, <1>13

\* A reset that is over has emptied the averages; one that has still a message to send
\* has not touched them.
LEMMA ResetEmpties ==
  ASSUME TypeOK, NEW p \in Proc, Reset(p)
  PROVE  /\ pc'[p] # "clear" => window' = Emptied
         /\ pc'[p] = "clear" => window' = window
         /\ prev' = prev
<1>1. /\ Goto(p, "clear") => pc'[p] = "clear"
      /\ ResetData(p) => pc'[p] # "clear"
  BY DEF TypeOK, Goto, ResetData
<1>. QED BY <1>1 DEF Reset, ResetLogged, ResetPrinted, ResetData

\* Every step keeps the circular buffer right.
LEMMA ClimbStep == TypeOK /\ ClimbInv /\ [HNext]_hvars => ClimbInv'
<1> SUFFICES ASSUME TypeOK, ClimbInv, [HNext]_hvars PROVE ClimbInv'
  OBVIOUS
<1>1. ASSUME UNCHANGED <<seen, window>>, prev' = prev PROVE ClimbInv'
  BY <1>1 DEF ClimbInv, Buffered
<1>2. CASE UNCHANGED hvars
  BY <1>1, <1>2 DEF hvars, history, vars
<1>. SUFFICES ASSUME HNext PROVE ClimbInv'
  BY <1>2
<1>3. seen' = IF Check THEN Recent(Append(seen, prev')) ELSE IF Cleared THEN <<>> ELSE seen
  BY DEF HNext
<1>4. CASE Check
  <2>1. PICK r \in Readings :
          prev' = r /\ window' = Pushed(window, IF Empty THEN Zero ELSE Minus(r, prev))
    BY <1>4, Zenon DEF Check
  <2>2. r \in Reading /\ seen' = Recent(Append(seen, r))
    BY <1>3, <1>4, <2>1, StatusConstants DEF Reading
  <2>3. window \in WindowType /\ prev \in Reading
    BY DEF TypeOK, WindowType
  <2>4. seen \in Seq(Reading) /\ Len(seen) <= MeanLen + 1 /\ Buffered(window, seen)
        /\ (Len(seen) > 0 => prev = seen[Len(seen)])
    BY DEF ClimbInv
  <2>5. Buffered(window', seen')
    BY <2>1, <2>2, <2>3, <2>4, PushBuffers DEF Empty
  <2>6. /\ seen' \in Seq(Reading) /\ seen'[Len(seen')] = r
        /\ Len(seen') = IF Len(seen) = MeanLen + 1 THEN MeanLen + 1 ELSE Len(seen) + 1
    BY <2>2, <2>4, RecentReadings
  <2>7. Len(seen') <= MeanLen + 1
    BY <2>4, <2>6, StatusConstants
  <2>. QED BY <2>1, <2>5, <2>6, <2>7 DEF ClimbInv, Buffered
<1>5. CASE ~Check /\ Cleared
  <2>1. PICK p \in Proc : Reset(p) /\ pc'[p] # "clear"
    BY <1>5 DEF Cleared
  <2>2. window' = Emptied /\ seen' = <<>>
    BY <1>3, <1>5, <2>1, ResetEmpties
  <2>. QED BY <2>2, StatusConstants DEF ClimbInv, Buffered, Emptied
<1>6. CASE ~Check /\ ~Cleared
  <2>1. seen' = seen
    BY <1>3, <1>6
  <2>2. ASSUME NEW p \in Proc, Reset(p) PROVE UNCHANGED <<prev, window>>
    BY <1>6, <2>2, ResetEmpties DEF Cleared
  <2>3. ASSUME \/ NoFix \/ SetStatus \/ CheckTimeout \/ Expired \/ Expire \/ Reload
               \/ TestStatus \/ TestEnd \/ BuzzerOn("status") \/ BuzzerOn("buzzer")
               \/ \E p \in Operator : MissionStart(p) \/ SetMissionStart(p) \/ BuzzerReset(p)
        PROVE  UNCHANGED <<prev, window>>
    BY <2>3 DEF NoFix, SetStatus, CheckTimeout, Expired, Expire, Reload, TestStatus, TestEnd,
       BuzzerOn, MissionStart, SetMissionStart, BuzzerReset, data
  <2>4. UNCHANGED <<prev, window>>
    BY <1>6, <2>2, <2>3
    DEF HNext, Next, StatusStep, BuzzerStep, OperatorStep, Operator, Proc
  <2>. QED BY <1>1, <2>1, <2>4
<1>. QED BY <1>4, <1>5, <1>6

\* The ascent over the window is what the balloon climbed between the first and the
\* last reading since the reset, for every length of the window and every interleaving
\* of checks and resets.
THEOREM ClimbAlwaysMeasured == HSpec => []ClimbMeasured
<1>1. HInit => TypeOK /\ ClimbInv
  <2>. SUFFICES ASSUME HInit PROVE TypeOK /\ ClimbInv
    OBVIOUS
  <2>1. TypeOK
    BY TypeInit DEF HInit
  <2>2. seen = <<>> /\ window.sum = Zero /\ window.cnt = 0 /\ window.idx = 0
    BY DEF HInit, Init
  <2>. QED BY <2>1, <2>2, StatusConstants DEF ClimbInv, Buffered
<1>2. [HNext]_hvars => [Next]_vars
  BY DEF HNext, hvars
<1>3. ClimbInv => ClimbMeasured
  <2>. SUFFICES ASSUME ClimbInv, window.cnt > 0
                PROVE  window.sum = Minus(seen[Len(seen)], seen[1])
    BY DEF ClimbMeasured
  <2>1. Len(seen) # 0
    BY StatusConstants DEF ClimbInv, Buffered
  <2>. QED BY <2>1 DEF ClimbInv, Buffered
<1>. QED BY <1>1, <1>2, <1>3, TypeStep, ClimbStep, PTL DEF HSpec
=============================================================================
