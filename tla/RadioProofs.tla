----------------------------- MODULE RadioProofs -----------------------------
(***************************************************************************)
(* Proofs about Radio, for any set of talkers and any clock: the semaphore *)
(* keeps every message whole, and the firmware implements the safety part  *)
(* of Downlink.                                                            *)
(***************************************************************************)
EXTENDS RadioHistory, TLAPS

USE DEF S!SemType

\* A semaphore is owned exactly while it is nested.
OwnedIffNested(s) == s.owner = None <=> s.nest = 0

\* Who writes the buffer or sends it owns the semaphore of the radio.
Critical == {"measure", "send", "drop", "done"}
CriticalOwns == \A p \in Process : pc[p] \in Critical => sem["radio"].owner = p

IInv ==
  /\ TypeOK
  /\ \A s \in Sem : OwnedIffNested(sem[s])
  /\ CriticalOwns
  /\ WholeMessage

-----------------------------------------------------------------------------
(* The semaphore.                                                           *)

\* sem_obtain() leaves a well-formed semaphore: owned by the caller if it was
\* available, by its old owner if not.
LEMMA ObtainedOwner ==
  ASSUME NEW s \in S!SemType, OwnedIffNested(s), NEW p \in Process
  PROVE  /\ S!Obtained(s, p) \in S!SemType
         /\ OwnedIffNested(S!Obtained(s, p))
         /\ S!Obtained(s, p).owner = IF S!Available(s, p) THEN p ELSE s.owner
         /\ S!Available(s, p) => S!Obtained(s, p).nest = s.nest + 1
<1>1. p # None
  BY RadioConstants
<1>2. CASE S!Available(s, p)
  <2> DEFINE t == [owner |-> p, nest |-> s.nest + 1, queue |-> s.queue]
  <2>1. S!Obtained(s, p) = t
    BY <1>2 DEF S!Obtained
  <2>2. t \in S!SemType /\ t.nest # 0
    OBVIOUS
  <2> QED
    BY <1>1, <1>2, <2>1, <2>2 DEF OwnedIffNested
<1>3. CASE ~S!Available(s, p)
  BY <1>3 DEF S!Obtained, OwnedIffNested
<1> QED
  BY <1>2, <1>3

\* sem_release() by the owner leaves a well-formed semaphore, still the caller's
\* while it is nested.
LEMMA ReleasedOwner ==
  ASSUME NEW s \in S!SemType, OwnedIffNested(s), s.owner # None
  PROVE  /\ S!Released(s) \in S!SemType
         /\ OwnedIffNested(S!Released(s))
         /\ s.nest > 1 => S!Released(s).owner = s.owner
         /\ \A p \in Process : S!RunsAfter(s, p) \in Process
<1>1. s.nest \in Nat \ {0}
  BY DEF OwnedIffNested
<1>2. s.queue # <<>> => Head(s.queue) \in Process /\ Tail(s.queue) \in Seq(Process)
  OBVIOUS
<1>3. CASE s.nest # 1
  BY <1>1, <1>3 DEF S!Released, S!Handover, S!RunsAfter, OwnedIffNested
<1>4. CASE s.nest = 1 /\ s.queue # <<>>
  <2>1. S!Released(s) = [owner |-> Head(s.queue), nest |-> 1, queue |-> Tail(s.queue)]
    BY <1>4 DEF S!Released, S!Handover
  <2>2. Head(s.queue) # None
    BY <1>2, <1>4, RadioConstants
  <2> QED
    BY <1>2, <1>4, <2>1, <2>2 DEF S!Handover, S!RunsAfter, OwnedIffNested
<1>5. CASE s.nest = 1 /\ s.queue = <<>>
  BY <1>5 DEF S!Released, S!Handover, S!RunsAfter, S!Free, OwnedIffNested
<1> QED
  BY <1>3, <1>4, <1>5

-----------------------------------------------------------------------------
(* The invariant.                                                           *)

LEMMA InitInv == Init => IInv
<1> SUFFICES ASSUME Init PROVE IInv
  OBVIOUS
<1> USE DEF Init
<1>1. S!Free \in S!SemType /\ OwnedIffNested(S!Free)
  BY DEF S!Free, OwnedIffNested
<1>2. TypeOK
  BY <1>1 DEF TypeOK, Label, Todo
<1>3. \A s \in Sem : OwnedIffNested(sem[s])
  BY <1>1
<1> QED
  BY <1>2, <1>3 DEF IInv, CriticalOwns, Critical, WholeMessage

\* Taking a semaphore takes it from nobody.
LEMMA TakeKeeps ==
  ASSUME IInv, NEW p \in Process, NEW s \in Sem,
         sem' = [sem EXCEPT ![s] = S!Obtained(@, p)]
  PROVE  /\ sem' \in [Sem -> S!SemType]
         /\ \A x \in Sem : OwnedIffNested(sem'[x])
         /\ \A q \in Process : sem["radio"].owner = q => sem'["radio"].owner = q
<1>1. sem \in [Sem -> S!SemType] /\ OwnedIffNested(sem[s])
  BY DEF IInv, TypeOK
<1>2. /\ S!Obtained(sem[s], p) \in S!SemType
      /\ OwnedIffNested(S!Obtained(sem[s], p))
      /\ S!Obtained(sem[s], p).owner = IF S!Available(sem[s], p) THEN p ELSE sem[s].owner
  BY <1>1, ObtainedOwner
<1>3. \A x \in Sem : sem'[x] = IF x = s THEN S!Obtained(sem[s], p) ELSE sem[x]
  BY <1>1
<1>4. sem' \in [Sem -> S!SemType]
  BY <1>1, <1>2
<1>5. \A x \in Sem : OwnedIffNested(sem'[x])
  BY <1>2, <1>3 DEF IInv
<1>6. ASSUME NEW q \in Process, sem["radio"].owner = q PROVE sem'["radio"].owner = q
  <2>1. q # None /\ "radio" \in Sem
    BY RadioConstants DEF Sem
  <2> QED
    BY <1>2, <1>3, <1>6, <2>1 DEF S!Available
<1> QED
  BY <1>4, <1>5, <1>6

\* Its owner releases a semaphore, and the other one is left alone.
LEMMA GiveKeeps ==
  ASSUME IInv, NEW p \in Process, NEW s \in Sem, sem[s].owner = p,
         sem' = [sem EXCEPT ![s] = S!Released(@)]
  PROVE  /\ sem' \in [Sem -> S!SemType]
         /\ \A x \in Sem : OwnedIffNested(sem'[x])
         /\ s # "radio" => sem'["radio"].owner = sem["radio"].owner
         /\ S!RunsAfter(sem[s], p) \in Process
<1>1. sem \in [Sem -> S!SemType] /\ OwnedIffNested(sem[s])
  BY DEF IInv, TypeOK
<1>2. sem[s].owner # None
  BY RadioConstants
<1>3. /\ S!Released(sem[s]) \in S!SemType /\ OwnedIffNested(S!Released(sem[s]))
      /\ S!RunsAfter(sem[s], p) \in Process
  BY <1>1, <1>2, ReleasedOwner
<1>4. \A x \in Sem : sem'[x] = IF x = s THEN S!Released(sem[s]) ELSE sem[x]
  BY <1>1
<1>5. sem' \in [Sem -> S!SemType]
  BY <1>1, <1>3
<1>6. \A x \in Sem : OwnedIffNested(sem'[x])
  BY <1>3, <1>4 DEF IInv
<1>7. "radio" \in Sem
  BY DEF Sem
<1> QED
  BY <1>3, <1>4, <1>5, <1>6, <1>7

\* A timestamp is new and becomes the last one.
LEMMA SetTimeType ==
  ASSUME IInv, NEW p \in Process, SetTime(p)
  PROVE  /\ stamp' \in [Process -> Nat] /\ prevT' \in Nat /\ prevT' > prevT
         /\ stamp' = [stamp EXCEPT ![p] = prevT']
  BY RadioConstants DEF IInv, TypeOK, SetTime, NextTime

USE DEF At, Owns, Goto, Critical

\* A step in which p asks for a semaphore, outside what the buffer needs.
LEMMA AskInv ==
  ASSUME IInv, NEW p \in Process, NEW s \in Sem, NEW l \in Label \ Critical,
         sem' = [sem EXCEPT ![s] = S!Obtained(@, p)], Goto(p, l),
         cpu' \in Process \union {None}, failed' \in BOOLEAN,
         todo' \in [Process -> Todo], messages' \in Nat,
         UNCHANGED <<stamp, prevT, buf, paused, testing>>
  PROVE  IInv'
<1>1. /\ sem' \in [Sem -> S!SemType]
      /\ \A x \in Sem : OwnedIffNested(sem'[x])
      /\ \A q \in Process : sem["radio"].owner = q => sem'["radio"].owner = q
  BY TakeKeeps
<1>2. TypeOK'
  BY <1>1 DEF IInv, TypeOK
<1>3. \A q \in Process : pc'[q] \in Critical => pc[q] = pc'[q]
  BY DEF IInv, TypeOK
<1>4. CriticalOwns'
  BY <1>1, <1>3 DEF IInv, CriticalOwns
<1>5. WholeMessage'
  BY <1>3 DEF IInv, WholeMessage
<1> QED
  BY <1>1, <1>2, <1>4, <1>5 DEF IInv

\* A step in which p, the owner, lets the radio go: nobody is left inside.
LEMMA LeaveInv ==
  ASSUME IInv, NEW p \in Process, Owns(p, "radio"), NEW l \in Label \ Critical,
         sem' = [sem EXCEPT !["radio"] = S!Released(@)], Goto(p, l),
         cpu' \in Process \union {None}, todo' \in [Process -> Todo],
         stamp' \in [Process -> Nat], prevT' \in Nat,
         UNCHANGED <<buf, paused, testing, failed, messages>>
  PROVE  IInv'
<1>1. /\ sem' \in [Sem -> S!SemType]
      /\ \A x \in Sem : OwnedIffNested(sem'[x])
  BY GiveKeeps DEF Sem
<1>2. TypeOK'
  BY <1>1 DEF IInv, TypeOK
<1>3. \A q \in Process : pc'[q] \notin Critical
  BY DEF IInv, TypeOK, CriticalOwns
<1>4. CriticalOwns' /\ WholeMessage'
  BY <1>3 DEF CriticalOwns, WholeMessage
<1> QED
  BY <1>1, <1>2, <1>4 DEF IInv

\* A step in which p keeps what it has of the radio, without sending.
LEMMA KeepInv ==
  ASSUME IInv, NEW p \in Process, NEW l \in Label \ {"send"}, Goto(p, l),
         sem' \in [Sem -> S!SemType], \A x \in Sem : OwnedIffNested(sem'[x]),
         sem'["radio"].owner = sem["radio"].owner,
         l \in Critical => Owns(p, "radio"),
         cpu' \in Process \union {None}, failed' \in BOOLEAN, paused' \in BOOLEAN,
         todo' \in [Process -> Todo], messages' \in Nat,
         UNCHANGED <<stamp, prevT, buf, testing>>
  PROVE  IInv'
<1>1. TypeOK'
  BY DEF IInv, TypeOK
<1>2. \A q \in Process : pc'[q] = IF q = p THEN l ELSE pc[q]
  BY DEF IInv, TypeOK
<1>3. CriticalOwns'
  BY <1>2 DEF IInv, CriticalOwns
<1>4. WholeMessage'
  BY <1>2 DEF IInv, WholeMessage
<1> QED
  BY <1>1, <1>3, <1>4 DEF IInv

\* radio_send(): the buffer is written by the only process that may look at it.
LEMMA SendInv ==
  ASSUME IInv, NEW p \in Process, Owns(p, "radio"), Send(p),
         UNCHANGED <<todo, stamp, prevT, paused, testing, messages>>
  PROVE  IInv'
<1>1. sem["radio"].owner = p /\ "log" \in Sem
  BY DEF Sem
<1>2. \A q \in Process : q # p => pc[q] \notin Critical
  BY <1>1 DEF IInv, CriticalOwns
<1>3. buf' = [by |-> p, time |-> stamp[p]] /\ cpu' = None
  BY DEF Send
<1>4. /\ sem' \in [Sem -> S!SemType]
      /\ \A x \in Sem : OwnedIffNested(sem'[x])
      /\ sem'["radio"].owner = p
      /\ failed' \in BOOLEAN
      /\ Goto(p, "send") \/ Goto(p, "drop")
  <2>1. CASE UNCHANGED <<sem, failed>> /\ Goto(p, "send")
    BY <1>1, <2>1 DEF IInv, TypeOK
  <2>2. CASE /\ sem' = [sem EXCEPT !["log"] = S!Obtained(@, p)]
             /\ failed' = ~S!ObtainAsserts(sem["log"], p)
             /\ Goto(p, "drop")
    BY <1>1, <2>2, TakeKeeps
  <2> QED
    BY <2>1, <2>2 DEF Send
<1>5. \A q \in Process : pc'[q] = IF q = p THEN pc'[p] ELSE pc[q]
  BY <1>4 DEF IInv, TypeOK
<1>6. TypeOK'
  BY <1>3, <1>4 DEF IInv, TypeOK, Label
<1>7. CriticalOwns'
  BY <1>2, <1>4, <1>5 DEF CriticalOwns
<1>8. WholeMessage'
  BY <1>2, <1>3, <1>5 DEF WholeMessage
<1> QED
  BY <1>4, <1>6, <1>7, <1>8 DEF IInv

\* measures_aprsFormat(): the semaphore taken a second time and released once is
\* still the one of p.
LEMMA PositionInv ==
  ASSUME IInv, NEW p \in Process, Position(p)
  PROVE  IInv'
<1> DEFINE s == sem["radio"]
           t == S!Obtained(s, p)
<1>1. s \in S!SemType /\ OwnedIffNested(s) /\ s.owner = p /\ p # None
  BY RadioConstants DEF Position, IInv, TypeOK, Sem
<1>2. S!Available(s, p) /\ s.nest > 0
  BY <1>1 DEF S!Available, OwnedIffNested
<1>3. /\ t \in S!SemType /\ OwnedIffNested(t)
      /\ t.owner = p /\ t.nest > 1
  BY <1>1, <1>2, ObtainedOwner
<1>4. S!Released(t) \in S!SemType /\ OwnedIffNested(S!Released(t)) /\ S!Released(t).owner = p
  BY <1>1, <1>3, ReleasedOwner
<1>5. sem \in [Sem -> S!SemType] /\ "radio" \in Sem
  BY DEF IInv, TypeOK, Sem
<1>6. sem' = [sem EXCEPT !["radio"] = S!Released(t)]
  BY DEF Position
<1>7. /\ sem' \in [Sem -> S!SemType]
      /\ \A x \in Sem : OwnedIffNested(sem'[x])
      /\ sem'["radio"].owner = p
  BY <1>4, <1>5, <1>6 DEF IInv
<1>8. SetTime(p) /\ pc' = [pc EXCEPT ![p] = "measure"] /\ cpu' = None /\ failed' \in BOOLEAN
      /\ UNCHANGED <<todo, buf, paused, testing, messages>>
  BY DEF Position
<1>9. TypeOK'
  BY <1>7, <1>8, SetTimeType DEF IInv, TypeOK, Label
<1>10. \A q \in Process : q # p => pc'[q] \notin Critical
  BY <1>1, <1>8 DEF IInv, TypeOK, CriticalOwns
<1>11. pc'[p] = "measure"
  BY <1>8 DEF IInv, TypeOK
<1> QED
  BY <1>7, <1>9, <1>10, <1>11 DEF IInv, CriticalOwns, WholeMessage

LEMMA StepInv == IInv /\ [Next]_vars => IInv'
<1> SUFFICES ASSUME IInv, [Next]_vars PROVE IInv'
  OBVIOUS
<1>s. "log" \in Sem /\ "radio" \in Sem /\ TypeOK /\ "radio" \in Process /\ "main" \in Process
  BY DEF Sem, IInv, Process
<1>1. ASSUME NEW p \in Process, Logged(p) PROVE IInv'
  <2>1. /\ sem' \in [Sem -> S!SemType] /\ \A x \in Sem : OwnedIffNested(sem'[x])
        /\ sem'["radio"].owner = sem["radio"].owner /\ cpu' \in Process
    BY <1>1, <1>s, GiveKeeps DEF Logged, Give
  <2> QED
    BY <1>1, <1>s, <2>1, KeepInv DEF Logged, Label, TypeOK
<1>2. ASSUME NEW p \in Process, AskTime(p) \/ AskBuffer(p) \/ AskTelemetry(p) PROVE IInv'
  <2>1. cpu' \in Process \union {None} /\ failed' \in BOOLEAN
    BY <1>2 DEF AskTime, AskBuffer, AskTelemetry, Take
  <2>2. sem' = [sem EXCEPT !["radio"] = S!Obtained(@, p)]
    BY <1>2 DEF AskTime, AskBuffer, AskTelemetry, Take
  <2>3. UNCHANGED <<todo, stamp, prevT, buf, paused, testing, messages>>
    BY <1>2 DEF AskTime, AskBuffer, AskTelemetry
  <2>4. PICK l \in {"stamp", "format", "position"} : Goto(p, l)
    BY <1>2 DEF AskTime, AskBuffer, AskTelemetry
  <2> QED
    BY <1>s, <2>1, <2>2, <2>3, <2>4, AskInv DEF Label, TypeOK
<1>3. ASSUME NEW p \in Process, Stamp(p) PROVE IInv'
  <2>1. stamp' \in [Process -> Nat] /\ prevT' \in Nat
    BY <1>3, SetTimeType DEF Stamp
  <2>2. cpu' \in Process
    BY <1>3, <1>s, GiveKeeps DEF Stamp, Give
  <2> QED
    BY <1>3, <1>s, <2>1, <2>2, LeaveInv DEF Stamp, Give, Label, TypeOK
<1>4. ASSUME NEW p \in Process, Format(p) PROVE IInv'
  BY <1>4, SendInv DEF Format
<1>5. ASSUME NEW p \in Process, Measured(p) PROVE IInv'
  BY <1>5, SendInv DEF Measured, IInv, CriticalOwns
<1>6. ASSUME NEW p \in Process, Sent(p) PROVE IInv'
  <2>1. Owns(p, "radio")
    BY <1>6 DEF Sent, IInv, CriticalOwns
  <2> QED
    BY <1>6, <1>s, <2>1, KeepInv DEF Sent, Label, TypeOK, IInv
<1>7. ASSUME NEW p \in Process, Dropped(p) PROVE IInv'
  <2>1. Owns(p, "radio")
    BY <1>7 DEF Dropped, IInv, CriticalOwns
  <2>2. /\ sem' \in [Sem -> S!SemType] /\ \A x \in Sem : OwnedIffNested(sem'[x])
        /\ sem'["radio"].owner = sem["radio"].owner /\ cpu' \in Process
    BY <1>7, <1>s, GiveKeeps DEF Dropped, Give
  <2> QED
    BY <1>7, <1>s, <2>1, <2>2, KeepInv DEF Dropped, Label, TypeOK
<1>8. ASSUME NEW p \in Process, Done(p) PROVE IInv'
  <2>1. Owns(p, "radio")
    BY <1>8 DEF Done, IInv, CriticalOwns
  <2>2. cpu' \in Process \union {None}
    BY <1>8, <1>s, <2>1, GiveKeeps DEF Done
  <2>3. PICK l \in {"idle", "ack", "pausing", "telemetry"} : Goto(p, l)
    BY <1>8, <1>s DEF Done, TypeOK, Todo
  <2>4. stamp' \in [Process -> Nat] /\ todo' \in [Process -> Todo]
    BY <1>8, <1>s DEF Done, TypeOK, Todo
  <2> QED
    BY <1>8, <1>s, <2>1, <2>2, <2>3, <2>4, LeaveInv DEF Done, Label, TypeOK
<1>9. ASSUME NEW p \in Process, Position(p) PROVE IInv'
  BY <1>9, PositionInv
<1>10. ASSUME NEW p \in Process, Printf(p), todo' \in [Process -> Todo], messages' \in Nat,
              UNCHANGED <<stamp, prevT, buf, paused, testing>>
       PROVE IInv'
  BY <1>10, <1>s, AskInv DEF Printf, Label
<1>11. ASSUME NEW p \in Process, Say(p) PROVE IInv'
  BY <1>10, <1>11, <1>s DEF Say, Begins, TypeOK, Todo
<1>12. CASE Command
  BY <1>10, <1>12, <1>s DEF Command, Begins, TypeOK, Todo
<1>13. CASE Acknowledge
  BY <1>10, <1>13, <1>s DEF Acknowledge, TypeOK
<1>14. CASE TelemetryDue
  <2>1. Goto("radio", "telemetry") /\ cpu' = "radio" /\ messages' \in Nat
        /\ UNCHANGED <<sem, todo, stamp, prevT, buf, paused, testing, failed>>
    BY <1>14, <1>s DEF TelemetryDue, Begins, TypeOK
  <2>2. sem' \in [Sem -> S!SemType] /\ \A x \in Sem : OwnedIffNested(sem'[x])
    BY <1>s, <2>1 DEF IInv, TypeOK
  <2>3. "telemetry" \in Label \ {"send"} /\ "telemetry" \notin Critical
    BY DEF Label
  <2>5. sem'["radio"].owner = sem["radio"].owner
    BY <2>1
  <2>4. /\ cpu' \in Process \union {None} /\ failed' \in BOOLEAN /\ paused' \in BOOLEAN
        /\ todo' \in [Process -> Todo]
    BY <1>s, <2>1 DEF TypeOK
  <2> QED
    BY <1>s, <2>1, <2>2, <2>3, <2>4, <2>5, KeepInv
<1>15. CASE Pause \/ Resume
  <2>1. Goto("radio", "ack") /\ cpu' = "radio" /\ paused' \in BOOLEAN /\ messages' \in Nat
        /\ UNCHANGED <<sem, todo, stamp, prevT, buf, testing, failed>>
    <3>1. CASE Pause
      BY <3>1, <1>s DEF Pause, TypeOK
    <3>2. CASE Resume
      <4>1. paused' \in {paused, FALSE} /\ messages' = messages + 1
        BY <3>2 DEF Resume, Begins
      <4>2. Goto("radio", "ack") /\ cpu' = "radio"
            /\ UNCHANGED <<sem, todo, stamp, prevT, buf, testing, failed>>
        BY <3>2 DEF Resume
      <4>3. paused' \in BOOLEAN
        BY <1>s, <4>1, Zenon DEF TypeOK
      <4> QED
        BY <1>s, <4>1, <4>2, <4>3 DEF TypeOK
    <3> QED
      BY <1>15, <3>1, <3>2
  <2>2. sem' \in [Sem -> S!SemType] /\ \A x \in Sem : OwnedIffNested(sem'[x])
    BY <1>s, <2>1 DEF IInv, TypeOK
  <2>3. "ack" \in Label \ {"send"} /\ "ack" \notin Critical
    BY DEF Label
  <2>5. sem'["radio"].owner = sem["radio"].owner
    BY <2>1
  <2>4. /\ cpu' \in Process \union {None} /\ failed' \in BOOLEAN
        /\ todo' \in [Process -> Todo]
    BY <1>s, <2>1 DEF TypeOK
  <2> QED
    BY <1>s, <2>1, <2>2, <2>3, <2>4, <2>5, KeepInv
<1>16. CASE PauseElapses \/ TestEnd \/ UNCHANGED vars
  <2>1. /\ UNCHANGED <<sem, pc, todo, cpu, stamp, prevT, buf, failed, messages>>
        /\ paused' \in BOOLEAN /\ testing' \in BOOLEAN
    BY <1>16, <1>s DEF PauseElapses, TestEnd, vars, TypeOK
  <2> QED
    BY <2>1 DEF IInv, TypeOK, CriticalOwns, WholeMessage
<1> QED
  BY <1>1, <1>2, <1>3, <1>4, <1>5, <1>6, <1>7, <1>8, <1>9, <1>11, <1>12, <1>13, <1>14, <1>15, <1>16
  DEF Next, Step, Message, Telemetry

LEMMA Invariant == Spec => []IInv
  BY InitInv, StepInv, PTL DEF Spec

\* Every variable keeps its type.
THEOREM TypeCorrect == Spec => []TypeOK
  BY Invariant, PTL DEF IInv

\* A message leaves as it was written, whoever waits for the buffer.
THEOREM MessagesWhole == Spec => []WholeMessage
  BY Invariant, PTL DEF IInv

-----------------------------------------------------------------------------
(* The timestamps.                                                          *)

Unsent == {"again", "format", "measure"}
Stamped == Unsent \union {"send", "drop", "done"}

\* The timestamps on air and those of the messages under way are all different,
\* and none is later than prev_t.
StampsDiffer ==
  /\ aired \subseteq Nat /\ \A t \in aired : t <= prevT
  /\ \A p \in Process : pc[p] \in Stamped => stamp[p] <= prevT
  /\ \A p \in Process : pc[p] \in Unsent => stamp[p] \notin aired
  /\ \A p, q \in Process : p # q /\ pc[p] \in Stamped /\ pc[q] \in Stamped => stamp[p] # stamp[q]

\* What a step of one process adds to aired.
LEMMA AiredStep ==
  ASSUME IInv, NEW p \in Process, NEW l \in Label, Goto(p, l),
         aired' = aired \union {stamp[x] : x \in {q \in Process : Starts(q)}}
  PROVE  aired' = IF l = "send" /\ pc[p] # "send" THEN aired \union {stamp[p]} ELSE aired
<1>1. \A q \in Process : Starts(q) <=> q = p /\ l = "send" /\ pc[p] # "send"
  BY DEF Starts, IInv, TypeOK
<1> QED
  BY <1>1

\* A step of p that neither takes a timestamp nor begins to send.
LEMMA StampsKept ==
  ASSUME IInv, StampsDiffer, NEW p \in Process, NEW l \in Label, Goto(p, l),
         aired' = aired, prevT' = prevT, l \in Unsent => pc[p] \in Unsent,
         l \in Stamped => pc[p] \in Stamped /\ stamp' = stamp,
         \A q \in Process : q # p => stamp'[q] = stamp[q]
  PROVE  StampsDiffer'
<1>1. \A q \in Process : pc'[q] = IF q = p THEN l ELSE pc[q]
  BY DEF IInv, TypeOK
<1>2. \A q \in Process : pc'[q] \in Stamped => pc[q] \in Stamped /\ stamp'[q] = stamp[q]
  BY <1>1
<1>3. \A q \in Process : pc'[q] \in Unsent => pc[q] \in Unsent /\ pc'[q] \in Stamped
  BY <1>1 DEF Stamped
<1> QED
  BY <1>2, <1>3 DEF StampsDiffer

\* A step in which p takes its timestamp.
LEMMA StampsTaken ==
  ASSUME IInv, StampsDiffer, NEW p \in Process, NEW l \in Unsent, Goto(p, l),
         aired' = aired, SetTime(p)
  PROVE  StampsDiffer'
<1>1. \A q \in Process : pc'[q] = IF q = p THEN l ELSE pc[q]
  BY DEF IInv, TypeOK
<1>2. /\ prevT' \in Nat /\ prevT \in Nat /\ prevT' > prevT
      /\ stamp \in [Process -> Nat]
      /\ \A q \in Process : stamp'[q] = IF q = p THEN prevT' ELSE stamp[q]
  BY SetTimeType DEF IInv, TypeOK
<1>3. aired \subseteq Nat /\ \A t \in aired : t < prevT'
  <2>1. ASSUME NEW t \in aired PROVE t < prevT'
    <3>1. t \in Nat /\ t <= prevT
      BY DEF StampsDiffer
    <3> QED
      BY <1>2, <3>1
  <2> QED
    BY <2>1 DEF StampsDiffer
<1>4. \A q \in Process : q # p /\ pc'[q] \in Stamped =>
        pc[q] \in Stamped /\ stamp'[q] = stamp[q] /\ stamp[q] <= prevT
  BY <1>1, <1>2 DEF StampsDiffer
<1>5. \A q \in Process : pc'[q] \in Stamped => stamp'[q] <= prevT'
  BY <1>2, <1>4
<1>6. \A q \in Process : pc'[q] \in Unsent => stamp'[q] \notin aired
  BY <1>1, <1>2, <1>3 DEF StampsDiffer
<1>7. ASSUME NEW q \in Process, NEW r \in Process, q # r,
             pc'[q] \in Stamped, pc'[r] \in Stamped
      PROVE  stamp'[q] # stamp'[r]
  <2>1. CASE q # p /\ r # p
    BY <1>4, <1>7, <2>1 DEF StampsDiffer
  <2>2. CASE q = p
    <3>1. stamp'[q] = prevT' /\ stamp'[r] = stamp[r] /\ stamp[r] <= prevT /\ stamp[r] \in Nat
      BY <1>2, <1>4, <1>7, <2>2
    <3> QED
      BY <1>2, <3>1
  <2>3. CASE r = p
    <3>1. stamp'[r] = prevT' /\ stamp'[q] = stamp[q] /\ stamp[q] <= prevT /\ stamp[q] \in Nat
      BY <1>2, <1>4, <1>7, <2>3
    <3> QED
      BY <1>2, <3>1
  <2> QED
    BY <2>1, <2>2, <2>3
<1> QED
  BY <1>2, <1>3, <1>5, <1>6, <1>7 DEF StampsDiffer

\* The step in which p begins to send.
LEMMA StampsSent ==
  ASSUME IInv, StampsDiffer, NEW p \in Process, pc[p] \in Unsent, Goto(p, "send"),
         aired' = aired \union {stamp[p]}, UNCHANGED <<stamp, prevT>>
  PROVE  StampsDiffer'
<1>1. \A q \in Process : pc'[q] = IF q = p THEN "send" ELSE pc[q]
  BY DEF IInv, TypeOK
<1>2. stamp[p] \in Nat /\ stamp[p] <= prevT /\ pc[p] \in Stamped
  BY DEF IInv, TypeOK, StampsDiffer, Stamped
<1>3. \A q \in Process : pc'[q] \in Stamped => pc[q] \in Stamped
  BY <1>1, <1>2
<1>4. \A q \in Process : pc'[q] \in Unsent => q # p /\ pc[q] \in Unsent /\ pc[q] \in Stamped
  BY <1>1 DEF Unsent, Stamped
<1>5. \A q \in Process : pc'[q] \in Unsent => stamp[q] \notin aired \union {stamp[p]}
  BY <1>2, <1>4 DEF StampsDiffer
<1> QED
  BY <1>2, <1>3, <1>5 DEF StampsDiffer

HInv == IInv /\ StampsDiffer

\* Every step, told by what it does to the label of one process.
LEMMA StampsStep == HInv /\ [HNext]_hvars => StampsDiffer'
<1> SUFFICES ASSUME IInv, StampsDiffer, [HNext]_hvars PROVE StampsDiffer'
  BY DEF HInv
<1> DEFINE Grows == aired' = aired \union {stamp[x] : x \in {q \in Process : Starts(q)}}
<1>r. "radio" \in Process /\ "main" \in Process
  BY DEF Process
<1>a. ASSUME NEW p \in Process, NEW l \in Label \ Stamped, Goto(p, l), Grows, prevT' = prevT,
             \A q \in Process : q # p => stamp'[q] = stamp[q]
      PROVE  StampsDiffer'
  BY <1>a, AiredStep, StampsKept DEF Stamped, Unsent
<1>1. ASSUME Grows, NEW p \in Process,
             Logged(p) \/ AskTime(p) \/ AskTelemetry(p)
      PROVE  StampsDiffer'
  <2>1. PICK l \in {"time", "stamp", "position"} : Goto(p, l)
    BY <1>1 DEF Logged, AskTime, AskTelemetry
  <2>2. UNCHANGED <<stamp, prevT>>
    BY <1>1 DEF Logged, AskTime, AskTelemetry
  <2> QED
    BY <1>1, <1>a, <2>1, <2>2 DEF Label, Stamped, Unsent
<1>2. ASSUME Grows, NEW p \in Process, Stamp(p) \/ Position(p) PROVE StampsDiffer'
  <2>1. PICK l \in {"again", "measure"} : Goto(p, l)
    BY <1>2 DEF Stamp, Position
  <2>2. SetTime(p)
    BY <1>2 DEF Stamp, Position
  <2>3. aired' = aired
    BY <1>2, <2>1, AiredStep DEF Label
  <2> QED
    BY <2>1, <2>2, <2>3, StampsTaken DEF Unsent
<1>3. ASSUME Grows, NEW p \in Process, AskBuffer(p) \/ Sent(p) \/ Dropped(p) PROVE StampsDiffer'
  <2>1. PICK l \in {"format", "done"} : /\ Goto(p, l)
                                        /\ l \in Unsent => pc[p] \in Unsent
                                        /\ pc[p] \in Stamped
    BY <1>3 DEF AskBuffer, Sent, Dropped, Stamped, Unsent
  <2>2. UNCHANGED <<stamp, prevT>>
    BY <1>3 DEF AskBuffer, Sent, Dropped
  <2>3. aired' = aired
    BY <1>3, <2>1, AiredStep DEF Label
  <2> QED
    BY <2>1, <2>2, <2>3, StampsKept DEF Label
<1>4. ASSUME Grows, NEW p \in Process, Format(p) \/ Measured(p) PROVE StampsDiffer'
  <2>1. pc[p] \in Unsent /\ pc[p] # "send" /\ UNCHANGED <<stamp, prevT>>
    BY <1>4 DEF Format, Measured, Unsent
  <2>2. CASE Goto(p, "send")
    <3>1. aired' = aired \union {stamp[p]}
      BY <1>4, <2>1, <2>2, AiredStep DEF Label
    <3> QED
      BY <2>1, <2>2, <3>1, StampsSent
  <2>3. CASE Goto(p, "drop")
    <3>1. aired' = aired
      BY <1>4, <2>3, AiredStep DEF Label
    <3> QED
      BY <2>1, <2>3, <3>1, StampsKept DEF Label, Stamped, Unsent
  <2> QED
    BY <1>4, <2>2, <2>3 DEF Format, Measured, Send
<1>5. ASSUME Grows, NEW p \in Process, Done(p) PROVE StampsDiffer'
  <2>1. PICK l \in {"idle", "ack", "pausing", "telemetry"} : Goto(p, l)
    BY <1>5 DEF Done, IInv, TypeOK, Todo
  <2>2. prevT' = prevT /\ \A q \in Process : q # p => stamp'[q] = stamp[q]
    BY <1>5 DEF Done, IInv, TypeOK
  <2> QED
    BY <1>5, <1>a, <2>1, <2>2 DEF Label, Stamped, Unsent
<1>6. ASSUME Grows, NEW p \in Process, Printf(p), UNCHANGED <<stamp, prevT>> PROVE StampsDiffer'
  BY <1>6, <1>a DEF Printf, Label, Stamped, Unsent
<1>7. ASSUME Grows, NEW p \in Process, Say(p) PROVE StampsDiffer'
  BY <1>6, <1>7 DEF Say
<1>8. CASE Grows /\ (Command \/ Acknowledge)
  BY <1>6, <1>8, <1>r DEF Command, Acknowledge
<1>9. CASE Grows /\ (TelemetryDue \/ Pause \/ Resume)
  <2>1. PICK l \in {"telemetry", "ack"} : Goto("radio", l)
    BY <1>9 DEF TelemetryDue, Pause, Resume
  <2>2. UNCHANGED <<stamp, prevT>>
    BY <1>9 DEF TelemetryDue, Pause, Resume
  <2> QED
    BY <1>9, <1>a, <1>r, <2>1, <2>2 DEF Label, Stamped, Unsent
<1>10. CASE Grows /\ (PauseElapses \/ TestEnd)
  <2>1. UNCHANGED <<pc, stamp, prevT>>
    BY <1>10 DEF PauseElapses, TestEnd
  <2>2. aired' = aired
    BY <1>10, <2>1 DEF Starts
  <2> QED
    BY <2>1, <2>2 DEF StampsDiffer
<1>11. CASE UNCHANGED hvars
  BY <1>11 DEF hvars, vars, StampsDiffer
<1> QED
  BY <1>1, <1>2, <1>3, <1>4, <1>5, <1>7, <1>8, <1>9, <1>10, <1>11
  DEF HNext, Next, Step, Message, Telemetry

LEMMA HistoryInvariant == HSpec => []HInv
<1>1. HInit => HInv
  BY InitInv DEF HInit, HInv, StampsDiffer, Init, Stamped, Unsent
<1>2. HInv /\ [HNext]_hvars => HInv'
  BY StepInv, StampsStep DEF HInv, HNext, hvars
<1> QED
  BY <1>1, <1>2, PTL DEF HSpec

-----------------------------------------------------------------------------
(* The refinement.                                                          *)

Quiet == {"idle", "ack", "pausing", "send", "drop", "done"}

\* OnAir is the one that sends.
LEMMA OnAirIs ==
  ASSUME IInv
  PROVE  /\ \A p \in Process : pc[p] = "send" => OnAir = p
         /\ (\A p \in Process : pc[p] # "send") => OnAir = None
<1>1. ASSUME NEW p \in Process, pc[p] = "send" PROVE OnAir = p
  <2>1. \A q \in Process : pc[q] = "send" => q = p
    BY <1>1 DEF IInv, CriticalOwns
  <2> QED
    BY <1>1, <2>1 DEF OnAir
<1> QED
  BY <1>1 DEF OnAir

LEMMA OnAirNext ==
  ASSUME IInv'
  PROVE  /\ \A p \in Process : pc'[p] = "send" => OnAir' = p
         /\ (\A p \in Process : pc'[p] # "send") => OnAir' = None
<1>1. ASSUME NEW p \in Process, pc'[p] = "send" PROVE OnAir' = p
  <2>1. \A q \in Process : pc'[q] = "send" => q = p
    BY <1>1 DEF IInv, CriticalOwns
  <2> QED
    BY <1>1, <2>1 DEF OnAir
<1> QED
  BY <1>1 DEF OnAir

\* What a step of p to another label does to the variables of Downlink.
LEMMA MoveIs ==
  ASSUME IInv, IInv', NEW p \in Process, NEW l \in Label, Goto(p, l)
  PROVE  /\ Pending' = IF l \in Quiet THEN Pending \ {p} ELSE Pending \union {p}
         /\ p \in Pending <=> pc[p] \notin Quiet
         /\ l = "send" => OnAir' = p
         /\ pc[p] = "send" => OnAir = p
         /\ pc[p] = "send" /\ l # "send" => OnAir' = None
         /\ pc[p] # "send" => OnAir # p
         /\ pc[p] # "send" /\ l # "send" => OnAir' = OnAir
<1>1. \A q \in Process : pc'[q] = IF q = p THEN l ELSE pc[q]
  BY DEF IInv, TypeOK
<1>2. Pending' = IF l \in Quiet THEN Pending \ {p} ELSE Pending \union {p}
  BY <1>1 DEF Pending, Quiet
<1>3. p \in Pending <=> pc[p] \notin Quiet
  BY DEF Pending, Quiet
<1>4. l = "send" => OnAir' = p
  BY <1>1, OnAirNext
<1>5. pc[p] = "send" => OnAir = p
  BY OnAirIs
<1>6. pc[p] = "send" /\ l # "send" => OnAir' = None
  <2>1. pc[p] = "send" => \A q \in Process : q # p => pc[q] # "send"
    BY DEF IInv, CriticalOwns
  <2> QED
    BY <1>1, <2>1, OnAirNext
<1>7. pc[p] # "send" => OnAir # p
  <2>1. p # None
    BY RadioConstants
  <2> QED
    BY <2>1, OnAirIs
<1>8. pc[p] # "send" /\ l # "send" => OnAir' = OnAir
  <2>1. CASE \E q \in Process : pc[q] = "send"
    BY <1>1, <2>1, OnAirIs, OnAirNext
  <2>2. CASE \A q \in Process : pc[q] # "send"
    BY <1>1, <2>2, OnAirIs, OnAirNext
  <2> QED
    BY <2>1, <2>2
<1> QED
  BY <1>2, <1>3, <1>4, <1>5, <1>6, <1>7, <1>8

PNext == [Promise!Next]_(Promise!vars)

\* A process begins a message.
LEMMA AskRefines ==
  ASSUME HInv, IInv', ~failed, failed' \in BOOLEAN,
         NEW p \in Process, NEW l \in Label \ Quiet, Goto(p, l), pc[p] \in Quiet \ {"send"},
         aired' = aired, paused' = paused
  PROVE  PNext
<1>1. IInv
  BY DEF HInv
<1>2. Pending' = Pending \union {p} /\ p \notin Pending /\ OnAir # p /\ OnAir' = OnAir
  BY <1>1, MoveIs DEF Quiet
<1>3. Promise!Ask(p)
  BY <1>2 DEF Promise!Ask
<1> QED
  BY <1>3 DEF PNext, Promise!Next

\* A process goes on with its message, or is done with it.
LEMMA GoOnRefines ==
  ASSUME HInv, IInv', ~failed, failed' \in BOOLEAN,
         NEW p \in Process, NEW l \in Label \ {"send"}, Goto(p, l),
         pc[p] # "send", pc[p] \in Quiet <=> l \in Quiet,
         aired' = aired, paused' = paused
  PROVE  PNext
<1>1. IInv
  BY DEF HInv
<1>2. Pending' = Pending /\ OnAir' = OnAir
  BY <1>1, MoveIs
<1>3. CASE failed' = failed
  BY <1>2, <1>3 DEF PNext, Promise!vars
<1>4. CASE failed' = TRUE
  BY <1>2, <1>4 DEF PNext, Promise!Next, Promise!Die
<1>5. failed \in BOOLEAN
  BY DEF HInv, IInv, TypeOK
<1>6. failed' = failed \/ failed' = TRUE
  BY <1>5, Zenon
<1> QED
  BY <1>3, <1>4, <1>6

\* The pause changes, or not.
LEMMA PauseRefines ==
  ASSUME HInv, IInv', ~failed, failed' = failed, paused' \in BOOLEAN,
         Pending' = Pending, OnAir' = OnAir, aired' = aired
  PROVE  PNext
<1>1. paused \in BOOLEAN
  BY DEF HInv, IInv, TypeOK
<1>2. CASE paused' = paused
  BY <1>2 DEF PNext, Promise!vars
<1>3. CASE paused' = ~paused
  <2>1. Promise!SetPause
    BY <1>3 DEF Promise!SetPause
  <2> QED
    BY <2>1 DEF PNext, Promise!Next
<1>4. paused' = paused \/ paused' = ~paused
  BY <1>1, Zenon
<1> QED
  BY <1>2, <1>3, <1>4

LEMMA RefinementStep ==
  ASSUME Time = Nat, HInv, IInv', [HNext]_hvars
  PROVE  PNext
<1>0. IInv /\ StampsDiffer /\ "radio" \in Process /\ failed' \in BOOLEAN
  BY DEF HInv, IInv, TypeOK, Process
<1> DEFINE Grows == aired' = aired \union {stamp[x] : x \in {q \in Process : Starts(q)}}
<1>1. ASSUME NEW p \in Process, NEW l \in Label \ {"send"}, Goto(p, l), Grows PROVE aired' = aired
  BY <1>0, <1>1, AiredStep
<1>2. ASSUME Grows, NEW p \in Process, Logged(p) \/ AskTime(p) \/ Stamp(p) \/ AskBuffer(p)
                                       \/ AskTelemetry(p) \/ Position(p)
      PROVE  PNext
  <2>1. ~failed /\ paused' = paused /\ pc[p] # "send" /\ pc[p] \notin Quiet
    BY <1>2 DEF Logged, AskTime, Stamp, AskBuffer, AskTelemetry, Position, Quiet
  <2>2. PICK l \in {"time", "stamp", "again", "format", "position", "measure"} : Goto(p, l)
    BY <1>2 DEF Logged, AskTime, Stamp, AskBuffer, AskTelemetry, Position
  <2>3. l \in Label \ {"send"} /\ l \notin Quiet
    BY <2>2 DEF Label, Quiet
  <2> QED
    BY <1>0, <1>1, <1>2, <2>1, <2>2, <2>3, GoOnRefines
<1>3. ASSUME Grows, NEW p \in Process, Format(p) \/ Measured(p) PROVE PNext
  <2>1. /\ ~failed /\ paused' = paused /\ Send(p) /\ pc[p] \in Unsent
        /\ pc[p] # "send" /\ pc[p] \notin Quiet
    BY <1>3 DEF Format, Measured, Quiet, Unsent
  <2>2. sem["radio"].owner = p
    BY <1>0, <1>3 DEF Format, Measured, IInv, CriticalOwns
  <2>3. CASE ~paused /\ Goto(p, "send") /\ UNCHANGED <<sem, failed>>
    <3>1. OnAir = None
      BY <1>0, <2>1, <2>2, OnAirIs DEF IInv, CriticalOwns
    <3>2. /\ Pending' = Pending \ {p} /\ p \in Pending /\ OnAir' = p
      BY <1>0, <2>1, <2>3, MoveIs DEF Label, Quiet
    <3>3. aired' = aired \union {stamp[p]}
      BY <1>0, <1>3, <2>1, <2>3, AiredStep DEF Label
    <3>4. stamp[p] \in Time \ aired
      BY <1>0, <2>1 DEF IInv, TypeOK, StampsDiffer
    <3>5. Promise!Transmit(p)
      BY <2>1, <2>3, <3>1, <3>2, <3>3, <3>4 DEF Promise!Transmit
    <3> QED
      BY <3>5 DEF PNext, Promise!Next
  <2>4. CASE paused /\ Goto(p, "drop")
    <3>1. Pending' = Pending \ {p} /\ p \in Pending /\ OnAir' = OnAir
      BY <1>0, <2>1, <2>4, MoveIs DEF Label, Quiet
    <3>2. aired' = aired
      BY <1>1, <1>3, <2>4 DEF Label
    <3>3. Promise!Discard(p)
      BY <1>0, <2>1, <2>4, <3>1, <3>2 DEF Promise!Discard
    <3> QED
      BY <3>3 DEF PNext, Promise!Next
  <2> QED
    BY <2>1, <2>3, <2>4 DEF Send
<1>4. ASSUME Grows, NEW p \in Process, Sent(p) PROVE PNext
  <2>1. ~failed /\ Goto(p, "done") /\ pc[p] = "send" /\ UNCHANGED <<paused, failed>>
    BY <1>4 DEF Sent
  <2>2. Pending' = Pending \ {p} /\ p \notin Pending /\ OnAir = p /\ OnAir' = None
    BY <1>0, <2>1, MoveIs DEF Label, Quiet
  <2>3. aired' = aired /\ p # None
    BY <1>1, <1>4, <2>1, RadioConstants DEF Label
  <2>4. Promise!Finish
    BY <2>1, <2>2, <2>3 DEF Promise!Finish
  <2> QED
    BY <2>4 DEF PNext, Promise!Next
<1>5. ASSUME Grows, NEW p \in Process, Dropped(p) PROVE PNext
  <2>1. ~failed /\ Goto(p, "done") /\ pc[p] = "drop" /\ UNCHANGED <<paused, failed>>
    BY <1>5 DEF Dropped
  <2> QED
    BY <1>0, <1>1, <1>5, <2>1, GoOnRefines DEF Label, Quiet
<1>6. ASSUME Grows, NEW p \in Process, Done(p) PROVE PNext
  <2>1. ~failed /\ pc[p] = "done" /\ UNCHANGED <<paused, failed>>
    BY <1>6 DEF Done
  <2>2. CASE Goto(p, "telemetry")
    BY <1>0, <1>1, <1>6, <2>1, <2>2, AskRefines DEF Label, Quiet
  <2>3. ASSUME NEW l \in {"idle", "ack", "pausing"}, Goto(p, l) PROVE PNext
    BY <1>0, <1>1, <1>6, <2>1, <2>3, GoOnRefines DEF Label, Quiet
  <2>4. Goto(p, "telemetry") \/ \E l \in {"idle", "ack", "pausing"} : Goto(p, l)
    BY <1>0, <1>6 DEF Done, IInv, TypeOK, Todo
  <2> QED
    BY <2>2, <2>3, <2>4
<1>7. ASSUME Grows, NEW p \in Process, NEW l \in {"logging", "telemetry"}, Goto(p, l), ~failed,
             pc[p] \in {"idle", "ack"}, paused' = paused
      PROVE  PNext
  BY <1>0, <1>1, <1>7, AskRefines DEF Label, Quiet
<1>8. ASSUME Grows, NEW p \in Process, Say(p) PROVE PNext
  BY <1>7, <1>8 DEF Say, Begins, Printf
<1>9. CASE Grows /\ (Command \/ Acknowledge)
  BY <1>0, <1>7, <1>9 DEF Command, Acknowledge, Begins, Printf
<1>10. CASE Grows /\ TelemetryDue
  BY <1>0, <1>7, <1>10 DEF TelemetryDue, Begins
<1>11. CASE Grows /\ (Pause \/ Resume)
  <2>1. /\ ~failed /\ failed' = failed /\ Goto("radio", "ack")
        /\ pc["radio"] \in Quiet \ {"send"}
    BY <1>11 DEF Pause, Resume, Begins, Quiet
  <2>2. paused' \in BOOLEAN
    <3>1. CASE Pause
      BY <3>1, Zenon DEF Pause
    <3>2. CASE Resume
      <4>1. paused \in BOOLEAN
        BY <1>0 DEF HInv, IInv, TypeOK
      <4> QED
        BY <3>2, <4>1, Zenon DEF Resume
    <3> QED
      BY <1>11, <3>1, <3>2
  <2>3. Pending' = Pending /\ OnAir' = OnAir
    <3>1. Pending' = Pending \ {"radio"} /\ "radio" \notin Pending /\ OnAir' = OnAir
      BY <1>0, <2>1, MoveIs DEF Label, Quiet
    <3> QED
      BY <3>1
  <2>4. aired' = aired
    <3>1. Grows
      BY <1>11
    <3>2. "ack" \in Label \ {"send"}
      BY DEF Label
    <3> HIDE DEF Grows
    <3> QED
      BY <1>0, <1>1, <2>1, <3>1, <3>2
  <2> QED
    BY <2>1, <2>2, <2>3, <2>4, PauseRefines
<1>12. CASE Grows /\ (PauseElapses \/ TestEnd)
  <2>1. ~failed /\ failed' = failed /\ pc' = pc
    BY <1>12 DEF PauseElapses, TestEnd
  <2>2. paused' \in BOOLEAN
    BY DEF IInv, TypeOK
  <2>3. Pending' = Pending /\ OnAir' = OnAir
    BY <2>1 DEF Pending, OnAir
  <2>4. aired' = aired
    BY <1>12, <2>1 DEF Starts
  <2> QED
    BY <2>1, <2>2, <2>3, <2>4, PauseRefines
<1>13. CASE UNCHANGED hvars
  BY <1>13 DEF hvars, vars, PNext, Promise!vars, Pending, OnAir
<1> QED
  BY <1>2, <1>3, <1>4, <1>5, <1>6, <1>8, <1>9, <1>10, <1>11, <1>12, <1>13
  DEF HNext, Next, Step, Message, Telemetry

\* The firmware implements the safety part of Downlink: one message on air at a
\* time, and no timestamp twice, whatever the clock of the GPS does.
THEOREM Refines ==
  ASSUME Time = Nat
  PROVE  HSpec => Promise!Init /\ [][Promise!Next]_(Promise!vars)
<1>1. HInit => Promise!Init
  BY DEF HInit, Init, Promise!Init, Pending, OnAir
<1>2. HInv /\ HInv' /\ [HNext]_hvars => [Promise!Next]_(Promise!vars)
  BY RefinementStep DEF HInv, PNext
<1> QED
  BY <1>1, <1>2, HistoryInvariant, PTL DEF HSpec
=============================================================================
