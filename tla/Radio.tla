-------------------------------- MODULE Radio --------------------------------
(***************************************************************************)
(* The downlink (bsm-2/radio.c): the messages that every process sends     *)
(* with radio_printf(), the telemetry, and the pause that the ground may   *)
(* command.  All of them share one buffer under radio_sem, and one log     *)
(* file under log_sem (bsm-2/logging.c).                                   *)
(*                                                                         *)
(* The kernel is cooperative.  cpu is the process that has the CPU and has *)
(* not reached a point where it may lose it: a semaphore that is taken, or *)
(* one that is released to a waiting process, the SD card, the modem, the  *)
(* I2C bus.  At such a point cpu is None and any process may go on.  A     *)
(* label names what a process does next; a process whose next step needs a *)
(* semaphore it does not own waits in its queue.                           *)
(***************************************************************************)
EXTENDS Naturals, Sequences

CONSTANTS
  None,
  Talker,       \* the processes that only send messages: status, cutoff, buzzer, ...
  GpsTimes,     \* what gps_time() may return: it may stand still and jump back
  MaxMessages   \* bound: how many messages, telemetries and commands begin

Process == Talker \union {"radio", "main"}
Sem == {"log", "radio"}                 \* log_sem, radio_sem

ASSUME RadioConstants ==
  /\ GpsTimes \subseteq Nat
  /\ MaxMessages \in Nat
  /\ None \notin Process /\ "radio" \notin Talker /\ "main" \notin Talker

S == INSTANCE Semaphore

Label == {"idle", "ack", "pausing",     \* main loops, radio_uplinkDecoder(), cmd_radio_pause()
          "logging", "time", "stamp", "again", "format",   \* radio_printf()
          "telemetry", "position", "measure",              \* radio_sendTelemetry()
          "send", "drop", "done"}                          \* radio_send()
Todo == {"nothing", "ack", "pausing", "telemetry"}

VARIABLES
  sem,       \* the two semaphores
  pc,        \* where each process is
  todo,      \* what a process does after its message
  cpu,       \* the process that goes on without having yielded, or None
  stamp,     \* the timestamp of the message of a process
  prevT,     \* prev_t
  buf,       \* radio_msg: whose message, with which timestamp
  paused,    \* radio_pause_time is set and the pause has not elapsed
  testing,   \* testmode()
  failed,    \* an ASSERT failed, which resets the board
  messages   \* how many have begun

vars == <<sem, pc, todo, cpu, stamp, prevT, buf, paused, testing, failed, messages>>

Init ==
  /\ sem = [s \in Sem |-> S!Free]
  /\ pc = [p \in Process |-> "idle"]
  /\ todo = [p \in Process |-> "nothing"]
  /\ cpu = None
  /\ stamp = [p \in Process |-> 0]
  /\ prevT = 0
  /\ buf = [by |-> None, time |-> 0]
  /\ paused = FALSE
  /\ testing \in BOOLEAN
  /\ failed = FALSE
  /\ messages = 0

-----------------------------------------------------------------------------
At(p, l) == pc[p] = l /\ cpu \in {None, p} /\ ~failed
Owns(p, s) == sem[s].owner = p
Goto(p, l) == pc' = [pc EXCEPT ![p] = l]

\* sem_obtain(&s) by p, which goes on at once if it can.
Take(p, s) ==
  /\ sem' = [sem EXCEPT ![s] = S!Obtained(@, p)]
  /\ cpu' = IF S!Available(sem[s], p) THEN p ELSE None
  /\ failed' = ~S!ObtainAsserts(sem[s], p)

\* sem_release(&s) by p, which goes on unless somebody waits.
Give(p, s) ==
  /\ sem' = [sem EXCEPT ![s] = S!Released(@)]
  /\ cpu' = S!RunsAfter(sem[s], p)

-----------------------------------------------------------------------------
(* radio_printf(): the log file, the timestamp, the buffer.                  *)

\* logging_vmsg() writes to the SD card under log_sem.
Printf(p) ==
  /\ sem' = [sem EXCEPT !["log"] = S!Obtained(@, p)]
  /\ failed' = ~S!ObtainAsserts(sem["log"], p)
  /\ cpu' = None
  /\ Goto(p, "logging")

Logged(p) ==
  /\ At(p, "logging") /\ Owns(p, "log")
  /\ Give(p, "log")
  /\ Goto(p, "time")
  /\ UNCHANGED <<todo, stamp, prevT, buf, paused, testing, failed, messages>>

\* radio_time(), which takes the semaphore only for itself.
AskTime(p) ==
  /\ At(p, "time")
  /\ Take(p, "radio")
  /\ Goto(p, "stamp")
  /\ UNCHANGED <<todo, stamp, prevT, buf, paused, testing, messages>>

GpsTime(now) == now                                 \* mutant: prev_t is not looked at
NextTime(now) == IF now <= prevT THEN prevT + 1 ELSE now

SetTime(p) ==
  \E now \in GpsTimes :
    /\ stamp' = [stamp EXCEPT ![p] = NextTime(now)]
    /\ prevT' = NextTime(now)

Stamp(p) ==
  /\ At(p, "stamp") /\ Owns(p, "radio")
  /\ SetTime(p)
  /\ Give(p, "radio")
  /\ Goto(p, "again")
  /\ UNCHANGED <<todo, buf, paused, testing, failed, messages>>

AskBuffer(p) ==
  /\ At(p, "again")
  /\ Take(p, "radio")
  /\ Goto(p, "format")
  /\ UNCHANGED <<todo, stamp, prevT, buf, paused, testing, messages>>

\* radio_send(): on air, unless there is a pause; then only a line in the log.
Send(p) ==
  /\ buf' = [by |-> p, time |-> stamp[p]]
  /\ cpu' = None
  /\ \/ /\ ~paused
        /\ Goto(p, "send")
        /\ UNCHANGED <<sem, failed>>
     \/ /\ paused
        /\ Goto(p, "drop")
        /\ sem' = [sem EXCEPT !["log"] = S!Obtained(@, p)]
        /\ failed' = ~S!ObtainAsserts(sem["log"], p)

Format(p) ==
  /\ At(p, "format") /\ Owns(p, "radio")
  /\ Send(p)
  /\ UNCHANGED <<todo, stamp, prevT, paused, testing, messages>>

\* ax25_sendVia() has read the last byte of the buffer.
Sent(p) ==
  /\ At(p, "send")
  /\ cpu' = p
  /\ Goto(p, "done")
  /\ UNCHANGED <<sem, todo, stamp, prevT, buf, paused, testing, failed, messages>>

Dropped(p) ==
  /\ At(p, "drop") /\ Owns(p, "log")
  /\ Give(p, "log")
  /\ Goto(p, "done")
  /\ UNCHANGED <<todo, stamp, prevT, buf, paused, testing, failed, messages>>

\* Without another message to send, back to timer_delay().
Done(p) ==
  /\ At(p, "done")
  /\ sem' = [sem EXCEPT !["radio"] = S!Released(@)]
  /\ cpu' = IF S!Handover(sem["radio"]) \/ todo[p] # "nothing"
            THEN S!RunsAfter(sem["radio"], p) ELSE None
  /\ stamp' = [stamp EXCEPT ![p] = 0]
  /\ Goto(p, IF todo[p] = "nothing" THEN "idle" ELSE todo[p])
  /\ todo' = [todo EXCEPT ![p] = "nothing"]
  /\ UNCHANGED <<prevT, buf, paused, testing, failed, messages>>

-----------------------------------------------------------------------------
(* radio_sendTelemetry(): measures_aprsFormat() calls radio_time() while     *)
(* the semaphore is already its own, then waits for the I2C bus.             *)

AskTelemetry(p) ==
  /\ At(p, "telemetry")
  /\ Take(p, "radio")
  /\ Goto(p, "position")
  /\ UNCHANGED <<todo, stamp, prevT, buf, paused, testing, messages>>

Position(p) ==
  /\ At(p, "position") /\ Owns(p, "radio")
  /\ failed' = ~S!ObtainAsserts(sem["radio"], p)
  /\ sem' = [sem EXCEPT !["radio"] = S!Released(S!Obtained(@, p))]
  /\ SetTime(p)
  /\ cpu' = None
  /\ Goto(p, "measure")
  /\ UNCHANGED <<todo, buf, paused, testing, messages>>

Measured(p) ==
  /\ At(p, "measure")
  /\ Send(p)
  /\ UNCHANGED <<todo, stamp, prevT, paused, testing, messages>>

-----------------------------------------------------------------------------
(* What makes the processes send.                                           *)

Begins(p) ==
  /\ At(p, "idle") /\ messages < MaxMessages
  /\ messages' = messages + 1

\* Any process has something to say; in test mode the main process adds the
\* telemetry.
Say(p) ==
  /\ p # "radio"
  /\ Begins(p)
  /\ Printf(p)
  /\ todo' = [todo EXCEPT ![p] = IF p = "main" /\ testing THEN "telemetry" ELSE "nothing"]
  /\ UNCHANGED <<stamp, prevT, buf, paused, testing>>

\* radio_process(): the period of the telemetry has elapsed.
TelemetryDue ==
  /\ ~testing
  /\ Begins("radio")
  /\ Goto("radio", "telemetry")
  /\ cpu' = "radio"
  /\ UNCHANGED <<sem, todo, stamp, prevT, buf, paused, testing, failed>>

\* A command from the ground: one that says something itself, radio_pause among
\* them, is acknowledged after that.
Command ==
  /\ Begins("radio")
  /\ \E t \in {"ack", "pausing"} : todo' = [todo EXCEPT !["radio"] = t]
  /\ Printf("radio")
  /\ UNCHANGED <<stamp, prevT, buf, paused, testing>>

\* cmd_radio_pause(), after its message.
Pause ==
  /\ At("radio", "pausing")
  /\ paused' = TRUE
  /\ cpu' = "radio"
  /\ Goto("radio", "ack")
  /\ UNCHANGED <<sem, todo, stamp, prevT, buf, testing, failed, messages>>

\* A command that says nothing itself, cmd_radio_resume() among them.
Resume ==
  /\ Begins("radio")
  /\ paused' \in {paused, FALSE}
  /\ cpu' = "radio"
  /\ Goto("radio", "ack")
  /\ UNCHANGED <<sem, todo, stamp, prevT, buf, testing, failed>>

\* radio_uplinkDecoder(): the answer to the ground.
Acknowledge ==
  /\ At("radio", "ack")
  /\ Printf("radio")
  /\ UNCHANGED <<todo, stamp, prevT, buf, paused, testing, messages>>

PauseElapses ==
  /\ paused /\ ~failed
  /\ paused' = FALSE
  /\ UNCHANGED <<sem, pc, todo, cpu, stamp, prevT, buf, testing, failed, messages>>

TestEnd ==
  /\ testing /\ At("main", "idle")
  /\ testing' = FALSE
  /\ UNCHANGED <<sem, pc, todo, cpu, stamp, prevT, buf, paused, failed, messages>>

-----------------------------------------------------------------------------
Message(p) ==
  \/ Logged(p) \/ AskTime(p) \/ Stamp(p) \/ AskBuffer(p) \/ Format(p)
  \/ Sent(p) \/ Dropped(p) \/ Done(p)
Telemetry(p) == AskTelemetry(p) \/ Position(p) \/ Measured(p)
Step(p) == Message(p) \/ Telemetry(p) \/ (p = "radio" /\ (Pause \/ Acknowledge))

Next ==
  \/ \E p \in Process : Step(p) \/ Say(p)
  \/ TelemetryDue \/ Command \/ Resume \/ PauseElapses \/ TestEnd

\* The ready list is first-in first-out: a process that is ready runs in the end,
\* however often others have the CPU before it.
Fairness == \A p \in Process : SF_vars(Step(p))

Spec == Init /\ [][Next]_vars /\ Fairness

-----------------------------------------------------------------------------
(* Properties.                                                              *)

\* The type of every variable.
TypeOK ==
  /\ sem \in [Sem -> S!SemType]
  /\ pc \in [Process -> Label]
  /\ todo \in [Process -> Todo]
  /\ cpu \in Process \union {None}
  /\ stamp \in [Process -> Nat]
  /\ prevT \in Nat
  /\ buf \in [by : Process \union {None}, time : Nat]
  /\ paused \in BOOLEAN /\ testing \in BOOLEAN /\ failed \in BOOLEAN
  /\ messages \in Nat

\* A message leaves as it was written: while a process is sending, the buffer
\* holds its message with its timestamp, though the modem takes a second or two
\* and any other process may want to write the buffer meanwhile.
WholeMessage == \A p \in Process : pc[p] = "send" => buf = [by |-> p, time |-> stamp[p]]

\* The ASSERTs of sem_obtain(): a semaphore that is taken at once has no queue.
\* The code does not keep it: a telemetry that had to wait, with another process
\* behind it, owns a semaphore with a queue when radio_time() takes it again.
NoAssert == ~failed

\* What the comment of the radio_pause command says: for RADIO_PAUSE_TIME all
\* radio messages are discarded, so nothing is on air.  The code does not keep it:
\* releasing the semaphore lets the next process begin to send before the pause is
\* set.
PauseSilent == paused => \A p \in Process : pc[p] # "send"
=============================================================================
