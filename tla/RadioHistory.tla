---------------------------- MODULE RadioHistory ----------------------------
(***************************************************************************)
(* Radio with a history variable, the timestamps that have gone on air, to *)
(* show that it implements Downlink.                                       *)
(***************************************************************************)
EXTENDS Radio

CONSTANT Time      \* bound: the timestamps to look for in Downlink

ASSUME TimeBound == Time \subseteq Nat

VARIABLE aired

hvars == <<vars, aired>>

Starts(p) == pc[p] # "send" /\ pc'[p] = "send"

HInit == Init /\ aired = {}

HNext ==
  /\ Next
  /\ aired' = aired \union {stamp[p] : p \in {q \in Process : Starts(q)}}

HSpec == HInit /\ [][HNext]_hvars /\ \A p \in Process : SF_hvars(Step(p) /\ HNext)

-----------------------------------------------------------------------------
\* A message waits from the moment its process asks for the log or the buffer
\* until radio_send() takes it or discards it.
Pending == {p \in Process : pc[p] \notin {"idle", "ack", "pausing", "send", "drop", "done"}}

OnAir == IF \E p \in Process : pc[p] = "send"
         THEN CHOOSE p \in Process : pc[p] = "send" ELSE None

Promise == INSTANCE Downlink WITH
  waiting <- Pending, onAir <- OnAir, dead <- failed

\* The firmware keeps the promise of Downlink, with its liveness: one message on
\* air at a time, no timestamp twice even when the clock of the GPS stands still or
\* jumps back, no message lost or stuck, whatever semaphores are waited for.
Implements == Promise!Spec
=============================================================================
