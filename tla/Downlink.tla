------------------------------ MODULE Downlink ------------------------------
(***************************************************************************)
(* What bsm-2/radio.c promises the processes that send: one message is on  *)
(* air at a time, no two messages carry the same timestamp, and every      *)
(* message is sent in the end, or discarded during a pause, unless an      *)
(* assertion resets the board.                                             *)
(***************************************************************************)
CONSTANTS Process, None, Time

VARIABLES
  waiting,   \* the processes with a message to send
  onAir,     \* the process whose message is on air, or None
  aired,     \* the timestamps that have gone on air
  paused,    \* the radio is paused
  dead       \* the board has been reset

vars == <<waiting, onAir, aired, paused, dead>>

Init ==
  /\ waiting = {} /\ onAir = None /\ aired = {}
  /\ paused = FALSE /\ dead = FALSE

Ask(p) ==
  /\ ~dead /\ p \notin waiting /\ p # onAir
  /\ waiting' = waiting \union {p}
  /\ dead' \in BOOLEAN
  /\ UNCHANGED <<onAir, aired, paused>>

Transmit(p) ==
  /\ ~dead /\ p \in waiting /\ onAir = None /\ ~paused
  /\ onAir' = p
  /\ waiting' = waiting \ {p}
  /\ \E t \in Time \ aired : aired' = aired \union {t}
  /\ UNCHANGED <<paused, dead>>

Discard(p) ==
  /\ ~dead /\ p \in waiting /\ paused
  /\ waiting' = waiting \ {p}
  /\ dead' \in BOOLEAN
  /\ UNCHANGED <<onAir, aired, paused>>

Finish ==
  /\ ~dead /\ onAir # None
  /\ onAir' = None
  /\ UNCHANGED <<waiting, aired, paused, dead>>

SetPause ==
  /\ ~dead
  /\ paused' = ~paused
  /\ UNCHANGED <<waiting, onAir, aired, dead>>

Die ==
  /\ ~dead /\ dead' = TRUE
  /\ UNCHANGED <<waiting, onAir, aired, paused>>

Next ==
  \/ \E p \in Process : Ask(p) \/ Transmit(p) \/ Discard(p)
  \/ Finish \/ SetPause \/ Die

\* A message that could be sent or discarded again and again is, in the end.
Fairness ==
  /\ WF_vars(Finish)
  /\ \A p \in Process : SF_vars(Transmit(p) \/ Discard(p))

Spec == Init /\ [][Next]_vars /\ Fairness
=============================================================================
