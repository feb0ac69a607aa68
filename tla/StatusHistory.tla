---------------------------- MODULE StatusHistory ----------------------------
(***************************************************************************)
(* StatusMgr with history variables: the readings behind the averages and  *)
(* the decision behind the last change of the status.  They never          *)
(* influence a step; the properties below are about them.                  *)
(***************************************************************************)
EXTENDS StatusMgr, Sequences

VARIABLES
  seen,    \* the readings since the averages were last reset, at most MeanLen + 1
  turn     \* the decision of status_check() that last changed the status: from
           \* which status, at what altitude

history == <<seen, turn>>
hvars == <<vars, history>>

NoTurn == [from |-> "NOFIX", alt |-> 0]
Cleared == \E p \in Proc : Reset(p) /\ pc'[p] # "clear"
Recent(s) == IF Len(s) > MeanLen + 1 THEN Tail(s) ELSE s

HInit ==
  /\ Init
  /\ seen = <<>>
  /\ turn = NoTurn

HNext ==
  /\ Next
  /\ seen' = IF Check THEN Recent(Append(seen, prev'))
             ELSE IF Cleared THEN <<>> ELSE seen
  /\ turn' = IF SetStatus THEN [from |-> status, alt |-> prev.alt]
             ELSE IF status' # status THEN NoTurn ELSE turn

HSpec == HInit /\ [][HNext]_hvars /\ Fairness

-----------------------------------------------------------------------------
\* The ascent that is compared with the rates is what the balloon really climbed
\* over the window, since the last reset at most: no change from before a reset,
\* a lost fix or another mission is counted, whatever the circular buffer still
\* holds and however a reset meets a check.
ClimbMeasured ==
  window.cnt > 0 => window.sum = Minus(seen[Len(seen)], seen[1])

\* The pairs of statuses that one altitude threshold separates.
Neighbours == {{"TAKEOFF", "STRATOPHERE_UP"}, {"STRATOPHERE_FALL", "FALLING"}, {"FALLING", "LANDING"}}

\* conf.ini: some hysteresis is used to avoid noise on trigger levels.  A status
\* that has crossed a threshold goes back only after an altitude that is more than
\* ALT_HIST away from the one that took it there, whatever resets interleave with
\* the decisions and however old the verdict is when it becomes the status.
NoChatter ==
  [][{status, status'} \in Neighbours /\ turn.from = status' /\ SetStatus =>
       prev.alt - turn.alt > AltHist \/ turn.alt - prev.alt > AltHist]_hvars
=============================================================================
