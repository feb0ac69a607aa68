---------------------------- MODULE CutoffHistory ----------------------------
(***************************************************************************)
(* Cutoff with history variables: what the range checks have seen, how     *)
(* often the automatic procedure has begun and how often it was reset.     *)
(* They never influence a step; the properties below are about them.       *)
(***************************************************************************)
EXTENDS Cutoff

VARIABLES
  outSince,   \* by watch: the sample time of the first of the unbroken series of
              \* executed checks, up to the last one, that found it out of range
  runs,       \* how often the automatic procedure has begun
  resets      \* how often cutoff_reset() has completed

history == <<outSince, runs, resets>>
hvars == <<vars, history>>

Checks == pc["cutoff"] = "check" /\ clock' = clock
Begins == pc["cutoff"] = "fire" /\ pc'["cutoff"] = "print"
ResetDone == \E p \in Operator : pc[p] = "reset" /\ pc'[p] = "idle"

HInit ==
  /\ Init
  /\ outSince = [w \in Watch |-> NotArmed]
  /\ runs = 0 /\ resets = 0

HNext ==
  /\ Next
  /\ outSince' = IF Checks
                 THEN [outSince EXCEPT ![at] =
                         IF ~OutOfRange(at) THEN NotArmed
                         ELSE IF @ = NotArmed THEN sample.now ELSE @]
                 ELSE outSince
  /\ runs' = IF Begins THEN runs + 1 ELSE runs
  /\ resets' = IF ResetDone THEN resets + 1 ELSE resets

HSpec == HInit /\ [][HNext]_hvars /\ Fairness

-----------------------------------------------------------------------------
\* An automatic cut for a range has served its countdown: when a check gives its
\* verdict, every execution of that check for more than its timeout has found the
\* balloon out of range while flying.  The flag, its time and the two messages
\* between which they are written keep that true through resets and restarts at
\* every yield point.
CountdownServed ==
  [][Checks /\ pc'["cutoff"] \in {"report", "fire"} =>
       /\ outSince[at] # NotArmed
       /\ sample.now - outSince[at] > Timeout[at]]_hvars

\* The wires are cut once: the automatic procedure does not begin again until a
\* cutoff_reset() has gone through, however long the condition lasts and whatever
\* is paused, resumed or fired by hand meanwhile.
OncePerReset == runs <= resets + (IF cut THEN 1 ELSE 0)
=============================================================================
