--------------------------- MODULE UplinkHistory ---------------------------
(***************************************************************************)
(* Uplink with the numbers that have been executed, and with the resets of *)
(* the cutter that a check under way will overwrite, and the properties    *)
(* that need them.                                                         *)
(***************************************************************************)
EXTENDS Uplink

VARIABLES
  times,     \* how often each number was executed since the checks were off
  lastEver,  \* the last number executed, restarts or not
  relaxed,   \* the checks have been off at some time
  overtaken  \* the cutter was reset between a comparison and its countdown, which
             \* is still to come or has not ended yet

None == [n \in 1..MaxSeq |-> 0]

hvars == <<vars, times, lastEver, relaxed, overtaken>>

HInit ==
  Init /\ times = None /\ lastEver = 0 /\ relaxed = ~Checking /\ overtaken = FALSE

Executes(n) == pc = "poll" /\ (pc' # "poll") /\ seqn' = n

Overtakes == pc = "reload" /\ pc' # "reload" /\ load.name = "cutoff" /\ check # Idle

HNext ==
  /\ Next
  /\ \/ /\ \E n \in 1..MaxSeq :
             /\ Executes(n)
             /\ times' = [IF Checking THEN times ELSE None EXCEPT ![n] = @ + 1]
             /\ lastEver' = n
     \/ /\ ~\E n \in 1..MaxSeq : Executes(n)
        /\ times' = IF boots' # boots THEN None ELSE times
        /\ UNCHANGED lastEver
  /\ relaxed' = (relaxed \/ value'["check_auth"] = Off)
  /\ overtaken' =
       ((overtaken \/ Overtakes) /\ (check' # Idle \/ countdown' # Idle))

HSpec == HInit /\ [][HNext]_hvars /\ WF_hvars(RadioProcess /\ HNext)

Once == INSTANCE CommandOnce
  WITH Numbers <- 1..MaxSeq, times <- times, strict <- Checking

(* The decoder of radio.c executes a number at most once, in increasing order,  *)
(* while the checks are on and the board does not restart, whatever frames are  *)
(* repeated and whatever the commands do to the checks and to last_seq.         *)
ExecutedOnce == Once!Spec

(* An answer OK says that every setting of the command is in force, as the      *)
(* module clamps it, the last one where a parameter is given twice, and that    *)
(* the key and the call in use are the configured ones (uplink.c, radio.c).     *)
OkayMeansDone ==
  pc = "okay" /\ load.kind = "cfg" =>
    /\ \A i \in 1..Len(load.pairs) :
         (\A j \in i + 1..Len(load.pairs) :
            load.pairs[j].param # load.pairs[i].param)
           => /\ load.pairs[i].param \in Param
              /\ value[load.pairs[i].param]
                   = Clamped(load.pairs[i].param, load.pairs[i].val)
    /\ key = value["sign_key"] /\ path = value["send_call"]

(* Between two commands nothing is left of the intermediate configurations that *)
(* a command goes through: what is derived from the settings, and the limit     *)
(* that a countdown has been begun for, are those of the settings in force, also *)
(* after a command that was accepted in part (uplink.c, radio_reload(),         *)
(* cutoff_reset()).  The one exception is a check that was in its messages when *)
(* the reset came: it begins a countdown for the limit it had read before.      *)
NoMixLeft ==
  pc = "poll" =>
    /\ key = value["sign_key"] /\ path = value["send_call"]
    /\ overtaken \/ countdown \in {Idle, Limit}

(* The same without the exception, which does not hold: cutoff_reset() does not  *)
(* reach a countdown whose check is in its messages (cutoff.c).                 *)
NoOldCountdown == pc = "poll" => countdown \in {Idle, Limit}

(* What radio.c says of SEQ in the format of a message, "This number must be    *)
(* monotonically increasing": with the checks on all the time the numbers       *)
(* executed increase.                                                           *)
NumbersIncrease ==
  [][\A n \in 1..MaxSeq : Executes(n) /\ ~relaxed => n > lastEver]_hvars

(* What the assertion of ax25_sendCall() says: every character of the call in   *)
(* use can be sent (bertos/net/ax25.c).                                         *)
CallSendable == ~failed
=============================================================================
