------------------------------- MODULE Uplink -------------------------------
(***************************************************************************)
(* Commands from the ground: the decoder of the radio process              *)
(* (bsm-2/radio.c), the parser of commands and settings (bsm-2/uplink.c)   *)
(* and the configuration they change (bertos/mware/config.c).              *)
(*                                                                         *)
(* Every log line and every radio message can lose the CPU, so the         *)
(* settings of one command are stored one by one, with the other           *)
(* processes running in between, and reach the values derived from them    *)
(* only in the reload at the end.  Of these others two are modelled: a     *)
(* process that transmits with the call path, and the check of the maximum *)
(* altitude in the wire cutter, which compares, sends its messages and     *)
(* only then begins its countdown.                                         *)
(*                                                                         *)
(* The ground may send any number with any key at any time: its counter    *)
(* (scripts/uplink.py) goes up, is set by hand and starts again at 1, a    *)
(* frame is lost or sent again.  A frame heard while the radio process is  *)
(* busy stays in the buffer of the modem, which is hearing it later.       *)
(***************************************************************************)
EXTENDS Integers, Sequences

CONSTANTS
  Keys,         \* signature keys
  Calls,        \* source calls
  BadCalls,     \* those with a character that ax25_sendCall() refuses
  MaxInterval,  \* the upper limit of aprs_interval
  MaxSeq,       \* bound: the sequence numbers in use are 1..MaxSeq
  Loads,        \* the payloads the ground sends
  Stored,       \* the configuration file on the SD card
  MaxHeard,     \* bound: frames heard
  MaxBoots      \* bound: restarts of the board

Radio == {"aprs_interval", "send_call", "sign_key", "check_auth"}
Cutoff == {"altmax_meters", "altmax_timeout"}
Param == Radio \cup Cutoff
Junk == -1                       \* a text that does not convert
On == 1
Off == 0

(* The parameters each module registered. *)
Table == [radio |-> Radio, cutoff |-> Cutoff]
Module == DOMAIN Table

Setting == [param : Param \cup {"unknown"}, val : Int]
Payload ==
  [kind : {"cfg"}, name : Module \cup {"unknown"}, pairs : Seq(Setting)]
    \cup [kind : {"cmd"}, name : {"ping", "reset", "wrongreset", "unknown"},
          pairs : {<<>>}]

ASSUME UplinkConstants ==
  /\ Keys \subseteq Int /\ Calls \subseteq Int /\ BadCalls \subseteq Calls
  /\ MaxInterval \in Nat \ {0} /\ MaxSeq \in Nat
  /\ Loads \subseteq Payload
  /\ Stored \in [Param -> Int]
  /\ Stored["check_auth"] \in {On, Off}
  /\ MaxHeard \in Nat /\ MaxBoots \in Nat

VARIABLES
  value,      \* the configuration variables
  key,        \* the key inside the context of the HMAC
  path,       \* ax25_path[1].call
  lastSeq,    \* last_seq
  check,      \* the limit an altitude was found above, with the messages still to
              \* be sent, or Idle
  countdown,  \* the limit a countdown was begun for (maxalt_ok is FALSE), or Idle
  pc,         \* where the radio process is
  seqn,       \* the number of the command it executes
  load,       \* and its payload
  next,       \* the next setting of it
  err,        \* err of uplink_parse()
  failed,     \* an assertion has failed
  heard, boots

derived == <<key, path>>
command == <<seqn, load, next, err>>
cutter == <<check, countdown>>
vars == <<value, key, path, lastSeq, check, countdown, pc, seqn, load, next, err,
          failed, heard, boots>>

Idle == <<>>
Limit == <<value["altmax_meters"]>>
Nothing == [kind |-> "cmd", name |-> "unknown", pairs |-> <<>>]

Label == {"poll", "store", "reload", "run", "bye", "okay", "error"}

TypeOK ==
  /\ value \in [Param -> Int] /\ value["check_auth"] \in {On, Off}
  /\ key \in Int /\ path \in Int
  /\ lastSeq \in 0..MaxSeq /\ seqn \in 0..MaxSeq
  /\ check \in Seq(Int) /\ countdown \in Seq(Int)
  /\ pc \in Label
  /\ load \in Payload
  /\ next \in Nat \ {0}
  /\ err \in BOOLEAN /\ failed \in BOOLEAN
  /\ heard \in 0..MaxHeard /\ boots \in 0..MaxBoots

(* What setp() of a parameter makes of a text; a string is always taken. *)
Converts(p, v) ==
  CASE p = "check_auth" -> v \in {On, Off}
    [] p \in {"send_call", "sign_key"} -> TRUE
    [] OTHER -> v # Junk

Clamped(p, v) ==
  IF p # "aprs_interval" THEN v
  ELSE IF v < 1 THEN 1 ELSE IF v > MaxInterval THEN MaxInterval ELSE v

(* config_set() finds the parameter among those of the module. *)
Known(module, p) == module \in Module /\ p \in Table[module]
Accepted(module, s) == Known(module, s.param) /\ Converts(s.param, s.val)

Init ==
  /\ value = Stored
  /\ key = Stored["sign_key"] /\ path = Stored["send_call"]
  /\ lastSeq = 0 /\ check = Idle /\ countdown = Idle
  /\ pc = "poll" /\ seqn = 0 /\ load = Nothing /\ next = 1 /\ err = FALSE
  /\ failed = FALSE /\ heard = 0 /\ boots = 0

Checking == value["check_auth"] = On

(* mutant: a number that has been executed is good enough *)
PassesAgain(n, k) == Checking => k = key /\ n >= lastSeq

(* The signature and the number are looked at only while check_auth is set. *)
Passes(n, k) == Checking => k = key /\ n > lastSeq

First(l) ==
  IF l.kind = "cmd" THEN "run" ELSE IF l.pairs = <<>> THEN "error" ELSE "store"

Number(n) == lastSeq' = n

(* radio_uplinkDecoder(): a frame that passes goes to uplink_parse(), the others *)
(* are only logged.  A configuration without settings changes nothing but the   *)
(* number.                                                                      *)
Hear(n, k, l) ==
  /\ pc = "poll" /\ ~failed /\ heard < MaxHeard
  /\ heard' = heard + 1
  /\ IF Passes(n, k)
     THEN /\ pc' = First(l)
          /\ seqn' = n /\ load' = l /\ next' = 1 /\ err' = FALSE
          /\ IF First(l) = "error" THEN Number(n) ELSE UNCHANGED lastSeq
     ELSE UNCHANGED <<pc, command, lastSeq>>
  /\ UNCHANGED <<value, derived, cutter, failed, boots>>

(* One turn of the loop of uplink_parse(): config_set(), then a log line. *)
Store ==
  /\ pc = "store" /\ ~failed
  /\ LET s == load.pairs[next]
         ok == Accepted(load.name, s)
     IN /\ value' = IF ok THEN [value EXCEPT ![s.param] = Clamped(s.param, s.val)]
                    ELSE value
        /\ err' = (err \/ ~ok)
  /\ next' = next + 1
  /\ pc' = IF next = Len(load.pairs) THEN "reload" ELSE "store"
  /\ UNCHANGED <<derived, lastSeq, cutter, seqn, load, failed, heard, boots>>

(* mutant: the errors are forgotten *)
AnswerOkay == "okay"

Answer == IF err THEN "error" ELSE "okay"

(* mutant: the configuration is reloaded only when all of it was accepted *)
ReloadsAll(module) == load.name = module /\ ~err

(* config_reload(): radio_reload(), or cutoff_reset(), or nothing for a module  *)
(* that is not there.  The last_seq = 0 of radio_reload() does not survive the  *)
(* assignment in the decoder; cutoff_reset() does nothing to a check that is in *)
(* its messages.                                                                *)
Reloads(module) == load.name = module

Reload ==
  /\ pc = "reload" /\ ~failed
  /\ IF Reloads("radio")
     THEN key' = value["sign_key"] /\ path' = value["send_call"]
     ELSE UNCHANGED derived
  /\ countdown' = IF Reloads("cutoff") THEN Idle ELSE countdown
  /\ Number(seqn)
  /\ pc' = Answer
  /\ UNCHANGED <<value, check, command, failed, heard, boots>>

(* Commands: ping answers, the others have modules of their own; reset with the *)
(* wrong code fails, with the right one it says so and resets the board.        *)
Runs == load.name = "ping"

Run ==
  /\ pc = "run" /\ ~failed
  /\ IF load.name = "reset"
     THEN pc' = "bye" /\ UNCHANGED lastSeq
     ELSE /\ pc' = IF Runs THEN "okay" ELSE "error"
          /\ Number(seqn)
  /\ UNCHANGED <<value, derived, cutter, command, failed, heard, boots>>

Encodable == path \notin BadCalls

(* radio_printf() of the answer; ax25_sendCall() asserts the characters. *)
Acknowledge ==
  /\ pc \in {"okay", "error"} /\ ~failed
  /\ pc' = "poll"
  /\ failed' = ~Encodable
  /\ UNCHANGED <<value, derived, lastSeq, cutter, command, heard, boots>>

(* Any other process that sends a message. *)
OtherSends ==
  /\ ~failed /\ ~Encodable
  /\ failed' = TRUE
  /\ UNCHANGED <<value, derived, lastSeq, cutter, pc, command, heard, boots>>

(* The check of the cutter finds the altitude above the limit; after two         *)
(* messages and a line of log, in which anything may happen, it begins its       *)
(* countdown.                                                                    *)
Compare ==
  /\ ~failed /\ check = Idle /\ countdown = Idle
  /\ check' = Limit
  /\ UNCHANGED <<value, derived, lastSeq, countdown, pc, command, failed, heard, boots>>

Arm ==
  /\ ~failed /\ check # Idle
  /\ countdown' = check /\ check' = Idle
  /\ UNCHANGED <<value, derived, lastSeq, pc, command, failed, heard, boots>>

(* It finds the altitude within the limit.                                       *)
Disarm ==
  /\ ~failed /\ check = Idle /\ countdown # Idle
  /\ countdown' = Idle
  /\ UNCHANGED <<value, derived, lastSeq, check, pc, command, failed, heard, boots>>

(* The reset command, a failed assertion, the watchdog, a brown-out: all that is *)
(* left is the configuration file.                                               *)
Reboot ==
  /\ boots < MaxBoots
  /\ boots' = boots + 1
  /\ value' = Stored
  /\ key' = Stored["sign_key"] /\ path' = Stored["send_call"]
  /\ lastSeq' = 0 /\ check' = Idle /\ countdown' = Idle
  /\ pc' = "poll" /\ seqn' = 0 /\ load' = Nothing /\ next' = 1 /\ err' = FALSE
  /\ failed' = FALSE
  /\ UNCHANGED heard

RadioProcess == Store \/ Reload \/ Run \/ Acknowledge

Next ==
  \/ \E n \in 1..MaxSeq, k \in Keys, l \in Loads : Hear(n, k, l)
  \/ Store \/ Reload \/ Run \/ Acknowledge
  \/ OtherSends \/ Compare \/ Arm \/ Disarm \/ Reboot

Spec == Init /\ [][Next]_vars /\ WF_vars(RadioProcess)

=============================================================================
