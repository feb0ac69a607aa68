---------------------------- MODULE UplinkProofs ----------------------------
(***************************************************************************)
(* Proofs about Uplink and UplinkHistory, for any table of payloads, keys, *)
(* calls and limits.                                                       *)
(***************************************************************************)
EXTENDS UplinkHistory, TLAPS

Busy == pc \in {"store", "reload"}

\* Where the loop of uplink_parse() is.
ShapeInv ==
  /\ pc = "store" => load.kind = "cfg" /\ next \in 1..Len(load.pairs)
  /\ pc \in {"reload"} => load.kind = "cfg" /\ next = Len(load.pairs) + 1
  /\ pc = "okay" /\ load.kind = "cfg" => ~err /\ next = Len(load.pairs) + 1
  /\ pc \in {"run", "bye"} => load.kind = "cmd"

\* Only a command of its module makes a derived value differ from its setting.
DerivedInv ==
  ~(Busy /\ load.name = "radio")
     => key = value["sign_key"] /\ path = value["send_call"]

\* The settings before next are in force, each as its last occurrence says.
InForceInv ==
  (Busy \/ pc = "okay") /\ load.kind = "cfg" /\ ~err =>
    \A i \in 1..next - 1 :
      (\A j \in i + 1..next - 1 : load.pairs[j].param # load.pairs[i].param)
        => /\ load.pairs[i].param \in Param
           /\ value[load.pairs[i].param]
                = Clamped(load.pairs[i].param, load.pairs[i].val)

UplinkInv == TypeOK /\ ShapeInv /\ DerivedInv /\ InForceInv

LEMMA PayloadShape ==
  ASSUME NEW l \in Payload
  PROVE  /\ l.kind \in {"cfg", "cmd"}
         /\ l.pairs \in Seq(Setting)
         /\ l.kind = "cfg" => l.name \in Module \cup {"unknown"}
         /\ Len(l.pairs) \in Nat
         /\ \A i \in 1..Len(l.pairs) : l.pairs[i] \in Setting
  <1>1. l.kind \in {"cfg", "cmd"} /\ l.pairs \in Seq(Setting)
    <2>1. <<>> \in Seq(Setting)
      OBVIOUS
    <2> QED
      BY <2>1 DEF Payload
  <1>2. l.kind = "cfg" => l.name \in Module \cup {"unknown"}
    BY DEF Payload
  <1>3. Len(l.pairs) \in Nat /\ \A i \in 1..Len(l.pairs) : l.pairs[i] \in Setting
    BY <1>1
  <1> QED
    BY <1>1, <1>2, <1>3

\* What a setting that is accepted does to the types and to the other parameters.
LEMMA StoreTyped ==
  ASSUME NEW s \in Setting, NEW module, Accepted(module, s),
         value \in [Param -> Int], value["check_auth"] \in {On, Off},
         MaxInterval \in Nat \ {0}
  PROVE  /\ s.param \in Param /\ s.val \in Int
         /\ Clamped(s.param, s.val) \in Int
         /\ s.param = "check_auth" => Clamped(s.param, s.val) \in {On, Off}
         /\ module = "radio" \/ module = "cutoff"
         /\ module = "radio" => s.param \notin Cutoff
         /\ module = "cutoff" => s.param \notin Radio
  <1>1. s.param \in Param /\ s.val \in Int
    BY DEF Setting, Accepted, Known, Table, Module, Param
  <1>2. module = "radio" \/ module = "cutoff"
    BY DEF Accepted, Known, Table, Module
  <1>3. s.param \in Table[module]
    BY DEF Accepted, Known
  <1>4. /\ module = "radio" => s.param \in Radio
        /\ module = "cutoff" => s.param \in Cutoff
    BY <1>2, <1>3 DEF Table
  <1>5. s.param = "check_auth" => s.val \in {On, Off}
    BY DEF Accepted, Converts
  <1>6. Clamped(s.param, s.val) \in Int
    BY <1>1 DEF Clamped
  <1> QED
    BY <1>1, <1>2, <1>4, <1>5, <1>6 DEF Clamped, Radio, Cutoff

LEMMA InitInv == Init => UplinkInv
  <1> SUFFICES ASSUME Init PROVE UplinkInv
    OBVIOUS
  <1> USE UplinkConstants
  <1>1. TypeOK
    <2>1. Nothing \in Payload
      BY DEF Nothing, Payload
    <2>2. {"sign_key", "send_call", "check_auth"} \subseteq Param
      BY DEF Param, Radio
    <2>3. value \in [Param -> Int] /\ key \in Int /\ path \in Int
      BY <2>2 DEF Init
    <2>4. 0 \in 0..MaxSeq /\ 0 \in 0..MaxHeard /\ 0 \in 0..MaxBoots
      OBVIOUS
    <2>5. check \in Seq(Int) /\ countdown \in Seq(Int)
      BY DEF Init, Idle
    <2>6. pc \in Label /\ load \in Payload /\ next \in Nat \ {0}
      BY <2>1 DEF Init, Label
    <2>7. err \in BOOLEAN /\ failed \in BOOLEAN
      BY DEF Init
    <2>8. lastSeq \in 0..MaxSeq /\ seqn \in 0..MaxSeq /\ heard \in 0..MaxHeard /\ boots \in 0..MaxBoots
      BY <2>4 DEF Init
    <2>9. value["check_auth"] \in {On, Off}
      BY DEF Init
    <2> QED
      BY <2>3, <2>5, <2>6, <2>7, <2>8, <2>9 DEF TypeOK
  <1>2. ShapeInv /\ DerivedInv /\ InForceInv
    BY DEF Init, ShapeInv, DerivedInv, InForceInv, Busy
  <1> QED
    BY <1>1, <1>2 DEF UplinkInv

LEMMA RebootInv == UplinkInv /\ Reboot => UplinkInv'
  <1> SUFFICES ASSUME UplinkInv, Reboot PROVE UplinkInv'
    OBVIOUS
  <1> USE UplinkConstants
  <1>1. TypeOK'
    <2>1. Nothing \in Payload
      BY DEF Nothing, Payload
    <2>2. {"sign_key", "send_call", "check_auth"} \subseteq Param
      BY DEF Param, Radio
    <2>3. (value \in [Param -> Int] /\ key \in Int /\ path \in Int)'
      BY <2>2 DEF Reboot
    <2>4. (check \in Seq(Int) /\ countdown \in Seq(Int))'
      BY DEF Reboot, Idle
    <2>5. (pc \in Label /\ load \in Payload /\ next \in Nat \ {0})'
      BY <2>1 DEF Reboot, Label
    <2>6. (err \in BOOLEAN /\ failed \in BOOLEAN)'
      BY DEF Reboot
    <2>7. (lastSeq \in 0..MaxSeq /\ seqn \in 0..MaxSeq)'
      BY DEF Reboot
    <2>8. (heard \in 0..MaxHeard /\ boots \in 0..MaxBoots)'
      BY DEF Reboot, UplinkInv, TypeOK
    <2>9. (value["check_auth"] \in {On, Off})'
      BY DEF Reboot
    <2> QED
      BY <2>3, <2>4, <2>5, <2>6, <2>7, <2>8, <2>9 DEF TypeOK
  <1>2. ShapeInv' /\ DerivedInv' /\ InForceInv'
    BY DEF Reboot, ShapeInv, DerivedInv, InForceInv, Busy
  <1> QED
    BY <1>1, <1>2 DEF UplinkInv

LEMMA HearInv ==
  ASSUME UplinkInv, NEW n \in 1..MaxSeq, NEW k, NEW l \in Loads, Hear(n, k, l)
  PROVE  UplinkInv'
  <1> USE UplinkConstants DEF UplinkInv
  <1>1. l \in Payload /\ Len(l.pairs) \in Nat /\ l.kind \in {"cfg", "cmd"}
    BY PayloadShape
  <1>2. CASE Passes(n, k)
    <2>1. pc' = First(l) /\ seqn' = n /\ load' = l /\ next' = 1 /\ err' = FALSE
      BY <1>2 DEF Hear
    <2>2. lastSeq' \in 0..MaxSeq
      BY <1>2 DEF Hear, Number, TypeOK
    <2>3. UNCHANGED <<value, key, path, check, countdown, failed, boots>>
      BY DEF Hear, derived, cutter
    <2>4. heard' \in 0..MaxHeard
      BY DEF Hear, TypeOK
    <2>5. First(l) \in {"run", "error", "store"}
      BY DEF First
    <2>6. TypeOK'
      <3>1. (pc \in Label /\ load \in Payload /\ next \in Nat \ {0})'
        BY <1>1, <2>1, <2>5 DEF Label
      <3>2. (seqn \in 0..MaxSeq)'
        BY <2>1
      <3>3. (err \in BOOLEAN)'
        BY <2>1
      <3>4. (value \in [Param -> Int] /\ value["check_auth"] \in {On, Off}
             /\ key \in Int /\ path \in Int /\ check \in Seq(Int) /\ countdown \in Seq(Int)
             /\ boots \in 0..MaxBoots)'
        BY <2>3 DEF TypeOK
      <3>5. (failed \in BOOLEAN)'
        BY <2>3 DEF TypeOK
      <3> QED
        BY <2>2, <2>4, <3>1, <3>2, <3>3, <3>4, <3>5 DEF TypeOK
    <2>7. ShapeInv'
      <3>1. First(l) = "run" => l.kind = "cmd"
        BY <1>1 DEF First
      <3>2. First(l) = "store" => l.kind = "cfg" /\ l.pairs # <<>>
        BY <1>1 DEF First
      <3>3. l.pairs # <<>> => Len(l.pairs) \in Nat \ {0}
        BY PayloadShape, <1>1
      <3> QED
        BY <2>1, <2>5, <3>1, <3>2, <3>3 DEF ShapeInv
    <2>8. DerivedInv'
      BY <2>1, <2>3 DEF DerivedInv, Busy, Hear
    <2>9. InForceInv'
      <3>1. 1..next' - 1 = {}
        BY <2>1
      <3> QED
        BY <3>1 DEF InForceInv
    <2> QED
      BY <2>6, <2>7, <2>8, <2>9
  <1>3. CASE ~Passes(n, k)
    <2>1. UNCHANGED <<pc, seqn, load, next, err, lastSeq, value, key, path, check, countdown,
                      failed, boots>>
      BY <1>3 DEF Hear, derived, cutter, command
    <2>2. heard' \in 0..MaxHeard
      BY DEF Hear, TypeOK
    <2> QED
      BY <2>1, <2>2 DEF TypeOK, ShapeInv, DerivedInv, InForceInv, Busy
  <1> QED
    BY <1>2, <1>3

LEMMA StoreInv == UplinkInv /\ Store => UplinkInv'
  <1> SUFFICES ASSUME UplinkInv, Store PROVE UplinkInv'
    OBVIOUS
  <1> USE UplinkConstants DEF UplinkInv
  <1> DEFINE s == load.pairs[next]
             ok == Accepted(load.name, s)
  <1>1. /\ load \in Payload /\ load.kind = "cfg" /\ next \in 1..Len(load.pairs)
        /\ Len(load.pairs) \in Nat /\ pc = "store"
    BY PayloadShape DEF Store, TypeOK, ShapeInv
  <1>2. s \in Setting
    BY <1>1, PayloadShape
  <1>3. /\ value' = IF ok THEN [value EXCEPT ![s.param] = Clamped(s.param, s.val)] ELSE value
        /\ err' = (err \/ ~ok) /\ next' = next + 1
        /\ pc' \in {"store", "reload"}
        /\ pc' = "reload" <=> next = Len(load.pairs)
        /\ UNCHANGED <<key, path, lastSeq, check, countdown, seqn, load, failed, heard, boots>>
    BY DEF Store, derived, cutter
  <1>4. value \in [Param -> Int] /\ value["check_auth"] \in {On, Off}
    BY DEF TypeOK
  <1>5. ok => /\ s.param \in Param
              /\ Clamped(s.param, s.val) \in Int
              /\ s.param = "check_auth" => Clamped(s.param, s.val) \in {On, Off}
              /\ load.name = "radio" => s.param \notin Cutoff
              /\ load.name = "cutoff" => s.param \notin Radio
              /\ load.name \in {"radio", "cutoff"}
    BY <1>2, <1>4, StoreTyped
  <1>6. value' \in [Param -> Int] /\ value'["check_auth"] \in {On, Off}
    BY <1>3, <1>4, <1>5 DEF Param, Radio
  <1>7. TypeOK'
    BY <1>1, <1>3, <1>6 DEF TypeOK, Label
  <1>8. ShapeInv'
    BY <1>1, <1>3 DEF ShapeInv
  <1>9. DerivedInv'
    <2>1. load.name # "radio" => value'["sign_key"] = value["sign_key"]
                                 /\ value'["send_call"] = value["send_call"]
      BY <1>3, <1>4, <1>5 DEF Param, Radio
    <2> QED
      BY <1>1, <1>3, <2>1 DEF DerivedInv, Busy
  <1>10. InForceInv'
    <2>a. next' - 1 = next /\ load' = load
      BY <1>1, <1>3
    <2>b. ~err' => ok /\ ~err
      BY <1>3
    <2> SUFFICES ASSUME ok, ~err,
                        NEW i \in 1..next,
                        \A j \in i + 1..next : load.pairs[j].param # load.pairs[i].param
                 PROVE  /\ load.pairs[i].param \in Param
                        /\ value'[load.pairs[i].param]
                             = Clamped(load.pairs[i].param, load.pairs[i].val)
      BY <2>a, <2>b DEF InForceInv
    <2>1. CASE i = next
      BY <2>1, <1>3, <1>4, <1>5
    <2>2. CASE i # next
      <3>1. i \in 1..next - 1 /\ next \in i + 1..next /\ i + 1..next - 1 \subseteq i + 1..next
        BY <2>2, <1>1
      <3>2. /\ load.pairs[i].param \in Param
            /\ value[load.pairs[i].param]
                 = Clamped(load.pairs[i].param, load.pairs[i].val)
        BY <3>1, <1>1 DEF InForceInv, Busy
      <3>3. s.param # load.pairs[i].param
        BY <3>1
      <3> QED
        BY <3>2, <3>3, <1>3, <1>4
    <2> QED
      BY <2>1, <2>2
  <1> QED
    BY <1>7, <1>8, <1>9, <1>10

LEMMA ReloadInv == UplinkInv /\ Reload => UplinkInv'
  <1> SUFFICES ASSUME UplinkInv, Reload PROVE UplinkInv'
    OBVIOUS
  <1> USE UplinkConstants DEF UplinkInv
  <1>1. /\ pc = "reload" /\ load.kind = "cfg" /\ next = Len(load.pairs) + 1
        /\ load \in Payload
    BY DEF Reload, ShapeInv, TypeOK
  <1>2. /\ UNCHANGED <<value, check, seqn, load, next, err, failed, heard, boots>>
        /\ lastSeq' = seqn
    BY DEF Reload, command, Number
  <1>3. /\ pc' \in {"okay", "error"}
        /\ pc' = "okay" => ~err
    BY DEF Reload, Answer
  <1>4. load.name = "radio" => key' = value["sign_key"] /\ path' = value["send_call"]
    BY DEF Reload, Reloads
  <1>5. load.name # "radio" => key' = key /\ path' = path
    BY DEF Reload, Reloads, derived
  <1>6. countdown' = IF load.name = "cutoff" THEN Idle ELSE countdown
    BY DEF Reload, Reloads
  <1>7. TypeOK'
    <2>1. (key \in Int /\ path \in Int)'
      <3>1. value["sign_key"] \in Int /\ value["send_call"] \in Int
        BY DEF TypeOK, Param, Radio
      <3> QED
        BY <3>1, <1>4, <1>5 DEF TypeOK
    <2>2. (check \in Seq(Int) /\ countdown \in Seq(Int))'
      BY <1>2, <1>6 DEF TypeOK, Idle
    <2>3. (pc \in Label)'
      BY <1>3 DEF Label
    <2>4. (err \in BOOLEAN /\ failed \in BOOLEAN)'
      BY <1>2 DEF TypeOK
    <2> QED
      BY <1>2, <2>1, <2>2, <2>3, <2>4 DEF TypeOK
  <1>8. ShapeInv'
    BY <1>1, <1>2, <1>3 DEF ShapeInv
  <1>9. DerivedInv'
    BY <1>1, <1>2, <1>3, <1>4, <1>5 DEF DerivedInv, Busy
  <1>10. InForceInv'
    BY <1>1, <1>2, <1>3 DEF InForceInv, Busy
  <1> QED
    BY <1>7, <1>8, <1>9, <1>10

\* Commands that are not settings leave the configuration alone.
LEMMA OthersInv ==
  UplinkInv /\ (Run \/ Acknowledge \/ OtherSends \/ Compare \/ Arm \/ Disarm) => UplinkInv'
  <1> SUFFICES ASSUME UplinkInv,
                      Run \/ Acknowledge \/ OtherSends \/ Compare \/ Arm \/ Disarm
               PROVE  UplinkInv'
    OBVIOUS
  <1> USE UplinkConstants DEF UplinkInv
  <1>1. CASE Run
    <2>1. UNCHANGED <<value, key, path, check, countdown, seqn, load, next, err, failed,
                      heard, boots>>
      BY <1>1 DEF Run, derived, cutter, command
    <2>2. pc = "run" /\ pc' \in {"bye", "okay", "error"} /\ load.kind = "cmd"
      BY <1>1 DEF Run, ShapeInv
    <2>3. (lastSeq \in 0..MaxSeq)'
      BY <1>1 DEF Run, Number, TypeOK
    <2>4. TypeOK'
      <3>1. (pc \in Label)'
        BY <2>2 DEF Label
      <3>2. (err \in BOOLEAN /\ failed \in BOOLEAN)'
        BY <2>1 DEF TypeOK
      <3> QED
        BY <2>1, <2>3, <3>1, <3>2 DEF TypeOK
    <2>5. ShapeInv' /\ InForceInv'
      BY <2>1, <2>2 DEF ShapeInv, InForceInv, Busy
    <2>6. DerivedInv'
      BY <2>1, <2>2 DEF DerivedInv, Busy
    <2> QED
      BY <2>4, <2>5, <2>6
  <1>2. CASE Acknowledge \/ OtherSends
    <2>1. UNCHANGED <<value, key, path, lastSeq, check, countdown, seqn, load, next, err,
                      heard, boots>>
      BY <1>2 DEF Acknowledge, OtherSends, derived, cutter, command
    <2>2. pc' = pc \/ (pc \in {"okay", "error"} /\ pc' = "poll")
      BY <1>2 DEF Acknowledge, OtherSends
    <2>3. (failed \in BOOLEAN)'
      BY <1>2 DEF Acknowledge, OtherSends
    <2>4. TypeOK'
      <3>1. (pc \in Label)'
        BY <2>2 DEF TypeOK, Label
      <3>2. (err \in BOOLEAN)'
        BY <2>1 DEF TypeOK
      <3> QED
        BY <2>1, <2>3, <3>1, <3>2 DEF TypeOK
    <2>5. ShapeInv' /\ InForceInv'
      BY <2>1, <2>2 DEF ShapeInv, InForceInv, Busy
    <2>6. DerivedInv'
      BY <2>1, <2>2 DEF DerivedInv, Busy
    <2> QED
      BY <2>4, <2>5, <2>6
  <1>3. CASE Compare \/ Arm \/ Disarm
    <2>1. UNCHANGED <<value, key, path, lastSeq, pc, seqn, load, next, err, failed, heard, boots>>
      BY <1>3 DEF Compare, Arm, Disarm, derived, command
    <2>2. TypeOK'
      <3>1. Limit \in Seq(Int) /\ Idle \in Seq(Int)
        BY DEF Limit, Idle, TypeOK, Param, Cutoff
      <3>2. (check \in Seq(Int) /\ countdown \in Seq(Int))'
        BY <1>3, <3>1 DEF Compare, Arm, Disarm, TypeOK
      <3>3. (err \in BOOLEAN /\ failed \in BOOLEAN)'
        BY <2>1 DEF TypeOK
      <3> QED
        BY <2>1, <3>2, <3>3 DEF TypeOK
    <2>3. ShapeInv' /\ InForceInv'
      BY <2>1 DEF ShapeInv, InForceInv, Busy
    <2>4. DerivedInv'
      BY <2>1 DEF DerivedInv, Busy
    <2> QED
      BY <2>2, <2>3, <2>4
  <1> QED
    BY <1>1, <1>2, <1>3

LEMMA StutterInv == UplinkInv /\ UNCHANGED vars => UplinkInv'
  <1> SUFFICES ASSUME UplinkInv, UNCHANGED vars PROVE UplinkInv'
    OBVIOUS
  <1>1. TypeOK'
    BY DEF UplinkInv, TypeOK, vars
  <1>2. ShapeInv' /\ DerivedInv' /\ InForceInv'
    BY DEF UplinkInv, ShapeInv, DerivedInv, InForceInv, Busy, vars
  <1> QED
    BY <1>1, <1>2 DEF UplinkInv

\* Every step keeps the types, the shape of the parser's loop, the derived values
\* and the settings in force.
LEMMA StepInv == UplinkInv /\ [Next]_vars => UplinkInv'
  BY HearInv, StoreInv, ReloadInv, OthersInv, RebootInv, StutterInv DEF Next

\* In every behaviour of the uplink each variable keeps its type.
THEOREM TypeCorrect == Spec => []TypeOK
  <1>1. UplinkInv => TypeOK
    BY DEF UplinkInv
  <1> QED
    BY InitInv, StepInv, <1>1, PTL DEF Spec

LEMMA HistoryInv == HSpec => []UplinkInv
  <1>1. HInit => UplinkInv
    BY InitInv DEF HInit
  <1>2. UplinkInv /\ [HNext]_hvars => UplinkInv'
    BY StepInv DEF HNext, hvars
  <1> QED
    BY <1>1, <1>2, PTL DEF HSpec

\* OkayMeansDone for every configuration table and every list of settings: an answer
\* OK is only given when all the settings of the command are in force.
THEOREM OkayAlwaysMeansDone == HSpec => []OkayMeansDone
  <1>1. UplinkInv => OkayMeansDone
    <2> SUFFICES ASSUME UplinkInv, pc = "okay", load.kind = "cfg" PROVE
          /\ \A i \in 1..Len(load.pairs) :
               (\A j \in i + 1..Len(load.pairs) :
                  load.pairs[j].param # load.pairs[i].param)
                 => /\ load.pairs[i].param \in Param
                    /\ value[load.pairs[i].param]
                         = Clamped(load.pairs[i].param, load.pairs[i].val)
          /\ key = value["sign_key"] /\ path = value["send_call"]
      BY DEF OkayMeansDone
    <2>1. Len(load.pairs) \in Nat
      BY PayloadShape DEF UplinkInv, TypeOK
    <2>2. ~err /\ next - 1 = Len(load.pairs)
      BY <2>1 DEF UplinkInv, ShapeInv
    <2> QED
      BY <2>2 DEF UplinkInv, InForceInv, DerivedInv, Busy
  <1> QED
    BY HistoryInv, <1>1, PTL

-----------------------------------------------------------------------------
(* The cutter beside the command.  A check or a countdown that is neither for   *)
(* the limit in force nor overtaken by a reset is one of a command for the       *)
(* cutter that has still to come to its reload.                                 *)

CutterInv ==
  /\ check = Idle \/ countdown = Idle
  /\ ~(Busy /\ load.name = "cutoff") =>
       overtaken \/ (check \in {Idle, Limit} /\ countdown \in {Idle, Limit})

LEMMA CutterStep == UplinkInv /\ CutterInv /\ [HNext]_hvars => CutterInv'
  <1> SUFFICES ASSUME UplinkInv, CutterInv, [HNext]_hvars PROVE CutterInv'
    OBVIOUS
  <1>1. CASE UNCHANGED hvars
    BY <1>1 DEF hvars, vars, CutterInv, Busy, Limit
  <1>2. CASE HNext
    <2>1. overtaken' = ((overtaken \/ Overtakes) /\ (check' # Idle \/ countdown' # Idle))
      BY <1>2 DEF HNext
    <2>2. ASSUME NEW n \in 1..MaxSeq, NEW k \in Keys, NEW l \in Loads, Hear(n, k, l)
          PROVE  CutterInv'
      <3>1. pc = "poll" /\ UNCHANGED <<value, check, countdown>>
        BY <2>2 DEF Hear, cutter
      <3>2. overtaken \/ (check \in {Idle, Limit} /\ countdown \in {Idle, Limit})
        BY <3>1 DEF CutterInv, Busy
      <3> QED
        BY <2>1, <3>1, <3>2 DEF CutterInv, Limit, Overtakes
    <2>3. CASE Store
      <3>1. /\ pc = "store" /\ UNCHANGED <<check, countdown, load>>
            /\ Busy /\ Busy'
        BY <2>3 DEF Store, cutter, Busy
      <3>2. load.name # "cutoff" => value'["altmax_meters"] = value["altmax_meters"]
        <4> DEFINE s == load.pairs[next]
        <4>1. s \in Setting
          BY <3>1, PayloadShape DEF UplinkInv, ShapeInv, TypeOK
        <4>2. Accepted(load.name, s) /\ load.name # "cutoff" => s.param # "altmax_meters"
          BY <4>1, StoreTyped, UplinkConstants DEF UplinkInv, TypeOK, Cutoff
        <4>3. /\ value \in [Param -> Int]
              /\ value' = IF Accepted(load.name, s)
                          THEN [value EXCEPT ![s.param] = Clamped(s.param, s.val)]
                          ELSE value
          BY <2>3 DEF Store, UplinkInv, TypeOK
        <4> QED
          BY <4>2, <4>3 DEF Param, Cutoff
      <3> QED
        BY <2>1, <3>1, <3>2 DEF CutterInv, Limit, Overtakes
    <2>4. CASE Reload
      <3>1. /\ pc = "reload" /\ pc' # "reload" /\ ~Busy'
            /\ UNCHANGED <<value, check, load>>
            /\ countdown' = IF load.name = "cutoff" THEN Idle ELSE countdown
        BY <2>4 DEF Reload, Reloads, Answer, Busy, command
      <3>2. CASE load.name = "cutoff"
        BY <2>1, <3>1, <3>2 DEF CutterInv, Overtakes
      <3>3. CASE load.name # "cutoff"
        BY <2>1, <3>1, <3>3 DEF CutterInv, Overtakes, Limit
      <3> QED
        BY <3>2, <3>3
    <2>5. CASE Run \/ Acknowledge \/ OtherSends
      <3>1. /\ UNCHANGED <<value, check, countdown, load>>
            /\ pc' = pc \/ (pc \notin {"store", "reload"} /\ pc' \notin {"store", "reload"})
        BY <2>5 DEF Run, Acknowledge, OtherSends, cutter, command
      <3> QED
        BY <2>1, <3>1 DEF CutterInv, Busy, Limit, Overtakes
    <2>6. CASE Compare \/ Arm \/ Disarm
      <3>1. UNCHANGED <<value, pc, load>>
        BY <2>6 DEF Compare, Arm, Disarm, command
      <3>a. /\ Limit' = Limit /\ (Busy' <=> Busy)
            /\ overtaken' = (overtaken /\ (check' # Idle \/ countdown' # Idle))
        BY <2>1, <3>1 DEF Limit, Busy, Overtakes
      <3>2. CASE Compare
        <4>1. check = Idle /\ countdown = Idle /\ check' = Limit /\ countdown' = Idle
          BY <3>2 DEF Compare
        <4> QED
          BY <3>1, <3>a, <4>1 DEF CutterInv
      <3>3. CASE Arm
        <4>1. check # Idle /\ check' = Idle /\ countdown' = check
          BY <3>3 DEF Arm
        <4> QED
          BY <3>1, <3>a, <4>1 DEF CutterInv
      <3>4. CASE Disarm
        BY <2>1, <3>1, <3>4 DEF Disarm, CutterInv, Busy, Limit, Overtakes
      <3> QED
        BY <2>6, <3>2, <3>3, <3>4
    <2>7. CASE Reboot
      BY <2>7 DEF Reboot, CutterInv
    <2> QED
      BY <1>2, <2>2, <2>3, <2>4, <2>5, <2>6, <2>7 DEF HNext, Next
  <1> QED
    BY <1>1, <1>2

\* NoMixLeft for every configuration: nothing of an intermediate one is left between
\* two commands, not even when a command was accepted in part, except by a check that
\* was in its messages while the cutter was reset.
THEOREM NoMixEverLeft == HSpec => []NoMixLeft
  <1>1. HInit => CutterInv
    BY DEF HInit, Init, CutterInv
  <1>2. UplinkInv /\ CutterInv => NoMixLeft
    BY DEF UplinkInv, DerivedInv, CutterInv, Busy, NoMixLeft
  <1> QED
    BY HistoryInv, CutterStep, <1>1, <1>2, PTL DEF HSpec

-----------------------------------------------------------------------------
(* The refinement.  While a command is executed its number is seqn and already  *)
(* the greatest of those executed; once it is over, lastSeq is.                     *)

TimesInv ==
  /\ times \in [1..MaxSeq -> Nat]
  /\ \A m \in 1..MaxSeq :
       times[m] > 0
         => m <= (IF pc \in {"store", "reload", "run", "bye"} THEN seqn ELSE lastSeq)

LEMMA TimesStep == UplinkInv /\ TimesInv /\ [HNext]_hvars => TimesInv'
  <1> SUFFICES ASSUME UplinkInv, TimesInv, [HNext]_hvars PROVE TimesInv'
    OBVIOUS
  <1> USE UplinkConstants
  <1>1. CASE UNCHANGED hvars
    BY <1>1 DEF hvars, vars, TimesInv
  <1>2. ASSUME HNext, NEW n \in 1..MaxSeq, NEW k \in Keys, NEW l \in Loads, Hear(n, k, l)
        PROVE  TimesInv'
    <2>1. CASE Passes(n, k)
      <3>1. /\ pc = "poll" /\ pc' = First(l) /\ seqn' = n
            /\ First(l) \in {"run", "error", "store"}
            /\ First(l) = "error" => lastSeq' = n
        BY <1>2, <2>1 DEF Hear, First, Number
      <3>2. Executes(n) /\ \A m \in 1..MaxSeq : Executes(m) => m = n
        BY <3>1 DEF Executes
      <3>3. times' = [IF Checking THEN times ELSE None EXCEPT ![n] = @ + 1]
        BY <1>2, <3>2 DEF HNext
      <3>4. Checking => n > lastSeq
        BY <2>1 DEF Passes
      <3>5. times \in [1..MaxSeq -> Nat] /\ None \in [1..MaxSeq -> Nat]
        BY DEF TimesInv, None
      <3>6. times' \in [1..MaxSeq -> Nat]
        BY <3>3, <3>5
      <3>7. ASSUME NEW m \in 1..MaxSeq, times'[m] > 0 PROVE m <= n
        <4>1. CASE m = n
          BY <4>1
        <4>2. CASE m # n /\ Checking
          <5>1. times'[m] = times[m]
            BY <3>3, <3>5, <4>2
          <5> QED
            BY <3>1, <3>4, <3>7, <4>2, <5>1 DEF TimesInv, UplinkInv, TypeOK
        <4>3. CASE m # n /\ ~Checking
          <5>1. times'[m] = 0
            BY <3>3, <3>5, <4>3 DEF None
          <5> QED
            BY <3>7, <5>1
        <4> QED
          BY <4>1, <4>2, <4>3
      <3> QED
        BY <3>1, <3>6, <3>7 DEF TimesInv
    <2>2. CASE ~Passes(n, k)
      <3>1. pc = "poll" /\ pc' = pc /\ lastSeq' = lastSeq /\ boots' = boots
        BY <1>2, <2>2 DEF Hear, command
      <3>2. times' = times
        BY <1>2, <3>1 DEF HNext, Executes
      <3> QED
        BY <3>1, <3>2 DEF TimesInv
    <2> QED
      BY <2>1, <2>2
  <1>3. ASSUME HNext, Reboot PROVE TimesInv'
    <2>1. pc' = "poll" /\ boots' # boots
      BY <1>3 DEF Reboot, UplinkInv, TypeOK
    <2>2. times' = None
      BY <1>3, <2>1 DEF HNext, Executes
    <2> QED
      BY <2>2 DEF TimesInv, None
  <1>4. ASSUME HNext, Store \/ Reload \/ Run \/ Acknowledge PROVE TimesInv'
    <2>1. pc # "poll" /\ boots' = boots
      BY <1>4 DEF Store, Reload, Run, Acknowledge
    <2>2. times' = times
      BY <1>4, <2>1 DEF HNext, Executes
    <2>3. seqn' = seqn
      BY <1>4 DEF Store, Reload, Run, Acknowledge, command
    <2>4. CASE Store
      BY <2>2, <2>3, <2>4 DEF Store, TimesInv
    <2>5. CASE Reload
      BY <2>2, <2>3, <2>5 DEF Reload, Number, Answer, TimesInv
    <2>6. CASE Run
      BY <2>2, <2>3, <2>6 DEF Run, Number, TimesInv
    <2>7. CASE Acknowledge
      BY <2>2, <2>3, <2>7 DEF Acknowledge, TimesInv
    <2> QED
      BY <1>4, <2>4, <2>5, <2>6, <2>7
  <1>5. ASSUME HNext, OtherSends \/ Compare \/ Arm \/ Disarm PROVE TimesInv'
    <2>1. pc' = pc /\ boots' = boots /\ seqn' = seqn /\ lastSeq' = lastSeq
      BY <1>5 DEF OtherSends, Compare, Arm, Disarm, command
    <2>2. times' = times
      BY <1>5, <2>1 DEF HNext, Executes
    <2> QED
      BY <2>1, <2>2 DEF TimesInv
  <1> QED
    BY <1>1, <1>2, <1>3, <1>4, <1>5 DEF HNext, Next

LEMMA OnceStep == UplinkInv /\ TimesInv /\ [HNext]_hvars => [Once!Next]_(Once!vars)
  <1> SUFFICES ASSUME UplinkInv, TimesInv, [HNext]_hvars
               PROVE  [Once!Next]_(Once!vars)
    OBVIOUS
  <1> USE UplinkConstants
  <1>1. CASE UNCHANGED hvars
    BY <1>1 DEF hvars, vars, Once!vars, Checking
  <1>2. CASE HNext
    <2>1. Checking' \in BOOLEAN
      BY DEF Checking
    <2>2. ASSUME NEW n \in 1..MaxSeq, Executes(n),
                 times' = [IF Checking THEN times ELSE None EXCEPT ![n] = @ + 1]
          PROVE  Once!Execute(n)
      <3>1. PICK k \in Keys, l \in Loads, m \in 1..MaxSeq : Hear(m, k, l)
        BY <1>2, <2>2 DEF HNext, Next, Executes, Store, Reload, Run, Acknowledge,
                          OtherSends, Compare, Arm, Disarm, Reboot
      <3>2. Passes(m, k) /\ m = n
        BY <2>2, <3>1 DEF Hear, Executes, command
      <3>3. value' = value
        BY <3>1 DEF Hear
      <3>4. Checking => \A i \in 1..MaxSeq : times[i] > 0 => i < n
        BY <2>2, <3>2 DEF Passes, TimesInv, Executes, UplinkInv, TypeOK
      <3> QED
        BY <2>2, <3>3, <3>4 DEF Once!Execute, Checking, Once!None, None
    <2>3. CASE \E n \in 1..MaxSeq :
                 Executes(n) /\ times' = [IF Checking THEN times ELSE None EXCEPT ![n] = @ + 1]
      BY <2>2, <2>3 DEF Once!Next
    <2>4. CASE times' = None
      BY <2>1, <2>4 DEF Once!Next, Once!Restart, Once!None, None
    <2>5. CASE times' = times
      BY <2>1, <2>5 DEF Once!Next, Once!Switch
    <2> QED
      BY <1>2, <2>3, <2>4, <2>5 DEF HNext
  <1> QED
    BY <1>1, <1>2

\* ExecutedOnce for every payload and every bound: the decoder implements CommandOnce.
THEOREM ImplementsOnce == HSpec => ExecutedOnce
  <1>1. HInit => UplinkInv /\ TimesInv /\ Once!Init
    BY InitInv DEF HInit, TimesInv, Once!Init, Once!None, None, Checking
  <1>2. UplinkInv /\ TimesInv /\ [HNext]_hvars => UplinkInv' /\ TimesInv'
    BY StepInv, TimesStep DEF HNext, hvars
  <1> QED
    BY <1>1, <1>2, OnceStep, PTL DEF HSpec, ExecutedOnce, Once!Spec
=============================================================================
