---------------------------- MODULE GroundProofs ----------------------------
(***************************************************************************)
(* Proofs about the server (WebIndex, WebHistory), the ground station      *)
(* with it (Ground, GroundHistory) and the map page (Viewer), for any      *)
(* names, scripts, courses and bounds.                                     *)
(***************************************************************************)
EXTENDS GroundHistory, WebHistory, Viewer, SequenceTheorems, FiniteSetTheorems,
        WellFoundedInduction, TLAPS

-----------------------------------------------------------------------------
(* The newest of a set of names.                                            *)

\* Of the sets of what is above an element of a finite set the smallest is empty.
LEMMA GreatestElement ==
  ASSUME NEW S, S \subseteq Nat, S # {}, IsFiniteSet(S)
  PROVE  \E x \in S : \A y \in S : y <= x
  <1> DEFINE Above(x) == {y \in S : x < y}
             U == {Above(x) : x \in S}
             R == StrictSubsetOrdering(S)
  <1>1. U \subseteq FiniteSubsetsOf(S) /\ U # {}
    <2>1. \A x \in S : Above(x) \in SUBSET S
      OBVIOUS
    <2>2. \A x \in S : IsFiniteSet(Above(x))
      BY <2>1, FS_Subset
    <2> HIDE DEF Above
    <2> QED
      BY <2>1, <2>2 DEF FiniteSubsetsOf
  <1> HIDE DEF R
  <1>2. PICK u \in U : \A v \in U : ~(<<v, u>> \in R)
    <2>1. IsWellFoundedOn(R, FiniteSubsetsOf(S))
      BY FS_StrictSubsetOrderingWellFounded DEF R
    <2> HIDE DEF U
    <2> QED
      BY <1>1, <2>1, WFMin
  <1>3. PICK x \in S : u = Above(x)
    BY <1>2
  <1>4. ASSUME NEW y \in S, ~(y <= x) PROVE FALSE
    <2> x < y /\ x \in Nat /\ y \in Nat
      BY <1>4
    <2>1. Above(y) \subseteq Above(x)
      <3>1. \A z \in S : y < z => x < z
        OBVIOUS
      <3> QED
        BY <3>1
    <2>2. y \in Above(x) /\ y \notin Above(y)
      OBVIOUS
    <2>3. Above(y) \in SUBSET S /\ Above(x) \in SUBSET S /\ Above(y) \in U
      OBVIOUS
    <2> HIDE DEF Above
    <2>4. <<Above(y), Above(x)>> \in R
      BY <2>1, <2>2, <2>3 DEF R, StrictSubsetOrdering
    <2> QED
      BY <1>2, <1>3, <2>3, <2>4
  <1> QED
    BY <1>4

\* What the loop over the names in last_message and in the downloader finds.
LEMMA NewestIsIn ==
  ASSUME NEW s, s \subseteq Names
  PROVE  Newest(s) \in Names \cup {0} /\ (s # {} => Newest(s) \in s)
  <1>1. CASE s = {}
    BY <1>1 DEF Newest
  <1>2. CASE s # {}
    <2>1. s \subseteq Nat /\ IsFiniteSet(s)
      BY WebConstants, FS_Subset
    <2>2. \E x \in s : \A y \in s : y <= x
      BY <1>2, <2>1, GreatestElement
    <2> QED
      BY <1>2, <2>2 DEF Newest
  <1> QED
    BY <1>1, <1>2

-----------------------------------------------------------------------------
(* The server: type correctness.                                            *)

Clearing == {"unlink", "look", "remove", "cleared"}
Updating == {"list", "index", "newest", "link", "cleared", "partial", "ok"}

\* A script that clears has no message; one that has yet to store one does.
RequestInv ==
  \A c \in Cgis :
    /\ pc[c] \in Clearing => req[c] = 0
    /\ pc[c] \in {"check", "move"} => req[c] # 0

ServerInv == WebTypeOK /\ RequestInv

LEMMA WebInitInv == WebInit => ServerInv
  <1> SUFFICES ASSUME WebInit PROVE ServerInv
    OBVIOUS
  <1>1. WebTypeOK
    BY WebConstants DEF WebInit, WebTypeOK, Label
  <1>2. RequestInv
    BY DEF WebInit, RequestInv, Clearing
  <1> QED
    BY <1>1, <1>2 DEF ServerInv

\* A step of one script leaves what RequestInv says of the others.
LEMMA OthersRequest ==
  ASSUME ServerInv, NEW c \in Cgis, NEW here, NEW there, At(c, here, there),
         \A d \in Cgis \ {c} : req'[d] = req[d],
         there \in Clearing => req'[c] = 0,
         there \in {"check", "move"} => req'[c] # 0
  PROVE  RequestInv'
  <1>1. \A d \in Cgis \ {c} : pc'[d] = pc[d]
    BY DEF ServerInv, WebTypeOK, At
  <1>2. pc'[c] = there
    BY DEF ServerInv, WebTypeOK, At
  <1> QED
    BY <1>1, <1>2 DEF ServerInv, RequestInv

LEMMA AddInv ==
  ASSUME ServerInv, NEW c \in Cgis, NEW n \in Names, Add(c, n)
  PROVE  ServerInv'
  <1>1. WebTypeOK'
    BY DEF ServerInv, WebTypeOK, Label, Add, At
  <1>2. RequestInv'
    <2>1. n # 0
      BY WebConstants
    <2>2. \A d \in Cgis \ {c} : req'[d] = req[d]
      BY DEF ServerInv, WebTypeOK, Add
    <2>3. req'[c] = n
      BY DEF ServerInv, WebTypeOK, Add
    <2> QED
      BY <2>1, <2>2, <2>3, OthersRequest DEF Add, Clearing
  <1> QED
    BY <1>1, <1>2 DEF ServerInv

LEMMA ClearStepInv ==
  ASSUME ServerInv, NEW c \in Cgis, Clear(c)
  PROVE  ServerInv'
  <1>1. WebTypeOK'
    BY DEF ServerInv, WebTypeOK, Label, Clear, At
  <1>2. RequestInv'
    <2>1. \A d \in Cgis \ {c} : req'[d] = req[d]
      BY DEF ServerInv, WebTypeOK, Clear
    <2>2. req'[c] = 0
      BY DEF ServerInv, WebTypeOK, Clear
    <2> QED
      BY <2>1, <2>2, OthersRequest DEF Clear, Clearing
  <1> QED
    BY <1>1, <1>2 DEF ServerInv

LEMMA WorksInv ==
  ASSUME ServerInv, NEW c \in Cgis, Works(c)
  PROVE  ServerInv'
  <1>0. req' = req
    BY DEF Works, Check, Move, MoveFails, Unlink, Look, Remove, List, Index, ListFails,
           FindNewest, Link, LinkFails, Stop, Cleared
  <1> USE DEF ServerInv
  <1>1. CASE Check(c)
    <2>1. WebTypeOK'
      BY <1>1 DEF WebTypeOK, Label, Check, At
    <2>2. req[c] # 0
      BY <1>1 DEF RequestInv, Check, At
    <2> QED
      BY <1>0, <1>1, <2>1, <2>2, OthersRequest DEF Check, Clearing
  <1>2. CASE Move(c)
    <2>1. req[c] # 0 /\ req[c] \in Names
      BY <1>2 DEF RequestInv, Move, At, WebTypeOK
    <2>2. WebTypeOK'
      BY <1>2, <2>1 DEF WebTypeOK, Label, Move, At
    <2> QED
      BY <1>0, <1>2, <2>2, OthersRequest DEF Move, Clearing
  <1>3. CASE MoveFails(c)
    <2>1. WebTypeOK'
      BY <1>3 DEF WebTypeOK, Label, MoveFails, At
    <2> QED
      BY <1>0, <1>3, <2>1, OthersRequest DEF MoveFails, Clearing
  <1>4. CASE Unlink(c) \/ Look(c) \/ Remove(c)
    <2>1. WebTypeOK'
      BY <1>4 DEF WebTypeOK, Label, Unlink, Look, Remove, At
    <2>2. req[c] = 0
      BY <1>4 DEF RequestInv, Clearing, Unlink, Look, Remove, At
    <2> QED
      BY <1>0, <1>4, <2>1, <2>2, OthersRequest DEF Unlink, Look, Remove, Clearing
  <1>5. CASE List(c) \/ Index(c)
    <2>1. WebTypeOK'
      BY <1>5 DEF WebTypeOK, Label, List, Index, At
    <2> QED
      BY <1>0, <1>5, <2>1, OthersRequest DEF List, Index, Clearing
  <1>6. CASE FindNewest(c)
    <2>1. Newest(stored) \in Names \cup {0}
      BY NewestIsIn DEF WebTypeOK
    <2>2. WebTypeOK'
      BY <1>6, <2>1 DEF WebTypeOK, Label, FindNewest, At, End
    <2> QED
      BY <1>0, <1>6, <2>2, OthersRequest DEF FindNewest, End, Clearing
  <1>7. CASE Link(c)
    <2>1. WebTypeOK'
      BY <1>7 DEF WebTypeOK, Label, Link, At, End
    <2> QED
      BY <1>0, <1>7, <2>1, OthersRequest DEF Link, End, Clearing
  <1>8. CASE Cleared(c)
    <2>1. WebTypeOK'
      BY <1>8 DEF WebTypeOK, Label, Cleared, At
    <2> QED
      BY <1>0, <1>8, <2>1, OthersRequest DEF Cleared, Clearing
  <1>9. ASSUME NEW here, Stop(c, here) PROVE ServerInv'
    <2>1. WebTypeOK'
      BY <1>9 DEF WebTypeOK, Label, Stop, At
    <2>2. req' = req
      BY <1>9 DEF Stop
    <2> QED
      BY <1>9, <2>1, <2>2, OthersRequest DEF Stop, Clearing
  <1> QED
    BY <1>1, <1>2, <1>3, <1>4, <1>5, <1>6, <1>7, <1>8, <1>9
    DEF Works, ListFails, LinkFails

LEMMA EndsInv ==
  ASSUME ServerInv, NEW c \in Cgis, Finish(c) \/ Die(c)
  PROVE  ServerInv'
  <1>1. WebTypeOK'
    <2>1. deaths' \in 0..MaxDeaths
      BY WebConstants DEF ServerInv, WebTypeOK, Finish, Die
    <2>2. pc' \in [Cgis -> Label]
      BY DEF ServerInv, WebTypeOK, Label, Finish, Die, At
    <2>3. (req \in [Cgis -> Names \cup {0}])' /\ (newest \in [Cgis -> Names \cup {0}])'
      BY DEF ServerInv, WebTypeOK, Finish, Die, Forget
    <2>4. (list \in [Cgis -> SUBSET Names])'
      BY DEF ServerInv, WebTypeOK, Finish, Die, Forget
    <2> QED
      BY <2>1, <2>2, <2>3, <2>4 DEF ServerInv, WebTypeOK, Finish, Die
  <1>2. RequestInv'
    <2>1. At(c, pc[c], "idle")
      BY DEF Finish, Die, At
    <2>2. \A d \in Cgis \ {c} : req'[d] = req[d]
      BY DEF ServerInv, WebTypeOK, Finish, Die, Forget
    <2> QED
      BY <2>1, <2>2, OthersRequest DEF Clearing
  <1> QED
    BY <1>1, <1>2 DEF ServerInv

LEMMA WebStepInv == ServerInv /\ [WebNext]_web => ServerInv'
  <1> SUFFICES ASSUME ServerInv, [WebNext]_web PROVE ServerInv'
    OBVIOUS
  <1>1. CASE WebNext
    <2>1. PICK c \in Cgis :
             (\E n \in Names : Add(c, n)) \/ Clear(c) \/ Works(c) \/ Finish(c) \/ Die(c)
      BY <1>1 DEF WebNext
    <2> QED
      BY <2>1, AddInv, ClearStepInv, WorksInv, EndsInv
  <1>2. CASE UNCHANGED web
    BY <1>2 DEF ServerInv, WebTypeOK, RequestInv, web, local
  <1> QED
    BY <1>1, <1>2

(* Every variable of the server keeps its type: whatever scripts run at the     *)
(* same time and are killed, the directory and the index list names only, and   *)
(* last_message is one or missing (add.cgi, clear.sh, upd_idx.sh).              *)
THEOREM WebTyped == WebSpec => []WebTypeOK
  <1>1. WebSpec => []ServerInv
    BY WebInitInv, WebStepInv, PTL DEF WebSpec
  <1> QED
    BY <1>1, PTL DEF ServerInv

-----------------------------------------------------------------------------
(* The server: a script that has the directory to itself.                   *)

\* Beside a script that has been alone no other runs.
AloneInv == \A c \in alone, d \in Cgis : d # c => pc[d] = "idle"

\* What a clear has done so far, with no other script beside it.
ClearsAlone(c) ==
  /\ pc[c] \in {"look", "remove"} => last = 0
  /\ pc[c] = "remove" => list[c] = stored

\* A script has changed the directory only when it comes to the update of the index.
FreshInv == \A c \in fresh : pc[c] \in Updating \cup {"idle"}

\* How far the update is that a script makes by itself after it changed the directory.
UpdatesAlone(c) ==
  pc[c] \in Updating =>
    /\ IF req[c] = 0 THEN stored = {} /\ last = 0 ELSE stored # {}
    /\ pc[c] = "index" => list[c] = stored
    /\ pc[c] \in {"newest", "link", "cleared", "ok"} => index = stored
    /\ pc[c] = "link" => newest[c] = Newest(stored)
    /\ pc[c] = "ok" => last = Newest(stored)

LoneInv ==
  /\ ServerInv
  /\ alone \subseteq Cgis /\ fresh \subseteq Cgis
  /\ AloneInv /\ FreshInv
  /\ \A c \in alone : ClearsAlone(c) /\ (c \in fresh => UpdatesAlone(c))

\* While a script runs no other can have been alone.
LEMMA OnlyOne ==
  ASSUME LoneInv, NEW c \in Cgis, pc[c] # "idle"
  PROVE  alone \subseteq {c}
  BY DEF LoneInv, AloneInv

\* What a step of a script that ran already, or ends, does to the history.
LEMMA Unbegun ==
  ASSUME LoneInv, NEW c \in Cgis, NEW here, NEW there, At(c, here, there),
         here # "idle", HNext
  PROVE  /\ pc'[c] = there
         /\ \A d \in Cgis \ {c} : pc'[d] = pc[d]
         /\ alone' = alone
         /\ fresh' = IF stored' # stored /\ here # there THEN fresh \cup {c} ELSE fresh
  <1> USE DEF LoneInv, ServerInv, WebTypeOK
  <1>1. pc'[c] = there /\ pc[c] = here
    BY DEF At
  <1>2. \A d \in Cgis \ {c} : pc'[d] = pc[d]
    BY DEF At
  <1>3. \A d \in Cgis : ~Began(d)
    BY <1>1, <1>2 DEF Began, Busy
  <1>4. alone' = alone
    BY <1>3 DEF HNext
  <1>5. fresh' = {d \in Cgis : d \in fresh \/ (stored' # stored /\ pc'[d] # pc[d])}
    BY <1>3 DEF HNext
  <1> QED
    BY <1>1, <1>2, <1>4, <1>5

LEMMA BeginsLone ==
  ASSUME LoneInv, NEW c \in Cgis, (\E n \in Names : Add(c, n)) \/ Clear(c), HNext
  PROVE  LoneInv'
  <1>1. ServerInv'
    BY WebStepInv DEF LoneInv, HNext
  <1>2. /\ pc[c] = "idle" /\ pc'[c] \in {"err", "check", "unlink"}
        /\ \A d \in Cgis \ {c} : pc'[d] = pc[d]
        /\ stored' = stored
    BY DEF LoneInv, ServerInv, WebTypeOK, Add, Clear, At
  <1>3. \A d \in Cgis : Began(d) <=> d = c
    BY <1>2 DEF Began, Busy
  <1>4. alone' \subseteq {c} /\ (alone' # {} => \A d \in Cgis : pc[d] = "idle")
    BY <1>3 DEF HNext, Busy
  <1>5. fresh' \subseteq fresh \ {c}
    BY <1>2, <1>3 DEF HNext
  <1>6. alone' \subseteq Cgis /\ fresh' \subseteq Cgis
    BY <1>4, <1>5 DEF LoneInv
  <1>7. AloneInv'
    BY <1>2, <1>4 DEF AloneInv
  <1>8. FreshInv'
    BY <1>2, <1>5 DEF LoneInv, FreshInv
  <1>9. \A d \in alone' : ClearsAlone(d)' /\ d \notin fresh'
    BY <1>2, <1>4, <1>5 DEF ClearsAlone
  <1> QED
    BY <1>1, <1>6, <1>7, <1>8, <1>9 DEF LoneInv

LEMMA EndsLone ==
  ASSUME LoneInv, NEW c \in Cgis, Finish(c) \/ Die(c), HNext
  PROVE  LoneInv'
  <1>1. ServerInv'
    BY WebStepInv DEF LoneInv, HNext
  <1>2. pc[c] # "idle" /\ At(c, pc[c], "idle") /\ stored' = stored
    BY DEF Finish, Die, At
  <1>3. /\ pc'[c] = "idle"
        /\ \A d \in Cgis \ {c} : pc'[d] = pc[d]
        /\ alone' = alone /\ fresh' = fresh
    BY <1>2, Unbegun
  <1>4. alone \subseteq {c}
    BY <1>2, OnlyOne
  <1>5. AloneInv' /\ FreshInv'
    BY <1>3 DEF LoneInv, AloneInv, FreshInv
  <1>6. \A d \in alone' : ClearsAlone(d)' /\ UpdatesAlone(d)'
    BY <1>3, <1>4 DEF ClearsAlone, UpdatesAlone, Updating
  <1> QED
    BY <1>1, <1>3, <1>5, <1>6 DEF LoneInv

\* A step within a script, from what it does to the script and to the directory.
LEMMA WorksLoneIf ==
  ASSUME LoneInv, NEW c \in Cgis, NEW here, NEW there, At(c, here, there), HNext,
         here # "idle",
         c \in fresh \/ (stored' # stored /\ here # there) => there \in Updating,
         c \in alone => ClearsAlone(c)',
         c \in alone /\ (c \in fresh \/ (stored' # stored /\ here # there))
           => UpdatesAlone(c)'
  PROVE  LoneInv'
  <1>1. ServerInv'
    BY WebStepInv DEF LoneInv, HNext
  <1>2. /\ pc'[c] = there
        /\ \A d \in Cgis \ {c} : pc'[d] = pc[d]
        /\ alone' = alone
        /\ fresh' = IF stored' # stored /\ here # there THEN fresh \cup {c} ELSE fresh
    BY Unbegun
  <1>3. alone \subseteq {c}
    BY OnlyOne DEF At
  <1>4. AloneInv'
    BY <1>2, <1>3 DEF LoneInv, AloneInv
  <1>5. FreshInv'
    BY <1>2 DEF LoneInv, FreshInv
  <1>6. \A d \in alone' : ClearsAlone(d)' /\ (d \in fresh' => UpdatesAlone(d)')
    BY <1>2, <1>3
  <1> QED
    BY <1>1, <1>2, <1>4, <1>5, <1>6 DEF LoneInv

LEMMA WorksLone ==
  ASSUME LoneInv, NEW c \in Cgis, Works(c), HNext
  PROVE  LoneInv'
  <1>0. pc \in [Cgis -> Label] /\ list \in [Cgis -> SUBSET Names]
        /\ newest \in [Cgis -> Names \cup {0}] /\ req' = req
    BY DEF LoneInv, ServerInv, WebTypeOK, Works, Check, Move, MoveFails, Unlink, Look,
           Remove, List, Index, ListFails, FindNewest, Link, LinkFails, Stop, Cleared
  <1>1. c \in fresh => pc[c] \in Updating \cup {"idle"}
    BY DEF LoneInv, FreshInv
  <1>2. c \in alone => ClearsAlone(c) /\ (c \in fresh => UpdatesAlone(c))
    BY DEF LoneInv
  <1>3. /\ pc[c] \in Clearing => req[c] = 0
        /\ pc[c] \in {"check", "move"} => req[c] # 0
    BY DEF LoneInv, ServerInv, RequestInv
  <1>4. CASE Check(c)
    <2>1. c \notin fresh /\ stored' = stored
      BY <1>1, <1>4 DEF Check, At, Updating
    <2>2. ClearsAlone(c)'
      BY <1>0, <1>4 DEF Check, At, ClearsAlone
    <2> QED
      BY <1>4, <2>1, <2>2, WorksLoneIf DEF Check
  <1>5. CASE Move(c)
    <2>1. c \notin fresh
      BY <1>1, <1>5 DEF Move, At, Updating
    <2>2. ClearsAlone(c)'
      BY <1>0, <1>5 DEF Move, At, ClearsAlone
    <2>3. UpdatesAlone(c)'
      BY <1>0, <1>3, <1>5 DEF Move, At, UpdatesAlone
    <2> QED
      BY <1>5, <2>1, <2>2, <2>3, WorksLoneIf DEF Move, Updating
  <1>6. CASE MoveFails(c)
    <2>1. c \notin fresh /\ stored' = stored
      BY <1>1, <1>6 DEF MoveFails, At, Updating
    <2>2. ClearsAlone(c)'
      BY <1>0, <1>6 DEF MoveFails, At, ClearsAlone
    <2> QED
      BY <1>6, <2>1, <2>2, WorksLoneIf DEF MoveFails
  <1>7. CASE Unlink(c)
    <2>1. c \notin fresh /\ stored' = stored
      BY <1>1, <1>7 DEF Unlink, At, Updating
    <2>2. ClearsAlone(c)'
      BY <1>0, <1>7 DEF Unlink, At, ClearsAlone
    <2> QED
      BY <1>7, <2>1, <2>2, WorksLoneIf DEF Unlink
  <1>8. CASE Look(c)
    <2>1. c \notin fresh /\ stored' = stored
      BY <1>1, <1>8 DEF Look, At, Updating
    <2>2. c \in alone => ClearsAlone(c)'
      BY <1>0, <1>2, <1>8 DEF Look, At, ClearsAlone
    <2> QED
      BY <1>8, <2>1, <2>2, WorksLoneIf DEF Look
  <1>9. CASE Remove(c)
    <2>1. c \notin fresh
      BY <1>1, <1>9 DEF Remove, At, Updating
    <2>2. ClearsAlone(c)'
      BY <1>0, <1>9 DEF Remove, At, ClearsAlone
    <2>3. c \in alone => UpdatesAlone(c)'
      BY <1>0, <1>2, <1>3, <1>9 DEF Remove, At, ClearsAlone, UpdatesAlone, Clearing
    <2> QED
      BY <1>9, <2>1, <2>2, <2>3, WorksLoneIf DEF Remove, Updating
  <1>10. CASE List(c)
    <2>1. stored' = stored /\ ClearsAlone(c)'
      BY <1>0, <1>10 DEF List, At, ClearsAlone
    <2>2. c \in alone /\ c \in fresh => UpdatesAlone(c)'
      BY <1>0, <1>2, <1>10 DEF List, At, UpdatesAlone, Updating
    <2> QED
      BY <1>10, <2>1, <2>2, WorksLoneIf DEF List, Updating
  <1>11. CASE Index(c)
    <2>1. stored' = stored /\ ClearsAlone(c)'
      BY <1>0, <1>11 DEF Index, At, ClearsAlone
    <2>2. c \in alone /\ c \in fresh => UpdatesAlone(c)'
      BY <1>0, <1>2, <1>11 DEF Index, At, UpdatesAlone, Updating
    <2> QED
      BY <1>11, <2>1, <2>2, WorksLoneIf DEF Index, Updating
  <1>12. CASE FindNewest(c)
    <2>1. stored' = stored /\ ClearsAlone(c)'
      BY <1>0, <1>12 DEF FindNewest, End, At, ClearsAlone
    <2>2. c \in alone /\ c \in fresh => UpdatesAlone(c)'
      BY <1>0, <1>2, <1>12 DEF FindNewest, End, At, UpdatesAlone, Updating
    <2> QED
      BY <1>12, <2>1, <2>2, WorksLoneIf DEF FindNewest, End, Updating
  <1>13. CASE Link(c)
    <2>1. stored' = stored /\ ClearsAlone(c)'
      BY <1>0, <1>13 DEF Link, End, At, ClearsAlone
    <2>2. c \in alone /\ c \in fresh => UpdatesAlone(c)'
      <3>1. stored = {} => Newest(stored) = 0
        BY DEF Newest
      <3> QED
        BY <1>0, <1>2, <1>13, <3>1 DEF Link, End, At, UpdatesAlone, Updating
    <2> QED
      BY <1>13, <2>1, <2>2, WorksLoneIf DEF Link, End, Updating
  <1>14. CASE Cleared(c)
    <2>1. stored' = stored /\ ClearsAlone(c)'
      BY <1>0, <1>14 DEF Cleared, At, ClearsAlone
    <2>2. c \in alone /\ c \in fresh => UpdatesAlone(c)'
      BY <1>0, <1>2, <1>3, <1>14 DEF Cleared, At, UpdatesAlone, Updating, Clearing, Newest
    <2> QED
      BY <1>14, <2>1, <2>2, WorksLoneIf DEF Cleared, Updating
  <1>15. ASSUME NEW here \in {"list", "index", "link"}, Stop(c, here) PROVE LoneInv'
    <2>1. stored' = stored /\ ClearsAlone(c)'
      BY <1>0, <1>15 DEF Stop, At, ClearsAlone
    <2>2. c \in alone /\ c \in fresh => UpdatesAlone(c)'
      BY <1>0, <1>2, <1>15 DEF Stop, At, UpdatesAlone, Updating
    <2> QED
      BY <1>15, <2>1, <2>2, WorksLoneIf DEF Stop, Updating
  <1> QED
    BY <1>4, <1>5, <1>6, <1>7, <1>8, <1>9, <1>10, <1>11, <1>12, <1>13, <1>14, <1>15
    DEF Works, ListFails, LinkFails

LEMMA LoneInitInv == HInit => LoneInv
  BY WebInitInv DEF HInit, LoneInv, AloneInv, FreshInv

LEMMA LoneStepInv == LoneInv /\ [HNext]_wvars => LoneInv'
  <1> SUFFICES ASSUME LoneInv, [HNext]_wvars PROVE LoneInv'
    OBVIOUS
  <1>1. CASE HNext
    <2>1. PICK c \in Cgis :
             (\E n \in Names : Add(c, n)) \/ Clear(c) \/ Works(c) \/ Finish(c) \/ Die(c)
      BY <1>1 DEF HNext, WebNext
    <2> QED
      BY <1>1, <2>1, BeginsLone, EndsLone, WorksLone
  <1>2. CASE UNCHANGED wvars
    <2>1. ServerInv'
      BY <1>2, WebStepInv DEF LoneInv, wvars
    <2> QED
      BY <1>2, <2>1
      DEF LoneInv, AloneInv, FreshInv, ClearsAlone, UpdatesAlone, wvars, web, local
  <1> QED
    BY <1>1, <1>2

(* However scripts overlapped, were killed or failed to write before, the next  *)
(* one that changes the directory with no other beside it, and whose upd_idx.sh *)
(* comes to the end, leaves an index of what is there and the newest of it in   *)
(* last_message (add.cgi, clear.sh, upd_idx.sh).                                *)
THEOREM LoneAlwaysRepairs == HSpec => []LoneUpdate
  <1>1. HSpec => []LoneInv
    BY LoneInitInv, LoneStepInv, PTL DEF HSpec
  <1>2. LoneInv => LoneUpdate
    BY DEF LoneInv, UpdatesAlone, Updating, LoneUpdate
  <1> QED
    BY <1>1, <1>2, PTL

-----------------------------------------------------------------------------
(* The station and the server: type correctness.                            *)

StationTyped ==
  /\ files \subseteq Names /\ unsent \subseteq Names /\ errs \subseteq Names
  /\ mine \subseteq Names
  /\ crashes \in 0..MaxCrashes /\ restores \in 0..MaxRestores

RepeaterTyped ==
  /\ rpc \in {"idle", "write", "mark", "list", "index"}
  /\ rname \in Names \cup {0} /\ rlist \subseteq Names
  /\ rpc \in {"write", "mark"} => rname # 0

UploaderTyped ==
  /\ upc \in {"idle", "next", "wait", "accepted", "refused"}
  /\ utodo \subseteq Names /\ uname \in Names \cup {0}
  /\ ucgi \in Cgis
  /\ upc \in {"wait", "accepted", "refused"} => uname # 0

DownloaderTyped ==
  /\ dpc \in {"idle", "web", "get", "list", "index"}
  /\ dknown \subseteq Names /\ dtodo \subseteq Names /\ dlist \subseteq Names
  /\ dpc = "get" => dtodo # {}

\* GroundTypeOK, and that a process has a message where it needs one.
GroundInv ==
  ServerInv /\ StationTyped /\ RepeaterTyped /\ UploaderTyped /\ DownloaderTyped

LEMMA GroundInitInv == GroundInit => GroundInv
  BY WebInitInv, GroundConstants
  DEF GroundInit, GroundInv, StationTyped, RepeaterTyped, UploaderTyped, DownloaderTyped

\* The server that a step of the station leaves alone, or that it asks, is that of
\* WebIndex.
LEMMA ServerStep ==
  ASSUME GroundInv, [GroundNext]_groundVars
  PROVE  [WebNext]_web
  <1>1. ASSUME NEW c \in Cgis, Serve(c) \/ Die(c) PROVE WebNext
    BY <1>1 DEF Serve, WebNext
  <1>2. CASE Send
    <2>1. Newest(utodo) \in Names
      BY <1>2, NewestIsIn DEF Send, GroundInv, UploaderTyped
    <2> QED
      BY <1>2, <2>1 DEF Send, WebNext
  <1>3. CASE Answer
    BY <1>3 DEF Answer, WebNext, GroundInv, UploaderTyped
  <1>4. CASE Repeat \/ Download \/ ReadWeb \/ Get \/ GetFails \/ Restore \/ Crash
             \/ Unknown \/ Timeout
    BY <1>4 DEF Repeat, WriteMessage, MarkUnsent, ListMine, IndexMine, Download, ReadMine,
                ListGot, IndexGot, ReadWeb, Get, GetFails, Restore, Crash, Unknown, Timeout
  <1>5. CASE StartUpload \/ Accepted \/ Refused \/ EndUpload
    BY <1>5 DEF StartUpload, Accepted, Refused, EndUpload
  <1>6. ASSUME NEW n \in Names, Hear(n) PROVE UNCHANGED web
    BY <1>6 DEF Hear
  <1>7. CASE UNCHANGED groundVars
    BY <1>7 DEF groundVars
  <1> QED
    BY <1>1, <1>2, <1>3, <1>4, <1>5, <1>6, <1>7 DEF GroundNext, Upload

LEMMA RepeaterInv ==
  ASSUME GroundInv, Repeat \/ \E n \in Names : Hear(n)
  PROVE  StationTyped' /\ RepeaterTyped' /\ UploaderTyped' /\ DownloaderTyped'
  <1> USE DEF GroundInv, StationTyped, RepeaterTyped
  <1>1. UNCHANGED <<uploader, downloader, crashes, restores>>
    BY DEF Repeat, Hear, WriteMessage, MarkUnsent, ListMine, IndexMine
  <1>2. UploaderTyped' /\ DownloaderTyped'
    BY <1>1 DEF UploaderTyped, DownloaderTyped, uploader, downloader
  <1>3. CASE \E n \in Names : Hear(n)
    BY <1>1, <1>2, <1>3, WebConstants DEF Hear
  <1>4. CASE WriteMessage
    BY <1>1, <1>2, <1>4 DEF WriteMessage
  <1>5. CASE MarkUnsent
    BY <1>1, <1>2, <1>5 DEF MarkUnsent
  <1>6. CASE ListMine
    BY <1>1, <1>2, <1>6 DEF ListMine
  <1>7. CASE IndexMine
    BY <1>1, <1>2, <1>7 DEF IndexMine
  <1> QED
    BY <1>3, <1>4, <1>5, <1>6, <1>7 DEF Repeat

LEMMA UploaderInv ==
  ASSUME GroundInv, Upload \/ Answer \/ Unknown \/ Timeout
  PROVE  StationTyped' /\ RepeaterTyped' /\ UploaderTyped' /\ DownloaderTyped'
  <1> USE DEF GroundInv, StationTyped, UploaderTyped
  <1>1. UNCHANGED <<files, mine, repeater, downloader, crashes, restores>>
    BY DEF Upload, StartUpload, Send, Accepted, Refused, EndUpload, Answer, Unknown,
           Timeout
  <1>2. RepeaterTyped' /\ DownloaderTyped'
    BY <1>1 DEF RepeaterTyped, DownloaderTyped, repeater, downloader
  <1>3. CASE StartUpload \/ EndUpload \/ Unknown \/ Timeout
    BY <1>1, <1>2, <1>3 DEF StartUpload, EndUpload, Unknown, Timeout
  <1>4. CASE Send
    <2>1. Newest(utodo) \in Names /\ Newest(utodo) # 0
      BY <1>4, NewestIsIn, WebConstants DEF Send
    <2> QED
      BY <1>1, <1>2, <1>4, <2>1 DEF Send
  <1>5. CASE Answer
    BY <1>1, <1>2, <1>5 DEF Answer
  <1>6. CASE Accepted
    BY <1>1, <1>2, <1>6 DEF Accepted
  <1>7. CASE Refused
    BY <1>1, <1>2, <1>7 DEF Refused
  <1> QED
    BY <1>3, <1>4, <1>5, <1>6, <1>7 DEF Upload

LEMMA DownloaderInv ==
  ASSUME GroundInv, Download \/ ReadWeb \/ Get \/ GetFails
  PROVE  StationTyped' /\ RepeaterTyped' /\ UploaderTyped' /\ DownloaderTyped'
  <1> USE DEF GroundInv, StationTyped, DownloaderTyped
  <1>1. UNCHANGED <<unsent, errs, repeater, uploader, crashes, restores>>
    BY DEF Download, ReadMine, ListGot, IndexGot, ReadWeb, Get, GetFails
  <1>2. RepeaterTyped' /\ UploaderTyped'
    BY <1>1 DEF RepeaterTyped, UploaderTyped, repeater, uploader
  <1>3. CASE Download
    BY <1>1, <1>2, <1>3 DEF Download, ReadMine, ListGot, IndexGot
  <1>4. CASE ReadWeb
    <2>1. index \subseteq Names
      BY DEF ServerInv, WebTypeOK
    <2> QED
      BY <1>1, <1>2, <1>4, <2>1 DEF ReadWeb
  <1>5. CASE Get
    <2>1. Newest(dtodo) \in Names
      BY <1>5, NewestIsIn DEF Get
    <2> QED
      BY <1>1, <1>2, <1>5, <2>1 DEF Get
  <1>6. CASE GetFails
    BY <1>1, <1>2, <1>6 DEF GetFails
  <1> QED
    BY <1>3, <1>4, <1>5, <1>6

LEMMA GroundStepInv == GroundInv /\ [GroundNext]_groundVars => GroundInv'
  <1> SUFFICES ASSUME GroundInv, [GroundNext]_groundVars PROVE GroundInv'
    OBVIOUS
  <1> USE DEF StationTyped, RepeaterTyped, UploaderTyped, DownloaderTyped
  <1>1. ServerInv'
    BY ServerStep, WebStepInv DEF GroundInv
  <1>2. CASE Restore
    BY <1>1, <1>2, GroundConstants DEF GroundInv, Restore, repeater, uploader, downloader
  <1>3. CASE Crash
    BY <1>1, <1>3, GroundConstants DEF GroundInv, Crash
  <1>4. CASE UNCHANGED station
    BY <1>1, <1>4 DEF GroundInv, station, repeater, uploader, downloader
  <1>5. ASSUME NEW c \in Cgis, Serve(c) PROVE UNCHANGED station
    BY <1>5 DEF Serve
  <1>6. CASE UNCHANGED groundVars
    BY <1>4, <1>6 DEF groundVars
  <1> HIDE DEF StationTyped, RepeaterTyped, UploaderTyped, DownloaderTyped
  <1> QED
    BY <1>1, <1>2, <1>3, <1>4, <1>5, <1>6, RepeaterInv, UploaderInv, DownloaderInv
    DEF GroundNext, GroundInv

LEMMA GroundInvImplies == GroundInv => GroundTypeOK
  BY DEF GroundInv, ServerInv, StationTyped, RepeaterTyped, UploaderTyped,
         DownloaderTyped, GroundTypeOK

(* Every variable of the station and the server keeps its type: no process goes *)
(* on with a message it does not have, also after a crash or a timeout          *)
(* (repeater.py, uploader.py, downloader.py, restore.py).                       *)
THEOREM GroundTyped == GSpec => []GroundTypeOK
  <1>1. GInit => GroundInv
    BY GroundInitInv DEF GInit
  <1>2. GroundInv /\ [GNext]_gvars => GroundInv'
    BY GroundStepInv DEF GNext, gvars
  <1>3. GSpec => []GroundInv
    BY <1>1, <1>2, PTL DEF GSpec
  <1> QED
    BY <1>3, GroundInvImplies, PTL

(* The server beside the station is the one that WebIndex describes: whatever   *)
(* the station does, asks for, forgets or crashes in, its scripts take only the *)
(* steps of their own (uploader.py, downloader.py).                             *)
THEOREM ServerKeepsToWebIndex == GroundSpec => WebSpec
  <1>1. GroundInit => WebInit
    BY DEF GroundInit
  <1>2. GroundInv /\ [GroundNext]_groundVars => [WebNext]_web
    BY ServerStep
  <1>3. GroundSpec => []GroundInv
    BY GroundInitInv, GroundStepInv, PTL DEF GroundSpec
  <1> QED
    BY <1>1, <1>2, <1>3, PTL DEF GroundSpec, WebSpec

-----------------------------------------------------------------------------
(* The station and the server: no message is lost.                          *)

\* A script that adds a message has stored it when it comes to the index, if it can
\* be written; none clears.
StoredInv ==
  \A c \in Cgis :
    /\ pc[c] \notin Clearing
    /\ pc[c] # "idle" => req[c] # 0
    /\ pc[c] \in Updating => req[c] \in stored

\* The script that serves the uploader has the message the uploader waits for.
ServedInv ==
  /\ upc = "wait" /\ pc[ucgi] # "idle" => req[ucgi] = uname
  /\ upc = "accepted" => uname \in stored

AccountInv == GroundInv /\ StoredInv /\ ServedInv /\ Accounted

\* StoredInv from what a step of one script does.
LEMMA StoredIf ==
  ASSUME GroundInv, StoredInv, stored \subseteq stored', NEW c \in Cgis,
         NEW here, NEW there, At(c, here, there), there \notin Clearing,
         \A d \in Cgis \ {c} : req'[d] = req[d],
         there # "idle" => req'[c] # 0,
         there \in Updating => req'[c] \in stored'
  PROVE  StoredInv'
  <1>1. pc'[c] = there /\ \A d \in Cgis \ {c} : pc'[d] = pc[d]
    BY DEF GroundInv, ServerInv, WebTypeOK, At
  <1> QED
    BY <1>1 DEF StoredInv

LEMMA ServeStored ==
  ASSUME GroundInv, StoredInv, ~MayFail, NEW c \in Cgis, Works(c)
  PROVE  /\ StoredInv'
         /\ stored \subseteq stored'
         /\ req' = req /\ pc[c] # "idle"
         /\ \A d \in Cgis \ {c} : pc'[d] = pc[d]
  <1>1. req' = req
    BY DEF Works, Check, Move, MoveFails, Unlink, Look, Remove, List, Index, ListFails,
           FindNewest, Link, LinkFails, Stop, Cleared
  <1>2. /\ pc[c] \notin Clearing
        /\ pc[c] # "idle" => req[c] # 0
        /\ pc[c] \in Updating => req[c] \in stored
    BY DEF StoredInv
  <1>3. \A there : At(c, pc[c], there) => \A d \in Cgis \ {c} : pc'[d] = pc[d]
    BY DEF GroundInv, ServerInv, WebTypeOK, At
  <1>4. ~(Unlink(c) \/ Look(c) \/ Remove(c) \/ Cleared(c) \/ MoveFails(c)
          \/ ListFails(c) \/ LinkFails(c))
    BY <1>2 DEF Unlink, Look, Remove, Cleared, MoveFails, ListFails, LinkFails, Stop, At,
                Clearing
  <1>5. CASE Check(c)
    <2>1. At(c, "check", IF req[c] \in stored THEN "ok" ELSE "move") /\ stored' = stored
      BY <1>5 DEF Check
    <2>2. pc[c] = "check"
      BY <2>1 DEF At
    <2> QED
      BY <1>1, <1>2, <1>3, <2>1, <2>2, StoredIf DEF Clearing, Updating
  <1>6. CASE Move(c)
    <2>1. At(c, "move", "list") /\ stored' = stored \cup {req[c]}
      BY <1>6 DEF Move
    <2>2. pc[c] = "move"
      BY <2>1 DEF At
    <2> QED
      BY <1>1, <1>2, <1>3, <2>1, <2>2, StoredIf DEF Clearing, Updating
  <1>7. CASE List(c) \/ Index(c) \/ FindNewest(c) \/ Link(c)
    <2>1. PICK there : /\ At(c, pc[c], there) /\ stored' = stored
                       /\ pc[c] \in Updating \ Clearing
                       /\ there \in Updating \ Clearing
      <3>1. req[c] # 0
        BY <1>2, <1>7 DEF List, Index, FindNewest, Link, At
      <3> QED
        BY <1>7, <3>1 DEF List, Index, FindNewest, Link, At, End, Clearing, Updating
    <2>2. pc[c] # "idle"
      BY <2>1 DEF Updating
    <2> QED
      BY <1>1, <1>2, <1>3, <2>1, <2>2, StoredIf
  <1> QED
    BY <1>4, <1>5, <1>6, <1>7 DEF Works

LEMMA EndStored ==
  ASSUME GroundInv, StoredInv, NEW c \in Cgis, Finish(c) \/ Die(c)
  PROVE  /\ StoredInv' /\ stored' = stored
         /\ pc'[c] = "idle"
         /\ \A d \in Cgis \ {c} : pc'[d] = pc[d] /\ req'[d] = req[d]
  <1>1. At(c, pc[c], "idle") /\ stored' = stored
    BY DEF Finish, Die, At
  <1>2. \A d \in Cgis \ {c} : pc'[d] = pc[d] /\ req'[d] = req[d]
    BY DEF GroundInv, ServerInv, WebTypeOK, Finish, Die, Forget, At
  <1>3. pc'[c] = "idle"
    BY <1>1 DEF GroundInv, ServerInv, WebTypeOK, At
  <1> QED
    BY <1>1, <1>2, <1>3, StoredIf DEF Clearing, Updating

\* Accounted from what a step does to the directories.
LEMMA AccountIf ==
  ASSUME AccountInv, GNext, StoredInv', ServedInv',
         errs \subseteq errs', stored \subseteq stored',
         unsent \subseteq unsent' \cup errs' \cup stored'
  PROVE  AccountInv'
  <1>1. GroundInv'
    BY GroundStepInv DEF AccountInv, GNext
  <1>2. Accounted'
    BY DEF AccountInv, Accounted, GNext
  <1> QED
    BY <1>1, <1>2 DEF AccountInv

LEMMA AccountServe ==
  ASSUME AccountInv, GNext, ~MayFail,
         NEW c \in Cgis, Serve(c) \/ (Die(c) /\ UNCHANGED station)
  PROVE  AccountInv'
  <1>1. UNCHANGED <<unsent, errs, upc, uname, ucgi>>
    BY DEF Serve, station, uploader
  <1>2. Works(c) \/ Finish(c) \/ Die(c)
    BY DEF Serve
  <1>3. StoredInv' /\ stored \subseteq stored'
    BY <1>2, ServeStored, EndStored DEF AccountInv
  <1>4. \A d \in Cgis : pc'[d] # "idle" => pc[d] # "idle" /\ req'[d] = req[d]
    BY <1>2, ServeStored, EndStored DEF AccountInv
  <1>5. ucgi \in Cgis
    BY DEF AccountInv, GroundInv, UploaderTyped
  <1>6. ServedInv'
    BY <1>1, <1>3, <1>4, <1>5 DEF AccountInv, ServedInv
  <1> QED
    BY <1>1, <1>3, <1>6, AccountIf

LEMMA AccountSend ==
  ASSUME AccountInv, GNext, Send
  PROVE  AccountInv'
  <1> DEFINE n == Newest(utodo)
  <1>1. n # 0
    BY NewestIsIn, WebConstants DEF Send, AccountInv, GroundInv, UploaderTyped
  <1>2. PICK c \in Cgis : Add(c, n) /\ ucgi' = c
    BY DEF Send
  <1>3. UNCHANGED <<unsent, errs, stored>> /\ upc' = "wait" /\ uname' = n
    BY <1>2 DEF Send, Add
  <1>4. req'[c] = n /\ \A d \in Cgis \ {c} : req'[d] = req[d]
    BY <1>2 DEF Add, AccountInv, GroundInv, ServerInv, WebTypeOK
  <1>5. StoredInv'
    BY <1>1, <1>2, <1>3, <1>4, StoredIf DEF Add, AccountInv, Clearing, Updating
  <1>6. ServedInv'
    BY <1>2, <1>3, <1>4 DEF ServedInv
  <1> QED
    BY <1>3, <1>5, <1>6, AccountIf

LEMMA AccountAnswer ==
  ASSUME AccountInv, GNext, Answer
  PROVE  AccountInv'
  <1>1. ucgi \in Cgis /\ Finish(ucgi)
    BY DEF Answer, AccountInv, GroundInv, UploaderTyped
  <1>2. StoredInv' /\ stored' = stored
    BY <1>1, EndStored DEF AccountInv
  <1>3. /\ UNCHANGED <<unsent, errs, uname>> /\ upc' # "wait"
        /\ upc' = "accepted" => pc[ucgi] \in {"ok", "partial"}
    BY DEF Answer
  <1>4. pc[ucgi] \in {"ok", "partial"} => uname \in stored
    BY <1>1 DEF Answer, AccountInv, ServedInv, StoredInv, Updating
  <1>5. ServedInv'
    BY <1>2, <1>3, <1>4 DEF ServedInv
  <1> QED
    BY <1>2, <1>3, <1>5, AccountIf

\* A step that leaves the server alone, with what it does to the marks.
LEMMA AccountAside ==
  ASSUME AccountInv, GNext, UNCHANGED web,
         upc' = "wait" => UNCHANGED <<upc, uname, ucgi>>,
         upc' = "accepted" => UNCHANGED <<upc, uname>>,
         errs \subseteq errs', unsent \subseteq unsent' \cup errs' \cup stored
  PROVE  AccountInv'
  <1>1. StoredInv'
    BY DEF AccountInv, StoredInv, web, local
  <1>2. ServedInv'
    BY DEF AccountInv, ServedInv, web, local
  <1> QED
    BY <1>1, <1>2, AccountIf DEF web

LEMMA AccountStep ==
  ASSUME AccountInv, [GNext]_gvars, ~MayFail
  PROVE  AccountInv'
  <1>1. CASE UNCHANGED gvars
    <2>1. GroundInv'
      BY <1>1, GroundStepInv DEF AccountInv, gvars
    <2> QED
      BY <1>1, <2>1 DEF AccountInv, StoredInv, ServedInv, Accounted, gvars, groundVars,
                        station, uploader, web, local
  <1>2. CASE GNext
    <2>1. ASSUME NEW n \in Names, Hear(n) PROVE AccountInv'
      BY <1>2, <2>1, AccountAside DEF Hear, uploader
    <2>2. CASE Repeat
      BY <1>2, <2>2, AccountAside
      DEF Repeat, WriteMessage, MarkUnsent, ListMine, IndexMine, uploader
    <2>3. CASE Download \/ ReadWeb \/ Get \/ GetFails
      BY <1>2, <2>3, AccountAside
      DEF Download, ReadMine, ListGot, IndexGot, ReadWeb, Get, GetFails, uploader
    <2>4. CASE StartUpload \/ EndUpload \/ Unknown \/ Timeout
      BY <1>2, <2>4, AccountAside DEF StartUpload, EndUpload, Unknown, Timeout
    <2>5. CASE Accepted
      <3>1. uname \in stored
        BY <2>5 DEF Accepted, AccountInv, ServedInv
      <3> QED
        BY <1>2, <2>5, <3>1, AccountAside DEF Accepted
    <2>6. CASE Refused
      BY <1>2, <2>6, AccountAside DEF Refused
    <2>7. CASE Restore \/ Crash
      BY <1>2, <2>7, AccountAside DEF Restore, Crash, uploader
    <2>8. CASE Send
      BY <1>2, <2>8, AccountSend
    <2>9. CASE Answer
      BY <1>2, <2>9, AccountAnswer
    <2>10. ASSUME NEW c \in Cgis, Serve(c) \/ (Die(c) /\ UNCHANGED station)
           PROVE  AccountInv'
      BY <1>2, <2>10, AccountServe
    <2> QED
      BY <1>2, <2>1, <2>2, <2>3, <2>4, <2>5, <2>6, <2>7, <2>8, <2>9, <2>10
      DEF GNext, GroundNext, Upload
  <1> QED
    BY <1>1, <1>2

(* A message the repeater has marked is never lost, for any number of crashes,  *)
(* restores, killed scripts and late answers, as long as the server can write   *)
(* what it says it has stored (repeater.py, uploader.py, restore.py, add.cgi).  *)
THEOREM AlwaysAccounted ==
  ASSUME ~MayFail
  PROVE  GSpec => []Accounted
  <1>1. GInit => AccountInv
    BY GroundInitInv
    DEF GInit, GroundInit, WebInit, AccountInv, StoredInv, ServedInv, Accounted, Clearing,
        Updating
  <1>2. AccountInv /\ [GNext]_gvars => AccountInv'
    BY AccountStep
  <1>3. AccountInv => Accounted
    BY DEF AccountInv
  <1> QED
    BY <1>1, <1>2, <1>3, PTL DEF GSpec

-----------------------------------------------------------------------------
(* The page: what addSorted() does to a table.                              *)

Place(seq, m) == Cardinality({j \in 1..Len(seq) : seq[j] < m})

Sorted(seq) == \A i, j \in 1..Len(seq) : i < j => seq[i] < seq[j]

LEMMA PlaceInside ==
  ASSUME NEW S, NEW seq \in Seq(S), NEW m
  PROVE  Place(seq, m) \in 0..Len(seq)
  <1> DEFINE J == {j \in 1..Len(seq) : seq[j] < m}
  <1>1. Len(seq) \in Nat
    OBVIOUS
  <1>2. IsFiniteSet(1..Len(seq)) /\ Cardinality(1..Len(seq)) = Len(seq)
    BY <1>1, FS_Interval
  <1>3. J \in SUBSET (1..Len(seq))
    OBVIOUS
  <1> HIDE DEF J
  <1>4. IsFiniteSet(J) /\ Cardinality(J) <= Len(seq)
    BY <1>2, <1>3, FS_Subset
  <1>5. Cardinality(J) \in Nat
    BY <1>4, FS_CardinalityType
  <1> QED
    BY <1>1, <1>4, <1>5 DEF J, Place

\* The table after the insertion: its rows move to make room for the new one.
LEMMA AddedShape ==
  ASSUME NEW S, NEW seq \in Seq(S), NEW m \in S
  PROVE  /\ Added(seq, m) \in Seq(S)
         /\ Len(Added(seq, m)) = Len(seq) + 1
         /\ \A k \in 1..Len(seq) + 1 :
              Added(seq, m)[k] = IF k <= Place(seq, m) THEN seq[k]
                                 ELSE IF k = Place(seq, m) + 1 THEN m ELSE seq[k - 1]
  <1> DEFINE p == Place(seq, m)
             front == SubSeq(seq, 1, p)
             back == SubSeq(seq, p + 1, Len(seq))
  <1>1. p \in 0..Len(seq) /\ Len(seq) \in Nat
    BY PlaceInside
  <1> HIDE DEF p
  <1>2. /\ front \in Seq(S) /\ Len(front) = p
        /\ \A k \in 1..p : front[k] = seq[k]
    BY <1>1, SubSeqProperties
  <1>3. /\ back \in Seq(S) /\ Len(back) = Len(seq) - p
        /\ \A k \in 1..Len(seq) - p : back[k] = seq[p + k]
    BY <1>1, SubSeqProperties
  <1> HIDE DEF front, back
  <1>4. <<m>> \in Seq(S) /\ Len(<<m>>) = 1 /\ <<m>>[1] = m
    OBVIOUS
  <1>5. /\ front \o <<m>> \in Seq(S) /\ Len(front \o <<m>>) = p + 1
        /\ \A k \in 1..p + 1 : (front \o <<m>>)[k] = IF k <= p THEN seq[k] ELSE m
    BY <1>1, <1>2, <1>4, ConcatProperties
  <1> DEFINE init == front \o <<m>>
  <1> HIDE DEF init
  <1>6. /\ init \in Seq(S) /\ Len(init) = p + 1
        /\ \A k \in 1..p + 1 : init[k] = IF k <= p THEN seq[k] ELSE m
    BY <1>5 DEF init
  <1>7. /\ init \o back \in Seq(S) /\ Len(init \o back) = Len(seq) + 1
        /\ \A k \in 1..Len(seq) + 1 :
             (init \o back)[k] = IF k <= p + 1 THEN init[k] ELSE back[k - (p + 1)]
    BY <1>1, <1>3, <1>6, ConcatProperties
  <1>8. Added(seq, m) = init \o back
    BY DEF Added, init, front, back, p, Place
  <1>9. ASSUME NEW k \in 1..Len(seq) + 1
        PROVE  Added(seq, m)[k] = IF k <= p THEN seq[k] ELSE IF k = p + 1 THEN m ELSE seq[k - 1]
    <2>1. CASE k <= p + 1
      BY <1>1, <1>6, <1>7, <1>8, <2>1
    <2>2. CASE ~(k <= p + 1)
      <3>1. k - (p + 1) \in 1..Len(seq) - p /\ p + (k - (p + 1)) = k - 1
        BY <1>1, <2>2
      <3>2. back[k - (p + 1)] = seq[k - 1]
        BY <1>3, <3>1
      <3> QED
        BY <1>1, <1>7, <1>8, <2>2, <3>2
    <2> QED
      BY <2>1, <2>2
  <1> QED
    BY <1>7, <1>8, <1>9 DEF p

\* In a table that is sorted the place is after all that is earlier.
LEMMA PlaceSplits ==
  ASSUME NEW S, S \subseteq Nat, NEW seq \in Seq(S), NEW m \in S, Sorted(seq)
  PROVE  \A j \in 1..Len(seq) : j <= Place(seq, m) <=> seq[j] < m
  <1> DEFINE J == {j \in 1..Len(seq) : seq[j] < m}
  <1>0. Len(seq) \in Nat /\ m \in Nat /\ \A j \in 1..Len(seq) : seq[j] \in Nat
    <2>1. Len(seq) \in Nat /\ \A j \in 1..Len(seq) : seq[j] \in S
      BY LenProperties, ElementOfSeq
    <2>2. \A x \in S : x \in Nat
      OBVIOUS
    <2> QED
      BY <2>1, <2>2
  <1>1. \E k \in 0..Len(seq) : J = 1..k
    <2>1. CASE J = {}
      BY <1>0, <2>1
    <2>2. CASE J # {}
      <3>1. IsFiniteSet(J) /\ J \subseteq Nat
        BY FS_Interval, FS_Subset
      <3>2. PICK k \in J : \A j \in J : j <= k
        <4> HIDE DEF J
        <4> QED
          BY <2>2, <3>1, GreatestElement
      <3>3. ASSUME NEW j \in 1..k PROVE j \in J
        <4>1. j = k \/ seq[j] < seq[k]
          BY DEF Sorted
        <4>2. seq[j] \in Nat /\ seq[k] \in Nat /\ j \in 1..Len(seq)
          BY <1>0
        <4> QED
          BY <1>0, <4>1, <4>2
      <3> QED
        BY <1>0, <3>2, <3>3
    <2> QED
      BY <2>1, <2>2
  <1>2. PICK k \in 0..Len(seq) : J = 1..k
    BY <1>1
  <1>3. Place(seq, m) = k
    <2>1. Cardinality(1..k) = k
      BY FS_Interval
    <2> QED
      BY <1>2, <2>1 DEF Place
  <1> QED
    BY <1>2, <1>3

\* An answer that is not there yet goes to its place in the order of time.
LEMMA AddedSorted ==
  ASSUME NEW S, S \subseteq Nat, NEW seq \in Seq(S), NEW m \in S, Sorted(seq), ~Holds(seq, m)
  PROVE  Sorted(Added(seq, m))
  <1>0. /\ Len(Added(seq, m)) = Len(seq) + 1
        /\ \A k \in 1..Len(seq) + 1 :
             Added(seq, m)[k] = IF k <= Place(seq, m) THEN seq[k]
                                ELSE IF k = Place(seq, m) + 1 THEN m ELSE seq[k - 1]
    BY AddedShape
  <1> DEFINE new == Added(seq, m)
             p == Place(seq, m)
  <1>1. /\ p \in 0..Len(seq) /\ Len(seq) \in Nat
        /\ Len(new) = Len(seq) + 1
        /\ \A k \in 1..Len(seq) + 1 :
             new[k] = IF k <= p THEN seq[k] ELSE IF k = p + 1 THEN m ELSE seq[k - 1]
    BY <1>0, PlaceInside
  <1>2. \A j \in 1..Len(seq) : j <= p <=> seq[j] < m
    BY PlaceSplits
  <1>3. m \in Nat /\ \A j \in 1..Len(seq) : seq[j] \in Nat /\ seq[j] # m
    <2>1. \A j \in 1..Len(seq) : seq[j] \in S
      OBVIOUS
    <2> QED
      BY <2>1 DEF Holds
  <1> HIDE DEF new, p
  <1>4. ASSUME NEW i \in 1..Len(seq) + 1, NEW j \in 1..Len(seq) + 1, i < j
        PROVE  new[i] < new[j]
    <2>1. CASE j <= p
      <3>1. new[i] = seq[i] /\ new[j] = seq[j] /\ i \in 1..Len(seq) /\ j \in 1..Len(seq)
        BY <1>1, <1>4, <2>1
      <3> QED
        BY <1>4, <3>1 DEF Sorted
    <2>2. CASE j = p + 1
      <3>1. new[i] = seq[i] /\ new[j] = m /\ i \in 1..Len(seq) /\ i <= p
        BY <1>1, <1>4, <2>2
      <3> QED
        BY <1>2, <3>1
    <2>3. CASE j > p + 1 /\ i <= p
      <3>1. new[i] = seq[i] /\ new[j] = seq[j - 1] /\ i < j - 1 /\ j - 1 \in 1..Len(seq)
            /\ i \in 1..Len(seq)
        BY <1>1, <2>3
      <3> QED
        BY <3>1 DEF Sorted
    <2>4. CASE j > p + 1 /\ i = p + 1
      <3>1. new[i] = m /\ new[j] = seq[j - 1] /\ j - 1 \in 1..Len(seq) /\ ~(j - 1 <= p)
        BY <1>1, <2>4
      <3> QED
        BY <1>2, <1>3, <3>1
    <2>5. CASE j > p + 1 /\ i > p + 1
      <3>1. /\ new[i] = seq[i - 1] /\ new[j] = seq[j - 1] /\ i - 1 < j - 1
            /\ j - 1 \in 1..Len(seq) /\ i - 1 \in 1..Len(seq)
        BY <1>1, <1>4, <2>5
      <3> QED
        BY <3>1 DEF Sorted
    <2> QED
      BY <1>1, <2>1, <2>2, <2>3, <2>4, <2>5
  <1> QED
    BY <1>1, <1>4 DEF Sorted, new

LEMMA AddedHolds ==
  ASSUME NEW S, NEW seq \in Seq(S), NEW m \in S, NEW x, Holds(Added(seq, m), x)
  PROVE  x = m \/ Holds(seq, x)
  <1>1. Len(seq) \in Nat /\ Place(seq, m) \in 0..Len(seq)
    BY PlaceInside, LenProperties
  <1>2. /\ Len(Added(seq, m)) = Len(seq) + 1
        /\ \A k \in 1..Len(seq) + 1 :
             Added(seq, m)[k] = IF k <= Place(seq, m) THEN seq[k]
                                ELSE IF k = Place(seq, m) + 1 THEN m ELSE seq[k - 1]
    BY AddedShape
  <1>3. PICK k \in 1..Len(seq) + 1 : Added(seq, m)[k] = x
    BY <1>2 DEF Holds
  <1>4. CASE k <= Place(seq, m)
    BY <1>1, <1>2, <1>3, <1>4 DEF Holds
  <1>5. CASE k = Place(seq, m) + 1
    BY <1>1, <1>2, <1>3, <1>5
  <1>6. CASE k > Place(seq, m) + 1
    <2>1. k - 1 \in 1..Len(seq) /\ x = seq[k - 1]
      BY <1>1, <1>2, <1>3, <1>6
    <2> QED
      BY <2>1 DEF Holds
  <1> QED
    BY <1>1, <1>4, <1>5, <1>6

-----------------------------------------------------------------------------
(* The page: type correctness and one row for each message.                 *)

Shown == Messages \cup {Nameless}

\* A row is that of a message that was asked for: until that is forgotten, no answer
\* brings it again.
TableInv(seq) ==
  /\ Sorted(seq)
  /\ \A m : Holds(seq, m) => m \in msg_set \ asked

PageInv == TypeOK /\ TableInv(rows) /\ TableInv(notes)

LEMMA ShownIsNat == Shown \subseteq Nat /\ Messages \subseteq Shown /\ Telemetry \subseteq Messages
  BY ViewerConstants DEF Shown, Nameless

\* compass_hdng() of a bearing is a point, or nothing.
LEMMA CompassTyped ==
  ASSUME NEW b \in 0..359
  PROVE  \/ Compass(b) = "undefined"
         \/ \E i \in 1..Len(Points) : Compass(b) = Points[i]
  <1> DEFINE i == (4 * b + 45) \div 90
  <1>1. i \in Nat
    OBVIOUS
  <1>2. Len(Points) = 16
    BY DEF Points
  <1> QED
    BY <1>1, <1>2 DEF Compass

LEMMA BarTyped ==
  ASSUME TypeOK
  PROVE  \/ Bar \in {NoHeading, "undefined"}
         \/ \E i \in 1..Len(Points) : Bar = Points[i]
  <1> DEFINE n == Len(rows)
  <1>1. CASE Bar = heading
    BY <1>1 DEF TypeOK
  <1>2. CASE n >= 2 /\ Bar = Compass(Course[<<rows[n - 1], rows[n]>>])
    <2>1. n \in Nat /\ rows[n - 1] \in Telemetry /\ rows[n] \in Telemetry
      <3>1. n \in Nat /\ \A i \in 1..n : rows[i] \in Telemetry
        BY LenProperties, ElementOfSeq DEF TypeOK
      <3> QED
        BY <1>2, <3>1
    <2>2. Course[<<rows[n - 1], rows[n]>>] \in 0..359
      BY <2>1, ViewerConstants
    <2> QED
      BY <1>2, <2>2, CompassTyped
  <1>3. n \in Nat
    BY LenProperties DEF TypeOK
  <1> QED
    BY <1>1, <1>2, <1>3 DEF Bar

LEMMA PageInitInv == Init => PageInv
  <1> SUFFICES ASSUME Init PROVE PageInv
    OBVIOUS
  <1>1. TypeOK
    BY ViewerConstants DEF Init, TypeOK
  <1>2. TableInv(rows) /\ TableInv(notes)
    BY DEF Init, TableInv, Sorted, Holds
  <1> QED
    BY <1>1, <1>2 DEF PageInv

\* A step that leaves the tables and what has been asked for.
LEMMA TablesKept ==
  ASSUME PageInv, UNCHANGED <<rows, notes, msg_set, asked>>
  PROVE  TableInv(rows)' /\ TableInv(notes)'
  BY DEF PageInv, TableInv

LEMMA QuietInv ==
  ASSUME PageInv,
         \/ \E s \in Indexes : Publish(s)
         \/ Poll \/ Toggle
         \/ \E s \in answers : IndexLost(s)
         \/ \E r \in Telemetry : Click(r)
  PROVE  PageInv'
  <1>1. UNCHANGED <<rows, notes, msg_set, asked, lost, loads>>
    BY DEF Publish, Poll, Toggle, IndexLost, Click
  <1>2. TypeOK'
    <2>1. CASE \E s \in Indexes : Publish(s)
      BY <1>1, <2>1, ViewerConstants DEF PageInv, TypeOK, Publish
    <2>2. CASE Poll
      BY <1>1, <2>2, BarTyped DEF PageInv, TypeOK, Poll
    <2>3. CASE Toggle
      BY <1>1, <2>3 DEF PageInv, TypeOK, Toggle
    <2>4. CASE \E s \in answers : IndexLost(s)
      BY <1>1, <2>4 DEF PageInv, TypeOK, IndexLost
    <2>5. CASE \E r \in Telemetry : Click(r)
      BY <1>1, <2>5 DEF PageInv, TypeOK, Click, Selectable
    <2> QED
      BY <2>1, <2>2, <2>3, <2>4, <2>5
  <1> QED
    BY <1>1, <1>2, TablesKept DEF PageInv

LEMMA IndexArrivesInv ==
  ASSUME PageInv, NEW s \in answers, IndexArrives(s)
  PROVE  PageInv'
  <1> DEFINE new == Listed(s) \ msg_set
  <1>1. /\ msg_set' = msg_set \cup new /\ asked' = asked \cup new
        /\ UNCHANGED <<published, rows, notes, selected, follow, heading, lost, loads>>
        /\ answers' \subseteq answers
    BY DEF IndexArrives, Mark
  <1>2. new \subseteq Messages \cup {Nameless}
    BY DEF PageInv, TypeOK, Listed
  <1>3. new \cap msg_set = {}
    OBVIOUS
  <1> HIDE DEF new
  <1>4. TypeOK'
    BY <1>1, <1>2 DEF PageInv, TypeOK
  <1>5. TableInv(rows)' /\ TableInv(notes)'
    BY <1>1, <1>3 DEF PageInv, TableInv
  <1> QED
    BY <1>4, <1>5 DEF PageInv

\* The table an answer goes to, and the other, which only sees that it has come.
LEMMA TableAdded ==
  ASSUME PageInv, NEW m \in asked, asked' = asked \ {m}, msg_set' = msg_set,
         NEW S, S \subseteq Nat, m \in S, NEW seq \in Seq(S), TableInv(seq)
  PROVE  /\ Sorted(Added(seq, m))
         /\ \A x : Holds(Added(seq, m), x) => x \in msg_set' \ asked'
         /\ \A x : Holds(seq, x) => x \in msg_set' \ asked'
  <1>1. ~Holds(seq, m) /\ m \in msg_set
    BY DEF TableInv, PageInv, TypeOK
  <1>2. Sorted(Added(seq, m))
    BY <1>1, AddedSorted DEF TableInv
  <1>3. ASSUME NEW x, Holds(Added(seq, m), x) PROVE x \in msg_set' \ asked'
    BY <1>1, <1>3, AddedHolds DEF TableInv
  <1>4. ASSUME NEW x, Holds(seq, x) PROVE x \in msg_set' \ asked'
    BY <1>4 DEF TableInv
  <1> QED
    BY <1>2, <1>3, <1>4

LEMMA MessageArrivesInv ==
  ASSUME PageInv, NEW m \in Shown, MessageArrives(m)
  PROVE  PageInv'
  <1>1. /\ m \in asked /\ asked' = asked \ {m}
        /\ UNCHANGED <<published, answers, msg_set, follow, heading, lost, loads>>
    BY DEF MessageArrives
  <1>2. Shown \subseteq Nat /\ Telemetry \subseteq Nat
    BY ShownIsNat
  <1>3. rows \in Seq(Telemetry) /\ notes \in Seq(Shown)
    BY DEF PageInv, TypeOK, Shown
  <1>4. TableInv(rows) /\ TableInv(notes)
    BY DEF PageInv
  <1>5. CASE m \in Telemetry
    <2>1. rows' = Added(rows, m) /\ notes' = notes
      BY <1>5 DEF MessageArrives
    <2>2. rows' \in Seq(Telemetry) /\ Len(rows') = Len(rows) + 1
      BY <1>3, <1>5, <2>1, AddedShape
    <2>3. rows'[Len(rows')] \in Telemetry
      <3>1. Len(rows') \in 1..Len(rows')
        BY <1>3, <2>2, LenProperties
      <3> QED
        BY <2>2, <3>1, ElementOfSeq
    <2>4. selected' \in (Telemetry \ NoPosition) \cup {Nameless}
      BY <1>5, <2>3 DEF MessageArrives, Selectable, PageInv, TypeOK
    <2>5. TypeOK'
      BY <1>1, <2>1, <2>2, <2>4 DEF PageInv, TypeOK
    <2>6. TableInv(rows)'
      BY <1>1, <1>2, <1>3, <1>4, <1>5, <2>1, TableAdded DEF TableInv
    <2>7. TableInv(notes)'
      BY <1>1, <1>4, <2>1 DEF TableInv
    <2> QED
      BY <2>5, <2>6, <2>7 DEF PageInv
  <1>6. CASE m \notin Telemetry
    <2>1. notes' = Added(notes, m) /\ rows' = rows /\ selected' = selected
      BY <1>6 DEF MessageArrives
    <2>2. notes' \in Seq(Shown)
      BY <1>3, <2>1, AddedShape
    <2>3. TypeOK'
      BY <1>1, <2>1, <2>2 DEF PageInv, TypeOK, Shown
    <2>4. TableInv(notes)'
      BY <1>1, <1>2, <1>3, <1>4, <2>1, TableAdded DEF TableInv
    <2>5. TableInv(rows)'
      BY <1>1, <1>4, <2>1 DEF TableInv
    <2> QED
      BY <2>3, <2>4, <2>5 DEF PageInv
  <1> QED
    BY <1>5, <1>6

LEMMA MessageLostInv ==
  ASSUME PageInv, NEW m \in Shown, MessageLost(m)
  PROVE  PageInv'
  <1>1. TypeOK'
    BY DEF PageInv, TypeOK, MessageLost
  <1>2. TableInv(rows)' /\ TableInv(notes)'
    BY DEF PageInv, TableInv, MessageLost
  <1> QED
    BY <1>1, <1>2 DEF PageInv

LEMMA LoadInv ==
  ASSUME PageInv, Load
  PROVE  PageInv'
  <1>1. TypeOK'
    BY ViewerConstants DEF PageInv, TypeOK, Load
  <1>2. TableInv(rows)' /\ TableInv(notes)'
    BY DEF Load, TableInv, Sorted, Holds
  <1> QED
    BY <1>1, <1>2 DEF PageInv

LEMMA PageStepInv == PageInv /\ [Next]_vars => PageInv'
  <1> SUFFICES ASSUME PageInv, [Next]_vars PROVE PageInv'
    OBVIOUS
  <1>1. CASE Next
    BY <1>1, QuietInv, IndexArrivesInv, MessageArrivesInv, MessageLostInv, LoadInv
    DEF Next, Shown
  <1>2. CASE UNCHANGED vars
    BY <1>2 DEF PageInv, TypeOK, TableInv, vars
  <1> QED
    BY <1>1, <1>2

LEMMA PageInvariance == Spec => []PageInv
  BY PageInitInv, PageStepInv, PTL DEF Spec

(* Every variable of the page keeps its type; a row without a position is never *)
(* the selected one, whatever is clicked, followed or loaded again              *)
(* (beforerowselect in balloon.js).                                             *)
THEOREM PageTyped == Spec => []TypeOK
  BY PageInvariance, PTL DEF PageInv

(* However the answers to the index and to the messages overtake each other, a  *)
(* message has one row, in the order of time, and is not asked for again        *)
(* (parseIndex(), addSorted()).                                                 *)
THEOREM AlwaysOneRowEach == Spec => []OneRowEach
  <1>1. PageInv => OneRowEach
    BY DEF PageInv, TableInv, Sorted, OneRowEach
  <1> QED
    BY <1>1, PageInvariance, PTL
=============================================================================
