------------------------------ MODULE WebIndex ------------------------------
(***************************************************************************)
(* The server that collects the messages of the flight: add.cgi stores a   *)
(* message under its name and lets upd_idx.sh list the directory into      *)
(* msg_index and point last_message at the newest; clear.cgi removes all   *)
(* (scripts/webserver).  A web server runs them at the same time, and may  *)
(* kill them.                                                              *)
(*                                                                         *)
(* Names are times of day, compared as numbers.  What the scripts print    *)
(* stays in a buffer until they end: the client has no answer of one that  *)
(* is killed.                                                              *)
(***************************************************************************)
EXTENDS Integers, FiniteSets

CONSTANTS
  Names,      \* names of messages
  Blank,      \* those of messages the server refuses
  Cgis,       \* scripts that can run at the same time
  MayClear,   \* clear.cgi is in use
  MayFail,    \* what is written may fail: the disk is full
  MaxDeaths   \* bound: scripts killed

ASSUME WebConstants ==
  /\ Names \subseteq Nat \ {0} /\ IsFiniteSet(Names) /\ Blank \subseteq Names
  /\ MayClear \in BOOLEAN /\ MayFail \in BOOLEAN /\ MaxDeaths \in Nat

VARIABLES
  stored,    \* the messages in the directory
  index,     \* msg_index
  last,      \* last_message, or 0
  pc,        \* where each script is
  req,       \* the message it adds, 0 for a clear
  list,      \* the listing it has taken
  newest,    \* LAST
  deaths

local == <<pc, req, list, newest>>
web == <<stored, index, last, local, deaths>>

Label == {"idle", "check", "move", "unlink", "look", "remove", "list", "index",
          "newest", "link", "cleared", "partial", "ok", "err"}

WebTypeOK ==
  /\ stored \subseteq Names /\ index \subseteq Names
  /\ last \in Names \cup {0}
  /\ pc \in [Cgis -> Label]
  /\ req \in [Cgis -> Names \cup {0}]
  /\ list \in [Cgis -> SUBSET Names]
  /\ newest \in [Cgis -> Names \cup {0}]
  /\ deaths \in 0..MaxDeaths

WebInit ==
  /\ stored = {} /\ index = {} /\ last = 0
  /\ pc = [c \in Cgis |-> "idle"] /\ req = [c \in Cgis |-> 0]
  /\ list = [c \in Cgis |-> {}] /\ newest = [c \in Cgis |-> 0]
  /\ deaths = 0

Newest(s) == IF s = {} THEN 0 ELSE CHOOSE n \in s : \A m \in s : m <= n

At(c, here, there) == pc[c] = here /\ pc' = [pc EXCEPT ![c] = there]

(* A request comes in: a message that is refused is only answered. *)
Add(c, n) ==
  /\ At(c, "idle", IF n \in Blank THEN "err" ELSE "check")
  /\ req' = [req EXCEPT ![c] = n]
  /\ UNCHANGED <<stored, index, last, list, newest, deaths>>

Clear(c) ==
  /\ MayClear
  /\ At(c, "idle", "unlink")
  /\ req' = [req EXCEPT ![c] = 0]
  /\ UNCHANGED <<stored, index, last, list, newest, deaths>>

(* add.cgi: a message that is there already is not written again. *)
Check(c) ==
  /\ At(c, "check", IF req[c] \in stored THEN "ok" ELSE "move")
  /\ UNCHANGED <<stored, index, last, req, list, newest, deaths>>

Move(c) ==
  /\ At(c, "move", "list")
  /\ stored' = stored \cup {req[c]}
  /\ UNCHANGED <<index, last, req, list, newest, deaths>>

(* OK has been printed before: an exception while the message is written adds   *)
(* only its traceback, a mv that fails is not noticed.                          *)
MoveFails(c) ==
  /\ MayFail
  /\ At(c, "move", "ok") \/ At(c, "move", "list")
  /\ UNCHANGED <<stored, index, last, req, list, newest, deaths>>

(* clear.sh: last_message, then the messages that ls finds. *)
Unlink(c) ==
  /\ At(c, "unlink", "look")
  /\ last' = 0
  /\ UNCHANGED <<stored, index, req, list, newest, deaths>>

Look(c) ==
  /\ At(c, "look", "remove")
  /\ list' = [list EXCEPT ![c] = stored]
  /\ UNCHANGED <<stored, index, last, req, newest, deaths>>

Remove(c) ==
  /\ At(c, "remove", "list")
  /\ stored' = stored \ list[c]
  /\ UNCHANGED <<index, last, req, list, newest, deaths>>

(* mutant: upd_idx.sh lists what was there before the message *)
ListOld(c) ==
  /\ At(c, "list", "index")
  /\ list' = [list EXCEPT ![c] = stored \ {req[c]}]
  /\ UNCHANGED <<stored, index, last, req, newest, deaths>>

(* upd_idx.sh: the listing, and its mv to msg_index. *)
List(c) ==
  /\ At(c, "list", "index")
  /\ list' = [list EXCEPT ![c] = stored]
  /\ UNCHANGED <<stored, index, last, req, newest, deaths>>

Index(c) ==
  /\ At(c, "index", "newest")
  /\ index' = list[c]
  /\ UNCHANGED <<stored, last, req, list, newest, deaths>>

(* The first command that fails ends it (set -e), and clear.sh with it: the     *)
(* listing or its mv, the link or its mv.  add.cgi does not notice.             *)
Stop(c, here) ==
  /\ MayFail
  /\ At(c, here, "partial")
  /\ UNCHANGED <<stored, index, last, req, list, newest, deaths>>

ListFails(c) == Stop(c, "list") \/ Stop(c, "index")

LinkFails(c) == Stop(c, "link")

(* The newest message is looked for in a second listing. *)
End(c) == IF req[c] = 0 THEN "cleared" ELSE "ok"

FindNewest(c) ==
  /\ At(c, "newest", IF stored = {} THEN End(c) ELSE "link")
  /\ newest' = [newest EXCEPT ![c] = Newest(stored)]
  /\ UNCHANGED <<stored, index, last, req, list, deaths>>

Link(c) ==
  /\ At(c, "link", End(c))
  /\ last' = newest[c]
  /\ UNCHANGED <<stored, index, req, list, newest, deaths>>

(* clear.sh removes last_message once more, unless the wget of upd_idx.sh has   *)
(* failed, which ends both (set -e).                                            *)
Cleared(c) ==
  /\ At(c, "cleared", "ok")
  /\ last' \in {0, last}
  /\ UNCHANGED <<stored, index, req, list, newest, deaths>>

(* The script ends, and what it printed is sent. *)
Forget(c) ==
  /\ req' = [req EXCEPT ![c] = 0]
  /\ list' = [list EXCEPT ![c] = {}]
  /\ newest' = [newest EXCEPT ![c] = 0]

Finish(c) ==
  /\ \E here \in {"ok", "partial", "err"} : At(c, here, "idle")
  /\ Forget(c)
  /\ UNCHANGED <<stored, index, last, deaths>>

(* It is killed, with the shells it has started. *)
Die(c) ==
  /\ deaths < MaxDeaths
  /\ pc[c] # "idle"
  /\ pc' = [pc EXCEPT ![c] = "idle"]
  /\ Forget(c)
  /\ deaths' = deaths + 1
  /\ UNCHANGED <<stored, index, last>>

Works(c) ==
  \/ Check(c) \/ Move(c) \/ MoveFails(c)
  \/ Unlink(c) \/ Look(c) \/ Remove(c)
  \/ List(c) \/ Index(c) \/ ListFails(c)
  \/ FindNewest(c) \/ Link(c) \/ LinkFails(c) \/ Cleared(c)

WebNext ==
  \E c \in Cgis :
    \/ \E n \in Names : Add(c, n)
    \/ Clear(c) \/ Works(c) \/ Finish(c) \/ Die(c)

WebSpec == WebInit /\ [][WebNext]_web

(* What add.cgi and upd_idx.sh say, "trigger msg_index update" after a message  *)
(* is stored and "mv are atomic": when no script is running the index lists the *)
(* messages there are.                                                          *)
IndexRight == (\A c \in Cgis : pc[c] = "idle") => index = stored
=============================================================================
