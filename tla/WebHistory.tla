----------------------------- MODULE WebHistory -----------------------------
(***************************************************************************)
(* WebIndex with which scripts have had the directory to themselves, and   *)
(* the property that needs it.                                             *)
(***************************************************************************)
EXTENDS WebIndex

VARIABLES
  alone,   \* scripts that no other has run beside
  fresh    \* scripts that have changed the directory

wvars == <<web, alone, fresh>>

Busy(c) == pc[c] # "idle"

HInit == WebInit /\ alone = {} /\ fresh = {}

Began(c) == ~Busy(c) /\ pc'[c] # "idle"

HNext ==
  /\ WebNext
  /\ alone' = IF \E c \in Cgis : Began(c)
              THEN IF \A c \in Cgis : ~Busy(c) THEN {c \in Cgis : Began(c)} ELSE {}
              ELSE alone
  /\ fresh' = {c \in Cgis :
                 \/ c \in fresh /\ ~Began(c)
                 \/ stored' # stored /\ pc'[c] # pc[c]}

HSpec == HInit /\ [][HNext]_wvars

(* Whatever scripts that overlapped, were killed or found the disk full have    *)
(* left in the index and in last_message, the next message that a script stores *)
(* with no other beside it makes both right again, when its upd_idx.sh comes to *)
(* the end: on a full disk a script can end as "partial", with OK for an answer *)
(* and both as they were (add.cgi, upd_idx.sh).                                 *)
LoneUpdate ==
  \A c \in alone \cap fresh :
    pc[c] = "ok" => index = stored /\ last = Newest(stored)
=============================================================================
