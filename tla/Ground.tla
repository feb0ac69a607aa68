------------------------------- MODULE Ground -------------------------------
(***************************************************************************)
(* A ground station and the server together: the repeater, which files     *)
(* what the decoder hears, the uploader and the downloader, which it runs  *)
(* again and again, restore.py, run by hand (scripts), and the server of   *)
(* WebIndex.                                                               *)
(*                                                                         *)
(* The three share a directory of messages, with the marks .unsent and     *)
(* .err beside them and an index of it that is rewritten whole.  Requests  *)
(* have a timeout, after which the server may still be at work on them.    *)
(* The station can crash, and be started again.                            *)
(***************************************************************************)
EXTENDS WebIndex

CONSTANTS
  MaxCrashes,   \* bound: crashes of the station
  MaxRestores   \* bound: runs of restore.py

ASSUME GroundConstants ==
  /\ MaxCrashes \in Nat /\ MaxRestores \in Nat

VARIABLES
  files,     \* messages in the directory of the station
  unsent,    \* those with a file .unsent
  errs,      \* those with a file .err
  mine,      \* its msg_index
  rpc, rname, rlist,   \* the repeater: the message it files, its listing
  upc, utodo, uname, ucgi,   \* the uploader: what it has still to send, and the
                             \* script that serves its request
  dpc, dknown, dtodo, dlist,   \* the downloader: the index it has read
  crashes, restores

repeater == <<rpc, rname, rlist>>
uploader == <<upc, utodo, uname, ucgi>>
downloader == <<dpc, dknown, dtodo, dlist>>
station == <<files, unsent, errs, mine, repeater, uploader, downloader, crashes,
             restores>>
groundVars == <<web, station>>

GroundTypeOK ==
  /\ WebTypeOK
  /\ files \subseteq Names /\ unsent \subseteq Names /\ errs \subseteq Names
  /\ mine \subseteq Names
  /\ rpc \in {"idle", "write", "mark", "list", "index"}
  /\ rname \in Names \cup {0} /\ rlist \subseteq Names
  /\ upc \in {"idle", "next", "wait", "accepted", "refused"}
  /\ utodo \subseteq Names /\ uname \in Names \cup {0}
  /\ ucgi \in Cgis
  /\ dpc \in {"idle", "web", "get", "list", "index"}
  /\ dknown \subseteq Names /\ dtodo \subseteq Names /\ dlist \subseteq Names
  /\ crashes \in 0..MaxCrashes /\ restores \in 0..MaxRestores

GroundInit ==
  /\ WebInit
  /\ files = {} /\ unsent = {} /\ errs = {} /\ mine = {}
  /\ rpc = "idle" /\ rname = 0 /\ rlist = {}
  /\ upc = "idle" /\ utodo = {} /\ uname = 0 /\ ucgi \in Cgis
  /\ dpc = "idle" /\ dknown = {} /\ dtodo = {} /\ dlist = {}
  /\ crashes = 0 /\ restores = 0

-----------------------------------------------------------------------------
(* repeater.py: a message is filed unless any file has its name. *)
Hear(n) ==
  /\ rpc = "idle"
  /\ n \notin files \cup unsent \cup errs
  /\ rpc' = "write" /\ rname' = n
  /\ UNCHANGED <<web, files, unsent, errs, mine, rlist, uploader, downloader, crashes,
                 restores>>

WriteMessage ==
  /\ rpc = "write"
  /\ rpc' = "mark"
  /\ files' = files \cup {rname}
  /\ UNCHANGED <<web, unsent, errs, mine, rname, rlist, uploader, downloader, crashes,
                 restores>>

MarkUnsent ==
  /\ rpc = "mark"
  /\ rpc' = "list"
  /\ unsent' = unsent \cup {rname}
  /\ UNCHANGED <<web, files, errs, mine, rname, rlist, uploader, downloader, crashes,
                 restores>>

(* utils.update_index(): glob, then the file is replaced. *)
ListMine ==
  /\ rpc = "list"
  /\ rpc' = "index" /\ rlist' = files
  /\ UNCHANGED <<web, files, unsent, errs, mine, rname, uploader, downloader, crashes,
                 restores>>

IndexMine ==
  /\ rpc = "index"
  /\ rpc' = "idle" /\ mine' = rlist /\ rlist' = {} /\ rname' = 0
  /\ UNCHANGED <<web, files, unsent, errs, uploader, downloader, crashes, restores>>

-----------------------------------------------------------------------------
(* uploader.py: all that is unsent when it starts, the newest first. *)
StartUpload ==
  /\ upc = "idle" /\ unsent # {}
  /\ upc' = "next" /\ utodo' = unsent
  /\ UNCHANGED <<web, files, unsent, errs, mine, repeater, uname, ucgi, downloader, crashes,
                 restores>>

Send ==
  /\ upc = "next" /\ utodo # {}
  /\ upc' = "wait" /\ uname' = Newest(utodo) /\ utodo' = utodo \ {Newest(utodo)}
  /\ \E c \in Cgis : Add(c, Newest(utodo)) /\ ucgi' = c
  /\ UNCHANGED <<files, unsent, errs, mine, repeater, downloader, crashes, restores>>

(* The answer of the script that serves the request: OK was printed before it   *)
(* ran upd_idx.sh.                                                              *)
Answer ==
  /\ upc = "wait"
  /\ upc' = IF pc[ucgi] \in {"ok", "partial"} THEN "accepted" ELSE "refused"
  /\ Finish(ucgi)
  /\ UNCHANGED <<files, unsent, errs, mine, repeater, utodo, uname, ucgi, downloader, crashes,
                 restores>>

(* mutant: a message is taken for sent when there is no answer *)
TimeoutIsOkay ==
  /\ upc = "wait"
  /\ upc' = "accepted"
  /\ UNCHANGED <<web, files, unsent, errs, mine, repeater, utodo, uname, ucgi, downloader,
                 crashes, restores>>

(* http_get() gives up, and the uploader with it. *)
Timeout ==
  /\ upc = "wait"
  /\ upc' = "idle" /\ utodo' = {} /\ uname' = 0
  /\ UNCHANGED <<web, files, unsent, errs, mine, repeater, ucgi, downloader, crashes,
                 restores>>

(* A reply that is neither OK nor ERR, as of a script that was killed: the       *)
(* message stays unsent, and the next is tried.                                 *)
Unknown ==
  /\ upc = "wait" /\ pc[ucgi] = "idle"
  /\ upc' = "next" /\ uname' = 0
  /\ UNCHANGED <<web, files, unsent, errs, mine, repeater, utodo, ucgi, downloader, crashes,
                 restores>>

Accepted ==
  /\ upc = "accepted"
  /\ unsent' = unsent \ {uname}
  /\ upc' = "next" /\ uname' = 0
  /\ UNCHANGED <<web, files, errs, mine, repeater, utodo, ucgi, downloader, crashes, restores>>

Refused ==
  /\ upc = "refused"
  /\ unsent' = unsent \ {uname} /\ errs' = errs \cup {uname}
  /\ upc' = "next" /\ uname' = 0
  /\ UNCHANGED <<web, files, mine, repeater, utodo, ucgi, downloader, crashes, restores>>

(* mutant: the uploader does not end *)
EndUploadHangs ==
  /\ upc = "next" /\ utodo = {}
  /\ upc' = "done"
  /\ UNCHANGED <<web, files, unsent, errs, mine, repeater, utodo, uname, ucgi, downloader,
                 crashes, restores>>

EndUpload ==
  /\ upc = "next" /\ utodo = {}
  /\ upc' = "idle"
  /\ UNCHANGED <<web, files, unsent, errs, mine, repeater, utodo, uname, ucgi, downloader,
                 crashes, restores>>

-----------------------------------------------------------------------------
(* downloader.py: its own index, then that of the server, then what is missing, *)
(* the newest first.                                                            *)
(* mutant: the downloader looks at the directory instead *)
ReadFiles ==
  /\ dpc = "idle"
  /\ dpc' = "web" /\ dknown' = files
  /\ UNCHANGED <<web, files, unsent, errs, mine, repeater, uploader, dtodo, dlist,
                 crashes, restores>>

ReadMine ==
  /\ dpc = "idle"
  /\ dpc' = "web" /\ dknown' = mine
  /\ UNCHANGED <<web, files, unsent, errs, mine, repeater, uploader, dtodo, dlist,
                 crashes, restores>>

ReadWeb ==
  /\ dpc = "web"
  /\ dtodo' = index \ dknown /\ dknown' = {}
  /\ dpc' = IF dtodo' = {} THEN "idle" ELSE "get"
  /\ UNCHANGED <<web, files, unsent, errs, mine, repeater, uploader, dlist, crashes,
                 restores>>

Get ==
  /\ dpc = "get"
  /\ dpc' = "list"
  /\ files' = files \cup {Newest(dtodo)} /\ dtodo' = dtodo \ {Newest(dtodo)}
  /\ UNCHANGED <<web, unsent, errs, mine, repeater, uploader, dknown, dlist, crashes,
                 restores>>

GetFails ==
  /\ dpc \in {"web", "get"}
  /\ dpc' = "idle" /\ dknown' = {} /\ dtodo' = {}
  /\ UNCHANGED <<web, files, unsent, errs, mine, repeater, uploader, dlist, crashes,
                 restores>>

ListGot ==
  /\ dpc = "list"
  /\ dpc' = "index" /\ dlist' = files
  /\ UNCHANGED <<web, files, unsent, errs, mine, repeater, uploader, dknown, dtodo,
                 crashes, restores>>

IndexGot ==
  /\ dpc = "index"
  /\ mine' = dlist /\ dlist' = {}
  /\ dpc' = IF dtodo = {} THEN "idle" ELSE "get"
  /\ UNCHANGED <<web, files, unsent, errs, repeater, uploader, dknown, dtodo, crashes,
                 restores>>

-----------------------------------------------------------------------------
(* restore.py: every message is to be sent again. *)
Restore ==
  /\ restores < MaxRestores
  /\ restores' = restores + 1
  /\ unsent' = unsent \cup files /\ files' = {}
  /\ UNCHANGED <<web, errs, mine, repeater, uploader, downloader, crashes>>

Crash ==
  /\ crashes < MaxCrashes
  /\ crashes' = crashes + 1
  /\ rpc' = "idle" /\ rname' = 0 /\ rlist' = {}
  /\ upc' = "idle" /\ utodo' = {} /\ uname' = 0
  /\ dpc' = "idle" /\ dknown' = {} /\ dtodo' = {} /\ dlist' = {}
  /\ UNCHANGED <<web, files, unsent, errs, mine, ucgi, restores>>

(* The scripts of the server; of one that nobody waits for the answer is lost. *)
Unheard(c) == ~(upc = "wait" /\ ucgi = c)

Serve(c) ==
  /\ Works(c) \/ (Unheard(c) /\ Finish(c))
  /\ UNCHANGED station

Repeat == WriteMessage \/ MarkUnsent \/ ListMine \/ IndexMine
Upload == StartUpload \/ Send \/ Accepted \/ Refused \/ EndUpload
Download == ReadMine \/ ListGot \/ IndexGot

GroundNext ==
  \/ \E n \in Names : Hear(n)
  \/ Repeat \/ Upload \/ Answer \/ Unknown \/ Timeout
  \/ Download \/ ReadWeb \/ Get \/ GetFails
  \/ Restore \/ Crash
  \/ \E c \in Cgis : Serve(c) \/ (Die(c) /\ UNCHANGED station)

(* The processes run, the server answers every request in the end unless its    *)
(* script is killed, which its own reply or the timeout ends, and of the        *)
(* requests that are made again and again some are answered in time.            *)
GroundFairness ==
  /\ WF_groundVars(Repeat) /\ WF_groundVars(Upload) /\ WF_groundVars(Download)
  /\ \A c \in Cgis : WF_groundVars(Serve(c))
  /\ WF_groundVars(Answer) /\ WF_groundVars(Unknown \/ (Timeout /\ pc[ucgi] = "idle"))
  /\ []<><<Send>>_groundVars => []<><<Answer>>_groundVars
  /\ SF_groundVars(ReadWeb) /\ SF_groundVars(Get)

GroundSpec == GroundInit /\ [][GroundNext]_groundVars /\ GroundFairness
=============================================================================
