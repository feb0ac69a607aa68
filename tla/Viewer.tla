------------------------------- MODULE Viewer -------------------------------
(***************************************************************************)
(* The page that shows the flight (scripts/webserver/balloon.js): it asks  *)
(* for the index again and again, whether or not the answer to an earlier  *)
(* request has come, asks for every message it has not asked for, and puts *)
(* the answers, which come in any order, into a table of telemetry and a   *)
(* table of status messages sorted by time.                                *)
(*                                                                         *)
(* A message is its name, the time of day it was sent; an empty index is   *)
(* taken for one message without a name, Nameless.                         *)
(***************************************************************************)
EXTENDS Integers, Sequences, FiniteSets

CONSTANTS
  Messages,
  Indexes,       \* the listings of them that the server may have for an index
  Telemetry,     \* those with a position; the others are shown as status
  NoPosition,    \* those with the position (0, 0), of a balloon without a fix
  Course,        \* the bearing from one position to another, 0..359
  MaxRequests,   \* bound: different answers to the index on their way
  MaxLost,       \* bound: messages whose request fails
  MaxLoads       \* bound: times the page is loaded again

Nameless == 0

ASSUME ViewerConstants ==
  /\ Messages \subseteq Nat \ {Nameless} /\ Indexes \subseteq SUBSET Messages
  /\ Telemetry \subseteq Messages /\ NoPosition \subseteq Telemetry
  /\ Course \in [Telemetry \X Telemetry -> 0..359]
  /\ MaxRequests \in Nat /\ MaxLost \in Nat /\ MaxLoads \in Nat

VARIABLES
  published,  \* the messages in the index of the server
  answers,    \* answers to the index that have not arrived
  msg_set,    \* messages the page has asked for
  asked,      \* those whose answer has not arrived
  rows,       \* telem_store
  notes,      \* statusmsg_store
  selected,   \* the selected row of the telemetry, or Nameless
  follow,     \* autofollow_btn is pressed
  heading,    \* what brng_label shows
  lost,       \* messages whose request has failed
  loads

vars == <<published, answers, msg_set, asked, rows, notes, selected, follow, heading,
          lost, loads>>

Points == <<"N", "NNE", "NE", "ENE", "E", "ESE", "SE", "SSE",
            "S", "SSW", "SW", "WSW", "W", "WNW", "NW", "NNW">>
NoHeading == "---"

(* "Points with invalid coordinates are not selectable", by a click or as the   *)
(* last row.                                                                    *)
TypeOK ==
  /\ published \subseteq Messages /\ answers \subseteq SUBSET Messages
  /\ msg_set \subseteq Messages \cup {Nameless} /\ asked \subseteq msg_set
  /\ rows \in Seq(Telemetry) /\ notes \in Seq(Messages \cup {Nameless})
  /\ selected \in (Telemetry \ NoPosition) \cup {Nameless}
  /\ follow \in BOOLEAN
  /\ \/ heading \in {NoHeading, "undefined"}
     \/ \E i \in 1..Len(Points) : heading = Points[i]
  /\ lost \subseteq msg_set
  /\ loads \in 0..MaxLoads

Init ==
  /\ published \in Indexes
  /\ answers = {published} /\ msg_set = {} /\ asked = {}
  /\ rows = <<>> /\ notes = <<>> /\ selected = Nameless /\ follow = TRUE
  /\ heading = NoHeading /\ lost = {} /\ loads = 0

(* The server replaces its index by another listing: with a new message, or,    *)
(* after a listing that came late or a clear, without some it had.              *)
Publish(s) ==
  /\ s # published
  /\ published' = s
  /\ UNCHANGED <<answers, msg_set, asked, rows, notes, selected, follow, heading, lost,
                 loads>>

(* compass_hdng(): Math.round(brng / 22.5) into an array of 16. *)
Compass(brng) ==
  LET i == (4 * brng + 45) \div 90
  IN IF i < Len(Points) THEN Points[i + 1] ELSE "undefined"

(* mutant: the first two rows *)
BarOfFirst ==
  IF Len(rows) < 2 THEN heading
  ELSE IF rows[1] \in NoPosition \/ rows[2] \in NoPosition THEN heading
  ELSE Compass(Course[<<rows[1], rows[2]>>])

(* updateStatusBar(): the two newest rows. *)
Bar ==
  LET n == Len(rows)
  IN IF n < 2 THEN heading
     ELSE IF rows[n - 1] \in NoPosition \/ rows[n] \in NoPosition THEN heading
     ELSE Compass(Course[<<rows[n - 1], rows[n]>>])

(* updateIndex(): the request, then the status bar. *)
Poll ==
  /\ answers' = answers \cup {published}
  /\ Cardinality(answers') <= MaxRequests
  /\ heading' = Bar
  /\ UNCHANGED <<published, msg_set, asked, rows, notes, selected, follow, lost, loads>>

(* mutant: the loop over the lines stops before the first *)
ListedButFirst(s) == {m \in s : \E k \in s : k < m}

(* parseIndex(): what is not in msg_set is asked for, and put there at once. *)
Listed(s) == IF s = {} THEN {Nameless} ELSE s

(* mutant: only a message that has been shown is put into msg_set *)
MarkShown(new) == {m \in new : m \in asked}

Mark(new) == new

IndexArrives(s) ==
  /\ s \in answers
  /\ answers' = answers \ {s}
  /\ LET new == Listed(s) \ msg_set
     IN msg_set' = msg_set \cup Mark(new) /\ asked' = asked \cup new
  /\ UNCHANGED <<published, rows, notes, selected, follow, heading, lost, loads>>

IndexLost(s) ==
  /\ s \in answers
  /\ answers' = answers \ {s}
  /\ UNCHANGED <<published, msg_set, asked, rows, notes, selected, follow, heading, lost,
                 loads>>

(* Ext.data.Store.addSorted(): in front of the first later one. *)
Added(seq, m) ==
  LET i == Cardinality({j \in 1..Len(seq) : seq[j] < m})
  IN SubSeq(seq, 1, i) \o <<m>> \o SubSeq(seq, i + 1, Len(seq))

(* mutant: any row can be selected *)
AnySelectable(r) == r \in Telemetry

(* The handler of beforerowselect. *)
Selectable(r) == r \notin NoPosition

(* The answer to a message: its row, and with the button the last row is        *)
(* selected, if the handler lets it.                                            *)
MessageArrives(m) ==
  /\ m \in asked
  /\ asked' = asked \ {m}
  /\ IF m \in Telemetry
     THEN /\ rows' = Added(rows, m)
          /\ selected' = IF follow /\ Selectable(rows'[Len(rows')])
                         THEN rows'[Len(rows')] ELSE selected
          /\ UNCHANGED notes
     ELSE notes' = Added(notes, m) /\ UNCHANGED <<rows, selected>>
  /\ UNCHANGED <<published, answers, msg_set, follow, heading, lost, loads>>

(* ajaxFailure() does nothing. *)
MessageLost(m) ==
  /\ m \in asked /\ Cardinality(lost) < MaxLost
  /\ asked' = asked \ {m} /\ lost' = lost \cup {m}
  /\ UNCHANGED <<published, answers, msg_set, rows, notes, selected, follow, heading,
                 loads>>

Click(r) ==
  /\ \E i \in 1..Len(rows) : rows[i] = r
  /\ Selectable(r)
  /\ selected' = r
  /\ UNCHANGED <<published, answers, msg_set, asked, rows, notes, follow, heading, lost,
                 loads>>

Toggle ==
  /\ follow' = ~follow
  /\ UNCHANGED <<published, answers, msg_set, asked, rows, notes, selected, heading, lost,
                 loads>>

Load ==
  /\ loads < MaxLoads
  /\ loads' = loads + 1
  /\ answers' = {published} /\ msg_set' = {} /\ asked' = {}
  /\ rows' = <<>> /\ notes' = <<>> /\ selected' = Nameless /\ follow' = TRUE
  /\ heading' = NoHeading /\ lost' = {}
  /\ UNCHANGED published

Next ==
  \/ \E s \in Indexes : Publish(s)
  \/ Poll
  \/ \E s \in answers : IndexArrives(s) \/ IndexLost(s)
  \/ \E m \in Messages \cup {Nameless} : MessageArrives(m) \/ MessageLost(m)
  \/ \E r \in Telemetry : Click(r)
  \/ Toggle \/ Load

(* The timer runs; of the index some answers arrive, and every request for a    *)
(* message gets an answer.                                                      *)
Fairness ==
  /\ WF_vars(Poll)
  /\ SF_vars(\E s \in answers : IndexArrives(s))
  /\ \A m \in Messages : WF_vars(MessageArrives(m))

Spec == Init /\ [][Next]_vars /\ Fairness

-----------------------------------------------------------------------------
Holds(seq, m) == \E i \in 1..Len(seq) : seq[i] = m

(* However the answers to the index and to the messages overtake each other, a  *)
(* message has one row, in the order of time, and is not asked for again        *)
(* (parseIndex(), addSorted()).                                                 *)
OneRowEach ==
  \A seq \in {rows, notes} :
    /\ \A i, j \in 1..Len(seq) : i < j => seq[i] < seq[j]
    /\ \A m \in asked : ~Holds(seq, m)

(* A message in the index is shown in the end, unless it leaves the index again *)
(* or its request fails: one failure is for good, msg_set keeps it until the    *)
(* page is loaded again (updateIndex(), parseIndex()).                          *)
ShownInTheEnd ==
  \A m \in Messages :
    m \in published ~>
      Holds(rows, m) \/ Holds(notes, m) \/ m \in lost \/ m \notin published

(* The status bar is brought up to date before the answer it waits for, but in  *)
(* the end it is that of the two newest rows.                                   *)
BarCatchesUp ==
  <>[](Len(rows) >= 2 /\ rows[Len(rows)] \notin NoPosition
         /\ rows[Len(rows) - 1] \notin NoPosition
       => heading = Compass(Course[<<rows[Len(rows) - 1], rows[Len(rows)]>>]))
=============================================================================
