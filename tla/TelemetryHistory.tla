------------------------- MODULE TelemetryHistory -------------------------
(***************************************************************************)
(* Telemetry with the moment of the last one, and the number of those sent *)
(* since a moment that may be any: a window that ends now.                 *)
(***************************************************************************)
EXTENDS Telemetry

CONSTANTS
  Shortest, Longest,   \* bounds of the periods
  MaxWindow            \* bound: length of a window

ASSUME PeriodBounds ==
  /\ Shortest \in Nat \ {0} /\ Longest \in Nat /\ MaxWindow \in Nat
  /\ \A p \in Periods : Shortest <= p /\ p <= Longest

VARIABLES
  ever,     \* a telemetry has been sent
  since,    \* the time since the last one
  window,   \* the time since the window began
  count     \* the telemetries since then

hvars == <<vars, ever, since, window, count>>

HInit == Init /\ ever = FALSE /\ since = 0 /\ window = 0 /\ count = 0

Mark ==
  /\ at = "poll"
  /\ window' = 0 /\ count' = 0
  /\ UNCHANGED <<vars, ever, since>>

HTick ==
  /\ Tick
  /\ window < MaxWindow
  /\ window' = window + 1
  /\ since' = IF ever THEN since + 1 ELSE since
  /\ UNCHANGED <<ever, count>>

HSend ==
  /\ Send
  /\ ever' = TRUE /\ since' = 0
  /\ count' = count + 1
  /\ UNCHANGED window

Others ==
  Rest \/ Due \/ Skip \/ Sent \/ Configure \/ StatusChange \/ MissionStart \/ TestMode

HNext ==
  \/ Mark \/ HTick \/ HSend
  \/ Others /\ UNCHANGED <<ever, since, window, count>>

(* A window at its bound gives way to another, so that time goes on.            *)
HSpec ==
  /\ HInit /\ [][HNext]_hvars
  /\ WF_hvars(HTick) /\ WF_hvars(RadioProcess /\ HNext) /\ WF_hvars(Mark)

(* However long the radio was busy, however often mission, status and interval  *)
(* changed the period, no window holds more telemetries than periods of the     *)
(* shortest kind, but for those owed when it began ("Avoid sending multiple     *)
(* messages the radio is busy for a long time", radio_process()).               *)
Paced == count > 0 => (count - 1) * Shortest <= window + Longest

(* A round that finds nothing to send is at most a period after the last        *)
(* telemetry: catching up never costs one (radio_process()).                    *)
NeverLate == at = "poll" /\ ever /\ age <= Period => since <= Period
=============================================================================
