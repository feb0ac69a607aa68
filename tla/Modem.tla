------------------------------- MODULE Modem -------------------------------
(***************************************************************************)
(* A frame on its way over the air: ax25_sendVia() and afsk_write() on one *)
(* side, hdlc_parse()'s FIFO and ax25_poll() on the other, with the two    *)
(* interrupts of the modem between them (bertos/net/ax25.c, afsk.c).       *)
(*                                                                         *)
(* The writer pushes the characters of a frame into a FIFO and starts the  *)
(* modulator; the interrupt takes them out, one for each symbol on the     *)
(* air, and stops by itself when it finds nothing.  The receiver pushes    *)
(* each symbol into a second FIFO, which its process polls.  Neither waits *)
(* for the other: what keeps a process from the CPU (another process that  *)
(* writes to the SD card, the execution of a command) lets its FIFO run    *)
(* empty or full.                                                          *)
(*                                                                         *)
(* A symbol arrives as it was sent: that is what Hdlc shows, bit by bit.   *)
(* Frames differ, and the checksum is perfect: no other characters have    *)
(* that of a frame.  Between transmissions the receiver hears noise.       *)
(***************************************************************************)
EXTENDS Hdlc

CONSTANTS
  Frames,      \* the contents of the frames, in the order in which they are sent
  TxRoom,      \* what the FIFO of the sender holds: one less than its length
  RxRoom,
  FrameBuf,    \* CONFIG_AX25_FRAME_BUF_LEN
  MinFrame,    \* AX25_MIN_FRAME_LEN
  Preamble,    \* preamble_len of a transmission, in symbols
  Trailer,     \* trailer_len
  MaxNoise     \* bound: symbols that noise looks like

Sent == 1..Len(Frames)

ASSUME ModemConstants ==
  /\ Frames \in Seq(Seq(0..255))
  /\ \A k \in Sent : Len(Frames[k]) + 1 \in MinFrame..FrameBuf
  /\ \A j, k \in Sent : j # k => Frames[j] # Frames[k]
  /\ {TxRoom, RxRoom, FrameBuf, MinFrame, Preamble, Trailer} \subseteq Nat \ {0}
  /\ MaxNoise \in Nat

VARIABLES
  next,        \* the frames that have begun
  todo, pc,    \* the characters that ax25_sendVia() has still to write, and afsk_write()
  txFifo, sending, preamble, trailer,
  rxFifo, rxstart,
  sync, escape, frame,    \* the AX25Ctx of the receiver; frame is the used part of buf
  received,    \* the frames the hook was called for
  noise,       \* the noise there has been
  onAir,       \* the frame that the interrupt is taking from the FIFO, and how far
  took,
  hit          \* frames with an underrun or an overrun on their way

writer == <<next, todo, pc>>
dac == <<txFifo, sending, preamble, trailer>>
adc == <<rxFifo, rxstart>>
ctx == <<sync, escape, frame, received>>
track == <<onAir, took, hit>>
vars == <<writer, dac, adc, ctx, noise, track>>

Init ==
  /\ next = 0 /\ todo = <<>> /\ pc = "idle"
  /\ txFifo = <<>> /\ sending = FALSE /\ preamble = 0 /\ trailer = 0
  /\ rxFifo = <<>> /\ rxstart = FALSE
  /\ sync = FALSE /\ escape = FALSE /\ frame = <<>> /\ received = <<>>
  /\ noise = 0
  /\ onAir = 0 /\ took = 0 /\ hit = {}

\* The checksum of a frame, as a character that is in no frame.
Crc(k) == 1000 + k

\* mutant: characters that look like a flag are not escaped
EscapedNot(s) == s

Escaped(s) == FlattenSeq([i \in 1..Len(s) |-> Unit(s[i])])

\* What ax25_sendVia() writes.
Line(k) == <<Flag>> \o Escaped(Append(Frames[k], Crc(k))) \o <<Flag>>

-----------------------------------------------------------------------------
(* The writer.                                                              *)

Begin ==
  /\ pc = "idle" /\ next < Len(Frames)
  /\ next' = next + 1
  /\ todo' = Line(next + 1)
  /\ pc' = "push"
  /\ UNCHANGED <<dac, adc, ctx, noise, track>>

\* mutant: the FIFO is not looked at
PushAnyway ==
  /\ pc = "push"
  /\ txFifo' = Append(txFifo, Head(todo))
  /\ todo' = Tail(todo)
  /\ pc' = "start"
  /\ UNCHANGED <<next, sending, preamble, trailer, adc, ctx, noise, track>>

\* afsk_write(): when the FIFO is full, the process yields.
Push ==
  /\ pc = "push"
  /\ Len(txFifo) < TxRoom
  /\ txFifo' = Append(txFifo, Head(todo))
  /\ todo' = Tail(todo)
  /\ pc' = "start"
  /\ UNCHANGED <<next, sending, preamble, trailer, adc, ctx, noise, track>>

\* mutant: the modulator is started with the first character of a frame only
StartOnce ==
  /\ pc = "start"
  /\ IF ~sending /\ Len(todo) = Len(Line(next)) - 1
     THEN sending' = TRUE /\ preamble' = Preamble
     ELSE UNCHANGED <<sending, preamble>>
  /\ pc' = "trail"
  /\ UNCHANGED <<next, todo, txFifo, trailer, adc, ctx, noise, track>>

\* afsk_txStart(): the interrupt may have stopped since the push, or go on.
Start ==
  /\ pc = "start"
  /\ IF ~sending
     THEN sending' = TRUE /\ preamble' = Preamble
     ELSE UNCHANGED <<sending, preamble>>
  /\ pc' = "trail"
  /\ UNCHANGED <<next, todo, txFifo, trailer, adc, ctx, noise, track>>

SetTrailer ==
  /\ pc = "trail"
  /\ trailer' = Trailer
  /\ pc' = IF todo = <<>> THEN "idle" ELSE "push"
  /\ UNCHANGED <<next, todo, txFifo, sending, preamble, adc, ctx, noise, track>>

-----------------------------------------------------------------------------
(* The receiving interrupt: what a symbol does to the second FIFO.          *)

\* As many as there is room for; whatever is lost ends the frame.
Pushed(chars) ==
  LET room == RxRoom - Len(rxFifo) IN
    IF Len(chars) <= room
    THEN rxFifo' = rxFifo \o chars /\ UNCHANGED rxstart
    ELSE rxFifo' = rxFifo \o SubSeq(chars, 1, room) /\ rxstart' = FALSE

HearFlag ==
  IF Len(rxFifo) < RxRoom
  THEN rxFifo' = Append(rxFifo, Flag) /\ rxstart' = TRUE
  ELSE rxstart' = FALSE /\ UNCHANGED rxFifo

HearChar(c) ==
  IF rxstart THEN Pushed(Unit(c)) ELSE UNCHANGED adc

HearReset == rxstart' = FALSE /\ UNCHANGED rxFifo

Overrun(chars) == Len(rxFifo) + Len(chars) > RxRoom

-----------------------------------------------------------------------------
(* The sending interrupt, once for each symbol.                             *)

Inside == onAir > 0 /\ took < Len(Line(onAir))

\* The frames that an overrun may cost: the one on the air, and the next when that
\* is at its end or over, since an escape left behind in the FIFO hides a flag.
Touched(frameNow, done) == {frameNow} \cup (IF done THEN {frameNow + 1} ELSE {})

\* n characters have left the FIFO; overrun says that the receiver lost one.
Taken(n, overrun) ==
  LET now == IF Inside THEN onAir ELSE onAir + 1
      far == IF Inside THEN took + n ELSE n
  IN /\ onAir' = now
     /\ took' = far
     /\ hit' = hit \cup (IF overrun THEN Touched(now, far = Len(Line(now))) ELSE {})

Underrun ==
  /\ hit' = IF Inside THEN hit \cup {onAir} ELSE hit
  /\ UNCHANGED <<onAir, took>>

Stop ==
  /\ sending
  /\ txFifo = <<>> /\ trailer = 0
  /\ sending' = FALSE
  /\ Underrun
  /\ UNCHANGED <<writer, txFifo, preamble, trailer, adc, ctx, noise>>

PreambleFlag ==
  /\ sending
  /\ txFifo # <<>> \/ trailer > 0
  /\ preamble > 0
  /\ preamble' = preamble - 1
  /\ HearFlag
  /\ UNCHANGED <<writer, txFifo, sending, trailer, ctx, noise, track>>

TrailerFlag ==
  /\ sending /\ preamble = 0
  /\ txFifo = <<>> /\ trailer > 0
  /\ trailer' = trailer - 1
  /\ HearFlag
  /\ hit' = IF Inside THEN hit \cup {onAir} ELSE hit
  /\ UNCHANGED <<writer, txFifo, sending, preamble, ctx, noise, onAir, took>>

\* An escaped character, whose escape only says that it is no flag.
EscapedChar ==
  /\ sending /\ preamble = 0
  /\ Len(txFifo) > 1 /\ Head(txFifo) = Esc
  /\ txFifo' = Tail(Tail(txFifo))
  /\ HearChar(txFifo[2])
  /\ Taken(2, rxstart /\ Overrun(Unit(txFifo[2])))
  /\ UNCHANGED <<writer, sending, preamble, trailer, ctx, noise>>

\* The escape is there, its character is not yet: the modulator stops.
EscapeLost ==
  /\ sending /\ preamble = 0
  /\ txFifo = <<Esc>>
  /\ txFifo' = <<>>
  /\ sending' = FALSE
  /\ onAir' = onAir /\ took' = took + 1
  /\ hit' = hit \cup {onAir}
  /\ UNCHANGED <<writer, preamble, trailer, adc, ctx, noise>>

\* A character behind a lost escape may be taken for a flag or a reset.
PlainChar ==
  /\ sending /\ preamble = 0
  /\ txFifo # <<>> /\ Head(txFifo) # Esc
  /\ txFifo' = Tail(txFifo)
  /\ \/ Head(txFifo) = Flag /\ HearFlag /\ Taken(1, Overrun(<<Flag>>))
     \/ Head(txFifo) = Reset /\ HearReset /\ Taken(1, FALSE)
     \/ /\ Head(txFifo) \notin {Flag, Reset}
        /\ HearChar(Head(txFifo))
        /\ Taken(1, rxstart /\ Overrun(<<Flag>>))
  /\ UNCHANGED <<writer, sending, preamble, trailer, ctx, noise>>

\* While nobody sends, noise may look like anything: a flag, a character, or the
\* row of ones of a reset.
Noise ==
  /\ ~sending /\ noise < MaxNoise
  /\ noise' = noise + 1
  /\ \/ HearFlag /\ Overrun(<<Flag>>) /\ hit' = hit \cup Touched(onAir, TRUE)
     \/ HearFlag /\ ~Overrun(<<Flag>>) /\ UNCHANGED hit
     \/ \E c \in {0, Flag, Esc} :
          /\ HearChar(c)
          /\ hit' = IF rxstart /\ Overrun(Unit(c))
                    THEN hit \cup Touched(onAir, TRUE) ELSE hit
     \/ HearReset /\ UNCHANGED hit
  /\ UNCHANGED <<writer, dac, ctx, onAir, took>>

-----------------------------------------------------------------------------
(* ax25_poll(), a character at a time.                                      *)

Correct == Len(frame) >= MinFrame /\ \E k \in Sent : frame = Append(Frames[k], Crc(k))

\* mutant: the end of a frame does not empty the buffer
PollFlagKeeps ==
  /\ sync' = TRUE
  /\ received' = IF Correct THEN Append(received, CHOOSE k \in Sent : frame = Append(Frames[k], Crc(k)))
                 ELSE received
  /\ UNCHANGED <<frame, escape>>

PollFlag ==
  /\ received' = IF Correct THEN Append(received, CHOOSE k \in Sent : frame = Append(Frames[k], Crc(k)))
                 ELSE received
  /\ sync' = TRUE
  /\ frame' = <<>>
  /\ UNCHANGED escape

PollEscape == escape' = TRUE /\ UNCHANGED <<sync, frame, received>>

\* A reset that is not escaped ends the frame, as a full buffer does.
PollChar(c) ==
  /\ escape' = FALSE
  /\ IF sync /\ Len(frame) < FrameBuf /\ (escape \/ c # Reset)
     THEN frame' = Append(frame, c) /\ UNCHANGED sync
     ELSE sync' = FALSE /\ UNCHANGED frame
  /\ UNCHANGED received

Poll ==
  /\ rxFifo # <<>>
  /\ rxFifo' = Tail(rxFifo)
  /\ LET c == Head(rxFifo) IN
       \/ ~escape /\ c = Flag /\ PollFlag
       \/ ~escape /\ c = Esc /\ PollEscape
       \/ escape /\ PollChar(c)
       \/ ~escape /\ c \notin {Flag, Esc} /\ PollChar(c)
  /\ UNCHANGED <<writer, dac, rxstart, noise, track>>

-----------------------------------------------------------------------------
Writer == Begin \/ Push \/ Start \/ SetTrailer
Modulator == Stop \/ PreambleFlag \/ TrailerFlag \/ EscapedChar \/ EscapeLost \/ PlainChar

Next == Writer \/ Modulator \/ Noise \/ Poll

Spec == Init /\ [][Next]_vars /\ WF_vars(Push \/ Start \/ SetTrailer) /\ WF_vars(Modulator)

-----------------------------------------------------------------------------

(* Every variable keeps its type; the FIFOs and the buffer hold their room.     *)
TypeOK ==
  /\ next \in 0..Len(Frames) /\ Len(todo) \in Nat
  /\ pc \in {"idle", "push", "start", "trail"}
  /\ Len(txFifo) <= TxRoom /\ sending \in BOOLEAN
  /\ preamble \in 0..Preamble /\ trailer \in 0..Trailer
  /\ Len(rxFifo) <= RxRoom /\ rxstart \in BOOLEAN
  /\ sync \in BOOLEAN /\ escape \in BOOLEAN /\ Len(frame) <= FrameBuf
  /\ noise \in 0..MaxNoise /\ onAir \in 0..next /\ hit \subseteq 0..Len(Frames) + 1

Complete(k) == k < onAir \/ (k = onAir /\ ~Inside)

(* A frame that has been sent and polled has reached the hook, unless its       *)
(* writer was kept from the CPU until the FIFO ran empty in the middle of it,   *)
(* or the poller until its own ran full in it or next to it: neither noise, nor *)
(* characters that look like flags, nor an escape that was cut off in the FIFO, *)
(* nor flags that were lost before it cost a frame (ax25_poll(), hdlc_parse()). *)
LostOnlyIfHit ==
  rxFifo = <<>> => \A k \in Sent : Complete(k) => k \in ToSet(received) \cup hit

(* Frames arrive in their order, and none twice.                                *)
InOrder == \A i, j \in 1..Len(received) : i < j => received[i] < received[j]

(* Whatever noise was before, two flags of the preamble bring the line into     *)
(* step; and any two characters one after the other, the second or the first of *)
(* them on an edge of the bit stuffing, come out as they went in, with an escape *)
(* before those that look like a flag, a reset or an escape, and the flag after *)
(* them is seen (afsk_dac_isr() against hdlc_parse()).  None of this depends on *)
(* the state: it is evaluated once, in the initial one.                         *)
Transparent ==
  Init =>
    /\ Settles
    /\ \A a \in 0..255 : \A b \in Edges : Passes(a, b) /\ Passes(b, a)

(* The modulator is never left off with characters to send, nor on without: a   *)
(* writer always finishes, whichever moment the interrupt chooses to stop       *)
(* between the push and the start (afsk_txStart(), afsk_dac_isr()).             *)
Drains == []<>(pc = "idle" /\ txFifo = <<>> /\ ~sending)
=============================================================================
