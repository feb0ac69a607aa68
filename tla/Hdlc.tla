-------------------------------- MODULE Hdlc --------------------------------
(***************************************************************************)
(* The line code of the modem (bertos/net/afsk.c): bit stuffing and NRZI   *)
(* in afsk_dac_isr(), edges, flags and destuffing in afsk_adc_isr() and    *)
(* hdlc_parse(), as functions on a link: a modulator and the demodulator   *)
(* that hears it.                                                          *)
(*                                                                         *)
(* A symbol is a flag, which is not stuffed, or a character, which is.     *)
(* The tones are perfect: what the filters make of them is not modelled.   *)
(***************************************************************************)
EXTENDS Integers, Sequences, SequencesExt

Flag == 126             \* HDLC_FLAG, 0x7E
Reset == 127            \* HDLC_RESET, 0x7F
Esc == 27               \* AX25_ESC, 0x1B
StuffLen == 5           \* BIT_STUFF_LEN

FlagSymbol == [byte |-> Flag, char |-> FALSE]
Char(c) == [byte |-> c, char |-> TRUE]

\* What looks like a symbol is marked by an escape before it, in the FIFOs only.
Special(c) == c \in {Flag, Reset, Esc}
Unit(c) == IF Special(c) THEN <<Esc, c>> ELSE <<c>>

-----------------------------------------------------------------------------
(* afsk_adc_isr() and hdlc_parse(): the demodulator, with what it has pushed *)
(* to ax25_poll().                                                           *)

\* mutant: the receiver forgets about stuffing
SeesNoStuffing(bits) == FALSE

SeesStuffing(bits) == bits % 64 = 62

\* A bit of a character; with the eighth it is pushed.
TakeBit(r, bit) ==
  LET char == r.char + 128 * bit IN
    IF r.idx = 7
    THEN [r EXCEPT !.out = @ \o Unit(char), !.char = 0, !.idx = 0]
    ELSE [r EXCEPT !.char = char \div 2, !.idx = @ + 1]

Parse(r, bit) ==
  CASE r.bits = Flag ->
         [r EXCEPT !.out = Append(@, Flag), !.start = TRUE, !.char = 0, !.idx = 0]
    [] r.bits # Flag /\ r.bits % 128 = Reset -> [r EXCEPT !.start = FALSE]
    [] r.bits # Flag /\ r.bits % 128 # Reset /\ r.start /\ ~SeesStuffing(r.bits) ->
         TakeBit(r, bit)
    [] OTHER -> r

\* A bit is a one when the tone has not changed.
Hear(r, tone) ==
  LET bit == IF tone = r.found THEN 1 ELSE 0 IN
    Parse([r EXCEPT !.found = tone, !.bits = (2 * @ + bit) % 256], bit)

-----------------------------------------------------------------------------
(* afsk_dac_isr(): the modulator of a link, heard tone by tone.             *)

Silent == [tone |-> 0, ones |-> 0, char |-> FALSE]

\* The bits of a byte, the lowest first.
Weight == <<1, 2, 4, 8, 16, 32, 64, 128>>
Bit(byte, i) == (byte \div Weight[i]) % 2

\* A zero changes the tone.
Send(link, bit) ==
  LET s == link.mod
      tone == IF bit = 1 THEN s.tone ELSE 1 - s.tone
  IN  [mod |-> [s EXCEPT !.tone = tone, !.ones = IF bit = 1 THEN @ + 1 ELSE 0],
       dem |-> Hear(link.dem, tone)]

\* A zero is due before the next bit.  After the last bit of a character it is
\* left to the symbol that follows, which may be a flag and have none.
Stuffing(s) == s.char /\ s.ones >= StuffLen

SendBit(link, bit) == Send(IF Stuffing(link.mod) THEN Send(link, 0) ELSE link, bit)

\* The counter of the ones goes on from one character to the next.
Load(link, x) ==
  [link EXCEPT !.mod.ones = IF link.mod.char THEN @ ELSE 0, !.mod.char = x.char]

SendSymbol(link, x) ==
  LET Sent(l, i) == SendBit(l, Bit(x.byte, i)) IN
    Sent(Sent(Sent(Sent(Sent(Sent(Sent(Sent(Load(link, x), 1), 2), 3), 4), 5), 6), 7), 8)

\* A link after a sequence of symbols.
Carried(link, symbols) ==
  LET after[i \in 0..Len(symbols)] ==
        IF i = 0 THEN link ELSE SendSymbol(after[i - 1], symbols[i])
  IN  after[Len(symbols)]

\* What the symbols are to push.
AsHeard(x) == IF x.char THEN Unit(x.byte) ELSE <<Flag>>

-----------------------------------------------------------------------------
TwoFlags == <<FlagSymbol, FlagSymbol>>

\* A link that has followed a preamble, with nothing pushed yet.
Follow(r) == [Carried([mod |-> Silent, dem |-> r], TwoFlags) EXCEPT !.dem.out = <<>>]

Ready == Follow([found |-> 0, bits |-> 0, char |-> 0, idx |-> 0, start |-> FALSE, out |-> <<>>])

\* What noise may have left in the demodulator.  The first flag clears char and idx:
\* before it they only decide how soon the next character is pushed.
Noisy ==
  [found : 0..1, bits : 0..255, char : {0}, idx : {0, 7}, start : BOOLEAN, out : {<<>>}]

\* Two flags bring the link into the same state, whatever noise was before.
Settles == \A r \in Noisy : Follow(r) = Ready

Passes(a, b) ==
  Carried(Ready, <<Char(a), Char(b), FlagSymbol>>).dem.out = Unit(a) \o Unit(b) \o <<Flag>>

\* The characters that end or begin with a run of ones, or look like another symbol.
Edges == {0, 27, 31, 126, 127, 248, 255}
=============================================================================
