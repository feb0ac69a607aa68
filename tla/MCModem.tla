------------------------------- MODULE MCModem -------------------------------
(* A small instance of Modem for TLC: characters that look like a reset, a flag *)
(* and an escape, in frames of one and two characters.                          *)
EXTENDS Modem

MCFrames == << <<Reset>>, <<Flag, Esc>> >>
=============================================================================
