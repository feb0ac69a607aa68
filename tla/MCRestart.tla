----------------------------- MODULE MCRestart -----------------------------
(* A small instance of Restart for TLC: files shorter than the flash, as long   *)
(* as it and longer.  A page of the flash is the one of the file or another     *)
(* (Torn), in the first chunk or in the last.                                   *)
EXTENDS Restart

MCFiles == {<<1>>, <<1, 1, 1>>, <<1, 1, 1, 1>>}
MCNoFile == <<0>>
=============================================================================
