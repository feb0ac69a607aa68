---------------------------- MODULE BootHistory ----------------------------
(***************************************************************************)
(* Boot with what the flash held when the loader started, and the          *)
(* properties that need it.                                                *)
(***************************************************************************)
EXTENDS Boot

VARIABLES
  before,     \* the flash when the loader started
  troubled    \* the card has failed since

bvars == <<vars, before, troubled>>

BInit == Init /\ before = flash /\ troubled = FALSE

BLoader ==
  \/ Step /\ UNCHANGED <<before, troubled>>
  \/ CardFails /\ troubled' = TRUE /\ UNCHANGED before

BPowerUp == PowerUp /\ before' = flash' /\ troubled' = FALSE

BNext == BLoader \/ BPowerUp

BSpec == BInit /\ [][BNext]_bvars /\ WF_bvars(BLoader)

HoldsCard(image) == \A p \in 0..Len(card) - 1 : image[p] = card[p + 1]

(* What the application finds, whatever earlier interrupted copies left in the  *)
(* flash: the file of the card, if the card could be read, and else the flash   *)
(* as it was, unless a failure has spoiled the copy of this very run            *)
(* (boot/main.c; the error paths that jump to the application too).             *)
Outcome ==
  pc = "app" /\ ~spoiled =>
    IF Fits /\ ~troubled THEN HoldsCard(flash) ELSE flash = before

(* At every moment, copy or failure, a page holds what it held, or the page of  *)
(* the file that belongs there, or is torn; the pages after the file are left   *)
(* alone (the positions of the two files, kblock_loadPage()).                   *)
InPlace ==
  \A p \in 0..Pages - 1 :
    flash[p] # before[p] =>
      /\ Fits /\ p < Len(card)
      /\ flash[p] \in {card[p + 1], Torn}

(* A flash that holds the file already is not programmed again, however the     *)
(* length of the file falls between two chunks of the comparison.               *)
NoNeedlessWrite == dirty => ~HoldsCard(before)

(* Whatever fails, the application is started.                                  *)
AlwaysStarts == []<>(pc = "app")
=============================================================================
