-------------------------------- MODULE Boot --------------------------------
(***************************************************************************)
(* The boot loader (boot/main.c) with the block layer it writes through    *)
(* (bertos/io/kfile_block.c, bertos/io/kblock.c, the AT91 flash driver).   *)
(*                                                                         *)
(* The loader compares the firmware file on the SD card with the flash,    *)
(* chunk by chunk; where they differ it copies the whole file.  The flash  *)
(* is written a page at a time through a buffer of one page: a page        *)
(* reaches the flash when the next one is loaded, the last one in the      *)
(* flush at the end.  Whatever happened, the application is started.       *)
(*                                                                         *)
(* A file is the sequence of its pages; of a last page that is not full    *)
(* only the part inside the file counts.  The card can be changed, and the *)
(* power can fail, at any moment; a page that is being programmed is then  *)
(* left Torn.                                                              *)
(***************************************************************************)
EXTENDS Integers, Sequences

CONSTANTS
  Pages,     \* pages of flash after the loader itself
  Chunk,     \* pages of fw_buf
  Data,      \* contents of a page
  Torn,      \* what an interrupted programming leaves in one
  Files,     \* the firmware files a card may hold
  NoFile,    \* no card, a card that cannot be mounted, or no file on it
  MaxBoots   \* bound: times the power fails or the board is reset

Page == Data \cup {Torn}

ASSUME BootConstants ==
  /\ Pages \in Nat \ {0} /\ Chunk \in Nat \ {0} /\ MaxBoots \in Nat
  /\ Torn \notin Data /\ Data # {}
  /\ Files \subseteq Seq(Data) /\ NoFile \notin Files

VARIABLES
  flash,     \* pages 0..Pages-1
  card,      \* the firmware file, or NoFile
  pc,
  len,       \* fw_len, in pages
  fpos,      \* the position in the file
  kpos,      \* the position in kflash
  got,       \* the pages of fw_buf that are not yet written
  buf, curr, dirty,   \* the page buffer of the flash
  spoiled,   \* the copy has been given up
  boots

cache == <<buf, curr, dirty>>
vars == <<flash, card, pc, len, fpos, kpos, got, cache, spoiled, boots>>

Label == {"open", "compare", "rewind", "read", "write", "end", "app"}

TypeOK ==
  /\ flash \in [0..Pages - 1 -> Page]
  /\ card \in Files \cup {NoFile}
  /\ pc \in Label
  /\ len \in Nat /\ fpos \in Nat /\ kpos \in Nat
  /\ got \in Seq(Data)
  /\ buf \in Page /\ curr \in 0..Pages - 1 /\ dirty \in BOOLEAN
  /\ spoiled \in BOOLEAN
  /\ boots \in 0..MaxBoots

Least(a, b) == IF a < b THEN a ELSE b

(* kblock_read(): the buffered page is read from the buffer. *)
View == [flash EXCEPT ![curr] = buf]

(* flash_init() and kblock_trim() leave the first page in the buffer. *)
Init ==
  /\ flash \in [0..Pages - 1 -> Page]
  /\ card \in Files \cup {NoFile}
  /\ pc = "open" /\ len = 0 /\ fpos = 0 /\ kpos = 0 /\ got = <<>>
  /\ buf = flash[0] /\ curr = 0 /\ dirty = FALSE
  /\ spoiled = FALSE /\ boots = 0

(* The file is there and not larger than the flash. *)
Fits == card # NoFile /\ Len(card) <= Pages

(* mutant: the file is copied without a comparison *)
OpenAndCopy ==
  /\ pc = "open"
  /\ IF Fits THEN pc' = "rewind" /\ len' = Len(card)
     ELSE pc' = "end" /\ UNCHANGED len
  /\ UNCHANGED <<flash, card, fpos, kpos, got, cache, spoiled, boots>>

Open ==
  /\ pc = "open"
  /\ IF Fits THEN pc' = "compare" /\ len' = Len(card)
     ELSE pc' = "end" /\ UNCHANGED len
  /\ UNCHANGED <<flash, card, fpos, kpos, got, cache, spoiled, boots>>

(* mutant: a card that fails is tried again *)
CardTriedAgain ==
  /\ pc \in {"open", "compare", "read"}
  /\ pc' = "open" /\ fpos' = 0 /\ kpos' = 0
  /\ spoiled' = (spoiled \/ pc = "read")
  /\ UNCHANGED <<flash, card, len, got, cache, boots>>

(* The card answers no more: sd_init(), f_mount(), fatfile_open() or            *)
(* kfile_read() fails.                                                          *)
CardFails ==
  /\ pc \in {"open", "compare", "read"}
  /\ pc' = "end"
  /\ spoiled' = (spoiled \/ pc = "read")
  /\ UNCHANGED <<flash, card, len, fpos, kpos, got, cache, boots>>

(* memcmp() of the next chunk of the file and of the flash. *)
Size == Least(Chunk, len)
Equal == \A i \in 0..Size - 1 : View[kpos + i] = card[fpos + i + 1]

Compare ==
  /\ pc = "compare"
  /\ IF len = 0 THEN pc' = "end" /\ UNCHANGED <<len, fpos, kpos>>
     ELSE /\ fpos' = fpos + Size /\ kpos' = kpos + Size
          /\ IF Equal THEN len' = len - Size /\ UNCHANGED pc
             ELSE pc' = "rewind" /\ UNCHANGED len
  /\ UNCHANGED <<flash, card, got, cache, spoiled, boots>>

(* mutant: only the file is rewound *)
RewindFile ==
  /\ pc = "rewind"
  /\ pc' = "read"
  /\ len' = Len(card) /\ fpos' = 0
  /\ UNCHANGED <<flash, card, kpos, got, cache, spoiled, boots>>

Rewind ==
  /\ pc = "rewind"
  /\ pc' = "read"
  /\ len' = Len(card) /\ fpos' = 0 /\ kpos' = 0
  /\ UNCHANGED <<flash, card, got, cache, spoiled, boots>>

(* One turn of the copy: a chunk of the file, then its pages one by one. *)
Read ==
  /\ pc = "read"
  /\ IF len = 0 THEN pc' = "end" /\ UNCHANGED <<got, fpos>>
     ELSE /\ got' = SubSeq(card, fpos + 1, fpos + Size)
          /\ fpos' = fpos + Size
          /\ pc' = "write"
  /\ UNCHANGED <<flash, card, len, kpos, cache, spoiled, boots>>

(* kblock_flush(): the dirty page is programmed. *)
Stored == IF dirty THEN [flash EXCEPT ![curr] = buf] ELSE flash

(* kblock_write(): kblock_loadPage() stores the page of the buffer, if it is    *)
(* dirty, before it loads another.                                              *)
Write ==
  /\ pc = "write"
  /\ flash' = IF kpos = curr THEN flash ELSE Stored
  /\ curr' = kpos /\ buf' = Head(got) /\ dirty' = TRUE
  /\ kpos' = kpos + 1 /\ got' = Tail(got) /\ len' = len - 1
  /\ pc' = IF Len(got) = 1 THEN "read" ELSE "write"
  /\ UNCHANGED <<card, fpos, spoiled, boots>>

(* flash_getStatus() reports an error: kfile_write() returns less, and the copy *)
(* is given up with the page still in the buffer; the error of kfile_flush() is *)
(* not looked at.                                                               *)
WriteFails ==
  /\ pc = "write" /\ kpos # curr /\ dirty
  /\ \E page \in {flash[curr], Torn} : flash' = [flash EXCEPT ![curr] = page]
  /\ pc' = "end" /\ spoiled' = TRUE
  /\ UNCHANGED <<card, len, fpos, kpos, got, cache, boots>>

FlushFails ==
  /\ pc = "end" /\ dirty
  /\ \E page \in {flash[curr], Torn} : flash' = [flash EXCEPT ![curr] = page]
  /\ pc' = "app" /\ spoiled' = TRUE
  /\ UNCHANGED <<card, len, fpos, kpos, got, cache, boots>>

(* mutant: without the kfile_flush() at the end *)
StartAtOnce ==
  /\ pc = "end"
  /\ pc' = "app"
  /\ UNCHANGED <<flash, card, len, fpos, kpos, got, cache, spoiled, boots>>

(* kfile_flush(), then START_APP(). *)
Start ==
  /\ pc = "end"
  /\ flash' = Stored /\ dirty' = FALSE
  /\ pc' = "app"
  /\ UNCHANGED <<card, len, fpos, kpos, got, buf, curr, spoiled, boots>>

(* The power fails, or the application resets the board; the card may have been *)
(* changed when the loader runs again.                                          *)
Programming == dirty /\ (pc = "end" \/ (pc = "write" /\ kpos # curr))

PowerUp ==
  /\ boots < MaxBoots
  /\ boots' = boots + 1
  /\ \/ UNCHANGED flash
     \/ Programming /\ flash' = [flash EXCEPT ![curr] = Torn]
  /\ card' \in Files \cup {NoFile}
  /\ pc' = "open" /\ len' = 0 /\ fpos' = 0 /\ kpos' = 0 /\ got' = <<>>
  /\ buf' = flash'[0] /\ curr' = 0 /\ dirty' = FALSE
  /\ spoiled' = FALSE

Step ==
  Open \/ Compare \/ Rewind \/ Read \/ Write \/ Start \/ WriteFails \/ FlushFails

Loader == Step \/ CardFails

Next == Loader \/ PowerUp

Spec == Init /\ [][Next]_vars /\ WF_vars(Loader)
=============================================================================
