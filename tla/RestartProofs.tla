---------------------------- MODULE RestartProofs ----------------------------
(***************************************************************************)
(* Proofs about the boot loader, for any size of the flash and of the      *)
(* chunks, any files and any contents of the flash; about the power of the *)
(* auxiliary devices; and about the restart of the board, where the one    *)
(* comes before the other.                                                 *)
(***************************************************************************)
EXTENDS Restart, TLAPS

-----------------------------------------------------------------------------
(* The boot loader.                                                          *)


Upto(image, n) == \A p \in 0..n - 1 : image[p] = card[p + 1]

\* The page buffer: a dirty page is one of the file, a clean one is in the flash.
CacheInv ==
  /\ ~dirty /\ pc # "app" => buf = flash[curr]
  /\ dirty => Fits /\ curr < Len(card) /\ buf = card[curr + 1]

\* Up to the copy the flash is as it was.
UntouchedInv ==
  /\ pc \in {"open", "compare", "rewind"} =>
       ~dirty /\ flash = before /\ ~spoiled /\ ~troubled
  /\ pc = "open" => fpos = 0 /\ kpos = 0 /\ got = <<>>
  /\ pc = "compare" =>
       /\ Fits /\ fpos = kpos /\ kpos + len = Len(card)
       /\ Upto(flash, kpos) /\ got = <<>>

\* The copy is at the same place in the file and in the flash.
CopyInv ==
  /\ pc \in {"rewind", "read", "write"} =>
       Fits /\ ~troubled /\ ~spoiled /\ ~HoldsCard(before)
  /\ pc \in {"read", "write"} => kpos + len = Len(card) /\ Upto(View, kpos)
  /\ pc \in {"rewind", "read"} => got = <<>>
  /\ pc = "read" => fpos = kpos
  /\ pc = "write" =>
       /\ fpos \in kpos + 1..Len(card)
       /\ got = SubSeq(card, kpos + 1, fpos)

EndInv ==
  pc = "end" /\ ~spoiled =>
    IF Fits /\ ~troubled THEN Upto(View, Len(card)) ELSE ~dirty /\ flash = before

BootInv ==
  /\ TypeOK /\ before \in [0..Pages - 1 -> Page] /\ troubled \in BOOLEAN
  /\ CacheInv /\ UntouchedInv /\ CopyInv /\ EndInv
  /\ Outcome /\ InPlace /\ NoNeedlessWrite

LEMMA CardFacts ==
  ASSUME card \in Files \cup {NoFile}, Fits
  PROVE  /\ card \in Seq(Data) /\ Len(card) \in Nat /\ Len(card) <= Pages
         /\ \A i \in 1..Len(card) : card[i] \in Data
  BY BootConstants DEF Fits

LEMMA SizeFacts ==
  ASSUME len \in Nat
  PROVE  /\ Size \in Nat /\ Size <= len
         /\ len > 0 => Size > 0
  BY BootConstants DEF Size, Least

LEMMA ViewFacts ==
  ASSUME TypeOK
  PROVE  /\ View \in [0..Pages - 1 -> Page]
         /\ \A p \in 0..Pages - 1 : View[p] = IF p = curr THEN buf ELSE flash[p]
         /\ buf = flash[curr] => View = flash
         /\ Stored = IF dirty THEN View ELSE flash
  <1>1. /\ View \in [0..Pages - 1 -> Page]
        /\ \A p \in 0..Pages - 1 : View[p] = IF p = curr THEN buf ELSE flash[p]
    BY DEF View, TypeOK
  <1>2. buf = flash[curr] => View = flash
    BY DEF View, TypeOK
  <1>3. Stored = IF dirty THEN View ELSE flash
    BY DEF Stored, View
  <1> QED
    BY <1>1, <1>2, <1>3

LEMMA InitBoot == BInit => BootInv
  <1> SUFFICES ASSUME BInit PROVE BootInv
    OBVIOUS
  <1> USE BootConstants
  <1>1. TypeOK
    <2>1. flash \in [0..Pages - 1 -> Page] /\ card \in Files \cup {NoFile} /\ pc \in Label
      BY DEF BInit, Init, Label
    <2>2. len \in Nat /\ fpos \in Nat /\ kpos \in Nat /\ got \in Seq(Data)
      BY DEF BInit, Init
    <2>3. 0 \in 0..Pages - 1
      OBVIOUS
    <2>4. buf \in Page /\ curr \in 0..Pages - 1
      BY <2>1, <2>3 DEF BInit, Init
    <2>5. dirty \in BOOLEAN /\ spoiled \in BOOLEAN
      BY DEF BInit, Init
    <2>6. boots \in 0..MaxBoots
      BY DEF BInit, Init
    <2> QED
      BY <2>1, <2>2, <2>4, <2>5, <2>6 DEF TypeOK
  <1>2. before = flash /\ troubled = FALSE /\ pc = "open" /\ ~dirty /\ ~spoiled
        /\ fpos = 0 /\ kpos = 0 /\ got = <<>> /\ buf = flash[curr]
    BY DEF BInit, Init
  <1>3. CacheInv /\ UntouchedInv /\ CopyInv /\ EndInv
    BY <1>2 DEF CacheInv, UntouchedInv, CopyInv, EndInv
  <1>4. Outcome /\ InPlace /\ NoNeedlessWrite
    BY <1>2 DEF Outcome, InPlace, NoNeedlessWrite
  <1>5. before \in [0..Pages - 1 -> Page] /\ troubled \in BOOLEAN
    BY <1>1, <1>2 DEF TypeOK
  <1> QED
    BY <1>1, <1>3, <1>4, <1>5 DEF BootInv

LEMMA PowerUpBoot ==
  BootInv /\ PowerUp /\ before' = flash' /\ troubled' = FALSE => BootInv'
  <1> SUFFICES ASSUME BootInv, PowerUp, before' = flash', troubled' = FALSE
               PROVE  BootInv'
    OBVIOUS
  <1> USE BootConstants
  <1>1. flash' \in [0..Pages - 1 -> Page]
    BY DEF PowerUp, BootInv, TypeOK, Page
  <1>2. TypeOK'
    <2>1. (card \in Files \cup {NoFile} /\ pc \in Label)'
      BY DEF PowerUp, Label
    <2>2. (len \in Nat /\ fpos \in Nat /\ kpos \in Nat /\ got \in Seq(Data))'
      BY DEF PowerUp
    <2>3. 0 \in 0..Pages - 1
      OBVIOUS
    <2>4. (buf \in Page /\ curr \in 0..Pages - 1)'
      BY <1>1, <2>3 DEF PowerUp
    <2>5. (dirty \in BOOLEAN /\ spoiled \in BOOLEAN)'
      BY DEF PowerUp
    <2>6. (boots \in 0..MaxBoots)'
      BY DEF PowerUp, BootInv, TypeOK
    <2> QED
      BY <1>1, <2>1, <2>2, <2>4, <2>5, <2>6 DEF TypeOK
  <1>3. /\ pc' = "open" /\ ~dirty' /\ ~spoiled' /\ fpos' = 0 /\ kpos' = 0 /\ got' = <<>>
        /\ buf' = flash'[curr']
    BY DEF PowerUp
  <1>4. CacheInv' /\ UntouchedInv' /\ CopyInv' /\ EndInv'
    BY <1>3 DEF CacheInv, UntouchedInv, CopyInv, EndInv
  <1>5. Outcome' /\ InPlace' /\ NoNeedlessWrite'
    BY <1>3 DEF Outcome, InPlace, NoNeedlessWrite
  <1>6. (before \in [0..Pages - 1 -> Page] /\ troubled \in BOOLEAN)'
    BY <1>1
  <1> QED
    BY <1>2, <1>4, <1>5, <1>6 DEF BootInv

\* The steps that leave the flash and its buffer alone.
LEMMA QuietBoot ==
  ASSUME BootInv, TypeOK', UNCHANGED <<flash, card, buf, curr, dirty, before>>,
         troubled' \in BOOLEAN, pc # "app", pc' # "app"
  PROVE  /\ (before \in [0..Pages - 1 -> Page] /\ troubled \in BOOLEAN)'
         /\ CacheInv' /\ Outcome' /\ InPlace' /\ NoNeedlessWrite'
  <1>1. CacheInv'
    BY DEF BootInv, CacheInv, Fits
  <1>2. Outcome'
    BY DEF Outcome
  <1>3. InPlace'
    BY DEF BootInv, InPlace, Fits
  <1>4. NoNeedlessWrite'
    BY DEF BootInv, NoNeedlessWrite, HoldsCard
  <1> QED
    BY <1>1, <1>2, <1>3, <1>4 DEF BootInv

LEMMA OpenBoot ==
  ASSUME BootInv, Open, UNCHANGED <<before, troubled>>
  PROVE  BootInv'
  <1> USE BootConstants
  <1>1. /\ UNCHANGED <<flash, card, fpos, kpos, got, buf, curr, dirty, spoiled, boots>>
        /\ pc = "open" /\ pc' \in {"compare", "end"}
        /\ pc' = "compare" => Fits /\ len' = Len(card)
        /\ pc' = "end" => ~Fits /\ len' = len
    BY DEF Open, cache
  <1>2. len' \in Nat
    BY <1>1, CardFacts DEF BootInv, TypeOK
  <1>3. TypeOK'
    <2>1. (dirty \in BOOLEAN /\ spoiled \in BOOLEAN)'
      BY <1>1 DEF BootInv, TypeOK
    <2> QED
      BY <1>1, <1>2, <2>1 DEF BootInv, TypeOK, Label
  <1>4. UntouchedInv'
    <2>1. pc' = "compare" => Upto(flash, kpos)'
      BY <1>1 DEF BootInv, UntouchedInv, Upto
    <2> QED
      BY <1>1, <1>2, <2>1 DEF BootInv, UntouchedInv, Fits
  <1>5. CopyInv' /\ EndInv'
    BY <1>1 DEF BootInv, UntouchedInv, CopyInv, EndInv, Fits
  <1> QED
    BY <1>1, <1>3, <1>4, <1>5, QuietBoot DEF BootInv

LEMMA CardFailsBoot ==
  ASSUME BootInv, CardFails, troubled' = TRUE, before' = before
  PROVE  BootInv'
  <1> USE BootConstants
  <1>1. /\ UNCHANGED <<flash, card, len, fpos, kpos, got, buf, curr, dirty, boots>>
        /\ pc \in {"open", "compare", "read"} /\ pc' = "end"
        /\ spoiled' = (spoiled \/ pc = "read")
    BY DEF CardFails, cache
  <1>2. TypeOK'
    <2>1. (dirty \in BOOLEAN)'
      BY <1>1 DEF BootInv, TypeOK
    <2>2. (spoiled \in BOOLEAN)'
      BY <1>1
    <2> QED
      BY <1>1, <2>1, <2>2 DEF BootInv, TypeOK, Label
  <1>3. UntouchedInv' /\ CopyInv'
    BY <1>1 DEF UntouchedInv, CopyInv
  <1>4. EndInv'
    BY <1>1 DEF BootInv, UntouchedInv, EndInv
  <1> QED
    BY <1>1, <1>2, <1>3, <1>4, QuietBoot DEF BootInv

LEMMA CompareBoot ==
  ASSUME BootInv, Compare, UNCHANGED <<before, troubled>>
  PROVE  BootInv'
  <1> USE BootConstants
  <1>1. /\ UNCHANGED <<flash, card, got, buf, curr, dirty, spoiled, boots>>
        /\ pc = "compare"
    BY DEF Compare, cache
  <1>2. /\ Fits /\ fpos = kpos /\ kpos + len = Len(card) /\ Upto(flash, kpos)
        /\ ~dirty /\ flash = before /\ ~spoiled /\ ~troubled /\ got = <<>>
        /\ buf = flash[curr] /\ View = flash
    BY <1>1, ViewFacts DEF BootInv, UntouchedInv, CacheInv
  <1>3. /\ card \in Seq(Data) /\ Len(card) \in Nat /\ Len(card) <= Pages
        /\ len \in Nat /\ kpos \in Nat /\ fpos \in Nat
    BY <1>2, CardFacts DEF BootInv, TypeOK
  <1>4. (dirty \in BOOLEAN /\ spoiled \in BOOLEAN)'
    BY <1>1 DEF BootInv, TypeOK
  <1>5. CASE len = 0
    <2>1. pc' = "end" /\ UNCHANGED <<len, fpos, kpos>>
      BY <1>5 DEF Compare
    <2>2. TypeOK'
      BY <1>1, <1>4, <2>1 DEF BootInv, TypeOK, Label
    <2>3. View' = View /\ Fits'
      BY <1>1, <1>2 DEF View, Fits
    <2>4. Upto(View, Len(card))'
      BY <1>1, <1>2, <1>3, <1>5, <2>3 DEF Upto
    <2>5. UntouchedInv' /\ CopyInv' /\ EndInv'
      BY <2>1, <2>3, <2>4, <1>1, <1>2 DEF UntouchedInv, CopyInv, EndInv
    <2> QED
      BY <1>1, <2>1, <2>2, <2>5, QuietBoot DEF BootInv
  <1>6. CASE len # 0
    <2>1. fpos' = fpos + Size /\ kpos' = kpos + Size
      BY <1>6 DEF Compare
    <2>2. Size \in Nat /\ Size <= len /\ Size > 0
      BY <1>3, <1>6, SizeFacts
    <2>3. \A i \in 0..Size - 1 : kpos + i \in 0..Len(card) - 1
      BY <1>2, <1>3, <2>2
    <2>4. CASE Equal
      <3>1. len' = len - Size /\ pc' = "compare"
        BY <1>1, <1>6, <2>4 DEF Compare
      <3>2. TypeOK'
        BY <1>1, <1>3, <1>4, <2>1, <2>2, <3>1 DEF BootInv, TypeOK, Label
      <3>3. Upto(flash, kpos)'
        <4> SUFFICES ASSUME NEW p \in 0..kpos + Size - 1
                     PROVE  flash[p] = card[p + 1]
          BY <1>1, <1>3, <2>1, <2>2 DEF Upto
        <4>1. CASE p < kpos
          BY <4>1, <1>2, <1>3 DEF Upto
        <4>2. CASE p >= kpos
          <5>1. p - kpos \in 0..Size - 1 /\ kpos + (p - kpos) = p
            BY <4>2, <1>3, <2>2
          <5> QED
            BY <5>1, <2>4, <1>2 DEF Equal
        <4> QED
          BY <4>1, <4>2, <1>3
      <3>4. UntouchedInv'
        BY <1>1, <1>2, <1>3, <2>1, <2>2, <3>1, <3>3 DEF UntouchedInv, Fits
      <3>5. CopyInv' /\ EndInv'
        BY <3>1 DEF CopyInv, EndInv
      <3> QED
        BY <1>1, <3>1, <3>2, <3>4, <3>5, QuietBoot DEF BootInv
    <2>5. CASE ~Equal
      <3>1. pc' = "rewind" /\ len' = len
        BY <1>6, <2>5 DEF Compare
      <3>2. TypeOK'
        BY <1>1, <1>3, <1>4, <2>1, <2>2, <3>1 DEF BootInv, TypeOK, Label
      <3>3. ~HoldsCard(before)
        <4>1. PICK i \in 0..Size - 1 : flash[kpos + i] # card[kpos + i + 1]
          BY <2>5, <1>2 DEF Equal
        <4> QED
          BY <4>1, <2>3, <1>2 DEF HoldsCard
      <3>4. UntouchedInv' /\ EndInv'
        BY <1>1, <1>2, <3>1 DEF UntouchedInv, EndInv
      <3>5. CopyInv'
        BY <1>1, <1>2, <3>1, <3>3 DEF CopyInv, Fits, HoldsCard
      <3> QED
        BY <1>1, <3>1, <3>2, <3>4, <3>5, QuietBoot DEF BootInv
    <2> QED
      BY <2>4, <2>5
  <1> QED
    BY <1>5, <1>6

LEMMA RewindBoot ==
  ASSUME BootInv, Rewind, UNCHANGED <<before, troubled>>
  PROVE  BootInv'
  <1> USE BootConstants
  <1>1. /\ UNCHANGED <<flash, card, got, buf, curr, dirty, spoiled, boots>>
        /\ pc = "rewind" /\ pc' = "read" /\ len' = Len(card) /\ fpos' = 0 /\ kpos' = 0
    BY DEF Rewind, cache
  <1>2. Fits /\ ~troubled /\ ~spoiled /\ ~HoldsCard(before) /\ got = <<>>
    BY <1>1 DEF BootInv, CopyInv
  <1>3. Len(card) \in Nat
    BY <1>2, CardFacts DEF BootInv, TypeOK
  <1>4. TypeOK'
    <2>1. (dirty \in BOOLEAN /\ spoiled \in BOOLEAN)'
      BY <1>1 DEF BootInv, TypeOK
    <2> QED
      BY <1>1, <1>3, <2>1 DEF BootInv, TypeOK, Label
  <1>5. UntouchedInv' /\ EndInv'
    BY <1>1 DEF UntouchedInv, EndInv
  <1>6. CopyInv'
    <2>1. Upto(View, kpos)'
      BY <1>1 DEF Upto
    <2> QED
      BY <1>1, <1>2, <1>3, <2>1 DEF CopyInv, Fits, HoldsCard
  <1> QED
    BY <1>1, <1>4, <1>5, <1>6, QuietBoot DEF BootInv

LEMMA ReadBoot ==
  ASSUME BootInv, Read, UNCHANGED <<before, troubled>>
  PROVE  BootInv'
  <1> USE BootConstants
  <1>1. /\ UNCHANGED <<flash, card, len, kpos, buf, curr, dirty, spoiled, boots>>
        /\ pc = "read"
    BY DEF Read, cache
  <1>2. /\ Fits /\ ~troubled /\ ~spoiled /\ ~HoldsCard(before)
        /\ kpos + len = Len(card) /\ Upto(View, kpos)
        /\ got = <<>> /\ fpos = kpos
    BY <1>1 DEF BootInv, CopyInv
  <1>3. /\ card \in Seq(Data) /\ Len(card) \in Nat /\ Len(card) <= Pages
        /\ len \in Nat /\ kpos \in Nat /\ fpos \in Nat
    BY <1>2, CardFacts DEF BootInv, TypeOK
  <1>4. (dirty \in BOOLEAN /\ spoiled \in BOOLEAN)'
    BY <1>1 DEF BootInv, TypeOK
  <1>5. View' = View /\ Fits'
    BY <1>1, <1>2 DEF View, Fits
  <1>6. CASE len = 0
    <2>1. pc' = "end" /\ UNCHANGED <<got, fpos>>
      BY <1>6 DEF Read
    <2>2. TypeOK'
      BY <1>1, <1>4, <2>1 DEF BootInv, TypeOK, Label
    <2>3. Upto(View, Len(card))'
      BY <1>1, <1>2, <1>3, <1>5, <1>6 DEF Upto
    <2>4. UntouchedInv' /\ CopyInv' /\ EndInv'
      BY <2>1, <2>3, <1>1, <1>2, <1>5 DEF UntouchedInv, CopyInv, EndInv
    <2> QED
      BY <1>1, <2>1, <2>2, <2>4, QuietBoot DEF BootInv
  <1>7. CASE len # 0
    <2>1. /\ got' = SubSeq(card, fpos + 1, fpos + Size)
          /\ fpos' = fpos + Size /\ pc' = "write"
      BY <1>7 DEF Read
    <2>2. Size \in Nat /\ Size <= len /\ Size > 0
      BY <1>3, <1>7, SizeFacts
    <2>3. got' \in Seq(Data)
      BY <1>2, <1>3, <2>1, <2>2
    <2>4. TypeOK'
      BY <1>1, <1>3, <1>4, <2>1, <2>2, <2>3 DEF BootInv, TypeOK, Label
    <2>5. UntouchedInv' /\ EndInv'
      BY <2>1 DEF UntouchedInv, EndInv
    <2>6. Upto(View, kpos)'
      BY <1>1, <1>2, <1>5 DEF Upto
    <2>7. fpos' \in kpos' + 1..Len(card') /\ got' = SubSeq(card', kpos' + 1, fpos')
      BY <1>1, <1>2, <1>3, <2>1, <2>2
    <2>8. CopyInv'
      BY <1>1, <1>2, <1>5, <2>1, <2>6, <2>7 DEF CopyInv, HoldsCard
    <2> QED
      BY <1>1, <2>1, <2>4, <2>5, <2>8, QuietBoot DEF BootInv
  <1> QED
    BY <1>6, <1>7

\* A page that is stored is one of the file, at its place.
LEMMA StoredInPlace ==
  ASSUME TypeOK, CacheInv, InPlace,
         NEW image \in {flash, Stored}
                        \cup {[flash EXCEPT ![curr] = page] : page \in {flash[curr], Torn}},
         image # flash => dirty
  PROVE  /\ image \in [0..Pages - 1 -> Page]
         /\ \A p \in 0..Pages - 1 :
              image[p] # before[p] =>
                Fits /\ p < Len(card) /\ image[p] \in {card[p + 1], Torn}
  <1>1. CASE image = flash
    BY <1>1 DEF TypeOK, InPlace
  <1>2. CASE image # flash
    <2>1. PICK page \in {buf, flash[curr], Torn} : image = [flash EXCEPT ![curr] = page]
      BY <1>2 DEF Stored
    <2>2. Fits /\ curr < Len(card) /\ buf = card[curr + 1]
      BY <1>2 DEF CacheInv
    <2>3. page \in Page /\ flash \in [0..Pages - 1 -> Page] /\ curr \in 0..Pages - 1
      BY <2>1 DEF TypeOK, Page
    <2>4. image \in [0..Pages - 1 -> Page]
      BY <2>1, <2>3
    <2>5. ASSUME NEW p \in 0..Pages - 1, image[p] # before[p]
          PROVE  Fits /\ p < Len(card) /\ image[p] \in {card[p + 1], Torn}
      <3>1. CASE p = curr /\ page # flash[curr]
        BY <2>1, <2>2, <2>3, <3>1
      <3>2. CASE p # curr \/ page = flash[curr]
        <4>1. image[p] = flash[p]
          BY <2>1, <2>3, <3>2
        <4> QED
          BY <2>5, <4>1 DEF InPlace
      <3> QED
        BY <3>1, <3>2
    <2> QED
      BY <2>4, <2>5
  <1> QED
    BY <1>1, <1>2

LEMMA WriteBoot ==
  ASSUME BootInv, Write, UNCHANGED <<before, troubled>>
  PROVE  BootInv'
  <1> USE BootConstants
  <1>1. /\ UNCHANGED <<card, fpos, spoiled, boots>>
        /\ pc = "write"
        /\ flash' = IF kpos = curr THEN flash ELSE Stored
        /\ curr' = kpos /\ buf' = Head(got) /\ dirty' = TRUE
        /\ kpos' = kpos + 1 /\ got' = Tail(got) /\ len' = len - 1
        /\ pc' = IF Len(got) = 1 THEN "read" ELSE "write"
    BY DEF Write
  <1>2. /\ Fits /\ ~troubled /\ ~spoiled /\ ~HoldsCard(before)
        /\ kpos + len = Len(card) /\ Upto(View, kpos)
        /\ fpos \in kpos + 1..Len(card) /\ got = SubSeq(card, kpos + 1, fpos)
        /\ TypeOK /\ CacheInv /\ InPlace
    BY <1>1 DEF BootInv, CopyInv
  <1>3. /\ card \in Seq(Data) /\ Len(card) \in Nat /\ Len(card) <= Pages
        /\ len \in Nat /\ kpos \in Nat /\ fpos \in Nat
        /\ \A i \in 1..Len(card) : card[i] \in Data
    BY <1>2, CardFacts DEF TypeOK
  <1>4. Len(got) = fpos - kpos /\ Head(got) = card[kpos + 1]
        /\ Tail(got) = SubSeq(card, kpos + 2, fpos) /\ got \in Seq(Data) /\ got # <<>>
    <2>1. Len(got) = fpos - kpos /\ \A i \in 1..fpos - kpos : got[i] = card[kpos + i]
      BY <1>2, <1>3
    <2>2. got \in Seq(Data) /\ got # <<>>
      BY <1>2, <1>3, <2>1
    <2>3. Head(got) = card[kpos + 1]
      BY <1>2, <1>3, <2>1, <2>2
    <2>4. Tail(got) = SubSeq(card, kpos + 2, fpos)
      BY <1>2, <1>3, <2>1, <2>2
    <2> QED
      BY <2>1, <2>2, <2>3, <2>4
  <1>5. /\ flash' \in [0..Pages - 1 -> Page]
        /\ \A p \in 0..Pages - 1 :
             flash'[p] # before[p] =>
               Fits /\ p < Len(card) /\ flash'[p] \in {card[p + 1], Torn}
    <2>1. flash' \in {flash, Stored} /\ (flash' # flash => dirty)
      BY <1>1 DEF Stored
    <2> QED
      BY <1>2, <2>1, StoredInPlace
  <1>6. TypeOK'
    <2>1. (curr \in 0..Pages - 1 /\ buf \in Page)'
      BY <1>1, <1>2, <1>3, <1>4 DEF Page
    <2>2. (dirty \in BOOLEAN /\ spoiled \in BOOLEAN)'
      BY <1>1, <1>2 DEF TypeOK
    <2>3. (got \in Seq(Data))'
      BY <1>1, <1>4
    <2>4. (len \in Nat /\ kpos \in Nat /\ fpos \in Nat)'
      BY <1>1, <1>2, <1>3
    <2>5. (card \in Files \cup {NoFile} /\ boots \in 0..MaxBoots)'
      BY <1>1, <1>2 DEF TypeOK
    <2>6. (pc \in Label)'
      BY <1>1 DEF Label
    <2> QED
      BY <1>5, <2>1, <2>2, <2>3, <2>4, <2>5, <2>6 DEF TypeOK
  <1>7. CacheInv' /\ Outcome' /\ InPlace' /\ NoNeedlessWrite'
    <2>1. CacheInv'
      BY <1>1, <1>2, <1>3, <1>4 DEF CacheInv, Fits
    <2>2. Outcome'
      BY <1>1 DEF Outcome
    <2>3. InPlace'
      BY <1>1, <1>5 DEF InPlace, Fits
    <2>4. NoNeedlessWrite'
      BY <1>1, <1>2 DEF NoNeedlessWrite, HoldsCard
    <2> QED
      BY <2>1, <2>2, <2>3, <2>4
  <1>8. Upto(View, kpos)'
    <2>1. View' \in [0..Pages - 1 -> Page]
          /\ \A p \in 0..Pages - 1 : View'[p] = IF p = curr' THEN buf' ELSE flash'[p]
      BY <1>5, <1>6 DEF View, TypeOK
    <2>2. \A p \in 0..Pages - 1 : View[p] = IF p = curr THEN buf ELSE flash[p]
      BY <1>2, ViewFacts
    <2>3. ASSUME NEW p \in 0..kpos PROVE View'[p] = card[p + 1]
      <3>1. p \in 0..Pages - 1
        BY <1>2, <1>3
      <3>2. CASE p = kpos
        BY <1>1, <1>4, <2>1, <3>1, <3>2
      <3>3. CASE p # kpos
        <4>1. View[p] = card[p + 1]
          BY <1>2, <1>3, <3>3 DEF Upto
        <4>2. flash'[p] = View[p]
          <5>1. CASE dirty
            BY <5>1, <1>1, <1>2, <2>2, <3>1, <3>3, ViewFacts
          <5>2. CASE ~dirty
            <6>1. buf = flash[curr] /\ View = flash /\ Stored = flash
              BY <5>2, <1>1, <1>2, ViewFacts DEF CacheInv
            <6> QED
              BY <6>1, <1>1
          <5> QED
            BY <5>1, <5>2
        <4> QED
          BY <1>1, <2>1, <3>1, <3>3, <4>1, <4>2
      <3> QED
        BY <3>2, <3>3
    <2>4. kpos' - 1 = kpos
      BY <1>1, <1>3
    <2> QED
      BY <1>1, <2>3, <2>4 DEF Upto
  <1>9. CopyInv'
    <2>1. Fits' /\ ~HoldsCard(before)'
      BY <1>1, <1>2 DEF Fits, HoldsCard
    <2>2. kpos' + len' = Len(card')
      BY <1>1, <1>2, <1>3
    <2>3. CASE Len(got) = 1
      <3>1. pc' = "read" /\ fpos' = kpos'
        BY <2>3, <1>1, <1>3, <1>4
      <3>2. got' = <<>>
        BY <2>3, <1>1, <1>4
      <3> QED
        BY <1>1, <1>2, <1>8, <2>1, <2>2, <3>1, <3>2 DEF CopyInv
    <2>4. CASE Len(got) # 1
      <3>1. pc' = "write" /\ fpos' \in kpos' + 1..Len(card')
        BY <2>4, <1>1, <1>2, <1>3, <1>4
      <3>2. got' = SubSeq(card', kpos' + 1, fpos')
        BY <1>1, <1>3, <1>4
      <3> QED
        BY <1>1, <1>2, <1>8, <2>1, <2>2, <3>1, <3>2 DEF CopyInv
    <2> QED
      BY <2>3, <2>4
  <1>10. UntouchedInv' /\ EndInv'
    BY <1>1 DEF UntouchedInv, EndInv
  <1> QED
    BY <1>5, <1>6, <1>7, <1>9, <1>10 DEF BootInv

LEMMA FailsBoot ==
  ASSUME BootInv, WriteFails \/ FlushFails, UNCHANGED <<before, troubled>>
  PROVE  BootInv'
  <1> USE BootConstants
  <1>1. /\ UNCHANGED <<card, len, fpos, kpos, got, buf, curr, dirty, boots>>
        /\ dirty /\ pc' \in {"end", "app"} /\ spoiled'
        /\ \E page \in {flash[curr], Torn} : flash' = [flash EXCEPT ![curr] = page]
    BY DEF WriteFails, FlushFails, cache
  <1>2. TypeOK /\ CacheInv /\ InPlace
    BY DEF BootInv
  <1>3. /\ flash' \in [0..Pages - 1 -> Page]
        /\ \A p \in 0..Pages - 1 :
             flash'[p] # before[p] =>
               Fits /\ p < Len(card) /\ flash'[p] \in {card[p + 1], Torn}
    BY <1>1, <1>2, StoredInPlace
  <1>4. TypeOK'
    <2>1. (dirty \in BOOLEAN)'
      BY <1>1, <1>2 DEF TypeOK
    <2>2. (spoiled \in BOOLEAN)'
      BY DEF WriteFails, FlushFails
    <2> QED
      BY <1>1, <1>2, <1>3, <2>1, <2>2 DEF TypeOK, Label
  <1>5. CacheInv' /\ InPlace' /\ NoNeedlessWrite'
    BY <1>1, <1>3 DEF BootInv, CacheInv, InPlace, NoNeedlessWrite, HoldsCard, Fits
  <1>6. UntouchedInv' /\ CopyInv' /\ EndInv' /\ Outcome'
    BY <1>1 DEF UntouchedInv, CopyInv, EndInv, Outcome
  <1> QED
    BY <1>4, <1>5, <1>6 DEF BootInv

LEMMA StartBoot ==
  ASSUME BootInv, Start, UNCHANGED <<before, troubled>>
  PROVE  BootInv'
  <1> USE BootConstants
  <1>1. /\ UNCHANGED <<card, len, fpos, kpos, got, buf, curr, spoiled, boots>>
        /\ flash' = Stored /\ dirty' = FALSE /\ pc = "end" /\ pc' = "app"
    BY DEF Start
  <1>2. TypeOK /\ CacheInv /\ InPlace
    BY DEF BootInv
  <1>3. /\ flash' \in [0..Pages - 1 -> Page]
        /\ \A p \in 0..Pages - 1 :
             flash'[p] # before[p] =>
               Fits /\ p < Len(card) /\ flash'[p] \in {card[p + 1], Torn}
    BY <1>1, <1>2, StoredInPlace DEF Stored
  <1>4. TypeOK'
    <2>1. (dirty \in BOOLEAN /\ spoiled \in BOOLEAN)'
      BY <1>1, <1>2 DEF TypeOK
    <2> QED
      BY <1>1, <1>2, <1>3, <2>1 DEF TypeOK, Label
  <1>5. CacheInv' /\ InPlace' /\ NoNeedlessWrite'
    BY <1>1, <1>3 DEF CacheInv, InPlace, NoNeedlessWrite, Fits
  <1>6. UntouchedInv' /\ CopyInv' /\ EndInv'
    BY <1>1 DEF UntouchedInv, CopyInv, EndInv
  <1>7. Outcome'
    <2> SUFFICES ASSUME ~spoiled
                 PROVE  IF Fits /\ ~troubled THEN HoldsCard(flash)' ELSE flash' = before
      BY <1>1 DEF Outcome, Fits
    <2>1. CASE Fits /\ ~troubled
      <3>1. Upto(View, Len(card))
        BY <2>1, <1>1 DEF BootInv, EndInv
      <3>2. flash' = View
        <4>1. ~dirty => View = flash
          BY <1>1, <1>2, ViewFacts DEF CacheInv
        <4> QED
          BY <1>1, <1>2, <4>1, ViewFacts
      <3> QED
        BY <1>1, <2>1, <3>1, <3>2 DEF Upto, HoldsCard
    <2>2. CASE ~(Fits /\ ~troubled)
      BY <2>2, <1>1 DEF BootInv, EndInv, Stored
    <2> QED
      BY <2>1, <2>2
  <1> QED
    BY <1>1, <1>4, <1>5, <1>6, <1>7 DEF BootInv

LEMMA StepBoot == BootInv /\ [BNext]_bvars => BootInv'
  <1> SUFFICES ASSUME BootInv, [BNext]_bvars PROVE BootInv'
    OBVIOUS
  <1>1. CASE Step /\ UNCHANGED <<before, troubled>>
    BY <1>1, OpenBoot, CompareBoot, RewindBoot, ReadBoot, WriteBoot, StartBoot, FailsBoot
       DEF Step
  <1>2. CASE CardFails /\ troubled' = TRUE /\ UNCHANGED before
    BY <1>2, CardFailsBoot
  <1>3. CASE PowerUp /\ before' = flash' /\ troubled' = FALSE
    BY <1>3, PowerUpBoot
  <1>4. CASE UNCHANGED bvars
    <2>1. TypeOK'
      BY <1>4 DEF BootInv, TypeOK, bvars, vars, cache
    <2>2. (CacheInv /\ UntouchedInv /\ CopyInv /\ EndInv)'
      BY <1>4 DEF BootInv, CacheInv, UntouchedInv, CopyInv, EndInv, Fits, Upto, View,
                  HoldsCard, bvars, vars, cache
    <2>3. (Outcome /\ InPlace /\ NoNeedlessWrite)'
      BY <1>4 DEF BootInv, Outcome, InPlace, NoNeedlessWrite, Fits, HoldsCard, bvars, vars,
                  cache
    <2> QED
      BY <1>4, <2>1, <2>2, <2>3 DEF BootInv, bvars
  <1> QED
    BY <1>1, <1>2, <1>3, <1>4 DEF BNext, BLoader, BPowerUp

LEMMA BootHolds == BSpec => []BootInv
  BY InitBoot, StepBoot, PTL DEF BSpec

\* TypeOK for every size of flash, chunks and files.
THEOREM BootTyped == BSpec => []TypeOK
  <1>1. BootInv => TypeOK
    BY DEF BootInv
  <1> QED
    BY BootHolds, <1>1, PTL

\* Outcome for every file and every content of the flash: a run of the loader that is
\* not disturbed leaves the file of the card, whatever earlier runs have left.
THEOREM BootOutcome == BSpec => []Outcome
  <1>1. BootInv => Outcome
    BY DEF BootInv
  <1> QED
    BY BootHolds, <1>1, PTL

\* InPlace in the same generality, failures included.
THEOREM BootInPlace == BSpec => []InPlace
  <1>1. BootInv => InPlace
    BY DEF BootInv
  <1> QED
    BY BootHolds, <1>1, PTL

\* NoNeedlessWrite for every length of file and chunk.
THEOREM BootNoNeedlessWrite == BSpec => []NoNeedlessWrite
  <1>1. BootInv => NoNeedlessWrite
    BY DEF BootInv
  <1> QED
    BY BootHolds, <1>1, PTL

-----------------------------------------------------------------------------
(* The auxiliary power.                                                      *)

\* Every step keeps every variable in its type.
LEMMA PowerTypeStep == PowerTypeOK /\ [PowerNext]_powerVars => PowerTypeOK'
<1> SUFFICES ASSUME PowerTypeOK, [PowerNext]_powerVars PROVE PowerTypeOK'
  OBVIOUS
<1>. USE DEF PowerTypeOK, Goto, Proc, PowerLabel, history, WriteStat
<1>1. CASE InitPower \/ Create
  BY <1>1 DEF InitPower, Create
<1>2. ASSUME NEW p \in Switcher, Switching(p) PROVE PowerTypeOK'
  <2>1. PICK l \in PowerLabel \ {"init", "create", "report"} :
          Goto(p, l) /\ (l \in {"test", "tested"} => p = "main")
    BY <1>2 DEF Switching, Reload, CheckPrevious, Unclean, Pend, SwitchOn, Settle, After
  <2>2. /\ at' \in [Proc -> PowerLabel]
        /\ at'["main"] # "report" /\ at'["curr"] \in {"idle", "report"}
        /\ at'["radio"] \notin {"init", "create", "test", "tested", "report"}
    BY <2>1 DEF Switcher
  <2>3. CASE Reload(p) \/ CheckPrevious(p) \/ Unclean(p)
    BY <2>2, <2>3 DEF Reload, CheckPrevious, Unclean
  <2>4. CASE Pend(p) \/ SwitchOn(p) \/ Settle(p)
    BY <2>2, <2>4 DEF Pend, SwitchOn, Settle
  <2>. QED BY <1>2, <2>3, <2>4 DEF Switching
<1>3. CASE Command
  <2>1. CASE \E on \in BOOLEAN : Override(on)
    BY <2>1 DEF Override
  <2>2. CASE CmdReset \/ ConfReload
    BY <2>2 DEF CmdReset, ConfReload
  <2>3. CASE TestOn
    BY <2>3 DEF TestOn
  <2>. QED BY <1>3, <2>1, <2>2, <2>3 DEF Command
<1>4. CASE CurrReset \/ CheckCurrent \/ Reported
  BY <1>4 DEF CurrReset, CheckCurrent, Reported
<1>7. CASE TestOff \/ TestEnd
  BY <1>7 DEF TestOff, TestEnd
<1>5. CASE Load \/ Crash
  BY <1>5 DEF Load, Crash, AtBoot
<1>6. CASE UNCHANGED powerVars
  BY <1>6 DEF powerVars
<1>. QED BY <1>1, <1>2, <1>3, <1>4, <1>5, <1>6, <1>7
  DEF PowerNext, MainStep, RadioStep, CurrStep, Switcher

-----------------------------------------------------------------------------
(* NoPowerLoop.  The file says POWER FAIL as long as a window is open and,   *)
(* after a crash in it, until a switching on has succeeded; so no boot gets  *)
(* as far as switching on, unless it was asked to.  Test mode, which does    *)
(* switch on, has been asked, and leaves the file alone.                     *)

Attempting(p) == at[p] \in {"reset", "pend", "power", "settle"}

PowerInv ==
  /\ Booting => at["radio"] = "idle"
  /\ at["main"] = "create" => file = "empty"
  /\ works /\ (Window("main") \/ Window("radio")) => file = "FAIL"
  /\ works /\ tripped => file = "FAIL"
  /\ tripped /\ ~asked => ~aux /\ ~Attempting("main") /\ ~Attempting("radio")

\* Every step keeps the invariant.
LEMMA PowerStep == PowerTypeOK /\ PowerInv /\ [PowerNext]_powerVars => PowerInv'
<1> SUFFICES ASSUME PowerTypeOK, PowerInv, [PowerNext]_powerVars PROVE PowerInv'
  OBVIOUS
<1>. USE DEF PowerTypeOK, PowerInv, Goto, Proc, history, WriteStat, Window, Attempting, Booting
<1>1. CASE InitPower \/ Create
  BY <1>1 DEF InitPower, Create
<1>2. ASSUME NEW p \in Switcher, Switching(p) PROVE PowerInv'
  <2>1. CASE Reload(p) \/ Unclean(p)
    BY <2>1 DEF Reload, Unclean, Switcher, After
  <2>2. CASE CheckPrevious(p)
    BY <2>2 DEF CheckPrevious, Clean, Switcher
  <2>3. CASE Pend(p) \/ SwitchOn(p)
    BY <2>3 DEF Pend, SwitchOn, Switcher
  <2>4. CASE Settle(p)
    BY <2>4 DEF Settle, Switcher, After
  <2>. QED BY <1>2, <2>1, <2>2, <2>3, <2>4 DEF Switching
<1>3. CASE Command
  BY <1>3 DEF Command, Override, CmdReset, ConfReload, TestOn
<1>4. CASE CurrReset \/ CheckCurrent \/ Reported
  BY <1>4 DEF CurrReset, CheckCurrent, Reported
<1>7. CASE TestOff \/ TestEnd
  BY <1>7 DEF TestOff, TestEnd
<1>5. CASE Load \/ Crash
  BY <1>5 DEF Load, Crash, AtBoot, Switcher
<1>6. CASE UNCHANGED powerVars
  BY <1>6 DEF powerVars
<1>. QED BY <1>1, <1>2, <1>3, <1>4, <1>5, <1>6, <1>7
  DEF PowerNext, MainStep, RadioStep, CurrStep, Switcher

LEMMA PowerHolds == PowerInit /\ [][PowerNext]_powerVars => [](PowerTypeOK /\ PowerInv)
<1>1. PowerInit => PowerTypeOK
  BY DEF PowerInit, PowerTypeOK, AtBoot, Proc, PowerLabel
<1>2. PowerInit => PowerInv
  BY DEF PowerInit, PowerInv, AtBoot, Booting, Window, Attempting, Proc
<1>. QED BY <1>1, <1>2, PowerTypeStep, PowerStep, PTL

\* Every variable keeps its type.
THEOREM PowerTyped == PowerSpec => []PowerTypeOK
  BY PowerHolds, PTL DEF PowerSpec

\* After a crash while power_enable() was switching the load on no boot powers it again
\* unasked, over any number of crashes, test mode between them included.
THEOREM NeverPowerLoop == PowerSpec => []NoPowerLoop
<1>1. PowerInv => NoPowerLoop
  BY DEF PowerInv, NoPowerLoop
<1>. QED BY <1>1, PowerHolds, PTL DEF PowerSpec

-----------------------------------------------------------------------------
(* Restart: to the power the loader is a stutter, and a loss of power in it  *)
(* a crash in a boot; to the loader the firmware is.                         *)

LEMMA RestartStep ==
  /\ RestartInit => PowerInit /\ BInit
  /\ [RestartNext]_restartVars => [PowerNext]_powerVars /\ [BNext]_bvars
<1>1. RestartInit => PowerInit /\ BInit
  BY DEF RestartInit
<1>2. ASSUME RestartNext PROVE [PowerNext]_powerVars /\ [BNext]_bvars
  <2>1. CASE RunLoader
    BY <2>1 DEF RunLoader, BNext
  <2>2. CASE RunMain \/ RunRadio \/ RunCurr \/ RunOther
    BY <2>2 DEF RunMain, RunRadio, RunCurr, RunOther, PowerNext
  <2>3. CASE CutPower
    BY <2>3 DEF CutPower, PowerNext, BNext
  <2>. QED BY <1>2, <2>1, <2>2, <2>3 DEF RestartNext
<1>3. UNCHANGED restartVars => UNCHANGED powerVars /\ UNCHANGED bvars
  BY DEF restartVars
<1>. QED BY <1>1, <1>2, <1>3

\* NoPowerLoop, with the loader between every crash and the boot that follows.
THEOREM RestartNeverPowerLoop == RestartSpec => []NoPowerLoop
<1>1. PowerInv => NoPowerLoop
  BY DEF PowerInv, NoPowerLoop
<1>. QED BY <1>1, RestartStep, PowerHolds, PTL DEF RestartSpec

\* Outcome, with a loader that runs again after any crash of the firmware, however
\* the switching on of the load has brought the board down.
THEOREM RestartOutcome == RestartSpec => []Outcome
<1>1. BootInv => Outcome
  BY DEF BootInv
<1>. QED BY <1>1, RestartStep, InitBoot, StepBoot, PTL DEF RestartSpec
=============================================================================
