SPECIFICATION HSpec
CONSTANTS
  Names = {1, 2, 3}
  Blank = {3}
  Cgis = {c1, c2}
  MayClear = TRUE
  MayFail = TRUE
  MaxDeaths = 1
INVARIANT LoneUpdate
SYMMETRY Scripts
