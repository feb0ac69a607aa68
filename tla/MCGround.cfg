SPECIFICATION GSpec
CONSTANTS
  Names = {1, 2}
  Blank = {2}
  Cgis = {c1}
  MayClear = FALSE
  MayFail = FALSE
  MaxDeaths = 1
  MaxCrashes = 1
  MaxRestores = 1
INVARIANT GroundTypeOK
INVARIANT Accounted
PROPERTY Delivered
PROPERTY Mirrored
