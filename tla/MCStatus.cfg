SPECIFICATION HSpec
CONSTANTS
  GroundAlt = 3
  TropopauseAlt = 4
  LandingAlt = 3
  AltHist = 1
  RateUp = 0
  RateDown = 0
  MeanLen = 2
  Readings <- MCReadings
  Active = {"main"}
INVARIANT TypeOK
INVARIANT ClimbMeasured
PROPERTY NoChatter
PROPERTY BuzzerBeeps
