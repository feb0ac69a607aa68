SPECIFICATION HSpec
CONSTANTS
  MissionTimeout = 1
  WarnTime = 1
  Timeout <- MCTimeout
  DeltaAltitude = 3
  AltmaxMeters = 8
  PauseTime = 2
  Rounds = 1
  PulseOn = 1
  PulseOff = 0
  TestPulse = 1
  MinAltitude <- MCMinAltitude
  Readings <- MCReadings
  MaxClock = 4
  MaxCommands = 2
INVARIANT WireHeld
INVARIANT OncePerReset
PROPERTY CountdownServed
PROPERTY WireReleased
PROPERTY MissionTimeoutCuts
