SPECIFICATION MCSpec
CONSTANTS
  ClockModulus = 8
  CountModulus = 6
  MaxPassMs = 2
  SampleIntervalMs = 1
  StaleAfterMs = 1
  HysteresisMs = 3
  MinValidMm = 20
  MaxValidMm = 3500
  MaxStepMm = 700
  EmergencyStopMm = 120
  ClearMm = 280
  InvalidSamplesToFault = 4
  Echoes = {0, 100, 200, 300, 1000}
  Probes = {TRUE, FALSE}
  SteadySamples = 8
INVARIANTS
  TypeOK
  ReadingCurrent
  NearBlocks
  ClearIsEarned
  SteadyWayClears
