SPECIFICATION MCSpec
CONSTANTS
  ClockModulus = 5
  ManualOverrideMs = 2
  ImuMaxSampleAgeMs = 2
  HoldFitsInBoot = FALSE
  Samples = {"tilt", "good"}
  SampleTimes = {3}
  Readings <- MCReadings
  StopFaults = {"NONE", "RANGE_SENSOR_INVALID"}
INVARIANTS
  TypeOK
  IncidentSafe
  ManualPrecedence
PROPERTIES
  LatchSpec
