SPECIFICATION Spec
CONSTANTS
  ClockModulus = 4
  ManualOverrideMs = 1
  ImuMaxSampleAgeMs = 1
  Joints = {"limb"}
  Startups <- MCStartups
  ImuSamples = {"unavailable", "good"}
  WifiFaults = {"CONTROLLER_LEASE_EXPIRED"}
  ActionDrives = TRUE
  BenchTesting = TRUE
INVARIANTS TypeOK LatchedIsStill ArmedAgrees WheelsSupervised
  NoForwardIntoObstacle NothingToResume IncidentServiced
