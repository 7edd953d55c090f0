SPECIFICATION EmbodimentSpec
CONSTANTS
  ClockModulus = 4
  ManualOverrideMs = 1
  ImuMaxSampleAgeMs = 1
  Joints = {}
  Startups <- MCStartups
  ImuSamples = {"good"}
  WifiFaults = {}
  ActionDrives = FALSE
  BenchTesting = FALSE
  ServoBusOnRollers = FALSE
  Intents <- MCIntents
INVARIANTS SuccessIsReal RefusalIsStill DecisionAccepted
