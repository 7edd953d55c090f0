SPECIFICATION MCSpec
CONSTANTS
  Atoi <- MCAtoi
  Digits <- MCDigits
  SafeDriveTimeMs = 3
  ServoMinUs = 1000
  ServoMaxUs = 2000
  ClockModulus = 11
  PassMs = {0, 1}
  StopHoldMs = 7
  ResetHoldMs = 9
  PairingHoldMs = 2
  DisplayMs = 0
  PhaseMs = 0
  BootTimeoutMs = 6
  TestTimeoutMs = 2
  Lines <- MCLines
  SerialMax = 4
  RemoteCommands <- MCRemoteCommands
INVARIANTS TypeOK ChordActs WheelsEnd LineAsSent
