SPECIFICATION MCSpec
CONSTANTS
  Tokens = {"hex"}
  Codes = {"first", "second"}
  CodeOf <- MCCodeOf
  IntentTexts = {"intent"}
  IdModulus = 256
  DurationMs = 250
  Clients = {c1, c2}
  MaxClients = 1
  Frames <- MCFrames
  SecondMs = 1
  MaxMessages = 1
  MaxAttempts = 1
  LockoutMs = 3
  CounterModulus = 3
  ClockModulus = 6
  MaxLost = 1
  NoClient = nobody
  NoCode = "none"
INVARIANTS TypeOK GuessesBounded DisplayShowsCode
SYMMETRY Symmetry
CHECK_DEADLOCK FALSE
