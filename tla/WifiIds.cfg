SPECIFICATION MCSpec
CONSTANTS
  c1 = c1
  c2 = c2
  Clients = {c1, c2}
  RemoteKinds = {"OTHER"}
  LocalKinds = {}
  Intents = {"i1", "i2"}
  QueueCapacity = 1
  MaxClients = 1
  RecentIntents = 2
  SerialWifi = FALSE
  IdModulus = 6
  RequestIds = {0, 1, 3, 5}
  MaxId = 7
  MaxSessions = 1
  MaxInputs = 0
  NoClient = nobody
  NoIntent = "none"
INVARIANTS
  TypeOK
  NoReplay
  IntentOnce
SYMMETRY ClientSymmetry
CHECK_DEADLOCK FALSE
