SPECIFICATION MCSpec
CONSTANTS
  c1 = c1
  Clients = {c1}
  RemoteKinds = {"MOVE"}
  LocalKinds = {"ARM"}
  Intents = {}
  QueueCapacity = 2
  MaxClients = 2
  RecentIntents = 1
  SerialWifi = FALSE
  IdModulus = 6
  RequestIds = {1}
  MaxId = 2
  MaxSessions = 2
  MaxInputs = 2
  NoClient = nobody
  NoIntent = "none"
INVARIANTS
  CommandAuthority
  OvertakenNeverRuns
  StopWins
  RemoteDriveAttended
CHECK_DEADLOCK FALSE
