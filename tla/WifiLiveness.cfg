SPECIFICATION FairMCSpec
CONSTANTS
  c1 = c1
  Clients = {c1}
  RemoteKinds = {"MOVE"}
  LocalKinds = {"ARM"}
  Intents = {}
  QueueCapacity = 2
  MaxClients = 2
  RecentIntents = 1
  SerialWifi = TRUE
  IdModulus = 6
  RequestIds = {1}
  MaxId = 2
  MaxSessions = 1
  MaxInputs = 3
  NoClient = nobody
  NoIntent = "none"
INVARIANT RemoteDriveAttended
PROPERTIES StopServed ControllerLossStops
CHECK_DEADLOCK FALSE
