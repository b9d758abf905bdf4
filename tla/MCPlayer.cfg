SPECIFICATION ServiceFairSpec
CONSTANTS
  RawNames <- MCRawNames
  Usernames <- MCUsernames
  Sanitize <- MCSanitize
  EmptyName = ""
  Endpoints = {e1}
  Nobody = nobody
  Password = "password"
  Payloads <- MCPayloads
  NoWindow = noWindow
  Bodies <- MCBodies
  PacketKinds = {"message", "clientInfo", "input", "resource"}
  Blockable = {}
  MaxUpdates = 1
  MaxConnections = 1
  MaxEvents = 1
  IconIds = {"player", "tile", "none"}
  Requests <- MCRequests
  Capacity = 1
  MaxWanted = 4
  Keys <- MCKeys
  PlayerIcon = "player"
  TileIcon = "tile"
  MaxInputs = 2
INVARIANTS
  FramedIconsAreKnown
PROPERTIES
  RequestsAreAnswered
\* The process stops at a fault.
CHECK_DEADLOCK FALSE
