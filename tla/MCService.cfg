SPECIFICATION ServiceSpec
CONSTANTS
  RawNames <- MCRawNames
  Usernames <- MCUsernames
  Sanitize <- MCSanitize
  EmptyName = ""
  Endpoints = {e1, e2}
  Nobody = nobody
  Password = "password"
  Payloads <- MCPayloads
  NoWindow = noWindow
  Bodies <- MCBodies2
  PacketKinds = {"message", "clientInfo", "input", "resource"}
  Blockable = {}
  MaxUpdates = 0
  MaxConnections = 2
  MaxEvents = 1
  IconIds = {"player", "tile", "none"}
  Requests <- MCRequests2
  Capacity = 1
  MaxWanted = 2
  Keys <- MCKeys2
  PlayerIcon = "player"
  TileIcon = "tile"
  MaxInputs = 2
SYMMETRY MCSymmetry
INVARIANTS
  ServiceTypeOK
  ResponderFindsUser
  RepliesGoToRequester
PROPERTIES
  MovesAreOwn
\* The process stops at a fault.
CHECK_DEADLOCK FALSE
