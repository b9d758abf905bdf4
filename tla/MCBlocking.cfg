SPECIFICATION Spec
CONSTANTS
  RawNames <- MCRawNames
  Usernames <- MCUsernames
  Sanitize <- MCSanitize
  EmptyName = ""
  Endpoints = {e1}
  Nobody = nobody
  Password = "password"
  Payloads <- MCPayloads
  NoWindow = noWindow
  Bodies <- MCBodies
  PacketKinds = {"message", "clientInfo"}
  Blockable = {"ann"}
  MaxUpdates = 0
  MaxConnections = 3
  MaxEvents = 1
INVARIANTS
  EveryConnectionIsOwned
  ConnectionAlwaysFound
  CopyIsCurrent
  OneGamePerAuthorizedClient
  UndecidedAreAsked
PROPERTIES
  OnlyOwnClientDisconnects
  ImplementsLifecycle
\* The process stops at a fault.
CHECK_DEADLOCK FALSE
