SPECIFICATION Spec
CONSTANTS
  RawNames <- MCRawNames
  Usernames <- MCUsernames
  Sanitize <- MCSanitize
  EmptyName = ""
  Endpoints = {e1}
  Nobody = nobody
  Password = "password"
  Payloads <- MCPayloads
  NoWindow = noWindow
  Bodies <- MCBodies
  PacketKinds = {"message", "clientInfo"}
  Blockable = {}
  MaxUpdates = 10
  MaxConnections = 1
  MaxEvents = 1
INVARIANT
  FailedIsNotAuthorized
\* The process stops at a fault.
CHECK_DEADLOCK FALSE
