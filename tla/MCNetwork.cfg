SPECIFICATION NetworkSpec
CONSTANTS
  RawNames <- MCRawNames
  Usernames <- MCUsernames
  Sanitize <- MCSanitize
  EmptyName = ""
  Endpoints = {e1, e2}
  Nobody = nobody
  Payloads = {"body"}
  Bodies <- MCBodies
  PacketKinds = {"message"}
  MaxConnections = 3
  MaxEvents = 1
INVARIANTS
  NetworkTypeOK
  UniqueUsernames
  HandshakesCompleteInOrder
\* The process stops when an accept fails.
CHECK_DEADLOCK FALSE
