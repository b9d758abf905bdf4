SPECIFICATION NetworkSpec
CONSTANTS
  RawNames <- MCRawNames
  Usernames <- MCUsernames
  Sanitize <- MCSanitize
  EmptyName = ""
  Endpoints = {e1, e2}
  Nobody = nobody
  Payloads = {"body"}
  Bodies <- MCBodies
  PacketKinds = {"message"}
  MaxConnections = 2
  MaxEvents = 1
INVARIANT
  SocketsNotCrossed
\* The process stops when an accept fails.
CHECK_DEADLOCK FALSE
