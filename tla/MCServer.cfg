SPECIFICATION FairSpec
CONSTANTS
  RawNames <- MCRawNames
  Usernames <- MCUsernames
  Sanitize <- MCSanitize
  EmptyName = ""
  Endpoints = {e1, e2}
  Nobody = nobody
  Password = "password"
  Payloads <- MCPayloads
  NoWindow = noWindow
  Bodies <- MCBodies
  PacketKinds = {"message", "clientInfo"}
  Blockable = {}
  MaxUpdates = 1
  MaxConnections = 2
  MaxEvents = 1
INVARIANTS
  WrappersAreValid
PROPERTIES
  PasswordIsOwn
  SecondNameHasNoVoice
  EveryClientIsDecided
\* The process stops at a fault.
CHECK_DEADLOCK FALSE
