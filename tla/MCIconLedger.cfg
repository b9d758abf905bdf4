SPECIFICATION LedgerSpec
CONSTANTS
  Usernames <- MCUsernames
  EmptyName = ""
  Endpoints = {e1}
  Nobody = nobody
  Payloads <- MCPayloads
  MaxConnections = 3
  IconIds = {"player", "tile"}
  Requests <- MCRequests
  Capacity = 2
  MaxWanted = 4
  Home <- MCHome
  MaxAsked = 4
INVARIANTS
  EveryRequestCounts
  PatientUsersGetWholeReplies
\* At the bound nobody asks any more.
CHECK_DEADLOCK FALSE
