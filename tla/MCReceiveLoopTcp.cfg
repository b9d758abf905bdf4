SPECIFICATION Spec
CONSTANTS
  Endpoints = {e1, e2}
  NoEndpoint = noEndpoint
  Sizes = {"whole"}
  Errors = {}
  MaxDatagrams = 4
  MaxAccepted = 1
  MaxErrors = 0
INVARIANT
  PacketsAreAttributedToSender
\* At the bound no datagram arrives any more.
CHECK_DEADLOCK FALSE
