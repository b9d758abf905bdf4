SPECIFICATION Spec
CONSTANTS
  Endpoints = {e1, e2}
  NoEndpoint = noEndpoint
  Sizes = {"empty", "head", "whole"}
  Errors = {"reset", "other"}
  MaxDatagrams = 4
  MaxAccepted = 2
  MaxErrors = 1
INVARIANTS
  TypeOK
  UdpCallsAreRight
  EmptyDatagramsRepeat
  ReceivesAreConserved
  InOrderUpToOneConnection
PROPERTIES
  ImplementsMailbox
\* Receiving stops when the last receive has failed, and when nothing arrives.
CHECK_DEADLOCK FALSE
