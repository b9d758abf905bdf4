SPECIFICATION DrawingSpec
CONSTANTS
  Code <- MCCode
  Roots <- MCRoots
  Sizes <- MCSizes
  FirstSize = 0
  Icons = 1
INVARIANTS
  DrawingTypeOK
  DetectorsLeaveNoTrace
  FailureRewinds
  NothingLeaks
  FailureIsExplained
  FaultsOnlyWhenRefused
  PictureIsComplete
  TilesInsideWindow
  EveryTileIsPlacedOnce
  TilesDoNotOverlap
\* The call returns, or its exception ends the server.
CHECK_DEADLOCK FALSE
