CONSTANTS
  Paths <- MCPaths
  Predefined <- MCPredefined
  Units <- MCUnits
  First <- MCFirst
  Missing <- MCMissing
  Hides <- MCHides
  Reach <- MCReach
  Sure <- MCSure
SPECIFICATION Spec
INVARIANTS
  EverythingFound
  SelfContained
  ReadOnce
  NothingMissed
CHECK_DEADLOCK FALSE
