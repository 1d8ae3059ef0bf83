SPECIFICATION Spec
CONSTANTS
  SYNTHETIC_NODE_ID_BASE <- MCNodeBase
  SYNTHETIC_WAY_ID_BASE <- MCWayBase
  SYNTHETIC_RELATION_ID_BASE <- MCRelationBase
  SYNTHETIC_OVERTURE_ID_BASE <- MCOvertureBase
  MAX_XML_DEPTH = 3
  METRE = 100
  NORTH = 2000
  East <- FarEast
  Folded <- MCFolded
  Blanked <- MCBlanked
  Trimmed <- MCTrimmed
  Lower <- MCLower
  Hyphened <- MCHyphened
  World <- FarWorld
  Areas <- FarAreas
  Requests <- FarRequests
  Releases <- FarReleases
  Files <- MCFiles
  NewWays <- MCNewWays
  MaxOps = 1
INVARIANT WindowSuffices
CHECK_DEADLOCK FALSE
