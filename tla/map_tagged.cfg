SPECIFICATION Spec
CONSTANTS
  SYNTHETIC_NODE_ID_BASE <- MCNodeBase
  SYNTHETIC_WAY_ID_BASE <- MCWayBase
  SYNTHETIC_RELATION_ID_BASE <- MCRelationBase
  SYNTHETIC_OVERTURE_ID_BASE <- MCOvertureBase
  MAX_XML_DEPTH = 3
  METRE = 1
  NORTH = 10
  East <- MCEast
  Folded <- MCFolded
  Blanked <- MCBlanked
  Trimmed <- MCTrimmed
  Lower <- MCLower
  Hyphened <- MCHyphened
  World <- MCWorld
  Areas <- MCAreas
  Requests <- MCRequests
  Releases <- MCReleases
  Files <- MCFiles
  NewWays <- MCNewWays
  MaxOps = 1
INVARIANT TaggedIsSuperset
CHECK_DEADLOCK FALSE
