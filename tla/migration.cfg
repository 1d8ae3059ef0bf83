\* Two processes, together or one after the other, each interrupted anywhere.
CONSTANTS
  Processes = {p1, p2}
  Names = {"a", "b"}
  DirNames = {"home", "tmp", ".cache", "par-osm-rust", "osm-to-bedrock", "overpass", "srtm", "overture"}
  Subdirs <- Folders
  Contents <- Bodies
  Cap = 1
  Worlds <- Start0
SPECIFICATION FairSpec
CHECK_DEADLOCK FALSE
INVARIANTS MigrationTypeOK NothingLost SharedKept CountsAreTrue
PROPERTIES MigrationReturns
