\* A migration that dies after its first file, and the one that follows.
CONSTANTS
  Processes = {p1, p2}
  Names = {"a", "b"}
  DirNames = {"home", "tmp", ".cache", "par-osm-rust", "osm-to-bedrock", "overpass", "srtm", "overture"}
  Subdirs <- Folders
  Contents <- Bodies
  Cap = 1
  Worlds <- Start0
SPECIFICATION Spec
CHECK_DEADLOCK FALSE
INVARIANT NonEmptyMeansMigrated
