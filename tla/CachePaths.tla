----------------------------- MODULE CachePaths -----------------------------
(***************************************************************************)
(* cache: which directory each cache uses and which two a migration works  *)
(* between, for any environment.                                           *)
(*                                                                         *)
(* A path is the sequence of its names.  An environment e has the platform *)
(* (windows), its variables (vars: from those that are set to paths, the   *)
(* empty text being the empty path) and the temporary directory (temp).    *)
(***************************************************************************)
EXTENDS Sequences

CONSTANT DirNames   \* the names of directories

SHARED_CACHE_NAME == "par-osm-rust"
LEGACY_CACHE_NAME == "osm-to-bedrock"

ASSUME DirNamesAssumption ==
  {SHARED_CACHE_NAME, LEGACY_CACHE_NAME, ".cache", "overpass", "srtm", "overture"} \subseteq DirNames

Path == Seq(DirNames)
Environment ==
  [windows : BOOLEAN, vars : UNION {[names -> Path] : names \in SUBSET STRING}, temp : Path]

\* A variable that is set to nothing counts as one that is not set.
IsSet(e, name) == name \in DOMAIN e.vars /\ e.vars[name] # << >>

\* What lies under the cache root: XDG_CACHE_HOME means nothing on Windows,
\* LOCALAPPDATA nothing elsewhere, and macOS is Unix.
PlatformCacheRoot(e, app) ==
  LET chosen == IF e.windows THEN "LOCALAPPDATA" ELSE "XDG_CACHE_HOME"
  IN  CASE IsSet(e, chosen) -> Append(e.vars[chosen], app)
        [] ~ IsSet(e, chosen) /\ IsSet(e, "HOME") -> Append(Append(e.vars["HOME"], ".cache"), app)
        [] ~ IsSet(e, chosen) /\ ~ IsSet(e, "HOME") -> Append(e.temp, app)

SharedCacheRoot(e) == PlatformCacheRoot(e, SHARED_CACHE_NAME)
LegacyCacheRoot(e) == PlatformCacheRoot(e, LEGACY_CACHE_NAME)

\* The two directories of a migration.
SharedDir(e, subdir) == Append(SharedCacheRoot(e), subdir)
LegacyDir(e, subdir) == Append(LegacyCacheRoot(e), subdir)

\* A getter: the library's own variable, the old application's, the default.
CacheDir(e, own, old, subdir) ==
  CASE IsSet(e, own) -> e.vars[own]
    [] ~ IsSet(e, own) /\ IsSet(e, old) -> e.vars[old]
    [] ~ IsSet(e, own) /\ ~ IsSet(e, old) -> SharedDir(e, subdir)

OverpassCacheDir(e) == CacheDir(e, "PAR_OSM_OVERPASS_CACHE_DIR", "OVERPASS_CACHE_DIR", "overpass")
SrtmCacheDir(e) == CacheDir(e, "PAR_OSM_SRTM_CACHE_DIR", "SRTM_CACHE_DIR", "srtm")
OvertureCacheDir(e) == CacheDir(e, "PAR_OSM_OVERTURE_CACHE_DIR", "OVERTURE_CACHE_DIR", "overture")
=============================================================================
