----------------------------- MODULE MCMigration -----------------------------
(***************************************************************************)
(* An overpass and an overture directory, two file names, on a Unix where  *)
(* XDG_CACHE_HOME is set to nothing.                                       *)
(***************************************************************************)
EXTENDS MigrationProps, CachePaths, TLC

Home == [windows |-> FALSE, temp |-> <<"tmp">>,
         vars |-> ("HOME" :> <<"home">>) @@ ("XDG_CACHE_HOME" :> << >>)]

Folders == <<"overpass", "overture">>

\* Two files that differ after the block at which files_equal stops, and one of
\* another length.
Bodies == {<<1, 1>>, <<1, 2>>, <<1>>}

Both(x, y) == [n \in {"a", "b"} |-> IF n = "a" THEN x ELSE y]

\* The shared overpass directory is empty or not, the shared overture directory
\* holds every kind of counterpart of the legacy entry.
Disk(so, st) ==
    (LegacyDir(Home, "overpass") :> Both(File(<<1, 1>>), File(<<1>>)))
      @@ (LegacyDir(Home, "overture") :> Both(File(<<1, 1>>), Other))
      @@ (OverpassCacheDir(Home) :> Both(Absent, so))
      @@ (OvertureCacheDir(Home) :> Both(st, Absent))
Found(disk, Of(_)) == [i \in {"overpass", "overture"} \X {"a", "b"} |-> disk[Of(i[1])][i[2]]]

\* The legacy overpass directory may be missing.
Start0 ==
    {[legacyDirs |-> dirs,
      legacy |-> Found(Disk(so, st), LAMBDA d : LegacyDir(Home, d)),
      shared |-> Found(Disk(so, st), LAMBDA d : SharedDir(Home, d))] :
        dirs \in {{"overture"}, {"overpass", "overture"}},
        so \in {Absent, File(<<1>>)},
        st \in {Absent, Other} \cup {File(c) : c \in Bodies}}
=============================================================================
