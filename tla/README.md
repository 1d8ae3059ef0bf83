# par-osm-rust: TLA+ models, checks and proofs

`par-osm-rust` is a library that fetches map data (Overpass, the `overturemaps`
CLI, SRTM elevation tiles), keeps it in disk caches shared by threads and
processes, parses it into one in-memory model (`OsmData`), and merges and
deduplicates the sources. It has no server and no consensus; what is hard in it
is the file system as shared memory without locks, partial failure, threads
that report over a channel, and the id and index arithmetic of the data model.

Line numbers are those of the files under `src/src/`.

## Inventory

| Component | State | Operations | Talks to | Hard part |
|---|---|---|---|---|
| `cache_store::RawCache` | a directory: per key a data file and a `.meta.json` sidecar, plus temp files | `write`, `stream_to_temp`, `commit_temp`, `read_meta`, `read_data`, `list`, `clear` | the file system, other threads and processes | two renames per commit, two unlinks per eviction, no lock, crashes |
| `osm_cache`, `overpass` | none of their own | `fetch_osm_data` and its lookups, the query, the URL allowlist | `RawCache`, HTTP, the XML parser | decisions on files that change between the look and the use |
| `overture::{cli,cache}` | version probe in a `OnceLock`, a child process | `fetch_overture_with_policy`, `wait_with_timeout`, read-through with a ttl | child process, `RawCache`, `overture::parse` | timeout against exit, partial failure, one id allocator across attempts |
| `overture::{parse,theme}` | none | GeoJSON to `OsmData`, tag rules | `synthetic_ids` | id allocation |
| `cache` | cache directories, legacy directories | directory getters, `migrate_legacy_caches` | the file system | a migration that dies half way, two at once |
| `srtm` | tile files, temp files; per call an atomic counter, a channel, workers | `download_tiles_for_bbox`, `tiles_for_bbox` | HTTP, the file system, the caller's callback | thread pool, retries, progress, exact answer |
| `elevation` | memory-mapped tiles | `HgtTile::load`, `elevation_at`, `parse_hgt_filename` | tile files written by `srtm` | file length decides the shape |
| `osm::model` | nodes, ways, relations, the index of ways by id | `push_way`, `with_ways`, `merge`, `clip_to_bbox`, `validate_invariants` | parsers, `sources` | invariants over long sequences of calls |
| `osm::{xml_parse,xml_write,pbf}` | the parser's open element | streaming parse, write | `osm::model`, `synthetic_ids` | round trips, ids of synthetic elements |
| `synthetic_ids` | a counter per allocator | `next_*`, `writer_*_id` | parsers, writer | disjoint ranges, zero and overflow |
| `sources`, `source_options` | none across calls | `fetch_map_data`, `merge_source_data`, `poi_duplicates`, `dedupe` | every fetcher | which failure is fatal, grid-cell deduplication |
| `bbox`, `filter`, `text_truncate`, `lib` | none | validation, `emit_progress`, truncation | everybody | boundaries |

What makes each correct:

* **RawCache**: a lookup finds a whole body or none; sidecar and body belong
  together except where a commit was interrupted or overlapped; a sweep leaves
  nothing behind and spares what is fresh; no temp file outlives its operation.
* **fetch_osm_data**: the answer is of the right endpoint and covers the
  request; the network is used only if the cache cannot answer; a fetch ends.
* **SRTM pool**: every tile is in place or named as failed, counted once, never
  of an illegal size; the progress never falls; the call returns.
* **Overture runner**: best effort keeps what succeeded, strict reports what
  failed; what a killed child left behind is never used; ids are never reused, and the
  same data gets the same ones; a child that hangs holds nobody for ever.
* **Migration**: no file is lost and none is overwritten, whatever is
  interrupted; a second run finishes the first.
* **OsmData**: the way index stays sound under every operation, a clip leaves
  what it keeps where it was, and what is written is read back. **Synthetic
  ids**: ranges never meet, and no id is given twice. **Sources**: the status is
  true of the data, nothing a source sent goes missing, and deduplication drops
  duplicates only.
* **Elevation**: after a download every point of the box has its tile, and the height that
  its samples give, whatever the resolutions; a void never becomes part of a height.

`PROJECT.json` lists under `hazards` each place where one of these can go
wrong, and the properties that would show it.

## Plan

The order is that of importance: what several actors do to shared state first,
sequential algorithms last. Every recursion is a recursive function or a fold of the
community modules.

1. **RawCache** over **CacheMap** (its abstract specification). *Done, with
   proofs.*
2. **SrtmPool**. *Done, with proofs.*
3. **OsmFetch**, composed from RawCache. *Done, with proofs.*
4. **OvertureRun**, composed from RawCache. *Done, with proofs.*
5. **Migration**: entries moved one by one, interrupted anywhere, two processes, a
   second call. *Done, with proofs.*
6. **OsmData**, **SyntheticIds**, **OsmXml**, **OsmPbf**, **OvertureParse** and
   **PoiMerge**: the data, its readers, its writer and the merge of two sources,
   as operators; **MapSession**: `fetch_map_data` and any sequence of operations on
   its result. *Done, with proofs.*
7. **TileGrid** and **SrtmElevation**: which tiles a box takes, which one a point is
   looked up in and what height it gets, composed with the pool. *Done, with proofs.*
8. **SourceOptions**, **BBox**, **OverpassUrl** and **CachePaths**: what a consumer's texts,
   numbers, URLs and environment become before the modules above use them. *Done; proofs of
   the directories.*
9. To come: the progress of `fetch_map_data`; a crash during an Overture fetch.

## Modules

| Module | What it is |
|---|---|
| `RawCache` | the cache protocol, one visible file operation per step |
| `RawCacheProps` | its properties, the refinement mapping, the inductive invariant |
| `CacheMap` | what a cache without sweeps promises: an atomic map |
| `MCRawCache` | model values for TLC |
| `RawCacheProofs` | proofs |
| `OsmFetch`, `OsmFetchProps`, `MCOsmFetch`, `OsmFetchProofs` | `fetch_osm_data` over RawCache |
| `OvertureRun`, `OvertureRunProps`, `MCOvertureRun`, `OvertureRunProofs` | `fetch_overture_with_policy` over RawCache |
| `SrtmPool`, `SrtmPoolProps` | one call of `download_tiles_for_bbox` |
| `TileGrid` | `tiles_for_bbox`, tile names, and the lookups of `elevation` |
| `SrtmElevation`, `SrtmElevationProofs`, `MCSrtmPool` | the pool and the grid together: what a download is for; proofs about both |
| `Migration`, `MigrationProps`, `MCMigration`, `MigrationProofs` | `migrate_legacy_caches` by several processes |
| `CachePaths` | which directories the caches and a migration use, in any environment (proofs in `MigrationProofs`) |
| `OverpassUrl` | which endpoints may be asked and which spellings are one endpoint |
| `BBox`, `SourceOptions` | boxes and their orders of numbers; what the texts of a configuration become |
| `OsmData`, `SyntheticIds` | `osm::model` and `synthetic_ids`, as operators |
| `OsmXml`, `OsmPbf` | the two readers and the writer |
| `OvertureParse` | features to data, properties to tags |
| `PoiMerge` | `merge_source_data`, `poi_duplicates` and the deduplication |
| `MapSession`, `MapSessionProps`, `MCMapSession` | `fetch_map_data` and what a consumer does with its result, over the six above |
| `OsmTypes` | the types of `osm::model` and of what its readers are given |
| `FoldTheorems` | what a fold of a set or a sequence computes: counting, induction along a fold |
| `OsmDataProofs` | the operations on data, the readers and deduplication, for any data of those types |
| `MapSessionProofs` | the Overture parser, and `fetch_map_data` with its consumer, for any sources and files |

Definitions named `X_Something` with a comment *Mutant* are variants of `X` with
a plausible bug; putting one in the place of `X` breaks the property that
`PROJECT.json` names with it. No specification uses them.

### RawCache

`meta[k]` and `data[k]` are the two files of key `k`; a value says which write it
came from (`ver`) and when (`at`), and a body also how many of its bytes were
copied. `temps` are the `NamedTempFile`s that hold a body. A thread is a record
with a program counter and the locals that survive from one file operation to
the next.

* `BeginWrite`, `PersistMeta`, `PersistData`: `write` (267-291). `BeginStream`,
  `Copy`, `FinishCopy`, `RejectOversized`, `CopyFails`: `stream_to_temp`
  (311-325) and the meta built after it. `PersistMeta`, `PersistData`,
  `CommitFails`, `DropTemp`: `commit_temp` (349-378) and what its caller does
  with the temp file it gets back.
* `ReadMeta`, `ReadData`, `Return`: a lookup, sidecar first (225-242), with the
  ttl test of `overture_cache_read`.
* `BeginClear`, `ListingFails`, `MeetData`, `MeetMeta`, `RemoveOrphan`,
  `RemoveData`, `RemoveMeta`, `EndClear`, `LeaveClear`: `clear` (425-471). A
  name that is present when `read_dir` starts and still there is met; one that
  appears meanwhile may be.
* `WriterCrashes`, `LeaveClear`: the process dies between two operations.

`clean`, `torn` and `quiet` are history: which commits nothing of their key came
between, which entries were last left by one that was not, which sweeps met no
rename. No guard reads them.

### OsmFetch

EXTENDS `RawCache`: its writers are now clients inside `fetch_osm_data`
(413-466) and every step of theirs on the directory is RawCache's. `cl[c]` adds
the client's own locals, `asked[v]` what version `v` was requested as, that is
the `bbox` and `overpass_url` of its sidecar. The lookup of the exact key is two
steps (sidecar, then `exists`), the containment lookup reads sidecar after
sidecar and then looks for the data file of each match, and the parse opens the
path in a step of its own: everything between is where others interleave.

Abstractions: a box is an interval, because the code treats both axes alike and
independently; `Snap` is the rounding to 4 decimals, with the unit as the
constant `Grain`; the feature filter and the endpoint both enter the key and both
must match exactly, so one `src` stands for the pair; the endpoint of each spelling of a URL is
the constant function `Canon` and the spellings that are let through the set `Approved`,
both of which the runs compute with `OverpassUrl` from four spellings; HTTP is answered by a
body of some length that parses or does not, or by a failure.

### OvertureRun

EXTENDS `RawCache`: a fetch thread is both a reader and a writer of it. `fo[f]` is
the thread's place in `fetch_overture_with_policy` (500-597) and in
`fetch_one_theme` (365-398), `probe` the `OnceLock` of `cached_cli_version`
(142-145), `made[v]` what download became version `v`. A wait (183-203) ends in one
of three ways: `Succeeds`, the child exited with success; `NoUse`, it could not be
spawned, failed, printed what cannot be read, or `try_wait` failed; `TimesOut`, it was
still running at a poll after the deadline and was killed. The child itself is not a
variable: which of the three happens is open at every poll. `Broken` says what the
three callers make of a wait without a status, `PairFails` what the two policies make
of a type that failed. `ProbeVersion` and `KnowsVersion` are `get_or_init`, in which
all but the first caller wait.

Abstractions: a body is its type, how many ids its features take, and whether it
parses (the only error of `parse_overture_geojson_with_allocator` is met before it
draws an id); `got` keeps of each merged type the ids it was given; a version of the
CLI is known or unknown; the clock dates cache entries and says nothing of how long a
child runs. The error of a strict fetch is the set `failed`.

### SrtmPool

`wk[w]` is a worker (368-384) somewhere in `download_tile_with_retry` (286-308) and
`download_tile` (202-280), `queue` the channel, `call` the calling thread
(385-427). `next` is the shared `AtomicUsize`. `OtherCall` is a concurrent call in
this or another process renaming its own copy. Payloads are sizes; `Srtm1` and
`Srtm3` are the two legal ones. A panicking callback drops the receiver, and the
scope joins the workers before the panic goes on.

### TileGrid and SrtmElevation

A degree is `Deg` units, so that points between whole degrees exist; `Floor` and `Ceil`
are those of `tiles_for_bbox` (61-64). A name is the sequence of its characters, built
by `TileName` (90-94) and taken apart by `ParseHgtFilename` (elevation.rs 141-202),
because what is at stake is that the one undoes the other, for every hemisphere.
SrtmElevation sets the pool's `Total` to the tiles of one `Box` and reads the
directory as `ElevationData::from_path` does once the call has returned (`Loaded`): a file
is a name and a length, and the length decides the side of its grid (`Side`).
`ElevationAt` then interpolates between four samples (`Interpolated`), in integers: a
height is in `Deg * Deg` parts of a metre, so nothing is rounded. The mirror serves the
samples of `Ground`, neighbours sharing those of an edge, and `VOID` at `Voids`, as 2 x 2 or 3 x 3
tiles. `Ground` is bilinear, so the interpolation must give the ground itself:
a row counted from the wrong side, weights exchanged or a sample of another tile shows.

### Migration

`legacy` and `shared` are the two trees, a file the sequence of its blocks. A process
goes through the subdirectories (210-268): `OpenDir`, `CheckShared`, `CountLegacy`,
`List`, `TakeEntry`, `FinishDir`; and takes each entry (273-330) through
`CheckExists`, `Compare`, `DropDuplicate`, `Rename`, and where the rename fails across
devices `OpenCopy`, `FinishCopy`, `RemoveSource`. Each is one call of the file system.
`files_equal` compares lengths and no more than `Cap` blocks. `Interrupt` stops a
process before any call, `Start` lets another run the migration afterwards or at the
same time. `legacy0`, `shared0`, `torn` and `overlapped` are history.

That the two trees, and the subdirectories of each, are different places is what
`CachePaths` is for: `PlatformCacheRoot` and the getters over an environment, of which
`MigrationProofs` shows it for all of them. MCMigration places its files by it.

### OsmData, SyntheticIds, OsmXml, OsmPbf, OvertureParse, PoiMerge

These are operators on one record. Coordinates are integers, a tag map is a function
of its keys, an id map a function of its ids; the ways are counted from 1, where the code's
count from 0.

* `OsmData`: `PushWay`, the eight `with_*` builders, `Merge`, `Clip`, `ValidateInvariants` and
  the classification rules, in the code's order.
* `SyntheticIds`: the four bases with the compile-time assertions on them, the
  allocator and the writer's ids.
* `OsmXml`: a file is the sequence of events `quick_xml` reports; `OnStart`, `OnEmpty`
  and `OnEnd` are the arms of the reader's loop, with the depth cap and the skip of what
  does not parse. `WriteXml` writes events, so that reading what was written is a
  computation. Escaping is the identity but for line breaks and tabs in an attribute,
  which are not escaped and come back as blanks (`Blanked`).
* `OsmPbf`: a file is its elements; `OnPbfNode`, `OnPbfWay`, `OnPbfRelation`.
* `OvertureParse`: a body is its features; the mapping of properties is a table of
  rules, and the allocator is threaded through the pairs of theme and type of a fetch (`Pairs`).
* `PoiMerge`: the four modes of `merge_source_data`, and the deduplication with its
  cells and its window, in lengths of integers: `East` gives the length of a step of longitude at
  each latitude.

### MapSession

`fetch_map_data` is `BeginFetch`, `FetchOsm`, `FetchOverture`, `MergeSources`,
`ClipResult` and the two failures. It begins with the settings of a consumer as texts:
`SourceOptions` parses them, and settings that do not parse make no call. A text is a
value of a small set; what trimming, lower case and hyphens make of it are the constants
`Trimmed`, `Lower` and `Hyphened`, and a comma-separated text is the sequence of its pieces.

What the two sources send is not invented. `Answer` computes Overpass's reply from a world,
the query and the box (external: the server), for the box asked for or for a larger one that
the cache may hold, and OsmXml reads it. `OvertureData` fetches each type of the themes
from a `Release`, with the box in the order of the command line (`Wsen`; external:
`Download`), and OvertureParse reads that. So `FetchKeepsLines` compares what the two
sources know with what the consumer holds, across query, classification, parsing,
merging and clipping.

Afterwards the consumer reads files of both formats, merges, pushes and replaces ways or any
other collection, rebuilds with the constructor, clips, and writes and reads again, in any order.
A caller of `push_way` asks first for the id, as `merge` does; `OsmDataProofs` shows why it must.

## Runs

`pass` means TLC finished with no error on the whole bounded state space.

| Run | Distinct states | What it shows |
|---|---|---|
| `raw_writers` | 566k | two writers and a reader of one key, I/O failures and crashes everywhere, no sweep: `NoDataWithoutMeta`, `PairsAgree`, `CapIsExact`, `CleanCommitHeals`, and RawCache implements `CacheMap` (`IsAtomicMap`) |
| `raw_sweeps` | 931k | a writer and a sweep of either kind over two keys, with I/O failures, from every shape of entry: `ClearEmpties`, `ClearSparesFresh`, `TempsAreOwned`, and every operation ends (`EveryOperationReturns`) |
| `osm_nested` | 2.75M | nested boxes, two mirrors, two spellings of one: `AnswerCovers`, `CacheBeforeNetwork` |
| `osm_swept` | 556k | `clear` running through two clients of one key, with failures and crashes: every fetch ends (`FetchReturns`) |
| `overture_run` | 2.24M | two types, two threads, both policies, children and cache that may fail or never end, entries that expire: `PolicyKept`, `IdsDisjoint`, `SameBodiesSameIds`, `WholeDownloads`, and every fetch returns (`FetchReturns`) |
| `srtm_pool` | 844k | the tiles of a box across the equator, two workers, two attempts, a callback that may panic: the safety properties of the pool, `BoxIsServed` of the directory it leaves and the heights it gives, and the call returns (`CallReturns`) |
| `migration` | 282k | two processes, one after the other or together, each interrupted before any call: `NothingLost`, `SharedKept`, `CountsAreTrue`, and a call returns (`MigrationReturns`) |
| `map_session` | 32.4k | three operations in any order, from every fetch, with settings as texts: `SessionTypeOK`, `FetchKeepsLines`, `StatusHonest`, `DedupeSound`, `QueryMatchesRules`, `ClipSound`, `RoundTrip` |

Runs in which TLC must find a counterexample, because the code differs from one
of its own comments:

| Run | The comment | What the code does |
|---|---|---|
| `raw_crash_stale` | cache_store.rs 248-250: a crash before the data rename is a miss | while an entry is being replaced, the old body is found under the new sidecar |
| `migration_stranded` | cache.rs 236-239: a non-empty shared directory means that the migration already happened | a call that dies, or fails, after its first file leaves the others, and every later call skips them |
| `map_tagged` | osm/model.rs 308-309: `tagged_nodes` is the superset of the curated collections | the Overture parser and the constructor do not fill it; the writer then leaves out what it lacks |
| `dedupe_window` | sources.rs 215-218: the 3x3 window is guaranteed to hold every kept point within 25 m | a cell's column is measured from the prime meridian with the point's own latitude, so far from it two points 20 m apart may be columns apart, and both are kept |

### What else the models show

These are not disagreements with a promise of the repository, but a reader of it
may not expect them; the properties are stated so that they allow them.

* The path `fetch_osm_data` parses may hold another fetch's body of the same key by then
  (overpass.rs 394-397); it answers the same request.
* A malformed 2xx body is committed before it is parsed and stays an error until it is
  cleared.
* `HgtTile::elevation_at` gives no height if any of the four samples is void; its comment
  (elevation.rs 85-86) says only if all four are. `BoxIsServed` states what the code does.
* A theme that is listed twice is fetched, and merged, twice. The empty text means all
  themes, as the empty list does; a list with one empty text is an error.
* The directory getters migrate nothing: overture/cache.rs 193-195 says that legacy Overture
  files are migrated on first use, cache.rs 93-96 that they are not. With an override in
  place the getters also read another directory than the one that was migrated into.
* The elevation of a point exactly on a north or east edge at a whole degree is looked
  up in a tile that the download of that box does not ask for (`BeyondEdge`).
* Deduplication comes before the clip, so a point of the box may give way to a preferred
  one outside it, which the clip then removes.
* A relation that `clip_to_bbox` keeps still lists the member ways it removed, and the
  nodes of points of interest leave the id map while the points stay.
* XML and PBF treat the same data differently: only XML drops the second relation of an
  id and members with id 0, only PBF drops a way with id 0, and XML that ends in the
  middle of an element is read without an error.
* Written and read again the data has one node more for each standalone point, and a way
  or relation with id 0 gets its writer id, which a consumer could have used itself.
* Data read back from a file may hold ids of the Overture band; merging it with a new fetch
  makes ids collide, which osm/model.rs 669-670 leaves to the caller.

### Bounds

* `MaxVersion` (writes in a behaviour) is 2 or 3: a torn entry needs two writes of
  one key, and a third shows that a clean commit heals it. `MaxTime` is 0 or 1: the
  only use of the clock is one comparison of an age, on both sides of the boundary.
  No lookup of `fetch_osm_data` has a ttl, so in the `osm_*` runs time only dates what is
  written. In `overture_run` the ttl is 0 and the clock 0 or 1: fresh and expired.
* One key where two writers meet, since no step touches two; two keys where a sweep
  (`raw_sweeps`) or a listing (`osm_*`) must go on after the first.
* `MaxBytes = 1` with bodies of 1, 2 and 3 bytes in `raw_writers`: at the cap, one over (`take(max +
  1)` reads it whole) and two over (the copy stops early). Elsewhere `MaxBytes = 0` with
  bodies of 0 and 1, at the cap and over it.
* `raw_sweeps` starts from every shape an entry can have that a sweep treats apart: nothing, a
  pair, an unreadable sidecar with a body, a body alone.
* Two types in `overture_run`: one that fails and one that does not, in either order; two
  versions, so that both can be downloaded, or one again after it expired. A body takes 2 ids.
* `srtm_pool`: a quarter of a degree is the unit (`Deg = 4`) and the box crosses the equator. Each
  tile may be of either resolution, so points lie on samples, between them and on the
  seam of two resolutions; one position is void. There
  are more tiles than workers: one worker must come back while the other is busy. Two attempts: one
  retry and one giving up.
* `migration`: two subdirectories, of which one is guarded by the non-empty check and one is
  not; two names; bodies that differ after the block at which `files_equal` stops, and one of another
  length; the destination absent, equal, different, or no file.
* `map_session`: three operations reach every pair of operations on a fetched result. The
  world has a node of each class, ways that share nodes and cross the box, a node
  outside every way; the files have what the readers must refuse; the Overture releases
  have a point, a line, a ring with a malformed position and a shape without
  rings. The settings spell themes, modes and policies in several ways and wrongly. `dedupe_window` has the real proportions of 45 degrees north in centimetres.
* The threads of `osm_nested` are permuted by SYMMETRY: no definition tells them apart.
  The runs with a liveness property use none.

### Fairness

Weak fairness of each thread's own steps inside an operation, nothing else: the
operating system schedules threads, and every step is one file operation or, for
the network, ends because both HTTP clients are built with a timeout. In OvertureRun that includes
`TimesOut`, which the polling thread does by itself once the deadline has passed, and
nothing that a child does: `FetchReturns` holds for children that never end. In Migration it is the
steps of a process that has started; it may be interrupted but need not be. No fairness
is assumed of starting an operation, of crashes, of sweeps or of failures. `raw_writers`,
`raw_crash_stale`, `srtm_pool`, `migration`, `migration_stranded`, `map_session`, `map_tagged` and `dedupe_window`
set `CHECK_DEADLOCK FALSE`: a bound on writes or operations, and a call that has returned, let the
system stop; where a sweep or a fetch can always be started deadlock is checked, and in
`overture_run` it would also show two fetches that wait for a version nobody probes.

## Proofs

All proofs are checked by TLAPS for every value of the constants, from the named
assumptions on the constants (`CacheAssumption`, `FetchAssumption`, `OvertureAssumption`,
`PoolAssumption`, `GridAssumption`, `BoxAssumption`, `SidesAssumption`, `MigrationAssumption`,
`DirNamesAssumption`, `BasesAreOrdered`, `XmlAssumption`, `SessionAssumption`; TLC evaluates them on the runs). A theorem that needs more says so
in its own `ASSUME`: that nothing sweeps the directory, that no process dies, that an
earlier run left no body without a sidecar, that the processes are finitely many, or what the ground is
like, each of which the run of the same property also sets.

* `RawCacheProofs`. `TypeCorrect` proves the type invariant, with the facts it needs
  about keys (`Typed`). `PairsAlwaysAgree` and `CapAlwaysExact` come from `CommitInv`:
  `PairsAgree` is not inductive alone, one must know that a commit still `clean`
  finds its own sidecar in place (`CleanMeansOurs`), and of the cap that a writer
  past its copy holds the whole body (`CopyBounds`). `CleanCommitsHeal` is the action
  property from the same invariant. `NeverDataAlone` assumes that nothing sweeps, as
  its run does, and adds that between the renames the sidecar is there
  (`MetaBeforeData`).
  `TempsAlwaysOwned` assumes that no process dies. `SweepsSpareFresh` needs to know which
  version a sweep judged: no version is in two places that could differ in age
  (`VersionInv`), so what a sweep read of an intact entry is the age of that entry
  (`JudgedOld`). `QuietSweepsEmpty` follows a sweep through its listing (`SweepInv`): a
  body goes before its sidecar, and every file that is left is one still to come in a
  listing unless a rename or a failed unlink touched it.
  `WritesAreAtomic` is the refinement: given `MapInv` (a sidecar is there before the body it
  vouches for, and a lookup has no answer before it has read one), every step of RawCache
  is a step of `CacheMap` or changes nothing of it. It assumes that nothing sweeps and that no earlier run left a
  body without a sidecar.
* `OsmFetchProofs`. `FetchInv` says that a version stays under the key it was asked for,
  in the files and in its writer's hands (`FilesFiled`), and that a client only keeps
  keys that serve its request (`ClientOK`). Steps on files are reused from RawCache in
  the form "renames at most its own version to its own key" and "unlinks at most", so
  `AnswersCover` holds with any number of sweeps and crashes, where TLC checks one
  sweep. It rests on the monotonicity of the rounding (`SnapMonotone`). `FetchTypeCorrect`
  is the type invariant; `PathsHoldFiles` assumes that nothing sweeps.
  `CacheComesFirst` follows the search of a client since whose start no file has changed:
  what it has listed so far is exactly what it may use, and at the network nothing is
  (`CalmListings`). `FetchesUseTheCache` is the composition, every step of any number of
  clients is a step of RawCache or leaves the cache alone, so each theorem about the cache
  holds under them; with `WritesAreAtomic` it gives `FetchesAreAtomic`.
* `OvertureRunProofs`. `RunInv` has three layers: where a fetch stands and what it has
  merged and failed by then, told by its locals alone (`PathOK`: place, policy, ids);
  what it has in its hands, in its reader and in its writer (`HandsOK`); and that every
  file is a finished download of its key's type (`FilesOK`). `RunTypesCorrect`,
  `IdsNeverMeet`, `PolicyAlwaysKept` and `OnlyWholeDownloads` follow for any list of types and
  any threads that share the cache and the probe. `SameBodiesDrawSameIds` relates two
  fetches at different places, so its invariant (`SameInv`) says it of every prefix of
  both: the id that stands at a type depends on the bodies merged below it alone.
  `RunsUseTheCache` and `RunsAreAtomic` compose it with RawCache as above.
* `SrtmElevationProofs`, the pool. `PoolInv` says where the answer about each tile pulled so far is at
  every moment: in a worker's hands, on the channel, in the failed set or on disk.
  `PoolTypeCorrect`, `AnswersAreExact`, `FilesAlwaysWhole`, `TempsAlwaysOwned`, and the
  action property `ProgressMonotone` follow. `CountAlwaysExact` is not inductive alone:
  a tile must have one worker (`OneWorker`) and one report (`OneReport`), or a second
  report could be counted for the same rename (`CountInv`).
  The grid: division with remainder on one axis (`AxisCovered`, `AxisBeyond`) gives
  `NoTileTwice` and `LookupsAreListed` for every box, negative degrees included. A tile's name
  is digits, and a number is read back from them by a fold (`NamesAreRead`), so what the pool left,
  by `AnswersAreExact` and `FilesAlwaysWhole`, is loaded under the tile it was downloaded
  for. With the arithmetic of a bilinear cell (`SampleIs`) that is `BoxIsServedAlways`: the run's
  `BoxIsServed` for every box, scale and number of threads. It assumes that the ground is bilinear, as the run's
  is, so that interpolating it is exact, and on the box's tiles never has the one height that
  stands for a void.
* `MigrationProofs`. `MigrationInv` says of every item that it is where it was, or has been
  replaced, or is in the hands of a process at a known place (`PlaceInv`), and what each
  history variable then is. `NoFileLost`, `SharedEntriesKept` and `MigrationTypeCorrect`
  hold for any number of processes, directories and files. `ReportsAreTrue` adds counting: for any
  finite number of processes the reports sum up to the items that are no longer where they were,
  because every step changes one report by one and one item with it (`SumStep` in FoldTheorems).
  Whatever the environment, the root of the caches is some directory with the
  application's name in it (`RootForm`), so `MigrationDirsApart`: the directories a migration works
  between are all different and as long as each other, hence none lies in another; and
  without an override `CachesApart`: no two caches share a directory.
* `OsmDataProofs`. `WriterIdsStart` and `WriterIdsStayFresh`: by counting, a free id exists below any
  finite set, so the search of `next_writer_node_id` ends and gives an id that neither
  the data has nor the writer gave; `WriterIdsAreFresh` says it of all the ids of a document together. `PushWayKeepsIndex` and `WithWaysMakesIndex` establish
  `validate_invariants` for data of any size, the other builders keep it
  (`BuildersKeepIndex`), and `PushWayOfAKnownId` shows that `push_way` of an id that is
  there always breaks it.
  The rest holds of any data of the types of `osm::model` (`Datas`), sound if
  `validate_invariants` passes (`SoundDatas`). `MergeKeepsIndex`: merge asks for every id before it
  pushes, so it keeps the index for any other data, even unsound. `ClipKeepsIndex`,
  `ClipKeepsGeometry`: the nodes that a clip removes are of no way it keeps. `DedupeIsSound` follows the
  list of kept points along the sorted candidates: each is kept, or dropped for one that was
  kept before and so is at least as preferred. `XmlIsSound` and `PbfIsSound` follow the readers'
  states: whatever the input, the ways collected so far have different ids. Such a proof goes
  along a fold; a lemma `...Steps` turns the fold into a sequence of its intermediate
  values, one for each folded operator, since a lemma cannot take an operator.
* `MapSessionProofs`. `OvertureIsSound` says the same of the Overture parser: the allocator
  counts down, so every id it has given is above its next one (`ParseGood`). `ClipTwice`: a clip within a clip
  is the inner one, for any data. `SessionInv` then says of every state of the session that
  what is held and fetched is sound, Overture's with its own points of interest and OSM's with
  its own, and that between the merge and the clip the status goes with the points of interest under the policy
  (`Outcome`). It needs that everything a reader is given is a document: the server's answer (`AnswerIs`),
  a file (`FileIs`), and what the writer makes of sound data (`WrittenIs`). `SessionIsSound`,
  `StatusIsHonest`, `SessionDedupes` and `SessionClips` follow, for any world, areas, releases, files,
  settings and number of operations, of the types that `SessionAssumption` names.
  `QueryAndRulesMatch` follows an answer through the reader. `NodesAsked`: the query asks for a node
  if and only if the classification names it, or it is an address and buildings are wanted.
  `AnswerParts`: an answer is the elements of those nodes and then events among which no node
  begins. `FlattenPlaces` says at which event each element begins, so that a sequence of states of
  the reader (`ReadsDocument`) can be followed: over the tags of one node in whatever order they are
  written (`NodeRead`), node by node (`AnswerRead`), and to the end, where nothing is added
  (`QuietRead`). `ReadCurated`: the blanks that stand for line breaks change no class, since no value
  of the rules has one (`XmlAssumption`).

A proof by induction over data is by least counterexample: of the subsets on which a fold
goes wrong one is smallest, and the step into it was right (`FoldTheorems`).

The provers know of no text that it is a string, so the types take texts from
`Strings`, the strings and the few texts that the code itself writes.

Only model-checked: liveness (`EveryOperationReturns`, `FetchReturns` of both fetches,
`CallReturns`, `MigrationReturns`), which needs ENABLED; and two properties of MapSession that
relate all that went into a sequence of folds to all that came out: `FetchKeepsLines` (query,
server, reader, parser, merge and clip together) and `RoundTrip` (writer and reader). What
`QueryAndRulesMatch` does for the nodes of an answer would have to be done for the ways,
relations and positions of any data, through the writer and the reader both.

## Not modelled

* A clock that steps back, a cache directory that is missing or unreadable beyond
  `read_dir` failing, files with names outside the key alphabet, and the temp files
  of sidecars (they are renamed or dropped within one step).
* The tokens of XML and the blocks of PBF (they belong to `quick_xml` and `osmpbf`), the caps
  on a PBF file's size, JSON, HTTP itself, the parsing of URLs.
* Floating point: coordinates and heights are integers of a unit, so neither rounding nor
  NaN and infinities, which `validate_bbox` refuses, exist; memory maps, which are what their
  files are.
* `parse_overture_priority_map`: of two keys for one theme the one that a hash map
  yields last counts, and what it parses is asked for nowhere (neither are the other
  priorities, which are modelled up to the map). `text_truncate` (string arithmetic
  without state). Symbolic links and `..` in the paths of an environment.
* Two caches whose overrides name one directory: nothing in the code prevents it and
  nothing in the repository says what should happen.
* The progress reports of `fetch_map_data` and of an Overture fetch; those of the SRTM pool are
  modelled, where threads send them.
* A process that dies, or a `clear`, during an Overture fetch: on the files these are
  RawCache's runs, and the fetch has no other state that outlives it.
