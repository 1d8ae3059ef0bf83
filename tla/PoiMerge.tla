------------------------------ MODULE PoiMerge ------------------------------
(***************************************************************************)
(* sources: merge_source_data, the policies on points of interest and      *)
(* their deduplication over a grid of cells.                               *)
(*                                                                         *)
(* A metre is METRE units of length: a step of latitude is NORTH of them,  *)
(* a step of longitude East[n] at the latitude n / 2, a mean of two.       *)
(* Folded gives what trimming and lower case make of a name, "" for a      *)
(* blank one.                                                              *)
(***************************************************************************)
EXTENDS OsmData

CONSTANTS METRE, NORTH, East, Folded

ASSUME MetresAssumption ==
  /\ METRE \in Nat \ {0} /\ NORTH \in Nat \ {0}
  /\ \A n \in DOMAIN East : East[n] \in Nat \ {0}

PoiSourceMode == {"OsmOnly", "OvertureOnly", "Both", "OverturePreferred"}
SourceStatus == PoiSourceMode \cup {"OvertureFallbackToOsm"}

----------------------------------------------------------------------------
(* Two points of interest that are the same place.                          *)

NameRaw(tags) == IF Has(tags, "name") /\ Folded[tags.name] # "" THEN Some(tags.name) ELSE None

\* The first rule whose key is there, whatever the values it asks for.
PoiCategory(tags) ==
  LET rules == Retain(POI_TAG_RULES, LAMBDA r : Has(tags, r.key))
  IN  IF rules = << >> THEN None ELSE Some(<<rules[1].key, tags[rules[1].key]>>)

TrimmedLowerEq(a, b) == Folded[a] = Folded[b]

DistanceSquared(a, b) ==
  LET dx == (a.lon - b.lon) * East[a.lat + b.lat]
      dz == (a.lat - b.lat) * NORTH
  IN  dx * dx + dz * dz

DUPLICATE_M == 25 * METRE
UNNAMED_DUPLICATE_M == 10 * METRE

PoiDuplicates(a, b) ==
  LET m == NameRaw(a.tags)
      n == NameRaw(b.tags)
      Within(far) == DistanceSquared(a, b) <= far * far
  IN  /\ PoiCategory(a.tags) = PoiCategory(b.tags)
      /\ \/ m # None /\ n # None /\ TrimmedLowerEq(m[1], n[1]) /\ Within(DUPLICATE_M)
         \/ m = None /\ n = None /\ Within(UNNAMED_DUPLICATE_M)

----------------------------------------------------------------------------
(* The grid.  A cell is one duplicate distance wide, measured from 0, 0 and *)
(* in longitude with the metres of the point's own latitude.                *)

DEDUP_CELL_SIZE_M == 25 * METRE

DedupCell(p) ==
  <<(p.lat * NORTH) \div DEDUP_CELL_SIZE_M, (p.lon * East[2 * p.lat]) \div DEDUP_CELL_SIZE_M>>

InWindow(a, b) ==
  LET c == DedupCell(a)
      d == DedupCell(b)
  IN  \A axis \in 1 .. 2 : d[axis] - c[axis] \in -1 .. 1

Priority(poi) ==
  CASE poi.source = "overture" -> 0
    [] poi.source = "osm" -> 1
    [] poi.source = "synthetic" -> 2

\* Mutant: the points keep the order in which the sources were appended.
ByPriority_AsAppended(pois) == pois

\* Sorting is stable: one group after the other, each in its order.
ByPriority(pois) ==
  LET Group(n) == Retain(pois, LAMBDA p : Priority(p) = n)
  IN  Group(0) \o Group(1) \o Group(2)

DedupePoisWithOverturePreference(pois) ==
  FoldLeft(LAMBDA kept, p :
             IF \E k \in DOMAIN kept : InWindow(p, kept[k]) /\ PoiDuplicates(kept[k], p)
               THEN kept
               ELSE Append(kept, p),
           << >>, ByPriority(pois))

----------------------------------------------------------------------------
(* merge_source_data: overture is an Option, and every arm that has it      *)
(* merges all of it but its points of interest, which the policy places.    *)

Result(data, status, warnings) == [data |-> data, status |-> status, warnings |-> warnings]
WithPois(d, pois) == [d EXCEPT !.pois = pois]
\* Mutant: the points of interest are merged before the policy is applied.
MergeRest_Pois(osm, overture) == Merge(osm, overture)
MergeRest(osm, overture) == Merge(osm, WithPois(overture, << >>))
MergeBoth(osm, overture) ==
  WithPois(MergeRest(osm, overture), DedupePoisWithOverturePreference(osm.pois \o overture.pois))

MergeSourceData(osm, overture, mode) ==
  CASE mode = "OsmOnly" /\ overture # None ->
         Result(MergeRest(osm, overture[1]), "OsmOnly", {})
    [] mode = "OsmOnly" /\ overture = None -> Result(osm, "OsmOnly", {})
    [] mode = "OvertureOnly" /\ overture # None ->
         Result(MergeRest(WithPois(osm, overture[1].pois), overture[1]), "OvertureOnly", {})
    [] mode = "OvertureOnly" /\ overture = None ->
         Result(WithPois(osm, << >>), "OvertureOnly", {"unavailable"})
    [] mode = "Both" /\ overture # None -> Result(MergeBoth(osm, overture[1]), "Both", {})
    [] mode = "OverturePreferred" /\ overture # None ->
         IF overture[1].pois # << >>
           THEN Result(MergeBoth(osm, overture[1]), "OverturePreferred", {})
           ELSE Result(MergeRest(osm, overture[1]), "OvertureFallbackToOsm", {"no pois"})
    [] mode \in {"Both", "OverturePreferred"} /\ overture = None ->
         Result(osm, "OvertureFallbackToOsm", {"unavailable"})
=============================================================================
