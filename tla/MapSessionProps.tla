--------------------------- MODULE MapSessionProps ---------------------------
(* What must hold of the data a consumer fetches, changes and writes.       *)
EXTENDS MapSession

Option(Type(_), x) == x = None \/ (Len(x) = 1 /\ Type(x[1]))

IsPoiList(list) == \A p \in Range(list) : p.source \in FeatureSources /\ {p.lat, p.lon} \subseteq Int
IsOsmData(d) ==
  /\ DOMAIN d = DOMAIN EmptyData
  /\ DOMAIN d.nodes \subseteq Int
  /\ \A p \in Range(d.nodes) : DOMAIN p = {"lat", "lon"}
  /\ \A w \in Range(d.ways) : w.id \in Int /\ Range(w.refs) \subseteq Int
  /\ DOMAIN d.index \subseteq Int /\ Range(d.index) \subseteq Nat
  /\ \A r \in Range(d.relations) : r.id \in Int /\ Is(r.tags, "type", "multipolygon")
  /\ Option(LAMBDA b : b \in Boxes, d.bounds)
  /\ IsPoiList(d.pois) /\ IsPoiList(d.addrs) /\ IsPoiList(d.tagged)
  /\ \A p \in Range(d.trees) : DOMAIN p = {"lat", "lon"}

Sound(d) == IsOsmData(d) /\ ValidateInvariants(d)

\* No sequence of fetches, files, merges, clips and rewrites makes data that
\* validate_invariants rejects, ways apart from the index of their ids, or a
\* relation that is no multipolygon; and a step of a fetch has what it reads:
\* overture data only if it was asked for, a status before the clip.
SessionTypeOK ==
  /\ pc \in {"idle", "osm", "overture", "merge", "clip"} /\ ops \in 0 .. MaxOps
  /\ (pc = "idle") = (request = None) /\ (pc = "idle") = (box = None)
  /\ pc # "idle" => /\ request.mode \in PoiSourceMode
                    /\ request.onFailure \in OvertureFailureMode
                    /\ Range(request.themes) \subseteq Range(AllThemes)
  /\ Sound(held) /\ Sound(osm) /\ Sound(result.data)
  /\ Option(Sound, overture)
  /\ overture # None => request.overture
  /\ pc = "clip" => result.status \in SourceStatus

----------------------------------------------------------------------------
(* fetch_map_data.                                                          *)

\* The positions of the lines among Overture's features.
Positions(coords) ==
  LET found == Retain(coords, LAMBDA c : c # None)
  IN  [k \in DOMAIN found |-> At(found[k][1])]
LinesOf(f) ==
  CASE f.type = "LineString" -> <<Positions(f.coordinates)>>
    [] f.type = "Polygon" -> <<Positions(OuterRing(f.coordinates))>>
    [] f.type = "MultiPolygon" ->
         [k \in DOMAIN f.coordinates |-> Positions(OuterRing(f.coordinates[k]))]
    [] f.type = "Point" -> << >>
OvertureLines ==
  LET pairs == Pairs(request.themes)
      Lines(features) == FlattenSeq([k \in DOMAIN features |-> LinesOf(features[k])])
  IN  IF overture = None THEN << >>
      ELSE FlattenSeq([k \in DOMAIN pairs |-> Lines(release[pairs[k].type])])
Geometries(d, ways) == [k \in DOMAIN ways |-> Geometry(d, ways[k])]
OsmLines ==
  LET query == BuildOverpassQuery(request.filter)
      bare  == WithNodes(World, [id \in DOMAIN World.nodes |-> At(World.nodes[id])])
  IN  Geometries(bare, Retain(World.ways, LAMBDA w : Asked(query, "way", w.tags)))

\* The answer has what the two sources know of the lines that were asked for
\* and touch the box, each where its source has it and no line twice or
\* crossed with another: each source is asked for the same box in its own
\* order, and the ids that the themes are given meet neither each other nor
\* OSM's.
FetchKeepsLines ==
  [][pc = "clip" /\ pc' = "idle" =>
       LET here == Retain(OsmLines \o OvertureLines,
                          LAMBDA l : \E p \in Range(l) : Inside(p, box))
       IN  Geometries(held', held'.ways) = here]_vars

\* The status a caller is shown is true of the points of interest: a fallback
\* has all of OSM's and nothing else, and the other policies have no source
\* that they exclude, and all that they prefer where nothing duplicates it.
StatusHonest ==
  pc = "clip" =>
    LET From(source) == Retain(result.data.pois, LAMBDA p : p.source = source)
        theirs == IF overture = None THEN << >> ELSE overture[1].pois
        sources == {p.source : p \in Range(result.data.pois)}
    IN  CASE result.status \in {"OsmOnly", "OvertureFallbackToOsm"} ->
               /\ result.data.pois = osm.pois
               /\ result.status = "OsmOnly" \/ result.warnings # {}
               /\ result.status = "OsmOnly" \/ request.mode = "Both" \/ theirs = << >>
          [] result.status = "OvertureOnly" -> result.data.pois = theirs
          [] result.status \in {"Both", "OverturePreferred"} ->
               /\ sources \subseteq {"osm", "overture"}
               /\ result.status = "OverturePreferred" => From("overture") # << >>

Candidates == osm.pois \o (IF overture = None THEN << >> ELSE overture[1].pois)
Deduped == pc = "clip" /\ result.status \in {"Both", "OverturePreferred"}

\* What deduplication drops is a duplicate of something kept, of a source at
\* least as preferred, and of two kept in neighbouring cells none duplicates
\* the other.
DedupeSound ==
  Deduped =>
    LET kept == result.data.pois
    IN  /\ Range(kept) \subseteq Range(Candidates)
        /\ \A p \in Range(Candidates) \ Range(kept) :
              \E q \in Range(kept) : PoiDuplicates(q, p) /\ Priority(q) <= Priority(p)
        /\ \A i, j \in DOMAIN kept :
              i < j => ~ (InWindow(kept[j], kept[i]) /\ PoiDuplicates(kept[i], kept[j]))

\* dedup_cell's comment: the window of a cell is guaranteed to hold every kept
\* point within the distance, so no two that are kept are duplicates.
WindowSuffices ==
  Deduped =>
    LET kept == result.data.pois
    IN  \A i, j \in DOMAIN kept : i < j => ~ PoiDuplicates(kept[i], kept[j])

\* The tags that the reader makes of those that are written.
AsRead(tags) == [key \in DOMAIN tags \ {""} |-> XmlAttrValue(tags[key])]

\* The query asks for a node with tags exactly if the reader classifies it:
\* nothing arrives that ends in no collection, and no point of interest or
\* tree of the area stays behind, nor an address where buildings are wanted.
QueryMatchesRules ==
  pc \in {"overture", "merge"} =>
    LET Known(tags) == IsPoi(tags) \/ IsTree(tags)
    IN  /\ \A p \in Range(osm.tagged) :
              \/ p \in Range(osm.pois) \cup Range(osm.addrs)
              \/ At(p) \in Range(osm.trees)
        /\ \A n \in Range(World.nodes) :
              /\ Inside(n, box)
              /\ Known(n.tags) \/ (IsAddr(n.tags) /\ "buildings" \in request.filter)
              => Poi(n, AsRead(n.tags), "osm") \in Range(osm.tagged)

----------------------------------------------------------------------------
(* Clipping and writing, of what is held: it changes only on the way to a   *)
(* state that is idle.                                                      *)

ClipBoxes == {b \in Areas : NewBBox(b.south, b.west, b.north, b.east) # None}

\* A clip leaves the ways it keeps where they were, though it removes nodes,
\* and clipping in two steps is clipping once: a larger cached area serves a
\* request as well as an answer for the request itself.
ClipSound ==
  pc = "idle" =>
  \A outer \in ClipBoxes :
    LET c == Clip(held, outer)
    IN  /\ \A k \in DOMAIN c.ways :
              \E j \in DOMAIN held.ways :
                 /\ held.ways[j] = c.ways[k]
                 /\ Geometry(held, held.ways[j]) = Geometry(c, c.ways[k])
        /\ \A inner \in ClipBoxes :
              Covers(outer, inner) => Clip(c, inner) = Clip(held, inner)

FirstOfEachId(list) ==
  FoldLeft(LAMBDA acc, x : IF \E y \in Range(acc) : y.id = x.id THEN acc ELSE Append(acc, x),
           << >>, list)
ReadMembers(members) ==
  LET found == Retain(members, LAMBDA m : m.way # 0)
  IN  [k \in DOMAIN found |-> [found[k] EXCEPT !.role = XmlAttrValue(@)]]

\* What is written is read again: every way and relation under the id it was
\* written with (the first of an id), all references that have a node, every
\* node in its place and none under an id that was taken, the standalone
\* nodes with their tags, and the bounds.
RoundTrip ==
  pc = "idle" =>
  LET r == ParseXml(WriteXml(held))[1]
      ways == [k \in DOMAIN held.ways |->
                 Way(WrittenWayId(held, k), AsRead(held.ways[k].tags),
                     Present(held, held.ways[k].refs))]
      relations == [k \in DOMAIN held.relations |->
                      Relation(WrittenRelationId(held, k), AsRead(held.relations[k].tags),
                               ReadMembers(held.relations[k].members))]
      standalone == [k \in DOMAIN Standalone(held) |->
                       Poi(Standalone(held)[k], AsRead(Standalone(held)[k].tags), "osm")]
  IN  /\ ParseXml(WriteXml(held)) # None
      /\ r.ways = FirstOfEachId(ways)
      /\ \A w \in Range(r.ways) : Range(w.refs) \subseteq DOMAIN r.nodes
      /\ r.relations = FirstOfEachId(Retain(relations, LAMBDA x : x.members # << >>))
      /\ Restrict(r.nodes, DOMAIN held.nodes) = held.nodes
      /\ Cardinality(DOMAIN r.nodes) = Cardinality(DOMAIN held.nodes) + Len(standalone)
      /\ r.tagged = Retain(standalone, LAMBDA p : p.tags # NoTags)
      /\ held.bounds # None => r.bounds = held.bounds

\* model.rs: tagged_nodes is a superset of the curated collections.
TaggedIsSuperset ==
  /\ Range(held.pois) \cup Range(held.addrs) \subseteq Range(held.tagged)
  /\ Range(held.trees) \subseteq {At(p) : p \in Range(held.tagged)}
=============================================================================
