----------------------------- MODULE MapSession -----------------------------
(***************************************************************************)
(* What a consumer of the library does with map data, on one thread:       *)
(* fetch_map_data, one step per source and one for the merge and the clip, *)
(* then any sequence of the operations on the OsmData it holds.            *)
(*                                                                         *)
(* What the two sources send is chosen, not computed: the Overpass server, *)
(* or the cache (see OsmFetch), answers for the requested area or for a    *)
(* larger one that it knows, and Overture from one of its Releases.        *)
(* Progress reports are left out.                                          *)
(***************************************************************************)
EXTENDS BBox, SourceOptions, OsmXml, OsmPbf, OsmTypes

CONSTANTS
  World,            \* what OSM knows: nodes |-> id to node, ways |-> sequence
  Areas,            \* boxes the cache may hold an answer for
  Requests,         \* the boxes and settings fetch_map_data is called with
  Releases,         \* what Overture knows: from each cli type to features
  Files,            \* what parse_osm_file is called on
  NewWays,          \* what push_way is called with
  MaxOps            \* bound on the consumer's operations

\* What there is to send, to read and to ask for is of the types of osm::model.
ASSUME SessionAssumption ==
  /\ MaxOps \in Nat
  /\ DOMAIN World.nodes \subseteq Nat /\ IsFiniteSet(DOMAIN World.nodes)
  /\ \A n \in Range(World.nodes) : At(n) \in Points /\ IsTags(n.tags)
  /\ IsList(World.ways)
  /\ \A w \in Range(World.ways) : IsWay(w) /\ Range(w.refs) \subseteq DOMAIN World.nodes
  /\ \A theme \in Range(AllThemes), known \in Releases : \A type \in Range(CliTypes(theme)) :
        IsList(known[type]) /\ \A f \in Range(known[type]) : IsFeature(f)
  /\ \A f \in Files : f.ext \in {"osm", "pbf"} =>
        /\ IsList(f.content)
        /\ \A e \in Range(f.content) : IF f.ext = "osm" THEN IsEvent(e) ELSE IsElement(e)
  /\ Range(Blanked) \subseteq Strings
  /\ Areas \subseteq Boxes /\ \A w \in NewWays : IsWay(w)
  /\ \A r \in Requests :
        /\ r.box \in Boxes
        /\ r.settings.themes \in Maybe(Seq(STRING)) /\ r.settings.overture \in Maybe(BOOLEAN)

VARIABLES
  pc,        \* the step of fetch_map_data that is next, or "idle"
  box,       \* its arguments: the box,
  request,   \* and the SourceOptions
  osm,       \* osm_data
  overture,  \* overture_data
  release,   \* history: the Release that Overture answered from
  result,    \* the SourceFetchResult so far
  held,      \* the OsmData of the consumer
  ops        \* operations so far

vars == <<pc, box, request, osm, overture, release, result, held, ops>>
locals == <<box, request, osm, overture, release, result>>

NoResult == Result(EmptyData, "", {})

----------------------------------------------------------------------------
(* overpass.rs: the query and, external, its answer.                        *)

Ask(kinds, rules) == [kind : kinds, rule : rules]

BuildOverpassQuery(filter) ==
  LET If(category, parts) == IF category \in filter THEN parts ELSE {}
      Keys(keys) == {AnyValue(key) : key \in keys}
  IN  If("roads", Ask({"way"}, Keys({"highway"})))
        \cup If("buildings", Ask({"way"}, Keys({"building"})) \cup
                             Ask({"node"}, Keys({"addr:housenumber"})))
        \cup If("water", Ask({"way"}, Keys({"waterway"}) \cup {OneOf("natural", {"water"})}))
        \cup If("landuse", Ask({"way"}, Keys({"landuse", "natural"})))
        \cup If("railways", Ask({"way"}, {OneOf("railway", {"rail"})}))
        \cup Ask({"node", "way"},
                 Keys({"amenity", "shop", "tourism", "leisure", "historic"})
                   \cup {OneOf("man_made", {"tower", "water_tower", "chimney"})})
        \cup Ask({"node"}, {OneOf("natural", {"tree"}), OneOf("natural", {"peak", "rock", "spring"})})

Asked(query, kind, tags) == \E part \in query : part.kind = kind /\ Fits(tags, part.rule)

\* The elements asked for with their tags, then the nodes of the ways without.
Answer(query, area) ==
  LET ids  == {id \in DOMAIN World.nodes :
                 Inside(World.nodes[id], area) /\ Asked(query, "node", World.nodes[id].tags)}
      ways == Retain(World.ways, LAMBDA w : Asked(query, "way", w.tags) /\ Touches(World, w, area))
      body == InOrder(ids)
      skel == InOrder(UNION {Range(w.refs) : w \in Range(ways)})
      Node(id) == NodeAttrs(id, World.nodes[id])
      Nd(w) == [k \in DOMAIN w.refs |-> EmptyTag("nd", [ref |-> w.refs[k]])]
  IN  FlattenSeq([k \in DOMAIN body |->
                    Element("node", Node(body[k]), WriteTags(World.nodes[body[k]].tags))])
        \o FlattenSeq([k \in DOMAIN ways |->
                    Element("way", [id |-> ways[k].id], Nd(ways[k]) \o WriteTags(ways[k].tags))])
        \o [k \in DOMAIN skel |-> EmptyTag("node", Node(skel[k]))]

Covers(area, b) ==
  /\ area.south <= b.south /\ area.west <= b.west
  /\ area.north >= b.north /\ area.east >= b.east

\* Only the server's answer is for a box that was validated.
Bodies ==
  {Answer(BuildOverpassQuery(request.filter), a) :
     a \in {a \in Areas : Covers(a, box)}
          \cup {b \in {box} : ValidateBBox(b.south, b.west, b.north, b.east)}}

----------------------------------------------------------------------------
(* overture/cli.rs and, external, the overturemaps command: the features of *)
(* a type that have a position in the box, or none that is well formed.     *)

WellFormed(coordinates) == UNION {Range(c) : c \in Range(coordinates)}
PositionsOf(f) ==
  CASE f.type = "Point" -> Range(f.coordinates)
    [] f.type = "LineString" -> WellFormed(f.coordinates)
    [] f.type = "Polygon" -> UNION {WellFormed(ring) : ring \in Range(f.coordinates)}
    [] f.type = "MultiPolygon" ->
         UNION {UNION {WellFormed(ring) : ring \in Range(polygon)} : polygon \in Range(f.coordinates)}

Download(known, wsen, type) ==
  LET area == FromUnchecked(wsen[2], wsen[1], wsen[4], wsen[3])
  IN  Retain(known[type], LAMBDA f :
        PositionsOf(f) = {} \/ \E p \in PositionsOf(f) : Inside(p, area))

\* fetch_overture_data for a box and themes.
OvertureData(known, b, themes) ==
  LET pairs == Pairs(themes)
  IN  ParseThemes([k \in DOMAIN pairs |->
        [theme |-> pairs[k].theme, features |-> Download(known, Wsen(b), pairs[k].type)]])

----------------------------------------------------------------------------
Init ==
  /\ pc = "idle" /\ box = None /\ request = None
  /\ osm = EmptyData /\ overture = None /\ release = None /\ result = NoResult
  /\ held = EmptyData /\ ops = 0

Return(data) ==
  /\ pc' = "idle" /\ held' = data
  /\ box' = None /\ request' = None
  /\ osm' = EmptyData /\ overture' = None /\ release' = None /\ result' = NoResult
  /\ UNCHANGED ops

\* A consumer whose settings do not parse makes no call.
BeginFetch ==
  /\ pc = "idle" /\ ops < MaxOps
  /\ \E r \in Requests :
       /\ Options(r.settings) # None
       /\ box' = r.box /\ request' = Options(r.settings)[1]
  /\ pc' = "osm" /\ ops' = ops + 1
  /\ UNCHANGED <<osm, overture, release, result, held>>

\* Without an answer, or with one that does not parse, the call fails.
FetchOsm ==
  /\ pc = "osm"
  /\ \E d \in {ParseXml(body) : body \in Bodies} : d # None /\ osm' = d[1]
  /\ pc' = IF request.overture THEN "overture" ELSE "merge"
  /\ UNCHANGED <<box, request, overture, release, result, held, ops>>
FetchOsmFails == pc = "osm" /\ Return(held)

FetchOverture ==
  /\ pc = "overture"
  /\ \E known \in Releases :
       /\ release' = known
       /\ overture' = Some(OvertureData(known, box, request.themes))
  /\ pc' = "merge"
  /\ UNCHANGED <<box, request, osm, result, held, ops>>

FetchOvertureFails ==
  /\ pc = "overture"
  /\ IF request.onFailure = "FallbackToOsm"
       THEN /\ LET r == MergeSourceData(osm, None, request.mode)
               IN  result' = Result(r.data, r.status, r.warnings \cup {"fetch failed"})
            /\ pc' = "clip"
            /\ UNCHANGED <<box, request, osm, overture, release, held, ops>>
       ELSE Return(held)

MergeSources ==
  /\ pc = "merge"
  /\ result' = MergeSourceData(osm, overture, request.mode)
  /\ pc' = "clip"
  /\ UNCHANGED <<box, request, osm, overture, release, held, ops>>

\* clip_to_bbox takes the four numbers in this library's order.
ClipResult == pc = "clip" /\ Return(Clip(result.data, FromTuple(Swne(box))))

----------------------------------------------------------------------------
(* The operations on what is held.                                          *)

ParseOsmFile(file) ==
  CASE file.ext = "osm" -> ParseXml(file.content)
    [] file.ext = "pbf" -> ParsePbf(file.content)
    [] file.ext \notin {"osm", "pbf"} -> None

Use(data) ==
  /\ pc = "idle" /\ ops < MaxOps
  /\ held' = data
  /\ ops' = ops + 1
  /\ UNCHANGED <<pc, locals>>

ReadFile ==
  \E f \in Files : LET d == ParseOsmFile(f) IN
    IF d = None THEN Use(held) ELSE Use(d[1]) \/ Use(Merge(held, d[1]))

\* The callers of push_way and with_ways are to keep ids apart.
AddWay == \E w \in NewWays : w.id \notin DOMAIN held.index /\ Use(PushWay(held, w))
ReplacePart ==
  \E f \in Files : LET d == ParseOsmFile(f) IN
    /\ d # None
    /\ \/ Use(WithNodes(held, d[1].nodes)) \/ Use(WithRelations(held, d[1].relations))
       \/ Use(WithBounds(held, d[1].bounds)) \/ Use(WithPoiNodes(held, d[1].pois))
       \/ Use(WithAddrNodes(held, d[1].addrs)) \/ Use(WithTreeNodes(held, d[1].trees))
       \/ Use(WithTaggedNodes(held, d[1].tagged))
ReplaceWays ==
  \E ways \in {Reverse(held.ways), Retain(held.ways, LAMBDA w : Has(w.tags, "highway"))} :
     Use(WithWays(held, ways))
\* OsmData::new with the parts of what is held: it has no tagged nodes.
Rebuild == Use([WithWays(held, held.ways) EXCEPT !.tagged = << >>])
ClipHeld == \E area \in Areas : Use(Clip(held, area))
Rewrite == LET d == ParseXml(WriteXml(held)) IN d # None /\ Use(d[1])

Next ==
  \/ BeginFetch \/ FetchOsm \/ FetchOsmFails \/ FetchOverture \/ FetchOvertureFails
  \/ MergeSources \/ ClipResult
  \/ ReadFile \/ AddWay \/ ReplacePart \/ ReplaceWays \/ Rebuild \/ ClipHeld \/ Rewrite

Spec == Init /\ [][Next]_vars
=============================================================================
