---------------------------- MODULE OvertureParse ----------------------------
(***************************************************************************)
(* overture::parse and overture::theme: the features of one GeoJSON body   *)
(* become OsmData, every position and every line with an id of its own     *)
(* from the allocator of the fetch.                                        *)
(*                                                                         *)
(* A position is an Option: one that is malformed is None.  Coordinates    *)
(* that are missing or of the wrong shape are the empty sequence.  A       *)
(* property is the text of its value and the kind of JSON value it is; a   *)
(* nested property is named by its path.                                   *)
(***************************************************************************)
EXTENDS OsmData, SyntheticIds

Feature(props, type, coordinates) ==
  [props |-> props, type |-> type, coordinates |-> coordinates]
Text(t) == [is |-> "str", text |-> t]

----------------------------------------------------------------------------
(* theme.rs: what is downloaded, and from properties to tags.               *)

AllThemes == <<"Building", "Transportation", "Place", "Base", "Address">>

CliTypes(theme) ==
  CASE theme = "Building" -> <<"building">>
    [] theme = "Transportation" -> <<"segment">>
    [] theme = "Place" -> <<"place">>
    [] theme = "Base" -> <<"land", "land_use", "water">>
    [] theme = "Address" -> <<"address">>

\* A theme that is listed twice is downloaded twice.
Pairs(themes) ==
  FlattenSeq([t \in DOMAIN themes |->
    LET types == CliTypes(themes[t])
    IN  [k \in DOMAIN types |-> [theme |-> themes[t], type |-> types[k]]]])

Rule(takes, src, dst, default, val) ==
  [takes |-> takes, src |-> src, dst |-> dst, default |-> default, val |-> val]
Str(src, dst, default) == Rule({"str"}, src, dst, default, None)
F64(src, dst) == Rule({"f64", "u64"}, src, dst, None, None)
U64(src, dst) == Rule({"u64"}, src, dst, None, None)
Flag(src, dst, val) == Rule({"true"}, src, dst, None, Some(val))
Nested2(path, dst) == Str(path, dst, None)

BUILDING_RULES ==
  << Str("class", "building", Some("yes")), F64("height", "building:height"),
     U64("num_floors", "building:levels") >>
TRANSPORTATION_RULES ==
  << Str("class", "highway", Some("unclassified")), Nested2("names.primary", "name"),
     Str("road_surface", "surface", None), Flag("is_bridge", "bridge", "yes"),
     Flag("is_tunnel", "tunnel", "yes") >>
PLACE_RULES == << Nested2("names.primary", "name") >>
ADDRESS_RULES == << Str("number", "addr:housenumber", None), Str("street", "addr:street", None) >>

ApplyRules(props, rules) ==
  LET Apply(tags, r) ==
        LET found == r.src \in DOMAIN props /\ props[r.src].is \in r.takes
            value == IF found THEN OrElse(r.val, Some(props[r.src].text)) ELSE r.default
        IN  IF value = None THEN tags ELSE Insert(tags, r.dst, value[1])
  IN  FoldLeft(Apply, NoTags, rules)

MapPlaceCategoryToOsmKey(category) ==
  CASE category \in {"supermarket", "grocery", "clothing", "electronics", "retail"} -> "shop"
    [] category \in {"hotel", "motel", "hostel", "accommodation"} -> "tourism"
    [] category \in {"park", "playground", "sports_centre", "stadium", "recreation"} -> "leisure"
    [] OTHER -> "amenity"

StillWater == {"lake", "pond", "reservoir", "ocean", "sea"}
Waterways == {"river", "stream", "canal", "drain", "ditch"}
LandUses == {"forest", "farmland", "residential", "commercial", "industrial",
             "cemetery", "grass", "scrub", "farmyard"}
LandCover == {"grass", "scrub", "heath", "bare_rock", "sand", "beach"}
LeisureAreas == {"park", "garden", "pitch", "playground"}

MapBaseTags(subtype, class) ==
  CASE subtype = "water" -> OneTag("natural", "water")
    [] subtype \in StillWater -> Insert(OneTag("natural", "water"), "water", subtype)
    [] subtype \in Waterways -> OneTag("waterway", subtype)
    [] subtype \in LandUses -> OneTag("landuse", subtype)
    [] subtype \in {"land", ""} /\ class \in LandCover -> OneTag("natural", class)
    [] subtype \in LeisureAreas -> OneTag("leisure", subtype)
    [] subtype = "tree" -> OneTag("natural", "tree")
    [] subtype \notin {"tree", "water"} \cup StillWater \cup Waterways \cup LandUses \cup LeisureAreas
         /\ ~ (subtype \in {"land", ""} /\ class \in LandCover) ->
         IF class = "" THEN NoTags ELSE OneTag("landuse", class)

StringAt(props, key) ==
  IF key \in DOMAIN props /\ props[key].is = "str" THEN Some(props[key].text) ELSE None

MapTagsForTheme(props, theme) ==
  CASE theme = "Building" -> ApplyRules(props, BUILDING_RULES)
    [] theme = "Transportation" -> ApplyRules(props, TRANSPORTATION_RULES)
    [] theme = "Place" ->
         LET tags     == ApplyRules(props, PLACE_RULES)
             category == StringAt(props, "categories.primary")
         IN  IF category = None THEN tags
             ELSE Insert(tags, MapPlaceCategoryToOsmKey(category[1]), category[1])
    [] theme = "Base" -> MapBaseTags(OrElse(StringAt(props, "subtype"), <<"">>)[1],
                                     OrElse(StringAt(props, "class"), <<"">>)[1])
    [] theme = "Address" -> ApplyRules(props, ADDRESS_RULES)

----------------------------------------------------------------------------
(* parse.rs: s.data is what is parsed so far, s.next the allocator.         *)

CoordToNode(s, c) ==
  LET d == AddNode(s.data, s.next, c[1])
  IN  IF c = None THEN s
      ELSE [s EXCEPT !.data = [d EXCEPT !.bounds = UnionBounds(@, Some(Around(c[1])))],
                     !.next = Advance(@)]

PushWayFromCoords(s, coords, tags) ==
  LET found == Retain(coords, LAMBDA c : c # None)
      t     == FoldLeft(CoordToNode, s, found)
      way   == Way(t.next, tags, [k \in DOMAIN found |-> s.next - (k - 1)])
  IN  IF found = << >> THEN s
      ELSE [t EXCEPT !.data.ways = Append(@, way), !.next = Advance(@)]

OuterRing(polygon) == IF polygon = << >> THEN << >> ELSE polygon[1]

\* Places and addresses keep their tags, of the others a tree its position;
\* tagged is left empty.
PointFeature(s, f, theme, tags) ==
  LET t   == CoordToNode(s, f.coordinates)
      poi == Poi(f.coordinates[1], tags, "overture")
  IN  CASE f.coordinates = None -> s
        [] f.coordinates # None /\ theme = "Address" -> [t EXCEPT !.data.addrs = Append(@, poi)]
        [] f.coordinates # None /\ theme = "Place" -> [t EXCEPT !.data.pois = Append(@, poi)]
        [] f.coordinates # None /\ theme \notin {"Address", "Place"} ->
             IF IsTree(tags) THEN [t EXCEPT !.data.trees = Append(@, f.coordinates[1])] ELSE t

OnFeature(s, f, theme) ==
  LET tags == MapTagsForTheme(f.props, theme)
  IN  CASE f.type = "Point" -> PointFeature(s, f, theme, tags)
        [] f.type = "LineString" -> PushWayFromCoords(s, f.coordinates, tags)
        [] f.type = "Polygon" -> PushWayFromCoords(s, OuterRing(f.coordinates), tags)
        [] f.type = "MultiPolygon" ->
             FoldLeft(LAMBDA t, polygon : PushWayFromCoords(t, OuterRing(polygon), tags),
                      s, f.coordinates)
        [] OTHER -> s

ParseWithAllocator(features, theme, next) ==
  LET s == FoldLeft(LAMBDA t, f : OnFeature(t, f, theme), [data |-> EmptyData, next |-> next],
                    features)
  IN  [s EXCEPT !.data = WithWays(@, s.data.ways)]

\* Mutant: every theme is parsed with an allocator of its own.
ParseThemes_Apart(themes) ==
  FoldLeft(LAMBDA d, t : Merge(d, ParseWithAllocator(t.features, t.theme, NewAllocator).data),
           EmptyData, themes)

\* fetch_overture_data: one allocator for all themes, whose results are merged.
ParseThemes(themes) ==
  FoldLeft(LAMBDA s, t : LET p == ParseWithAllocator(t.features, t.theme, s.next)
                         IN  [data |-> Merge(s.data, p.data), next |-> p.next],
           [data |-> EmptyData, next |-> NewAllocator], themes).data
=============================================================================
