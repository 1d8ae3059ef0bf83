---------------------------- MODULE MCMapSession ----------------------------
(* Instances of MapSession for TLC: a small town, two boxes and one that is *)
(* no box, a file of each format with what the readers must refuse.         *)
EXTENDS MapSessionProps

MCNodeBase     == -900
MCWayBase      == -800
MCRelationBase == -700
MCOvertureBase == -100

Town   == NewBBox(0, 0, 2, 2)[1]
County == FromTuple(<<0, 0, 6, 5>>)
Line   == FromUnchecked(1, 0, 1, 2)
MCAreas == {Town, County}

\* A step is ten metres north, and fewer to the east the further north.
MCEast == [n \in 0 .. 12 |-> 12 - (n \div 2)]
MCFolded == [n \in {"Cafe", "CAFE ", "Bar", " ", "Deli"} |->
  CASE n \in {"Cafe", "CAFE "} -> "cafe" [] n = "Bar" -> "bar" [] n = " " -> "" [] n = "Deli" -> "deli"]
MCBlanked == "two\nlines" :> "two lines"

Thing(lat, lon, tags) == [lat |-> lat, lon |-> lon, tags |-> tags]
Amenity(value, name) == ("amenity" :> value) @@ ("name" :> name)

MCWorld ==
  [nodes |-> 1 :> Thing(0, 0, NoTags)
          @@ 2 :> Thing(2, 2, ("natural" :> "peak") @@ ("description" :> "two\nlines"))
          @@ 3 :> Thing(4, 3, NoTags)
          @@ 4 :> Thing(6, 5, "addr:housenumber" :> "7")
          @@ 5 :> Thing(1, 1, Amenity("cafe", "Cafe"))
          @@ 6 :> Thing(5, 1, "natural" :> "tree")
          @@ 7 :> Thing(2, 0, ("man_made" :> "tower") @@ ("name" :> " ")),
   ways  |-> <<Way(10, "highway" :> "path", <<1, 2>>),
               Way(11, "building" :> "yes", <<2, 3, 4, 2>>),
               Way(12, "railway" :> "rail", <<3, 4>>)>>]

\* Settings as a consumer writes them, with texts that parse to no value.
Texts == {"", " all", "buildings", "Place ", "road", "Base", "addrs", "OSM", "overture_only", "both",
          "preferred", "Strict", "fallback", "fail"}
MCTrimmed  == [t \in Texts |-> CASE t = "Place " -> "Place" [] t = " all" -> "all" [] OTHER -> t]
MCLower    == [t \in Texts \cup {"Place", "all"} |->
  CASE t = "Place" -> "place" [] t = "Place " -> "place " [] t = "Base" -> "base" [] t = "OSM" -> "osm"
    [] t = "Strict" -> "strict" [] OTHER -> t]
MCHyphened == [t \in {MCLower[x] : x \in Texts} |-> IF t = "overture_only" THEN "overture-only" ELSE t]

Request(b, set) ==
  [box |-> b,
   settings |-> set @@ [filter |-> None, overture |-> Some(TRUE), themes |-> None, priority |-> None,
                        mode |-> None, onFailure |-> None]]
MCRequests ==
  {Request(Town, [mode |-> Some(mode)]) : mode \in {"OSM", "overture_only", "both", "preferred"}}
    \cup {Request(County, [themes |-> Some(<<"road", "Place ", "buildings", "Base">>), mode |-> Some("both"),
                          priority |-> Some(<<<<"road", "OSM">>, <<"">>>>), onFailure |-> Some("Strict")]),
          Request(Town, [filter |-> Some([c \in Categories \ {"roads"} |-> FALSE]), overture |-> None]),
          Request(Line, [overture |-> Some(FALSE), mode |-> Some("OSM"), themes |-> Some(<<"">>)]),
          Request(Town, [themes |-> Some(<<"road", "addrs">>)]),
          Request(Town, [mode |-> Some("fail")])}

Pos(lat, lon) == Some(Point(lat, lon))
Place(lat, lon, name) ==
  Feature(("categories.primary" :> Text("cafe")) @@ ("names.primary" :> Text(name)),
          "Point", Pos(lat, lon))
Shed  == Feature("class" :> Text("shed"), "Polygon", <<<<Pos(0, 1), None, Pos(1, 1)>>>>)
Spire == Feature(NoTags, "MultiPolygon", <<<<<<Pos(6, 1)>>>>, << >>>>)
Lane  == Feature("names.primary" :> Text("Lane"), "LineString", <<Pos(1, 0), Pos(4, 0)>>)
Broken == Feature(NoTags, "Point", None)
Tree  == Feature("subtype" :> Text("tree"), "Point", Pos(0, 2))
Brook == Feature("subtype" :> Text("stream"), "LineString", <<Pos(0, 5), Pos(3, 5)>>)
Door  == Feature("number" :> Text("9"), "Point", Pos(1, 1))

Nothing == [type \in Range(FlattenSeq([k \in DOMAIN AllThemes |-> CliTypes(AllThemes[k])])) |-> << >>]
MCReleases ==
  {Nothing,
   [Nothing EXCEPT !["building"] = <<Shed, Spire>>, !["segment"] = <<Lane>>,
                   !["place"] = <<Place(2, 1, "CAFE "), Place(1, 2, "Bar"), Place(6, 6, "Cafe")>>,
                   !["land"] = <<Tree>>, !["water"] = <<Brook>>],
   [Nothing EXCEPT !["address"] = <<Door, Broken>>, !["segment"] = <<Lane, Brook>>]}

Nd(id) == EmptyTag("nd", [ref |-> id])
Tag(k, v) == EmptyTag("tag", [k |-> k, v |-> v])
WayEvents(attrs, content) == Element("way", attrs, content)
Hand ==
  Element("osm", NoTags,
    <<EmptyTag("node", NodeAttrs(1, Point(3, 3))), EmptyTag("node", NodeAttrs(8, Point(1, 0)))>>
    \o WayEvents([id |-> 10], <<Nd(8), Nd(99), Tag("highway", "track")>>)
    \o WayEvents([id |-> 10], <<Nd(1)>>) \o WayEvents(NoTags, <<Nd(1)>>)
    \o WayEvents([id |-> 0], <<Nd(1), Nd(8), Tag("barrier", "wall")>>)
    \o Element("relation", [id |-> 30],
         <<Tag("type", "multipolygon"),
           EmptyTag("member", [type |-> "way", ref |-> 10, role |-> "outer"]),
           EmptyTag("member", [type |-> "node", ref |-> 8, role |-> ""]),
           EmptyTag("member", [type |-> "way", role |-> "inner"])>>)
    \o Element("relation", [id |-> 31], <<Tag("type", "route"), EmptyTag("member", [type |-> "way", ref |-> 10])>>))
Packed ==
  LET outer == [type |-> "way", ref |-> 20, role |-> "outer"]
      area  == "type" :> "multipolygon"
  IN  <<PbfNode(9, Point(2, 1), "description" :> "two\nlines"),
        PbfWay(20, "waterway" :> "ditch", <<9, 1>>), PbfWay(20, NoTags, <<9>>), PbfWay(0, NoTags, <<9>>),
        PbfRelation(30, area, <<outer>>), PbfRelation(30, area, <<[outer EXCEPT !.ref = 10]>>),
        PbfRelation(0, area, <<outer>>), PbfRelation(32, NoTags, <<outer>>)>>
MCFiles == {[ext |-> "osm", content |-> Hand], [ext |-> "osm", content |-> Hand \o <<Damage>>],
            [ext |-> "pbf", content |-> Packed], [ext |-> "pbf", content |-> <<BadBlock>>],
            [ext |-> "txt", content |-> << >>]}

MCNewWays == {Way(0, "highway" :> "road", <<1, 8>>), Way(77, NoTags, <<2>>)}

\* Cafes twenty metres apart, 179 degrees east and from 45 degrees north: lat
\* counts twenty metres from there, lon degrees, and lengths are centimetres.
FarEast == [n \in 0 .. 12 |-> 7871512 - (n * 2469) \div 200]
FarWorld == [nodes |-> 1 :> Thing(1, 179, Amenity("cafe", "Cafe")), ways |-> << >>]
FarBox == NewBBox(0, 178, 6, 180)[1]
FarAreas == {FarBox}
FarRequests == {Request(FarBox, [themes |-> Some(<<"Place ">>), mode |-> Some("both")])}
FarReleases == {[Nothing EXCEPT !["place"] = <<Place(lat, 179, "Cafe")>>] : lat \in 0 .. 4}
=============================================================================
