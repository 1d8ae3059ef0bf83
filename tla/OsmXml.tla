------------------------------- MODULE OsmXml -------------------------------
(***************************************************************************)
(* osm::xml_parse and osm::xml_write: OSM XML as the sequence of events    *)
(* that quick_xml reports, read by a fold over the events and written from *)
(* OsmData.                                                                *)
(*                                                                         *)
(* An attribute that is missing and one that does not parse are both       *)
(* absent from attrs.  The reader normalises attribute values, so a value  *)
(* with a line break or a tab, which the writer does not escape, is read   *)
(* back with blanks: Blanked gives what such a value becomes.              *)
(***************************************************************************)
EXTENDS OsmData, SyntheticIds

CONSTANTS MAX_XML_DEPTH,
          Blanked   \* values with line breaks |-> what is read for them

\* The values that the readers look for have no line breaks.
Classified ==
  {"tree", "multipolygon"} \cup UNION {POI_TAG_RULES[k].values : k \in DOMAIN POI_TAG_RULES}

ASSUME XmlAssumption ==
  MAX_XML_DEPTH \in Nat /\ DOMAIN Blanked \cap (Range(Blanked) \cup Classified) = {}

XmlAttrValue(v) == IF v \in DOMAIN Blanked THEN Blanked[v] ELSE v

StartOf(tag, attrs) == [on |-> "start", tag |-> tag, attrs |-> attrs]
EmptyTag(tag, attrs) == [on |-> "empty", tag |-> tag, attrs |-> attrs]
EndOf(tag) == [on |-> "end", tag |-> tag, attrs |-> NoTags]
Damage == [on |-> "error", tag |-> "", attrs |-> NoTags]

Carries(e, keys) == keys \subseteq DOMAIN e.attrs
AttrOf(e, key) == IF Carries(e, {key}) THEN Some(e.attrs[key]) ELSE None

NewParse ==
  [data |-> EmptyData, extent |-> None, explicit |-> None,
   inNode |-> FALSE, at |-> Point(0, 0), nodeTags |-> NoTags,
   inWay |-> FALSE, inRelation |-> FALSE, id |-> None, tags |-> NoTags,
   refs |-> << >>, members |-> << >>, depth |-> 0, failed |-> FALSE]

----------------------------------------------------------------------------
(* Start and empty elements.                                                *)

Bounds(s, e) ==
  IF Carries(e, {"minlat", "minlon", "maxlat", "maxlon"})
    THEN [s EXCEPT !.explicit = Some([south |-> e.attrs.minlat, west |-> e.attrs.minlon,
                                      north |-> e.attrs.maxlat, east |-> e.attrs.maxlon])]
    ELSE s

IsNode(e) == e.tag = "node" /\ Carries(e, {"id", "lat", "lon"})
InsertNode(s, e) ==
  [s EXCEPT !.data = AddNode(@, e.attrs.id, At(e.attrs)),
            !.extent = UnionBounds(@, Some(Around(At(e.attrs))))]

\* tag, nd and member count only without content of their own.
TagIn(s, e) ==
  LET value == XmlAttrValue(OrElse(AttrOf(e, "v"), <<"">>)[1])
  IN  IF ~ Carries(e, {"k"}) \/ e.attrs.k = "" THEN s
      ELSE IF s.inNode THEN [s EXCEPT !.nodeTags = Insert(@, e.attrs.k, value)]
      ELSE [s EXCEPT !.tags = Insert(@, e.attrs.k, value)]

\* A member reference that is missing is read as 0.
MemberIn(s, e) ==
  LET ref  == OrElse(AttrOf(e, "ref"), <<0>>)[1]
      role == XmlAttrValue(OrElse(AttrOf(e, "role"), <<"">>)[1])
  IN  IF AttrOf(e, "type") = Some("way") /\ ref # 0
        THEN [s EXCEPT !.members = Append(@, [way |-> ref, role |-> role])]
        ELSE s

OnStart(s, e) ==
  CASE s.depth + 1 > MAX_XML_DEPTH -> [s EXCEPT !.failed = TRUE]
    [] OTHER ->
       LET t == [s EXCEPT !.depth = @ + 1]
       IN  CASE e.tag = "bounds" -> Bounds(t, e)
             [] IsNode(e) ->
                  [InsertNode(t, e) EXCEPT !.inNode = TRUE, !.at = At(e.attrs),
                                           !.nodeTags = NoTags]
             [] e.tag = "way" ->
                  [t EXCEPT !.inWay = TRUE, !.id = AttrOf(e, "id"),
                            !.tags = NoTags, !.refs = << >>]
             [] e.tag = "relation" ->
                  [t EXCEPT !.inRelation = TRUE, !.id = AttrOf(e, "id"),
                            !.tags = NoTags, !.members = << >>]
             [] OTHER -> t

OnEmpty(s, e) ==
  CASE e.tag = "bounds" -> Bounds(s, e)
    [] IsNode(e) -> InsertNode(s, e)
    [] e.tag = "tag" /\ (s.inNode \/ s.inWay \/ s.inRelation) -> TagIn(s, e)
    [] e.tag = "nd" /\ s.inWay /\ Carries(e, {"ref"}) ->
         [s EXCEPT !.refs = Append(@, e.attrs.ref)]
    [] e.tag = "member" /\ s.inRelation -> MemberIn(s, e)
    [] OTHER -> s

----------------------------------------------------------------------------
(* The end of an element, and of the document.                              *)

\* A way or relation without an id, or with one already read, is skipped.
IsNew(id, list) == id # None /\ \A k \in DOMAIN list : list[k].id # id[1]

EndWay(s) ==
  IF IsNew(s.id, s.data.ways)
    THEN [s EXCEPT !.data.ways = Append(@, Way(s.id[1], s.tags, s.refs))]
    ELSE s

EndRelation(s) ==
  IF Is(s.tags, "type", "multipolygon") /\ s.members # << >> /\ IsNew(s.id, s.data.relations)
    THEN [s EXCEPT !.data.relations = Append(@, Relation(s.id[1], s.tags, s.members))]
    ELSE s

OnEnd(s, e) ==
  LET t == [s EXCEPT !.depth = Max({0, @ - 1})]
  IN  CASE e.tag = "node" /\ s.inNode ->
             [t EXCEPT !.inNode = FALSE, !.data = AddTagged(@, s.at, s.nodeTags)]
        [] e.tag = "way" /\ s.inWay -> [EndWay(t) EXCEPT !.inWay = FALSE]
        [] e.tag = "relation" /\ s.inRelation -> [EndRelation(t) EXCEPT !.inRelation = FALSE]
        [] OTHER -> t

OnEvent(s, e) ==
  CASE s.failed -> s
    [] ~ s.failed /\ e.on = "start" -> OnStart(s, e)
    [] ~ s.failed /\ e.on = "empty" -> OnEmpty(s, e)
    [] ~ s.failed /\ e.on = "end" -> OnEnd(s, e)
    [] ~ s.failed /\ e.on = "error" -> [s EXCEPT !.failed = TRUE]

\* The first error ends the parse without data.  A document that ends early
\* is not an error.
ParseXml(events) ==
  LET s == FoldLeft(OnEvent, NewParse, events)
  IN  IF s.failed THEN None
      ELSE Some([WithWays(s.data, s.data.ways) EXCEPT !.bounds = OrElse(s.explicit, s.extent)])

----------------------------------------------------------------------------
(* write_osm_xml_string.                                                    *)

WriteTags(tags) ==
  LET keys == SetToSeq(DOMAIN tags)
  IN  [k \in DOMAIN keys |-> EmptyTag("tag", [k |-> keys[k], v |-> tags[keys[k]]])]

Element(tag, attrs, content) == <<StartOf(tag, attrs)>> \o content \o <<EndOf(tag)>>

NodeAttrs(id, p) == [id |-> id, lat |-> p.lat, lon |-> p.lon]

\* The nodes that are written with tags: tagged, or the curated collections
\* where no reader filled it.
Standalone(d) ==
  IF d.tagged # << >> THEN d.tagged
  ELSE d.pois \o d.addrs
         \o [k \in DOMAIN d.trees |-> Poi(d.trees[k], OneTag("natural", "tree"), "osm")]

WriteNodes(d) ==
  LET plain  == InOrder(DOMAIN d.nodes)
      tagged == Standalone(d)
      ids    == FoldLeft(LAMBDA s, p : NextWriterNodeId(s), NodeIds(DOMAIN d.nodes), tagged).ids
  IN  [k \in DOMAIN plain |-> EmptyTag("node", NodeAttrs(plain[k], d.nodes[plain[k]]))]
        \o FlattenSeq([k \in DOMAIN tagged |->
              Element("node", NodeAttrs(ids[k], tagged[k]), WriteTags(tagged[k].tags))])

WrittenWayId(d, k) == IF d.ways[k].id # 0 THEN d.ways[k].id ELSE WriterWayId(k - 1)
WrittenRelationId(d, k) ==
  IF d.relations[k].id # 0 THEN d.relations[k].id ELSE WriterRelationId(k - 1)

\* References to nodes that are not there are left out.
Present(d, refs) == Retain(refs, LAMBDA r : r \in DOMAIN d.nodes)

WriteWay(d, k) ==
  LET refs == Present(d, d.ways[k].refs)
  IN  Element("way", [id |-> WrittenWayId(d, k)],
              [j \in DOMAIN refs |-> EmptyTag("nd", [ref |-> refs[j]])]
                \o WriteTags(d.ways[k].tags))

WriteRelation(d, k) ==
  LET members == d.relations[k].members
  IN  Element("relation", [id |-> WrittenRelationId(d, k)],
              [j \in DOMAIN members |->
                 EmptyTag("member", [type |-> "way", ref |-> members[j].way,
                                     role |-> members[j].role])]
                \o WriteTags(d.relations[k].tags))

WriteBounds(d) ==
  [k \in DOMAIN d.bounds |->
     EmptyTag("bounds", [minlat |-> d.bounds[k].south, minlon |-> d.bounds[k].west,
                         maxlat |-> d.bounds[k].north, maxlon |-> d.bounds[k].east])]

WriteXml(d) ==
  Element("osm", NoTags,
          WriteBounds(d) \o WriteNodes(d)
            \o FlattenSeq([k \in DOMAIN d.ways |-> WriteWay(d, k)])
            \o FlattenSeq([k \in DOMAIN d.relations |-> WriteRelation(d, k)]))
=============================================================================
