------------------------------- MODULE OsmData -------------------------------
(***************************************************************************)
(* osm::model: the normalised map data every reader fills and every        *)
(* consumer holds, and the operations that change it.                      *)
(*                                                                         *)
(* Coordinates are integers, a tag map is a function from its keys, an id  *)
(* map a function from its ids, and an Option is a sequence of at most one *)
(* element.  Positions in ways count from 1.                               *)
(***************************************************************************)
EXTENDS Integers, Sequences, FiniteSets, FiniteSetsExt, Functions, SequencesExt, TLC

None == << >>
Some(x) == <<x>>
OrElse(a, b) == IF a # None THEN a ELSE b

Point(lat, lon) == [lat |-> lat, lon |-> lon]
At(x) == Point(x.lat, x.lon)
Poi(at, tags, source) ==
  [lat |-> at.lat, lon |-> at.lon, tags |-> tags, source |-> source]
Way(id, tags, refs) == [id |-> id, tags |-> tags, refs |-> refs]
Relation(id, tags, members) == [id |-> id, tags |-> tags, members |-> members]

\* The ids of a set in their order (SetToSortSeq tries every permutation).
InOrder(ids) ==
  [k \in 1 .. Cardinality(ids) |->
     CHOOSE id \in ids : Cardinality({other \in ids : other < id}) = k - 1]

\* Vec::retain: the elements that pass the test, in their order.
Chosen(s, at) ==
  LET order == InOrder(at)
  IN  [k \in DOMAIN order |-> s[order[k]]]
Retain(s, Test(_)) == Chosen(s, {k \in DOMAIN s : Test(s[k])})

\* HashMap::insert and extend: of two values of a key the later one counts.
Insert(map, key, value) ==
  [k \in DOMAIN map \cup {key} |-> IF k = key THEN value ELSE map[k]]
Extend(map, other) ==
  [k \in DOMAIN map \cup DOMAIN other |-> IF k \in DOMAIN other THEN other[k] ELSE map[k]]

FeatureSources == {"osm", "overture", "synthetic"}

\* OsmData::default.
EmptyData ==
  [nodes |-> << >>, ways |-> << >>, index |-> << >>, relations |-> << >>,
   bounds |-> None, pois |-> << >>, addrs |-> << >>, trees |-> << >>,
   tagged |-> << >>]

----------------------------------------------------------------------------
(* Classification of tags.                                                  *)

NoTags == << >>
Has(tags, key) == key \in DOMAIN tags
Is(tags, key, value) == Has(tags, key) /\ tags[key] = value
OneTag(key, value) == Insert(NoTags, key, value)

AnyValue(key) == [key |-> key, any |-> TRUE, values |-> {}]
OneOf(key, values) == [key |-> key, any |-> FALSE, values |-> values]

POI_TAG_RULES ==
  << AnyValue("amenity"), AnyValue("shop"), AnyValue("tourism"),
     AnyValue("leisure"), AnyValue("historic"),
     OneOf("man_made", {"tower", "water_tower", "chimney"}),
     OneOf("natural", {"peak", "rock", "spring"}) >>

Fits(tags, rule) == Has(tags, rule.key) /\ (rule.any \/ tags[rule.key] \in rule.values)

\* Mutant: man_made and natural are not classified.
IsPoi_KeysOnly(tags) == \E k \in 1 .. 5 : Fits(tags, POI_TAG_RULES[k])
IsPoi(tags) == \E k \in DOMAIN POI_TAG_RULES : Fits(tags, POI_TAG_RULES[k])
IsAddr(tags) == Has(tags, "addr:housenumber")
IsTree(tags) == Is(tags, "natural", "tree")

----------------------------------------------------------------------------
(* What both readers do with a node: the last position of an id counts, and *)
(* a node with tags is kept in tagged beside the curated collections.       *)

AddNode(d, id, at) == [d EXCEPT !.nodes = Insert(@, id, at)]

AddTagged(d, at, tags) ==
  LET If(cond, x) == IF cond THEN <<x>> ELSE << >>
      poi == Poi(at, tags, "osm")
  IN  [d EXCEPT !.tagged = @ \o If(tags # NoTags, poi),
                !.pois   = @ \o If(IsPoi(tags), poi),
                !.addrs  = @ \o If(IsAddr(tags), poi),
                !.trees  = @ \o If(IsTree(tags), At(at))]

Around(p) == [south |-> p.lat, west |-> p.lon, north |-> p.lat, east |-> p.lon]

----------------------------------------------------------------------------
(* The ways and the index of their ids.                                     *)

\* Collecting pairs into a map keeps the last pair of an id.
IndexOf(ways) ==
  [id \in {ways[k].id : k \in DOMAIN ways} |->
     Max({k \in DOMAIN ways : ways[k].id = id})]

WithWays(d, ways) == [d EXCEPT !.ways = ways, !.index = IndexOf(ways)]

\* The other builders replace one collection each.
WithNodes(d, nodes) == [d EXCEPT !.nodes = nodes]
WithRelations(d, relations) == [d EXCEPT !.relations = relations]
WithBounds(d, bounds) == [d EXCEPT !.bounds = bounds]
WithPoiNodes(d, pois) == [d EXCEPT !.pois = pois]
WithAddrNodes(d, addrs) == [d EXCEPT !.addrs = addrs]
WithTreeNodes(d, trees) == [d EXCEPT !.trees = trees]
WithTaggedNodes(d, tagged) == [d EXCEPT !.tagged = tagged]

PushWay(d, way) ==
  [d EXCEPT !.ways = Append(@, way),
            !.index = [id \in DOMAIN @ \cup {way.id} |->
                         IF id = way.id THEN Len(d.ways) + 1 ELSE @[id]]]

ValidateInvariants(d) ==
  /\ Cardinality(DOMAIN d.index) = Len(d.ways)
  /\ \A id \in DOMAIN d.index : d.index[id] \in DOMAIN d.ways
  /\ IsInjective(d.index)
  /\ \A k \in DOMAIN d.ways :
        d.ways[k].id \in DOMAIN d.index /\ d.index[d.ways[k].id] = k

\* The geometry a consumer resolves: the references that have a position.
Geometry(d, way) ==
  LET found == Retain(way.refs, LAMBDA r : r \in DOMAIN d.nodes)
  IN  [k \in DOMAIN found |-> d.nodes[found[k]]]

----------------------------------------------------------------------------
(* merge: the last node of an id wins, the first way of an id wins, and the *)
(* rest is appended.                                                        *)

UnionBounds(a, b) ==
  IF a = None \/ b = None THEN OrElse(a, b)
  ELSE LET s == a[1]
           t == b[1]
       IN  Some([south |-> Min({s.south, t.south}), west |-> Min({s.west, t.west}),
                 north |-> Max({s.north, t.north}), east |-> Max({s.east, t.east})])

\* Mutant: every way is appended, whatever its id.
MergeWays_All(d, ways) == FoldLeft(PushWay, d, ways)
MergeWays(d, ways) ==
  FoldLeft(LAMBDA acc, w : IF w.id \in DOMAIN acc.index THEN acc ELSE PushWay(acc, w),
           d, ways)

Merge(d, other) ==
  [MergeWays(d, other.ways) EXCEPT
     !.nodes     = Extend(@, other.nodes),
     !.relations = @ \o other.relations,
     !.pois      = @ \o other.pois,
     !.addrs     = @ \o other.addrs,
     !.trees     = @ \o other.trees,
     !.tagged    = @ \o other.tagged,
     !.bounds    = UnionBounds(@, other.bounds)]

----------------------------------------------------------------------------
(* clip_to_bbox.                                                            *)

Inside(p, box) ==
  /\ box.south <= p.lat /\ p.lat <= box.north
  /\ box.west <= p.lon /\ p.lon <= box.east

Touches(d, way, box) ==
  \E k \in DOMAIN way.refs :
     way.refs[k] \in DOMAIN d.nodes /\ Inside(d.nodes[way.refs[k]], box)

\* Mutant: the nodes outside go, though ways that stay refer to them.
Clip_Nodes(d, box) ==
  LET kept  == Retain(d.ways, LAMBDA w : Touches(d, w, box))
      In(p) == Inside(p, box)
  IN  [WithWays(d, kept) EXCEPT
         !.nodes = [id \in {n \in DOMAIN @ : In(@[n])} |-> @[id]],
         !.pois = Retain(@, In), !.addrs = Retain(@, In),
         !.trees = Retain(@, In), !.tagged = Retain(@, In),
         !.bounds = Some(box)]

Clip(d, box) ==
  LET kept  == Retain(d.ways, LAMBDA w : Touches(d, w, box))
      used  == UNION {Range(kept[k].refs) : k \in DOMAIN kept}
      index == IndexOf(kept)
      In(p) == Inside(p, box)
  IN  [d EXCEPT
         !.ways      = kept,
         !.index     = index,
         !.nodes     = Restrict(@, DOMAIN @ \cap used),
         !.pois      = Retain(@, In),
         !.addrs     = Retain(@, In),
         !.trees     = Retain(@, In),
         !.tagged    = Retain(@, In),
         !.relations = Retain(@, LAMBDA r : \E k \in DOMAIN r.members :
                                   r.members[k].way \in DOMAIN index),
         !.bounds    = Some(box)]
=============================================================================
