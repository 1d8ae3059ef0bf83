------------------------------- MODULE OsmPbf -------------------------------
(***************************************************************************)
(* osm::pbf: the elements of a PBF file, in file order, read into OsmData. *)
(* Plain and dense nodes are treated alike.  A block that does not decode  *)
(* fails the whole file.                                                   *)
(***************************************************************************)
EXTENDS OsmData

PbfNode(id, at, tags) == [kind |-> "node", id |-> id, at |-> at, tags |-> tags]
PbfWay(id, tags, refs) == [kind |-> "way", id |-> id, tags |-> tags, refs |-> refs]
PbfRelation(id, tags, members) ==
  [kind |-> "relation", id |-> id, tags |-> tags, members |-> members]
BadBlock == [kind |-> "bad"]

\* An absent id is 0 in the format.
OnPbfWay(d, e) ==
  IF e.id = 0 \/ \E k \in DOMAIN d.ways : d.ways[k].id = e.id THEN d
  ELSE [d EXCEPT !.ways = Append(@, Way(e.id, e.tags, e.refs))]

\* Relations are not checked for an id that was already read.
OnPbfRelation(d, e) ==
  LET ways == Retain(e.members, LAMBDA m : m.type = "way")
      members == [k \in DOMAIN ways |-> [way |-> ways[k].ref, role |-> ways[k].role]]
  IN  IF Is(e.tags, "type", "multipolygon") /\ e.id # 0 /\ members # << >>
        THEN [d EXCEPT !.relations = Append(@, Relation(e.id, e.tags, members))]
        ELSE d

OnPbfNode(d, e) ==
  [AddTagged(AddNode(d, e.id, e.at), e.at, e.tags) EXCEPT
     !.bounds = UnionBounds(@, Some(Around(e.at)))]

OnPbfElement(d, e) ==
  CASE e.kind = "node" -> OnPbfNode(d, e)
    [] e.kind = "way" -> OnPbfWay(d, e)
    [] e.kind = "relation" -> OnPbfRelation(d, e)
    [] e.kind = "bad" -> d

ParsePbf(elements) ==
  IF \E k \in DOMAIN elements : elements[k].kind = "bad" THEN None
  ELSE LET d == FoldLeft(OnPbfElement, EmptyData, elements)
       IN  Some(WithWays(d, d.ways))
=============================================================================
