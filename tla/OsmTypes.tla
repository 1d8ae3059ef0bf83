------------------------------ MODULE OsmTypes ------------------------------
(***************************************************************************)
(* The types of osm::model, and of what its readers are given.  Where a    *)
(* set would be too large to test membership of it, a predicate is its     *)
(* equal for the inputs of an instance.                                    *)
(***************************************************************************)
EXTENDS OsmData

\* Every text is a string; the provers do not know it of one that is written
\* out, so those that the readers and the writer use are named.
Literals ==
  {"", "yes", "unclassified", "water", "tree", "shop", "tourism", "leisure", "amenity", "natural",
   "waterway", "landuse", "building", "building:height", "building:levels", "highway", "name",
   "surface", "bridge", "tunnel", "addr:housenumber", "addr:street", "class", "height", "num_floors",
   "names.primary", "road_surface", "is_bridge", "is_tunnel", "number", "street", "str", "f64", "u64",
   "true", "way"}
Strings == STRING \cup Literals

Maybe(S) == {c \in Seq(S) : Len(c) <= 1}
IsList(s) == s \in Seq(Range(s))

Points == [lat : Int, lon : Int]
Boxes == [south : Int, west : Int, north : Int, east : Int]
TagMaps == UNION {[keys -> Strings] : keys \in {K \in SUBSET Strings : IsFiniteSet(K)}}
IsTags(t) == /\ DOMAIN t \subseteq Strings /\ IsFiniteSet(DOMAIN t) /\ t = [key \in DOMAIN t |-> t[key]]
             /\ \A key \in DOMAIN t : t[key] \in Strings

PoisOf(src) == [lat : Int, lon : Int, tags : TagMaps, source : src]
Ways == [id : Int, tags : TagMaps, refs : Seq(Int)]
IsWay(w) == w = Way(w.id, w.tags, w.refs) /\ w.id \in Int /\ IsTags(w.tags) /\ w.refs \in Seq(Int)
Members == [way : Int, role : Strings]
Relations ==
  {r \in [id : Int, tags : TagMaps, members : Seq(Members)] : Is(r.tags, "type", "multipolygon")}

\* OsmData whose points of interest and addresses are of some sources.
NodeMaps == UNION {[ids -> Points] : ids \in {I \in SUBSET Int : IsFiniteSet(I)}}
Indexes == UNION {[ids -> Nat] : ids \in SUBSET Int}
Datas(src) ==
  [nodes : NodeMaps, ways : Seq(Ways), index : Indexes, relations : Seq(Relations),
   bounds : Maybe(Boxes), pois : Seq(PoisOf(src)), addrs : Seq(PoisOf(src)), trees : Seq(Points),
   tagged : Seq(PoisOf(src))]
SoundDatas(src) == {d \in Datas(src) : ValidateInvariants(d)}

----------------------------------------------------------------------------
(* Inputs: events of an XML document, elements of a PBF file, features.     *)

IntAttrs == {"id", "ref", "lat", "lon", "minlat", "minlon", "maxlat", "maxlon"}
TextAttrs == {"k", "v", "role", "type"}
IsEvent(e) ==
  /\ e.on \in {"start", "empty", "end", "error"}
  /\ \A key \in DOMAIN e.attrs :
        /\ key \in IntAttrs => e.attrs[key] \in Int
        /\ key \in TextAttrs => e.attrs[key] \in Strings

PbfMembers == [type : Strings, ref : Int, role : Strings]
IsElement(e) ==
  /\ e.kind \in {"node", "way", "relation", "bad"}
  /\ e.kind # "bad" => e.id \in Int /\ IsTags(e.tags)
  /\ e.kind = "node" => e.at \in Points
  /\ e.kind = "way" => e.refs \in Seq(Int)
  /\ e.kind = "relation" => e.members \in Seq(PbfMembers)

Spots == Maybe(Points)
SpotLists == Seq(Spots)
IsProps(props) == \A key \in DOMAIN props : props[key].text \in Strings
IsFeature(f) ==
  /\ IsProps(f.props)
  /\ f.type = "Point" => f.coordinates \in Spots
  /\ f.type = "LineString" => f.coordinates \in SpotLists
  /\ f.type = "Polygon" => f.coordinates \in Seq(SpotLists)
  /\ f.type = "MultiPolygon" => f.coordinates \in Seq(Seq(SpotLists))
=============================================================================
