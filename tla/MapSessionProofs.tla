------------------------- MODULE MapSessionProofs --------------------------
(***************************************************************************)
(* What fetch_map_data and a consumer hold, whatever the sources send and  *)
(* the consumer does: fetch_overture_data makes sound data, and from what  *)
(* OsmDataProofs shows of the operations follow, by an invariant of the    *)
(* session, the properties of MapSessionProps.                             *)
(***************************************************************************)
EXTENDS MapSessionProps, OsmDataProofs

----------------------------------------------------------------------------
(* overture::parse: the tags.                                               *)

RuleSet == [takes : SUBSET Strings, src : Strings, dst : Strings, default : Maybe(Strings), val : Maybe(Strings)]

ApplyRule(props, tags, r) ==
  LET found == r.src \in DOMAIN props /\ props[r.src].is \in r.takes
      value == IF found THEN OrElse(r.val, Some(props[r.src].text)) ELSE r.default
  IN  IF value = None THEN tags ELSE Insert(tags, r.dst, value[1])

LEMMA MaybeStrings ==
  /\ None \in Maybe(Strings)
  /\ \A t \in Strings : Some(t) \in Maybe(Strings)
<1>1. \A t \in Strings : <<t>> \in Maybe(Strings)
  BY DEF Maybe
<1> QED
  BY <1>1 DEF None, Some, Maybe

LEMMA ApplyRuleTyped ==
  ASSUME NEW props, IsProps(props), NEW tags \in TagMaps, NEW r \in RuleSet
  PROVE  ApplyRule(props, tags, r) \in TagMaps
<1> DEFINE found == r.src \in DOMAIN props /\ props[r.src].is \in r.takes
           value == IF found THEN OrElse(r.val, Some(props[r.src].text)) ELSE r.default
<1>1. r.val \in Maybe(Strings) /\ r.default \in Maybe(Strings) /\ r.dst \in Strings
  BY DEF RuleSet
<1>2. ASSUME found
      PROVE  props[r.src].text \in Strings
  BY <1>2 DEF IsProps
<1>3. value \in Maybe(Strings)
  <2>1. ASSUME found
        PROVE  OrElse(r.val, Some(props[r.src].text)) \in Maybe(Strings)
    BY <1>1, <1>2, <2>1, MaybeStrings DEF OrElse
  <2> HIDE DEF found
  <2> QED
    BY <1>1, <2>1
<1>4. ApplyRule(props, tags, r) = IF value = None THEN tags ELSE Insert(tags, r.dst, value[1])
  BY Zenon DEF ApplyRule
<1> HIDE DEF value
<1>5. value # None => value[1] \in Strings
  BY <1>3 DEF Maybe, None
<1>6. value # None => Insert(tags, r.dst, value[1]) \in TagMaps
  BY <1>1, <1>5, TagMapGrows
<1> QED
  BY <1>4, <1>6

RuleRun(h, V, base, s, props) ==
  /\ Chain(h, V, Len(s), base, FoldLeft(LAMBDA tags, r : ApplyRule(props, tags, r), base, s))
  /\ \A k \in 1 .. Len(s) : h[k] = ApplyRule(props, h[k - 1], s[k])

LEMMA RuleSteps ==
  ASSUME NEW U, NEW s \in Seq(U), NEW V, NEW base \in V, NEW props, \A v \in V, u \in U : ApplyRule(props, v, u) \in V
  PROVE  \E h : RuleRun(h, V, base, s, props)
<1> DEFINE n == Len(s)
           step == [kv \in (1 .. n) \X V |-> ApplyRule(props, kv[2], s[kv[1]])]
           Rest(I, g) == IF I = {} THEN base ELSE ApplyRule(props, g[I \ {Max(I)}], s[Max(I)])
           Eq(g) == g = [I \in SUBSET (1 .. n) |-> Rest(I, g)]
           c == CHOOSE g : Eq(g)
<1>1. n \in Nat /\ DOMAIN s = 1 .. n /\ \A k \in 1 .. n : s[k] \in U
  OBVIOUS
<1>2. step \in [(1 .. n) \X V -> V] /\ \A k \in 1 .. n, v \in V : step[<<k, v>>] = ApplyRule(props, v, s[k])
  BY <1>1
<1>3. FoldLeft(LAMBDA tags, r : ApplyRule(props, tags, r), base, s) = c[1 .. n]
  <2>1. FoldLeft(LAMBDA tags, r : ApplyRule(props, tags, r), base, s) = (CHOOSE g : g = [I \in SUBSET DOMAIN s |-> Rest(I, g)])[DOMAIN s]
    BY Zenon DEF FoldLeft, MapThenFoldSet
  <2> QED
    BY <1>1, <2>1, Zenon
<1> HIDE DEF n, step, c
<1>4. PICK f \in [SUBSET (1 .. n) -> V] : IsSequenceFold(n, base, step, f)
  BY <1>1, <1>2, SequenceFold
<1>5. \A I \in SUBSET (1 .. n) : f[I] = Rest(I, f)
  <2>1. \A I \in SUBSET (1 .. n) : f[I \ {Max(I)}] \in V
    OBVIOUS
  <2> QED
    BY <1>2, <1>4, <2>1 DEF IsSequenceFold
<1>6. Eq(f)
  BY <1>5
<1>7. Eq(c)
  <2> HIDE DEF Eq
  <2> QED
    BY <1>6 DEF c
<1>8. c[{}] = f[{}] /\ \A I \in SUBSET (1 .. n) : I # {} /\ c[I \ {Max(I)}] = f[I \ {Max(I)}] => c[I] = f[I]
  BY <1>5, <1>7
<1>9. PICK h : Follows(h, V, n, base, step, c[1 .. n])
  BY <1>1, <1>4, <1>8, FoldFollows
<1>10. \A k \in 1 .. n : h[k] = ApplyRule(props, h[k - 1], s[k])
  <2> SUFFICES ASSUME NEW k \in 1 .. n
               PROVE  h[k] = ApplyRule(props, h[k - 1], s[k])
    OBVIOUS
  <2>1. h[k - 1] \in V /\ h[k] = step[<<k, h[k - 1]>>]
    BY <1>1, <1>9 DEF Follows, Chain
  <2> QED
    BY <1>2, <2>1
<1> QED
  BY <1>3, <1>9, <1>10 DEF n, Follows, RuleRun

LEMMA ApplyRulesTyped ==
  ASSUME NEW props, IsProps(props), NEW rules \in Seq(RuleSet)
  PROVE  ApplyRules(props, rules) \in TagMaps
<1>1. \A v \in TagMaps, u \in RuleSet : ApplyRule(props, v, u) \in TagMaps
  BY ApplyRuleTyped
<1>2. NoTags \in TagMaps
  BY NoTagsTyped
<1> DEFINE t == FoldLeft(LAMBDA tags, r : ApplyRule(props, tags, r), NoTags, rules)
<1>3. PICK h : RuleRun(h, TagMaps, NoTags, rules, props)
  BY <1>1, <1>2, RuleSteps
<1>4. h[Len(rules)] = t /\ h \in [0 .. Len(rules) -> TagMaps]
  BY <1>3, Zenon DEF RuleRun, Chain
<1>5. ApplyRules(props, rules) = t
  BY Zenon DEF ApplyRules, ApplyRule, FoldLeft, MapThenFoldSet
<1>6. Len(rules) \in Nat
  OBVIOUS
<1> HIDE DEF t
<1> QED
  BY <1>4, <1>5, <1>6

LEMMA RulesTyped ==
  /\ BUILDING_RULES \in Seq(RuleSet) /\ TRANSPORTATION_RULES \in Seq(RuleSet)
  /\ PLACE_RULES \in Seq(RuleSet) /\ ADDRESS_RULES \in Seq(RuleSet)
<1>1. ASSUME NEW src \in Strings, NEW dst \in Strings, NEW d \in Maybe(Strings), NEW v \in Strings
      PROVE  /\ Str(src, dst, d) \in RuleSet /\ F64(src, dst) \in RuleSet /\ U64(src, dst) \in RuleSet
             /\ Flag(src, dst, v) \in RuleSet /\ Nested2(src, dst) \in RuleSet
  <2>1. ASSUME NEW takes \in SUBSET Strings, NEW e \in Maybe(Strings), NEW f \in Maybe(Strings)
        PROVE  Rule(takes, src, dst, e, f) \in RuleSet
    BY <2>1, MaybeStrings DEF Rule, RuleSet
  <2>2. {"str"} \in SUBSET Strings /\ {"f64", "u64"} \in SUBSET Strings /\ {"u64"} \in SUBSET Strings
        /\ {"true"} \in SUBSET Strings
    BY DEF Strings, Literals
  <2>3. None \in Maybe(Strings) /\ Some(v) \in Maybe(Strings)
    BY MaybeStrings
  <2> QED
    BY <2>1, <2>2, <2>3, Zenon DEF Str, F64, U64, Flag, Nested2
<1>2. None \in Maybe(Strings) /\ Some("yes") \in Maybe(Strings) /\ Some("unclassified") \in Maybe(Strings)
  <2>1. "yes" \in Strings /\ "unclassified" \in Strings
    BY DEF Strings, Literals
  <2> QED
    BY <2>1, MaybeStrings
<1>3. /\ Str("class", "building", Some("yes")) \in RuleSet /\ F64("height", "building:height") \in RuleSet
      /\ U64("num_floors", "building:levels") \in RuleSet
  <2>1. /\ "class" \in Strings /\ "building" \in Strings /\ "height" \in Strings /\ "building:height" \in Strings
        /\ "num_floors" \in Strings /\ "building:levels" \in Strings
    BY DEF Strings, Literals
  <2> QED
    BY <1>1, <1>2, <2>1
<1>4. /\ Str("class", "highway", Some("unclassified")) \in RuleSet /\ Nested2("names.primary", "name") \in RuleSet
      /\ Str("road_surface", "surface", None) \in RuleSet /\ Flag("is_bridge", "bridge", "yes") \in RuleSet
      /\ Flag("is_tunnel", "tunnel", "yes") \in RuleSet
  <2>1. /\ "class" \in Strings /\ "highway" \in Strings /\ "names.primary" \in Strings /\ "name" \in Strings
        /\ "road_surface" \in Strings /\ "surface" \in Strings /\ "is_bridge" \in Strings /\ "bridge" \in Strings
        /\ "is_tunnel" \in Strings /\ "tunnel" \in Strings /\ "yes" \in Strings
    BY DEF Strings, Literals
  <2> QED
    BY <1>1, <1>2, <2>1
<1>5. Str("number", "addr:housenumber", None) \in RuleSet /\ Str("street", "addr:street", None) \in RuleSet
  <2>1. /\ "number" \in Strings /\ "addr:housenumber" \in Strings /\ "street" \in Strings
        /\ "addr:street" \in Strings
    BY DEF Strings, Literals
  <2> QED
    BY <1>1, <1>2, <2>1
<1> HIDE DEF RuleSet
<1> QED
  BY <1>3, <1>4, <1>5 DEF BUILDING_RULES, TRANSPORTATION_RULES, PLACE_RULES, ADDRESS_RULES

LEMMA BaseTagsTyped ==
  ASSUME NEW subtype \in Strings, NEW class \in Strings
  PROVE  MapBaseTags(subtype, class) \in TagMaps
<1>1. ASSUME NEW key \in Strings, NEW t \in Strings
      PROVE  OneTag(key, t) \in TagMaps
  BY TagMapGrows, NoTagsTyped
<1>2. /\ "water" \in Strings /\ "tree" \in Strings /\ "natural" \in Strings /\ "waterway" \in Strings
      /\ "landuse" \in Strings /\ "leisure" \in Strings
  BY DEF Strings, Literals
<1>3. /\ OneTag("natural", "water") \in TagMaps /\ OneTag("waterway", subtype) \in TagMaps
      /\ OneTag("landuse", subtype) \in TagMaps /\ OneTag("natural", class) \in TagMaps
      /\ OneTag("leisure", subtype) \in TagMaps /\ OneTag("natural", "tree") \in TagMaps
      /\ OneTag("landuse", class) \in TagMaps /\ NoTags \in TagMaps
  BY <1>1, <1>2, NoTagsTyped
<1>4. Insert(OneTag("natural", "water"), "water", subtype) \in TagMaps
  BY <1>2, <1>3, TagMapGrows
<1> DEFINE w == OneTag("natural", "water")
           v == OneTag("waterway", subtype)
           u == OneTag("landuse", subtype)
           n == OneTag("natural", class)
           l == OneTag("leisure", subtype)
           r == OneTag("natural", "tree")
           c == OneTag("landuse", class)
           i == Insert(OneTag("natural", "water"), "water", subtype)
<1>5. MapBaseTags(subtype, class) \in {w, v, u, n, l, r, c, i, NoTags}
  <2>1. MapBaseTags(subtype, class) =
    CASE subtype = "water" -> w
      [] subtype \in StillWater -> i
      [] subtype \in Waterways -> v
      [] subtype \in LandUses -> u
      [] subtype \in {"land", ""} /\ class \in LandCover -> n
      [] subtype \in LeisureAreas -> l
      [] subtype = "tree" -> r
      [] subtype \notin {"tree", "water"} \cup StillWater \cup Waterways \cup LandUses \cup LeisureAreas
           /\ ~ (subtype \in {"land", ""} /\ class \in LandCover) ->
           IF class = "" THEN NoTags ELSE c
    BY Zenon DEF MapBaseTags
  <2> HIDE DEF w, v, u, n, l, r, c, i, StillWater, Waterways, LandUses, LandCover, LeisureAreas, NoTags
  <2> QED
    BY <2>1
<1> HIDE DEF w, v, u, n, l, r, c, i, TagMaps
<1>6. w \in TagMaps /\ v \in TagMaps /\ u \in TagMaps /\ n \in TagMaps /\ l \in TagMaps /\ r \in TagMaps
      /\ c \in TagMaps /\ i \in TagMaps /\ NoTags \in TagMaps
  BY <1>3, <1>4, Zenon DEF w, v, u, n, l, r, c, i
<1> QED
  BY <1>5, <1>6

LEMMA StringAtTyped ==
  ASSUME NEW props, IsProps(props), NEW key
  PROVE  StringAt(props, key) \in Maybe(Strings) /\ OrElse(StringAt(props, key), <<"">>)[1] \in Strings
<1>1. key \in DOMAIN props => props[key].text \in Strings
  BY DEF IsProps
<1>2. StringAt(props, key) \in Maybe(Strings)
  BY <1>1, MaybeStrings DEF StringAt
<1>3. StringAt(props, key) # None => StringAt(props, key)[1] \in Strings
  BY <1>2 DEF Maybe, None
<1>4. "" \in Strings
  BY DEF Strings, Literals
<1> QED
  BY <1>2, <1>3, <1>4 DEF OrElse

LEMMA TagsTyped ==
  ASSUME NEW props, IsProps(props), NEW theme \in Range(AllThemes)
  PROVE  MapTagsForTheme(props, theme) \in TagMaps
<1>1. theme \in {"Building", "Transportation", "Place", "Base", "Address"}
  BY DEF AllThemes, Range
<1>2. /\ ApplyRules(props, BUILDING_RULES) \in TagMaps /\ ApplyRules(props, TRANSPORTATION_RULES) \in TagMaps
      /\ ApplyRules(props, PLACE_RULES) \in TagMaps /\ ApplyRules(props, ADDRESS_RULES) \in TagMaps
  BY RulesTyped, ApplyRulesTyped
<1>3. CASE theme = "Place"
  <2> DEFINE tags == ApplyRules(props, PLACE_RULES)
             category == StringAt(props, "categories.primary")
             key == MapPlaceCategoryToOsmKey(category[1])
  <2>1. MapTagsForTheme(props, theme) = IF category = None THEN tags ELSE Insert(tags, key, category[1])
    BY <1>3 DEF MapTagsForTheme
  <2>2. category \in Maybe(Strings)
    BY StringAtTyped
  <2>3. key \in Strings
    <3>1. key \in {"shop", "tourism", "leisure", "amenity"}
      BY DEF MapPlaceCategoryToOsmKey
    <3> HIDE DEF key
    <3> QED
      BY <3>1 DEF Strings, Literals
  <2> HIDE DEF category, key, tags
  <2>4. category # None => category[1] \in Strings
    BY <2>2 DEF Maybe, None
  <2>5. tags \in TagMaps
    BY <1>2 DEF tags
  <2> QED
    BY <2>1, <2>3, <2>4, <2>5, TagMapGrows
<1>4. CASE theme = "Base"
  <2>1. MapTagsForTheme(props, theme) = MapBaseTags(OrElse(StringAt(props, "subtype"), <<"">>)[1],
                                     OrElse(StringAt(props, "class"), <<"">>)[1])
    BY <1>4 DEF MapTagsForTheme
  <2> QED
    BY <2>1, StringAtTyped, BaseTagsTyped
<1>5. CASE theme = "Building"
  BY <1>2, <1>5 DEF MapTagsForTheme
<1>6. CASE theme = "Transportation"
  BY <1>2, <1>6 DEF MapTagsForTheme
<1>7. CASE theme = "Address"
  BY <1>2, <1>7 DEF MapTagsForTheme
<1> QED
  BY <1>1, <1>3, <1>4, <1>5, <1>6, <1>7

----------------------------------------------------------------------------
(* overture::parse: positions, lines and features.                          *)

\* The allocator is below the id of every way.
IdsAbove(ways, next) == \A k \in DOMAIN ways : ways[k].id > next
ParseStates == [data : Datas({"overture"}), next : Int]
ParseGood == {s \in ParseStates : DifferentIds(s.data.ways) /\ IdsAbove(s.data.ways, s.next)}

SameWays(s) == {t \in ParseStates : t.data.ways = s.data.ways /\ t.next <= s.next}

LEMMA IsParse ==
  ASSUME NEW s \in ParseStates
  PROVE  s.data \in Datas({"overture"}) /\ s.next \in Int /\ s.data.ways \in Seq(Ways)
BY DEF ParseStates, Datas

LEMMA CoordToNodeTyped ==
  ASSUME NEW t \in ParseStates, NEW c \in Spots
  PROVE  CoordToNode(t, c) \in SameWays(t)
<1>1. CASE c = None
  <2>1. CoordToNode(t, c) = t /\ t.next <= t.next
    BY <1>1, IsParse DEF CoordToNode
  <2> QED
    BY <2>1 DEF SameWays
<1>2. CASE c # None
  <2> DEFINE p == c[1]
             a == AddNode(t.data, t.next, p)
             b == UnionBounds(a.bounds, Some(Around(p)))
             d == [a EXCEPT !.bounds = b]
  <2>1. p \in Points
    BY <1>2 DEF Spots, Maybe, None
  <2>2. CoordToNode(t, c) = [t EXCEPT !.data = d, !.next = t.next - 1]
    BY <1>2 DEF CoordToNode, Advance
  <2> HIDE DEF p
  <2>3. a \in Datas({"overture"}) /\ a.ways = t.data.ways
    <3>1. a \in Datas({"overture"})
      BY <2>1, IsParse, AddNodeTyped
    <3>2. t.data \in Datas({"overture"})
      BY IsParse
    <3> QED
      BY <3>1, <3>2 DEF AddNode, Datas
  <2> HIDE DEF a
  <2>4. b \in Maybe(Boxes)
    <3>1. Some(Around(p)) \in Maybe(Boxes)
      BY <2>1 DEF Some, Around, Boxes, Maybe, Points
    <3>2. a.bounds \in Maybe(Boxes)
      BY <2>3 DEF Datas
    <3> QED
      BY <3>1, <3>2, UnionBoundsTyped
  <2> HIDE DEF b
  <2>5. d \in Datas({"overture"}) /\ d.ways = t.data.ways
    BY <2>3, <2>4 DEF Datas
  <2> HIDE DEF d
  <2>6. t.next - 1 \in Int /\ t.next - 1 <= t.next
    BY IsParse
  <2> QED
    BY <2>2, <2>5, <2>6 DEF SameWays, ParseStates
<1> QED
  BY <1>1, <1>2

CoordRun(h, V, base, s) ==
  /\ Chain(h, V, Len(s), base, FoldLeft(CoordToNode, base, s))
  /\ \A k \in 1 .. Len(s) : h[k] = CoordToNode(h[k - 1], s[k])

LEMMA CoordSteps ==
  ASSUME NEW U, NEW s \in Seq(U), NEW V, NEW base \in V, \A v \in V, u \in U : CoordToNode(v, u) \in V
  PROVE  \E h : CoordRun(h, V, base, s)
<1> DEFINE n == Len(s)
           step == [kv \in (1 .. n) \X V |-> CoordToNode(kv[2], s[kv[1]])]
           Rest(I, g) == IF I = {} THEN base ELSE CoordToNode(g[I \ {Max(I)}], s[Max(I)])
           Eq(g) == g = [I \in SUBSET (1 .. n) |-> Rest(I, g)]
           c == CHOOSE g : Eq(g)
<1>1. n \in Nat /\ DOMAIN s = 1 .. n /\ \A k \in 1 .. n : s[k] \in U
  OBVIOUS
<1>2. step \in [(1 .. n) \X V -> V] /\ \A k \in 1 .. n, v \in V : step[<<k, v>>] = CoordToNode(v, s[k])
  BY <1>1
<1>3. FoldLeft(CoordToNode, base, s) = c[1 .. n]
  <2>1. FoldLeft(CoordToNode, base, s) = (CHOOSE g : g = [I \in SUBSET DOMAIN s |-> Rest(I, g)])[DOMAIN s]
    BY Zenon DEF FoldLeft, MapThenFoldSet
  <2> QED
    BY <1>1, <2>1, Zenon
<1> HIDE DEF n, step, c
<1>4. PICK f \in [SUBSET (1 .. n) -> V] : IsSequenceFold(n, base, step, f)
  BY <1>1, <1>2, SequenceFold
<1>5. \A I \in SUBSET (1 .. n) : f[I] = Rest(I, f)
  <2>1. \A I \in SUBSET (1 .. n) : f[I \ {Max(I)}] \in V
    OBVIOUS
  <2> QED
    BY <1>2, <1>4, <2>1 DEF IsSequenceFold
<1>6. Eq(f)
  BY <1>5
<1>7. Eq(c)
  <2> HIDE DEF Eq
  <2> QED
    BY <1>6 DEF c
<1>8. c[{}] = f[{}] /\ \A I \in SUBSET (1 .. n) : I # {} /\ c[I \ {Max(I)}] = f[I \ {Max(I)}] => c[I] = f[I]
  BY <1>5, <1>7
<1>9. PICK h : Follows(h, V, n, base, step, c[1 .. n])
  BY <1>1, <1>4, <1>8, FoldFollows
<1>10. \A k \in 1 .. n : h[k] = CoordToNode(h[k - 1], s[k])
  <2> SUFFICES ASSUME NEW k \in 1 .. n
               PROVE  h[k] = CoordToNode(h[k - 1], s[k])
    OBVIOUS
  <2>1. h[k - 1] \in V /\ h[k] = step[<<k, h[k - 1]>>]
    BY <1>1, <1>9 DEF Follows, Chain
  <2> QED
    BY <1>2, <2>1
<1> QED
  BY <1>3, <1>9, <1>10 DEF n, Follows, CoordRun

LEMMA CoordsTyped ==
  ASSUME NEW s \in ParseStates, NEW coords \in SpotLists
  PROVE  FoldLeft(CoordToNode, s, coords) \in SameWays(s)
<1> DEFINE t == FoldLeft(CoordToNode, s, coords)
           V == SameWays(s)
<1>1. s \in V
  <2>1. s.next <= s.next
    BY IsParse
  <2> QED
    BY <2>1 DEF SameWays
<1>2. \A v \in V, u \in Spots : CoordToNode(v, u) \in V
  <2> SUFFICES ASSUME NEW v \in V, NEW u \in Spots
               PROVE  CoordToNode(v, u) \in V
    OBVIOUS
  <2>1. v \in ParseStates /\ v.data.ways = s.data.ways /\ v.next <= s.next
    BY DEF SameWays
  <2> DEFINE w == CoordToNode(v, u)
  <2>2. w \in SameWays(v)
    BY <2>1, CoordToNodeTyped
  <2> HIDE DEF w
  <2>3. w \in ParseStates /\ w.data.ways = v.data.ways /\ w.next <= v.next
    BY <2>2 DEF SameWays
  <2>4. w.next \in Int /\ v.next \in Int /\ s.next \in Int
    BY <2>1, <2>3, IsParse
  <2>5. w \in V
    BY <2>1, <2>3, <2>4 DEF SameWays
  <2> QED
    BY <2>5 DEF w
<1> HIDE DEF V
<1>3. coords \in Seq(Spots)
  BY DEF SpotLists
<1>4. PICK h : CoordRun(h, V, s, coords)
  BY <1>1, <1>2, <1>3, CoordSteps
<1>5. h[Len(coords)] = t /\ h \in [0 .. Len(coords) -> V]
  BY <1>4, Zenon DEF CoordRun, Chain
<1>6. Len(coords) \in Nat
  BY <1>3
<1> HIDE DEF t
<1>7. t \in V
  BY <1>5, <1>6
<1> QED
  BY <1>7 DEF V, t

\* The ids of lines go down, so no two are the same.
LEMMA PushCoordsGood ==
  ASSUME NEW s \in ParseGood, NEW coords \in SpotLists, NEW tags \in TagMaps
  PROVE  PushWayFromCoords(s, coords, tags) \in ParseGood
<1> DEFINE P == {c \in Spots : c # None}
           found == Passing(coords, P)
           t == FoldLeft(CoordToNode, s, found)
           refs == [k \in DOMAIN found |-> s.next - (k - 1)]
           w == Way(t.next, tags, refs)
           d == [t.data EXCEPT !.ways = Append(t.data.ways, w)]
<1>1. s \in ParseStates /\ DifferentIds(s.data.ways) /\ IdsAbove(s.data.ways, s.next)
  BY DEF ParseGood
<1>2. Retain(coords, LAMBDA c : c # None) = found
  <2>1. {k \in DOMAIN coords : coords[k] # None} = {k \in DOMAIN coords : coords[k] \in P}
    BY DEF SpotLists
  <2> QED
    BY <2>1, Zenon DEF Retain, Passing
<1>3. PushWayFromCoords(s, coords, tags) =
        IF found = << >> THEN s
        ELSE [t EXCEPT !.data.ways = Append(t.data.ways, w), !.next = t.next - 1]
  BY <1>2, Zenon DEF PushWayFromCoords, Advance
<1>4. found \in SpotLists
  BY PassingRange DEF SpotLists
<1> HIDE DEF found
<1>5. t \in SameWays(s)
  BY <1>1, <1>4, CoordsTyped
<1> HIDE DEF t
<1>6. /\ t \in ParseStates /\ t.data.ways = s.data.ways /\ t.next <= s.next /\ t.next \in Int /\ s.next \in Int
      /\ t.data \in Datas({"overture"}) /\ t.data.ways \in Seq(Ways)
  BY <1>1, <1>5, IsParse DEF SameWays
<1>7. refs \in Seq(Int)
  <2>1. Len(found) \in Nat /\ DOMAIN found = 1 .. Len(found)
    BY <1>4 DEF SpotLists
  <2>2. refs = [k \in 1 .. Len(found) |-> s.next - (k - 1)]
    BY <2>1
  <2>3. \A k \in 1 .. Len(found) : s.next - (k - 1) \in Int
    BY <1>6, <2>1
  <2> HIDE DEF refs
  <2> QED
    BY <2>1, <2>2, <2>3
<1> HIDE DEF refs
<1>8. w \in Ways /\ w.id = t.next
  BY <1>6, <1>7 DEF Way, Ways
<1> HIDE DEF w
<1>9. \A k \in DOMAIN t.data.ways : t.data.ways[k].id > s.next /\ t.data.ways[k].id \in Int
  <2> DEFINE l == s.data.ways
             n == s.next
  <2>1. l \in Seq(Ways) /\ IdsAbove(l, n)
    BY <1>1, IsParse
  <2>2. t.data.ways = l
    BY <1>6
  <2> HIDE DEF l, n
  <2>3. \A k \in DOMAIN l : l[k].id > n /\ l[k].id \in Int
    <3>1. \A k \in DOMAIN l : l[k] \in Ways
      BY <2>1
    <3>2. \A k \in DOMAIN l : l[k].id \in Int
      BY <3>1 DEF Ways
    <3> QED
      BY <2>1, <3>2 DEF IdsAbove
  <2> QED
    BY <2>2, <2>3 DEF n
<1>10. Append(t.data.ways, w) \in Seq(Ways) /\ DifferentIds(Append(t.data.ways, w))
  <2>1. Append(t.data.ways, w) \in Seq(Ways)
    BY <1>6, <1>8
  <2>2. \A k \in DOMAIN t.data.ways : t.data.ways[k].id # w.id
    BY <1>6, <1>8, <1>9
  <2>3. DifferentIds(t.data.ways)
    BY <1>1, <1>6
  <2> QED
    BY <1>6, <2>1, <2>2, <2>3, AppendDiffers
<1>11. IdsAbove(Append(t.data.ways, w), t.next - 1)
  <2> DEFINE l == t.data.ways
             n == Len(l)
  <2>1. n \in Nat /\ DOMAIN l = 1 .. n /\ DOMAIN Append(l, w) = 1 .. (n + 1) /\ Append(l, w)[n + 1] = w
        /\ \A k \in 1 .. n : Append(l, w)[k] = l[k]
    BY <1>6
  <2>2. \A k \in 1 .. n : l[k].id > s.next /\ l[k].id \in Int
    BY <1>9, <2>1
  <2> DEFINE m == Append(l, w)
  <2> SUFFICES ASSUME NEW k \in 1 .. (n + 1)
               PROVE  m[k].id > t.next - 1
    BY <2>1 DEF IdsAbove
  <2> HIDE DEF l, n, m
  <2>3. CASE k = n + 1
    BY <1>6, <1>8, <2>1, <2>3 DEF m
  <2>4. CASE k \in 1 .. n
    <3>1. m[k] = l[k] /\ l[k].id > s.next /\ l[k].id \in Int
      BY <2>1, <2>2, <2>4 DEF m
    <3> QED
      BY <1>6, <3>1
  <2> QED
    BY <2>1, <2>3, <2>4
<1>12. d \in Datas({"overture"}) /\ d.ways = Append(t.data.ways, w)
  BY <1>6, <1>10 DEF Datas
<1>13. CASE found = << >>
  <2>1. PushWayFromCoords(s, coords, tags) = s
    BY <1>3, <1>13
  <2> QED
    BY <2>1
<1>14. CASE found # << >>
  <2>1. PushWayFromCoords(s, coords, tags) = [t EXCEPT !.data = d, !.next = t.next - 1]
    BY <1>3, <1>6, <1>14 DEF ParseStates
  <2> HIDE DEF d
  <2> DEFINE u == [t EXCEPT !.data = d, !.next = t.next - 1]
  <2>2. u \in ParseStates /\ u.data = d /\ u.next = t.next - 1
    <3>1. t \in ParseStates /\ d \in Datas({"overture"}) /\ t.next - 1 \in Int
      BY <1>6, <1>12
    <3> DEFINE n == t.next - 1
    <3> HIDE DEF n, d
    <3>2. n \in Int
      BY <3>1 DEF n
    <3>3. [t EXCEPT !.data = d, !.next = n] \in ParseStates
          /\ [t EXCEPT !.data = d, !.next = n].data = d /\ [t EXCEPT !.data = d, !.next = n].next = n
      BY <3>1, <3>2 DEF ParseStates
    <3> QED
      BY <3>3 DEF n
  <2> HIDE DEF u
  <2>3. u \in ParseGood
    BY <1>10, <1>11, <1>12, <2>2 DEF ParseGood
  <2> QED
    BY <2>1, <2>3 DEF u
<1> QED
  BY <1>13, <1>14

LEMMA OuterRingTyped ==
  ASSUME NEW polygon \in Seq(SpotLists)
  PROVE  OuterRing(polygon) \in SpotLists
BY DEF OuterRing, SpotLists

PolygonRun(h, V, base, s, tags) ==
  /\ Chain(h, V, Len(s), base, FoldLeft(LAMBDA t, polygon : PushWayFromCoords(t, OuterRing(polygon), tags), base, s))
  /\ \A k \in 1 .. Len(s) : h[k] = PushWayFromCoords(h[k - 1], OuterRing(s[k]), tags)

LEMMA PolygonSteps ==
  ASSUME NEW U, NEW s \in Seq(U), NEW V, NEW base \in V, NEW tags, \A v \in V, u \in U : PushWayFromCoords(v, OuterRing(u), tags) \in V
  PROVE  \E h : PolygonRun(h, V, base, s, tags)
<1> DEFINE n == Len(s)
           step == [kv \in (1 .. n) \X V |-> PushWayFromCoords(kv[2], OuterRing(s[kv[1]]), tags)]
           Rest(I, g) == IF I = {} THEN base ELSE PushWayFromCoords(g[I \ {Max(I)}], OuterRing(s[Max(I)]), tags)
           Eq(g) == g = [I \in SUBSET (1 .. n) |-> Rest(I, g)]
           c == CHOOSE g : Eq(g)
<1>1. n \in Nat /\ DOMAIN s = 1 .. n /\ \A k \in 1 .. n : s[k] \in U
  OBVIOUS
<1>2. step \in [(1 .. n) \X V -> V] /\ \A k \in 1 .. n, v \in V : step[<<k, v>>] = PushWayFromCoords(v, OuterRing(s[k]), tags)
  BY <1>1
<1>3. FoldLeft(LAMBDA t, polygon : PushWayFromCoords(t, OuterRing(polygon), tags), base, s) = c[1 .. n]
  <2>1. FoldLeft(LAMBDA t, polygon : PushWayFromCoords(t, OuterRing(polygon), tags), base, s) = (CHOOSE g : g = [I \in SUBSET DOMAIN s |-> Rest(I, g)])[DOMAIN s]
    BY Zenon DEF FoldLeft, MapThenFoldSet
  <2> QED
    BY <1>1, <2>1, Zenon
<1> HIDE DEF n, step, c
<1>4. PICK f \in [SUBSET (1 .. n) -> V] : IsSequenceFold(n, base, step, f)
  BY <1>1, <1>2, SequenceFold
<1>5. \A I \in SUBSET (1 .. n) : f[I] = Rest(I, f)
  <2>1. \A I \in SUBSET (1 .. n) : f[I \ {Max(I)}] \in V
    OBVIOUS
  <2> QED
    BY <1>2, <1>4, <2>1 DEF IsSequenceFold
<1>6. Eq(f)
  BY <1>5
<1>7. Eq(c)
  <2> HIDE DEF Eq
  <2> QED
    BY <1>6 DEF c
<1>8. c[{}] = f[{}] /\ \A I \in SUBSET (1 .. n) : I # {} /\ c[I \ {Max(I)}] = f[I \ {Max(I)}] => c[I] = f[I]
  BY <1>5, <1>7
<1>9. PICK h : Follows(h, V, n, base, step, c[1 .. n])
  BY <1>1, <1>4, <1>8, FoldFollows
<1>10. \A k \in 1 .. n : h[k] = PushWayFromCoords(h[k - 1], OuterRing(s[k]), tags)
  <2> SUFFICES ASSUME NEW k \in 1 .. n
               PROVE  h[k] = PushWayFromCoords(h[k - 1], OuterRing(s[k]), tags)
    OBVIOUS
  <2>1. h[k - 1] \in V /\ h[k] = step[<<k, h[k - 1]>>]
    BY <1>1, <1>9 DEF Follows, Chain
  <2> QED
    BY <1>2, <2>1
<1> QED
  BY <1>3, <1>9, <1>10 DEF n, Follows, PolygonRun

LEMMA PolygonsGood ==
  ASSUME NEW s \in ParseGood, NEW polygons \in Seq(Seq(SpotLists)), NEW tags \in TagMaps
  PROVE  FoldLeft(LAMBDA t, polygon : PushWayFromCoords(t, OuterRing(polygon), tags), s, polygons) \in ParseGood
<1> DEFINE r == FoldLeft(LAMBDA t, polygon : PushWayFromCoords(t, OuterRing(polygon), tags), s, polygons)
<1>1. \A v \in ParseGood, u \in Seq(SpotLists) : PushWayFromCoords(v, OuterRing(u), tags) \in ParseGood
  BY OuterRingTyped, PushCoordsGood
<1>2. PICK h : PolygonRun(h, ParseGood, s, polygons, tags)
  BY <1>1, PolygonSteps
<1>3. h[Len(polygons)] = r /\ h \in [0 .. Len(polygons) -> ParseGood]
  BY <1>2, Zenon DEF PolygonRun, Chain
<1>4. Len(polygons) \in Nat
  OBVIOUS
<1> HIDE DEF r
<1>5. r \in ParseGood
  BY <1>3, <1>4
<1> QED
  BY <1>5, Zenon DEF r

LEMMA PointGood ==
  ASSUME NEW s \in ParseGood, NEW f, f.coordinates \in Spots, NEW theme, NEW tags \in TagMaps
  PROVE  PointFeature(s, f, theme, tags) \in ParseGood
<1> DEFINE t == CoordToNode(s, f.coordinates)
           p == f.coordinates[1]
           poi == Poi(p, tags, "overture")
<1>1. CASE f.coordinates = None
  BY <1>1 DEF PointFeature
<1>2. CASE f.coordinates # None
  <2>1. p \in Points
    BY <1>2 DEF Spots, Maybe, None
  <2>2. poi \in PoisOf({"overture"})
    BY <2>1 DEF Poi, PoisOf, Points
  <2>3. t \in SameWays(s)
    BY CoordToNodeTyped DEF ParseGood
  <2>4. PointFeature(s, f, theme, tags) =
          CASE theme = "Address" -> [t EXCEPT !.data.addrs = Append(t.data.addrs, poi)]
            [] theme = "Place" -> [t EXCEPT !.data.pois = Append(t.data.pois, poi)]
            [] theme \notin {"Address", "Place"} ->
                 IF IsTree(tags) THEN [t EXCEPT !.data.trees = Append(t.data.trees, p)] ELSE t
    BY <1>2 DEF PointFeature
  <2> HIDE DEF t, p, poi
  <2>5. t \in ParseStates /\ t.data.ways = s.data.ways /\ t.next <= s.next
    BY <2>3 DEF SameWays
  <2>6. t.data \in Datas({"overture"}) /\ t.next \in Int /\ s.next \in Int /\ s.data.ways \in Seq(Ways)
    BY <2>5, IsParse DEF ParseGood
  <2>7. DifferentIds(s.data.ways) /\ IdsAbove(s.data.ways, t.next)
    <3> DEFINE l == s.data.ways
               n == s.next
               m == t.next
    <3>1. DifferentIds(l) /\ IdsAbove(l, n)
      BY DEF ParseGood
    <3>2. l \in Seq(Ways) /\ n \in Int /\ m \in Int /\ m <= n
      BY <2>5, <2>6
    <3> HIDE DEF l, n, m
    <3>3. \A k \in DOMAIN l : l[k].id \in Int
      <4>1. \A k \in DOMAIN l : l[k] \in Ways
        BY <3>2
      <4> QED
        BY <4>1 DEF Ways
    <3>4. IdsAbove(l, m)
      BY <3>1, <3>2, <3>3 DEF IdsAbove
    <3> QED
      BY <3>1, <3>4 DEF l, m
  <2>8. ASSUME NEW d \in Datas({"overture"}), d.ways = t.data.ways
        PROVE  [t EXCEPT !.data = d] \in ParseGood
    <3> DEFINE u == [t EXCEPT !.data = d]
    <3>1. u \in ParseStates /\ u.data = d /\ u.next = t.next
      BY <2>5 DEF ParseStates
    <3> HIDE DEF u
    <3>2. u \in ParseGood
      BY <2>5, <2>7, <2>8, <3>1 DEF ParseGood
    <3> QED
      BY <3>2 DEF u
  <2>9. CASE theme = "Address"
    <3> DEFINE d == [t.data EXCEPT !.addrs = Append(t.data.addrs, poi)]
    <3>1. Append(t.data.addrs, poi) \in Seq(PoisOf({"overture"}))
      BY <2>2, <2>6 DEF Datas
    <3>2. d \in Datas({"overture"}) /\ d.ways = t.data.ways
      BY <2>6, <3>1 DEF Datas
    <3>3. PointFeature(s, f, theme, tags) = [t EXCEPT !.data = d]
      BY <2>4, <2>9
    <3> HIDE DEF d
    <3> QED
      BY <2>8, <3>2, <3>3
  <2>10. CASE theme = "Place"
    <3> DEFINE d == [t.data EXCEPT !.pois = Append(t.data.pois, poi)]
    <3>1. Append(t.data.pois, poi) \in Seq(PoisOf({"overture"}))
      BY <2>2, <2>6 DEF Datas
    <3>2. d \in Datas({"overture"}) /\ d.ways = t.data.ways
      BY <2>6, <3>1 DEF Datas
    <3>3. PointFeature(s, f, theme, tags) = [t EXCEPT !.data = d]
      BY <2>4, <2>10
    <3> HIDE DEF d
    <3> QED
      BY <2>8, <3>2, <3>3
  <2>11. CASE theme \notin {"Address", "Place"}
    <3> DEFINE d == [t.data EXCEPT !.trees = Append(t.data.trees, p)]
    <3>1. Append(t.data.trees, p) \in Seq(Points)
      BY <2>1, <2>6 DEF Datas, p
    <3>2. d \in Datas({"overture"}) /\ d.ways = t.data.ways
      BY <2>6, <3>1 DEF Datas
    <3>3. PointFeature(s, f, theme, tags) = IF IsTree(tags) THEN [t EXCEPT !.data = d] ELSE t
      BY <2>4, <2>11
    <3>4. t \in ParseGood
      BY <2>5, <2>7 DEF ParseGood
    <3> HIDE DEF d
    <3> QED
      BY <2>8, <3>2, <3>3, <3>4
  <2> QED
    BY <2>9, <2>10, <2>11
<1> QED
  BY <1>1, <1>2

LEMMA OnFeatureGood ==
  ASSUME NEW s \in ParseGood, NEW f, IsFeature(f), NEW theme \in Range(AllThemes)
  PROVE  OnFeature(s, f, theme) \in ParseGood
<1> DEFINE tags == MapTagsForTheme(f.props, theme)
<1>1. tags \in TagMaps
  <2>1. IsProps(f.props)
    BY Zenon DEF IsFeature
  <2> QED
    BY <2>1, TagsTyped
<1>2. OnFeature(s, f, theme) =
        CASE f.type = "Point" -> PointFeature(s, f, theme, tags)
          [] f.type = "LineString" -> PushWayFromCoords(s, f.coordinates, tags)
          [] f.type = "Polygon" -> PushWayFromCoords(s, OuterRing(f.coordinates), tags)
          [] f.type = "MultiPolygon" ->
               FoldLeft(LAMBDA t, polygon : PushWayFromCoords(t, OuterRing(polygon), tags), s, f.coordinates)
          [] OTHER -> s
  BY Zenon DEF OnFeature
<1> HIDE DEF tags
<1>3. CASE f.type = "Point"
  <2>1. f.coordinates \in Spots
    BY <1>3, Zenon DEF IsFeature
  <2>2. OnFeature(s, f, theme) = PointFeature(s, f, theme, tags)
    BY <1>2, <1>3
  <2> QED
    BY <1>1, <2>1, <2>2, PointGood
<1>4. CASE f.type = "LineString"
  <2>1. f.coordinates \in SpotLists
    BY <1>4, Zenon DEF IsFeature
  <2>2. OnFeature(s, f, theme) = PushWayFromCoords(s, f.coordinates, tags)
    BY <1>2, <1>4
  <2> QED
    BY <1>1, <2>1, <2>2, PushCoordsGood
<1>5. CASE f.type = "Polygon"
  <2>1. OuterRing(f.coordinates) \in SpotLists
    BY <1>5, OuterRingTyped, Zenon DEF IsFeature
  <2>2. OnFeature(s, f, theme) = PushWayFromCoords(s, OuterRing(f.coordinates), tags)
    BY <1>2, <1>5
  <2> QED
    BY <1>1, <2>1, <2>2, PushCoordsGood
<1>6. CASE f.type = "MultiPolygon"
  <2> DEFINE r == FoldLeft(LAMBDA t, polygon : PushWayFromCoords(t, OuterRing(polygon), tags), s, f.coordinates)
  <2>1. f.coordinates \in Seq(Seq(SpotLists))
    BY <1>6, Zenon DEF IsFeature
  <2>2. r \in ParseGood
    BY <1>1, <2>1, PolygonsGood
  <2>3. OnFeature(s, f, theme) =
          CASE f.type = "Point" -> PointFeature(s, f, theme, tags)
            [] f.type = "LineString" -> PushWayFromCoords(s, f.coordinates, tags)
            [] f.type = "Polygon" -> PushWayFromCoords(s, OuterRing(f.coordinates), tags)
            [] f.type = "MultiPolygon" -> r
            [] OTHER -> s
    BY <1>2, Zenon
  <2> HIDE DEF r
  <2> QED
    BY <1>6, <2>2, <2>3
<1>7. CASE f.type \notin {"Point", "LineString", "Polygon", "MultiPolygon"}
  <2> DEFINE r == FoldLeft(LAMBDA t, polygon : PushWayFromCoords(t, OuterRing(polygon), tags), s, f.coordinates)
  <2>3. OnFeature(s, f, theme) =
          CASE f.type = "Point" -> PointFeature(s, f, theme, tags)
            [] f.type = "LineString" -> PushWayFromCoords(s, f.coordinates, tags)
            [] f.type = "Polygon" -> PushWayFromCoords(s, OuterRing(f.coordinates), tags)
            [] f.type = "MultiPolygon" -> r
            [] OTHER -> s
    BY <1>2, Zenon
  <2> HIDE DEF r
  <2> QED
    BY <1>7, <2>3
<1> QED
  BY <1>3, <1>4, <1>5, <1>6, <1>7

FeatureRun(h, V, base, s, theme) ==
  /\ Chain(h, V, Len(s), base, FoldLeft(LAMBDA t, f : OnFeature(t, f, theme), base, s))
  /\ \A k \in 1 .. Len(s) : h[k] = OnFeature(h[k - 1], s[k], theme)

LEMMA FeatureSteps ==
  ASSUME NEW U, NEW s \in Seq(U), NEW V, NEW base \in V, NEW theme, \A v \in V, u \in U : OnFeature(v, u, theme) \in V
  PROVE  \E h : FeatureRun(h, V, base, s, theme)
<1> DEFINE n == Len(s)
           step == [kv \in (1 .. n) \X V |-> OnFeature(kv[2], s[kv[1]], theme)]
           Rest(I, g) == IF I = {} THEN base ELSE OnFeature(g[I \ {Max(I)}], s[Max(I)], theme)
           Eq(g) == g = [I \in SUBSET (1 .. n) |-> Rest(I, g)]
           c == CHOOSE g : Eq(g)
<1>1. n \in Nat /\ DOMAIN s = 1 .. n /\ \A k \in 1 .. n : s[k] \in U
  OBVIOUS
<1>2. step \in [(1 .. n) \X V -> V] /\ \A k \in 1 .. n, v \in V : step[<<k, v>>] = OnFeature(v, s[k], theme)
  BY <1>1
<1>3. FoldLeft(LAMBDA t, f : OnFeature(t, f, theme), base, s) = c[1 .. n]
  <2>1. FoldLeft(LAMBDA t, f : OnFeature(t, f, theme), base, s) = (CHOOSE g : g = [I \in SUBSET DOMAIN s |-> Rest(I, g)])[DOMAIN s]
    BY Zenon DEF FoldLeft, MapThenFoldSet
  <2> QED
    BY <1>1, <2>1, Zenon
<1> HIDE DEF n, step, c
<1>4. PICK f \in [SUBSET (1 .. n) -> V] : IsSequenceFold(n, base, step, f)
  BY <1>1, <1>2, SequenceFold
<1>5. \A I \in SUBSET (1 .. n) : f[I] = Rest(I, f)
  <2>1. \A I \in SUBSET (1 .. n) : f[I \ {Max(I)}] \in V
    OBVIOUS
  <2> QED
    BY <1>2, <1>4, <2>1 DEF IsSequenceFold
<1>6. Eq(f)
  BY <1>5
<1>7. Eq(c)
  <2> HIDE DEF Eq
  <2> QED
    BY <1>6 DEF c
<1>8. c[{}] = f[{}] /\ \A I \in SUBSET (1 .. n) : I # {} /\ c[I \ {Max(I)}] = f[I \ {Max(I)}] => c[I] = f[I]
  BY <1>5, <1>7
<1>9. PICK h : Follows(h, V, n, base, step, c[1 .. n])
  BY <1>1, <1>4, <1>8, FoldFollows
<1>10. \A k \in 1 .. n : h[k] = OnFeature(h[k - 1], s[k], theme)
  <2> SUFFICES ASSUME NEW k \in 1 .. n
               PROVE  h[k] = OnFeature(h[k - 1], s[k], theme)
    OBVIOUS
  <2>1. h[k - 1] \in V /\ h[k] = step[<<k, h[k - 1]>>]
    BY <1>1, <1>9 DEF Follows, Chain
  <2> QED
    BY <1>2, <2>1
<1> QED
  BY <1>3, <1>9, <1>10 DEF n, Follows, FeatureRun

ParseResults == [data : SoundDatas({"overture"}), next : Int]

LEMMA ParseTyped ==
  ASSUME NEW U, \A f \in U : IsFeature(f), NEW features \in Seq(U), NEW theme \in Range(AllThemes),
         NEW next \in Int
  PROVE  ParseWithAllocator(features, theme, next) \in ParseResults
<1> DEFINE base == [data |-> EmptyData, next |-> next]
           s == FoldLeft(LAMBDA t, f : OnFeature(t, f, theme), base, features)
           d == WithWays(s.data, s.data.ways)
<1>1. base \in ParseGood
  <2>1. base \in ParseStates /\ base.data.ways = << >> /\ base.next = next
    BY EmptyDataTyped DEF ParseStates, EmptyData
  <2> QED
    BY <2>1 DEF ParseGood, DifferentIds, IdsAbove
<1>2. s \in ParseGood
  <2>1. \A v \in ParseGood, u \in U : OnFeature(v, u, theme) \in ParseGood
    BY OnFeatureGood
  <2> HIDE DEF base
  <2>2. PICK h : FeatureRun(h, ParseGood, base, features, theme)
    BY <1>1, <2>1, FeatureSteps
  <2>3. h[Len(features)] = s /\ h \in [0 .. Len(features) -> ParseGood]
    BY <2>2, Zenon DEF FeatureRun, Chain
  <2>4. Len(features) \in Nat
    OBVIOUS
  <2> HIDE DEF s
  <2> QED
    BY <2>3, <2>4
<1>3. ParseWithAllocator(features, theme, next) = [s EXCEPT !.data = d]
  BY Zenon DEF ParseWithAllocator
<1> HIDE DEF s, base
<1>4. s \in ParseStates /\ s.data \in Datas({"overture"}) /\ s.data.ways \in Seq(Ways) /\ DifferentIds(s.data.ways)
  BY <1>2, IsParse DEF ParseGood
<1>5. d \in SoundDatas({"overture"})
  BY <1>4, Differs
<1> HIDE DEF d
<1>6. [s EXCEPT !.data = d] \in ParseResults
  BY <1>4, <1>5 DEF ParseStates, ParseResults
<1> QED
  BY <1>3, <1>6

\* fetch_overture_data merges what each download of a theme makes.
AddTheme(s, t) ==
  LET p == ParseWithAllocator(t.features, t.theme, s.next)
  IN  [data |-> Merge(s.data, p.data), next |-> p.next]

ThemeRun(h, V, base, s) ==
  /\ Chain(h, V, Len(s), base, FoldLeft(AddTheme, base, s))
  /\ \A k \in 1 .. Len(s) : h[k] = AddTheme(h[k - 1], s[k])

LEMMA ThemeSteps ==
  ASSUME NEW U, NEW s \in Seq(U), NEW V, NEW base \in V, \A v \in V, u \in U : AddTheme(v, u) \in V
  PROVE  \E h : ThemeRun(h, V, base, s)
<1> DEFINE n == Len(s)
           step == [kv \in (1 .. n) \X V |-> AddTheme(kv[2], s[kv[1]])]
           Rest(I, g) == IF I = {} THEN base ELSE AddTheme(g[I \ {Max(I)}], s[Max(I)])
           Eq(g) == g = [I \in SUBSET (1 .. n) |-> Rest(I, g)]
           c == CHOOSE g : Eq(g)
<1>1. n \in Nat /\ DOMAIN s = 1 .. n /\ \A k \in 1 .. n : s[k] \in U
  OBVIOUS
<1>2. step \in [(1 .. n) \X V -> V] /\ \A k \in 1 .. n, v \in V : step[<<k, v>>] = AddTheme(v, s[k])
  BY <1>1
<1>3. FoldLeft(AddTheme, base, s) = c[1 .. n]
  <2>1. FoldLeft(AddTheme, base, s) = (CHOOSE g : g = [I \in SUBSET DOMAIN s |-> Rest(I, g)])[DOMAIN s]
    BY Zenon DEF FoldLeft, MapThenFoldSet
  <2> QED
    BY <1>1, <2>1, Zenon
<1> HIDE DEF n, step, c
<1>4. PICK f \in [SUBSET (1 .. n) -> V] : IsSequenceFold(n, base, step, f)
  BY <1>1, <1>2, SequenceFold
<1>5. \A I \in SUBSET (1 .. n) : f[I] = Rest(I, f)
  <2>1. \A I \in SUBSET (1 .. n) : f[I \ {Max(I)}] \in V
    OBVIOUS
  <2> QED
    BY <1>2, <1>4, <2>1 DEF IsSequenceFold
<1>6. Eq(f)
  BY <1>5
<1>7. Eq(c)
  <2> HIDE DEF Eq
  <2> QED
    BY <1>6 DEF c
<1>8. c[{}] = f[{}] /\ \A I \in SUBSET (1 .. n) : I # {} /\ c[I \ {Max(I)}] = f[I \ {Max(I)}] => c[I] = f[I]
  BY <1>5, <1>7
<1>9. PICK h : Follows(h, V, n, base, step, c[1 .. n])
  BY <1>1, <1>4, <1>8, FoldFollows
<1>10. \A k \in 1 .. n : h[k] = AddTheme(h[k - 1], s[k])
  <2> SUFFICES ASSUME NEW k \in 1 .. n
               PROVE  h[k] = AddTheme(h[k - 1], s[k])
    OBVIOUS
  <2>1. h[k - 1] \in V /\ h[k] = step[<<k, h[k - 1]>>]
    BY <1>1, <1>9 DEF Follows, Chain
  <2> QED
    BY <1>2, <2>1
<1> QED
  BY <1>3, <1>9, <1>10 DEF n, Follows, ThemeRun

LEMMA EmptyIsSound == ASSUME NEW src PROVE EmptyData \in SoundDatas(src)
<1>1. EmptyData \in Datas(src)
  BY EmptyDataTyped
<1>2. DifferentIds(EmptyData.ways) /\ EmptyData.ways = << >>
  BY DEF DifferentIds, EmptyData
<1>3. WithWays(EmptyData, << >>) \in SoundDatas(src)
  <2>1. << >> \in Seq(Ways) /\ DifferentIds(<< >>)
    BY DEF DifferentIds
  <2> QED
    BY <1>1, <2>1, Differs
<1>4. IndexOf(<< >>) = << >>
  BY DEF IndexOf
<1>5. WithWays(EmptyData, << >>) = EmptyData
  <2>1. WithWays(EmptyData, << >>) = [EmptyData EXCEPT !.ways = << >>, !.index = << >>]
    BY <1>4, Zenon DEF WithWays
  <2>2. EmptyData.ways = << >> /\ EmptyData.index = << >>
    BY DEF EmptyData
  <2> QED
    BY <1>1, <2>1, <2>2 DEF Datas
<1> QED
  BY <1>3, <1>5

\* Whatever Overture sends, fetch_overture_data makes data that
\* validate_invariants accepts, of Overture's own points of interest: features
\* without positions, a theme that is listed twice, all of them included.
THEOREM OvertureIsSound ==
  ASSUME NEW U, \A f \in U : IsFeature(f),
         NEW themes \in Seq([theme : Range(AllThemes), features : Seq(U)])
  PROVE  ParseThemes(themes) \in SoundDatas({"overture"})
<1> DEFINE base == [data |-> EmptyData, next |-> NewAllocator]
           s == FoldLeft(AddTheme, base, themes)
           T == [theme : Range(AllThemes), features : Seq(U)]
<1>1. base \in ParseResults
  BY EmptyIsSound, BasesAreOrdered DEF ParseResults, NewAllocator
<1>2. ASSUME NEW v \in ParseResults, NEW t \in T
      PROVE  AddTheme(v, t) \in ParseResults
  <2> DEFINE p == ParseWithAllocator(t.features, t.theme, v.next)
             m == Merge(v.data, p.data)
  <2>1. v.data \in SoundDatas({"overture"}) /\ v.next \in Int
    BY DEF ParseResults
  <2>2. t.features \in Seq(U) /\ t.theme \in Range(AllThemes)
    OBVIOUS
  <2>3. p \in ParseResults
    BY <2>1, <2>2, ParseTyped
  <2> HIDE DEF p
  <2>4. p.data \in SoundDatas({"overture"}) /\ p.next \in Int /\ p.data \in Datas({"overture"})
    BY <2>3 DEF ParseResults, SoundDatas
  <2>5. m \in SoundDatas({"overture"})
    BY <2>1, <2>4, MergeKeepsIndex
  <2>6. AddTheme(v, t) = [data |-> m, next |-> p.next]
    BY DEF AddTheme, p
  <2> HIDE DEF m
  <2> QED
    BY <2>4, <2>5, <2>6 DEF ParseResults
<1> HIDE DEF base, T
<1>3. \A v \in ParseResults, t \in T : AddTheme(v, t) \in ParseResults
  BY <1>2
<1>4. themes \in Seq(T)
  BY DEF T
<1>5. PICK h : ThemeRun(h, ParseResults, base, themes)
  BY <1>1, <1>3, <1>4, ThemeSteps
<1>6. h[Len(themes)] = s /\ h \in [0 .. Len(themes) -> ParseResults]
  BY <1>5, Zenon DEF ThemeRun, Chain
<1>7. Len(themes) \in Nat
  BY <1>4
<1>8. ParseThemes(themes) = s.data
  BY Zenon DEF ParseThemes, AddTheme, FoldLeft, MapThenFoldSet, base
<1> HIDE DEF s
<1>9. s \in ParseResults
  BY <1>6, <1>7
<1> QED
  BY <1>8, <1>9 DEF ParseResults

----------------------------------------------------------------------------
(* Clipping twice.                                                          *)

\* What touches the inner box, and what is inside it, is in the outer one.
LEMMA InsideInner ==
  ASSUME NEW outer \in Boxes, NEW inner \in Boxes, Covers(outer, inner)
  PROVE  /\ \A p \in Points : Inside(p, inner) => Inside(p, outer)
         /\ \A src, p : p \in PoisOf(src) /\ Inside(p, inner) => Inside(p, outer)
BY DEF Boxes, Covers, Points, PoisOf, Inside

LEMMA TouchesInner ==
  ASSUME NEW src, NEW d \in Datas(src), NEW outer \in Boxes, NEW inner \in Boxes, Covers(outer, inner)
  PROVE  Touching(d, inner) \subseteq Touching(d, outer)
<1>1. d.nodes \in [DOMAIN d.nodes -> Points]
  BY DEF Datas, NodeMaps
<1>2. \A w : Touches(d, w, inner) => Touches(d, w, outer)
  BY <1>1, InsideInner DEF Touches
<1> QED
  BY <1>2 DEF Touching

\* The ways that a second clip keeps.
LEMMA KeptTwice ==
  ASSUME NEW src, NEW d \in Datas(src), NEW outer \in Boxes, NEW inner \in Boxes, Covers(outer, inner)
  PROVE  /\ Kept(Clip(d, outer), inner) = Kept(d, inner)
         /\ Range(Kept(d, inner)) \subseteq Range(Kept(d, outer))
<1> DEFINE c == Clip(d, outer)
           K == Kept(d, outer)
<1>1. c \in Datas(src) /\ c.ways = K
  BY ClipTyped DEF ClipFields
<1>2. d.ways \in Seq(Ways) /\ K \in Seq(Ways)
  BY <1>1 DEF Datas
<1>3. \A w \in Range(K) : Touches(c, w, inner) <=> Touches(d, w, inner)
  <2> SUFFICES ASSUME NEW w \in Range(c.ways)
               PROVE  Touches(c, w, inner) <=> Touches(d, w, inner)
    BY <1>1
  <2>1. /\ \A k \in DOMAIN w.refs : w.refs[k] \in DOMAIN c.nodes <=> w.refs[k] \in DOMAIN d.nodes
        /\ \A n \in DOMAIN c.nodes : c.nodes[n] = d.nodes[n]
    BY KeptWay
  <2> HIDE DEF c
  <2> QED
    BY <2>1 DEF Touches
<1> HIDE DEF c, K
<1>4. {k \in DOMAIN K : K[k] \in Touching(c, inner)} = {k \in DOMAIN K : K[k] \in Touching(d, inner)}
  BY <1>3 DEF Touching, Range
<1>5. Kept(c, inner) = Passing(K, Touching(d, inner))
  BY <1>1, <1>4, Zenon DEF Kept, Passing
<1>6. Passing(K, Touching(d, inner)) = Passing(d.ways, Touching(d, inner))
  <2>1. Touching(d, inner) \subseteq Touching(d, outer)
    BY TouchesInner
  <2> QED
    BY <1>2, <2>1, PassingTwice DEF K, Kept
<1>7. Range(Kept(d, inner)) \subseteq Range(K)
  <2>1. Range(Kept(d, inner)) = Range(d.ways) \cap Touching(d, inner)
    BY <1>2, PassingRange DEF Kept
  <2>2. Range(K) = Range(d.ways) \cap Touching(d, outer)
    BY <1>2, PassingRange DEF Kept, K
  <2> QED
    BY <2>1, <2>2, TouchesInner
<1> QED
  BY <1>5, <1>6, <1>7 DEF c, K, Kept

LEMMA UsedGrows ==
  ASSUME NEW a, NEW b, Range(a) \subseteq Range(b)
  PROVE  Used(a) \subseteq Used(b) /\ DOMAIN IndexOf(a) \subseteq DOMAIN IndexOf(b)
<1>1. \A k \in DOMAIN a : \E j \in DOMAIN b : a[k] = b[j]
  BY DEF Range
<1>2. DOMAIN IndexOf(a) = {a[k].id : k \in DOMAIN a} /\ DOMAIN IndexOf(b) = {b[k].id : k \in DOMAIN b}
  BY DEF IndexOf
<1> QED
  BY <1>1, <1>2 DEF Used

\* clip_to_bbox for a box and then for one inside it is clip_to_bbox for the
\* inner one: a larger area that was cached serves a request as its own would.
THEOREM ClipTwice ==
  ASSUME NEW src, NEW d \in Datas(src), NEW outer \in Boxes, NEW inner \in Boxes, Covers(outer, inner)
  PROVE  Clip(Clip(d, outer), inner) = Clip(d, inner)
<1> DEFINE c == Clip(d, outer)
           e == Clip(c, inner)
           f == Clip(d, inner)
           K == Kept(d, outer)
           L == Kept(d, inner)
<1>1. c \in Datas(src) /\ ClipFields(c, d, outer, src)
  BY ClipTyped
<1>2. f \in Datas(src) /\ ClipFields(f, d, inner, src)
  BY ClipTyped
<1>3. e \in Datas(src) /\ ClipFields(e, c, inner, src)
  <2> HIDE DEF c
  <2> QED
    BY <1>1, ClipTyped
<1>4. Kept(c, inner) = L /\ Range(L) \subseteq Range(K)
  BY KeptTwice
<1>5. Used(L) \subseteq Used(K) /\ DOMAIN IndexOf(L) \subseteq DOMAIN IndexOf(K)
  BY <1>4, UsedGrows
<1> HIDE DEF c, e, f, K, L
<1>6. e.ways = f.ways /\ e.index = f.index /\ e.bounds = f.bounds
  BY <1>2, <1>3, <1>4 DEF ClipFields, L
<1>7. e.nodes = f.nodes
  <2>1. e.nodes = Restrict(c.nodes, DOMAIN c.nodes \cap Used(L))
    BY <1>3, <1>4 DEF ClipFields
  <2>2. f.nodes = Restrict(d.nodes, DOMAIN d.nodes \cap Used(L))
    BY <1>2 DEF ClipFields, L
  <2>3. c.nodes = Restrict(d.nodes, DOMAIN d.nodes \cap Used(K))
    BY <1>1 DEF ClipFields, K
  <2> QED
    BY <1>5, <2>1, <2>2, <2>3 DEF Restrict
<1>8. ASSUME NEW V, NEW s \in Seq(V), \A p \in V : Inside(p, inner) => Inside(p, outer)
      PROVE  Passing(Passing(s, InsideOf(V, outer)), InsideOf(V, inner)) = Passing(s, InsideOf(V, inner))
  <2>1. InsideOf(V, inner) \subseteq InsideOf(V, outer)
    BY <1>8 DEF InsideOf
  <2> QED
    BY <2>1, PassingTwice
<1>9. /\ d.pois \in Seq(PoisOf(src)) /\ d.addrs \in Seq(PoisOf(src)) /\ d.tagged \in Seq(PoisOf(src))
      /\ d.trees \in Seq(Points) /\ d.relations \in Seq(Relations)
  BY DEF Datas
<1>10. e.pois = f.pois /\ e.addrs = f.addrs /\ e.tagged = f.tagged /\ e.trees = f.trees
  <2>1. \A p \in PoisOf(src) : Inside(p, inner) => Inside(p, outer)
    BY InsideInner
  <2>2. \A p \in Points : Inside(p, inner) => Inside(p, outer)
    BY InsideInner
  <2>3. e.pois = f.pois
    BY <1>1, <1>2, <1>3, <1>8, <1>9, <2>1 DEF ClipFields
  <2>4. e.addrs = f.addrs
    BY <1>1, <1>2, <1>3, <1>8, <1>9, <2>1 DEF ClipFields
  <2>5. e.tagged = f.tagged
    BY <1>1, <1>2, <1>3, <1>8, <1>9, <2>1 DEF ClipFields
  <2>6. e.trees = f.trees
    BY <1>1, <1>2, <1>3, <1>8, <1>9, <2>2 DEF ClipFields
  <2> QED
    BY <2>3, <2>4, <2>5, <2>6
<1>11. e.relations = f.relations
  <2>1. Built(DOMAIN IndexOf(L)) \subseteq Built(DOMAIN IndexOf(K))
    BY <1>5 DEF Built
  <2>2. Passing(Passing(d.relations, Built(DOMAIN IndexOf(K))), Built(DOMAIN IndexOf(L)))
          = Passing(d.relations, Built(DOMAIN IndexOf(L)))
    BY <1>9, <2>1, PassingTwice
  <2> QED
    BY <1>1, <1>2, <1>3, <1>4, <2>2 DEF ClipFields, K, L
<1>12. e = f
  <2>1. ASSUME NEW g \in Datas(src)
        PROVE  g = [nodes |-> g.nodes, ways |-> g.ways, index |-> g.index, relations |-> g.relations,
                    bounds |-> g.bounds, pois |-> g.pois, addrs |-> g.addrs, trees |-> g.trees,
                    tagged |-> g.tagged]
    BY DEF Datas
  <2> QED
    BY <1>2, <1>3, <1>6, <1>7, <1>10, <1>11, <2>1
<1> QED
  BY <1>12 DEF c, e, f

----------------------------------------------------------------------------
(* Documents: sequences of events.                                          *)

\* D[k] is what the first k of the sequences make.
FlattensTo(seqs, V, D) ==
  /\ D \in [0 .. Len(seqs) -> Seq(V)] /\ D[0] = << >> /\ D[Len(seqs)] = FlattenSeq(seqs)
  /\ \A k \in 1 .. Len(seqs) : D[k] = D[k - 1] \o seqs[k]

LEMMA FlattenSteps ==
  ASSUME NEW V, NEW seqs \in Seq(Seq(V))
  PROVE  \E D : FlattensTo(seqs, V, D)
<1> DEFINE n == Len(seqs)
           step == [kv \in (1 .. n) \X Seq(V) |-> kv[2] \o seqs[kv[1]]]
           Eq(g) == g = [i \in 1 .. n |-> IF i = 1 THEN seqs[i] ELSE g[i - 1] \o seqs[i]]
           c == CHOOSE g : Eq(g)
           D == [k \in 0 .. n |-> IF k = 0 THEN << >> ELSE c[k]]
<1>1. n \in Nat /\ \A k \in 1 .. n : seqs[k] \in Seq(V)
  OBVIOUS
<1>2. CASE n = 0
  <2>1. FlattenSeq(seqs) = seqs /\ seqs = << >>
    BY <1>2 DEF FlattenSeq
  <2>2. FlattensTo(seqs, V, [k \in 0 .. 0 |-> << >>])
    BY <1>2, <2>1 DEF FlattensTo
  <2> QED
    BY <2>2
<1>3. CASE n # 0
  <2>1. FlattenSeq(seqs) = c[n]
    BY <1>3, Zenon DEF FlattenSeq
  <2>2. step \in [(1 .. n) \X Seq(V) -> Seq(V)]
    BY <1>1
  <2>3. \A k \in 1 .. n, v \in Seq(V) : step[<<k, v>>] = v \o seqs[k]
    OBVIOUS
  <2>4. << >> \in Seq(V)
    OBVIOUS
  <2> HIDE DEF n, step, c
  <2>5. PICK f \in [SUBSET (1 .. n) -> Seq(V)] : IsSequenceFold(n, << >>, step, f)
    BY <1>1, <2>2, <2>4, SequenceFold
  <2> DEFINE g == [i \in 1 .. n |-> f[1 .. i]]
  <2>6. \A i \in 1 .. n : f[1 .. i] = f[1 .. (i - 1)] \o seqs[i]
    <3> SUFFICES ASSUME NEW i \in 1 .. n
                 PROVE  f[1 .. i] = f[1 .. (i - 1)] \o seqs[i]
      OBVIOUS
    <3>1. 1 .. (i - 1) \in SUBSET (1 .. n)
      BY <1>1
    <3>2. f[1 .. (i - 1)] \in Seq(V)
      BY <3>1
    <3>3. f[1 .. i] = step[<<i, f[1 .. (i - 1)]>>]
      BY <2>5 DEF IsSequenceFold
    <3> QED
      BY <2>3, <3>2, <3>3
  <2>7. f[1 .. 1] = seqs[1]
    <3>1. 1 .. (1 - 1) = {} /\ f[{}] = << >>
      BY <2>5 DEF IsSequenceFold
    <3>2. << >> \o seqs[1] = seqs[1]
      BY <1>1, <1>3
    <3>3. f[1 .. 1] = f[1 .. (1 - 1)] \o seqs[1]
      <4>1. 1 \in 1 .. n
        BY <1>1, <1>3
      <4> QED
        BY <2>6, <4>1
    <3> QED
      BY <3>1, <3>2, <3>3
  <2>8. Eq(g)
    <3>1. \A i \in 1 .. n : i # 1 => i - 1 \in 1 .. n
      BY <1>1
    <3> QED
      BY <2>6, <2>7, <3>1
  <2>9. Eq(c)
    <3> HIDE DEF Eq
    <3> QED
      BY <2>8 DEF c
  <2>10. \A i \in 1 .. n : c[i] = IF i = 1 THEN seqs[i] ELSE c[i - 1] \o seqs[i]
    BY <2>9
  <2> DEFINE G == {k \in 0 .. n : k = 0 \/ c[k] \in Seq(V)}
  <2>11. \A k \in 1 .. n : k - 1 \in G => k \in G
    <3> SUFFICES ASSUME NEW k \in 1 .. n, k - 1 \in G
                 PROVE  c[k] \in Seq(V)
      OBVIOUS
    <3>1. CASE k = 1
      BY <1>1, <2>10, <3>1
    <3>2. CASE k # 1
      <4>1. c[k - 1] \in Seq(V)
        BY <1>1, <3>2
      <4>2. c[k] = c[k - 1] \o seqs[k]
        BY <2>10, <3>2
      <4> QED
        BY <1>1, <4>1, <4>2
    <3> QED
      BY <3>1, <3>2
  <2>12. \A k \in 0 .. n : k \in G
    <3>1. G \in SUBSET (0 .. n) /\ 0 \in G
      BY <1>1
    <3> HIDE DEF G
    <3> QED
      BY <1>1, <2>11, <3>1, EveryStep
  <2>13. D \in [0 .. n -> Seq(V)] /\ D[0] = << >> /\ D[n] = c[n]
    BY <1>1, <1>3, <2>4, <2>12
  <2>14. \A k \in 1 .. n : D[k] = D[k - 1] \o seqs[k]
    <3> SUFFICES ASSUME NEW k \in 1 .. n
                 PROVE  D[k] = D[k - 1] \o seqs[k]
      OBVIOUS
    <3>1. D[k] = c[k]
      BY <1>1
    <3>2. CASE k = 1
      <4>1. D[k - 1] = << >> /\ c[k] = seqs[k]
        BY <1>1, <2>10, <3>2
      <4>2. << >> \o seqs[k] = seqs[k]
        BY <1>1
      <4> QED
        BY <3>1, <4>1, <4>2
    <3>3. CASE k # 1
      <4>1. k - 1 \in 0 .. n /\ k - 1 # 0
        BY <1>1, <3>3
      <4>2. D[k - 1] = c[k - 1]
        BY <4>1
      <4> QED
        BY <2>10, <3>1, <3>3, <4>2
    <3> QED
      BY <3>2, <3>3
  <2> HIDE DEF D
  <2>15. FlattensTo(seqs, V, D)
    BY <2>1, <2>13, <2>14 DEF FlattensTo, n
  <2> QED
    BY <2>15
<1> QED
  BY <1>2, <1>3

LEMMA FlattenTyped ==
  ASSUME NEW V, NEW seqs \in Seq(Seq(V))
  PROVE  FlattenSeq(seqs) \in Seq(V)
<1>1. PICK D : FlattensTo(seqs, V, D)
  BY FlattenSteps
<1>2. Len(seqs) \in 0 .. Len(seqs)
  OBVIOUS
<1> QED
  BY <1>1, <1>2 DEF FlattensTo

\* What the reader is given, and what the writer and the server make.
IsEvents(s) == IsList(s) /\ \A e \in Range(s) : IsEvent(e)

LEMMA EventsAre ==
  ASSUME NEW U, \A e \in U : IsEvent(e), NEW s \in Seq(U)
  PROVE  IsEvents(s)
<1>1. Range(s) \subseteq U
  BY DEF Range
<1>2. s \in Seq(Range(s))
  BY DEF Range
<1> QED
  BY <1>1, <1>2 DEF IsEvents, IsList

LEMMA EventsEach ==
  ASSUME NEW n \in Nat, NEW s, s = [k \in 1 .. n |-> s[k]], \A k \in 1 .. n : IsEvent(s[k])
  PROVE  IsEvents(s)
<1> DEFINE U == {s[k] : k \in 1 .. n}
<1>1. \A k \in 1 .. n : s[k] \in U
  OBVIOUS
<1>2. s \in Seq(U)
  <2> HIDE DEF U
  <2> QED
    BY <1>1
<1>3. \A e \in U : IsEvent(e)
  OBVIOUS
<1> HIDE DEF U
<1> QED
  BY <1>2, <1>3, EventsAre

LEMMA EventsJoin ==
  ASSUME NEW s, IsEvents(s), NEW t, IsEvents(t)
  PROVE  IsEvents(s \o t)
<1> DEFINE U == Range(s) \cup Range(t)
<1>1. s \in Seq(Range(s)) /\ t \in Seq(Range(t))
  BY DEF IsEvents, IsList
<1>2. s \in Seq(U) /\ t \in Seq(U)
  <2>1. Range(s) \subseteq U /\ Range(t) \subseteq U
    OBVIOUS
  <2> HIDE DEF U
  <2> QED
    BY <1>1, <2>1
<1>3. \A e \in U : IsEvent(e)
  BY DEF IsEvents
<1> HIDE DEF U
<1>4. s \o t \in Seq(U)
  BY <1>2
<1> HIDE DEF U
<1> QED
  BY <1>3, <1>4, EventsAre

LEMMA EventsFlatten ==
  ASSUME NEW n \in Nat, NEW seqs, seqs = [k \in 1 .. n |-> seqs[k]], \A k \in 1 .. n : IsEvents(seqs[k])
  PROVE  IsEvents(FlattenSeq(seqs))
<1> DEFINE U == UNION {Range(seqs[k]) : k \in 1 .. n}
<1>1. \A e \in U : IsEvent(e)
  BY DEF IsEvents
<1>2. \A k \in 1 .. n : seqs[k] \in Seq(U)
  <2> SUFFICES ASSUME NEW k \in 1 .. n
               PROVE  seqs[k] \in Seq(U)
    OBVIOUS
  <2>1. seqs[k] \in Seq(Range(seqs[k])) /\ Range(seqs[k]) \subseteq U
    BY DEF IsEvents, IsList
  <2> HIDE DEF U
  <2> QED
    BY <2>1
<1> HIDE DEF U
<1>3. seqs \in Seq(Seq(U))
  BY <1>2
<1> QED
  BY <1>1, <1>3, EventsAre, FlattenTyped

LEMMA TextsAreBlanked == BlankedText
BY SessionAssumption DEF BlankedText, Range

LEMMA ParsedIs ==
  ASSUME NEW s, IsEvents(s), ParseXml(s) # None
  PROVE  ParseXml(s)[1] \in SoundDatas({"osm"})
<1> DEFINE U == Range(s)
<1>1. s \in Seq(U) /\ \A e \in U : IsEvent(e)
  BY DEF IsEvents, IsList
<1> HIDE DEF U
<1> QED
  BY <1>1, TextsAreBlanked, XmlIsSound

----------------------------------------------------------------------------
(* What is written of a set of ids, of a sequence and of a tag map.         *)

\* The ids of a finite set, one after the other.
LEMMA Ordered ==
  ASSUME NEW S \in SUBSET Int, IsFiniteSet(S)
  PROVE  /\ Cardinality(S) \in Nat /\ DOMAIN InOrder(S) = 1 .. Cardinality(S)
         /\ InOrder(S) = [k \in 1 .. Cardinality(S) |-> InOrder(S)[k]]
         /\ \A k \in 1 .. Cardinality(S) : InOrder(S)[k] \in S
BY InOrderEnumerates, FS_CardinalityType DEF Enumerates

\* What is retained is some of what there was.
LEMMA ChosenTyped ==
  ASSUME NEW V, NEW s \in Seq(V), NEW at \in SUBSET DOMAIN s
  PROVE  Chosen(s, at) \in Seq({s[k] : k \in at})
<1> DEFINE o == InOrder(at)
           n == Cardinality(at)
           W == {s[k] : k \in at}
<1>1. at \in SUBSET Int /\ IsFiniteSet(at)
  <2>1. DOMAIN s = 1 .. Len(s) /\ Len(s) \in Nat
    OBVIOUS
  <2>2. IsFiniteSet(1 .. Len(s))
    BY <2>1, FS_Interval
  <2> QED
    BY <2>1, <2>2, FS_Subset
<1>2. n \in Nat /\ DOMAIN o = 1 .. n /\ \A k \in 1 .. n : o[k] \in at
  BY <1>1, Ordered
<1>3. Chosen(s, at) = [k \in DOMAIN o |-> s[o[k]]]
  BY Zenon DEF Chosen
<1> HIDE DEF o, n
<1>4. \A k \in 1 .. n : s[o[k]] \in W
  BY <1>2
<1> HIDE DEF W
<1>5. Chosen(s, at) \in Seq(W)
  BY <1>2, <1>3, <1>4
<1> QED
  BY <1>5 DEF W

LEMMA KeysListed ==
  ASSUME NEW S, IsFiniteSet(S)
  PROVE  /\ Cardinality(S) \in Nat /\ SetToSeq(S) \in [1 .. Cardinality(S) -> S]
         /\ DOMAIN SetToSeq(S) = 1 .. Cardinality(S)
<1> DEFINE n == Cardinality(S)
<1>1. n \in Nat
  BY FS_CardinalityType
<1>2. IsFiniteSet(1 .. n) /\ Cardinality(1 .. n) = n
  BY <1>1, FS_Interval
<1>3. ExistsBijection(1 .. n, S)
  BY <1>2, FS_SameCardinalityBij
<1>4. PICK f \in [1 .. n -> S] : IsInjective(f)
  BY <1>3 DEF ExistsBijection, Bijection, Injection, IsInjective
<1>5. SetToSeq(S) \in [1 .. n -> S]
  BY <1>4 DEF SetToSeq
<1> QED
  BY <1>1, <1>5

----------------------------------------------------------------------------
(* Elements.                                                                *)

IsAttrs(a) ==
  \A key \in DOMAIN a : (key \in IntAttrs => a[key] \in Int) /\ (key \in TextAttrs => a[key] \in Strings)

LEMMA TagsAreEvents ==
  ASSUME NEW tag, NEW attrs, IsAttrs(attrs)
  PROVE  IsEvent(StartOf(tag, attrs)) /\ IsEvent(EmptyTag(tag, attrs)) /\ IsEvent(EndOf(tag))
<1>1. ASSUME NEW on \in {"start", "empty", "end"}, NEW a, IsAttrs(a)
      PROVE  IsEvent([on |-> on, tag |-> tag, attrs |-> a])
  <2> DEFINE e == [on |-> on, tag |-> tag, attrs |-> a]
  <2>1. e.on \in {"start", "empty", "end", "error"} /\ e.attrs = a
    OBVIOUS
  <2> HIDE DEF e
  <2>2. IsEvent(e)
    BY <1>1, <2>1, Zenon DEF IsEvent, IsAttrs
  <2> QED
    BY <2>2 DEF e
<1>2. IsAttrs(NoTags)
  BY NoTagsTyped DEF IsAttrs
<1> QED
  BY <1>1, <1>2 DEF StartOf, EmptyTag, EndOf

LEMMA ElementIs ==
  ASSUME NEW tag, NEW attrs, IsAttrs(attrs), NEW content, IsEvents(content)
  PROVE  IsEvents(Element(tag, attrs, content))
<1>1. IsEvent(StartOf(tag, attrs)) /\ IsEvent(EndOf(tag))
  BY TagsAreEvents
<1>2. ASSUME NEW e, IsEvent(e)
      PROVE  IsEvents(<<e>>)
  <2>1. <<e>> \in Seq({e})
    OBVIOUS
  <2> QED
    BY <1>2, <2>1, EventsAre
<1>3. IsEvents(<<StartOf(tag, attrs)>>) /\ IsEvents(<<EndOf(tag)>>)
  BY <1>1, <1>2
<1>4. IsEvents(<<StartOf(tag, attrs)>> \o content)
  BY <1>3, EventsJoin
<1>5. IsEvents((<<StartOf(tag, attrs)>> \o content) \o <<EndOf(tag)>>)
  BY <1>3, <1>4, EventsJoin
<1> QED
  BY <1>5 DEF Element

LEMMA TagsWritten ==
  ASSUME NEW tags \in TagMaps
  PROVE  IsEvents(WriteTags(tags))
<1> DEFINE keys == SetToSeq(DOMAIN tags)
           n == Cardinality(DOMAIN tags)
           s == WriteTags(tags)
<1>1. DOMAIN tags \in SUBSET Strings /\ IsFiniteSet(DOMAIN tags) /\ tags \in [DOMAIN tags -> Strings]
  BY TagMapIs
<1>2. n \in Nat /\ keys \in [1 .. n -> DOMAIN tags] /\ DOMAIN keys = 1 .. n
  BY <1>1, KeysListed
<1>3. s = [k \in DOMAIN keys |-> EmptyTag("tag", [k |-> keys[k], v |-> tags[keys[k]]])]
  BY Zenon DEF WriteTags
<1> HIDE DEF keys, n, s
<1>4. \A k \in 1 .. n : keys[k] \in Strings /\ tags[keys[k]] \in Strings
  BY <1>1, <1>2
<1>5. \A a, b \in Strings : IsAttrs([k |-> a, v |-> b])
  BY DEF IsAttrs, IntAttrs, TextAttrs
<1>6. \A k \in 1 .. n : IsEvent(EmptyTag("tag", [k |-> keys[k], v |-> tags[keys[k]]]))
  BY <1>4, <1>5, TagsAreEvents
<1>7. s = [k \in 1 .. n |-> s[k]] /\ \A k \in 1 .. n : s[k] = EmptyTag("tag", [k |-> keys[k], v |-> tags[keys[k]]])
  BY <1>2, <1>3
<1>8. IsEvents(s)
  BY <1>2, <1>6, <1>7, EventsEach
<1> QED
  BY <1>8 DEF s

LEMMA AttrsAre ==
  /\ \A id \in Int : \A p : p.lat \in Int /\ p.lon \in Int => IsAttrs(NodeAttrs(id, p))
  /\ \A id \in Int : IsAttrs([id |-> id]) /\ IsAttrs([ref |-> id])
<1>1. \A a, b, c \in Int : IsAttrs([id |-> a, lat |-> b, lon |-> c])
  BY DEF IsAttrs, IntAttrs, TextAttrs
<1>2. \A id \in Int : IsAttrs([id |-> id])
  BY DEF IsAttrs, IntAttrs, TextAttrs
<1>3. \A id \in Int : IsAttrs([ref |-> id])
  BY DEF IsAttrs, IntAttrs, TextAttrs
<1> QED
  BY <1>1, <1>2, <1>3 DEF NodeAttrs

\* The references of a way.
LEMMA RefsWritten ==
  ASSUME NEW refs \in Seq(Int)
  PROVE  IsEvents([k \in DOMAIN refs |-> EmptyTag("nd", [ref |-> refs[k]])])
<1> DEFINE n == Len(refs)
           s == [k \in DOMAIN refs |-> EmptyTag("nd", [ref |-> refs[k]])]
<1>1. n \in Nat /\ DOMAIN refs = 1 .. n /\ \A k \in 1 .. n : refs[k] \in Int
  OBVIOUS
<1>2. \A k \in 1 .. n : IsEvent(EmptyTag("nd", [ref |-> refs[k]]))
  BY <1>1, AttrsAre, TagsAreEvents
<1>3. s = [k \in 1 .. n |-> s[k]] /\ \A k \in 1 .. n : s[k] = EmptyTag("nd", [ref |-> refs[k]])
  BY <1>1
<1> HIDE DEF s, n
<1>4. IsEvents(s)
  BY <1>1, <1>2, <1>3, EventsEach
<1> QED
  BY <1>4 DEF s

----------------------------------------------------------------------------
(* The answer of the server.                                                *)

LEMMA WayIs ==
  ASSUME NEW w, IsWay(w)
  PROVE  w \in Ways
<1>1. w = Way(w.id, w.tags, w.refs) /\ w.id \in Int /\ IsTags(w.tags) /\ w.refs \in Seq(Int)
  BY DEF IsWay
<1>2. w.tags \in TagMaps
  BY <1>1, IsTagsTyped
<1> QED
  BY <1>1, <1>2 DEF Way, Ways

LEMMA WorldTyped ==
  /\ DOMAIN World.nodes \in SUBSET Int /\ IsFiniteSet(DOMAIN World.nodes)
  /\ \A id \in DOMAIN World.nodes :
        /\ World.nodes[id].lat \in Int /\ World.nodes[id].lon \in Int
        /\ World.nodes[id].tags \in TagMaps
  /\ World.ways \in Seq(Range(World.ways))
  /\ \A w \in Range(World.ways) : w \in Ways /\ Range(w.refs) \subseteq DOMAIN World.nodes
<1>1. \A n \in Range(World.nodes) : n.lat \in Int /\ n.lon \in Int
  BY SessionAssumption DEF At, Point, Points
<1>2. \A n \in Range(World.nodes) : n.tags \in TagMaps
  BY SessionAssumption, IsTagsTyped
<1>3. \A id \in DOMAIN World.nodes : World.nodes[id] \in Range(World.nodes)
  BY DEF Range
<1> QED
  BY <1>1, <1>2, <1>3, WayIs, SessionAssumption DEF IsList

\* Nodes that are known, with their tags or without.
LEMMA NodesAnswered ==
  ASSUME NEW ids \in SUBSET DOMAIN World.nodes
  PROVE  LET body == InOrder(ids)
         IN  /\ IsEvents([k \in DOMAIN body |-> EmptyTag("node", NodeAttrs(body[k], World.nodes[body[k]]))])
             /\ IsEvents(FlattenSeq([k \in DOMAIN body |->
                  Element("node", NodeAttrs(body[k], World.nodes[body[k]]),
                          WriteTags(World.nodes[body[k]].tags))]))
<1> DEFINE body == InOrder(ids)
           n == Cardinality(ids)
           s == [k \in DOMAIN body |-> EmptyTag("node", NodeAttrs(body[k], World.nodes[body[k]]))]
           t == [k \in DOMAIN body |-> Element("node", NodeAttrs(body[k], World.nodes[body[k]]),
                                               WriteTags(World.nodes[body[k]].tags))]
<1>1. ids \in SUBSET Int /\ IsFiniteSet(ids)
  BY WorldTyped, FS_Subset
<1>2. n \in Nat /\ DOMAIN body = 1 .. n /\ \A k \in 1 .. n : body[k] \in DOMAIN World.nodes /\ body[k] \in Int
  BY <1>1, Ordered
<1> HIDE DEF body, n
<1>3. ASSUME NEW k \in 1 .. n
      PROVE  /\ IsEvent(EmptyTag("node", NodeAttrs(body[k], World.nodes[body[k]])))
             /\ IsEvents(Element("node", NodeAttrs(body[k], World.nodes[body[k]]),
                                 WriteTags(World.nodes[body[k]].tags)))
  <2> DEFINE a == NodeAttrs(body[k], World.nodes[body[k]])
             c == WriteTags(World.nodes[body[k]].tags)
  <2>1. IsAttrs(a)
    BY <1>2, WorldTyped, AttrsAre
  <2>2. IsEvents(c)
    BY <1>2, WorldTyped, TagsWritten
  <2> HIDE DEF a, c
  <2>3. IsEvent(EmptyTag("node", a)) /\ IsEvents(Element("node", a, c))
    BY <2>1, <2>2, TagsAreEvents, ElementIs
  <2> QED
    BY <2>3 DEF a, c
<1>4. /\ s = [k \in 1 .. n |-> s[k]]
      /\ \A k \in 1 .. n : s[k] = EmptyTag("node", NodeAttrs(body[k], World.nodes[body[k]]))
  BY <1>2
<1>5. /\ t = [k \in 1 .. n |-> t[k]]
      /\ \A k \in 1 .. n : t[k] = Element("node", NodeAttrs(body[k], World.nodes[body[k]]),
                                          WriteTags(World.nodes[body[k]].tags))
  BY <1>2
<1> HIDE DEF s, t
<1>6. IsEvents(s)
  BY <1>2, <1>3, <1>4, EventsEach
<1>7. IsEvents(FlattenSeq(t))
  BY <1>2, <1>3, <1>5, EventsFlatten
<1> QED
  BY <1>6, <1>7 DEF s, t, body

\* Events among which no node begins.
Opens(e) == e.on = "start" /\ e.tag = "node"
IsQuiet(s) == IsEvents(s) /\ \A e \in Range(s) : ~ Opens(e)

LEMMA QuietAre ==
  ASSUME NEW U, \A e \in U : IsEvent(e) /\ ~ Opens(e), NEW s \in Seq(U)
  PROVE  IsQuiet(s)
<1>1. IsEvents(s)
  BY EventsAre
<1>2. Range(s) \subseteq U
  BY DEF Range
<1> QED
  BY <1>1, <1>2 DEF IsQuiet

LEMMA QuietEach ==
  ASSUME NEW n \in Nat, NEW s, s = [k \in 1 .. n |-> s[k]],
         \A k \in 1 .. n : IsEvent(s[k]) /\ ~ Opens(s[k])
  PROVE  IsQuiet(s)
<1>1. IsEvents(s)
  BY EventsEach
<1>2. Range(s) = {s[k] : k \in 1 .. n}
  BY DEF Range
<1> QED
  BY <1>1, <1>2 DEF IsQuiet

LEMMA QuietJoin ==
  ASSUME NEW s, IsQuiet(s), NEW t, IsQuiet(t)
  PROVE  IsQuiet(s \o t)
<1> DEFINE U == Range(s) \cup Range(t)
<1>1. s \in Seq(Range(s)) /\ t \in Seq(Range(t))
  BY DEF IsQuiet, IsEvents, IsList
<1>2. s \in Seq(U) /\ t \in Seq(U)
  <2>1. Range(s) \subseteq U /\ Range(t) \subseteq U
    OBVIOUS
  <2> HIDE DEF U
  <2> QED
    BY <1>1, <2>1
<1>3. \A e \in U : IsEvent(e) /\ ~ Opens(e)
  BY DEF IsQuiet, IsEvents
<1> HIDE DEF U
<1>4. s \o t \in Seq(U)
  BY <1>2
<1> QED
  BY <1>3, <1>4, QuietAre

LEMMA QuietFlatten ==
  ASSUME NEW n \in Nat, NEW seqs, seqs = [k \in 1 .. n |-> seqs[k]], \A k \in 1 .. n : IsQuiet(seqs[k])
  PROVE  IsQuiet(FlattenSeq(seqs))
<1> DEFINE U == UNION {Range(seqs[k]) : k \in 1 .. n}
<1>1. \A e \in U : IsEvent(e) /\ ~ Opens(e)
  BY DEF IsQuiet, IsEvents
<1>2. \A k \in 1 .. n : seqs[k] \in Seq(U)
  <2> SUFFICES ASSUME NEW k \in 1 .. n
               PROVE  seqs[k] \in Seq(U)
    OBVIOUS
  <2>1. seqs[k] \in Seq(Range(seqs[k])) /\ Range(seqs[k]) \subseteq U
    BY DEF IsQuiet, IsEvents, IsList
  <2> HIDE DEF U
  <2> QED
    BY <2>1
<1> HIDE DEF U
<1>3. seqs \in Seq(Seq(U))
  BY <1>2
<1> QED
  BY <1>1, <1>3, QuietAre, FlattenTyped

LEMMA QuietTags ==
  /\ \A tag, attrs : ~ Opens(EmptyTag(tag, attrs)) /\ ~ Opens(EndOf(tag))
  /\ \A attrs : ~ Opens(StartOf("way", attrs)) /\ ~ Opens(StartOf("relation", attrs))
BY DEF Opens, EmptyTag, EndOf, StartOf

LEMMA QuietWay ==
  ASSUME NEW w \in Ways
  PROVE  IsQuiet(Element("way", [id |-> w.id],
                         [j \in DOMAIN w.refs |-> EmptyTag("nd", [ref |-> w.refs[j]])] \o WriteTags(w.tags)))
<1> DEFINE R == [j \in DOMAIN w.refs |-> EmptyTag("nd", [ref |-> w.refs[j]])]
           T == WriteTags(w.tags)
           a == StartOf("way", [id |-> w.id])
           b == EndOf("way")
<1>1. w.id \in Int /\ w.refs \in Seq(Int) /\ w.tags \in TagMaps
  BY DEF Ways
<1>2. IsQuiet(R)
  <2>1. IsEvents(R)
    BY <1>1, RefsWritten
  <2>2. \A j \in DOMAIN R : R[j] = EmptyTag("nd", [ref |-> w.refs[j]])
    OBVIOUS
  <2> HIDE DEF R
  <2> QED
    BY <2>1, <2>2, QuietTags DEF IsQuiet, Range
<1>3. IsQuiet(T)
  <2>1. IsEvents(T)
    BY <1>1, TagsWritten
  <2>2. \A j \in DOMAIN T : \E attrs : T[j] = EmptyTag("tag", attrs)
    BY DEF WriteTags
  <2> HIDE DEF T
  <2> QED
    BY <2>1, <2>2, QuietTags DEF IsQuiet, Range
<1>4. IsQuiet(<<a>>) /\ IsQuiet(<<b>>)
  <2>1. IsAttrs([id |-> w.id])
    BY <1>1, AttrsAre
  <2>2. IsEvent(a) /\ IsEvent(b)
    BY <2>1, TagsAreEvents
  <2>3. ~ Opens(a) /\ ~ Opens(b)
    BY QuietTags
  <2> HIDE DEF a, b
  <2>4. <<a>> \in Seq({a}) /\ <<b>> \in Seq({b})
    OBVIOUS
  <2> QED
    BY <2>2, <2>3, <2>4, QuietAre
<1> HIDE DEF R, T, a, b
<1>5. IsQuiet((<<a>> \o (R \o T)) \o <<b>>)
  BY <1>2, <1>3, <1>4, QuietJoin
<1> QED
  BY <1>5 DEF Element, R, T, a, b

\* The answer: the elements asked for, and then no node with tags.
LEMMA AnswerParts ==
  ASSUME NEW query, NEW area, NEW ids,
         ids = {id \in DOMAIN World.nodes :
                  Inside(World.nodes[id], area) /\ Asked(query, "node", World.nodes[id].tags)}
  PROVE  LET body == InOrder(ids)
         IN  \E rest : IsQuiet(rest) /\ Answer(query, area) =
               FlattenSeq([k \in DOMAIN body |-> Element("node", NodeAttrs(body[k], World.nodes[body[k]]),
                                                         WriteTags(World.nodes[body[k]].tags))]) \o rest
<1> DEFINE at == {k \in DOMAIN World.ways : Asked(query, "way", World.ways[k].tags) /\ Touches(World, World.ways[k], area)}
           ways == Chosen(World.ways, at)
           refs == UNION {Range(w.refs) : w \in Range(ways)}
           body == InOrder(ids)
           skel == InOrder(refs)
           A == FlattenSeq([k \in DOMAIN body |-> Element("node", NodeAttrs(body[k], World.nodes[body[k]]),
                                                          WriteTags(World.nodes[body[k]].tags))])
           Content(w) == Element("way", [id |-> w.id],
                          [j \in DOMAIN w.refs |-> EmptyTag("nd", [ref |-> w.refs[j]])] \o WriteTags(w.tags))
           S == [k \in DOMAIN ways |-> Content(ways[k])]
           B == FlattenSeq(S)
           C == [k \in DOMAIN skel |-> EmptyTag("node", NodeAttrs(skel[k], World.nodes[skel[k]]))]
<1>1. Answer(query, area) = A \o B \o C
  BY Zenon DEF Answer, Retain
<1>2. ways \in Seq({World.ways[k] : k \in at})
  BY WorldTyped, ChosenTyped
<1>3. \A k \in at : World.ways[k] \in Range(World.ways)
  BY DEF Range
<1>4. {World.ways[k] : k \in at} \subseteq Ways
  BY <1>3, WorldTyped
<1>5. ways \in Seq(Ways) /\ \A w \in Range(ways) : w \in Range(World.ways)
  <2> HIDE DEF at, ways
  <2> QED
    BY <1>2, <1>3, <1>4 DEF Range
<1>6. refs \subseteq DOMAIN World.nodes
  <2> HIDE DEF ways
  <2> QED
    BY <1>5, WorldTyped
<1>7. IsEvents(A)
  <2>1. ids \in SUBSET DOMAIN World.nodes
    OBVIOUS
  <2> QED
    BY <2>1, NodesAnswered
<1>8. IsQuiet(B)
  <2> HIDE DEF ways, Content
  <2>1. Len(ways) \in Nat /\ DOMAIN ways = 1 .. Len(ways) /\ \A k \in 1 .. Len(ways) : ways[k] \in Ways
    BY <1>5
  <2>2. \A w \in Ways : IsQuiet(Content(w))
    BY QuietWay DEF Content
  <2>3. S = [k \in 1 .. Len(ways) |-> S[k]] /\ \A k \in 1 .. Len(ways) : S[k] = Content(ways[k])
    BY <2>1
  <2> HIDE DEF S
  <2> QED
    BY <2>1, <2>2, <2>3, QuietFlatten
<1>9. IsQuiet(C)
  <2> HIDE DEF refs
  <2>1. IsEvents(C)
    BY <1>6, NodesAnswered
  <2>2. \A k \in DOMAIN C : \E attrs : C[k] = EmptyTag("node", attrs)
    OBVIOUS
  <2> HIDE DEF C
  <2> QED
    BY <2>1, <2>2, QuietTags DEF IsQuiet, Range
<1> HIDE DEF A, B, C
<1>10. IsQuiet(B \o C)
  BY <1>8, <1>9, QuietJoin
<1>11. (A \o B) \o C = A \o (B \o C)
  <2>1. A \in Seq(Range(A)) /\ B \in Seq(Range(B)) /\ C \in Seq(Range(C))
    BY <1>7, <1>8, <1>9 DEF IsQuiet, IsEvents, IsList
  <2> DEFINE x == Range(A)
             y == Range(B)
             z == Range(C)
  <2> HIDE DEF x, y, z
  <2>2. A \in Seq(x \cup y \cup z) /\ B \in Seq(x \cup y \cup z) /\ C \in Seq(x \cup y \cup z)
    BY <2>1 DEF x, y, z
  <2>3. ASSUME NEW W, NEW a \in Seq(W), NEW b \in Seq(W), NEW c \in Seq(W)
        PROVE  (a \o b) \o c = a \o (b \o c)
    OBVIOUS
  <2> DEFINE W == x \cup y \cup z
  <2>4. A \in Seq(W) /\ B \in Seq(W) /\ C \in Seq(W)
    BY <2>2
  <2> HIDE DEF W, x, y, z
  <2> QED
    BY <2>3, <2>4, SMTT(20)
<1>12. Answer(query, area) = A \o (B \o C)
  BY <1>1, <1>11
<1> QED
  BY <1>10, <1>12 DEF A

\* Whatever is asked of whichever box, the answer is a document.
LEMMA AnswerIs ==
  ASSUME NEW query, NEW area
  PROVE  IsEvents(Answer(query, area))
<1>1. PICK ids : ids = {id \in DOMAIN World.nodes :
                          Inside(World.nodes[id], area) /\ Asked(query, "node", World.nodes[id].tags)}
  OBVIOUS
<1> DEFINE body == InOrder(ids)
           A == FlattenSeq([k \in DOMAIN body |-> Element("node", NodeAttrs(body[k], World.nodes[body[k]]),
                                                          WriteTags(World.nodes[body[k]].tags))])
<1>2. PICK rest : IsQuiet(rest) /\ Answer(query, area) = A \o rest
  BY <1>1, AnswerParts
<1>3. IsEvents(A) /\ IsEvents(rest)
  <2>1. ids \in SUBSET DOMAIN World.nodes
    BY <1>1
  <2> QED
    BY <1>2, <2>1, NodesAnswered DEF IsQuiet
<1> HIDE DEF A
<1> QED
  BY <1>2, <1>3, EventsJoin

----------------------------------------------------------------------------
(* What is written is a document.                                           *)

LEMMA BoundsWritten ==
  ASSUME NEW d, d.bounds \in Maybe(Boxes)
  PROVE  IsEvents(WriteBounds(d))
<1> DEFINE bs == d.bounds
           n == Len(bs)
           a(k) == [minlat |-> bs[k].south, minlon |-> bs[k].west, maxlat |-> bs[k].north, maxlon |-> bs[k].east]
           s == WriteBounds(d)
<1>1. n \in Nat /\ DOMAIN bs = 1 .. n /\ \A k \in 1 .. n : bs[k] \in Boxes
  BY DEF Maybe
<1>2. s = [k \in DOMAIN bs |-> EmptyTag("bounds", a(k))]
  BY Zenon DEF WriteBounds
<1>3. \A p, q, r, t \in Int : IsAttrs([minlat |-> p, minlon |-> q, maxlat |-> r, maxlon |-> t])
  BY DEF IsAttrs, IntAttrs, TextAttrs
<1>4. \A k \in 1 .. n : IsAttrs(a(k))
  <2>1. \A k \in 1 .. n : bs[k].south \in Int /\ bs[k].west \in Int /\ bs[k].north \in Int /\ bs[k].east \in Int
    BY <1>1 DEF Boxes
  <2> HIDE DEF n, bs
  <2> QED
    BY <1>3, <2>1
<1> HIDE DEF s, n, a, bs
<1>5. \A k \in 1 .. n : IsEvent(EmptyTag("bounds", a(k)))
  BY <1>4, TagsAreEvents
<1>6. s = [k \in 1 .. n |-> s[k]] /\ \A k \in 1 .. n : s[k] = EmptyTag("bounds", a(k))
  BY <1>1, <1>2
<1>7. IsEvents(s)
  BY <1>1, <1>5, <1>6, EventsEach
<1> QED
  BY <1>7 DEF s

LEMMA StandaloneTyped ==
  ASSUME NEW d \in Datas(FeatureSources)
  PROVE  Standalone(d) \in Seq(PoisOf(FeatureSources))
<1> DEFINE P == PoisOf(FeatureSources)
           n == Len(d.trees)
           trees == [k \in DOMAIN d.trees |-> Poi(d.trees[k], OneTag("natural", "tree"), "osm")]
<1>1. d.tagged \in Seq(P) /\ d.pois \in Seq(P) /\ d.addrs \in Seq(P) /\ d.trees \in Seq(Points)
  BY DEF Datas
<1>2. OneTag("natural", "tree") \in TagMaps
  <2>1. "natural" \in Strings /\ "tree" \in Strings
    BY DEF Strings, Literals
  <2> QED
    BY <2>1, NoTagsTyped, TagMapGrows
<1>3. n \in Nat /\ DOMAIN d.trees = 1 .. n /\ \A k \in 1 .. n : d.trees[k] \in Points
  BY <1>1
<1>4. \A p \in Points : Poi(p, OneTag("natural", "tree"), "osm") \in P
  BY <1>2 DEF Poi, PoisOf, Points, FeatureSources
<1>5. trees \in Seq(P)
  BY <1>3, <1>4
<1> HIDE DEF trees, P
<1>6. d.pois \o d.addrs \o trees \in Seq(P)
  <2>1. d.pois \o d.addrs \in Seq(P)
    BY <1>1
  <2> QED
    BY <1>5, <2>1
<1>7. Standalone(d) = IF d.tagged # << >> THEN d.tagged ELSE d.pois \o d.addrs \o trees
  BY Zenon DEF Standalone, trees
<1>8. Standalone(d) \in Seq(P)
  BY <1>1, <1>6, <1>7
<1> QED
  BY <1>8 DEF P

LEMMA NodesWritten ==
  ASSUME NEW d \in Datas(FeatureSources)
  PROVE  IsEvents(WriteNodes(d))
<1> DEFINE plain == InOrder(DOMAIN d.nodes)
           n == Cardinality(DOMAIN d.nodes)
           tagged == Standalone(d)
           m == Len(tagged)
           ids == FoldLeft(LAMBDA s, p : NextWriterNodeId(s), NodeIds(DOMAIN d.nodes), tagged).ids
           A == [k \in DOMAIN plain |-> EmptyTag("node", NodeAttrs(plain[k], d.nodes[plain[k]]))]
           B == [k \in DOMAIN tagged |->
                  Element("node", NodeAttrs(ids[k], tagged[k]), WriteTags(tagged[k].tags))]
<1>1. DOMAIN d.nodes \in SUBSET Int /\ IsFiniteSet(DOMAIN d.nodes) /\ d.nodes \in [DOMAIN d.nodes -> Points]
  BY DEF Datas, NodeMaps
<1>2. n \in Nat /\ DOMAIN plain = 1 .. n /\ \A k \in 1 .. n : plain[k] \in DOMAIN d.nodes
  BY <1>1, Ordered
<1>3. tagged \in Seq(PoisOf(FeatureSources))
  BY StandaloneTyped
<1>4. ids \in Seq(Int) /\ Len(ids) = m
  <2> HIDE DEF tagged
  <2> QED
    BY <1>1, <1>3, WriterIdsAreFresh
<1>5. WriteNodes(d) = A \o FlattenSeq(B)
  BY Zenon DEF WriteNodes
<1>6. m \in Nat /\ DOMAIN tagged = 1 .. m /\ \A k \in 1 .. m : tagged[k] \in PoisOf(FeatureSources)
  BY <1>3
<1> HIDE DEF plain, tagged, ids, n, m
<1>7. IsEvents(A)
  <2>1. \A k \in 1 .. n : plain[k] \in Int /\ d.nodes[plain[k]] \in Points
    BY <1>1, <1>2
  <2>2. \A k \in 1 .. n : d.nodes[plain[k]].lat \in Int /\ d.nodes[plain[k]].lon \in Int
    BY <2>1 DEF Points
  <2>3. \A k \in 1 .. n : IsEvent(EmptyTag("node", NodeAttrs(plain[k], d.nodes[plain[k]])))
    BY <2>1, <2>2, AttrsAre, TagsAreEvents
  <2>4. A = [k \in 1 .. n |-> A[k]] /\ \A k \in 1 .. n : A[k] = EmptyTag("node", NodeAttrs(plain[k], d.nodes[plain[k]]))
    BY <1>2
  <2> HIDE DEF A
  <2> QED
    BY <1>2, <2>3, <2>4, EventsEach
<1>8. IsEvents(FlattenSeq(B))
  <2>1. \A k \in 1 .. m : ids[k] \in Int
    BY <1>4, <1>6
  <2>2. \A k \in 1 .. m : tagged[k].lat \in Int /\ tagged[k].lon \in Int /\ tagged[k].tags \in TagMaps
    BY <1>6 DEF PoisOf
  <2>3. \A k \in 1 .. m : IsAttrs(NodeAttrs(ids[k], tagged[k])) /\ IsEvents(WriteTags(tagged[k].tags))
    BY <2>1, <2>2, AttrsAre, TagsWritten
  <2>4. \A k \in 1 .. m : IsEvents(Element("node", NodeAttrs(ids[k], tagged[k]), WriteTags(tagged[k].tags)))
    BY <2>3, ElementIs
  <2>5. /\ B = [k \in 1 .. m |-> B[k]]
        /\ \A k \in 1 .. m : B[k] = Element("node", NodeAttrs(ids[k], tagged[k]), WriteTags(tagged[k].tags))
    BY <1>6
  <2> HIDE DEF B
  <2> QED
    BY <1>6, <2>4, <2>5, EventsFlatten
<1> HIDE DEF A, B
<1> QED
  BY <1>5, <1>7, <1>8, EventsJoin

LEMMA WayWritten ==
  ASSUME NEW d \in Datas(FeatureSources), NEW k \in DOMAIN d.ways
  PROVE  IsEvents(WriteWay(d, k))
<1> DEFINE w == d.ways[k]
           refs == Present(d, w.refs)
           id == WrittenWayId(d, k)
           nds == [j \in DOMAIN refs |-> EmptyTag("nd", [ref |-> refs[j]])]
<1>1. w \in Ways /\ k \in Nat
  BY DEF Datas
<1>2. w.id \in Int /\ w.tags \in TagMaps /\ w.refs \in Seq(Int)
  BY <1>1 DEF Ways
<1>3. id \in Int
  BY <1>1, <1>2, BasesAreOrdered DEF WrittenWayId, WriterWayId
<1>4. refs \in Seq(Int)
  <2> DEFINE at == {j \in DOMAIN w.refs : w.refs[j] \in DOMAIN d.nodes}
  <2>1. refs = Chosen(w.refs, at)
    BY Zenon DEF Present, Retain
  <2>2. Chosen(w.refs, at) \in Seq({w.refs[j] : j \in at})
    <3> HIDE DEF w
    <3> QED
      BY <1>2, ChosenTyped
  <2>3. {w.refs[j] : j \in at} \subseteq Int
    BY <1>2
  <2> HIDE DEF refs, at, w
  <2> QED
    BY <2>1, <2>2, <2>3
<1> HIDE DEF refs, id
<1>5. IsEvents(nds) /\ IsEvents(WriteTags(w.tags)) /\ IsAttrs([id |-> id])
  BY <1>2, <1>3, <1>4, RefsWritten, TagsWritten, AttrsAre
<1>6. WriteWay(d, k) = Element("way", [id |-> id], nds \o WriteTags(w.tags))
  BY Zenon DEF WriteWay, id, refs
<1> HIDE DEF nds, w
<1>7. IsEvents(nds \o WriteTags(w.tags))
  BY <1>5, EventsJoin
<1> QED
  BY <1>5, <1>6, <1>7, ElementIs

LEMMA RelationWritten ==
  ASSUME NEW d \in Datas(FeatureSources), NEW k \in DOMAIN d.relations
  PROVE  IsEvents(WriteRelation(d, k))
<1> DEFINE r == d.relations[k]
           members == r.members
           n == Len(members)
           id == WrittenRelationId(d, k)
           a(j) == [type |-> "way", ref |-> members[j].way, role |-> members[j].role]
           s == [j \in DOMAIN members |-> EmptyTag("member", a(j))]
<1>1. r \in Relations /\ k \in Nat
  BY DEF Datas
<1>2. r.id \in Int /\ r.tags \in TagMaps /\ members \in Seq(Members)
  BY <1>1 DEF Relations
<1>3. id \in Int
  BY <1>1, <1>2, BasesAreOrdered DEF WrittenRelationId, WriterRelationId
<1>4. n \in Nat /\ DOMAIN members = 1 .. n
      /\ \A j \in 1 .. n : members[j].way \in Int /\ members[j].role \in Strings
  <2> HIDE DEF members
  <2>1. DOMAIN members = 1 .. n /\ n \in Nat /\ \A j \in 1 .. n : members[j] \in Members
    BY <1>2
  <2> QED
    BY <2>1 DEF Members
<1>5. WriteRelation(d, k) = Element("relation", [id |-> id], s \o WriteTags(r.tags))
  BY Zenon DEF WriteRelation
<1> HIDE DEF id, members, n
<1>6. IsEvents(s)
  <2>1. "way" \in Strings
    BY DEF Strings, Literals
  <2>2. \A t, role \in Strings, ref \in Int : IsAttrs([type |-> t, ref |-> ref, role |-> role])
    BY DEF IsAttrs, IntAttrs, TextAttrs
  <2>3. \A j \in 1 .. n : IsAttrs(a(j))
    BY <1>4, <2>1, <2>2
  <2> HIDE DEF a
  <2>4. \A j \in 1 .. n : IsEvent(EmptyTag("member", a(j)))
    BY <2>3, TagsAreEvents
  <2>5. s = [j \in 1 .. n |-> s[j]] /\ \A j \in 1 .. n : s[j] = EmptyTag("member", a(j))
    BY <1>4
  <2> HIDE DEF s
  <2> QED
    BY <1>4, <2>4, <2>5, EventsEach
<1> HIDE DEF s, r
<1>7. IsEvents(WriteTags(r.tags)) /\ IsAttrs([id |-> id])
  BY <1>2, <1>3, TagsWritten, AttrsAre
<1>8. IsEvents(s \o WriteTags(r.tags))
  BY <1>6, <1>7, EventsJoin
<1> QED
  BY <1>5, <1>7, <1>8, ElementIs

LEMMA WrittenIs ==
  ASSUME NEW d \in Datas(FeatureSources)
  PROVE  IsEvents(WriteXml(d))
<1> DEFINE A == WriteBounds(d)
           B == WriteNodes(d)
           ways == [k \in DOMAIN d.ways |-> WriteWay(d, k)]
           relations == [k \in DOMAIN d.relations |-> WriteRelation(d, k)]
           C == FlattenSeq(ways)
           D == FlattenSeq(relations)
<1>1. /\ d.bounds \in Maybe(Boxes)
      /\ Len(d.ways) \in Nat /\ DOMAIN d.ways = 1 .. Len(d.ways)
      /\ Len(d.relations) \in Nat /\ DOMAIN d.relations = 1 .. Len(d.relations)
  BY DEF Datas
<1>2. IsEvents(A) /\ IsEvents(B)
  BY <1>1, BoundsWritten, NodesWritten
<1>3. IsEvents(C)
  <2>1. ways = [k \in 1 .. Len(d.ways) |-> ways[k]] /\ \A k \in 1 .. Len(d.ways) : IsEvents(ways[k])
    BY <1>1, WayWritten
  <2> HIDE DEF ways
  <2> QED
    BY <1>1, <2>1, EventsFlatten
<1>4. IsEvents(D)
  <2>1. /\ relations = [k \in 1 .. Len(d.relations) |-> relations[k]]
        /\ \A k \in 1 .. Len(d.relations) : IsEvents(relations[k])
    BY <1>1, RelationWritten
  <2> HIDE DEF relations
  <2> QED
    BY <1>1, <2>1, EventsFlatten
<1>5. WriteXml(d) = Element("osm", NoTags, A \o B \o C \o D)
  BY Zenon DEF WriteXml
<1>6. IsAttrs(NoTags)
  BY NoTagsTyped DEF IsAttrs
<1> HIDE DEF A, B, C, D
<1>7. IsEvents(A \o B)
  BY <1>2, EventsJoin
<1>8. IsEvents((A \o B) \o C)
  BY <1>3, <1>7, EventsJoin
<1>9. IsEvents(((A \o B) \o C) \o D)
  BY <1>4, <1>8, EventsJoin
<1> QED
  BY <1>5, <1>6, <1>9, ElementIs

----------------------------------------------------------------------------
(* What is read from a file, and what Overture sends.                       *)

LEMMA FileIs ==
  ASSUME NEW f \in Files, ParseOsmFile(f) # None
  PROVE  ParseOsmFile(f)[1] \in SoundDatas({"osm"})
<1> DEFINE U == Range(f.content)
<1>1. CASE f.ext = "osm"
  <2>1. IsList(f.content) /\ \A e \in Range(f.content) : IsEvent(e)
    BY <1>1, SessionAssumption
  <2>2. ParseOsmFile(f) = ParseXml(f.content)
    BY <1>1 DEF ParseOsmFile
  <2> QED
    BY <2>1, <2>2, ParsedIs DEF IsEvents
<1>2. CASE f.ext = "pbf"
  <2>1. f.content \in Seq(U) /\ \A e \in U : IsElement(e)
    BY <1>2, SessionAssumption DEF IsList
  <2>2. ParseOsmFile(f) = ParsePbf(f.content)
    BY <1>2 DEF ParseOsmFile
  <2> HIDE DEF U
  <2> QED
    BY <2>1, <2>2, PbfIsSound
<1>3. CASE f.ext \notin {"osm", "pbf"}
  BY <1>3 DEF ParseOsmFile
<1> QED
  BY <1>1, <1>2, <1>3

LEMMA CliTypesListed ==
  ASSUME NEW theme \in Range(AllThemes)
  PROVE  CliTypes(theme) \in Seq(Range(CliTypes(theme)))
<1>1. theme \in {"Building", "Transportation", "Place", "Base", "Address"}
  BY DEF Range, AllThemes
<1>2. CASE theme = "Base"
  <2>1. CliTypes(theme) = <<"land", "land_use", "water">>
    BY <1>2 DEF CliTypes
  <2>2. <<"land", "land_use", "water">> \in Seq(Range(<<"land", "land_use", "water">>))
    BY DEF Range
  <2> QED
    BY <2>1, <2>2
<1>3. CASE theme # "Base"
  <2>1. \E type : CliTypes(theme) = <<type>>
    BY <1>1, <1>3 DEF CliTypes
  <2>2. \A type : <<type>> \in Seq(Range(<<type>>))
    BY DEF Range
  <2> QED
    BY <2>1, <2>2
<1> QED
  BY <1>2, <1>3

\* The pairs of a theme and a type that may be asked for.
PairsOf(theme) == {[theme |-> theme, type |-> type] : type \in Range(CliTypes(theme))}
AllPairs == UNION {PairsOf(theme) : theme \in Range(AllThemes)}

LEMMA PairsTyped ==
  ASSUME NEW themes \in Seq(Range(AllThemes))
  PROVE  Pairs(themes) \in Seq(AllPairs)
<1> DEFINE n == Len(themes)
           Each(t) == [k \in DOMAIN CliTypes(themes[t]) |->
                         [theme |-> themes[t], type |-> CliTypes(themes[t])[k]]]
           seqs == [t \in DOMAIN themes |-> Each(t)]
<1>1. n \in Nat /\ DOMAIN themes = 1 .. n /\ \A t \in 1 .. n : themes[t] \in Range(AllThemes)
  OBVIOUS
<1>2. ASSUME NEW t \in 1 .. n
      PROVE  Each(t) \in Seq(AllPairs)
  <2> DEFINE theme == themes[t]
             types == CliTypes(theme)
             m == Len(types)
  <2>1. theme \in Range(AllThemes)
    BY <1>1
  <2>2. types \in Seq(Range(types))
    <3> HIDE DEF theme
    <3> QED
      BY <2>1, CliTypesListed
  <2> HIDE DEF types, theme
  <2>3. m \in Nat /\ DOMAIN types = 1 .. m /\ \A k \in 1 .. m : types[k] \in Range(types)
    BY <2>2
  <2>4. \A k \in 1 .. m : [theme |-> theme, type |-> types[k]] \in AllPairs
    BY <2>1, <2>3 DEF AllPairs, PairsOf, types
  <2> HIDE DEF m
  <2>5. [k \in DOMAIN types |-> [theme |-> theme, type |-> types[k]]] \in Seq(AllPairs)
    BY <2>3, <2>4
  <2> QED
    BY <2>5 DEF types, theme
<1> HIDE DEF Each
<1>3. seqs \in Seq(Seq(AllPairs))
  BY <1>1, <1>2
<1>4. Pairs(themes) = FlattenSeq(seqs)
  BY Zenon DEF Pairs, Each
<1> HIDE DEF seqs
<1> QED
  BY <1>3, <1>4, FlattenTyped

LEMMA DownloadTyped ==
  ASSUME NEW known, NEW wsen, NEW type, NEW U, known[type] \in Seq(U)
  PROVE  Download(known, wsen, type) \in Seq(U)
<1> DEFINE list == known[type]
           area == FromUnchecked(wsen[2], wsen[1], wsen[4], wsen[3])
           at == {k \in DOMAIN list : PositionsOf(list[k]) = {} \/ \E p \in PositionsOf(list[k]) : Inside(p, area)}
<1>1. Download(known, wsen, type) = Chosen(list, at)
  BY Zenon DEF Download, Retain
<1> HIDE DEF area
<1>2. at \in SUBSET DOMAIN list
  OBVIOUS
<1>3. {list[k] : k \in at} \subseteq U
  OBVIOUS
<1> HIDE DEF at
<1>4. Chosen(list, at) \in Seq({list[k] : k \in at})
  <2>1. list \in Seq(U)
    OBVIOUS
  <2> HIDE DEF list
  <2> QED
    BY <1>2, <2>1, ChosenTyped
<1> QED
  BY <1>1, <1>3, <1>4

LEMMA OvertureDataIs ==
  ASSUME NEW known \in Releases, NEW b, NEW themes \in Seq(Range(AllThemes))
  PROVE  OvertureData(known, b, themes) \in SoundDatas({"overture"})
<1> DEFINE U == UNION {UNION {Range(known[type]) : type \in Range(CliTypes(theme))} : theme \in Range(AllThemes)}
           pairs == Pairs(themes)
           n == Len(pairs)
           T == [theme : Range(AllThemes), features : Seq(U)]
           s == [k \in DOMAIN pairs |->
                   [theme |-> pairs[k].theme, features |-> Download(known, Wsen(b), pairs[k].type)]]
<1>1. \A f \in U : IsFeature(f)
  BY SessionAssumption
<1>2. ASSUME NEW theme \in Range(AllThemes), NEW type \in Range(CliTypes(theme))
      PROVE  known[type] \in Seq(U)
  <2>1. known[type] \in Seq(Range(known[type]))
    BY SessionAssumption DEF IsList
  <2>2. Range(known[type]) \subseteq U
    OBVIOUS
  <2> HIDE DEF U
  <2> QED
    BY <2>1, <2>2
<1> HIDE DEF U
<1>3. pairs \in Seq(AllPairs)
  BY PairsTyped
<1>4. n \in Nat /\ DOMAIN pairs = 1 .. n /\ \A k \in 1 .. n : pairs[k] \in AllPairs
  <2> HIDE DEF pairs
  <2> QED
    BY <1>3
<1> HIDE DEF pairs, n
<1>5. ASSUME NEW k \in 1 .. n
      PROVE  [theme |-> pairs[k].theme, features |-> Download(known, Wsen(b), pairs[k].type)] \in T
  <2>1. PICK theme \in Range(AllThemes) : pairs[k] \in PairsOf(theme)
    BY <1>4 DEF AllPairs
  <2>2. pairs[k].theme = theme /\ pairs[k].type \in Range(CliTypes(theme))
    BY <2>1 DEF PairsOf
  <2>3. known[pairs[k].type] \in Seq(U)
    BY <1>2, <2>2
  <2>4. Download(known, Wsen(b), pairs[k].type) \in Seq(U)
    BY <2>3, DownloadTyped
  <2> QED
    BY <2>2, <2>4
<1>6. s \in Seq(T)
  <2> HIDE DEF T
  <2> QED
    BY <1>4, <1>5
<1>7. OvertureData(known, b, themes) = ParseThemes(s)
  BY Zenon DEF OvertureData, pairs
<1> HIDE DEF s
<1> QED
  BY <1>1, <1>6, <1>7, OvertureIsSound

----------------------------------------------------------------------------
(* Data of more sources, and merge_source_data.                             *)

LEMMA MoreSources ==
  ASSUME NEW a, NEW b, a \subseteq b
  PROVE  /\ PoisOf(a) \subseteq PoisOf(b) /\ Datas(a) \subseteq Datas(b)
         /\ SoundDatas(a) \subseteq SoundDatas(b)
<1>1. PoisOf(a) \subseteq PoisOf(b)
  BY DEF PoisOf
<1>2. Seq(PoisOf(a)) \subseteq Seq(PoisOf(b))
  BY <1>1
<1>3. Datas(a) \subseteq Datas(b)
  BY <1>2 DEF Datas
<1> QED
  BY <1>1, <1>3 DEF SoundDatas

LEMMA SourcesAre ==
  /\ SoundDatas({"osm"}) \subseteq SoundDatas(FeatureSources)
  /\ SoundDatas({"overture"}) \subseteq SoundDatas(FeatureSources)
<1>1. {"osm"} \subseteq FeatureSources /\ {"overture"} \subseteq FeatureSources
  BY DEF FeatureSources
<1> QED
  BY <1>1, MoreSources

LEMMA WithPoisSound ==
  ASSUME NEW src, NEW d \in SoundDatas(src), NEW pois \in Seq(PoisOf(src))
  PROVE  WithPois(d, pois) \in SoundDatas(src) /\ WithPois(d, pois).pois = pois
<1> DEFINE e == [d EXCEPT !.pois = pois]
<1>1. d \in Datas(src)
  BY DEF SoundDatas
<1>2. e \in Datas(src) /\ e.ways = d.ways /\ e.index = d.index /\ e.pois = pois
  BY <1>1 DEF Datas
<1> HIDE DEF e
<1>3. e \in SoundDatas(src)
  BY <1>2, OtherParts
<1> QED
  BY <1>2, <1>3 DEF e, WithPois

LEMMA PoisAre ==
  ASSUME NEW src, NEW d \in SoundDatas(src)
  PROVE  d.pois \in Seq(PoisOf(src))
BY DEF SoundDatas, Datas

LEMMA EmptyJoin ==
  ASSUME NEW V, NEW s \in Seq(V)
  PROVE  s \o << >> = s /\ << >> \o s = s /\ << >> \in Seq(V)
OBVIOUS

\* What a SourceFetchResult says of its two sources.
Outcome(r, ours, theirs, mode) ==
  /\ r.data \in SoundDatas(FeatureSources) /\ r.status \in SourceStatus
  /\ r.status \in {"OsmOnly", "OvertureFallbackToOsm"} => r.data.pois = ours.pois
  /\ r.status = "OvertureFallbackToOsm" =>
        /\ r.warnings # {}
        /\ mode = "Both" \/ theirs = None \/ theirs[1].pois = << >>
  /\ r.status = "OvertureOnly" =>
        r.data.pois = IF theirs = None THEN << >> ELSE theirs[1].pois
  /\ r.status \in {"Both", "OverturePreferred"} =>
        /\ theirs # None
        /\ r.data.pois = DedupePoisWithOverturePreference(ours.pois \o theirs[1].pois)
        /\ r.status = "OverturePreferred" => theirs[1].pois # << >>

LEMMA OutcomeWarned ==
  ASSUME NEW r, NEW ours, NEW theirs, NEW mode, Outcome(r, ours, theirs, mode), NEW more
  PROVE  Outcome(Result(r.data, r.status, r.warnings \cup more), ours, theirs, mode)
BY DEF Outcome, Result

LEMMA MergeRestSound ==
  ASSUME NEW d \in SoundDatas(FeatureSources), NEW o \in SoundDatas({"overture"})
  PROVE  MergeRest(d, o) \in SoundDatas(FeatureSources) /\ MergeRest(d, o).pois = d.pois
<1> DEFINE e == WithPois(o, << >>)
<1>1. e \in SoundDatas({"overture"}) /\ e.pois = << >>
  <2>1. << >> \in Seq(PoisOf({"overture"}))
    OBVIOUS
  <2> QED
    BY <2>1, WithPoisSound
<1> HIDE DEF e
<1>2. e \in Datas(FeatureSources)
  BY <1>1, SourcesAre DEF SoundDatas
<1>3. Merge(d, e) \in SoundDatas(FeatureSources) /\ Merge(d, e).pois = d.pois \o e.pois
  BY <1>2, MergeKeepsIndex
<1>4. d.pois \in Seq(PoisOf(FeatureSources))
  BY PoisAre
<1>5. Merge(d, e).pois = d.pois
  BY <1>1, <1>3, <1>4, EmptyJoin
<1> QED
  BY <1>3, <1>5 DEF MergeRest, e

LEMMA JoinedPois ==
  ASSUME NEW ours \in SoundDatas({"osm"}), NEW o \in SoundDatas({"overture"})
  PROVE  /\ ours.pois \o o.pois \in Seq(PoisOf({"osm", "overture"}))
         /\ ours.pois \o o.pois \in Seq(PoisOf(FeatureSources))
         /\ Range(o.pois) \subseteq Range(ours.pois \o o.pois)
<1>1. {"osm"} \subseteq {"osm", "overture"} /\ {"overture"} \subseteq {"osm", "overture"}
  OBVIOUS
<1>2. {"osm", "overture"} \subseteq FeatureSources
  BY DEF FeatureSources
<1>3. ours \in SoundDatas({"osm", "overture"}) /\ o \in SoundDatas({"osm", "overture"})
  BY <1>1, MoreSources
<1>4. PoisOf({"osm", "overture"}) \subseteq PoisOf(FeatureSources)
  BY <1>2, MoreSources
<1> DEFINE V == PoisOf({"osm", "overture"})
           a == ours.pois
           b == o.pois
<1>5. a \in Seq(V) /\ b \in Seq(V)
  BY <1>3, PoisAre
<1> HIDE DEF V, a, b
<1>6. a \o b \in Seq(V) /\ \A k \in 1 .. Len(b) : (a \o b)[Len(a) + k] = b[k]
  BY <1>5, Concat
<1>7. Range(b) \subseteq Range(a \o b)
  <2> SUFFICES ASSUME NEW k \in DOMAIN b
               PROVE  b[k] \in Range(a \o b)
    BY DEF Range
  <2>1. k \in 1 .. Len(b) /\ Len(a) + k \in DOMAIN (a \o b)
    BY <1>5
  <2> QED
    BY <1>6, <2>1 DEF Range
<1>8. Seq(V) \subseteq Seq(PoisOf(FeatureSources))
  BY <1>4 DEF V
<1> QED
  BY <1>6, <1>7, <1>8 DEF V, a, b

LEMMA MergeBothSound ==
  ASSUME NEW ours \in SoundDatas({"osm"}), NEW o \in SoundDatas({"overture"})
  PROVE  /\ MergeBoth(ours, o) \in SoundDatas(FeatureSources)
         /\ MergeBoth(ours, o).pois = DedupePoisWithOverturePreference(ours.pois \o o.pois)
<1> DEFINE all == ours.pois \o o.pois
           kept == DedupePoisWithOverturePreference(all)
           rest == MergeRest(ours, o)
<1>1. all \in Seq(PoisOf(FeatureSources))
  BY JoinedPois
<1> HIDE DEF all
<1>2. kept \in Seq(PoisOf(FeatureSources))
  BY <1>1, DedupeIsSound
<1>3. ours \in SoundDatas(FeatureSources)
  BY SourcesAre
<1>4. rest \in SoundDatas(FeatureSources)
  BY <1>3, MergeRestSound
<1> HIDE DEF kept, rest
<1>5. WithPois(rest, kept) \in SoundDatas(FeatureSources) /\ WithPois(rest, kept).pois = kept
  BY <1>2, <1>4, WithPoisSound
<1>6. MergeBoth(ours, o) = WithPois(rest, kept)
  BY Zenon DEF MergeBoth, rest, kept, all
<1> QED
  BY <1>5, <1>6 DEF kept, all

LEMMA MergedIs ==
  ASSUME NEW ours \in SoundDatas({"osm"}), NEW theirs \in Maybe(SoundDatas({"overture"})),
         NEW mode \in PoiSourceMode
  PROVE  Outcome(MergeSourceData(ours, theirs, mode), ours, theirs, mode)
<1> DEFINE r == MergeSourceData(ours, theirs, mode)
           D == SoundDatas(FeatureSources)
<1>1. ours \in D
  BY SourcesAre
<1>2. CASE theirs = None
  <2>1. WithPois(ours, << >>) \in D /\ WithPois(ours, << >>).pois = << >>
    <3>1. << >> \in Seq(PoisOf(FeatureSources))
      OBVIOUS
    <3> QED
      BY <1>1, <3>1, WithPoisSound
  <2>2. CASE mode = "OsmOnly"
    <3>1. r = Result(ours, "OsmOnly", {})
      BY <1>2, <2>2 DEF MergeSourceData
    <3> QED
      BY <1>1, <3>1 DEF Outcome, Result, SourceStatus, PoiSourceMode
  <2>3. CASE mode = "OvertureOnly"
    <3>1. r = Result(WithPois(ours, << >>), "OvertureOnly", {"unavailable"})
      BY <1>2, <2>3 DEF MergeSourceData
    <3> QED
      BY <1>2, <2>1, <3>1 DEF Outcome, Result, SourceStatus, PoiSourceMode
  <2>4. CASE mode \in {"Both", "OverturePreferred"}
    <3>1. r = Result(ours, "OvertureFallbackToOsm", {"unavailable"})
      BY <1>2, <2>4 DEF MergeSourceData
    <3> QED
      BY <1>1, <1>2, <3>1 DEF Outcome, Result, SourceStatus, PoiSourceMode
  <2> QED
    BY <2>2, <2>3, <2>4 DEF PoiSourceMode
<1>3. CASE theirs # None
  <2> DEFINE o == theirs[1]
  <2>1. o \in SoundDatas({"overture"})
    BY <1>3 DEF Maybe, None
  <2>2. o.pois \in Seq(PoisOf(FeatureSources))
    BY <2>1, SourcesAre, PoisAre
  <2> HIDE DEF o
  <2>3. MergeRest(ours, o) \in D /\ MergeRest(ours, o).pois = ours.pois
    BY <1>1, <2>1, MergeRestSound
  <2>4. MergeBoth(ours, o) \in D /\ MergeBoth(ours, o).pois = DedupePoisWithOverturePreference(ours.pois \o o.pois)
    BY <2>1, MergeBothSound
  <2>5. CASE mode = "OsmOnly"
    <3>1. r = Result(MergeRest(ours, o), "OsmOnly", {})
      BY <1>3, <2>5 DEF MergeSourceData, o
    <3> QED
      BY <2>3, <3>1 DEF Outcome, Result, SourceStatus, PoiSourceMode
  <2>6. CASE mode = "OvertureOnly"
    <3> DEFINE d == WithPois(ours, o.pois)
    <3>1. d \in D /\ d.pois = o.pois
      BY <1>1, <2>2, WithPoisSound
    <3> HIDE DEF d
    <3>2. MergeRest(d, o) \in D /\ MergeRest(d, o).pois = o.pois
      BY <2>1, <3>1, MergeRestSound
    <3>3. r = Result(MergeRest(d, o), "OvertureOnly", {})
      BY <1>3, <2>6 DEF MergeSourceData, o, d
    <3> QED
      BY <1>3, <3>2, <3>3 DEF Outcome, Result, SourceStatus, PoiSourceMode, o
  <2>7. CASE mode = "Both"
    <3>1. r = Result(MergeBoth(ours, o), "Both", {})
      BY <1>3, <2>7 DEF MergeSourceData, o
    <3> QED
      BY <1>3, <2>4, <3>1 DEF Outcome, Result, SourceStatus, PoiSourceMode, o
  <2>8. CASE mode = "OverturePreferred" /\ o.pois # << >>
    <3>1. r = Result(MergeBoth(ours, o), "OverturePreferred", {})
      BY <1>3, <2>8 DEF MergeSourceData, o
    <3> QED
      BY <1>3, <2>4, <2>8, <3>1 DEF Outcome, Result, SourceStatus, PoiSourceMode, o
  <2>9. CASE mode = "OverturePreferred" /\ o.pois = << >>
    <3>1. r = Result(MergeRest(ours, o), "OvertureFallbackToOsm", {"no pois"})
      BY <1>3, <2>9 DEF MergeSourceData, o
    <3> DEFINE m == MergeRest(ours, o)
    <3> HIDE DEF r, m
    <3>2. r.data = m /\ r.status = "OvertureFallbackToOsm" /\ r.warnings = {"no pois"}
      BY <3>1 DEF Result, m
    <3>3. theirs[1].pois = << >> /\ m \in D /\ m.pois = ours.pois /\ r.warnings # {}
      BY <2>3, <2>9, <3>2 DEF o, m
    <3>4. r.status \in SourceStatus
      BY <3>2 DEF SourceStatus
    <3> HIDE DEF D
    <3>5. Outcome(r, ours, theirs, mode)
      BY <3>2, <3>3, <3>4 DEF Outcome, D
    <3> QED
      BY <3>5 DEF r
  <2> QED
    BY <2>5, <2>6, <2>7, <2>8, <2>9 DEF PoiSourceMode
<1> QED
  BY <1>2, <1>3

----------------------------------------------------------------------------
(* What settings that parse become.                                         *)

LEMMA CollectedEach ==
  ASSUME NEW parsed, Collected(parsed) # None
  PROVE  /\ \A k \in DOMAIN parsed : parsed[k] # None
         /\ Collected(parsed)[1] = [k \in DOMAIN parsed |-> parsed[k][1]]
<1>1. \A k \in DOMAIN parsed : parsed[k] # None
  BY DEF Collected
<1>2. Collected(parsed) = Some([k \in DOMAIN parsed |-> parsed[k][1]])
  BY <1>1, Zenon DEF Collected
<1> QED
  BY <1>1, <1>2 DEF Some

LEMMA ModesParse ==
  ASSUME NEW text
  PROVE  /\ ParsePoiSourceMode(text) # None => ParsePoiSourceMode(text)[1] \in PoiSourceMode
         /\ ParseOvertureFailureMode(text) # None => ParseOvertureFailureMode(text)[1] \in OvertureFailureMode
<1>1. ParsePoiSourceMode(text) # None => ParsePoiSourceMode(text)[1] \in PoiSourceMode
  <2> DEFINE m == Hyphened[Lower[text]]
  <2> HIDE DEF m
  <2> QED
    BY DEF ParsePoiSourceMode, m, Some, None, PoiSourceMode
<1>2. ParseOvertureFailureMode(text) # None => ParseOvertureFailureMode(text)[1] \in OvertureFailureMode
  BY DEF ParseOvertureFailureMode, Some, None, OvertureFailureMode
<1> QED
  BY <1>1, <1>2

LEMMA ThemeParses ==
  ASSUME NEW text, ParseTheme(text) # None
  PROVE  ParseTheme(text)[1] \in Range(AllThemes)
<1> DEFINE t == Trimmed[text]
           kinds == {"Address", "Building", "Transportation", "Place", "Base"}
<1>1. kinds \subseteq Range(AllThemes)
  <2>1. AllThemes \in Seq(Range(AllThemes)) /\ \A k \in 1 .. 5 : AllThemes[k] \in Range(AllThemes)
    BY DEF AllThemes, Range
  <2>2. \A kind \in kinds : \E k \in 1 .. 5 : AllThemes[k] = kind
    BY DEF AllThemes
  <2> HIDE DEF kinds
  <2> QED
    BY <2>1, <2>2
<1>2. FromStrLoose(t) = None \/ \E k \in kinds : FromStrLoose(t) = Some(k)
  <2> DEFINE Named(words) == Lower[t] \in words \cup {word \o "s" : word \in words}
             a == Lower[t] \in {"address", "addresses", "addr"}
             b == Named({"building"})
             c == Named({"transportation", "transport", "road", "segment"})
             p == Named({"place"})
             q == Named({"base", "land", "land_use", "landuse", "water"})
  <2>1. FromStrLoose(t) = CASE a -> Some("Address") [] b -> Some("Building") [] c -> Some("Transportation")
                            [] p -> Some("Place") [] q -> Some("Base") [] OTHER -> None
    BY Zenon DEF FromStrLoose
  <2> HIDE DEF a, b, c, p, q
  <2>2. FromStrLoose(t) \in {Some("Address"), Some("Building"), Some("Transportation"), Some("Place"), Some("Base"), None}
    BY <2>1
  <2> QED
    BY <2>2
<1>3. ParseTheme(text) = FromStrLoose(t)
  BY DEF ParseTheme
<1> HIDE DEF t, kinds
<1> QED
  BY <1>1, <1>2, <1>3 DEF Some

LEMMA ThemesListed == AllThemes \in Seq(Range(AllThemes))
BY DEF AllThemes, Range

LEMMA ThemesParse ==
  ASSUME NEW pieces \in Seq(STRING), ParseOvertureThemes(pieces) # None
  PROVE  ParseOvertureThemes(pieces)[1] \in Seq(Range(AllThemes))
<1> DEFINE T == Range(AllThemes)
           parsed == [k \in DOMAIN pieces |-> ParseTheme(pieces[k])]
<1>1. CASE pieces = <<"">>
  <2>1. ParseOvertureThemes(pieces) = Some(AllThemes)
    BY <1>1 DEF ParseOvertureThemes
  <2> QED
    BY <2>1, ThemesListed DEF Some
<1>2. CASE pieces # <<"">>
  <2>1. ParseOvertureThemes(pieces) = Collected(parsed)
    BY <1>2 DEF ParseOvertureThemes
  <2>2. DOMAIN parsed = 1 .. Len(pieces) /\ Len(pieces) \in Nat
    OBVIOUS
  <2>3. \A k \in DOMAIN parsed : parsed[k] # None => parsed[k][1] \in T
    BY ThemeParses
  <2> HIDE DEF parsed, T
  <2>4. /\ \A k \in DOMAIN parsed : parsed[k] # None
        /\ Collected(parsed)[1] = [k \in DOMAIN parsed |-> parsed[k][1]]
    BY <2>1, CollectedEach
  <2>5. [k \in 1 .. Len(pieces) |-> parsed[k][1]] \in Seq(T)
    BY <2>2, <2>3, <2>4
  <2> QED
    BY <2>1, <2>2, <2>4, <2>5 DEF T
<1> QED
  BY <1>1, <1>2

RequestTyped(o) ==
  /\ o.mode \in PoiSourceMode /\ o.onFailure \in OvertureFailureMode
  /\ o.themes \in Seq(Range(AllThemes)) /\ o.overture \in BOOLEAN

LEMMA RequestIs ==
  ASSUME NEW r \in Requests, Options(r.settings) # None
  PROVE  RequestTyped(Options(r.settings)[1]) /\ Options(r.settings)[1] # None
<1> DEFINE config == r.settings
           d == DefaultOptions
           o == [filter    |-> IF config["filter"] = None THEN Some(d.filter) ELSE Some(FeatureFilter(config["filter"][1])),
                 overture  |-> IF config["overture"] = None THEN Some(d.overture) ELSE Some(config["overture"][1]),
                 themes    |-> IF config["themes"] = None THEN Some(d.themes) ELSE ParseOvertureThemes(config["themes"][1]),
                 priority  |-> IF config["priority"] = None THEN Some(d.priority) ELSE ParseOverturePriority(config["priority"][1]),
                 mode      |-> IF config["mode"] = None THEN Some(d.mode) ELSE ParsePoiSourceMode(config["mode"][1]),
                 onFailure |-> IF config["onFailure"] = None THEN Some(d.onFailure) ELSE ParseOvertureFailureMode(config["onFailure"][1])]
<1>1. Options(config) = Collected(o)
  BY Zenon DEF Options
<1>2. /\ d.overture = FALSE /\ d.themes = AllThemes
      /\ d.mode = "OverturePreferred" /\ d.onFailure = "FallbackToOsm"
  <2>1. d = [k \in {"overture", "themes", "priority", "filter", "mode", "onFailure"} |->
               IF k = "filter" THEN Categories ELSE IF k = "mode" THEN "OverturePreferred"
               ELSE IF k = "onFailure" THEN "FallbackToOsm" ELSE DefaultParams[k]]
    BY DEF DefaultOptions, DefaultParams, Extend
  <2> HIDE DEF d
  <2> QED
    BY <2>1 DEF DefaultParams
<1>3. config.themes \in Maybe(Seq(STRING)) /\ config.overture \in Maybe(BOOLEAN)
  BY SessionAssumption
<1> HIDE DEF d
<1>4. DOMAIN o = {"filter", "overture", "themes", "priority", "mode", "onFailure"}
  OBVIOUS
<1>5. o.mode # None => o.mode[1] \in PoiSourceMode
  BY <1>2, ModesParse DEF Some, PoiSourceMode
<1>6. o.onFailure # None => o.onFailure[1] \in OvertureFailureMode
  BY <1>2, ModesParse DEF Some, OvertureFailureMode
<1>7. o.overture # None => o.overture[1] \in BOOLEAN
  <2>1. config.overture # None => config.overture[1] \in BOOLEAN
    BY <1>3 DEF Maybe, None
  <2> QED
    BY <1>2, <2>1 DEF Some
<1>8. o.themes # None => o.themes[1] \in Seq(Range(AllThemes))
  <2>1. config.themes # None => config.themes[1] \in Seq(STRING)
    BY <1>3 DEF Maybe, None
  <2> QED
    BY <1>2, <2>1, ThemesParse, ThemesListed DEF Some
<1> HIDE DEF o
<1>9. /\ \A k \in DOMAIN o : o[k] # None
      /\ Collected(o)[1] = [k \in DOMAIN o |-> o[k][1]]
  BY <1>1, CollectedEach
<1>10. /\ Collected(o)[1].mode = o["mode"][1] /\ Collected(o)[1].onFailure = o["onFailure"][1]
       /\ Collected(o)[1].themes = o["themes"][1] /\ Collected(o)[1].overture = o["overture"][1]
  BY <1>4, <1>9
<1>11. Collected(o)[1] # None
  <2>1. DOMAIN [k \in DOMAIN o |-> o[k][1]] # {} /\ DOMAIN None = {}
    BY <1>4 DEF None
  <2> QED
    BY <1>9, <2>1
<1> QED
  BY <1>1, <1>4, <1>5, <1>6, <1>7, <1>8, <1>9, <1>10, <1>11 DEF RequestTyped

----------------------------------------------------------------------------
(* What the consumer's operations make of sound data is sound.              *)

AllSound == SoundDatas(FeatureSources)

LEMMA FileSound ==
  ASSUME NEW f \in Files, ParseOsmFile(f) # None
  PROVE  ParseOsmFile(f)[1] \in AllSound
BY FileIs, SourcesAre DEF AllSound

LEMMA MergeSound ==
  ASSUME NEW d \in AllSound, NEW other \in AllSound
  PROVE  Merge(d, other) \in AllSound
<1>1. other \in Datas(FeatureSources)
  BY DEF AllSound, SoundDatas
<1> QED
  BY <1>1, MergeKeepsIndex DEF AllSound

LEMMA PushSound ==
  ASSUME NEW d \in AllSound, NEW w \in NewWays, w.id \notin DOMAIN d.index
  PROVE  PushWay(d, w) \in AllSound
<1>1. w \in Ways
  BY SessionAssumption, WayIs
<1>2. d \in Datas(FeatureSources) /\ ValidateInvariants(d)
  BY DEF AllSound, SoundDatas
<1>3. PushWay(d, w) \in Datas(FeatureSources)
  BY <1>1, <1>2, PushWayTyped
<1>4. HasWays(d, Ways)
  BY <1>2, DatasHaveWays
<1>5. ValidateInvariants(PushWay(d, w))
  BY <1>1, <1>2, <1>4, PushWayKeepsIndex
<1> QED
  BY <1>3, <1>5 DEF AllSound, SoundDatas

LEMMA PartsSound ==
  ASSUME NEW d \in AllSound, NEW e \in AllSound
  PROVE  /\ WithNodes(d, e.nodes) \in AllSound /\ WithRelations(d, e.relations) \in AllSound
         /\ WithBounds(d, e.bounds) \in AllSound /\ WithPoiNodes(d, e.pois) \in AllSound
         /\ WithAddrNodes(d, e.addrs) \in AllSound /\ WithTreeNodes(d, e.trees) \in AllSound
         /\ WithTaggedNodes(d, e.tagged) \in AllSound
<1> DEFINE D == Datas(FeatureSources)
<1>1. d \in D /\ e \in D /\ ValidateInvariants(d)
  BY DEF AllSound, SoundDatas
<1>2. WithNodes(d, e.nodes) \in D /\ WithRelations(d, e.relations) \in D
  BY <1>1 DEF Datas, WithNodes, WithRelations
<1>3. WithBounds(d, e.bounds) \in D /\ WithPoiNodes(d, e.pois) \in D
  BY <1>1 DEF Datas, WithBounds, WithPoiNodes
<1>4. WithAddrNodes(d, e.addrs) \in D /\ WithTreeNodes(d, e.trees) \in D
  BY <1>1 DEF Datas, WithAddrNodes, WithTreeNodes
<1>5. WithTaggedNodes(d, e.tagged) \in D
  BY <1>1 DEF Datas, WithTaggedNodes
<1> HIDE DEF D
<1> QED
  BY <1>1, <1>2, <1>3, <1>4, <1>5, BuildersKeepIndex DEF AllSound, SoundDatas, D

LEMMA WaysSound ==
  ASSUME NEW d \in AllSound, NEW ways \in Seq(Ways), DifferentIds(ways)
  PROVE  WithWays(d, ways) \in AllSound
BY Differs DEF AllSound, SoundDatas

LEMMA ReversedWays ==
  ASSUME NEW ways \in Seq(Ways), DifferentIds(ways)
  PROVE  Reverse(ways) \in Seq(Ways) /\ DifferentIds(Reverse(ways))
<1> DEFINE n == Len(ways)
           r == [k \in 1 .. n |-> ways[(n - k) + 1]]
<1>1. n \in Nat /\ \A k \in 1 .. n : (n - k) + 1 \in 1 .. n /\ ways[k] \in Ways
  OBVIOUS
<1>2. \A j, k \in 1 .. n : ways[j].id = ways[k].id => j = k
  BY DEF DifferentIds
<1> HIDE DEF n
<1>3. r \in Seq(Ways) /\ Len(r) = n
  BY <1>1
<1>4. ASSUME NEW j \in 1 .. n, NEW k \in 1 .. n, r[j].id = r[k].id
      PROVE  j = k
  <2>1. (n - j) + 1 = (n - k) + 1
    BY <1>1, <1>2, <1>4
  <2> QED
    BY <1>1, <2>1
<1>5. Reverse(ways) = r
  BY DEF Reverse, n
<1> HIDE DEF r
<1> QED
  BY <1>3, <1>4, <1>5 DEF DifferentIds

LEMMA RetainedWays ==
  ASSUME NEW ways \in Seq(Ways), DifferentIds(ways)
  PROVE  LET kept == Retain(ways, LAMBDA w : Has(w.tags, "highway"))
         IN  kept \in Seq(Ways) /\ DifferentIds(kept)
<1> DEFINE P == {w \in Ways : Has(w.tags, "highway")}
           kept == Retain(ways, LAMBDA w : Has(w.tags, "highway"))
<1>1. {k \in DOMAIN ways : Has(ways[k].tags, "highway")} = {k \in DOMAIN ways : ways[k] \in P}
  OBVIOUS
<1>2. kept = Chosen(ways, {k \in DOMAIN ways : Has(ways[k].tags, "highway")})
  BY Zenon DEF Retain
<1>3. kept = Passing(ways, P)
  BY <1>1, <1>2 DEF Passing
<1> HIDE DEF kept, P
<1>4. Passing(ways, P) \in Seq(Ways)
  BY PassingRange
<1>5. \A j, k \in 1 .. Len(ways) : ways[j].id = ways[k].id => j = k
  BY DEF DifferentIds
<1>6. \A j, k \in 1 .. Len(Passing(ways, P)) : Passing(ways, P)[j].id = Passing(ways, P)[k].id => j = k
  BY <1>5, PassingKeepsIds
<1> QED
  BY <1>3, <1>4, <1>6 DEF DifferentIds, kept

LEMMA RebuiltSound ==
  ASSUME NEW d \in AllSound
  PROVE  /\ d.ways \in Seq(Ways) /\ DifferentIds(d.ways)
         /\ [WithWays(d, d.ways) EXCEPT !.tagged = << >>] \in AllSound
<1>1. d.ways \in Seq(Ways) /\ DifferentIds(d.ways)
  BY IdsDiffer DEF AllSound, DifferentIds
<1> DEFINE e == WithWays(d, d.ways)
<1>2. e \in AllSound
  BY <1>1, WaysSound
<1> HIDE DEF e
<1>3. e \in Datas(FeatureSources)
  BY <1>2 DEF AllSound, SoundDatas
<1> DEFINE f == [e EXCEPT !.tagged = << >>]
<1>4. f \in Datas(FeatureSources) /\ f.ways = e.ways /\ f.index = e.index
  <2>1. << >> \in Seq(PoisOf(FeatureSources))
    OBVIOUS
  <2>2. \A none \in Seq(PoisOf(FeatureSources)) : [e EXCEPT !.tagged = none] \in Datas(FeatureSources)
    BY <1>3 DEF Datas
  <2>3. f.ways = e.ways /\ f.index = e.index
    BY <1>3 DEF Datas
  <2> QED
    BY <2>1, <2>2, <2>3
<1> HIDE DEF f
<1>5. f \in AllSound
  BY <1>2, <1>4, OtherParts DEF AllSound
<1> QED
  BY <1>1, <1>5 DEF e, f

LEMMA ClipSoundly ==
  ASSUME NEW d \in AllSound, NEW b \in Boxes
  PROVE  Clip(d, b) \in AllSound
BY ClipKeepsIndex DEF AllSound

LEMMA RewriteSound ==
  ASSUME NEW d \in AllSound, ParseXml(WriteXml(d)) # None
  PROVE  ParseXml(WriteXml(d))[1] \in AllSound
<1>1. d \in Datas(FeatureSources)
  BY DEF AllSound, SoundDatas
<1> DEFINE doc == WriteXml(d)
<1>2. IsEvents(doc)
  BY <1>1, WrittenIs
<1> HIDE DEF doc
<1>3. ParseXml(doc) # None
  BY DEF doc
<1>4. ParseXml(doc)[1] \in SoundDatas({"osm"})
  BY <1>2, <1>3, ParsedIs
<1> QED
  BY <1>4, SourcesAre DEF AllSound, doc

----------------------------------------------------------------------------
(* The invariant of the session.                                            *)

\* What is held and what is fetched is sound, each source's with its own
\* points of interest; Overture is asked only if it was to be; and between the
\* merge and the clip the result is one of its two sources under the policy.
SessionInv ==
  /\ pc \in {"idle", "osm", "overture", "merge", "clip"} /\ ops \in 0 .. MaxOps
  /\ pc = "idle" => request = None /\ box = None
  /\ pc # "idle" => request # None /\ box # None /\ box \in Boxes /\ RequestTyped(request)
  /\ held \in AllSound /\ result.data \in AllSound
  /\ osm \in SoundDatas({"osm"}) /\ overture \in Maybe(SoundDatas({"overture"}))
  /\ pc \in {"idle", "osm", "overture"} => overture = None
  /\ pc = "overture" \/ overture # None => request.overture
  /\ pc = "clip" => Outcome(result, osm, overture, request.mode)

LEMMA NothingYet ==
  /\ \A src : EmptyData \in SoundDatas(src)
  /\ EmptyData \in AllSound /\ NoResult.data \in AllSound
  /\ None \in Maybe(SoundDatas({"overture"}))
<1>1. EmptyData \in AllSound
  BY EmptyIsSound DEF AllSound
<1>2. NoResult.data = EmptyData
  BY DEF NoResult, Result
<1>3. None \in Maybe(SoundDatas({"overture"}))
  BY DEF None, Maybe
<1> QED
  BY <1>1, <1>2, <1>3, EmptyIsSound

LEMMA InitKeeps == Init => SessionInv
<1>1. MaxOps \in Nat
  BY SessionAssumption
<1> QED
  BY <1>1, NothingYet DEF Init, SessionInv

LEMMA UseKeeps ==
  ASSUME SessionInv, NEW data \in AllSound, Use(data)
  PROVE  SessionInv'
<1>1. MaxOps \in Nat
  BY SessionAssumption
<1> HIDE DEF AllSound
<1> QED
  BY <1>1 DEF Use, SessionInv, locals

LEMMA ReturnKeeps ==
  ASSUME SessionInv, NEW data \in AllSound, Return(data)
  PROVE  SessionInv'
BY NothingYet DEF Return, SessionInv

LEMMA BeginKeeps ==
  ASSUME SessionInv, BeginFetch
  PROVE  SessionInv'
<1>1. PICK r \in Requests :
         Options(r.settings) # None /\ box' = r.box /\ request' = Options(r.settings)[1]
  BY DEF BeginFetch
<1>2. RequestTyped(request') /\ request' # None
  BY <1>1, RequestIs
<1>3. box' \in Boxes /\ box' # None
  <2>1. r.box \in Boxes
    BY SessionAssumption
  <2>2. \A b \in Boxes : DOMAIN b # {}
    BY DEF Boxes
  <2>3. DOMAIN None = {}
    BY DEF None
  <2> QED
    BY <1>1, <2>1, <2>2, <2>3
<1>4. MaxOps \in Nat
  BY SessionAssumption
<1> QED
  BY <1>2, <1>3, <1>4 DEF BeginFetch, SessionInv

LEMMA FetchOsmKeeps ==
  ASSUME SessionInv, FetchOsm
  PROVE  SessionInv'
<1>1. PICK body \in Bodies : ParseXml(body) # None /\ osm' = ParseXml(body)[1]
  BY Zenon DEF FetchOsm
<1>2. IsEvents(body)
  BY <1>1, AnswerIs, Zenon DEF Bodies
<1>3. osm' \in SoundDatas({"osm"})
  BY <1>1, <1>2, ParsedIs
<1>4. /\ pc = "osm" /\ pc' = IF request.overture THEN "overture" ELSE "merge"
      /\ UNCHANGED <<box, request, overture, release, result, held, ops>>
  BY Zenon DEF FetchOsm
<1> QED
  BY <1>3, <1>4 DEF SessionInv

LEMMA FetchOvertureKeeps ==
  ASSUME SessionInv, FetchOverture
  PROVE  SessionInv'
<1>1. PICK known \in Releases : overture' = Some(OvertureData(known, box, request.themes))
  BY DEF FetchOverture
<1>2. request.themes \in Seq(Range(AllThemes))
  BY DEF FetchOverture, SessionInv, RequestTyped
<1> DEFINE d == OvertureData(known, box, request.themes)
<1>3. d \in SoundDatas({"overture"})
  BY <1>2, OvertureDataIs
<1> HIDE DEF d
<1>4. overture' \in Maybe(SoundDatas({"overture"}))
  <2>1. <<d>> \in Maybe(SoundDatas({"overture"}))
    BY <1>3 DEF Maybe
  <2> QED
    BY <1>1, <2>1 DEF Some, d
<1> QED
  BY <1>4 DEF FetchOverture, SessionInv

LEMMA FetchOvertureFailsKeeps ==
  ASSUME SessionInv, FetchOvertureFails
  PROVE  SessionInv'
<1>1. CASE request.onFailure = "FallbackToOsm"
  <2> DEFINE r == MergeSourceData(osm, None, request.mode)
  <2>1. /\ pc = "overture" /\ pc' = "clip"
        /\ result' = Result(r.data, r.status, r.warnings \cup {"fetch failed"})
        /\ UNCHANGED <<box, request, osm, overture, release, held, ops>>
    BY <1>1 DEF FetchOvertureFails
  <2>2. overture = None /\ osm \in SoundDatas({"osm"}) /\ request.mode \in PoiSourceMode
    BY <2>1 DEF SessionInv, RequestTyped
  <2>3. Outcome(r, osm, None, request.mode)
    BY <2>2, NothingYet, MergedIs
  <2> HIDE DEF r
  <2>4. Outcome(result', osm, None, request.mode)
    BY <2>1, <2>3, OutcomeWarned
  <2>5. result'.data \in AllSound
    BY <2>4 DEF Outcome, AllSound
  <2> QED
    BY <2>1, <2>2, <2>4, <2>5 DEF SessionInv
<1>2. CASE request.onFailure # "FallbackToOsm"
  <2>1. Return(held) /\ held \in AllSound
    BY <1>2 DEF FetchOvertureFails, SessionInv
  <2> QED
    BY <2>1, ReturnKeeps
<1> QED
  BY <1>1, <1>2

LEMMA MergeSourcesKeeps ==
  ASSUME SessionInv, MergeSources
  PROVE  SessionInv'
<1>1. osm \in SoundDatas({"osm"}) /\ overture \in Maybe(SoundDatas({"overture"})) /\ request.mode \in PoiSourceMode
  BY DEF MergeSources, SessionInv, RequestTyped
<1>2. Outcome(result', osm, overture, request.mode)
  BY <1>1, MergedIs DEF MergeSources
<1>3. result'.data \in AllSound
  BY <1>2 DEF Outcome, AllSound
<1> QED
  BY <1>2, <1>3 DEF MergeSources, SessionInv

LEMMA ClipResultKeeps ==
  ASSUME SessionInv, ClipResult
  PROVE  SessionInv'
<1> DEFINE b == FromTuple(Swne(box))
<1>1. box \in Boxes /\ result.data \in AllSound
  BY DEF ClipResult, SessionInv
<1>2. b \in Boxes
  BY <1>1 DEF FromTuple, Swne, FromUnchecked, Boxes
<1> HIDE DEF b
<1>3. Clip(result.data, b) \in AllSound
  BY <1>1, <1>2, ClipSoundly
<1>4. Return(Clip(result.data, b))
  BY DEF ClipResult, b
<1> QED
  BY <1>3, <1>4, ReturnKeeps

\* What a consumer does with what it holds leaves it with sound data.
LEMMA ConsumerKeeps ==
  ASSUME SessionInv,
         ReadFile \/ AddWay \/ ReplacePart \/ ReplaceWays \/ Rebuild \/ ClipHeld \/ Rewrite
  PROVE  SessionInv'
<1>1. held \in AllSound
  BY DEF SessionInv
<1>2. CASE ReadFile
  <2>1. PICK f \in Files : LET d == ParseOsmFile(f) IN
          IF d = None THEN Use(held) ELSE Use(d[1]) \/ Use(Merge(held, d[1]))
    BY <1>2, Zenon DEF ReadFile
  <2> DEFINE d == ParseOsmFile(f)
  <2>2. d # None => d[1] \in AllSound
    BY FileSound
  <2> HIDE DEF d
  <2>3. CASE d = None
    BY <1>1, <2>1, <2>3, UseKeeps DEF d
  <2>4. CASE d # None
    <3>1. Use(d[1]) \/ Use(Merge(held, d[1]))
      BY <2>1, <2>4 DEF d
    <3>2. Merge(held, d[1]) \in AllSound
      BY <1>1, <2>2, <2>4, MergeSound
    <3> QED
      BY <2>2, <2>4, <3>1, <3>2, UseKeeps
  <2> QED
    BY <2>3, <2>4
<1>3. CASE AddWay
  <2>1. PICK w \in NewWays : w.id \notin DOMAIN held.index /\ Use(PushWay(held, w))
    BY <1>3 DEF AddWay
  <2>2. PushWay(held, w) \in AllSound
    BY <1>1, <2>1, PushSound
  <2> QED
    BY <2>1, <2>2, UseKeeps
<1>4. CASE ReplacePart
  <2>1. PICK f \in Files : LET d == ParseOsmFile(f) IN
          /\ d # None
          /\ \/ Use(WithNodes(held, d[1].nodes)) \/ Use(WithRelations(held, d[1].relations))
             \/ Use(WithBounds(held, d[1].bounds)) \/ Use(WithPoiNodes(held, d[1].pois))
             \/ Use(WithAddrNodes(held, d[1].addrs)) \/ Use(WithTreeNodes(held, d[1].trees))
             \/ Use(WithTaggedNodes(held, d[1].tagged))
    BY <1>4, Zenon DEF ReplacePart
  <2> DEFINE d == ParseOsmFile(f)
             e == d[1]
  <2>2. e \in AllSound
    BY <2>1, FileSound
  <2> HIDE DEF d
  <2>3. \/ Use(WithNodes(held, e.nodes)) \/ Use(WithRelations(held, e.relations))
        \/ Use(WithBounds(held, e.bounds)) \/ Use(WithPoiNodes(held, e.pois))
        \/ Use(WithAddrNodes(held, e.addrs)) \/ Use(WithTreeNodes(held, e.trees))
        \/ Use(WithTaggedNodes(held, e.tagged))
    BY <2>1 DEF d
  <2> HIDE DEF e
  <2> QED
    BY <1>1, <2>2, <2>3, PartsSound, UseKeeps
<1>5. CASE ReplaceWays
  <2>1. PICK ways \in {Reverse(held.ways), Retain(held.ways, LAMBDA w : Has(w.tags, "highway"))} :
           Use(WithWays(held, ways))
    BY <1>5, Zenon DEF ReplaceWays
  <2>2. held.ways \in Seq(Ways) /\ DifferentIds(held.ways)
    BY <1>1, RebuiltSound
  <2>3. ways \in Seq(Ways) /\ DifferentIds(ways)
    <3> DEFINE kept == Retain(held.ways, LAMBDA w : Has(w.tags, "highway"))
               back == Reverse(held.ways)
               list == held.ways
    <3>1. ways = back \/ ways = kept
      BY <2>1, Zenon
    <3> HIDE DEF list
    <3>2. list \in Seq(Ways) /\ DifferentIds(list)
      BY <2>2 DEF list
    <3>3. back \in Seq(Ways) /\ DifferentIds(back)
      BY <3>2, ReversedWays DEF list
    <3>4. kept \in Seq(Ways) /\ DifferentIds(kept)
      BY <3>2, RetainedWays, Zenon DEF list
    <3> HIDE DEF kept, back
    <3> QED
      BY <3>1, <3>3, <3>4
  <2>4. WithWays(held, ways) \in AllSound
    BY <1>1, <2>3, WaysSound
  <2> QED
    BY <2>1, <2>4, UseKeeps
<1>6. CASE Rebuild
  <2>1. Use([WithWays(held, held.ways) EXCEPT !.tagged = << >>])
    BY <1>6 DEF Rebuild
  <2> QED
    BY <1>1, <2>1, RebuiltSound, UseKeeps
<1>7. CASE ClipHeld
  <2>1. PICK area \in Areas : Use(Clip(held, area))
    BY <1>7 DEF ClipHeld
  <2>2. area \in Boxes
    BY SessionAssumption
  <2>3. Clip(held, area) \in AllSound
    BY <1>1, <2>2, ClipSoundly
  <2> QED
    BY <2>1, <2>3, UseKeeps
<1>8. CASE Rewrite
  <2>1. ParseXml(WriteXml(held)) # None /\ Use(ParseXml(WriteXml(held))[1])
    BY <1>8, Zenon DEF Rewrite
  <2>2. ParseXml(WriteXml(held))[1] \in AllSound
    BY <1>1, <2>1, RewriteSound
  <2> QED
    BY <2>1, <2>2, UseKeeps
<1> QED
  BY <1>2, <1>3, <1>4, <1>5, <1>6, <1>7, <1>8

THEOREM SessionInvariant == Spec => []SessionInv
<1>1. Init => SessionInv
  BY InitKeeps
<1>2. SessionInv /\ [Next]_vars => SessionInv'
  <2> SUFFICES ASSUME SessionInv, [Next]_vars
               PROVE  SessionInv'
    OBVIOUS
  <2>1. CASE BeginFetch
    BY <2>1, BeginKeeps
  <2>2. CASE FetchOsm
    BY <2>2, FetchOsmKeeps
  <2>3. CASE FetchOsmFails
    <3>1. Return(held) /\ held \in AllSound
      BY <2>3 DEF FetchOsmFails, SessionInv
    <3> QED
      BY <3>1, ReturnKeeps
  <2>4. CASE FetchOverture
    BY <2>4, FetchOvertureKeeps
  <2>5. CASE FetchOvertureFails
    BY <2>5, FetchOvertureFailsKeeps
  <2>6. CASE MergeSources
    BY <2>6, MergeSourcesKeeps
  <2>7. CASE ClipResult
    BY <2>7, ClipResultKeeps
  <2>8. CASE ReadFile \/ AddWay \/ ReplacePart \/ ReplaceWays \/ Rebuild \/ ClipHeld \/ Rewrite
    BY <2>8, ConsumerKeeps
  <2>9. CASE UNCHANGED vars
    BY <2>9 DEF SessionInv, vars
  <2> QED
    BY <2>1, <2>2, <2>3, <2>4, <2>5, <2>6, <2>7, <2>8, <2>9 DEF Next
<1> QED
  BY <1>1, <1>2, PTL DEF Spec

----------------------------------------------------------------------------
(* The properties of the session.                                           *)

LEMMA OptionIs ==
  ASSUME NEW S, NEW x \in Maybe(S)
  PROVE  x = None \/ (Len(x) = 1 /\ x[1] \in S)
<1> DEFINE n == Len(x)
<1>1. x \in Seq(S) /\ n <= 1
  BY DEF Maybe
<1>2. n \in Nat /\ (n = 0 => x = << >>) /\ (n = 1 => x[1] \in S)
  BY <1>1
<1> HIDE DEF n
<1>3. n = 0 \/ n = 1
  BY <1>1, <1>2
<1> QED
  BY <1>2, <1>3, Zenon DEF None, n

LEMMA SoundlyTyped ==
  ASSUME NEW d \in AllSound
  PROVE  Sound(d)
<1>1. d \in Datas(FeatureSources) /\ ValidateInvariants(d)
  BY DEF AllSound, SoundDatas
<1>2. DOMAIN d = DOMAIN EmptyData
  BY <1>1 DEF Datas, EmptyData
<1>3. /\ d.nodes \in NodeMaps /\ d.ways \in Seq(Ways) /\ d.index \in Indexes
      /\ d.relations \in Seq(Relations) /\ d.bounds \in Maybe(Boxes)
      /\ d.pois \in Seq(PoisOf(FeatureSources)) /\ d.addrs \in Seq(PoisOf(FeatureSources))
      /\ d.trees \in Seq(Points) /\ d.tagged \in Seq(PoisOf(FeatureSources))
  BY <1>1 DEF Datas
<1>4. ASSUME NEW V, NEW s \in Seq(V)
      PROVE  Range(s) \subseteq V
  BY <1>4 DEF Range
<1>5. DOMAIN d.nodes \subseteq Int /\ \A p \in Range(d.nodes) : DOMAIN p = {"lat", "lon"}
  <2>1. PICK ids \in SUBSET Int : d.nodes \in [ids -> Points]
    BY <1>3 DEF NodeMaps
  <2>2. \A p \in Points : DOMAIN p = {"lat", "lon"}
    BY DEF Points
  <2> QED
    BY <2>1, <2>2 DEF Range
<1>6. \A w \in Range(d.ways) : w.id \in Int /\ Range(w.refs) \subseteq Int
  <2>1. \A w \in Ways : w.id \in Int /\ w.refs \in Seq(Int)
    BY DEF Ways
  <2>2. Range(d.ways) \subseteq Ways
    BY <1>3, <1>4
  <2> QED
    BY <1>4, <2>1, <2>2
<1>7. DOMAIN d.index \subseteq Int /\ Range(d.index) \subseteq Nat
  <2>1. PICK ids \in SUBSET Int : d.index \in [ids -> Nat]
    BY <1>3 DEF Indexes
  <2> QED
    BY <2>1 DEF Range
<1>8. \A r \in Range(d.relations) : r.id \in Int /\ Is(r.tags, "type", "multipolygon")
  <2>1. Range(d.relations) \subseteq Relations
    BY <1>3, <1>4
  <2> QED
    BY <2>1 DEF Relations
<1>9. Option(LAMBDA b : b \in Boxes, d.bounds)
  <2>1. d.bounds = None \/ (Len(d.bounds) = 1 /\ d.bounds[1] \in Boxes)
    BY <1>3, OptionIs
  <2> QED
    BY <2>1, Zenon DEF Option
<1>10. IsPoiList(d.pois) /\ IsPoiList(d.addrs) /\ IsPoiList(d.tagged)
  <2>1. \A p \in PoisOf(FeatureSources) : p.source \in FeatureSources /\ {p.lat, p.lon} \subseteq Int
    BY DEF PoisOf
  <2>2. /\ Range(d.pois) \subseteq PoisOf(FeatureSources) /\ Range(d.addrs) \subseteq PoisOf(FeatureSources)
        /\ Range(d.tagged) \subseteq PoisOf(FeatureSources)
    BY <1>3, <1>4
  <2> QED
    BY <2>1, <2>2 DEF IsPoiList
<1>11. \A p \in Range(d.trees) : DOMAIN p = {"lat", "lon"}
  <2>1. Range(d.trees) \subseteq Points
    BY <1>3, <1>4
  <2> QED
    BY <2>1 DEF Points
<1>12. IsOsmData(d)
  BY <1>2, <1>5, <1>6, <1>7, <1>8, <1>9, <1>10, <1>11, Zenon DEF IsOsmData
<1> QED
  BY <1>1, <1>12 DEF Sound

\* The data a consumer holds, fetches and is about to be given always passes
\* validate_invariants and has the types of osm::model, for all that the
\* sources may send and the consumer may read, whatever it does in which order.
THEOREM SessionIsSound == Spec => []SessionTypeOK
<1>1. SessionInv => SessionTypeOK
  <2> SUFFICES ASSUME SessionInv
               PROVE  SessionTypeOK
    OBVIOUS
  <2>1. Sound(held) /\ Sound(result.data)
    BY SoundlyTyped DEF SessionInv
  <2>2. osm \in AllSound
    BY SourcesAre DEF SessionInv, AllSound
  <2>3. Option(Sound, overture)
    <3>1. overture = None \/ (Len(overture) = 1 /\ overture[1] \in SoundDatas({"overture"}))
      BY OptionIs DEF SessionInv
    <3>2. overture # None => overture[1] \in AllSound
      BY <3>1, SourcesAre DEF AllSound
    <3>3. overture # None => Sound(overture[1])
      BY <3>2, SoundlyTyped
    <3> QED
      BY <3>1, <3>3, Zenon DEF Option
  <2>4. pc # "idle" => /\ request.mode \in PoiSourceMode
                       /\ request.onFailure \in OvertureFailureMode
                       /\ Range(request.themes) \subseteq Range(AllThemes)
    <3>1. pc # "idle" => request.themes \in Seq(Range(AllThemes))
      BY DEF SessionInv, RequestTyped
    <3>2. \A V : \A s \in Seq(V) : Range(s) \subseteq V
      BY DEF Range
    <3> QED
      BY <3>1, <3>2 DEF SessionInv, RequestTyped
  <2>5. pc = "clip" => result.status \in SourceStatus
    BY DEF SessionInv, Outcome
  <2>6. /\ pc \in {"idle", "osm", "overture", "merge", "clip"} /\ ops \in 0 .. MaxOps
        /\ (pc = "idle") = (request = None) /\ (pc = "idle") = (box = None)
        /\ overture # None => request.overture
    BY DEF SessionInv
  <2>7. Sound(osm)
    BY <2>2, SoundlyTyped
  <2> QED
    BY <2>1, <2>3, <2>4, <2>5, <2>6, <2>7, Zenon DEF SessionTypeOK
<1> QED
  BY <1>1, SessionInvariant, PTL

LEMMA TheirsAre ==
  ASSUME SessionInv, overture # None
  PROVE  overture[1] \in SoundDatas({"overture"})
BY OptionIs DEF SessionInv

LEMMA PreferredIsThere ==
  ASSUME NEW ours \in SoundDatas({"osm"}), NEW o \in SoundDatas({"overture"}), o.pois # << >>
  PROVE  LET kept == DedupePoisWithOverturePreference(ours.pois \o o.pois)
         IN  Retain(kept, LAMBDA p : p.source = "overture") # << >>
<1> DEFINE all == ours.pois \o o.pois
           kept == DedupePoisWithOverturePreference(all)
           at == {k \in DOMAIN kept : kept[k].source = "overture"}
           b == o.pois
<1>1. all \in Seq(PoisOf(FeatureSources)) /\ Range(b) \subseteq Range(all)
  BY JoinedPois
<1>2. b \in Seq(PoisOf({"overture"}))
  BY PoisAre
<1> HIDE DEF all
<1>3. /\ kept \in Seq(PoisOf(FeatureSources)) /\ Range(kept) \subseteq Range(all)
      /\ \A p \in Range(all) \ Range(kept) :
            \E q \in Range(kept) : PoiDuplicates(q, p) /\ Priority(q) <= Priority(p)
  BY <1>1, DedupeIsSound
<1> HIDE DEF kept, b
<1>4. b[1] \in Range(all) /\ b[1].source = "overture" /\ b[1] \in PoisOf(FeatureSources)
  <2>1. 1 \in DOMAIN b /\ b[1] \in PoisOf({"overture"})
    BY <1>2 DEF b
  <2>2. PoisOf({"overture"}) \subseteq PoisOf(FeatureSources)
    BY DEF PoisOf, FeatureSources
  <2> QED
    BY <1>1, <2>1, <2>2 DEF Range, PoisOf
<1>5. PICK q \in Range(kept) : q.source = "overture"
  <2>1. CASE b[1] \in Range(kept)
    BY <1>4, <2>1
  <2>2. CASE b[1] \notin Range(kept)
    <3>1. PICK q \in Range(kept) : Priority(q) <= Priority(b[1])
      BY <1>3, <1>4, <2>2
    <3>2. q \in PoisOf(FeatureSources)
      BY <1>3 DEF Range
    <3>3. Priority(b[1]) = 0 /\ Priority(q) \in 0 .. 2 /\ (Priority(q) = 0 => q.source = "overture")
      BY <1>4, <3>2, PriorityIs
    <3> QED
      BY <3>1, <3>3
  <2> QED
    BY <2>1, <2>2
<1>6. at # {} /\ at \subseteq DOMAIN kept
  BY <1>5 DEF Range
<1>7. DOMAIN kept \subseteq Int /\ IsFiniteSet(DOMAIN kept)
  BY <1>3, FS_Interval
<1> HIDE DEF at
<1>8. IsFiniteSet(at) /\ at \in SUBSET Int
  BY <1>6, <1>7, FS_Subset
<1>9. Cardinality(at) \in Nat /\ Cardinality(at) # 0 /\ DOMAIN InOrder(at) = 1 .. Cardinality(at)
  BY <1>6, <1>8, Ordered, FS_EmptySet
<1>10. DOMAIN Chosen(kept, at) = 1 .. Cardinality(at)
  BY <1>9 DEF Chosen
<1>11. Chosen(kept, at) # << >>
  <2>1. 1 \in DOMAIN Chosen(kept, at)
    BY <1>9, <1>10
  <2> QED
    BY <2>1
<1>12. Retain(kept, LAMBDA p : p.source = "overture") = Chosen(kept, at)
  BY Zenon DEF Retain, at
<1> QED
  BY <1>11, <1>12 DEF kept, all

\* The status that fetch_map_data returns is true of the points of interest it
\* returns, under every policy and on every path through merge_source_data.
THEOREM StatusIsHonest == Spec => []StatusHonest
<1>1. SessionInv => StatusHonest
  <2> SUFFICES ASSUME SessionInv, pc = "clip"
               PROVE  StatusHonest
    BY DEF StatusHonest
  <2> DEFINE From(source) == Retain(result.data.pois, LAMBDA p : p.source = source)
             theirs == IF overture = None THEN << >> ELSE overture[1].pois
             sources == {p.source : p \in Range(result.data.pois)}
  <2>1. Outcome(result, osm, overture, request.mode) /\ osm \in SoundDatas({"osm"})
    BY DEF SessionInv
  <2>2. CASE result.status \in {"OsmOnly", "OvertureFallbackToOsm"}
    <3>1. /\ result.data.pois = osm.pois
          /\ result.status = "OsmOnly" \/ result.warnings # {}
          /\ result.status = "OsmOnly" \/ request.mode = "Both" \/ theirs = << >>
      BY <2>1, <2>2 DEF Outcome
    <3> QED
      BY <2>2, <3>1 DEF StatusHonest
  <2>3. CASE result.status = "OvertureOnly"
    <3>1. result.data.pois = theirs
      BY <2>1, <2>3 DEF Outcome
    <3> QED
      BY <2>3, <3>1 DEF StatusHonest
  <2>4. CASE result.status \in {"Both", "OverturePreferred"}
    <3>1. overture[1] \in SoundDatas({"overture"})
      BY <2>1, <2>4, TheirsAre DEF Outcome
    <3> DEFINE all == osm.pois \o overture[1].pois
               kept == DedupePoisWithOverturePreference(all)
    <3>2. result.data.pois = kept /\ (result.status = "OverturePreferred" => overture[1].pois # << >>)
      BY <2>1, <2>4 DEF Outcome
    <3>3. all \in Seq(PoisOf({"osm", "overture"})) /\ all \in Seq(PoisOf(FeatureSources))
      BY <2>1, <3>1, JoinedPois
    <3>4. sources \subseteq {"osm", "overture"}
      <4> HIDE DEF all
      <4>1. Range(kept) \subseteq Range(all)
        BY <3>3, DedupeIsSound
      <4>2. Range(all) \subseteq PoisOf({"osm", "overture"})
        BY <3>3 DEF Range
      <4>3. \A p \in PoisOf({"osm", "overture"}) : p.source \in {"osm", "overture"}
        BY DEF PoisOf
      <4> QED
        BY <3>2, <4>1, <4>2, <4>3
    <3>5. result.status = "OverturePreferred" => From("overture") # << >>
      <4>1. result.status = "OverturePreferred" => Retain(kept, LAMBDA p : p.source = "overture") # << >>
        BY <2>1, <3>1, <3>2, PreferredIsThere, Zenon
      <4> QED
        BY <3>2, <4>1, Zenon
    <3> HIDE DEF From, sources
    <3>6. /\ sources \subseteq {"osm", "overture"}
          /\ result.status = "OverturePreferred" => From("overture") # << >>
      BY <3>4, <3>5
    <3> QED
      BY <2>4, <3>6 DEF StatusHonest, From, sources
  <2>5. result.status \in SourceStatus
    BY <2>1 DEF Outcome
  <2> QED
    BY <2>2, <2>3, <2>4, <2>5 DEF SourceStatus, PoiSourceMode
<1> QED
  BY <1>1, SessionInvariant, PTL

\* Deduplication of the two sources' points of interest drops a duplicate of
\* something that is kept, never something of a preferred source, and leaves no
\* duplicate within the window of cells it looks at.
THEOREM SessionDedupes == Spec => []DedupeSound
<1>1. SessionInv => DedupeSound
  <2> SUFFICES ASSUME SessionInv, pc = "clip", result.status \in {"Both", "OverturePreferred"}
               PROVE  DedupeSound
    BY DEF DedupeSound, Deduped
  <2>1. Outcome(result, osm, overture, request.mode) /\ osm \in SoundDatas({"osm"})
    BY DEF SessionInv
  <2>2. overture # None /\ result.data.pois = DedupePoisWithOverturePreference(osm.pois \o overture[1].pois)
    BY <2>1 DEF Outcome
  <2>3. Candidates = osm.pois \o overture[1].pois
    BY <2>2 DEF Candidates
  <2>4. Candidates \in Seq(PoisOf(FeatureSources))
    BY <2>1, <2>2, <2>3, TheirsAre, JoinedPois
  <2> DEFINE kept == DedupePoisWithOverturePreference(Candidates)
  <2>5. /\ Range(kept) \subseteq Range(Candidates)
        /\ \A p \in Range(Candidates) \ Range(kept) :
              \E q \in Range(kept) : PoiDuplicates(q, p) /\ Priority(q) <= Priority(p)
        /\ \A i, j \in DOMAIN kept :
              i < j => ~ (InWindow(kept[j], kept[i]) /\ PoiDuplicates(kept[i], kept[j]))
    BY <2>4, DedupeIsSound
  <2>6. result.data.pois = kept
    BY <2>2, <2>3
  <2> HIDE DEF kept
  <2> QED
    BY <2>5, <2>6, Zenon DEF DedupeSound
<1> QED
  BY <1>1, SessionInvariant, PTL

\* Whatever a consumer holds, clip_to_bbox leaves the ways it keeps where they
\* were, and a clip within a clip is the inner one.
THEOREM SessionClips == Spec => []ClipSound
<1>1. SessionInv => ClipSound
  <2> SUFFICES ASSUME SessionInv, NEW outer \in ClipBoxes
               PROVE  LET c == Clip(held, outer)
                      IN  /\ \A k \in DOMAIN c.ways :
                                \E j \in DOMAIN held.ways :
                                   /\ held.ways[j] = c.ways[k]
                                   /\ Geometry(held, held.ways[j]) = Geometry(c, c.ways[k])
                          /\ \A inner \in ClipBoxes :
                                Covers(outer, inner) => Clip(c, inner) = Clip(held, inner)
    BY Zenon DEF ClipSound
  <2> DEFINE c == Clip(held, outer)
  <2>1. held \in Datas(FeatureSources)
    BY DEF SessionInv, AllSound, SoundDatas
  <2>2. ClipBoxes \subseteq Boxes
    BY SessionAssumption DEF ClipBoxes
  <2>3. ASSUME NEW k \in DOMAIN c.ways
        PROVE  \E j \in DOMAIN held.ways :
                  /\ held.ways[j] = c.ways[k]
                  /\ Geometry(held, held.ways[j]) = Geometry(c, c.ways[k])
    <3> DEFINE w == c.ways[k]
    <3>1. w \in Range(c.ways)
      BY <2>3 DEF Range
    <3> HIDE DEF w
    <3>2. w \in Range(held.ways)
      BY <2>1, <2>2, <3>1, KeptWay
    <3>3. Geometry(held, w) = Geometry(c, w)
      BY <2>1, <2>2, <3>1, ClipKeepsGeometry
    <3>4. PICK j \in DOMAIN held.ways : held.ways[j] = w
      BY <3>2, Zenon DEF Range
    <3> QED
      BY <3>3, <3>4, Zenon DEF w
  <2>4. ASSUME NEW inner \in ClipBoxes, Covers(outer, inner)
        PROVE  Clip(c, inner) = Clip(held, inner)
    BY <2>1, <2>2, <2>4, ClipTwice
  <2> QED
    BY <2>3, <2>4, Zenon
<1> QED
  BY <1>1, SessionInvariant, PTL

----------------------------------------------------------------------------
(* What the reader makes of an answer: the nodes with tags come first, each *)
(* is read with its tags, and nothing behind them adds to the collections.  *)

\* Where each of the sequences ends among what they make.
Placed(seqs, off) ==
  LET n    == Len(seqs)
      flat == FlattenSeq(seqs)
  IN  /\ off \in [0 .. n -> Nat] /\ off[0] = 0 /\ off[n] = Len(flat)
      /\ \A k \in 1 .. n :
            /\ off[k] = off[k - 1] + Len(seqs[k]) /\ off[k] <= Len(flat)
            /\ \A j \in 1 .. Len(seqs[k]) : flat[off[k - 1] + j] = seqs[k][j]

LEMMA FlattenPlaces ==
  ASSUME NEW V, NEW seqs \in Seq(Seq(V))
  PROVE  \E off : Placed(seqs, off)
<1> DEFINE n == Len(seqs)
<1>1. PICK D : FlattensTo(seqs, V, D)
  BY FlattenSteps
<1> DEFINE off == [k \in 0 .. n |-> Len(D[k])]
           Keeps(i, k) == /\ off[k] <= off[i]
                          /\ \A j \in 1 .. Len(seqs[k]) : D[i][off[k - 1] + j] = seqs[k][j]
           G == {i \in 0 .. n : \A k \in 1 .. i : Keeps(i, k)}
<1>2. n \in Nat /\ \A k \in 1 .. n : seqs[k] \in Seq(V) /\ Len(seqs[k]) \in Nat
  OBVIOUS
<1>3. /\ \A k \in 0 .. n : D[k] \in Seq(V) /\ Len(D[k]) \in Nat
      /\ D[0] = << >> /\ D[n] = FlattenSeq(seqs)
      /\ \A k \in 1 .. n : D[k] = D[k - 1] \o seqs[k]
  <2> HIDE DEF n
  <2>1. /\ D \in [0 .. n -> Seq(V)] /\ D[0] = << >> /\ D[n] = FlattenSeq(seqs)
        /\ \A k \in 1 .. n : D[k] = D[k - 1] \o seqs[k]
    BY <1>1, Zenon DEF FlattensTo, n
  <2>2. \A s \in Seq(V) : Len(s) \in Nat
    OBVIOUS
  <2> QED
    BY <2>1, <2>2
<1>4. off \in [0 .. n -> Nat] /\ off[0] = 0 /\ off[n] = Len(FlattenSeq(seqs))
      /\ \A k \in 0 .. n : off[k] = Len(D[k])
  BY <1>2, <1>3
<1> HIDE DEF n, off
<1>5. ASSUME NEW i \in 1 .. n
      PROVE  /\ off[i] = off[i - 1] + Len(seqs[i])
             /\ \A x \in 1 .. off[i - 1] : D[i][x] = D[i - 1][x]
             /\ \A j \in 1 .. Len(seqs[i]) : D[i][off[i - 1] + j] = seqs[i][j]
  <2>1. i - 1 \in 0 .. n /\ i \in 0 .. n
    BY <1>2
  <2>2. D[i - 1] \in Seq(V) /\ seqs[i] \in Seq(V) /\ D[i] = D[i - 1] \o seqs[i]
    BY <1>2, <1>3, <2>1
  <2>3. off[i - 1] = Len(D[i - 1]) /\ off[i] = Len(D[i])
    BY <1>4, <2>1
  <2> DEFINE a == D[i - 1]
             b == seqs[i]
  <2>4. /\ Len(a \o b) = Len(a) + Len(b)
        /\ \A x \in 1 .. Len(a) : (a \o b)[x] = a[x]
        /\ \A x \in 1 .. Len(b) : (a \o b)[Len(a) + x] = b[x]
    <3>1. a \in Seq(V) /\ b \in Seq(V)
      BY <2>2
    <3> HIDE DEF a, b
    <3> QED
      BY <3>1, Concat
  <2> QED
    BY <2>2, <2>3, <2>4
<1>6. ASSUME NEW i \in 1 .. n, \A k \in 1 .. (i - 1) : Keeps(i - 1, k)
      PROVE  \A k \in 1 .. i : Keeps(i, k)
  <2> SUFFICES ASSUME NEW k \in 1 .. i
               PROVE  Keeps(i, k)
    OBVIOUS
  <2>0. /\ off[i] \in Nat /\ off[i - 1] \in Nat /\ off[k] \in Nat /\ off[k - 1] \in Nat
        /\ Len(seqs[i]) \in Nat /\ Len(seqs[k]) \in Nat /\ k \in 1 .. n
    <3>1. /\ k \in 1 .. n /\ i \in 0 .. n /\ i - 1 \in 0 .. n /\ k \in 0 .. n /\ k - 1 \in 0 .. n
      BY <1>2
    <3>2. off \in [0 .. n -> Nat]
      BY <1>4
    <3> QED
      BY <1>2, <3>1, <3>2
  <2>1. CASE k = i
    BY <1>5, <2>0, <2>1
  <2>2. CASE k # i
    <3>1. Keeps(i - 1, k)
      BY <1>2, <1>6, <2>2
    <3>2. off[k] = off[k - 1] + Len(seqs[k])
      BY <1>5, <2>0
    <3>3. \A j \in 1 .. Len(seqs[k]) : off[k - 1] + j \in 1 .. off[i - 1]
      <4>1. off[k] <= off[i - 1]
        BY <3>1
      <4> DEFINE a == off[k - 1]
                 l == Len(seqs[k])
      <4>2. a \in Nat /\ l \in Nat /\ off[i - 1] \in Nat /\ a + l <= off[i - 1]
        BY <2>0, <3>2, <4>1
      <4> HIDE DEF a, l
      <4>3. \A j \in 1 .. l : a + j \in 1 .. off[i - 1]
        BY <4>2
      <4> QED
        BY <4>3 DEF a, l
    <3>4. \A j \in 1 .. Len(seqs[k]) : D[i][off[k - 1] + j] = D[i - 1][off[k - 1] + j]
      BY <1>5, <3>3
    <3>5. off[k] <= off[i]
      <4>1. off[k] <= off[i - 1]
        BY <3>1
      <4>2. off[i] = off[i - 1] + Len(seqs[i])
        BY <1>5
      <4>3. off[i] \in Nat /\ off[i - 1] \in Nat /\ off[k] \in Nat /\ Len(seqs[i]) \in Nat
        BY <2>0
      <4>4. ASSUME NEW a \in Nat, NEW b \in Nat, NEW x \in Nat, NEW y \in Nat, x <= b, a = b + y
            PROVE  x <= a
        BY <4>4
      <4> QED
        BY <4>1, <4>2, <4>3, <4>4, Zenon
    <3> QED
      BY <3>1, <3>4, <3>5
  <2> QED
    BY <2>1, <2>2
<1>7. \A i \in 0 .. n : i \in G
  <2>1. G \in SUBSET (0 .. n) /\ 0 \in G
    BY <1>2
  <2>2. \A i \in 1 .. n : i - 1 \in G => i \in G
    <3> SUFFICES ASSUME NEW i \in 1 .. n, i - 1 \in G
                 PROVE  i \in G
      OBVIOUS
    <3>1. \A k \in 1 .. (i - 1) : Keeps(i - 1, k)
      OBVIOUS
    <3> HIDE DEF Keeps
    <3>2. \A k \in 1 .. i : Keeps(i, k)
      BY <1>6, <3>1
    <3>3. i \in 0 .. n
      BY <1>2
    <3> QED
      BY <3>2, <3>3
  <2> HIDE DEF G
  <2> QED
    BY <1>2, <2>1, <2>2, EveryStep
<1>8. \A k \in 1 .. n : Keeps(n, k)
  BY <1>2, <1>7
<1>9. \A k \in 1 .. n :
        /\ off[k] = off[k - 1] + Len(seqs[k]) /\ off[k] <= Len(FlattenSeq(seqs))
        /\ \A j \in 1 .. Len(seqs[k]) : FlattenSeq(seqs)[off[k - 1] + j] = seqs[k][j]
  BY <1>3, <1>4, <1>5, <1>8
<1>10. Placed(seqs, off)
  BY <1>4, <1>9, Zenon DEF Placed, n
<1> QED
  BY <1>10

\* SetToSeq lists each element of a finite set once.
LEMMA KeysEach ==
  ASSUME NEW S, IsFiniteSet(S)
  PROVE  \A x \in S : \E k \in 1 .. Cardinality(S) : SetToSeq(S)[k] = x
<1> DEFINE n == Cardinality(S)
<1>1. n \in Nat
  BY FS_CardinalityType
<1>2. IsFiniteSet(1 .. n) /\ Cardinality(1 .. n) = n
  BY <1>1, FS_Interval
<1>3. ExistsBijection(1 .. n, S)
  BY <1>2, FS_SameCardinalityBij
<1>4. PICK f \in [1 .. n -> S] : IsInjective(f)
  BY <1>3 DEF ExistsBijection, Bijection, Injection, IsInjective
<1>5. SetToSeq(S) \in [1 .. n -> S] /\ IsInjective(SetToSeq(S))
  BY <1>4 DEF SetToSeq
<1>6. SetToSeq(S) \in Injection(1 .. n, S)
  BY <1>5 DEF Injection, IsInjective
<1>7. SetToSeq(S) \in Surjection(1 .. n, S)
  BY <1>2, <1>6, FS_Injection
<1> QED
  BY <1>7 DEF Surjection

\* What reading one event does to the nodes with tags.
LEMMA StartNode ==
  ASSUME NEW s \in XmlGood, ~ s.failed, NEW id, NEW p,
         ~ OnEvent(s, StartOf("node", NodeAttrs(id, p))).failed
  PROVE  LET t == OnEvent(s, StartOf("node", NodeAttrs(id, p)))
         IN  t.inNode /\ t.at = At(p) /\ t.nodeTags = NoTags /\ t.data = AddNode(s.data, id, At(p))
<1> DEFINE e == StartOf("node", NodeAttrs(id, p))
           t == [s EXCEPT !.depth = @ + 1]
           u == [InsertNode(t, e) EXCEPT !.inNode = TRUE, !.at = At(e.attrs), !.nodeTags = NoTags]
<1>1. e.on = "start" /\ e.tag = "node" /\ e.attrs = NodeAttrs(id, p)
  BY DEF StartOf
<1>2. /\ DOMAIN NodeAttrs(id, p) = {"id", "lat", "lon"} /\ NodeAttrs(id, p).id = id
      /\ NodeAttrs(id, p).lat = p.lat /\ NodeAttrs(id, p).lon = p.lon
  BY DEF NodeAttrs
<1>3. IsNode(e) /\ e.attrs.id = id /\ At(e.attrs) = At(p)
  BY <1>1, <1>2 DEF IsNode, Carries, At
<1>4. s \in XmlStates
  BY DEF XmlGood
<1> HIDE DEF e
<1>5. OnEvent(s, e) = OnStart(s, e)
  BY <1>1 DEF OnEvent
<1>6. ~ (s.depth + 1 > MAX_XML_DEPTH)
  <2> SUFFICES ASSUME s.depth + 1 > MAX_XML_DEPTH PROVE FALSE
    OBVIOUS
  <2>1. OnEvent(s, e) = [s EXCEPT !.failed = TRUE]
    BY <1>5 DEF OnStart
  <2>2. [s EXCEPT !.failed = TRUE].failed = TRUE
    BY <1>4 DEF XmlStates
  <2> QED
    BY <2>1, <2>2 DEF e
<1>7. OnEvent(s, e) = u
  BY <1>1, <1>3, <1>5, <1>6 DEF OnStart
<1>8. t.data = s.data /\ {"data", "extent", "inNode", "at", "nodeTags"} \subseteq DOMAIN t
  BY <1>4 DEF XmlStates
<1> HIDE DEF t
<1> DEFINE b == UnionBounds(t.extent, Some(Around(At(e.attrs))))
           d == AddNode(s.data, id, At(p))
<1>9. InsertNode(t, e) = [t EXCEPT !.data = d, !.extent = b]
  BY <1>3, <1>8 DEF InsertNode
<1> HIDE DEF b, d
<1>10. u = [t EXCEPT !.data = d, !.extent = b, !.inNode = TRUE, !.at = At(p), !.nodeTags = NoTags]
  BY <1>3, <1>8, <1>9
<1>11. u.inNode /\ u.at = At(p) /\ u.nodeTags = NoTags /\ u.data = d
  BY <1>8, <1>10
<1> QED
  BY <1>7, <1>11 DEF e, d

TagIsIn(s, key, value, t) ==
  /\ t.inNode /\ t.at = s.at /\ t.data = s.data
  /\ t.nodeTags = IF key = "" THEN s.nodeTags ELSE Insert(s.nodeTags, key, XmlAttrValue(value))

LEMMA ReadTag ==
  ASSUME NEW s \in XmlGood, ~ s.failed, s.inNode, NEW key, NEW value
  PROVE  TagIsIn(s, key, value, OnEvent(s, EmptyTag("tag", [k |-> key, v |-> value])))
<1> DEFINE a == [k |-> key, v |-> value]
           e == EmptyTag("tag", a)
<1>1. e.on = "empty" /\ e.tag = "tag" /\ e.attrs = a
  BY DEF EmptyTag
<1>2. DOMAIN a = {"k", "v"} /\ a.k = key /\ a.v = value /\ a["v"] = value
  OBVIOUS
<1> HIDE DEF a, e
<1>3. Carries(e, {"k"}) /\ Carries(e, {"v"})
  BY <1>1, <1>2 DEF Carries
<1>4. AttrOf(e, "v") = <<value>>
  BY <1>1, <1>2, <1>3 DEF AttrOf, Some
<1>5. OrElse(AttrOf(e, "v"), <<"">>)[1] = value
  <2>1. <<value>> # << >> /\ <<value>>[1] = value
    OBVIOUS
  <2> QED
    BY <1>4, <2>1 DEF OrElse, None
<1>6. s \in XmlStates
  BY DEF XmlGood
<1>7. OnEvent(s, e) = OnEmpty(s, e)
  BY <1>1 DEF OnEvent
<1>8. OnEmpty(s, e) = TagIn(s, e)
  <2>1. ~ IsNode(e) /\ e.tag # "bounds"
    BY <1>1 DEF IsNode
  <2> QED
    BY <1>1, <2>1 DEF OnEmpty
<1>9. TagIn(s, e) = IF key = "" THEN s
                    ELSE [s EXCEPT !.nodeTags = Insert(@, key, XmlAttrValue(value))]
  BY <1>1, <1>2, <1>3, <1>5 DEF TagIn
<1> DEFINE n == Insert(s.nodeTags, key, XmlAttrValue(value))
<1>10. TagIn(s, e) = IF key = "" THEN s ELSE [s EXCEPT !.nodeTags = n]
  BY <1>6, <1>9 DEF XmlStates
<1> HIDE DEF n
<1>11. /\ [s EXCEPT !.nodeTags = n].inNode = s.inNode /\ [s EXCEPT !.nodeTags = n].at = s.at
       /\ [s EXCEPT !.nodeTags = n].data = s.data /\ [s EXCEPT !.nodeTags = n].nodeTags = n
  BY <1>6 DEF XmlStates
<1>12. OnEvent(s, e) = IF key = "" THEN s ELSE [s EXCEPT !.nodeTags = n]
  BY <1>7, <1>8, <1>10
<1>13. /\ OnEvent(s, e).inNode /\ OnEvent(s, e).at = s.at /\ OnEvent(s, e).data = s.data
       /\ OnEvent(s, e).nodeTags = IF key = "" THEN s.nodeTags ELSE n
  BY <1>11, <1>12
<1> QED
  BY <1>13 DEF e, a, n, TagIsIn

LEMMA EndNode ==
  ASSUME NEW s \in XmlGood, ~ s.failed, s.inNode
  PROVE  LET t == OnEvent(s, EndOf("node"))
         IN  ~ t.inNode /\ t.data = AddTagged(s.data, s.at, s.nodeTags)
<1> DEFINE e == EndOf("node")
           t == [s EXCEPT !.depth = Max({0, @ - 1})]
           d == AddTagged(s.data, s.at, s.nodeTags)
<1>1. e.on = "end" /\ e.tag = "node"
  BY DEF EndOf
<1> HIDE DEF e
<1>2. s \in XmlStates
  BY DEF XmlGood
<1>3. OnEvent(s, e) = [t EXCEPT !.inNode = FALSE, !.data = AddTagged(@, s.at, s.nodeTags)]
  BY <1>1 DEF OnEvent, OnEnd
<1>4. t.data = s.data /\ DOMAIN t = DOMAIN s /\ {"data", "inNode"} \subseteq DOMAIN s
  BY <1>2 DEF XmlStates
<1> HIDE DEF t, d
<1>5. OnEvent(s, e) = [t EXCEPT !.inNode = FALSE, !.data = d]
  BY <1>3, <1>4 DEF d
<1>6. OnEvent(s, e).inNode = FALSE /\ OnEvent(s, e).data = d
  BY <1>4, <1>5
<1> QED
  BY <1>6 DEF e, d

\* What is kept of nodes with tags.
Curated(d) == <<d.tagged, d.pois, d.addrs, d.trees>>

LEMMA QuietEvent ==
  ASSUME NEW s \in XmlGood, ~ s.inNode, NEW e, IsEvent(e), ~ Opens(e)
  PROVE  ~ OnEvent(s, e).inNode /\ Curated(OnEvent(s, e).data) = Curated(s.data)
<1> DEFINE Fields == {"data", "extent", "explicit", "inNode", "at", "nodeTags", "inWay", "inRelation",
                      "id", "tags", "refs", "members", "depth", "failed"}
           Parts  == {"nodes", "ways", "index", "relations", "bounds", "pois", "addrs", "trees", "tagged"}
           Quiet(t) == /\ DOMAIN t = Fields /\ DOMAIN t.data = Parts /\ t.inNode = FALSE
                       /\ t.data.tagged = s.data.tagged /\ t.data.pois = s.data.pois
                       /\ t.data.addrs = s.data.addrs /\ t.data.trees = s.data.trees
<1>1. Quiet(s)
  <2>1. s \in XmlStates /\ s.data \in Datas({"osm"})
    BY DEF XmlGood, XmlStates
  <2> QED
    BY <2>1 DEF XmlStates, Datas
<1>2. ASSUME NEW t, Quiet(t)
      PROVE  /\ \A b : Quiet([t EXCEPT !.failed = b]) /\ Quiet([t EXCEPT !.inWay = b])
                       /\ Quiet([t EXCEPT !.inRelation = b]) /\ Quiet([t EXCEPT !.depth = b])
                       /\ Quiet([t EXCEPT !.explicit = b]) /\ Quiet([t EXCEPT !.refs = b])
                       /\ Quiet([t EXCEPT !.members = b]) /\ Quiet([t EXCEPT !.tags = b])
             /\ \A a, b, c : /\ Quiet([t EXCEPT !.inWay = TRUE, !.id = a, !.tags = b, !.refs = c])
                             /\ Quiet([t EXCEPT !.inRelation = TRUE, !.id = a, !.tags = b, !.members = c])
             /\ \A a, b : Quiet([t EXCEPT !.data.nodes = a, !.extent = b])
             /\ \A a : Quiet([t EXCEPT !.data.ways = a]) /\ Quiet([t EXCEPT !.data.relations = a])
  BY <1>2
<1>3. ASSUME NEW t, Quiet(t)
      PROVE  /\ Quiet(Bounds(t, e)) /\ Quiet(InsertNode(t, e))
             /\ Quiet(TagIn(t, e)) /\ Quiet(MemberIn(t, e))
             /\ Quiet(EndWay(t)) /\ Quiet(EndRelation(t))
  <2>1. Quiet(Bounds(t, e))
    BY <1>2, <1>3 DEF Bounds
  <2>2. Quiet(InsertNode(t, e))
    <3> DEFINE d == AddNode(t.data, e.attrs.id, At(e.attrs))
               b == UnionBounds(t.extent, Some(Around(At(e.attrs))))
               n == Insert(t.data.nodes, e.attrs.id, At(e.attrs))
    <3>1. InsertNode(t, e) = [t EXCEPT !.data = d, !.extent = b] /\ d = [t.data EXCEPT !.nodes = n]
      BY <1>3 DEF InsertNode, AddNode
    <3> HIDE DEF d, b, n
    <3> QED
      BY <1>3, <3>1
  <2>3. Quiet(TagIn(t, e))
    BY <1>2, <1>3 DEF TagIn
  <2>4. Quiet(MemberIn(t, e))
    BY <1>2, <1>3 DEF MemberIn
  <2>5. Quiet(EndWay(t))
    BY <1>2, <1>3 DEF EndWay
  <2>6. Quiet(EndRelation(t))
    BY <1>2, <1>3 DEF EndRelation
  <2> QED
    BY <2>1, <2>2, <2>3, <2>4, <2>5, <2>6
<1> HIDE DEF Quiet
<1>4. e.on \in {"start", "empty", "end", "error"}
  BY Zenon DEF IsEvent
<1>5. Quiet(OnEvent(s, e))
  <2>1. CASE s.failed
    BY <1>1, <2>1 DEF OnEvent
  <2>2. CASE ~ s.failed /\ e.on = "start"
    <3> DEFINE t == [s EXCEPT !.depth = s.depth + 1]
               id == AttrOf(e, "id")
    <3>1. OnEvent(s, e) = OnStart(s, e)
      BY <2>2 DEF OnEvent
    <3>2. Quiet(t)
      BY <1>1, <1>2
    <3>3. CASE s.depth + 1 > MAX_XML_DEPTH
      <4>1. OnEvent(s, e) = [s EXCEPT !.failed = TRUE]
        BY <3>1, <3>3 DEF OnStart
      <4>2. Quiet([s EXCEPT !.failed = TRUE])
        BY <1>1, <1>2, Zenon
      <4> QED
        BY <4>1, <4>2
    <3>4. CASE ~ (s.depth + 1 > MAX_XML_DEPTH)
      <4>1. OnStart(s, e) =
              CASE e.tag = "bounds" -> Bounds(t, e)
                [] IsNode(e) ->
                     [InsertNode(t, e) EXCEPT !.inNode = TRUE, !.at = At(e.attrs), !.nodeTags = NoTags]
                [] e.tag = "way" -> [t EXCEPT !.inWay = TRUE, !.id = id, !.tags = NoTags, !.refs = << >>]
                [] e.tag = "relation" ->
                     [t EXCEPT !.inRelation = TRUE, !.id = id, !.tags = NoTags, !.members = << >>]
                [] OTHER -> t
        BY <3>4, Zenon DEF OnStart
      <4>2. ~ IsNode(e)
        BY <2>2 DEF IsNode, Opens
      <4> HIDE DEF t, id
      <4> DEFINE u == [t EXCEPT !.inWay = TRUE, !.id = id, !.tags = NoTags, !.refs = << >>]
                 v == [t EXCEPT !.inRelation = TRUE, !.id = id, !.tags = NoTags, !.members = << >>]
      <4>3. Quiet(u) /\ Quiet(v) /\ Quiet(Bounds(t, e))
        BY <1>2, <1>3, <3>2, Zenon
      <4>4. OnStart(s, e) \in {Bounds(t, e), u, v, t}
        <5> HIDE DEF u, v
        <5> QED
          BY <4>1, <4>2 DEF u, v
      <4>5. Quiet(OnStart(s, e))
        <5> HIDE DEF u, v
        <5> QED
          BY <3>2, <4>3, <4>4
      <4> QED
        BY <3>1, <4>5
    <3> QED
      BY <3>3, <3>4
  <2>3. CASE ~ s.failed /\ e.on = "empty"
    <3>1. OnEvent(s, e) = OnEmpty(s, e)
      BY <2>3 DEF OnEvent
    <3>2. \/ OnEmpty(s, e) \in {s, Bounds(s, e), InsertNode(s, e), TagIn(s, e), MemberIn(s, e)}
          \/ OnEmpty(s, e) = [s EXCEPT !.refs = Append(s.refs, e.attrs.ref)]
      BY DEF OnEmpty
    <3>3. Quiet([s EXCEPT !.refs = Append(s.refs, e.attrs.ref)])
      BY <1>1, <1>2, Zenon
    <3>4. Quiet(Bounds(s, e)) /\ Quiet(InsertNode(s, e)) /\ Quiet(TagIn(s, e)) /\ Quiet(MemberIn(s, e))
      BY <1>1, <1>3, Zenon
    <3> QED
      BY <1>1, <3>1, <3>2, <3>3, <3>4
  <2>4. CASE ~ s.failed /\ e.on = "end"
    <3> DEFINE t == [s EXCEPT !.depth = Max({0, s.depth - 1})]
    <3>1. OnEvent(s, e) = OnEnd(s, e)
      BY <2>4 DEF OnEvent
    <3>2. Quiet(t)
      BY <1>1, <1>2
    <3>3. OnEnd(s, e) = CASE e.tag = "way" /\ s.inWay -> [EndWay(t) EXCEPT !.inWay = FALSE]
                          [] e.tag = "relation" /\ s.inRelation -> [EndRelation(t) EXCEPT !.inRelation = FALSE]
                          [] OTHER -> t
      BY DEF OnEnd
    <3> HIDE DEF t
    <3>4. Quiet([EndWay(t) EXCEPT !.inWay = FALSE]) /\ Quiet([EndRelation(t) EXCEPT !.inRelation = FALSE])
      BY <1>2, <1>3, <3>2, Zenon
    <3> QED
      BY <3>1, <3>2, <3>3, <3>4
  <2>5. CASE ~ s.failed /\ e.on = "error"
    BY <1>1, <1>2, <2>5 DEF OnEvent
  <2> QED
    BY <1>4, <2>1, <2>2, <2>3, <2>4, <2>5
<1> QED
  BY <1>5 DEF Quiet, Curated

\* h has what the reader holds after each event of a document it can read.
Reads(h, events) ==
  /\ h \in [0 .. Len(events) -> XmlGood]
  /\ \A k \in 1 .. Len(events) : h[k] = OnEvent(h[k - 1], events[k])
  /\ \A k \in 0 .. Len(events) : ~ h[k].failed

LEMMA ReadsDocument ==
  ASSUME NEW events, IsEvents(events), ParseXml(events) # None
  PROVE  /\ Len(events) \in Nat
         /\ \E h : /\ Reads(h, events) /\ h[0] = NewParse
                   /\ Curated(ParseXml(events)[1]) = Curated(h[Len(events)].data)
<1> DEFINE U == Range(events)
           n == Len(events)
           s == FoldLeft(OnEvent, NewParse, events)
<1>1. events \in Seq(U) /\ \A e \in U : IsEvent(e)
  BY DEF IsEvents, IsList
<1> HIDE DEF U
<1>2. \A v \in XmlGood, u \in U : OnEvent(v, u) \in XmlGood
  BY <1>1, TextsAreBlanked, OnEventGood
<1>3. PICK h : XmlRun(h, XmlGood, NewParse, events)
  BY <1>1, <1>2, NewParseGood, XmlSteps
<1>4. n \in Nat
  BY <1>1
<1> HIDE DEF s
<1>5. h \in [0 .. n -> XmlGood] /\ h[0] = NewParse /\ h[n] = s
  BY <1>3, Zenon DEF XmlRun, Chain, s
<1>6. \A k \in 1 .. n : h[k] = OnEvent(h[k - 1], events[k])
  BY <1>3, Zenon DEF XmlRun
<1> DEFINE d == WithWays(s.data, s.data.ways)
           b == OrElse(s.explicit, s.extent)
<1>7. ParseXml(events) = IF s.failed THEN None ELSE Some([d EXCEPT !.bounds = b])
  BY Zenon DEF ParseXml, s
<1>8. ~ s.failed /\ ParseXml(events)[1] = [d EXCEPT !.bounds = b]
  BY <1>7 DEF Some
<1>9. Curated([d EXCEPT !.bounds = b]) = Curated(s.data)
  <2>1. s.data \in Datas({"osm"})
    BY <1>4, <1>5, XmlData
  <2> QED
    BY <2>1 DEF Datas, WithWays, Curated
<1>10. \A k \in 0 .. n : ~ h[k].failed
  <2> SUFFICES ASSUME NEW k \in 0 .. n, h[k].failed
               PROVE  FALSE
    OBVIOUS
  <2> DEFINE G == {j \in 0 .. n : j < k \/ h[j] = h[k]}
  <2>1. G \in SUBSET (0 .. n) /\ 0 \in G
    BY <1>4
  <2>2. ASSUME NEW j \in 1 .. n, j - 1 \in G
        PROVE  j \in G
    <3>1. CASE j - 1 < k /\ j # k
      BY <1>4, <3>1
    <3>2. CASE j = k
      BY <1>4, <3>2
    <3>3. CASE ~ (j - 1 < k) /\ j # k
      <4>1. h[j - 1] = h[k]
        BY <2>2, <3>3
      <4>2. h[j] = h[j - 1]
        BY <1>6, <4>1 DEF OnEvent
      <4> QED
        BY <1>4, <4>1, <4>2
    <3> QED
      BY <3>1, <3>2, <3>3
  <2>3. n \in G
    <3> HIDE DEF G, n
    <3>1. \A j \in 0 .. n : j \in G
      BY <1>4, <2>1, <2>2, EveryStep
    <3> QED
      BY <1>4, <3>1
  <2> QED
    BY <1>4, <1>5, <1>8, <2>3
<1>11. Reads(h, events)
  BY <1>5, <1>6, <1>10 DEF Reads
<1> HIDE DEF d, b
<1> QED
  BY <1>4, <1>5, <1>8, <1>9, <1>11

\* The events of an element, by their places.
LEMMA ElementPlaces ==
  ASSUME NEW tag, NEW attrs, NEW V, NEW content \in Seq(V)
  PROVE  LET c == Element(tag, attrs, content)
             n == Len(content)
         IN  /\ n \in Nat /\ Len(c) = n + 2
             /\ c[1] = StartOf(tag, attrs) /\ c[n + 2] = EndOf(tag)
             /\ \A j \in 1 .. n : c[j + 1] = content[j]
<1> DEFINE a == StartOf(tag, attrs)
           b == EndOf(tag)
           W == V \cup {a, b}
<1>1. Element(tag, attrs, content) = (<<a>> \o content) \o <<b>>
  BY DEF Element
<1> HIDE DEF a, b
<1>2. content \in Seq(W) /\ <<a>> \in Seq(W) /\ <<b>> \in Seq(W)
  OBVIOUS
<1> HIDE DEF W
<1> DEFINE x == <<a>> \o content
           n == Len(content)
<1>3. /\ x \in Seq(W) /\ Len(x) = n + 1 /\ x[1] = a
      /\ \A j \in 1 .. n : x[1 + j] = content[j]
  BY <1>2
<1> HIDE DEF x
<1>4. /\ Len(x \o <<b>>) = n + 2 /\ (x \o <<b>>)[n + 2] = b
      /\ \A j \in 1 .. (n + 1) : (x \o <<b>>)[j] = x[j]
  BY <1>2, <1>3
<1>5. n \in Nat
  OBVIOUS
<1>6. \A j \in 1 .. n : (x \o <<b>>)[j + 1] = content[j]
  BY <1>3, <1>4, <1>5
<1> HIDE DEF n
<1> QED
  BY <1>1, <1>3, <1>4, <1>5, <1>6 DEF a, b, x, n

\* The tags of an element, by their places.
LEMMA TagPlaces ==
  ASSUME NEW tags \in TagMaps
  PROVE  LET keys == SetToSeq(DOMAIN tags)
             n == Len(WriteTags(tags))
         IN  /\ n \in Nat /\ WriteTags(tags) \in Seq(Range(WriteTags(tags)))
             /\ {keys[k] : k \in 1 .. n} = DOMAIN tags
             /\ \A k \in 1 .. n : WriteTags(tags)[k] = EmptyTag("tag", [k |-> keys[k], v |-> tags[keys[k]]])
<1> DEFINE keys == SetToSeq(DOMAIN tags)
           c == Cardinality(DOMAIN tags)
           s == WriteTags(tags)
<1>1. IsFiniteSet(DOMAIN tags)
  BY TagMapIs
<1>2. c \in Nat /\ keys \in [1 .. c -> DOMAIN tags] /\ DOMAIN keys = 1 .. c
  BY <1>1, KeysListed
<1>3. \A x \in DOMAIN tags : \E k \in 1 .. c : keys[k] = x
  BY <1>1, KeysEach
<1>4. s = [k \in DOMAIN keys |-> EmptyTag("tag", [k |-> keys[k], v |-> tags[keys[k]]])]
  BY Zenon DEF WriteTags
<1> HIDE DEF keys, c, s
<1>5. \A k \in 1 .. c : s[k] = EmptyTag("tag", [k |-> keys[k], v |-> tags[keys[k]]])
  BY <1>2, <1>4
<1>6. DOMAIN s = 1 .. c /\ s = [k \in 1 .. c |-> s[k]]
  BY <1>2, <1>4
<1>7. s \in Seq(Range(s)) /\ Len(s) = c
  BY <1>2, <1>6 DEF Range
<1>8. {keys[k] : k \in 1 .. c} = DOMAIN tags
  BY <1>2, <1>3
<1> QED
  BY <1>2, <1>5, <1>7, <1>8 DEF keys, s

\* A node is read with the tags that were written, in whatever order.
LEMMA NodeRead ==
  ASSUME NEW events, Len(events) \in Nat, NEW h, Reads(h, events),
         NEW id, NEW p, NEW tags \in TagMaps, NEW i \in Nat, NEW c,
         c = Element("node", NodeAttrs(id, p), WriteTags(tags)),
         i + Len(c) <= Len(events), \A j \in 1 .. Len(c) : events[i + j] = c[j]
  PROVE  LET t == h[i + Len(c)]
         IN  ~ t.inNode /\ t.data = AddTagged(AddNode(h[i].data, id, At(p)), At(p), AsRead(tags))
<1> DEFINE w == WriteTags(tags)
           keys == SetToSeq(DOMAIN tags)
           n == Len(w)
           N == Len(events)
           d == AddNode(h[i].data, id, At(p))
           SoFar(j) == [key \in {keys[x] : x \in 1 .. j} \ {""} |-> XmlAttrValue(tags[key])]
<1>1. /\ n \in Nat /\ {keys[k] : k \in 1 .. n} = DOMAIN tags
      /\ \A k \in 1 .. n : w[k] = EmptyTag("tag", [k |-> keys[k], v |-> tags[keys[k]]])
  BY TagPlaces
<1>2. /\ Len(c) = n + 2
      /\ c[1] = StartOf("node", NodeAttrs(id, p)) /\ c[n + 2] = EndOf("node")
      /\ \A j \in 1 .. n : c[j + 1] = w[j]
  <2>1. w \in Seq(Range(w))
    BY TagPlaces
  <2> HIDE DEF w, n
  <2> QED
    BY <2>1, ElementPlaces DEF w, n
<1>3. /\ \A j \in 0 .. N : h[j] \in XmlGood /\ ~ h[j].failed
      /\ \A j \in 1 .. N : h[j] = OnEvent(h[j - 1], events[j])
  BY DEF Reads
<1> HIDE DEF w, keys, n, d
<1>4. N \in Nat /\ i + n + 2 <= N /\ \A j \in 1 .. (n + 2) : events[i + j] = c[j]
  BY <1>1, <1>2
<1>5. h[i + 1].inNode /\ h[i + 1].at = At(p) /\ h[i + 1].nodeTags = NoTags /\ h[i + 1].data = d
  <2>1. i \in 0 .. N /\ i + 1 \in 1 .. N /\ i + 1 \in 0 .. N /\ (i + 1) - 1 = i /\ 1 \in 1 .. (n + 2)
    BY <1>1, <1>4
  <2>2. h[i + 1] = OnEvent(h[i], StartOf("node", NodeAttrs(id, p)))
    <3>1. h[i + 1] = OnEvent(h[i], events[i + 1])
      BY <1>3, <2>1
    <3>2. events[i + 1] = c[1]
      BY <1>4, <2>1
    <3> QED
      BY <1>2, <3>1, <3>2
  <2>3. h[i] \in XmlGood /\ ~ h[i].failed /\ ~ h[i + 1].failed
    BY <1>3, <2>1
  <2> QED
    BY <2>2, <2>3, StartNode DEF d
<1> DEFINE In(j) == LET t == h[i + 1 + j]
                    IN  t.inNode /\ t.at = At(p) /\ t.data = d /\ t.nodeTags = SoFar(j)
           G == {j \in 0 .. n : In(j)}
<1>6. In(0)
  <2>1. SoFar(0) = << >>
    <3>1. {keys[x] : x \in 1 .. 0} \ {""} = {}
      OBVIOUS
    <3> QED
      BY <3>1
  <2>2. i + 1 + 0 = i + 1
    OBVIOUS
  <2> QED
    BY <1>5, <2>1, <2>2 DEF NoTags
<1>7. ASSUME NEW j \in 1 .. n, In(j - 1)
      PROVE  In(j)
  <2> DEFINE s == h[i + 1 + (j - 1)]
             key == keys[j]
             value == tags[key]
             t == h[i + 1 + j]
  <2>1. /\ i + 1 + (j - 1) \in 0 .. N /\ i + 1 + j \in 1 .. N /\ (i + 1 + j) - 1 = i + 1 + (j - 1)
        /\ j + 1 \in 1 .. (n + 2) /\ i + (j + 1) = i + 1 + j
    BY <1>1, <1>4
  <2>2. events[i + 1 + j] = EmptyTag("tag", [k |-> key, v |-> tags[key]])
    <3>1. events[i + (j + 1)] = c[j + 1]
      BY <1>4, <2>1
    <3>2. c[j + 1] = w[j] /\ w[j] = EmptyTag("tag", [k |-> keys[j], v |-> tags[keys[j]]])
      BY <1>1, <1>2
    <3> QED
      BY <2>1, <3>1, <3>2
  <2>3. t = OnEvent(s, EmptyTag("tag", [k |-> key, v |-> value])) /\ s \in XmlGood /\ ~ s.failed
    BY <1>3, <2>1, <2>2
  <2>4. s.inNode /\ s.at = At(p) /\ s.data = d /\ s.nodeTags = SoFar(j - 1)
    BY <1>7
  <2>5. /\ t.inNode /\ t.at = At(p) /\ t.data = d
        /\ t.nodeTags = IF key = "" THEN SoFar(j - 1) ELSE Insert(SoFar(j - 1), key, XmlAttrValue(value))
    <3> DEFINE before == SoFar(j - 1)
    <3>1. s.nodeTags = before
      BY <2>4
    <3> HIDE DEF s, key, t, value, before
    <3>2. /\ t.inNode /\ t.at = s.at /\ t.data = s.data
          /\ t.nodeTags = IF key = "" THEN s.nodeTags ELSE Insert(s.nodeTags, key, XmlAttrValue(value))
      <4>1. s \in XmlGood /\ ~ s.failed /\ s.inNode
        BY <2>3, <2>4
      <4>2. t = OnEvent(s, EmptyTag("tag", [k |-> key, v |-> value]))
        BY <2>3
      <4>3. TagIsIn(s, key, value, OnEvent(s, EmptyTag("tag", [k |-> key, v |-> value])))
        BY <4>1, ReadTag
      <4> QED
        BY <4>2, <4>3, Zenon DEF TagIsIn
    <3>3. s.at = At(p) /\ s.data = d
      BY <2>4
    <3>4. /\ t.inNode /\ t.at = At(p) /\ t.data = d
          /\ t.nodeTags = IF key = "" THEN before ELSE Insert(before, key, XmlAttrValue(value))
      BY <3>1, <3>2, <3>3
    <3> QED
      BY <3>4 DEF before
  <2>6. {keys[x] : x \in 1 .. j} = {keys[x] : x \in 1 .. (j - 1)} \cup {key}
    <3>1. 1 .. j = (1 .. (j - 1)) \cup {j}
      BY <1>1
    <3> QED
      BY <3>1
  <2>7. CASE key = ""
    <3>1. {keys[x] : x \in 1 .. j} \ {""} = {keys[x] : x \in 1 .. (j - 1)} \ {""}
      BY <2>6, <2>7
    <3>2. SoFar(j) = SoFar(j - 1)
      BY <3>1
    <3> QED
      BY <2>5, <2>7, <3>2
  <2>8. CASE key # ""
    <3> DEFINE K == {keys[x] : x \in 1 .. (j - 1)} \ {""}
               L == {keys[x] : x \in 1 .. j} \ {""}
    <3>1. L = K \cup {key}
      BY <2>6, <2>8
    <3>2. SoFar(j - 1) = [x \in K |-> XmlAttrValue(tags[x])] /\ SoFar(j) = [x \in L |-> XmlAttrValue(tags[x])]
      OBVIOUS
    <3> HIDE DEF K, L, key
    <3>3. Insert([x \in K |-> XmlAttrValue(tags[x])], key, XmlAttrValue(value)) = [x \in L |-> XmlAttrValue(tags[x])]
      BY <3>1 DEF Insert
    <3>4. SoFar(j) = Insert(SoFar(j - 1), key, XmlAttrValue(value))
      BY <3>2, <3>3
    <3> QED
      BY <2>5, <2>8, <3>4
  <2> QED
    BY <2>7, <2>8
<1>8. In(n)
  <2>1. G \in SUBSET (0 .. n) /\ 0 \in G
    <3> HIDE DEF In
    <3> QED
      BY <1>1, <1>6
  <2>2. \A j \in 1 .. n : j - 1 \in G => j \in G
    <3> HIDE DEF In
    <3> QED
      BY <1>1, <1>7
  <2>3. \A j \in 0 .. n : j \in G
    <3> HIDE DEF G
    <3> QED
      BY <1>1, <2>1, <2>2, EveryStep
  <2>4. n \in 0 .. n
    BY <1>1
  <2> QED
    BY <2>3, <2>4
<1>9. SoFar(n) = AsRead(tags)
  BY <1>1 DEF AsRead
<1> QED
  <2> DEFINE s == h[i + 1 + n]
             t == h[i + Len(c)]
  <2>1. /\ i + 1 + n \in 0 .. N /\ i + Len(c) \in 1 .. N /\ (i + Len(c)) - 1 = i + 1 + n
        /\ n + 2 \in 1 .. (n + 2) /\ i + (n + 2) = i + Len(c)
    BY <1>1, <1>2, <1>4
  <2>2. events[i + Len(c)] = EndOf("node")
    BY <1>2, <1>4, <2>1
  <2>3. t = OnEvent(s, EndOf("node")) /\ s \in XmlGood /\ ~ s.failed
    BY <1>3, <2>1, <2>2
  <2>4. s.inNode /\ s.at = At(p) /\ s.data = d /\ s.nodeTags = AsRead(tags)
    BY <1>8, <1>9
  <2>5. ~ t.inNode /\ t.data = AddTagged(d, At(p), AsRead(tags))
    <3> HIDE DEF s, t
    <3> QED
      BY <2>3, <2>4, EndNode
  <2> QED
    BY <2>5 DEF d

LEMMA TaggedGrows ==
  ASSUME NEW d \in Datas({"osm"}), NEW p \in Points, NEW tags
  PROVE  LET e   == AddTagged(d, p, tags)
             poi == Poi(p, tags, "osm")
         IN  /\ Range(e.tagged) = Range(d.tagged) \cup IF tags # NoTags THEN {poi} ELSE {}
             /\ Range(e.pois)   = Range(d.pois) \cup IF IsPoi(tags) THEN {poi} ELSE {}
             /\ Range(e.addrs)  = Range(d.addrs) \cup IF IsAddr(tags) THEN {poi} ELSE {}
             /\ Range(e.trees)  = Range(d.trees) \cup IF IsTree(tags) THEN {At(p)} ELSE {}
<1> DEFINE poi == Poi(p, tags, "osm")
           If(cond, x) == IF cond THEN <<x>> ELSE << >>
<1>1. ASSUME NEW V, NEW s \in Seq(V), NEW x, NEW cond
      PROVE  Range(s \o If(cond, x)) = Range(s) \cup IF cond THEN {x} ELSE {}
  <2>1. CASE cond
    <3> DEFINE t == s \o <<x>>
    <3>1. /\ DOMAIN t = 1 .. (Len(s) + 1) /\ t[Len(s) + 1] = x
          /\ \A k \in 1 .. Len(s) : t[k] = s[k]
      OBVIOUS
    <3>2. Len(s) \in Nat /\ DOMAIN s = 1 .. Len(s)
      OBVIOUS
    <3> HIDE DEF t
    <3>3. 1 .. (Len(s) + 1) = (1 .. Len(s)) \cup {Len(s) + 1}
      BY <3>2
    <3>4. Range(t) = Range(s) \cup {x}
      BY <3>1, <3>2, <3>3 DEF Range
    <3> QED
      BY <2>1, <3>4 DEF t
  <2>2. CASE ~ cond
    <3>1. s \o << >> = s
      OBVIOUS
    <3> QED
      BY <2>2, <3>1
  <2> QED
    BY <2>1, <2>2
<1>2. /\ d.tagged \in Seq(PoisOf({"osm"})) /\ d.pois \in Seq(PoisOf({"osm"}))
      /\ d.addrs \in Seq(PoisOf({"osm"})) /\ d.trees \in Seq(Points)
      /\ {"tagged", "pois", "addrs", "trees"} \subseteq DOMAIN d
  BY DEF Datas
<1>3. AddTagged(d, p, tags) =
        [d EXCEPT !.tagged = d.tagged \o If(tags # NoTags, poi), !.pois = d.pois \o If(IsPoi(tags), poi),
                  !.addrs = d.addrs \o If(IsAddr(tags), poi), !.trees = d.trees \o If(IsTree(tags), At(p))]
  BY DEF AddTagged
<1> HIDE DEF poi, If
<1>4. /\ AddTagged(d, p, tags).tagged = d.tagged \o If(tags # NoTags, poi)
      /\ AddTagged(d, p, tags).pois = d.pois \o If(IsPoi(tags), poi)
      /\ AddTagged(d, p, tags).addrs = d.addrs \o If(IsAddr(tags), poi)
      /\ AddTagged(d, p, tags).trees = d.trees \o If(IsTree(tags), At(p))
  BY <1>2, <1>3
<1>5. /\ Range(d.tagged \o If(tags # NoTags, poi)) = Range(d.tagged) \cup IF tags # NoTags THEN {poi} ELSE {}
      /\ Range(d.pois \o If(IsPoi(tags), poi)) = Range(d.pois) \cup IF IsPoi(tags) THEN {poi} ELSE {}
      /\ Range(d.addrs \o If(IsAddr(tags), poi)) = Range(d.addrs) \cup IF IsAddr(tags) THEN {poi} ELSE {}
  BY <1>1, <1>2
<1>6. Range(d.trees \o If(IsTree(tags), At(p))) = Range(d.trees) \cup IF IsTree(tags) THEN {At(p)} ELSE {}
  BY <1>1, <1>2
<1> QED
  BY <1>4, <1>5, <1>6 DEF poi

LEMMA QuietRead ==
  ASSUME NEW events, IsEvents(events), NEW N \in Nat, N = Len(events), NEW h, Reads(h, events),
         NEW a \in 0 .. N, ~ h[a].inNode, \A k \in (a + 1) .. N : ~ Opens(events[k])
  PROVE  Curated(h[N].data) = Curated(h[a].data)
<1> DEFINE G == {j \in 0 .. N : j < a \/ (~ h[j].inNode /\ Curated(h[j].data) = Curated(h[a].data))}
<1>1. /\ \A j \in 0 .. N : h[j] \in XmlGood
      /\ \A j \in 1 .. N : h[j] = OnEvent(h[j - 1], events[j])
  BY DEF Reads
<1>2. \A j \in 1 .. N : IsEvent(events[j])
  BY DEF IsEvents, IsList, Range
<1>3. G \in SUBSET (0 .. N) /\ 0 \in G
  <2>1. ~ (0 < a) => a = 0
    OBVIOUS
  <2> QED
    BY <2>1
<1>4. ASSUME NEW j \in 1 .. N, j - 1 \in G
      PROVE  j \in G
  <2>1. CASE j < a
    BY <2>1
  <2>2. CASE j = a
    BY <2>2
  <2>3. CASE j > a
    <3>1. j - 1 \in 0 .. N /\ ~ (j - 1 < a) /\ j \in (a + 1) .. N
      BY <2>3
    <3>2. ~ h[j - 1].inNode /\ Curated(h[j - 1].data) = Curated(h[a].data)
      BY <1>4, <3>1
    <3>3. h[j - 1] \in XmlGood /\ IsEvent(events[j]) /\ ~ Opens(events[j])
      BY <1>1, <1>2, <3>1
    <3>4. ~ OnEvent(h[j - 1], events[j]).inNode /\
          Curated(OnEvent(h[j - 1], events[j]).data) = Curated(h[j - 1].data)
      BY <3>2, <3>3, QuietEvent
    <3> QED
      BY <1>1, <3>2, <3>4
  <2> QED
    BY <2>1, <2>2, <2>3
<1>5. \A j \in 0 .. N : j \in G
  <2> HIDE DEF G
  <2> QED
    BY <1>3, <1>4, EveryStep
<1> QED
  BY <1>5

\* The element of node p is in the document after its first i events, and what
\* the reader holds behind it.
NodeAt(events, h, i, id, p, tags) ==
  LET c == Element("node", NodeAttrs(id, p), WriteTags(tags))
  IN  /\ Len(events) \in Nat /\ Reads(h, events) /\ tags \in TagMaps /\ i \in Nat
      /\ i + Len(c) <= Len(events) /\ \A j \in 1 .. Len(c) : events[i + j] = c[j]
ReadBehind(h, i, id, p, tags) ==
  LET t == h[i + Len(Element("node", NodeAttrs(id, p), WriteTags(tags)))]
  IN  ~ t.inNode /\ t.data = AddTagged(AddNode(h[i].data, id, At(p)), At(p), AsRead(tags))

LEMMA NodeReadAt ==
  ASSUME NEW events, NEW h, NEW i, NEW id, NEW p, NEW tags, NodeAt(events, h, i, id, p, tags)
  PROVE  ReadBehind(h, i, id, p, tags)
<1>1. PICK c : c = Element("node", NodeAttrs(id, p), WriteTags(tags))
  OBVIOUS
<1>2. /\ Len(events) \in Nat /\ Reads(h, events) /\ tags \in TagMaps /\ i \in Nat
      /\ i + Len(c) <= Len(events) /\ \A j \in 1 .. Len(c) : events[i + j] = c[j]
  BY <1>1, Zenon DEF NodeAt
<1>3. LET t == h[i + Len(c)]
      IN  ~ t.inNode /\ t.data = AddTagged(AddNode(h[i].data, id, At(p)), At(p), AsRead(tags))
  BY <1>1, <1>2, NodeRead
<1> QED
  BY <1>1, <1>3, Zenon DEF ReadBehind

\* Every node with tags is in a curated collection.
AllCurated(d) ==
  \A p \in Range(d.tagged) : p \in Range(d.pois) \cup Range(d.addrs) \/ At(p) \in Range(d.trees)
IsCurated(tags) == IsPoi(tags) \/ IsAddr(tags) \/ IsTree(tags)

\* The nodes of the answer are there with their tags as they are read, and
\* nothing else is that has tags.
LEMMA AnswerRead ==
  ASSUME NEW query, NEW area, NEW events, events = Answer(query, area), ParseXml(events) # None
  PROVE  LET d     == ParseXml(events)[1]
             nodes == {n \in Range(World.nodes) : Inside(n, area) /\ Asked(query, "node", n.tags)}
         IN  /\ \A n \in nodes : AsRead(n.tags) # NoTags => Poi(n, AsRead(n.tags), "osm") \in Range(d.tagged)
             /\ (\A n \in nodes : IsCurated(AsRead(n.tags))) => AllCurated(d)
<1> DEFINE ids == {id \in DOMAIN World.nodes :
                     Inside(World.nodes[id], area) /\ Asked(query, "node", World.nodes[id].tags)}
           body == InOrder(ids)
           n == Cardinality(ids)
           Node(k) == World.nodes[body[k]]
           TagsAt(k) == Node(k).tags
           One(k) == Element("node", NodeAttrs(body[k], Node(k)), WriteTags(TagsAt(k)))
           S == [k \in DOMAIN body |-> One(k)]
           A == FlattenSeq(S)
           N == Len(events)
           nodes == {x \in Range(World.nodes) : Inside(x, area) /\ Asked(query, "node", x.tags)}
<1>1. PICK rest : IsQuiet(rest) /\ events = A \o rest
  <2> HIDE DEF ids
  <2> QED
    BY AnswerParts DEF ids
<1>2. IsEvents(A) /\ IsEvents(rest)
  <2>1. ids \in SUBSET DOMAIN World.nodes
    OBVIOUS
  <2> HIDE DEF ids
  <2> QED
    BY <1>1, <2>1, NodesAnswered DEF IsQuiet
<1>3. /\ n \in Nat /\ DOMAIN body = 1 .. n
      /\ \A k \in 1 .. n : body[k] \in ids
      /\ \A id \in ids : \E k \in 1 .. n : body[k] = id
  <2>1. ids \in SUBSET Int /\ IsFiniteSet(ids)
    BY WorldTyped, FS_Subset
  <2> HIDE DEF ids
  <2>2. Enumerates(body, ids) /\ n \in Nat
    BY <2>1, InOrderEnumerates, FS_CardinalityType
  <2> QED
    BY <2>2 DEF Enumerates
<1>4. /\ \A k \in 1 .. n : Node(k) \in nodes /\ body[k] \in Int /\ At(Node(k)) \in Points /\ TagsAt(k) \in TagMaps
      /\ \A x \in nodes : \E k \in 1 .. n : x = Node(k)
  <2>1. \A id \in ids : World.nodes[id] \in nodes
    BY DEF Range
  <2>2. \A x \in nodes : \E id \in ids : x = World.nodes[id]
    BY DEF Range
  <2>3. \A id \in ids : id \in Int /\ At(World.nodes[id]) \in Points /\ World.nodes[id].tags \in TagMaps
    BY WorldTyped DEF At, Point, Points
  <2> HIDE DEF ids, nodes, body, n
  <2> QED
    BY <1>3, <2>1, <2>2, <2>3
<1>5. PICK h : /\ Reads(h, events) /\ h[0] = NewParse
               /\ Curated(ParseXml(events)[1]) = Curated(h[N].data)
  <2>1. IsEvents(events)
    BY <1>1, <1>2, EventsJoin
  <2> QED
    BY <2>1, ReadsDocument
<1>6. IsEvents(events) /\ N \in Nat
  BY <1>1, <1>2, EventsJoin, ReadsDocument
<1> HIDE DEF ids, body, n, Node, nodes
<1>7. /\ S \in Seq(Seq(UNION {Range(One(k)) : k \in 1 .. n})) /\ Len(S) = n
      /\ \A k \in 1 .. n : S[k] = One(k)
  <2> DEFINE V == UNION {Range(One(k)) : k \in 1 .. n}
  <2>1. ASSUME NEW k \in 1 .. n
        PROVE  One(k) \in Seq(V)
    <3>1. IsAttrs(NodeAttrs(body[k], Node(k))) /\ IsEvents(WriteTags(TagsAt(k)))
      <4>1. Node(k).lat \in Int /\ Node(k).lon \in Int
        BY <1>4 DEF At, Point, Points
      <4> QED
        BY <1>4, <4>1, AttrsAre, TagsWritten
    <3>2. IsEvents(One(k))
      <4> HIDE DEF Node, TagsAt
      <4> QED
        BY <3>1, ElementIs
    <3> HIDE DEF One
    <3>3. One(k) \in Seq(Range(One(k))) /\ Range(One(k)) \subseteq V
      BY <3>2 DEF IsEvents, IsList
    <3> HIDE DEF V
    <3> QED
      BY <3>3
  <2> HIDE DEF V, One
  <2>3. S = [k \in 1 .. n |-> One(k)]
    BY <1>3
  <2> HIDE DEF S
  <2>4. S \in Seq(Seq(V)) /\ Len(S) = n /\ \A k \in 1 .. n : S[k] = One(k)
    BY <1>3, <2>1, <2>3
  <2> QED
    BY <2>4 DEF V
<1> HIDE DEF S
<1>8. PICK off : Placed(S, off)
  BY <1>7, FlattenPlaces
<1> HIDE DEF One, A
<1>9. /\ off \in [0 .. n -> Nat] /\ off[0] = 0 /\ off[n] = Len(A)
      /\ \A k \in 1 .. n : /\ off[k] = off[k - 1] + Len(One(k)) /\ off[k] <= Len(A)
                           /\ \A j \in 1 .. Len(One(k)) : A[off[k - 1] + j] = One(k)[j]
  BY <1>7, <1>8, SMTT(20) DEF Placed, A
<1>10. /\ Len(A) \in Nat /\ Len(A) <= N
       /\ \A j \in 1 .. Len(A) : events[j] = A[j]
       /\ \A j \in (Len(A) + 1) .. N : ~ Opens(events[j])
  <2> DEFINE x == Range(A)
             y == Range(rest)
  <2>1. A \in Seq(x) /\ rest \in Seq(y) /\ \A e \in y : ~ Opens(e)
    BY <1>1, <1>2 DEF IsEvents, IsList, IsQuiet
  <2> HIDE DEF x, y
  <2>2. A \in Seq(x \cup y) /\ rest \in Seq(x \cup y)
    BY <2>1
  <2> DEFINE a == Len(A)
             b == Len(rest)
  <2>3. /\ a \in Nat /\ b \in Nat /\ N = a + b
        /\ \A j \in 1 .. a : events[j] = A[j]
        /\ \A j \in 1 .. b : events[a + j] = rest[j]
    BY <1>1, <2>2, Concat
  <2>4. \A j \in 1 .. b : rest[j] \in y
    BY <2>1
  <2> HIDE DEF a, b, N
  <2>5. \A j \in (a + 1) .. N : j - a \in 1 .. b /\ a + (j - a) = j
    BY <2>3
  <2>6. \A j \in (a + 1) .. N : events[j] \in y
    BY <2>3, <2>4, <2>5
  <2> QED
    BY <2>1, <2>3, <2>6 DEF a
<1> DEFINE good == \A k \in 1 .. n : IsCurated(AsRead(TagsAt(k)))
           Read(k) == Poi(Node(k), AsRead(TagsAt(k)), "osm")
           State(k) == LET t == h[off[k]]
                       IN  /\ ~ t.inNode /\ (good => AllCurated(t.data))
                           /\ \A i \in 1 .. k : AsRead(TagsAt(i)) # NoTags => Read(i) \in Range(t.data.tagged)
<1>11. State(0)
  <2>1. h[off[0]].data = EmptyData /\ h[off[0]].inNode = FALSE
    BY <1>5, <1>9 DEF NewParse
  <2>2. Range(EmptyData.tagged) = {}
    BY DEF EmptyData, Range
  <2> QED
    BY <2>1, <2>2 DEF AllCurated
<1>12. ASSUME NEW k \in 1 .. n, State(k - 1)
       PROVE  State(k)
  <2> DEFINE i == off[k - 1]
             p == At(Node(k))
             read == AsRead(TagsAt(k))
             d == AddNode(h[i].data, body[k], p)
             e == AddTagged(d, p, read)
  <2>1. /\ i \in Nat /\ Len(One(k)) \in Nat /\ off[k] = i + Len(One(k)) /\ off[k] <= N
        /\ \A j \in 1 .. Len(One(k)) : events[i + j] = One(k)[j]
    <3> DEFINE l == Len(One(k))
               a == Len(A)
    <3>1. i \in Nat /\ l \in Nat
      <4>1. k - 1 \in 0 .. n
        BY <1>3
      <4>2. S[k] = One(k) /\ k \in 1 .. Len(S)
        BY <1>7
      <4> DEFINE V == UNION {Range(One(x)) : x \in 1 .. n}
      <4>3. S \in Seq(Seq(V))
        BY <1>7
      <4> HIDE DEF V
      <4>4. One(k) \in Seq(V)
        BY <4>2, <4>3
      <4> QED
        BY <1>9, <4>1, <4>4
    <3>2. /\ off[k] = i + l /\ off[k] <= a
          /\ \A j \in 1 .. l : A[i + j] = One(k)[j]
      BY <1>9
    <3>3. a \in Nat /\ a <= N /\ \A j \in 1 .. a : events[j] = A[j]
      BY <1>10
    <3> HIDE DEF i, l, a, N
    <3>4. \A j \in 1 .. l : i + j \in 1 .. a
      BY <3>1, <3>2, <3>3
    <3>5. off[k] <= N
      BY <1>6, <3>1, <3>2, <3>3
    <3> QED
      BY <3>1, <3>2, <3>3, <3>4, <3>5 DEF l
  <2>2. i \in 0 .. N
    <3> DEFINE l == Len(One(k))
    <3>1. i \in Nat /\ l \in Nat /\ i + l <= N
      BY <2>1
    <3> HIDE DEF i, l, N
    <3> QED
      BY <1>6, <3>1
  <2>3. h[i] \in XmlGood
    BY <1>5, <2>2 DEF Reads
  <2>4. ~ h[off[k]].inNode /\ h[off[k]].data = e
    <3> DEFINE c  == One(k)
               nd == Node(k)
               id == body[k]
               tg == TagsAt(k)
    <3>1. c = Element("node", NodeAttrs(id, nd), WriteTags(tg))
      BY DEF One
    <3>2. i + Len(c) <= Len(events) /\ (\A j \in 1 .. Len(c) : events[i + j] = c[j]) /\ off[k] = i + Len(c)
      BY <2>1
    <3>3. Len(events) \in Nat /\ i \in Nat /\ tg \in TagMaps /\ Reads(h, events)
      BY <1>4, <1>5, <1>6, <2>1
    <3>4. NodeAt(events, h, i, id, nd, tg)
      <4> HIDE DEF c, i, nd, id, tg, N
      <4> QED
        BY <3>1, <3>2, <3>3 DEF NodeAt
    <3>5. ReadBehind(h, i, id, nd, tg)
      <4> HIDE DEF i, nd, id, tg
      <4> QED
        BY <3>4, NodeReadAt
    <3> HIDE DEF c, i, N
    <3> QED
      BY <3>1, <3>2, <3>5, Zenon DEF ReadBehind
  <2>5. d \in Datas({"osm"}) /\ Curated(d) = Curated(h[i].data)
    <3>1. h[i].data \in Datas({"osm"}) /\ body[k] \in Int /\ p \in Points
      BY <1>4, <2>3, XmlData
    <3> DEFINE b == h[i].data
               id == body[k]
    <3> HIDE DEF b, id, p
    <3>2. AddNode(b, id, p) \in Datas({"osm"})
      BY <3>1, AddNodeTyped DEF b, id
    <3>3. Curated(AddNode(b, id, p)) = Curated(b)
      BY <3>1 DEF Curated, AddNode, Datas, b
    <3> QED
      BY <3>2, <3>3 DEF b, id
  <2> DEFINE poi == Poi(p, read, "osm")
             b == h[i].data
  <2>6. /\ Range(e.tagged) = Range(b.tagged) \cup IF read # NoTags THEN {poi} ELSE {}
        /\ Range(e.pois)   = Range(b.pois) \cup IF IsPoi(read) THEN {poi} ELSE {}
        /\ Range(e.addrs)  = Range(b.addrs) \cup IF IsAddr(read) THEN {poi} ELSE {}
        /\ Range(e.trees)  = Range(b.trees) \cup IF IsTree(read) THEN {p} ELSE {}
    <3>1. p \in Points /\ At(p) = p
      BY <1>4 DEF At, Point, Points
    <3>2. d.tagged = b.tagged /\ d.pois = b.pois /\ d.addrs = b.addrs /\ d.trees = b.trees
      BY <2>5 DEF Curated
    <3>3. e = AddTagged(d, p, read)
      OBVIOUS
    <3> HIDE DEF d, p, read, b, e
    <3> QED
      BY <2>5, <3>1, <3>2, <3>3, TaggedGrows
  <2>7. At(poi) = p /\ poi = Read(k)
    <3>1. p \in Points /\ p.lat = Node(k).lat /\ p.lon = Node(k).lon
      BY <1>4 DEF At, Point
    <3> QED
      BY <3>1 DEF At, Point, Points, Poi
  <2>8. good => IsCurated(read)
    OBVIOUS
  <2>9. good => AllCurated(b)
    BY <1>12
  <2>10. \A x \in 1 .. (k - 1) : AsRead(TagsAt(x)) # NoTags => Read(x) \in Range(b.tagged)
    BY <1>12
  <2> HIDE DEF e, b, poi, read, p, good
  <2>11. good => AllCurated(e)
    BY <2>6, <2>7, <2>8, <2>9 DEF AllCurated, IsCurated
  <2>12. \A x \in 1 .. k : AsRead(TagsAt(x)) # NoTags => Read(x) \in Range(e.tagged)
    <3> HIDE DEF Read
    <3> SUFFICES ASSUME NEW x \in 1 .. k, AsRead(TagsAt(x)) # NoTags
                 PROVE  Read(x) \in Range(e.tagged)
      OBVIOUS
    <3>1. CASE x = k
      BY <2>6, <2>7, <3>1 DEF read
    <3>2. CASE x # k
      <4>1. x \in 1 .. (k - 1)
        BY <3>2
      <4> QED
        BY <2>6, <2>10, <4>1
    <3> QED
      BY <3>1, <3>2
  <2> HIDE DEF Read
  <2> QED
    BY <2>4, <2>11, <2>12
<1>13. State(n)
  <2> DEFINE G == {k \in 0 .. n : State(k)}
  <2> HIDE DEF State
  <2>1. G \in SUBSET (0 .. n) /\ 0 \in G /\ \A k \in 1 .. n : k - 1 \in G => k \in G
    BY <1>3, <1>11, <1>12
  <2> HIDE DEF G
  <2>2. \A k \in 0 .. n : k \in G
    BY <1>3, <2>1, EveryStep
  <2> QED
    BY <1>3, <2>2 DEF G
<1> DEFINE d == ParseXml(events)[1]
           f == h[off[n]].data
<1>14. Curated(d) = Curated(f)
  <2> DEFINE a == off[n]
  <2>1. a \in 0 .. N /\ \A j \in (a + 1) .. N : ~ Opens(events[j])
    BY <1>6, <1>9, <1>10
  <2>2. ~ h[a].inNode /\ Reads(h, events)
    BY <1>5, <1>13
  <2>3. Curated(h[N].data) = Curated(h[a].data)
    <3> HIDE DEF a, N
    <3> QED
      BY <1>6, <2>1, <2>2, QuietRead DEF N
  <2> QED
    BY <1>5, <2>3
<1>15. d.tagged = f.tagged /\ d.pois = f.pois /\ d.addrs = f.addrs /\ d.trees = f.trees
  BY <1>14 DEF Curated
<1>16. \A x \in nodes : AsRead(x.tags) # NoTags => Poi(x, AsRead(x.tags), "osm") \in Range(d.tagged)
  BY <1>4, <1>13, <1>15
<1>17. (\A x \in nodes : IsCurated(AsRead(x.tags))) => AllCurated(d)
  <2>1. (\A x \in nodes : IsCurated(AsRead(x.tags))) => good
    BY <1>4
  <2> HIDE DEF good, d, f
  <2>2. good => AllCurated(f)
    BY <1>13 DEF f
  <2> QED
    BY <1>15, <2>1, <2>2 DEF AllCurated
<1> QED
  BY <1>16, <1>17 DEF nodes

LEMMA RulesAre ==
  ASSUME NEW t
  PROVE  IsPoi(t) <=> \/ \E key \in {"amenity", "shop", "tourism", "leisure", "historic"} : Fits(t, AnyValue(key))
                      \/ Fits(t, OneOf("man_made", {"tower", "water_tower", "chimney"}))
                      \/ Fits(t, OneOf("natural", {"peak", "rock", "spring"}))
<1> DEFINE R == POI_TAG_RULES
<1>1. /\ DOMAIN R = 1 .. 7
      /\ R[1] = AnyValue("amenity") /\ R[2] = AnyValue("shop") /\ R[3] = AnyValue("tourism")
      /\ R[4] = AnyValue("leisure") /\ R[5] = AnyValue("historic")
      /\ R[6] = OneOf("man_made", {"tower", "water_tower", "chimney"})
      /\ R[7] = OneOf("natural", {"peak", "rock", "spring"})
  BY DEF POI_TAG_RULES
<1> HIDE DEF R
<1>2. IsPoi(t) <=> \E k \in 1 .. 7 : Fits(t, R[k])
  BY <1>1 DEF IsPoi, R
<1>3. \A k \in 1 .. 7 : k = 1 \/ k = 2 \/ k = 3 \/ k = 4 \/ k = 5 \/ k = 6 \/ k = 7
  OBVIOUS
<1>4. 1 \in 1 .. 7 /\ 2 \in 1 .. 7 /\ 3 \in 1 .. 7 /\ 4 \in 1 .. 7 /\ 5 \in 1 .. 7 /\ 6 \in 1 .. 7 /\ 7 \in 1 .. 7
  OBVIOUS
<1>5. IsPoi(t) <=> \/ Fits(t, R[1]) \/ Fits(t, R[2]) \/ Fits(t, R[3]) \/ Fits(t, R[4]) \/ Fits(t, R[5])
                   \/ Fits(t, R[6]) \/ Fits(t, R[7])
  BY <1>2, <1>3, <1>4, SMTT(20)
<1> QED
  BY <1>1, <1>5

\* The query asks for a node by the rules of the classification.
LEMMA NodesAsked ==
  ASSUME NEW filter, NEW t
  PROVE  Asked(BuildOverpassQuery(filter), "node", t) <=>
           IsPoi(t) \/ IsTree(t) \/ (IsAddr(t) /\ "buildings" \in filter)
<1> DEFINE five == {AnyValue(key) : key \in {"amenity", "shop", "tourism", "leisure", "historic"}}
           man == OneOf("man_made", {"tower", "water_tower", "chimney"})
           peak == OneOf("natural", {"peak", "rock", "spring"})
           tree == OneOf("natural", {"tree"})
           addr == AnyValue("addr:housenumber")
           Q == BuildOverpassQuery(filter)
           Wanted(rule) == rule \in five \/ rule = man \/ rule = peak \/ rule = tree
                             \/ (rule = addr /\ "buildings" \in filter)
<1>1. ASSUME NEW part, part.kind = "node"
      PROVE  part \in Q <=> part = [kind |-> "node", rule |-> part.rule] /\ Wanted(part.rule)
  <2>1. ASSUME NEW K, NEW S
        PROVE  part \in Ask(K, S) <=> part = [kind |-> "node", rule |-> part.rule] /\ "node" \in K /\ part.rule \in S
    BY <1>1 DEF Ask
  <2>2. "node" \notin {"way"} /\ "node" \in {"node"} /\ "node" \in {"node", "way"}
    OBVIOUS
  <2> DEFINE IsRecord == part = [kind |-> "node", rule |-> part.rule]
  <2> HIDE DEF five, man, peak, tree, addr, IsRecord
  <2>3. /\ \A S : part \notin Ask({"way"}, S)
        /\ \A S : part \in Ask({"node"}, S) <=> IsRecord /\ part.rule \in S
        /\ \A S : part \in Ask({"node", "way"}, S) <=> IsRecord /\ part.rule \in S
    BY <2>1, <2>2 DEF IsRecord
  <2>4. {AnyValue(key) : key \in {"addr:housenumber"}} = {addr}
    BY DEF addr
  <2>5. part \in Q <=>
          \/ "buildings" \in filter /\ part \in Ask({"node"}, {addr})
          \/ part \in Ask({"node", "way"}, five \cup {man})
          \/ part \in Ask({"node"}, {tree, peak})
    BY <2>3, <2>4, SMTT(30) DEF BuildOverpassQuery, five, man, peak, tree
  <2> QED
    BY <2>3, <2>5 DEF IsRecord
<1>2. Asked(Q, "node", t) <=> \E rule : Wanted(rule) /\ Fits(t, rule)
  <2>1. ASSUME NEW rule, Wanted(rule)
        PROVE  [kind |-> "node", rule |-> rule] \in Q
    <3> DEFINE part == [kind |-> "node", rule |-> rule]
    <3>1. part.kind = "node" /\ part.rule = rule /\ part = [kind |-> "node", rule |-> part.rule]
      OBVIOUS
    <3> HIDE DEF part, Q, five, man, peak, tree, addr
    <3>2. part \in Q
      BY <1>1, <2>1, <3>1
    <3> QED
      BY <3>2 DEF part
  <2>2. ASSUME NEW rule
        PROVE  [kind |-> "node", rule |-> rule].kind = "node" /\ [kind |-> "node", rule |-> rule].rule = rule
    OBVIOUS
  <2>3. ASSUME NEW part \in Q, part.kind = "node"
        PROVE  Wanted(part.rule)
    <3> HIDE DEF Q, Wanted
    <3> QED
      BY <1>1, <2>3
  <2> HIDE DEF Q, Wanted
  <2> QED
    BY <2>1, <2>2, <2>3, Zenon DEF Asked
<1>3. (\E rule \in five : Fits(t, rule)) <=>
        \E key \in {"amenity", "shop", "tourism", "leisure", "historic"} : Fits(t, AnyValue(key))
  BY Zenon
<1>4. Fits(t, tree) <=> IsTree(t)
  BY DEF Fits, OneOf, IsTree, Is
<1>5. Fits(t, addr) <=> IsAddr(t)
  BY DEF Fits, AnyValue, IsAddr
<1> HIDE DEF five, man, peak, tree, addr, Q
<1>6. IsPoi(t) <=> (\E rule \in five : Fits(t, rule)) \/ Fits(t, man) \/ Fits(t, peak)
  BY <1>3, RulesAre, Zenon DEF man, peak
<1> QED
  BY <1>2, <1>4, <1>5, <1>6 DEF Q

\* What the reader makes of line breaks in values leaves the classification.
LEMMA ReadCurated ==
  ASSUME NEW t, IsCurated(t)
  PROVE  IsCurated(AsRead(t)) /\ AsRead(t) # NoTags
<1>1. ASSUME NEW key, key # "", key \in DOMAIN t
      PROVE  /\ Has(AsRead(t), key)
             /\ t[key] \in Classified => AsRead(t)[key] = t[key]
  <2>1. key \in DOMAIN t \ {""}
    BY <1>1
  <2>2. t[key] \in Classified => t[key] \notin DOMAIN Blanked
    BY XmlAssumption
  <2> QED
    BY <2>1, <2>2 DEF AsRead, Has, XmlAttrValue
<1>2. ASSUME NEW key, key # "", key \in DOMAIN t
      PROVE  AsRead(t) # NoTags
  <2>1. key \in DOMAIN AsRead(t)
    BY <1>1, <1>2 DEF Has
  <2>2. DOMAIN NoTags = {}
    BY DEF NoTags
  <2> QED
    BY <2>1, <2>2
<1>3. CASE IsAddr(t)
  <2>1. "addr:housenumber" # "" /\ "addr:housenumber" \in DOMAIN t
    BY <1>3 DEF IsAddr, Has
  <2> QED
    BY <1>1, <1>2, <2>1 DEF IsCurated, IsAddr
<1>4. CASE IsTree(t)
  <2>1. "natural" # "" /\ "natural" \in DOMAIN t /\ t["natural"] = "tree" /\ "tree" \in Classified
    BY <1>4 DEF IsTree, Is, Has, Classified
  <2>2. IsTree(AsRead(t))
    BY <1>1, <2>1 DEF IsTree, Is
  <2> QED
    BY <1>2, <2>1, <2>2 DEF IsCurated
<1>5. CASE IsPoi(t)
  <2> DEFINE R == POI_TAG_RULES
  <2>1. PICK k \in DOMAIN R : Fits(t, R[k])
    BY <1>5 DEF IsPoi
  <2>2. \A j \in DOMAIN R : R[j].key # "" /\ R[j].values \subseteq Classified
    <3>1. \A j \in DOMAIN R : R[j].key # ""
      <4>1. DOMAIN R = 1 .. 7
        BY DEF POI_TAG_RULES
      <4>2. /\ R[1].key = "amenity" /\ R[2].key = "shop" /\ R[3].key = "tourism" /\ R[4].key = "leisure"
            /\ R[5].key = "historic" /\ R[6].key = "man_made" /\ R[7].key = "natural"
        BY DEF POI_TAG_RULES, AnyValue, OneOf
      <4>3. \A j \in 1 .. 7 : j = 1 \/ j = 2 \/ j = 3 \/ j = 4 \/ j = 5 \/ j = 6 \/ j = 7
        OBVIOUS
      <4> HIDE DEF R
      <4> QED
        BY <4>1, <4>2, <4>3
    <3> HIDE DEF R
    <3> QED
      BY <3>1 DEF Classified, R
  <2> DEFINE rule == R[k]
  <2>3. rule.key # "" /\ rule.values \subseteq Classified /\ rule.key \in DOMAIN t
        /\ (rule.any \/ t[rule.key] \in rule.values)
    BY <2>1, <2>2 DEF Fits, Has
  <2> HIDE DEF rule, R
  <2>4. Fits(AsRead(t), rule)
    BY <1>1, <2>3 DEF Fits
  <2>5. IsPoi(AsRead(t))
    BY <2>4 DEF IsPoi, rule, R
  <2> QED
    BY <1>2, <2>3, <2>5 DEF IsCurated
<1> QED
  BY <1>3, <1>4, <1>5 DEF IsCurated

\* An answer for an area that covers the box holds what is asked for of it.
LEMMA FetchOsmAsked ==
  ASSUME SessionInv, FetchOsm
  PROVE  QueryMatchesRules'
<1> DEFINE query == BuildOverpassQuery(request.filter)
<1>1. PICK body \in Bodies : ParseXml(body) # None /\ osm' = ParseXml(body)[1]
  BY Zenon DEF FetchOsm
<1>2. PICK area : body = Answer(query, area) /\ ((area \in Areas /\ Covers(area, box)) \/ area = box)
  BY <1>1 DEF Bodies
<1>3. box \in Boxes /\ area \in Boxes /\ box' = box /\ request' = request
  BY <1>2, SessionAssumption DEF SessionInv, FetchOsm
<1> DEFINE nodes == {n \in Range(World.nodes) : Inside(n, area) /\ Asked(query, "node", n.tags)}
           d == ParseXml(body)[1]
<1>4. /\ \A n \in nodes : AsRead(n.tags) # NoTags => Poi(n, AsRead(n.tags), "osm") \in Range(d.tagged)
      /\ (\A n \in nodes : IsCurated(AsRead(n.tags))) => AllCurated(d)
  BY <1>1, <1>2, AnswerRead
<1> HIDE DEF query, d
<1>5. \A n \in Range(World.nodes) : Inside(n, box) => Inside(n, area)
  <2>1. \A n \in Range(World.nodes) : n.lat \in Int /\ n.lon \in Int
    BY SessionAssumption DEF At, Point, Points
  <2>2. CASE area = box
    BY <2>2
  <2>3. CASE area \in Areas /\ Covers(area, box)
    <3>1. /\ area.south \in Int /\ area.west \in Int /\ area.north \in Int /\ area.east \in Int
          /\ box.south \in Int /\ box.west \in Int /\ box.north \in Int /\ box.east \in Int
      BY <1>3 DEF Boxes
    <3> QED
      BY <2>1, <2>3, <3>1 DEF Covers, Inside
  <2> QED
    BY <1>2, <2>2, <2>3
<1>6. \A n \in nodes : IsCurated(AsRead(n.tags))
  <2>1. \A n \in nodes : IsCurated(n.tags)
    BY NodesAsked DEF query, IsCurated
  <2> QED
    BY <2>1, ReadCurated
<1>7. ASSUME NEW n \in Range(World.nodes), Inside(n, box),
             IsPoi(n.tags) \/ IsTree(n.tags) \/ (IsAddr(n.tags) /\ "buildings" \in request.filter)
      PROVE  Poi(n, AsRead(n.tags), "osm") \in Range(d.tagged)
  <2>1. n \in nodes
    BY <1>5, <1>7, NodesAsked DEF query
  <2>2. AsRead(n.tags) # NoTags
    BY <1>7, ReadCurated DEF IsCurated
  <2> HIDE DEF nodes
  <2> QED
    BY <1>4, <2>1, <2>2
<1>8. AllCurated(d)
  BY <1>4, <1>6
<1>9. osm' = d
  BY <1>1 DEF d
<1> QED
  BY <1>3, <1>7, <1>8, <1>9 DEF QueryMatchesRules, AllCurated

LEMMA Unasked ==
  ASSUME pc' \notin {"overture", "merge"}
  PROVE  QueryMatchesRules'
BY DEF QueryMatchesRules

\* What an answer holds of a box is what the reader's rules name of it, for
\* every map, area and filter.
THEOREM QueryAndRulesMatch == Spec => []QueryMatchesRules
<1>1. Init => QueryMatchesRules
  BY DEF Init, QueryMatchesRules
<1>2. SessionInv /\ QueryMatchesRules /\ [Next]_vars => QueryMatchesRules'
  <2> SUFFICES ASSUME SessionInv, QueryMatchesRules, [Next]_vars
               PROVE  QueryMatchesRules'
    OBVIOUS
  <2>1. CASE FetchOsm
    BY <2>1, FetchOsmAsked
  <2>2. CASE FetchOverture
    BY <2>2 DEF FetchOverture, QueryMatchesRules
  <2>3. CASE BeginFetch
    BY <2>3, Unasked DEF BeginFetch
  <2>4. CASE FetchOsmFails \/ FetchOvertureFails \/ MergeSources \/ ClipResult
    BY <2>4, Unasked DEF FetchOsmFails, FetchOvertureFails, MergeSources, ClipResult, Return
  <2>5. CASE UNCHANGED vars
    BY <2>5 DEF vars, QueryMatchesRules
  <2>6. CASE ReadFile \/ AddWay \/ ReplacePart \/ ReplaceWays \/ Rebuild \/ ClipHeld \/ Rewrite
    <3>1. \A data : Use(data) => pc' = "idle"
      BY DEF Use
    <3>2. pc' = "idle"
      <4>1. CASE ReadFile
        BY <3>1, <4>1, Zenon DEF ReadFile
      <4>2. CASE AddWay \/ ReplaceWays \/ Rebuild \/ ClipHeld \/ Rewrite
        BY <3>1, <4>2, Zenon DEF AddWay, ReplaceWays, Rebuild, ClipHeld, Rewrite
      <4>3. CASE ReplacePart
        BY <3>1, <4>3, Zenon DEF ReplacePart
      <4> QED
        BY <2>6, <4>1, <4>2, <4>3
    <3> QED
      BY <3>2, Unasked
  <2> QED
    BY <2>1, <2>2, <2>3, <2>4, <2>5, <2>6, Zenon DEF Next
<1> QED
  BY <1>1, <1>2, SessionInvariant, PTL DEF Spec
=============================================================================
