--------------------------- MODULE OsmDataProofs ---------------------------
(***************************************************************************)
(* For any data of the types of osm::model: merge, clip_to_bbox, push_way  *)
(* and the builders keep what validate_invariants asks and what they are   *)
(* to keep of the rest, deduplication drops duplicates only, both readers  *)
(* make sound data of any input, and the writer's node ids are fresh.      *)
(***************************************************************************)
EXTENDS OsmTypes, OsmXml, OsmPbf, PoiMerge, FoldTheorems

----------------------------------------------------------------------------
(* Sequences.                                                               *)

LEMMA Concat ==
  ASSUME NEW T, NEW a \in Seq(T), NEW b \in Seq(T)
  PROVE  /\ a \o b \in Seq(T) /\ Len(a \o b) = Len(a) + Len(b)
         /\ \A k \in 1 .. Len(a) : (a \o b)[k] = a[k]
         /\ \A k \in 1 .. Len(b) : (a \o b)[Len(a) + k] = b[k]
OBVIOUS

----------------------------------------------------------------------------
(* Retain.                                                                  *)

\* o has the elements of S, in their order.
Enumerates(o, S) ==
  /\ DOMAIN o = 1 .. Cardinality(S) /\ o = [k \in DOMAIN o |-> o[k]]
  /\ \A k \in DOMAIN o : o[k] \in S
  /\ \A j, k \in DOMAIN o : j < k => o[j] < o[k]
  /\ \A x \in S : \E k \in DOMAIN o : o[k] = x

\* The number of smaller elements tells an element, and every number up to
\* the last is one.
LEMMA InOrderEnumerates ==
  ASSUME NEW S \in SUBSET Int, IsFiniteSet(S)
  PROVE  Enumerates(InOrder(S), S)
<1> DEFINE n == Cardinality(S)
           Below(x) == {y \in S : y < x}
           rank == [x \in S |-> Cardinality(Below(x))]
           o == InOrder(S)
<1>1. n \in Nat
  BY FS_CardinalityType
<1>2. \A x \in S : IsFiniteSet(Below(x)) /\ Cardinality(Below(x)) \in 0 .. n - 1
  <2> SUFFICES ASSUME NEW x \in S
               PROVE  IsFiniteSet(Below(x)) /\ Cardinality(Below(x)) \in 0 .. n - 1
    OBVIOUS
  <2>1. Below(x) \in SUBSET S /\ Below(x) # S
    OBVIOUS
  <2> HIDE DEF Below
  <2>2. IsFiniteSet(Below(x)) /\ Cardinality(Below(x)) <= n /\ Cardinality(Below(x)) # n
    BY <2>1, FS_Subset
  <2>3. Cardinality(Below(x)) \in Nat
    BY <2>2, FS_CardinalityType
  <2> QED
    BY <1>1, <2>2, <2>3
<1>3. \A x, y \in S : x < y => rank[x] < rank[y]
  <2> SUFFICES ASSUME NEW x \in S, NEW y \in S, x < y
               PROVE  Cardinality(Below(x)) < Cardinality(Below(y))
    OBVIOUS
  <2>1. Below(x) \in SUBSET Below(y) /\ Below(x) # Below(y)
    <3>1. x \in Int /\ y \in Int /\ \A z \in S : z \in Int
      OBVIOUS
    <3>2. \A z \in S : z < x => z < y
      BY <3>1
    <3>3. x \in Below(y) /\ x \notin Below(x)
      BY <3>1
    <3> QED
      BY <3>2, <3>3
  <2> HIDE DEF Below
  <2>2. Cardinality(Below(x)) <= Cardinality(Below(y)) /\ Cardinality(Below(x)) # Cardinality(Below(y))
    BY <1>2, <2>1, FS_Subset
  <2> QED
    BY <1>1, <1>2, <2>2
<1>4. rank \in [S -> 0 .. n - 1]
  BY <1>2
<1>5. \A x, y \in S : rank[x] = rank[y] => x = y
  <2> SUFFICES ASSUME NEW x \in S, NEW y \in S, rank[x] = rank[y], x # y
               PROVE  FALSE
    OBVIOUS
  <2>1. x < y \/ y < x
    OBVIOUS
  <2>2. rank[x] \in Int /\ rank[y] \in Int
    BY <1>1, <1>4
  <2> HIDE DEF rank
  <2> QED
    BY <1>3, <2>1, <2>2
<1> HIDE DEF rank, n
<1>6. \A k \in 0 .. n - 1 : \E x \in S : rank[x] = k
  <2>1. rank \in Injection(S, 0 .. n - 1)
    BY <1>4, <1>5 DEF Injection, IsInjective
  <2>2. IsFiniteSet(0 .. n - 1) /\ Cardinality(0 .. n - 1) = n
    <3>1. Cardinality(0 .. n - 1) = IF 0 > n - 1 THEN 0 ELSE (n - 1) - 0 + 1
      BY <1>1, FS_Interval
    <3> QED
      BY <1>1, <3>1, FS_Interval
  <2>3. rank \in Surjection(S, 0 .. n - 1)
    BY <2>1, <2>2, FS_Injection DEF n
  <2> QED
    BY <2>3 DEF Surjection
<1>7. o = [k \in 1 .. n |-> CHOOSE x \in S : Cardinality(Below(x)) = k - 1]
  BY DEF InOrder, n
<1>8. \A k \in 1 .. n : o[k] \in S /\ rank[o[k]] = k - 1
  <2> SUFFICES ASSUME NEW k \in 1 .. n
               PROVE  o[k] \in S /\ rank[o[k]] = k - 1
    OBVIOUS
  <2>1. k - 1 \in 0 .. n - 1
    BY <1>1
  <2>2. \E x \in S : Cardinality(Below(x)) = k - 1
    BY <1>6, <2>1 DEF rank
  <2> HIDE DEF Below
  <2>3. o[k] \in S /\ Cardinality(Below(o[k])) = k - 1
    BY <1>7, <2>2
  <2> QED
    BY <2>3 DEF rank
<1>9. DOMAIN o = 1 .. n /\ o = [k \in DOMAIN o |-> o[k]]
  BY <1>7
<1> HIDE DEF o
<1>10. \A j, k \in 1 .. n : j < k => o[j] < o[k]
  <2> SUFFICES ASSUME NEW j \in 1 .. n, NEW k \in 1 .. n, j < k, ~ (o[j] < o[k])
               PROVE  FALSE
    OBVIOUS
  <2>1. o[j] \in S /\ o[k] \in S /\ rank[o[j]] = j - 1 /\ rank[o[k]] = k - 1
    BY <1>8
  <2>2. o[j] \in Int /\ o[k] \in Int
    BY <2>1
  <2>3. o[j] = o[k] \/ o[k] < o[j]
    BY <2>2
  <2>4. j - 1 < k - 1 /\ j - 1 \in Int /\ k - 1 \in Int
    BY <1>1
  <2>5. CASE o[k] < o[j]
    <3>1. rank[o[k]] < rank[o[j]]
      BY <1>3, <2>1, <2>5
    <3> QED
      BY <2>1, <2>4, <3>1
  <2> QED
    BY <2>1, <2>3, <2>4, <2>5
<1>11. \A x \in S : \E k \in 1 .. n : o[k] = x
  <2> SUFFICES ASSUME NEW x \in S
               PROVE  \E k \in 1 .. n : o[k] = x
    OBVIOUS
  <2> DEFINE k == rank[x] + 1
  <2>1. k \in 1 .. n /\ rank[x] = k - 1
    BY <1>1, <1>4
  <2> HIDE DEF k
  <2>2. o[k] \in S /\ rank[o[k]] = rank[x]
    BY <1>8, <2>1
  <2> QED
    BY <1>5, <2>1, <2>2
<1> QED
  BY <1>8, <1>9, <1>10, <1>11 DEF Enumerates, o, n

LEMMA SameEnumeration ==
  ASSUME NEW S \in SUBSET Int, IsFiniteSet(S), NEW o, Enumerates(o, S), NEW p, Enumerates(p, S)
  PROVE  o = p
<1> DEFINE n == Cardinality(S)
           B == {k \in 1 .. n : o[k] # p[k]}
<1>1. n \in Nat
  BY FS_CardinalityType
<1>2. /\ DOMAIN o = 1 .. n /\ o = [k \in 1 .. n |-> o[k]]
      /\ \A k \in 1 .. n : o[k] \in S
      /\ \A j, k \in 1 .. n : j < k => o[j] < o[k]
      /\ \A x \in S : \E k \in 1 .. n : o[k] = x
  BY DEF Enumerates
<1>3. /\ DOMAIN p = 1 .. n /\ p = [k \in 1 .. n |-> p[k]]
      /\ \A k \in 1 .. n : p[k] \in S
      /\ \A j, k \in 1 .. n : j < k => p[j] < p[k]
      /\ \A x \in S : \E k \in 1 .. n : p[k] = x
  BY DEF Enumerates
<1> HIDE DEF n
<1>4. B = {}
  <2> SUFFICES ASSUME B # {}
               PROVE  FALSE
    OBVIOUS
  <2>1. B \in SUBSET Nat
    OBVIOUS
  <2>2. PICK k \in B : \A j \in B : k <= j
    <3> HIDE DEF B
    <3> QED
      BY <2>1, LeastNat
  <2>3. k \in 1 .. n /\ o[k] # p[k] /\ \A j \in 1 .. n : j < k => o[j] = p[j]
    BY <2>2
  <2>4. PICK i \in 1 .. n : o[i] = p[k]
    BY <1>2, <1>3, <2>3
  <2>5. PICK j \in 1 .. n : p[j] = o[k]
    BY <1>2, <1>3, <2>3
  <2>6. o[k] \in Int /\ p[k] \in Int /\ o[i] \in Int /\ p[j] \in Int
    BY <1>2, <1>3, <2>3
  <2>7. CASE o[k] < p[k]
    <3>1. ~ (k < j) /\ j # k
      BY <1>3, <2>3, <2>5, <2>6, <2>7
    <3>2. j < k
      BY <2>3, <3>1
    <3>3. o[j] = o[k] /\ o[j] < o[k]
      BY <1>2, <2>3, <2>5, <3>2
    <3> QED
      BY <2>6, <3>3
  <2>8. CASE p[k] < o[k]
    <3>1. ~ (k < i) /\ i # k
      BY <1>2, <2>3, <2>4, <2>6, <2>8
    <3>2. i < k
      BY <2>3, <3>1
    <3>3. p[i] = p[k] /\ p[i] < p[k]
      BY <1>3, <2>3, <2>4, <3>2
    <3> QED
      BY <2>6, <3>3
  <2> QED
    BY <2>3, <2>6, <2>7, <2>8
<1> QED
  BY <1>2, <1>3, <1>4

\* The elements of s that are in P, in their order.
Passing(s, P) == Chosen(s, {k \in DOMAIN s : s[k] \in P})

PassingOf(s, P, o) ==
  LET at == {k \in DOMAIN s : s[k] \in P}
      c == Passing(s, P)
  IN  /\ at \in SUBSET Int /\ IsFiniteSet(at) /\ Cardinality(at) \in Nat /\ Enumerates(o, at)
      /\ Len(c) = Cardinality(at) /\ DOMAIN c = DOMAIN o
      /\ \A k \in DOMAIN c : o[k] \in DOMAIN s /\ c[k] = s[o[k]] /\ s[o[k]] \in P
      /\ \A i \in DOMAIN s : s[i] \in P => \E k \in DOMAIN c : o[k] = i

LEMMA PassingIs ==
  ASSUME NEW V, NEW s \in Seq(V), NEW P
  PROVE  Passing(s, P) \in Seq(V) /\ PassingOf(s, P, InOrder({k \in DOMAIN s : s[k] \in P}))
<1> DEFINE at == {k \in DOMAIN s : s[k] \in P}
           o == InOrder(at)
           c == Passing(s, P)
<1>1. Len(s) \in Nat /\ DOMAIN s = 1 .. Len(s) /\ \A k \in DOMAIN s : s[k] \in V
  OBVIOUS
<1>2. at \in SUBSET Int /\ IsFiniteSet(at)
  <2>1. IsFiniteSet(1 .. Len(s))
    BY <1>1, FS_Interval
  <2>2. at \in SUBSET (1 .. Len(s))
    BY <1>1
  <2> QED
    BY <1>1, <2>1, <2>2, FS_Subset
<1>3. Enumerates(o, at) /\ Cardinality(at) \in Nat
  <2> HIDE DEF at
  <2> QED
    BY <1>2, InOrderEnumerates, FS_CardinalityType
<1>4. c = [k \in DOMAIN o |-> s[o[k]]]
  BY DEF Passing, Chosen
<1>5. DOMAIN o = 1 .. Cardinality(at) /\ \A k \in DOMAIN o : o[k] \in at
  BY <1>3 DEF Enumerates
<1>6. \A i \in at : \E k \in DOMAIN o : o[k] = i
  BY <1>3 DEF Enumerates
<1> HIDE DEF o
<1>7. \A k \in DOMAIN o : o[k] \in DOMAIN s /\ s[o[k]] \in P /\ s[o[k]] \in V
  BY <1>1, <1>5
<1>8. \A i \in DOMAIN s : s[i] \in P => \E k \in DOMAIN o : o[k] = i
  BY <1>6
<1> HIDE DEF at, c
<1>9. c \in Seq(V) /\ Len(c) = Cardinality(at) /\ DOMAIN c = DOMAIN o
  BY <1>3, <1>4, <1>5, <1>7
<1>10. \A k \in DOMAIN c : c[k] = s[o[k]]
  BY <1>4
<1> QED
  BY <1>2, <1>3, <1>7, <1>8, <1>9, <1>10 DEF PassingOf, at, c, o

LEMMA PassingRange ==
  ASSUME NEW V, NEW s \in Seq(V), NEW P
  PROVE  /\ Passing(s, P) \in Seq(V)
         /\ Range(Passing(s, P)) = Range(s) \cap P
<1> DEFINE c == Passing(s, P)
<1>1. PICK o : PassingOf(s, P, o)
  BY PassingIs
<1>2. /\ \A k \in DOMAIN c : o[k] \in DOMAIN s /\ c[k] = s[o[k]] /\ s[o[k]] \in P
      /\ \A i \in DOMAIN s : s[i] \in P => \E k \in DOMAIN c : o[k] = i
  BY <1>1 DEF PassingOf
<1>3. c \in Seq(V)
  BY PassingIs
<1> HIDE DEF c
<1>4. Range(c) = Range(s) \cap P
  BY <1>2 DEF Range
<1> QED
  BY <1>3, <1>4 DEF c

\* Passing a test and then a stronger one is passing the stronger one.
LEMMA PassingTwice ==
  ASSUME NEW V, NEW s \in Seq(V), NEW P, NEW Q, Q \subseteq P
  PROVE  Passing(Passing(s, P), Q) = Passing(s, Q)
<1> DEFINE c == Passing(s, P)
           d == Passing(c, Q)
           e == Passing(s, Q)
           J == {k \in DOMAIN s : s[k] \in Q}
           T == {k \in DOMAIN c : c[k] \in Q}
           p == InOrder(T)
           q == InOrder(J)
<1>1. PICK o : PassingOf(s, P, o)
  BY PassingIs
<1>2. c \in Seq(V)
  BY PassingIs
<1>3. PassingOf(c, Q, p)
  <2> HIDE DEF c
  <2> QED
    BY <1>2, PassingIs
<1>4. PassingOf(s, Q, q)
  BY PassingIs
<1>5. /\ \A k \in DOMAIN c : o[k] \in DOMAIN s /\ c[k] = s[o[k]]
      /\ \A i \in DOMAIN s : s[i] \in P => \E k \in DOMAIN c : o[k] = i
      /\ \A j, k \in DOMAIN c : j < k => o[j] < o[k]
  BY <1>1 DEF PassingOf, Enumerates
<1>6. /\ T \in SUBSET Int /\ IsFiniteSet(T) /\ Cardinality(T) \in Nat /\ Enumerates(p, T)
      /\ DOMAIN d = DOMAIN p /\ \A k \in DOMAIN d : p[k] \in DOMAIN c /\ d[k] = c[p[k]]
  BY <1>3 DEF PassingOf
<1>7. /\ J \in SUBSET Int /\ IsFiniteSet(J) /\ Enumerates(q, J)
      /\ DOMAIN e = DOMAIN q /\ \A k \in DOMAIN e : e[k] = s[q[k]]
  BY <1>4 DEF PassingOf
<1>8. d = [k \in DOMAIN d |-> d[k]] /\ e = [k \in DOMAIN e |-> e[k]]
  BY <1>2 DEF Passing, Chosen
<1>9. /\ DOMAIN p = 1 .. Cardinality(T) /\ \A k \in DOMAIN p : p[k] \in T
      /\ \A j, k \in DOMAIN p : j < k => p[j] < p[k]
      /\ \A x \in T : \E k \in DOMAIN p : p[k] = x
  BY <1>6 DEF Enumerates
<1>10. T \subseteq DOMAIN c /\ DOMAIN s \subseteq Int /\ DOMAIN c \subseteq Int
  BY <1>2
<1>11. \A k \in DOMAIN c : k \in T <=> o[k] \in J
  BY <1>5
<1>12. \A i \in J : \E k \in T : o[k] = i
  BY <1>5
<1> HIDE DEF c, d, e, J, T, p, q
<1>13. \A j, k \in T : o[j] = o[k] => j = k
  <2> SUFFICES ASSUME NEW j \in T, NEW k \in T, o[j] = o[k], j # k
               PROVE  FALSE
    OBVIOUS
  <2>1. j \in Int /\ k \in Int /\ j \in DOMAIN c /\ k \in DOMAIN c
    BY <1>6, <1>10
  <2>2. j < k \/ k < j
    BY <2>1
  <2>3. o[j] \in Int /\ o[k] \in Int
    BY <1>5, <1>10, <2>1
  <2> QED
    BY <1>5, <2>1, <2>2, <2>3
<1>14. Cardinality(J) = Cardinality(T)
  <2> DEFINE f == [k \in T |-> o[k]]
  <2>1. f \in Surjection(T, J)
    BY <1>10, <1>11, <1>12 DEF Surjection
  <2>2. f \in Injection(T, J)
    BY <1>10, <1>11, <1>13 DEF Injection, IsInjective
  <2> HIDE DEF f
  <2> QED
    BY <1>6, <2>1, <2>2, FS_Surjection
<1> DEFINE r == [k \in DOMAIN p |-> o[p[k]]]
<1>15. Enumerates(r, J)
  <2>1. DOMAIN r = 1 .. Cardinality(J) /\ r = [k \in DOMAIN r |-> r[k]]
    BY <1>9, <1>14
  <2>2. \A k \in DOMAIN r : r[k] \in J
    BY <1>9, <1>10, <1>11
  <2>3. \A j, k \in DOMAIN r : j < k => r[j] < r[k]
    BY <1>5, <1>9, <1>10
  <2>4. \A x \in J : \E k \in DOMAIN r : r[k] = x
    <3> SUFFICES ASSUME NEW x \in J
                 PROVE  \E k \in DOMAIN p : o[p[k]] = x
      OBVIOUS
    <3>1. PICK i \in T : o[i] = x
      BY <1>12
    <3> QED
      BY <1>9, <3>1
  <2> QED
    BY <2>1, <2>2, <2>3, <2>4 DEF Enumerates
<1>16. r = q
  <2> HIDE DEF r
  <2> QED
    BY <1>7, <1>15, SameEnumeration
<1>17. DOMAIN q = DOMAIN p /\ \A k \in DOMAIN p : q[k] = o[p[k]]
  BY <1>16
<1>18. DOMAIN d = DOMAIN e /\ \A k \in DOMAIN d : d[k] = e[k]
  BY <1>5, <1>6, <1>7, <1>17
<1>19. d = e
  BY <1>8, <1>18
<1> QED
  BY <1>19 DEF c, d, e

----------------------------------------------------------------------------
(* The types.                                                               *)

LEMMA NoTagsTyped == NoTags \in TagMaps /\ DOMAIN NoTags = {} /\ DOMAIN << >> = {}
<1>1. << >> = [x \in {} |-> ""] 
  OBVIOUS
<1>2. IsFiniteSet({})
  BY FS_EmptySet
<1>3. << >> \in [{} -> Strings] /\ {} \in SUBSET Strings
  BY <1>1
<1> QED
  BY <1>2, <1>3 DEF NoTags, TagMaps

LEMMA TagMapIs ==
  ASSUME NEW t
  PROVE  t \in TagMaps <=> /\ DOMAIN t \in SUBSET Strings /\ IsFiniteSet(DOMAIN t) /\ t \in [DOMAIN t -> Strings]
BY DEF TagMaps

LEMMA IsTagsTyped ==
  ASSUME NEW t, IsTags(t)
  PROVE  t \in TagMaps
<1>1. /\ DOMAIN t \in SUBSET Strings /\ IsFiniteSet(DOMAIN t) /\ t = [key \in DOMAIN t |-> t[key]]
      /\ \A key \in DOMAIN t : t[key] \in Strings
  BY Zenon DEF IsTags
<1> QED
  BY <1>1, TagMapIs

LEMMA TagMapGrows ==
  ASSUME NEW t \in TagMaps, NEW k \in Strings, NEW v \in Strings
  PROVE  Insert(t, k, v) \in TagMaps /\ OneTag(k, v) \in TagMaps
<1>1. ASSUME NEW m \in TagMaps
      PROVE  Insert(m, k, v) \in TagMaps
  <2> DEFINE u == Insert(m, k, v)
  <2>1. DOMAIN m \in SUBSET Strings /\ IsFiniteSet(DOMAIN m) /\ m \in [DOMAIN m -> Strings]
    BY TagMapIs
  <2>2. DOMAIN u = DOMAIN m \cup {k} /\ u \in [DOMAIN u -> Strings]
    BY <2>1 DEF Insert
  <2>3. IsFiniteSet(DOMAIN u)
    BY <2>1, <2>2, FS_AddElement
  <2> HIDE DEF u
  <2> QED
    BY <2>1, <2>2, <2>3, TagMapIs DEF u
<1> QED
  BY <1>1, NoTagsTyped DEF OneTag

LEMMA EmptyDataTyped == ASSUME NEW src PROVE EmptyData \in Datas(src)
<1>1. << >> \in NodeMaps
  <2>1. << >> = [x \in {} |-> Point(0, 0)] /\ IsFiniteSet({})
    BY FS_EmptySet
  <2> QED
    BY <2>1 DEF NodeMaps
<1>2. << >> \in Indexes
  <2>1. << >> = [x \in {} |-> 0]
    OBVIOUS
  <2> QED
    BY <2>1 DEF Indexes
<1>3. << >> \in Maybe(Boxes)
  BY DEF Maybe
<1> QED
  BY <1>1, <1>2, <1>3 DEF EmptyData, Datas, None
----------------------------------------------------------------------------
LEMMA NodeMapGrows ==
  ASSUME NEW nodes \in NodeMaps, NEW id \in Int, NEW p \in Points
  PROVE  Insert(nodes, id, p) \in NodeMaps
<1> DEFINE m == Insert(nodes, id, p)
<1>1. DOMAIN nodes \in SUBSET Int /\ IsFiniteSet(DOMAIN nodes) /\ nodes \in [DOMAIN nodes -> Points]
  BY DEF NodeMaps
<1>2. DOMAIN m = DOMAIN nodes \cup {id} /\ m \in [DOMAIN m -> Points]
  BY <1>1 DEF Insert
<1>3. IsFiniteSet(DOMAIN m)
  BY <1>1, <1>2, FS_AddElement
<1> HIDE DEF m
<1>4. DOMAIN m \in SUBSET Int
  BY <1>1, <1>2
<1> QED
  BY <1>2, <1>3, <1>4 DEF NodeMaps, m

LEMMA NodeMapsMerge ==
  ASSUME NEW a \in NodeMaps, NEW b \in NodeMaps
  PROVE  Extend(a, b) \in NodeMaps
<1> DEFINE m == Extend(a, b)
<1>1. /\ DOMAIN a \in SUBSET Int /\ IsFiniteSet(DOMAIN a) /\ a \in [DOMAIN a -> Points]
      /\ DOMAIN b \in SUBSET Int /\ IsFiniteSet(DOMAIN b) /\ b \in [DOMAIN b -> Points]
  BY DEF NodeMaps
<1>2. DOMAIN m = DOMAIN a \cup DOMAIN b /\ m \in [DOMAIN m -> Points]
  BY <1>1 DEF Extend
<1>3. IsFiniteSet(DOMAIN m)
  <2>1. IsFiniteSet(DOMAIN a \cup DOMAIN b)
    BY <1>1, FS_Union
  <2> QED
    BY <1>2, <2>1
<1> HIDE DEF m
<1>4. DOMAIN m \in SUBSET Int
  BY <1>1, <1>2
<1> QED
  BY <1>2, <1>3, <1>4 DEF NodeMaps, m

LEMMA NodeMapShrinks ==
  ASSUME NEW nodes \in NodeMaps, NEW S
  PROVE  Restrict(nodes, DOMAIN nodes \cap S) \in NodeMaps
<1> DEFINE m == Restrict(nodes, DOMAIN nodes \cap S)
<1>1. DOMAIN nodes \in SUBSET Int /\ IsFiniteSet(DOMAIN nodes) /\ nodes \in [DOMAIN nodes -> Points]
  BY DEF NodeMaps
<1>2. DOMAIN m = DOMAIN nodes \cap S /\ m \in [DOMAIN m -> Points]
  BY <1>1 DEF Restrict
<1>3. IsFiniteSet(DOMAIN nodes \cap S)
  BY <1>1, FS_Subset
<1> HIDE DEF m
<1>4. DOMAIN m \in SUBSET Int
  BY <1>1, <1>2
<1> QED
  BY <1>2, <1>3, <1>4 DEF NodeMaps, m

LEMMA MaxOfTwo ==
  ASSUME NEW a \in Int, NEW b \in Int
  PROVE  Min({a, b}) \in {a, b} /\ Max({a, b}) \in {a, b}
<1>1. \E x \in {a, b} : \A y \in {a, b} : x <= y
  OBVIOUS
<1>2. \E x \in {a, b} : \A y \in {a, b} : x >= y
  OBVIOUS
<1> QED
  BY <1>1, <1>2 DEF Min, Max

LEMMA UnionBoundsTyped ==
  ASSUME NEW a \in Maybe(Boxes), NEW b \in Maybe(Boxes)
  PROVE  UnionBounds(a, b) \in Maybe(Boxes)
<1>1. CASE a = None \/ b = None
  BY <1>1 DEF UnionBounds, OrElse
<1>2. CASE a # None /\ b # None
  <2> DEFINE s == a[1]
             t == b[1]
             u == [south |-> Min({s.south, t.south}), west |-> Min({s.west, t.west}),
                   north |-> Max({s.north, t.north}), east |-> Max({s.east, t.east})]
  <2>1. s \in Boxes /\ t \in Boxes
    BY <1>2 DEF Maybe, None
  <2>2. UnionBounds(a, b) = <<u>>
    BY <1>2 DEF UnionBounds, Some
  <2> HIDE DEF s, t
  <2>3. s.south \in Int /\ s.west \in Int /\ s.north \in Int /\ s.east \in Int
    BY <2>1 DEF Boxes
  <2>4. t.south \in Int /\ t.west \in Int /\ t.north \in Int /\ t.east \in Int
    BY <2>1 DEF Boxes
  <2>5. Min({s.south, t.south}) \in Int
    BY <2>3, <2>4, MaxOfTwo
  <2>6. Min({s.west, t.west}) \in Int
    BY <2>3, <2>4, MaxOfTwo
  <2>7. Max({s.north, t.north}) \in Int
    BY <2>3, <2>4, MaxOfTwo
  <2>8. Max({s.east, t.east}) \in Int
    BY <2>3, <2>4, MaxOfTwo
  <2>9. u \in Boxes
    BY <2>5, <2>6, <2>7, <2>8 DEF Boxes
  <2> HIDE DEF u
  <2> QED
    BY <2>2, <2>9 DEF Maybe
<1> QED
  BY <1>1, <1>2

LEMMA IndexOfTyped ==
  ASSUME NEW ways \in Seq(Ways)
  PROVE  IndexOf(ways) \in Indexes
<1> DEFINE ids == {ways[k].id : k \in DOMAIN ways}
           PlacesOf(id) == {k \in DOMAIN ways : ways[k].id = id}
<1>1. DOMAIN ways = 1 .. Len(ways) /\ Len(ways) \in Nat /\ \A k \in DOMAIN ways : ways[k] \in Ways
  OBVIOUS
<1>2. \A id \in ids : Max(PlacesOf(id)) \in Nat
  <2> SUFFICES ASSUME NEW id \in ids
               PROVE  Max(PlacesOf(id)) \in Nat
    OBVIOUS
  <2>1. PlacesOf(id) \in SUBSET (1 .. Len(ways)) /\ PlacesOf(id) # {}
    BY <1>1
  <2> HIDE DEF PlacesOf
  <2>2. Max(PlacesOf(id)) \in PlacesOf(id)
    <3>1. [s \in (SUBSET (1 .. Len(ways))) \ {{}} |-> Max(s)] \in Picks(1 .. Len(ways))
      BY <1>1, LastPosition
    <3> QED
      BY <2>1, <3>1 DEF Picks
  <2> QED
    BY <1>1, <2>1, <2>2
<1>3. ids \in SUBSET Int
  BY <1>1 DEF Ways
<1>4. IndexOf(ways) = [id \in ids |-> Max(PlacesOf(id))]
  BY DEF IndexOf
<1> HIDE DEF ids, PlacesOf
<1> QED
  BY <1>2, <1>3, <1>4 DEF Indexes

LEMMA WithWaysTyped ==
  ASSUME NEW src, NEW d \in Datas(src), NEW ways \in Seq(Ways)
  PROVE  WithWays(d, ways) \in Datas(src)
BY IndexOfTyped DEF WithWays, Datas

LEMMA PushWayTyped ==
  ASSUME NEW src, NEW d \in Datas(src), NEW way \in Ways
  PROVE  PushWay(d, way) \in Datas(src)
<1> DEFINE index == [id \in DOMAIN d.index \cup {way.id} |->
                       IF id = way.id THEN Len(d.ways) + 1 ELSE d.index[id]]
<1>1. d.ways \in Seq(Ways) /\ d.index \in Indexes /\ way.id \in Int
  BY DEF Datas, Ways
<1>2. Append(d.ways, way) \in Seq(Ways) /\ Len(d.ways) + 1 \in Nat
  BY <1>1
<1>3. DOMAIN d.index \in SUBSET Int /\ d.index \in [DOMAIN d.index -> Nat]
  BY <1>1 DEF Indexes
<1>4. index \in Indexes
  <2> DEFINE ids == DOMAIN d.index \cup {way.id}
  <2>1. ids \in SUBSET Int
    BY <1>1, <1>3
  <2>2. index \in [ids -> Nat]
    <3>1. \A id \in DOMAIN d.index : d.index[id] \in Nat
      BY <1>3
    <3> QED
      BY <1>2, <3>1
  <2> HIDE DEF ids, index
  <2> QED
    BY <2>1, <2>2 DEF Indexes
<1>5. PushWay(d, way) = [d EXCEPT !.ways = Append(d.ways, way), !.index = index]
  BY DEF PushWay
<1> HIDE DEF index
<1> QED
  BY <1>2, <1>4, <1>5 DEF Datas

LEMMA AddNodeTyped ==
  ASSUME NEW src, NEW d \in Datas(src), NEW id \in Int, NEW p \in Points
  PROVE  AddNode(d, id, p) \in Datas(src)
<1>1. Insert(d.nodes, id, p) \in NodeMaps
  BY NodeMapGrows DEF Datas
<1> QED
  BY <1>1 DEF AddNode, Datas

LEMMA AddTaggedTyped ==
  ASSUME NEW src, "osm" \in src, NEW d \in Datas(src), NEW p \in Points, NEW tags \in TagMaps
  PROVE  /\ AddTagged(d, p, tags) \in Datas(src)
         /\ AddTagged(d, p, tags).ways = d.ways /\ AddTagged(d, p, tags).relations = d.relations
<1> DEFINE poi == Poi(p, tags, "osm")
           If(cond, x) == IF cond THEN <<x>> ELSE << >>
<1>1. poi \in PoisOf(src) /\ At(poi) \in Points
  BY DEF Poi, PoisOf, Points, At, Point
<1>2. /\ d.tagged \in Seq(PoisOf(src)) /\ d.pois \in Seq(PoisOf(src)) /\ d.addrs \in Seq(PoisOf(src))
      /\ d.trees \in Seq(Points)
  BY DEF Datas
<1>3. AddTagged(d, p, tags) =
        [d EXCEPT !.tagged = d.tagged \o If(tags # NoTags, poi), !.pois = d.pois \o If(IsPoi(tags), poi),
                  !.addrs = d.addrs \o If(IsAddr(tags), poi), !.trees = d.trees \o If(IsTree(tags), At(p))]
  BY DEF AddTagged
<1>4. At(p) \in Points
  BY DEF Points, At, Point
<1> HIDE DEF poi
<1>5. /\ d.tagged \o If(tags # NoTags, poi) \in Seq(PoisOf(src))
      /\ d.pois \o If(IsPoi(tags), poi) \in Seq(PoisOf(src))
      /\ d.addrs \o If(IsAddr(tags), poi) \in Seq(PoisOf(src))
  BY <1>1, <1>2
<1>6. d.trees \o If(IsTree(tags), At(p)) \in Seq(Points)
  BY <1>2, <1>4
<1> HIDE DEF If
<1> QED
  BY <1>3, <1>5, <1>6 DEF Datas

----------------------------------------------------------------------------
(* next_writer_node_id.                                                     *)

\* Among one more numbers than are taken one is free.
LEMMA OneIsFree ==
  ASSUME NEW next \in Int, NEW occupied \in SUBSET Int, IsFiniteSet(occupied)
  PROVE  /\ Cardinality(occupied) \in Nat
         /\ \E k \in 0 .. Cardinality(occupied) : next - k \notin occupied
<1> DEFINE n == Cardinality(occupied)
<1>1. n \in Nat
  BY FS_CardinalityType
<1>2. SUFFICES ASSUME \A k \in 0 .. n : next - k \in occupied
               PROVE  FALSE
  BY <1>1
<1> HIDE DEF n
<1> DEFINE f == [k \in 0 .. n |-> next - k]
<1>3. f \in Injection(0 .. n, occupied)
  BY <1>1, <1>2 DEF Injection, IsInjective
<1>4. Cardinality(0 .. n) <= Cardinality(occupied)
  <2> HIDE DEF f
  <2> QED BY <1>3, FS_Injection
<1>5. Cardinality(0 .. n) = n + 1
  BY <1>1, FS_Interval
<1> QED BY <1>1, <1>4, <1>5 DEF n

\* Max is the first of them that next_writer_node_id reaches counting down.
LEMMA FirstFree ==
  ASSUME NEW next \in Int, NEW occupied \in SUBSET Int, IsFiniteSet(occupied)
  PROVE  LET id == Max({next - k : k \in 0 .. Cardinality(occupied)} \ occupied)
         IN  /\ id \in Int /\ id <= next /\ id \notin occupied
             /\ \A taken \in Int : id < taken /\ taken <= next => taken \in occupied
<1> DEFINE n == Cardinality(occupied)
           T == {k \in 0 .. n : next - k \notin occupied}
           Free == {next - k : k \in 0 .. n} \ occupied
<1>1. n \in Nat /\ \E k \in 0 .. n : next - k \notin occupied
  BY OneIsFree
<1> HIDE DEF n
<1>2. T \in SUBSET Nat /\ T # {}
  BY <1>1
<1>3. PICK k \in T : \A j \in T : k <= j
  <2> HIDE DEF T
  <2> QED BY <1>2, LeastNat
<1>4. next - k \in Free /\ \A x \in Free : next - k >= x
  BY <1>1, <1>3
<1>5. Max(Free) \in Free /\ \A x \in Free : Max(Free) >= x
  <2> HIDE DEF Free
  <2> QED BY <1>4 DEF Max
<1>6. Max(Free) = next - k
  <2>1. \A x \in Free : x \in Int
    BY <1>1
  <2>2. next - k \in Int
    BY <1>1, <1>3
  <2> HIDE DEF Free
  <2>3. Max(Free) \in Int /\ Max(Free) >= next - k /\ next - k >= Max(Free)
    BY <1>4, <1>5, <2>1
  <2> QED BY <2>2, <2>3
<1>7. \A taken \in Int : next - k < taken /\ taken <= next => taken \in occupied
  <2> SUFFICES ASSUME NEW taken \in Int, next - k < taken, taken <= next, taken \notin occupied
               PROVE  FALSE
    OBVIOUS
  <2>1. next - taken \in T /\ next - taken < k
    BY <1>1, <1>3
  <2> QED BY <1>3, <2>1
<1> QED BY <1>1, <1>3, <1>6, <1>7 DEF n

\* What the writer has handed out so far: numbers of its own, pairwise
\* different, all taken since, none of them an id of the data.
WriterIds(s, data) ==
  /\ s = [next |-> s.next, occupied |-> s.occupied, ids |-> s.ids]
  /\ s.next \in Int /\ s.occupied \in SUBSET Int /\ IsFiniteSet(s.occupied)
  /\ s.ids \in Seq(Int)
  /\ data \subseteq s.occupied
  /\ \A j \in 1 .. Len(s.ids) : s.ids[j] \in s.occupied \ data
  /\ \A j, k \in 1 .. Len(s.ids) : s.ids[j] = s.ids[k] => j = k
  /\ \A j \in 1 .. Len(s.ids) : s.next < s.ids[j] /\ s.ids[j] <= SYNTHETIC_NODE_ID_BASE

\* Before the first standalone node is written, whatever ids the data has.
THEOREM WriterIdsStart ==
  ASSUME NEW data \in SUBSET Int, IsFiniteSet(data)
  PROVE  WriterIds(NodeIds(data), data)
BY BasesAreOrdered DEF WriterIds, NodeIds

\* Each call of next_writer_node_id keeps it, data that was written and read
\* before included: the new id is none that the data or this writer had.
THEOREM WriterIdsStayFresh ==
  ASSUME NEW data \in SUBSET Int, NEW s, WriterIds(s, data), s.next <= SYNTHETIC_NODE_ID_BASE
  PROVE  /\ WriterIds(NextWriterNodeId(s), data)
         /\ NextWriterNodeId(s).next < s.next
         /\ Len(NextWriterNodeId(s).ids) = Len(s.ids) + 1
<1> DEFINE id == Max({s.next - k : k \in 0 .. Cardinality(s.occupied)} \ s.occupied)
           t == NextWriterNodeId(s)
<1>1. id \in Int /\ id <= s.next /\ id \notin s.occupied
  BY FirstFree DEF WriterIds
<1>2. t = [next |-> id - 1, occupied |-> s.occupied \cup {id}, ids |-> Append(s.ids, id)]
  BY DEF NextWriterNodeId
<1> HIDE DEF id, t
<1>3. /\ t.next = id - 1 /\ t.occupied = s.occupied \cup {id} /\ t.ids = Append(s.ids, id)
      /\ t = [next |-> t.next, occupied |-> t.occupied, ids |-> t.ids]
  BY <1>2
<1>4. IsFiniteSet(t.occupied)
  <2>1. IsFiniteSet(s.occupied)
    BY DEF WriterIds
  <2> QED BY <1>3, <2>1, FS_AddElement
<1>5. /\ t.ids \in Seq(Int) /\ Len(t.ids) = Len(s.ids) + 1 /\ Len(s.ids) \in Nat
      /\ \A j \in 1 .. Len(s.ids) : t.ids[j] = s.ids[j]
      /\ t.ids[Len(s.ids) + 1] = id
  BY <1>1, <1>3 DEF WriterIds
<1>6. \A j \in 1 .. Len(t.ids) : (j \in 1 .. Len(s.ids)) \/ j = Len(s.ids) + 1
  BY <1>5
<1>7. t.next \in Int /\ t.occupied \in SUBSET Int /\ data \subseteq t.occupied /\ t.next < s.next
  BY <1>1, <1>3 DEF WriterIds
<1>8. \A j \in 1 .. Len(t.ids) : t.ids[j] \in t.occupied \ data
  BY <1>1, <1>3, <1>5, <1>6 DEF WriterIds
<1>9. \A j, k \in 1 .. Len(t.ids) : t.ids[j] = t.ids[k] => j = k
  BY <1>1, <1>5, <1>6 DEF WriterIds
<1>10. \A j \in 1 .. Len(t.ids) : t.next < t.ids[j] /\ t.ids[j] <= SYNTHETIC_NODE_ID_BASE
  <2>1. \A j \in 1 .. Len(s.ids) : t.next < s.ids[j] /\ s.ids[j] <= SYNTHETIC_NODE_ID_BASE
    <3> SUFFICES ASSUME NEW j \in 1 .. Len(s.ids)
                 PROVE  t.next < s.ids[j] /\ s.ids[j] <= SYNTHETIC_NODE_ID_BASE
      OBVIOUS
    <3>1. s.next < s.ids[j] /\ s.ids[j] <= SYNTHETIC_NODE_ID_BASE /\ s.ids[j] \in Int /\ s.next \in Int
      BY DEF WriterIds
    <3> QED BY <1>7, <3>1
  <2>2. t.next < id /\ id <= SYNTHETIC_NODE_ID_BASE
    BY <1>1, <1>3, BasesAreOrdered DEF WriterIds
  <2> QED BY <1>5, <1>6, <2>1, <2>2
<1>11. WriterIds(t, data)
  BY <1>3, <1>4, <1>5, <1>7, <1>8, <1>9, <1>10 DEF WriterIds
<1> QED BY <1>5, <1>7, <1>11 DEF t

\* The writer takes one id for each standalone node.
NextId(s, p) == NextWriterNodeId(s)

IdRun(h, V, base, s) ==
  /\ Chain(h, V, Len(s), base, FoldLeft(NextId, base, s))
  /\ \A k \in 1 .. Len(s) : h[k] = NextId(h[k - 1], s[k])

LEMMA IdSteps ==
  ASSUME NEW U, NEW s \in Seq(U), NEW V, NEW base \in V, \A v \in V, u \in U : NextId(v, u) \in V
  PROVE  \E h : IdRun(h, V, base, s)
<1> DEFINE n == Len(s)
           step == [kv \in (1 .. n) \X V |-> NextId(kv[2], s[kv[1]])]
           Rest(I, g) == IF I = {} THEN base ELSE NextId(g[I \ {Max(I)}], s[Max(I)])
           Eq(g) == g = [I \in SUBSET (1 .. n) |-> Rest(I, g)]
           c == CHOOSE g : Eq(g)
<1>1. n \in Nat /\ DOMAIN s = 1 .. n /\ \A k \in 1 .. n : s[k] \in U
  OBVIOUS
<1>2. step \in [(1 .. n) \X V -> V] /\ \A k \in 1 .. n, v \in V : step[<<k, v>>] = NextId(v, s[k])
  BY <1>1
<1>3. FoldLeft(NextId, base, s) = c[1 .. n]
  <2>1. FoldLeft(NextId, base, s) = (CHOOSE g : g = [I \in SUBSET DOMAIN s |-> Rest(I, g)])[DOMAIN s]
    BY Zenon DEF FoldLeft, MapThenFoldSet
  <2> QED
    BY <1>1, <2>1, Zenon
<1> HIDE DEF n, step, c
<1>4. PICK f \in [SUBSET (1 .. n) -> V] : IsSequenceFold(n, base, step, f)
  BY <1>1, <1>2, SequenceFold
<1>5. \A I \in SUBSET (1 .. n) : f[I] = Rest(I, f)
  <2>1. \A I \in SUBSET (1 .. n) : f[I \ {Max(I)}] \in V
    OBVIOUS
  <2> QED
    BY <1>2, <1>4, <2>1 DEF IsSequenceFold
<1>6. Eq(f)
  BY <1>5
<1>7. Eq(c)
  <2> HIDE DEF Eq
  <2> QED
    BY <1>6 DEF c
<1>8. c[{}] = f[{}] /\ \A I \in SUBSET (1 .. n) : I # {} /\ c[I \ {Max(I)}] = f[I \ {Max(I)}] => c[I] = f[I]
  BY <1>5, <1>7
<1>9. PICK h : Follows(h, V, n, base, step, c[1 .. n])
  BY <1>1, <1>4, <1>8, FoldFollows
<1>10. \A k \in 1 .. n : h[k] = NextId(h[k - 1], s[k])
  <2> SUFFICES ASSUME NEW k \in 1 .. n
               PROVE  h[k] = NextId(h[k - 1], s[k])
    OBVIOUS
  <2>1. h[k - 1] \in V /\ h[k] = step[<<k, h[k - 1]>>]
    BY <1>1, <1>9 DEF Follows, Chain
  <2> QED
    BY <1>2, <2>1
<1> QED
  BY <1>3, <1>9, <1>10 DEF n, Follows, IdRun

\* What the writer gives its standalone nodes (next_writer_node_id in
\* xml_write.rs, called once for each of them): ids that no node of the data
\* has and that are pairwise different, however the data got its own.
THEOREM WriterIdsAreFresh ==
  ASSUME NEW data \in SUBSET Int, IsFiniteSet(data), NEW U, NEW list \in Seq(U)
  PROVE  LET ids == FoldLeft(LAMBDA s, p : NextWriterNodeId(s), NodeIds(data), list).ids
         IN  /\ ids \in Seq(Int) /\ Len(ids) = Len(list)
             /\ \A k \in 1 .. Len(ids) : ids[k] \notin data
             /\ \A j, k \in 1 .. Len(ids) : ids[j] = ids[k] => j = k
<1> DEFINE States == [next : Int, occupied : SUBSET Int, ids : Seq(Int)]
           V == {s \in States : WriterIds(s, data) /\ s.next <= SYNTHETIC_NODE_ID_BASE}
           s == FoldLeft(NextId, NodeIds(data), list)
           n == Len(list)
<1>1. n \in Nat
  OBVIOUS
<1>2. ASSUME NEW v, WriterIds(v, data), v.next <= SYNTHETIC_NODE_ID_BASE
      PROVE  v \in V
  <2>1. v = [next |-> v.next, occupied |-> v.occupied, ids |-> v.ids]
    BY <1>2 DEF WriterIds
  <2>2. v.next \in Int /\ v.occupied \in SUBSET Int /\ v.ids \in Seq(Int)
    BY <1>2 DEF WriterIds
  <2> QED
    BY <1>2, <2>1, <2>2
<1>3. NodeIds(data) \in V /\ Len(NodeIds(data).ids) = 0
  <2>1. NodeIds(data).next <= SYNTHETIC_NODE_ID_BASE /\ NodeIds(data).ids = << >>
    BY BasesAreOrdered DEF NodeIds
  <2> HIDE DEF V
  <2> QED
    BY <1>2, <2>1, WriterIdsStart
<1>4. ASSUME NEW v \in V
      PROVE  NextWriterNodeId(v) \in V /\ Len(NextWriterNodeId(v).ids) = Len(v.ids) + 1
  <2>1. WriterIds(v, data) /\ v.next <= SYNTHETIC_NODE_ID_BASE
    OBVIOUS
  <2> HIDE DEF V
  <2>2. /\ WriterIds(NextWriterNodeId(v), data) /\ NextWriterNodeId(v).next < v.next
        /\ Len(NextWriterNodeId(v).ids) = Len(v.ids) + 1
    BY <2>1, WriterIdsStayFresh
  <2>3. v.next \in Int /\ NextWriterNodeId(v).next \in Int /\ SYNTHETIC_NODE_ID_BASE \in Int
    BY <2>1, <2>2, BasesAreOrdered DEF WriterIds
  <2>4. NextWriterNodeId(v).next <= SYNTHETIC_NODE_ID_BASE
    BY <2>1, <2>2, <2>3
  <2> QED
    BY <1>2, <2>2, <2>4
<1>5. \A v \in V, u \in U : NextId(v, u) \in V
  BY <1>4 DEF NextId
<1> HIDE DEF V
<1>6. PICK h : IdRun(h, V, NodeIds(data), list)
  BY <1>3, <1>5, IdSteps
<1>7. /\ h \in [0 .. n -> V] /\ h[0] = NodeIds(data) /\ h[n] = s
      /\ \A k \in 1 .. n : h[k] = NextWriterNodeId(h[k - 1])
  BY <1>6, Zenon DEF IdRun, Chain, NextId
<1> HIDE DEF n, s
<1> DEFINE G == {k \in 0 .. n : Len(h[k].ids) = k}
<1>8. \A k \in 0 .. n : k \in G
  <2>1. G \in SUBSET (0 .. n) /\ 0 \in G
    BY <1>1, <1>3, <1>7
  <2>2. \A k \in 1 .. n : k - 1 \in G => k \in G
    <3> SUFFICES ASSUME NEW k \in 1 .. n, k - 1 \in G
                 PROVE  k \in G
      OBVIOUS
    <3>1. h[k - 1] \in V /\ Len(h[k - 1].ids) = k - 1
      BY <1>1, <1>7
    <3>2. Len(h[k].ids) = (k - 1) + 1
      BY <1>4, <1>7, <3>1
    <3> QED
      BY <3>2
  <2> HIDE DEF G
  <2> QED
    BY <1>1, <2>1, <2>2, EveryStep
<1>9. Len(s.ids) = n /\ s \in V
  BY <1>1, <1>7, <1>8
<1>10. WriterIds(s, data)
  BY <1>9 DEF V
<1>11. s.ids \in Seq(Int)
  BY <1>10 DEF WriterIds
<1>12. \A k \in 1 .. Len(s.ids) : s.ids[k] \notin data
  BY <1>10 DEF WriterIds
<1>13. \A j, k \in 1 .. Len(s.ids) : s.ids[j] = s.ids[k] => j = k
  BY <1>10 DEF WriterIds
<1>14. FoldLeft(LAMBDA v, p : NextWriterNodeId(v), NodeIds(data), list) = s
  BY Zenon DEF s, NextId, FoldLeft, MapThenFoldSet
<1> QED
  BY <1>9, <1>11, <1>12, <1>13, <1>14 DEF n

----------------------------------------------------------------------------
(* The ways and their index.                                                *)

\* All that is assumed of the data: it has ways, and a map of their ids.
HasWays(d, W) ==
  /\ d = [f \in DOMAIN d |-> d[f]] /\ {"ways", "index"} \subseteq DOMAIN d
  /\ d.ways \in Seq(W)
  /\ d.index = [id \in DOMAIN d.index |-> d.index[id]]

\* A map that validate_invariants accepts has finitely many ids.
LEMMA IndexIsFinite ==
  ASSUME NEW W, NEW d, HasWays(d, W), ValidateInvariants(d)
  PROVE  IsFiniteSet(DOMAIN d.index) /\ Len(d.ways) \in Nat
<1>1. DOMAIN d.ways = 1 .. Len(d.ways) /\ Len(d.ways) \in Nat
  BY DEF HasWays
<1>2. d.index \in Injection(DOMAIN d.index, 1 .. Len(d.ways))
  BY <1>1 DEF HasWays, ValidateInvariants, Injection
<1>3. IsFiniteSet(1 .. Len(d.ways))
  BY <1>1, FS_Interval
<1> QED BY <1>1, <1>2, <1>3, FS_Injection

LEMMA Pushed ==
  ASSUME NEW W, NEW d, HasWays(d, W), NEW way \in W
  PROVE  LET e == PushWay(d, way)
             n == Len(d.ways)
         IN  /\ HasWays(e, W) /\ n \in Nat
             /\ Len(e.ways) = n + 1 /\ DOMAIN e.ways = 1 .. n + 1
             /\ \A k \in 1 .. n : e.ways[k] = d.ways[k]
             /\ e.ways[n + 1] = way
             /\ DOMAIN e.index = DOMAIN d.index \cup {way.id}
             /\ e.index[way.id] = n + 1
             /\ \A id \in DOMAIN d.index \ {way.id} : e.index[id] = d.index[id]
<1> DEFINE e == PushWay(d, way)
           n == Len(d.ways)
<1>1. /\ e.ways = Append(d.ways, way) /\ e.index = [id \in DOMAIN d.index \cup {way.id} |->
                     IF id = way.id THEN n + 1 ELSE d.index[id]]
      /\ e = [f \in DOMAIN e |-> e[f]] /\ DOMAIN e = DOMAIN d
  BY DEF PushWay, HasWays
<1> HIDE DEF e
<1>2. /\ n \in Nat /\ e.ways \in Seq(W) /\ Len(e.ways) = n + 1 /\ DOMAIN e.ways = 1 .. n + 1
      /\ \A k \in 1 .. n : e.ways[k] = d.ways[k]
      /\ e.ways[n + 1] = way
  BY <1>1 DEF HasWays
<1>3. /\ DOMAIN e.index = DOMAIN d.index \cup {way.id}
      /\ e.index = [id \in DOMAIN e.index |-> e.index[id]]
      /\ e.index[way.id] = n + 1
      /\ \A id \in DOMAIN d.index \ {way.id} : e.index[id] = d.index[id]
  BY <1>1
<1> QED BY <1>1, <1>2, <1>3 DEF e, HasWays

\* push_way (model.rs) keeps validate_invariants for a way whose id is new ...
THEOREM PushWayKeepsIndex ==
  ASSUME NEW W, NEW d, HasWays(d, W), ValidateInvariants(d),
         NEW way \in W, way.id \notin DOMAIN d.index
  PROVE  ValidateInvariants(PushWay(d, way))
<1> DEFINE e == PushWay(d, way)
           n == Len(d.ways)
<1>1. /\ n \in Nat /\ DOMAIN e.ways = 1 .. n + 1 /\ Len(e.ways) = n + 1
      /\ \A k \in 1 .. n : e.ways[k] = d.ways[k]
      /\ e.ways[n + 1] = way
      /\ DOMAIN e.index = DOMAIN d.index \cup {way.id}
      /\ e.index[way.id] = n + 1
      /\ \A id \in DOMAIN d.index : e.index[id] = d.index[id]
  BY Pushed
<1> HIDE DEF e
<1>2. /\ DOMAIN d.ways = 1 .. n
      /\ \A id \in DOMAIN d.index : d.index[id] \in 1 .. n
      /\ \A a, b \in DOMAIN d.index : d.index[a] = d.index[b] => a = b
      /\ \A k \in 1 .. n : d.ways[k].id \in DOMAIN d.index /\ d.index[d.ways[k].id] = k
      /\ Cardinality(DOMAIN d.index) = n
  BY DEF HasWays, ValidateInvariants, IsInjective
<1>3. Cardinality(DOMAIN e.index) = n + 1
  <2>1. IsFiniteSet(DOMAIN d.index)
    BY IndexIsFinite
  <2>2. Cardinality(DOMAIN d.index \cup {way.id}) = Cardinality(DOMAIN d.index) + 1
    BY <2>1, FS_AddElement
  <2> QED BY <1>1, <1>2, <2>2
<1>4. \A id \in DOMAIN e.index : e.index[id] \in 1 .. n + 1
  BY <1>1, <1>2
<1>5. IsInjective(e.index)
  <2> SUFFICES ASSUME NEW a \in DOMAIN e.index, NEW b \in DOMAIN e.index, e.index[a] = e.index[b]
               PROVE  a = b
    BY DEF IsInjective
  <2>1. \A id \in DOMAIN d.index : e.index[id] \in 1 .. n
    BY <1>1, <1>2
  <2>2. n + 1 \notin 1 .. n
    BY <1>1
  <2> QED BY <1>1, <1>2, <2>1, <2>2
<1>6. \A k \in 1 .. n + 1 : e.ways[k].id \in DOMAIN e.index /\ e.index[e.ways[k].id] = k
  <2> SUFFICES ASSUME NEW k \in 1 .. n + 1
               PROVE  e.ways[k].id \in DOMAIN e.index /\ e.index[e.ways[k].id] = k
    OBVIOUS
  <2>1. k \in 1 .. n \/ k = n + 1
    BY <1>1
  <2>2. CASE k = n + 1
    BY <1>1, <2>2
  <2>3. CASE k \in 1 .. n
    <3>1. e.ways[k] = d.ways[k] /\ d.ways[k].id \in DOMAIN d.index /\ d.index[d.ways[k].id] = k
      BY <1>1, <1>2, <2>3
    <3>2. e.index[d.ways[k].id] = d.index[d.ways[k].id]
      BY <1>1, <3>1
    <3> QED BY <1>1, <3>1, <3>2
  <2> QED BY <2>1, <2>2, <2>3
<1>7. ValidateInvariants(e)
  BY <1>1, <1>3, <1>4, <1>5, <1>6 DEF ValidateInvariants
<1> QED BY <1>7 DEF e

\* ... and breaks it for one whose id is there: what merge asks before it
\* pushes is left to every other caller.
THEOREM PushWayOfAKnownId ==
  ASSUME NEW W, NEW d, HasWays(d, W), ValidateInvariants(d),
         NEW way \in W, way.id \in DOMAIN d.index
  PROVE  ~ ValidateInvariants(PushWay(d, way))
<1> DEFINE e == PushWay(d, way)
           n == Len(d.ways)
<1>1. /\ n \in Nat /\ Len(e.ways) = n + 1
      /\ DOMAIN e.index = DOMAIN d.index \cup {way.id}
  BY Pushed
<1>2. DOMAIN e.index = DOMAIN d.index
  BY <1>1
<1>3. Cardinality(DOMAIN e.index) = n
  BY <1>2 DEF ValidateInvariants
<1> QED BY <1>1, <1>3 DEF ValidateInvariants

\* with_ways and the constructor make it of any ways of different ids, whatever
\* the data was before.
THEOREM WithWaysMakesIndex ==
  ASSUME NEW W, NEW d, HasWays(d, W), NEW ways \in Seq(W),
         \A j, k \in 1 .. Len(ways) : ways[j].id = ways[k].id => j = k
  PROVE  ValidateInvariants(WithWays(d, ways))
<1> DEFINE n == Len(ways)
           ids == {ways[k].id : k \in 1 .. n}
           e == WithWays(d, ways)
<1>1. n \in Nat /\ DOMAIN ways = 1 .. n
  OBVIOUS
<1>2. \A k \in 1 .. n : Max({j \in 1 .. n : ways[j].id = ways[k].id}) = k
  <2> SUFFICES ASSUME NEW k \in 1 .. n
               PROVE  Max({j \in 1 .. n : ways[j].id = ways[k].id}) = k
    OBVIOUS
  <2>1. {j \in 1 .. n : ways[j].id = ways[k].id} = {k}
    OBVIOUS
  <2>2. Max({k}) = k
    BY <1>1 DEF Max
  <2> QED BY <2>1, <2>2
<1>3. e.ways = ways /\ e.index = IndexOf(ways)
  BY DEF WithWays, HasWays
<1>4. /\ DOMAIN e.index = ids
      /\ \A k \in 1 .. n : e.index[ways[k].id] = k
  BY <1>1, <1>2, <1>3 DEF IndexOf
<1> HIDE DEF e
<1>5. Cardinality(ids) = n
  <2> DEFINE f == [k \in 1 .. n |-> ways[k].id]
  <2>1. f \in Surjection(1 .. n, ids) /\ f \in Injection(1 .. n, ids)
    BY DEF Surjection, Injection, IsInjective
  <2>2. IsFiniteSet(1 .. n) /\ Cardinality(1 .. n) = n
    BY <1>1, FS_Interval
  <2> HIDE DEF f, ids
  <2> QED BY <2>1, <2>2, FS_Surjection
<1>6. IsInjective(e.index)
  BY <1>4 DEF IsInjective
<1>7. \A id \in DOMAIN e.index : e.index[id] \in DOMAIN e.ways
  BY <1>1, <1>3, <1>4
<1>8. \A k \in DOMAIN e.ways :
         e.ways[k].id \in DOMAIN e.index /\ e.index[e.ways[k].id] = k
  BY <1>1, <1>3, <1>4
<1>9. Cardinality(DOMAIN e.index) = Len(e.ways)
  BY <1>3, <1>4, <1>5
<1>10. ValidateInvariants(e)
  BY <1>6, <1>7, <1>8, <1>9 DEF ValidateInvariants
<1> QED BY <1>10 DEF e

\* The other builders (model.rs) replace one collection and leave the ways and
\* their index alone, in whatever order a chain applies them.
THEOREM BuildersKeepIndex ==
  ASSUME NEW d, ValidateInvariants(d), NEW x
  PROVE  /\ ValidateInvariants(WithNodes(d, x))
         /\ ValidateInvariants(WithRelations(d, x))
         /\ ValidateInvariants(WithBounds(d, x))
         /\ ValidateInvariants(WithPoiNodes(d, x))
         /\ ValidateInvariants(WithAddrNodes(d, x))
         /\ ValidateInvariants(WithTreeNodes(d, x))
         /\ ValidateInvariants(WithTaggedNodes(d, x))
<1>1. ASSUME NEW e, e.ways = d.ways, e.index = d.index PROVE ValidateInvariants(e)
  BY <1>1, Zenon DEF ValidateInvariants
<1>2. \A f \in {"nodes", "relations", "bounds", "pois", "addrs", "trees", "tagged"} :
        LET e == [d EXCEPT ![f] = x] IN e.ways = d.ways /\ e.index = d.index
  OBVIOUS
<1> QED BY <1>1, <1>2 DEF WithNodes, WithRelations, WithBounds, WithPoiNodes, WithAddrNodes,
          WithTreeNodes, WithTaggedNodes

----------------------------------------------------------------------------
LEMMA DatasHaveWays ==
  ASSUME NEW src, NEW d \in Datas(src)
  PROVE  HasWays(d, Ways)
<1>1. d.index = [id \in DOMAIN d.index |-> d.index[id]]
  BY DEF Datas, Indexes
<1> QED
  BY <1>1 DEF HasWays, Datas

\* merge takes the ways one by one.
MergeWay(acc, w) == IF w.id \in DOMAIN acc.index THEN acc ELSE PushWay(acc, w)

MergeWaysRun(h, V, base, s) ==
  /\ Chain(h, V, Len(s), base, MergeWays(base, s))
  /\ \A k \in 1 .. Len(s) : h[k] = MergeWay(h[k - 1], s[k])

LEMMA MergeWaysSteps ==
  ASSUME NEW U, NEW s \in Seq(U), NEW V, NEW base \in V, \A v \in V, u \in U : MergeWay(v, u) \in V
  PROVE  \E h : MergeWaysRun(h, V, base, s)
<1> DEFINE n == Len(s)
           step == [kv \in (1 .. n) \X V |-> MergeWay(kv[2], s[kv[1]])]
           Rest(I, g) == IF I = {} THEN base ELSE MergeWay(g[I \ {Max(I)}], s[Max(I)])
           Eq(g) == g = [I \in SUBSET (1 .. n) |-> Rest(I, g)]
           c == CHOOSE g : Eq(g)
<1>1. n \in Nat /\ DOMAIN s = 1 .. n /\ \A k \in 1 .. n : s[k] \in U
  OBVIOUS
<1>2. step \in [(1 .. n) \X V -> V] /\ \A k \in 1 .. n, v \in V : step[<<k, v>>] = MergeWay(v, s[k])
  BY <1>1
<1>3. MergeWays(base, s) = c[1 .. n]
  <2>1. MergeWays(base, s) = (CHOOSE g : g = [I \in SUBSET DOMAIN s |-> Rest(I, g)])[DOMAIN s]
    BY Zenon DEF MergeWays, MergeWay, FoldLeft, MapThenFoldSet
  <2> QED
    BY <1>1, <2>1, Zenon
<1> HIDE DEF n, step, c
<1>4. PICK f \in [SUBSET (1 .. n) -> V] : IsSequenceFold(n, base, step, f)
  BY <1>1, <1>2, SequenceFold
<1>5. \A I \in SUBSET (1 .. n) : f[I] = Rest(I, f)
  <2>1. \A I \in SUBSET (1 .. n) : f[I \ {Max(I)}] \in V
    OBVIOUS
  <2> QED
    BY <1>2, <1>4, <2>1 DEF IsSequenceFold
<1>6. Eq(f)
  BY <1>5
<1>7. Eq(c)
  <2> HIDE DEF Eq
  <2> QED
    BY <1>6 DEF c
<1>8. c[{}] = f[{}] /\ \A I \in SUBSET (1 .. n) : I # {} /\ c[I \ {Max(I)}] = f[I \ {Max(I)}] => c[I] = f[I]
  BY <1>5, <1>7
<1>9. PICK h : Follows(h, V, n, base, step, c[1 .. n])
  BY <1>1, <1>4, <1>8, FoldFollows
<1>10. \A k \in 1 .. n : h[k] = MergeWay(h[k - 1], s[k])
  <2> SUFFICES ASSUME NEW k \in 1 .. n
               PROVE  h[k] = MergeWay(h[k - 1], s[k])
    OBVIOUS
  <2>1. h[k - 1] \in V /\ h[k] = step[<<k, h[k - 1]>>]
    BY <1>1, <1>9 DEF Follows, Chain
  <2> QED
    BY <1>2, <2>1
<1> QED
  BY <1>3, <1>9, <1>10 DEF n, Follows, MergeWaysRun

\* Whatever ways are merged, the index stays theirs, and points of interest
\* are left alone.
LEMMA MergeWaysSound ==
  ASSUME NEW src, NEW d \in SoundDatas(src), NEW ways \in Seq(Ways)
  PROVE  MergeWays(d, ways) \in SoundDatas(src) /\ MergeWays(d, ways).pois = d.pois
<1> DEFINE V == {e \in SoundDatas(src) : e.pois = d.pois}
<1>1. ASSUME NEW e \in V, NEW w \in Ways
      PROVE  MergeWay(e, w) \in V
  <2>1. CASE w.id \in DOMAIN e.index
    BY <2>1 DEF MergeWay
  <2>2. CASE w.id \notin DOMAIN e.index
    <3>1. PushWay(e, w) \in Datas(src)
      BY PushWayTyped DEF SoundDatas
    <3>2. ValidateInvariants(PushWay(e, w))
      BY <2>2, DatasHaveWays, PushWayKeepsIndex DEF SoundDatas
    <3>3. PushWay(e, w).pois = e.pois
      BY DEF PushWay, SoundDatas, Datas
    <3> QED
      BY <2>2, <3>1, <3>2, <3>3 DEF MergeWay, SoundDatas
  <2> QED
    BY <2>1, <2>2
<1>2. d \in V
  OBVIOUS
<1> HIDE DEF V
<1>3. PICK h : MergeWaysRun(h, V, d, ways)
  BY <1>1, <1>2, MergeWaysSteps
<1>4. MergeWays(d, ways) \in V
  BY <1>3 DEF MergeWaysRun, Chain
<1> QED
  BY <1>4 DEF V

\* merge (model.rs) keeps validate_invariants whatever is merged, indexed or
\* not, and puts the points of interest of the one behind the other's.
THEOREM MergeKeepsIndex ==
  ASSUME NEW src, NEW d \in SoundDatas(src), NEW other \in Datas(src)
  PROVE  Merge(d, other) \in SoundDatas(src) /\ Merge(d, other).pois = d.pois \o other.pois
<1> DEFINE e == MergeWays(d, other.ways)
           m == Merge(d, other)
<1>1. e \in SoundDatas(src) /\ e.pois = d.pois
  <2>1. other.ways \in Seq(Ways)
    BY DEF Datas
  <2> QED
    BY <2>1, MergeWaysSound
<1> HIDE DEF e
<1>2. Extend(e.nodes, other.nodes) \in NodeMaps
  BY <1>1, NodeMapsMerge DEF SoundDatas, Datas
<1>3. UnionBounds(e.bounds, other.bounds) \in Maybe(Boxes)
  BY <1>1, UnionBoundsTyped DEF SoundDatas, Datas
<1>4. m = [e EXCEPT !.nodes = Extend(e.nodes, other.nodes), !.relations = e.relations \o other.relations,
                    !.pois = e.pois \o other.pois, !.addrs = e.addrs \o other.addrs,
                    !.trees = e.trees \o other.trees, !.tagged = e.tagged \o other.tagged,
                    !.bounds = UnionBounds(e.bounds, other.bounds)]
  BY DEF Merge, e
<1> HIDE DEF m
<1>5. m \in Datas(src) /\ m.ways = e.ways /\ m.index = e.index /\ m.pois = e.pois \o other.pois
  <2>1. e \in Datas(src) /\ other \in Datas(src)
    BY <1>1 DEF SoundDatas
  <2>2. /\ e.relations \o other.relations \in Seq(Relations) /\ e.trees \o other.trees \in Seq(Points)
        /\ e.pois \o other.pois \in Seq(PoisOf(src)) /\ e.addrs \o other.addrs \in Seq(PoisOf(src))
        /\ e.tagged \o other.tagged \in Seq(PoisOf(src))
    BY <2>1 DEF Datas
  <2> QED
    BY <1>2, <1>3, <1>4, <2>1, <2>2 DEF Datas
<1>6. ValidateInvariants(m)
  <2>1. ValidateInvariants(e)
    BY <1>1 DEF SoundDatas
  <2> QED
    BY <1>5, <2>1, Zenon DEF ValidateInvariants
<1> QED
  BY <1>1, <1>5, <1>6 DEF SoundDatas, m

----------------------------------------------------------------------------
(* clip_to_bbox.                                                            *)

\* Elements that are told apart by a field of theirs stay so.
LEMMA PassingKeepsIds ==
  ASSUME NEW V, NEW s \in Seq(V), NEW P, \A j, k \in 1 .. Len(s) : s[j].id = s[k].id => j = k
  PROVE  \A j, k \in 1 .. Len(Passing(s, P)) : Passing(s, P)[j].id = Passing(s, P)[k].id => j = k
<1> DEFINE c == Passing(s, P)
<1>1. PICK o : PassingOf(s, P, o)
  BY PassingIs
<1>2. c \in Seq(V)
  BY PassingIs
<1>3. /\ \A k \in DOMAIN c : o[k] \in DOMAIN s /\ c[k] = s[o[k]]
      /\ \A j, k \in DOMAIN c : j < k => o[j] < o[k]
  BY <1>1 DEF PassingOf, Enumerates
<1> HIDE DEF c
<1>4. DOMAIN c = 1 .. Len(c) /\ DOMAIN s = 1 .. Len(s) /\ Len(c) \in Nat /\ Len(s) \in Nat
  BY <1>2
<1>5. ASSUME NEW j \in 1 .. Len(c), NEW k \in 1 .. Len(c), c[j].id = c[k].id
      PROVE  j = k
  <2>1. o[j] = o[k] /\ o[j] \in Int
    BY <1>3, <1>4, <1>5
  <2>2. j < k \/ k < j \/ j = k
    BY <1>4
  <2> QED
    BY <1>3, <1>4, <2>1, <2>2
<1> QED
  BY <1>5 DEF c

Touching(d, box) == {w \in Ways : Touches(d, w, box)}
Kept(d, box) == Passing(d.ways, Touching(d, box))
Used(ways) == UNION {Range(ways[k].refs) : k \in DOMAIN ways}
InsideOf(V, box) == {p \in V : Inside(p, box)}
Built(ids) == {r \in Relations : \E k \in DOMAIN r.members : r.members[k].way \in ids}

IsClip(c, d, box, src) ==
  c =
    [d EXCEPT !.ways      = Kept(d, box),
              !.index     = IndexOf(Kept(d, box)),
              !.nodes     = Restrict(d.nodes, DOMAIN d.nodes \cap Used(Kept(d, box))),
              !.pois      = Passing(d.pois, InsideOf(PoisOf(src), box)),
              !.addrs     = Passing(d.addrs, InsideOf(PoisOf(src), box)),
              !.trees     = Passing(d.trees, InsideOf(Points, box)),
              !.tagged    = Passing(d.tagged, InsideOf(PoisOf(src), box)),
              !.relations = Passing(d.relations, Built(DOMAIN IndexOf(Kept(d, box)))),
              !.bounds    = Some(box)]

LEMMA ClipIs ==
  ASSUME NEW src, NEW d \in Datas(src), NEW box
  PROVE  IsClip(Clip(d, box), d, box, src)
<1> DEFINE In(p) == Inside(p, box)
           Touching1(w) == Touches(d, w, box)
           ids == DOMAIN IndexOf(Kept(d, box))
           Built1(r) == \E k \in DOMAIN r.members : r.members[k].way \in ids
<1>1. ASSUME NEW V, NEW s \in Seq(V)
      PROVE  Retain(s, In) = Passing(s, InsideOf(V, box))
  <2>1. {k \in DOMAIN s : In(s[k])} = {k \in DOMAIN s : s[k] \in InsideOf(V, box)}
    BY DEF InsideOf
  <2> QED
    BY <2>1, Zenon DEF Retain, Passing
<1>2. Retain(d.ways, Touching1) = Kept(d, box)
  <2>1. d.ways \in Seq(Ways)
    BY DEF Datas
  <2>2. {k \in DOMAIN d.ways : Touching1(d.ways[k])} = {k \in DOMAIN d.ways : d.ways[k] \in Touching(d, box)}
    BY <2>1 DEF Touching
  <2> QED
    BY <2>2, Zenon DEF Retain, Passing, Kept
<1>3. Retain(d.relations, Built1) = Passing(d.relations, Built(ids))
  <2>1. d.relations \in Seq(Relations)
    BY DEF Datas
  <2> HIDE DEF ids
  <2>2. {k \in DOMAIN d.relations : Built1(d.relations[k])} = {k \in DOMAIN d.relations : d.relations[k] \in Built(ids)}
    BY <2>1 DEF Built
  <2> QED
    BY <2>2, Zenon DEF Retain, Passing
<1>4. /\ Retain(d.pois, In) = Passing(d.pois, InsideOf(PoisOf(src), box))
      /\ Retain(d.addrs, In) = Passing(d.addrs, InsideOf(PoisOf(src), box))
      /\ Retain(d.tagged, In) = Passing(d.tagged, InsideOf(PoisOf(src), box))
      /\ Retain(d.trees, In) = Passing(d.trees, InsideOf(Points, box))
  <2>1. /\ d.pois \in Seq(PoisOf(src)) /\ d.addrs \in Seq(PoisOf(src)) /\ d.tagged \in Seq(PoisOf(src))
        /\ d.trees \in Seq(Points)
    BY DEF Datas
  <2> QED
    BY <1>1, <2>1
<1>5. Clip(d, box) =
           [d EXCEPT !.ways      = Retain(d.ways, Touching1),
                     !.index     = IndexOf(Retain(d.ways, Touching1)),
                     !.nodes     = Restrict(d.nodes, DOMAIN d.nodes \cap Used(Retain(d.ways, Touching1))),
                     !.pois      = Retain(d.pois, In),
                     !.addrs     = Retain(d.addrs, In),
                     !.trees     = Retain(d.trees, In),
                     !.tagged    = Retain(d.tagged, In),
                     !.relations = Retain(d.relations, LAMBDA r : \E k \in DOMAIN r.members :
                                     r.members[k].way \in DOMAIN IndexOf(Retain(d.ways, Touching1))),
                     !.bounds    = Some(box)]
  BY Zenon DEF Clip, Used
<1>6. Retain(d.relations, LAMBDA r : \E k \in DOMAIN r.members :
                                     r.members[k].way \in DOMAIN IndexOf(Retain(d.ways, Touching1)))
        = Retain(d.relations, Built1)
  BY <1>2, Zenon DEF Retain
<1> QED
  BY <1>2, <1>3, <1>4, <1>5, <1>6, Zenon DEF IsClip

LEMMA IdsDiffer ==
  ASSUME NEW src, NEW d \in SoundDatas(src)
  PROVE  d.ways \in Seq(Ways) /\ \A j, k \in 1 .. Len(d.ways) : d.ways[j].id = d.ways[k].id => j = k
<1>1. d.ways \in Seq(Ways)
  BY DEF SoundDatas, Datas
<1>2. \A k \in 1 .. Len(d.ways) : d.index[d.ways[k].id] = k
  BY <1>1 DEF SoundDatas, ValidateInvariants
<1> QED
  BY <1>1, <1>2

\* The fields of a clip.
ClipFields(c, d, box, src) ==
  /\ c.ways = Kept(d, box) /\ c.index = IndexOf(Kept(d, box))
  /\ c.nodes = Restrict(d.nodes, DOMAIN d.nodes \cap Used(Kept(d, box)))
  /\ c.pois = Passing(d.pois, InsideOf(PoisOf(src), box))
  /\ c.addrs = Passing(d.addrs, InsideOf(PoisOf(src), box))
  /\ c.trees = Passing(d.trees, InsideOf(Points, box))
  /\ c.tagged = Passing(d.tagged, InsideOf(PoisOf(src), box))
  /\ c.relations = Passing(d.relations, Built(DOMAIN IndexOf(Kept(d, box))))
  /\ c.bounds = Some(box)

LEMMA ClipTyped ==
  ASSUME NEW src, NEW d \in Datas(src), NEW box \in Boxes
  PROVE  Clip(d, box) \in Datas(src) /\ ClipFields(Clip(d, box), d, box, src)
<1> DEFINE c == Clip(d, box)
<1>1. ClipFields(c, d, box, src) /\ DOMAIN c = DOMAIN d /\ c = [f \in DOMAIN c |-> c[f]]
  <2>0. IsClip(c, d, box, src)
    BY ClipIs
  <2> DEFINE ways == Kept(d, box)
             index == IndexOf(Kept(d, box))
             nodes == Restrict(d.nodes, DOMAIN d.nodes \cap Used(Kept(d, box)))
             pois == Passing(d.pois, InsideOf(PoisOf(src), box))
             addrs == Passing(d.addrs, InsideOf(PoisOf(src), box))
             trees == Passing(d.trees, InsideOf(Points, box))
             tagged == Passing(d.tagged, InsideOf(PoisOf(src), box))
             relations == Passing(d.relations, Built(DOMAIN IndexOf(Kept(d, box))))
             bounds == Some(box)
  <2>1. c = [d EXCEPT !.ways = ways, !.index = index, !.nodes = nodes, !.pois = pois, !.addrs = addrs,
                      !.trees = trees, !.tagged = tagged, !.relations = relations, !.bounds = bounds]
    BY <2>0 DEF IsClip
  <2> HIDE DEF c, ways, index, nodes, pois, addrs, trees, tagged, relations, bounds
  <2>2. /\ c.ways = ways /\ c.index = index /\ c.nodes = nodes /\ c.pois = pois /\ c.addrs = addrs
        /\ c.trees = trees /\ c.tagged = tagged /\ c.relations = relations /\ c.bounds = bounds
        /\ DOMAIN c = DOMAIN d /\ c = [f \in DOMAIN c |-> c[f]]
    BY <2>1 DEF Datas
  <2>3. ClipFields(c, d, box, src)
    BY <2>2, Zenon DEF ClipFields, ways, index, nodes, pois, addrs, trees, tagged, relations, bounds
  <2> QED
    BY <2>2, <2>3
<1> HIDE DEF c
<1>2. c.ways \in Seq(Ways)
  <2>1. d.ways \in Seq(Ways)
    BY DEF Datas
  <2> QED
    BY <1>1, <2>1, PassingRange DEF ClipFields, Kept
<1>3. c.index \in Indexes
  BY <1>1, <1>2, IndexOfTyped DEF ClipFields
<1>4. c.nodes \in NodeMaps
  <2>1. d.nodes \in NodeMaps
    BY DEF Datas
  <2> QED
    BY <1>1, <2>1, NodeMapShrinks DEF ClipFields
<1>5. c.pois \in Seq(PoisOf(src))
  <2>1. d.pois \in Seq(PoisOf(src))
    BY DEF Datas
  <2> QED
    BY <1>1, <2>1, PassingRange DEF ClipFields
<1>6. c.addrs \in Seq(PoisOf(src))
  <2>1. d.addrs \in Seq(PoisOf(src))
    BY DEF Datas
  <2> QED
    BY <1>1, <2>1, PassingRange DEF ClipFields
<1>7. c.trees \in Seq(Points)
  <2>1. d.trees \in Seq(Points)
    BY DEF Datas
  <2> QED
    BY <1>1, <2>1, PassingRange DEF ClipFields
<1>8. c.tagged \in Seq(PoisOf(src))
  <2>1. d.tagged \in Seq(PoisOf(src))
    BY DEF Datas
  <2> QED
    BY <1>1, <2>1, PassingRange DEF ClipFields
<1>9. c.relations \in Seq(Relations)
  <2>1. d.relations \in Seq(Relations)
    BY DEF Datas
  <2> QED
    BY <1>1, <2>1, PassingRange DEF ClipFields
<1>10. c.bounds \in Maybe(Boxes)
  BY <1>1 DEF ClipFields, Maybe, Some
<1> QED
  BY <1>1, <1>2, <1>3, <1>4, <1>5, <1>6, <1>7, <1>8, <1>9, <1>10 DEF Datas, c

\* clip_to_bbox (model.rs) keeps validate_invariants, though the positions of
\* the ways that stay change.
THEOREM ClipKeepsIndex ==
  ASSUME NEW src, NEW d \in SoundDatas(src), NEW box \in Boxes
  PROVE  Clip(d, box) \in SoundDatas(src)
<1> DEFINE c == Clip(d, box)
           e == WithWays(d, Kept(d, box))
<1>1. c \in Datas(src) /\ c.ways = Kept(d, box) /\ c.index = IndexOf(Kept(d, box))
  BY ClipTyped DEF ClipFields, SoundDatas
<1>2. Kept(d, box) \in Seq(Ways)
  BY <1>1 DEF Datas
<1>3. \A j, k \in 1 .. Len(Kept(d, box)) : Kept(d, box)[j].id = Kept(d, box)[k].id => j = k
  BY IdsDiffer, PassingKeepsIds DEF Kept
<1>4. ValidateInvariants(e)
  BY <1>2, <1>3, DatasHaveWays, WithWaysMakesIndex DEF SoundDatas
<1>5. e.ways = c.ways /\ e.index = c.index
  BY <1>1 DEF WithWays, SoundDatas, Datas
<1> HIDE DEF c, e
<1>6. ValidateInvariants(c)
  BY <1>4, <1>5, Zenon DEF ValidateInvariants
<1> QED
  BY <1>1, <1>6 DEF SoundDatas, c

----------------------------------------------------------------------------
(* What a clip keeps where it was.                                          *)

LEMMA KeptWay ==
  ASSUME NEW src, NEW d \in Datas(src), NEW box \in Boxes, NEW w \in Range(Clip(d, box).ways)
  PROVE  /\ w \in Ways /\ w \in Range(d.ways) /\ Touches(d, w, box)
         /\ DOMAIN Clip(d, box).nodes \in SUBSET DOMAIN d.nodes
         /\ \A k \in DOMAIN w.refs : w.refs[k] \in DOMAIN Clip(d, box).nodes <=> w.refs[k] \in DOMAIN d.nodes
         /\ \A n \in DOMAIN Clip(d, box).nodes : Clip(d, box).nodes[n] = d.nodes[n]
<1> DEFINE c == Clip(d, box)
           K == Kept(d, box)
<1>1. ClipFields(c, d, box, src)
  BY ClipTyped
<1>2. K \in Seq(Ways) /\ Range(K) = Range(d.ways) \cap Touching(d, box)
  <2>1. d.ways \in Seq(Ways)
    BY DEF Datas
  <2> QED
    BY <2>1, PassingRange DEF Kept
<1>3. c.ways = K /\ c.nodes = Restrict(d.nodes, DOMAIN d.nodes \cap Used(K))
  BY <1>1 DEF ClipFields
<1> HIDE DEF c, K
<1>4. w \in Range(K)
  BY <1>3 DEF c
<1>5. Range(w.refs) \in SUBSET Used(K)
  BY <1>4 DEF Used, Range
<1>6. \A k \in DOMAIN w.refs : w.refs[k] \in Used(K)
  BY <1>5 DEF Range
<1> QED
  BY <1>2, <1>3, <1>4, <1>6 DEF Restrict, Touching, c

\* clip_to_bbox (model.rs) leaves every way that it keeps where it was, though
\* it removes the nodes that no way refers to.
THEOREM ClipKeepsGeometry ==
  ASSUME NEW src, NEW d \in Datas(src), NEW box \in Boxes, NEW w \in Range(Clip(d, box).ways)
  PROVE  Geometry(d, w) = Geometry(Clip(d, box), w)
<1> DEFINE c == Clip(d, box)
           InD(r) == r \in DOMAIN d.nodes
           InC(r) == r \in DOMAIN c.nodes
           F == Retain(w.refs, InD)
           P == {r \in Int : InD(r)}
<1>1. /\ w \in Ways /\ \A k \in DOMAIN w.refs : w.refs[k] \in DOMAIN c.nodes <=> w.refs[k] \in DOMAIN d.nodes
      /\ \A n \in DOMAIN c.nodes : c.nodes[n] = d.nodes[n]
  BY KeptWay
<1> HIDE DEF c
<1>2. {k \in DOMAIN w.refs : InC(w.refs[k])} = {k \in DOMAIN w.refs : InD(w.refs[k])}
  BY <1>1
<1>3. Retain(w.refs, InC) = F
  BY <1>2, Zenon DEF Retain
<1>4. w.refs \in Seq(Int)
  BY <1>1 DEF Ways
<1>5. F = Passing(w.refs, P)
  <2>1. {k \in DOMAIN w.refs : InD(w.refs[k])} = {k \in DOMAIN w.refs : w.refs[k] \in P}
    BY <1>4
  <2> QED
    BY <2>1, Zenon DEF Retain, Passing
<1>6. Range(F) = Range(w.refs) \cap P
  BY <1>4, <1>5, PassingRange
<1>7. \A k \in DOMAIN F : F[k] \in DOMAIN c.nodes
  <2> SUFFICES ASSUME NEW k \in DOMAIN F
               PROVE  F[k] \in DOMAIN c.nodes
    OBVIOUS
  <2>1. F[k] \in Range(F)
    BY DEF Range
  <2>2. PICK j \in DOMAIN w.refs : w.refs[j] = F[k] /\ InD(w.refs[j])
    BY <1>6, <2>1 DEF Range
  <2> QED
    BY <1>1, <2>2
<1>8. \A k \in DOMAIN F : d.nodes[F[k]] = c.nodes[F[k]]
  BY <1>1, <1>7
<1>9. Geometry(d, w) = [k \in DOMAIN F |-> d.nodes[F[k]]]
  BY Zenon DEF Geometry
<1>10. Geometry(c, w) = [k \in DOMAIN F |-> c.nodes[F[k]]]
  BY <1>3, Zenon DEF Geometry
<1> HIDE DEF F
<1> QED
  BY <1>8, <1>9, <1>10 DEF c

----------------------------------------------------------------------------
(* Deduplication.                                                           *)

DedupeStep(kept, p) ==
  IF \E k \in DOMAIN kept : InWindow(p, kept[k]) /\ PoiDuplicates(kept[k], p)
    THEN kept
    ELSE Append(kept, p)

LEMMA DedupeFold ==
  ASSUME NEW pois
  PROVE  DedupePoisWithOverturePreference(pois) = FoldLeft(DedupeStep, << >>, ByPriority(pois))
BY Zenon DEF DedupePoisWithOverturePreference, DedupeStep, FoldLeft, MapThenFoldSet

DedupeRun(h, V, base, s) ==
  /\ Chain(h, V, Len(s), base, FoldLeft(DedupeStep, base, s))
  /\ \A k \in 1 .. Len(s) : h[k] = DedupeStep(h[k - 1], s[k])

LEMMA DedupeSteps ==
  ASSUME NEW U, NEW s \in Seq(U), NEW V, NEW base \in V, \A v \in V, u \in U : DedupeStep(v, u) \in V
  PROVE  \E h : DedupeRun(h, V, base, s)
<1> DEFINE n == Len(s)
           step == [kv \in (1 .. n) \X V |-> DedupeStep(kv[2], s[kv[1]])]
           Rest(I, g) == IF I = {} THEN base ELSE DedupeStep(g[I \ {Max(I)}], s[Max(I)])
           Eq(g) == g = [I \in SUBSET (1 .. n) |-> Rest(I, g)]
           c == CHOOSE g : Eq(g)
<1>1. n \in Nat /\ DOMAIN s = 1 .. n /\ \A k \in 1 .. n : s[k] \in U
  OBVIOUS
<1>2. step \in [(1 .. n) \X V -> V] /\ \A k \in 1 .. n, v \in V : step[<<k, v>>] = DedupeStep(v, s[k])
  BY <1>1
<1>3. FoldLeft(DedupeStep, base, s) = c[1 .. n]
  <2>1. FoldLeft(DedupeStep, base, s) = (CHOOSE g : g = [I \in SUBSET DOMAIN s |-> Rest(I, g)])[DOMAIN s]
    BY Zenon DEF FoldLeft, MapThenFoldSet
  <2> QED
    BY <1>1, <2>1, Zenon
<1> HIDE DEF n, step, c
<1>4. PICK f \in [SUBSET (1 .. n) -> V] : IsSequenceFold(n, base, step, f)
  BY <1>1, <1>2, SequenceFold
<1>5. \A I \in SUBSET (1 .. n) : f[I] = Rest(I, f)
  <2>1. \A I \in SUBSET (1 .. n) : f[I \ {Max(I)}] \in V
    OBVIOUS
  <2> QED
    BY <1>2, <1>4, <2>1 DEF IsSequenceFold
<1>6. Eq(f)
  BY <1>5
<1>7. Eq(c)
  <2> HIDE DEF Eq
  <2> QED
    BY <1>6 DEF c
<1>8. c[{}] = f[{}] /\ \A I \in SUBSET (1 .. n) : I # {} /\ c[I \ {Max(I)}] = f[I \ {Max(I)}] => c[I] = f[I]
  BY <1>5, <1>7
<1>9. PICK h : Follows(h, V, n, base, step, c[1 .. n])
  BY <1>1, <1>4, <1>8, FoldFollows
<1>10. \A k \in 1 .. n : h[k] = DedupeStep(h[k - 1], s[k])
  <2> SUFFICES ASSUME NEW k \in 1 .. n
               PROVE  h[k] = DedupeStep(h[k - 1], s[k])
    OBVIOUS
  <2>1. h[k - 1] \in V /\ h[k] = step[<<k, h[k - 1]>>]
    BY <1>1, <1>9 DEF Follows, Chain
  <2> QED
    BY <1>2, <2>1
<1> QED
  BY <1>3, <1>9, <1>10 DEF n, Follows, DedupeRun

LEMMA PriorityIs ==
  ASSUME NEW p \in PoisOf(FeatureSources)
  PROVE  Priority(p) \in 0 .. 2 /\ (Priority(p) = 0 <=> p.source = "overture")
<1>1. p.source = "overture" \/ p.source = "osm" \/ p.source = "synthetic"
  BY DEF PoisOf, FeatureSources
<1> QED
  BY <1>1 DEF Priority

\* Sorted by priority.
Sorted(s) == \A j, k \in 1 .. Len(s) : j < k => Priority(s[j]) <= Priority(s[k])

LEMMA ByPrioritySorts ==
  ASSUME NEW pois \in Seq(PoisOf(FeatureSources))
  PROVE  /\ ByPriority(pois) \in Seq(PoisOf(FeatureSources)) /\ Range(ByPriority(pois)) = Range(pois)
         /\ Sorted(ByPriority(pois))
<1> DEFINE V == PoisOf(FeatureSources)
           Of(n) == {p \in V : Priority(p) = n}
           g0 == Passing(pois, Of(0))
           g1 == Passing(pois, Of(1))
           g2 == Passing(pois, Of(2))
           s == ByPriority(pois)
<1>1. ASSUME NEW n \in 0 .. 2
      PROVE  Retain(pois, LAMBDA p : Priority(p) = n) = Passing(pois, Of(n))
  <2>1. {k \in DOMAIN pois : Priority(pois[k]) = n} = {k \in DOMAIN pois : pois[k] \in Of(n)}
    OBVIOUS
  <2> QED
    BY <2>1, Zenon DEF Retain, Passing
<1>2. s = g0 \o g1 \o g2
  <2>1. 0 \in 0 .. 2 /\ 1 \in 0 .. 2 /\ 2 \in 0 .. 2
    OBVIOUS
  <2>2. s = Retain(pois, LAMBDA p : Priority(p) = 0) \o Retain(pois, LAMBDA p : Priority(p) = 1)
              \o Retain(pois, LAMBDA p : Priority(p) = 2)
    BY Zenon DEF ByPriority
  <2> QED
    BY <1>1, <2>1, <2>2, Zenon
<1>3. ASSUME NEW n \in 0 .. 2
      PROVE  Passing(pois, Of(n)) \in Seq(V) /\ Range(Passing(pois, Of(n))) = Range(pois) \cap Of(n)
  BY PassingRange
<1>4. g0 \in Seq(V) /\ Range(g0) = Range(pois) \cap Of(0)
  BY <1>3
<1>5. g1 \in Seq(V) /\ Range(g1) = Range(pois) \cap Of(1)
  BY <1>3
<1>6. g2 \in Seq(V) /\ Range(g2) = Range(pois) \cap Of(2)
  BY <1>3
<1>7. \A p \in Range(pois) : p \in V
  BY DEF Range
<1> HIDE DEF V
<1>8. \A p \in Range(pois) : p \in Of(0) \cup Of(1) \cup Of(2)
  BY <1>7, PriorityIs DEF V
<1> HIDE DEF g0, g1, g2, s
<1> DEFINE a == Len(g0)
           b == Len(g1)
           c == Len(g2)
           t == g0 \o g1
<1>9. /\ t \in Seq(V) /\ Len(t) = a + b
      /\ \A k \in 1 .. a : t[k] = g0[k]
      /\ \A k \in 1 .. b : t[a + k] = g1[k]
  BY <1>4, <1>5, Concat
<1> HIDE DEF t
<1>10. /\ s \in Seq(V) /\ Len(s) = Len(t) + c
       /\ \A k \in 1 .. Len(t) : s[k] = t[k]
       /\ \A k \in 1 .. c : s[Len(t) + k] = g2[k]
  BY <1>2, <1>6, <1>9, Concat DEF t
<1>11. a \in Nat /\ b \in Nat /\ c \in Nat
  BY <1>4, <1>5, <1>6
<1>12. /\ \A k \in 1 .. a : g0[k] \in Range(g0)
       /\ \A k \in 1 .. b : g1[k] \in Range(g1)
       /\ \A k \in 1 .. c : g2[k] \in Range(g2)
  BY <1>4, <1>5, <1>6 DEF Range
<1>13. /\ \A k \in 1 .. a : s[k] \in Range(pois) \cap Of(0)
       /\ \A k \in a + 1 .. a + b : s[k] \in Range(pois) \cap Of(1)
       /\ \A k \in a + b + 1 .. a + b + c : s[k] \in Range(pois) \cap Of(2)
  <2>1. ASSUME NEW k \in 1 .. a
        PROVE  s[k] \in Range(pois) \cap Of(0)
    <3>1. k \in 1 .. Len(t)
      BY <1>9, <1>11
    <3>2. s[k] = g0[k]
      BY <1>9, <1>10, <3>1
    <3> QED
      BY <1>4, <1>12, <3>2
  <2>2. ASSUME NEW k \in a + 1 .. a + b
        PROVE  s[k] \in Range(pois) \cap Of(1)
    <3>1. k \in 1 .. Len(t) /\ k - a \in 1 .. b /\ a + (k - a) = k
      BY <1>9, <1>11
    <3>2. s[k] = g1[k - a]
      BY <1>9, <1>10, <3>1
    <3> QED
      BY <1>5, <1>12, <3>1, <3>2
  <2>3. ASSUME NEW k \in a + b + 1 .. a + b + c
        PROVE  s[k] \in Range(pois) \cap Of(2)
    <3>1. k - (a + b) \in 1 .. c /\ Len(t) + (k - (a + b)) = k
      BY <1>9, <1>11
    <3>2. s[k] = g2[k - (a + b)]
      BY <1>10, <3>1
    <3> QED
      BY <1>6, <1>12, <3>1, <3>2
  <2> QED
    BY <2>1, <2>2, <2>3
<1>14. Len(s) = a + b + c /\ DOMAIN s = 1 .. a + b + c
  BY <1>9, <1>10, <1>11
<1>15. \A k \in 1 .. Len(s) : k \in 1 .. a \/ k \in a + 1 .. a + b \/ k \in a + b + 1 .. a + b + c
  BY <1>11, <1>14
<1>16. Range(s) = Range(pois)
  <2>1. ASSUME NEW p \in Range(s)
        PROVE  p \in Range(pois)
    <3>1. PICK k \in 1 .. Len(s) : p = s[k]
      BY <1>14 DEF Range
    <3> QED
      BY <1>13, <1>15, <3>1
  <2>2. ASSUME NEW p \in Range(pois)
        PROVE  p \in Range(s)
    <3>1. CASE p \in Of(0)
      <4>1. PICK k \in 1 .. a : p = g0[k]
        BY <1>4, <3>1 DEF Range
      <4>2. k \in 1 .. Len(t) /\ k \in DOMAIN s
        BY <1>9, <1>11, <1>14
      <4>3. s[k] = p
        BY <1>9, <1>10, <4>1, <4>2
      <4> QED
        BY <4>2, <4>3 DEF Range
    <3>2. CASE p \in Of(1)
      <4>1. PICK k \in 1 .. b : p = g1[k]
        BY <1>5, <3>2 DEF Range
      <4>2. a + k \in 1 .. Len(t) /\ a + k \in DOMAIN s
        BY <1>9, <1>11, <1>14
      <4>3. s[a + k] = p
        BY <1>9, <1>10, <4>1, <4>2
      <4> QED
        BY <4>2, <4>3 DEF Range
    <3>3. CASE p \in Of(2)
      <4>1. PICK k \in 1 .. c : p = g2[k]
        BY <1>6, <3>3 DEF Range
      <4>2. Len(t) + k \in DOMAIN s
        BY <1>9, <1>11, <1>14
      <4>3. s[Len(t) + k] = p
        BY <1>10, <4>1
      <4> QED
        BY <4>2, <4>3 DEF Range
    <3> QED
      BY <1>8, <3>1, <3>2, <3>3
  <2> QED
    BY <2>1, <2>2
<1>17. Sorted(s)
  <2> SUFFICES ASSUME NEW j \in 1 .. Len(s), NEW k \in 1 .. Len(s), j < k
               PROVE  Priority(s[j]) <= Priority(s[k])
    BY DEF Sorted
  <2>1. \A p : /\ p \in Of(0) => Priority(p) = 0
               /\ p \in Of(1) => Priority(p) = 1
               /\ p \in Of(2) => Priority(p) = 2
    OBVIOUS
  <2>2. \/ k \in 1 .. a /\ j \in 1 .. a
        \/ k \in a + 1 .. a + b /\ (j \in 1 .. a \/ j \in a + 1 .. a + b)
        \/ k \in a + b + 1 .. a + b + c
    BY <1>11, <1>14
  <2> HIDE DEF Of, a, b, c
  <2> QED
    BY <1>13, <1>15, <2>1, <2>2
<1> QED
  BY <1>10, <1>16, <1>17 DEF s, V

\* What deduplication has kept of the first k points: some of them; of each
\* that it dropped a duplicate no less preferred; none twice in a window.
KeptOf(kept, s, k) ==
  /\ \A p \in Range(kept) : \E j \in 1 .. k : p = s[j]
  /\ \A j \in 1 .. k : s[j] \in Range(kept)
                       \/ \E q \in Range(kept) : PoiDuplicates(q, s[j]) /\ Priority(q) <= Priority(s[j])
  /\ \A i, j \in DOMAIN kept :
        i < j => ~ (InWindow(kept[j], kept[i]) /\ PoiDuplicates(kept[i], kept[j]))

LEMMA DedupeStepKeeps ==
  ASSUME NEW V, NEW s \in Seq(V), Sorted(s), NEW k \in 1 .. Len(s), NEW kept \in Seq(V), KeptOf(kept, s, k - 1)
  PROVE  KeptOf(DedupeStep(kept, s[k]), s, k)
<1> DEFINE p == s[k]
           Dup(i) == InWindow(p, kept[i]) /\ PoiDuplicates(kept[i], p)
<1>1. k - 1 \in Nat /\ \A j \in 1 .. k : j \in 1 .. k - 1 \/ j = k
  OBVIOUS
<1>2. \A j \in 1 .. k - 1 : j \in 1 .. k /\ j < k /\ j \in 1 .. Len(s)
  OBVIOUS
<1>3. /\ \A q \in Range(kept) : \E j \in 1 .. k - 1 : q = s[j]
      /\ \A j \in 1 .. k - 1 : s[j] \in Range(kept)
                   \/ \E q \in Range(kept) : PoiDuplicates(q, s[j]) /\ Priority(q) <= Priority(s[j])
      /\ \A i, j \in DOMAIN kept :
            i < j => ~ (InWindow(kept[j], kept[i]) /\ PoiDuplicates(kept[i], kept[j]))
  BY DEF KeptOf
<1>4. k \in 1 .. k
  OBVIOUS
<1>5. CASE \E i \in DOMAIN kept : Dup(i)
  <2>1. DedupeStep(kept, p) = kept
    BY <1>5 DEF DedupeStep
  <2>2. PICK i \in DOMAIN kept : Dup(i)
    BY <1>5
  <2>3. kept[i] \in Range(kept)
    BY DEF Range
  <2>4. PICK j \in 1 .. k - 1 : kept[i] = s[j]
    BY <1>3, <2>3
  <2>5. Priority(s[j]) <= Priority(s[k])
    BY <1>2, <2>4 DEF Sorted
  <2>6. \A x \in 1 .. k : s[x] \in Range(kept)
                   \/ \E q \in Range(kept) : PoiDuplicates(q, s[x]) /\ Priority(q) <= Priority(s[x])
    BY <1>1, <1>3, <2>2, <2>3, <2>4, <2>5
  <2>7. \A q \in Range(kept) : \E x \in 1 .. k : q = s[x]
    BY <1>2, <1>3
  <2> QED
    BY <1>3, <2>1, <2>6, <2>7 DEF KeptOf
<1>6. CASE ~ \E i \in DOMAIN kept : Dup(i)
  <2> DEFINE new == Append(kept, p)
             n == Len(kept)
  <2>1. DedupeStep(kept, p) = new
    BY <1>6 DEF DedupeStep
  <2>2. /\ n \in Nat /\ DOMAIN new = 1 .. n + 1 /\ DOMAIN kept = 1 .. n /\ new[n + 1] = p
        /\ \A i \in 1 .. n : new[i] = kept[i]
    OBVIOUS
  <2> HIDE DEF new
  <2>3. \A i \in 1 .. n + 1 : i \in 1 .. n \/ i = n + 1
    BY <2>2
  <2>4. Range(new) = Range(kept) \cup {p}
    <3>1. \A i \in 1 .. n : i \in 1 .. n + 1
      BY <2>2
    <3>2. n + 1 \in 1 .. n + 1
      BY <2>2
    <3> HIDE DEF n, p
    <3> QED
      BY <2>2, <2>3, <3>1, <3>2 DEF Range
  <2>5. \A i, j \in 1 .. n + 1 : i < j => i \in 1 .. n /\ (j \in 1 .. n \/ j = n + 1)
    BY <2>2
  <2>6. \A i, j \in DOMAIN new :
            i < j => ~ (InWindow(new[j], new[i]) /\ PoiDuplicates(new[i], new[j]))
    <3> SUFFICES ASSUME NEW i \in 1 .. n + 1, NEW j \in 1 .. n + 1, i < j
                 PROVE  ~ (InWindow(new[j], new[i]) /\ PoiDuplicates(new[i], new[j]))
      BY <2>2
    <3>1. i \in 1 .. n /\ new[i] = kept[i]
      BY <2>2, <2>5
    <3>2. CASE j = n + 1
      BY <1>6, <2>2, <3>1, <3>2
    <3>3. CASE j \in 1 .. n
      BY <1>3, <2>2, <3>1, <3>3
    <3> QED
      BY <2>5, <3>2, <3>3
  <2>7. \A q \in Range(new) : \E x \in 1 .. k : q = s[x]
    BY <1>2, <1>3, <1>4, <2>4
  <2>8. \A x \in 1 .. k : s[x] \in Range(new)
                   \/ \E q \in Range(new) : PoiDuplicates(q, s[x]) /\ Priority(q) <= Priority(s[x])
    BY <1>1, <1>3, <2>4
  <2> QED
    BY <2>1, <2>6, <2>7, <2>8 DEF KeptOf
<1> QED
  BY <1>5, <1>6

\* dedupe_pois_with_overture_preference (sources.rs), of any points: what it
\* drops is a duplicate of something kept that is at least as preferred, and
\* of two that are kept in neighbouring cells none duplicates the other.
THEOREM DedupeIsSound ==
  ASSUME NEW pois \in Seq(PoisOf(FeatureSources))
  PROVE  LET kept == DedupePoisWithOverturePreference(pois)
         IN  /\ kept \in Seq(PoisOf(FeatureSources)) /\ Range(kept) \subseteq Range(pois)
             /\ \A p \in Range(pois) \ Range(kept) :
                   \E q \in Range(kept) : PoiDuplicates(q, p) /\ Priority(q) <= Priority(p)
             /\ \A i, j \in DOMAIN kept :
                   i < j => ~ (InWindow(kept[j], kept[i]) /\ PoiDuplicates(kept[i], kept[j]))
<1> DEFINE V == PoisOf(FeatureSources)
           s == ByPriority(pois)
           kept == DedupePoisWithOverturePreference(pois)
           n == Len(s)
<1>1. s \in Seq(V) /\ Range(s) = Range(pois) /\ Sorted(s)
  BY ByPrioritySorts
<1>2. kept = FoldLeft(DedupeStep, << >>, s)
  BY DedupeFold
<1> HIDE DEF V, s, kept
<1>3. \A g \in Seq(V), p \in V : DedupeStep(g, p) \in Seq(V)
  BY DEF DedupeStep
<1>4. << >> \in Seq(V)
  OBVIOUS
<1>5. PICK h : DedupeRun(h, Seq(V), << >>, s)
  BY <1>1, <1>3, <1>4, DedupeSteps
<1>6. n \in Nat /\ DOMAIN s = 1 .. n
  BY <1>1
<1>7. h[0] = << >> /\ h[n] = kept /\ \A k \in 0 .. n : h[k] \in Seq(V)
  BY <1>2, <1>5 DEF DedupeRun, Chain
<1> DEFINE G == {k \in 0 .. n : KeptOf(h[k], s, k)}
<1>8. 0 \in G
  <2>1. Range(<< >>) = {} /\ DOMAIN << >> = {} /\ 1 .. 0 = {}
    BY DEF Range
  <2>2. KeptOf(<< >>, s, 0)
    BY <2>1 DEF KeptOf
  <2> QED
    BY <1>6, <1>7, <2>2
<1>9. \A k \in 1 .. n : k - 1 \in G => k \in G
  <2> SUFFICES ASSUME NEW k \in 1 .. n, KeptOf(h[k - 1], s, k - 1)
               PROVE  KeptOf(h[k], s, k) /\ k \in 0 .. n
    BY <1>6
  <2>1. h[k - 1] \in Seq(V)
    BY <1>6, <1>7
  <2>2. KeptOf(DedupeStep(h[k - 1], s[k]), s, k)
    BY <1>1, <2>1, DedupeStepKeeps
  <2> QED
    BY <1>5, <1>6, <2>2 DEF DedupeRun
<1>10. n \in G
  <2>1. G \in SUBSET (0 .. n) /\ n \in 0 .. n
    BY <1>6
  <2> HIDE DEF G, n
  <2> QED
    BY <1>6, <1>8, <1>9, <2>1, EveryStep
<1>11. KeptOf(kept, s, n) /\ kept \in Seq(V)
  BY <1>6, <1>7, <1>10
<1>12. Range(kept) \subseteq Range(pois)
  BY <1>1, <1>6, <1>11 DEF KeptOf, Range
<1>13. \A p \in Range(pois) \ Range(kept) :
          \E q \in Range(kept) : PoiDuplicates(q, p) /\ Priority(q) <= Priority(p)
  <2> SUFFICES ASSUME NEW p \in Range(s), p \notin Range(kept)
               PROVE  \E q \in Range(kept) : PoiDuplicates(q, p) /\ Priority(q) <= Priority(p)
    BY <1>1
  <2>1. PICK j \in 1 .. n : p = s[j]
    BY <1>6 DEF Range
  <2> QED
    BY <1>11, <2>1 DEF KeptOf
<1>14. \A i, j \in DOMAIN kept : i < j => ~ (InWindow(kept[j], kept[i]) /\ PoiDuplicates(kept[i], kept[j]))
  BY <1>11 DEF KeptOf
<1> QED
  BY <1>11, <1>12, <1>13, <1>14 DEF V, kept

\* What a value with line breaks is read as is a text.
BlankedText == \A v \in DOMAIN Blanked : Blanked[v] \in Strings

----------------------------------------------------------------------------
(* parse_osm_xml_reader.                                                    *)

DifferentIds(list) == \A j, k \in 1 .. Len(list) : list[j].id = list[k].id => j = k

XmlStates ==
  [data : Datas({"osm"}), extent : Maybe(Boxes), explicit : Maybe(Boxes),
   inNode : BOOLEAN, at : Points, nodeTags : TagMaps,
   inWay : BOOLEAN, inRelation : BOOLEAN, id : Maybe(Int), tags : TagMaps,
   refs : Seq(Int), members : Seq(Members), depth : Nat, failed : BOOLEAN]
XmlGood == {s \in XmlStates : DifferentIds(s.data.ways)}

LEMMA NewParseGood == NewParse \in XmlGood
<1>1. None \in Maybe(Boxes) /\ None \in Maybe(Int)
  BY DEF None, Maybe
<1>2. EmptyData \in Datas({"osm"}) /\ NoTags \in TagMaps /\ Point(0, 0) \in Points
  BY EmptyDataTyped, NoTagsTyped DEF Point, Points
<1>3. << >> \in Seq(Int) /\ << >> \in Seq(Members)
  OBVIOUS
<1>4. DifferentIds(EmptyData.ways)
  BY DEF DifferentIds, EmptyData
<1>5. NewParse \in XmlStates
  BY <1>1, <1>2, <1>3 DEF NewParse, XmlStates
<1>6. NewParse.data = EmptyData
  BY DEF NewParse
<1> QED
  BY <1>4, <1>5, <1>6 DEF XmlGood

\* Setting fields of the parse that are not its data.
LEMMA AttrIs ==
  ASSUME NEW e, IsEvent(e)
  PROVE  /\ AttrOf(e, "id") \in Maybe(Int)
         /\ \A key \in IntAttrs : Carries(e, {key}) => e.attrs[key] \in Int
         /\ \A key \in TextAttrs : Carries(e, {key}) => e.attrs[key] \in Strings
<1>1. /\ \A key \in IntAttrs : Carries(e, {key}) => e.attrs[key] \in Int
      /\ \A key \in TextAttrs : Carries(e, {key}) => e.attrs[key] \in Strings
  <2>1. \A key \in DOMAIN e.attrs :
          /\ key \in IntAttrs => e.attrs[key] \in Int
          /\ key \in TextAttrs => e.attrs[key] \in Strings
    BY Zenon DEF IsEvent
  <2>2. \A key : Carries(e, {key}) => key \in DOMAIN e.attrs
    BY Zenon DEF Carries
  <2> QED
    BY <2>1, <2>2, Zenon
<1>2. "id" \in IntAttrs
  BY DEF IntAttrs
<1>3. Carries(e, {"id"}) => e.attrs["id"] \in Int
  BY <1>1, <1>2
<1>4. AttrOf(e, "id") = IF Carries(e, {"id"}) THEN <<e.attrs["id"]>> ELSE << >>
  BY DEF AttrOf, Some, None
<1> QED
  <2>1. << >> \in Maybe(Int)
    BY DEF Maybe
  <2>2. ASSUME NEW x \in Int
        PROVE  <<x>> \in Maybe(Int)
    BY DEF Maybe
  <2> QED
    BY <1>1, <1>3, <1>4, <2>1, <2>2, Zenon

LEMMA CarriesEach ==
  ASSUME NEW e, NEW keys, Carries(e, keys)
  PROVE  \A key \in keys : Carries(e, {key})
BY DEF Carries

\* The value of an attribute, or what stands for one that is missing.
LEMMA ValueTyped ==
  ASSUME NEW e, NEW key, NEW T, NEW other \in T, Carries(e, {key}) => e.attrs[key] \in T
  PROVE  OrElse(AttrOf(e, key), <<other>>)[1] \in T
BY DEF OrElse, AttrOf, Some, None

LEMMA BoundsGood ==
  ASSUME NEW s \in XmlGood, NEW e, IsEvent(e)
  PROVE  Bounds(s, e) \in XmlGood
<1> DEFINE b == [south |-> e.attrs.minlat, west |-> e.attrs.minlon,
                 north |-> e.attrs.maxlat, east |-> e.attrs.maxlon]
<1>1. CASE Carries(e, {"minlat", "minlon", "maxlat", "maxlon"})
  <2>1. b \in Boxes
    <3>1. /\ "minlat" \in IntAttrs /\ "minlon" \in IntAttrs
          /\ "maxlat" \in IntAttrs /\ "maxlon" \in IntAttrs
      BY DEF IntAttrs
    <3>2. /\ Carries(e, {"minlat"}) /\ Carries(e, {"minlon"})
          /\ Carries(e, {"maxlat"}) /\ Carries(e, {"maxlon"})
      BY <1>1, CarriesEach
    <3>3. /\ e.attrs["minlat"] \in Int /\ e.attrs["minlon"] \in Int
          /\ e.attrs["maxlat"] \in Int /\ e.attrs["maxlon"] \in Int
      BY <3>1, <3>2, AttrIs
    <3> QED
      BY <3>3 DEF Boxes
  <2> HIDE DEF b
  <2>2. Some(b) \in Maybe(Boxes)
    BY <2>1 DEF Some, Maybe
  <2>3. Bounds(s, e) = [s EXCEPT !.explicit = Some(b)]
    BY <1>1 DEF Bounds, b
  <2> QED
    BY <2>2, <2>3 DEF XmlGood, XmlStates
<1>2. CASE ~ Carries(e, {"minlat", "minlon", "maxlat", "maxlon"})
  BY <1>2 DEF Bounds
<1> QED
  BY <1>1, <1>2

LEMMA InsertNodeGood ==
  ASSUME NEW s \in XmlGood, NEW e, IsEvent(e), IsNode(e)
  PROVE  InsertNode(s, e) \in XmlGood /\ At(e.attrs) \in Points
<1>1. e.attrs.id \in Int /\ e.attrs.lat \in Int /\ e.attrs.lon \in Int
  <2>1. "id" \in IntAttrs /\ "lat" \in IntAttrs /\ "lon" \in IntAttrs
    BY DEF IntAttrs
  <2>2. Carries(e, {"id"}) /\ Carries(e, {"lat"}) /\ Carries(e, {"lon"})
    BY CarriesEach DEF IsNode
  <2>3. e.attrs["id"] \in Int /\ e.attrs["lat"] \in Int /\ e.attrs["lon"] \in Int
    BY <2>1, <2>2, AttrIs
  <2> QED
    BY <2>3
<1>2. At(e.attrs) \in Points
  BY <1>1 DEF At, Point, Points
<1> DEFINE p == At(e.attrs)
           d == AddNode(s.data, e.attrs.id, p)
           b == UnionBounds(s.extent, Some(Around(p)))
<1> HIDE DEF p
<1>3. s.data \in Datas({"osm"}) /\ s.extent \in Maybe(Boxes)
  BY DEF XmlGood, XmlStates
<1>4. d \in Datas({"osm"}) /\ d.ways = s.data.ways
  <2>1. d \in Datas({"osm"})
    BY <1>1, <1>2, <1>3, AddNodeTyped DEF p
  <2> QED
    BY <1>3, <2>1 DEF AddNode, Datas
<1>5. b \in Maybe(Boxes)
  <2>1. Some(Around(p)) \in Maybe(Boxes)
    BY <1>2 DEF Some, Around, Boxes, Maybe, Points, p
  <2> QED
    BY <1>3, <2>1, UnionBoundsTyped
<1>6. InsertNode(s, e) = [s EXCEPT !.data = d, !.extent = b]
  BY DEF InsertNode, p
<1> HIDE DEF d, b
<1>7. InsertNode(s, e) \in XmlStates /\ InsertNode(s, e).data = d
  BY <1>4, <1>5, <1>6 DEF XmlGood, XmlStates
<1> QED
  BY <1>2, <1>4, <1>7 DEF XmlGood

LEMMA EmptyText == "" \in Strings
BY DEF Strings, Literals

LEMMA XmlAttrTyped ==
  ASSUME BlankedText, NEW v \in Strings
  PROVE  XmlAttrValue(v) \in Strings
BY DEF XmlAttrValue, BlankedText

LEMMA TagInGood ==
  ASSUME BlankedText, NEW s \in XmlGood, NEW e, IsEvent(e)
  PROVE  TagIn(s, e) \in XmlGood
<1> DEFINE value == XmlAttrValue(OrElse(AttrOf(e, "v"), <<"">>)[1])
<1>1. CASE ~ Carries(e, {"k"}) \/ e.attrs.k = ""
  BY <1>1 DEF TagIn
<1>2. CASE ~ (~ Carries(e, {"k"}) \/ e.attrs.k = "")
  <2>1. e.attrs.k \in Strings
    <3>1. "k" \in TextAttrs /\ Carries(e, {"k"})
      BY <1>2 DEF TextAttrs
    <3>2. e.attrs["k"] \in Strings
      BY <3>1, AttrIs
    <3> QED
      BY <3>2
  <2>2. value \in Strings
    <3>1. OrElse(AttrOf(e, "v"), <<"">>)[1] \in Strings
      <4>1. "v" \in TextAttrs
        BY DEF TextAttrs
      <4>2. Carries(e, {"v"}) => e.attrs["v"] \in Strings
        BY <4>1, AttrIs
      <4> QED
        BY <4>2, EmptyText, ValueTyped
    <3> QED
      BY <3>1, XmlAttrTyped
  <2> HIDE DEF value
  <2>3. Insert(s.nodeTags, e.attrs.k, value) \in TagMaps /\ Insert(s.tags, e.attrs.k, value) \in TagMaps
    BY <2>1, <2>2, TagMapGrows DEF XmlGood, XmlStates
  <2>4. TagIn(s, e) = IF s.inNode THEN [s EXCEPT !.nodeTags = Insert(s.nodeTags, e.attrs.k, value)]
                      ELSE [s EXCEPT !.tags = Insert(s.tags, e.attrs.k, value)]
    BY <1>2 DEF TagIn, value
  <2> QED
    BY <2>3, <2>4 DEF XmlGood, XmlStates
<1> QED
  BY <1>1, <1>2

LEMMA MemberInGood ==
  ASSUME BlankedText, NEW s \in XmlGood, NEW e, IsEvent(e)
  PROVE  MemberIn(s, e) \in XmlGood
<1> DEFINE ref == OrElse(AttrOf(e, "ref"), <<0>>)[1]
           role == XmlAttrValue(OrElse(AttrOf(e, "role"), <<"">>)[1])
           m == [way |-> ref, role |-> role]
<1>1. ref \in Int
  <2>1. "ref" \in IntAttrs
    BY DEF IntAttrs
  <2>2. Carries(e, {"ref"}) => e.attrs["ref"] \in Int
    BY <2>1, AttrIs
  <2> QED
    BY <2>2, ValueTyped
<1>2. role \in Strings
  <2>1. OrElse(AttrOf(e, "role"), <<"">>)[1] \in Strings
    <3>1. "role" \in TextAttrs
      BY DEF TextAttrs
    <3>2. Carries(e, {"role"}) => e.attrs["role"] \in Strings
      BY <3>1, AttrIs
    <3> QED
      BY <3>2, EmptyText, ValueTyped
  <2> QED
    BY <2>1, XmlAttrTyped
<1>3. m \in Members
  BY <1>1, <1>2 DEF Members
<1>4. MemberIn(s, e) = s \/ MemberIn(s, e) = [s EXCEPT !.members = Append(s.members, m)]
  BY DEF MemberIn
<1> HIDE DEF m
<1>5. Append(s.members, m) \in Seq(Members)
  BY <1>3 DEF XmlGood, XmlStates
<1> QED
  BY <1>4, <1>5 DEF XmlGood, XmlStates

\* What an event sets that is not the data.
LEMMA OthersGood ==
  ASSUME NEW s \in XmlGood
  PROVE  /\ \A b \in BOOLEAN :
              /\ [s EXCEPT !.failed = b] \in XmlGood /\ [s EXCEPT !.inNode = b] \in XmlGood
              /\ [s EXCEPT !.inWay = b] \in XmlGood /\ [s EXCEPT !.inRelation = b] \in XmlGood
         /\ \A n \in Nat : [s EXCEPT !.depth = n] \in XmlGood
         /\ \A r \in Int : [s EXCEPT !.refs = Append(s.refs, r)] \in XmlGood
<1>1. s \in XmlStates /\ DifferentIds(s.data.ways)
  BY DEF XmlGood
<1>2. ASSUME NEW b \in BOOLEAN
      PROVE  /\ [s EXCEPT !.failed = b] \in XmlGood /\ [s EXCEPT !.inNode = b] \in XmlGood
             /\ [s EXCEPT !.inWay = b] \in XmlGood /\ [s EXCEPT !.inRelation = b] \in XmlGood
  BY <1>1 DEF XmlGood, XmlStates
<1>3. ASSUME NEW n \in Nat
      PROVE  [s EXCEPT !.depth = n] \in XmlGood
  BY <1>1 DEF XmlGood, XmlStates
<1>4. ASSUME NEW r \in Int
      PROVE  [s EXCEPT !.refs = Append(s.refs, r)] \in XmlGood
  <2>1. Append(s.refs, r) \in Seq(Int)
    BY <1>1 DEF XmlStates
  <2> QED
    BY <1>1, <2>1 DEF XmlGood, XmlStates
<1> QED
  BY <1>2, <1>3, <1>4

\* Where a start element leads.
InNode(s, p) == [s EXCEPT !.inNode = TRUE, !.at = p, !.nodeTags = NoTags]
InWay(s, id) == [s EXCEPT !.inWay = TRUE, !.id = id, !.tags = NoTags, !.refs = << >>]
InRelation(s, id) == [s EXCEPT !.inRelation = TRUE, !.id = id, !.tags = NoTags, !.members = << >>]

LEMMA EntersGood ==
  ASSUME NEW s \in XmlGood
  PROVE  /\ \A p \in Points : InNode(s, p) \in XmlGood
         /\ \A id \in Maybe(Int) : InWay(s, id) \in XmlGood /\ InRelation(s, id) \in XmlGood
<1>1. NoTags \in TagMaps
  BY NoTagsTyped
<1>2. << >> \in Seq(Int) /\ << >> \in Seq(Members)
  OBVIOUS
<1>3. s \in XmlStates /\ DifferentIds(s.data.ways)
  BY DEF XmlGood
<1>4. \A p \in Points : InNode(s, p) \in XmlGood
  BY <1>1, <1>3 DEF XmlGood, XmlStates, InNode
<1>5. \A id \in Maybe(Int) : InWay(s, id) \in XmlGood
  BY <1>1, <1>2, <1>3 DEF XmlGood, XmlStates, InWay
<1>6. \A id \in Maybe(Int) : InRelation(s, id) \in XmlGood
  BY <1>1, <1>2, <1>3 DEF XmlGood, XmlStates, InRelation
<1> QED
  BY <1>4, <1>5, <1>6

LEMMA OnStartGood ==
  ASSUME NEW s \in XmlGood, NEW e, IsEvent(e)
  PROVE  OnStart(s, e) \in XmlGood
<1> DEFINE t == [s EXCEPT !.depth = s.depth + 1]
           id == AttrOf(e, "id")
<1>1. CASE s.depth + 1 > MAX_XML_DEPTH
  <2>1. OnStart(s, e) = [s EXCEPT !.failed = TRUE]
    BY <1>1 DEF OnStart
  <2> QED
    BY <2>1, OthersGood
<1>2. CASE ~ (s.depth + 1 > MAX_XML_DEPTH)
  <2>1. t \in XmlGood
    <3>1. s.depth + 1 \in Nat
      BY DEF XmlGood, XmlStates
    <3> QED
      BY <3>1, OthersGood
  <2>2. id \in Maybe(Int)
    BY AttrIs
  <2>3. OnStart(s, e) =
          CASE e.tag = "bounds" -> Bounds(t, e)
            [] IsNode(e) ->
                 InNode(InsertNode(t, e), At(e.attrs))
            [] e.tag = "way" ->
                 InWay(t, id)
            [] e.tag = "relation" ->
                 InRelation(t, id)
            [] OTHER -> t
    BY <1>2, Zenon DEF OnStart, InNode, InWay, InRelation
  <2> HIDE DEF t, id
  <2>4. CASE e.tag = "bounds"
    <3>1. OnStart(s, e) = Bounds(t, e)
      BY <2>3, <2>4 DEF IsNode
    <3> QED
      BY <2>1, <3>1, BoundsGood
  <2>5. CASE IsNode(e)
    <3> DEFINE i == InsertNode(t, e)
               p == At(e.attrs)
    <3>1. i \in XmlGood /\ p \in Points
      BY <2>1, <2>5, InsertNodeGood
    <3>2. OnStart(s, e) = InNode(i, p)
      BY <2>3, <2>5 DEF IsNode
    <3> HIDE DEF i, p
    <3> QED
      BY <3>1, <3>2, EntersGood
  <2>6. CASE e.tag = "way"
    <3>1. OnStart(s, e) = InWay(t, id)
      BY <2>3, <2>6 DEF IsNode
    <3> QED
      BY <2>1, <2>2, <3>1, EntersGood
  <2>7. CASE e.tag = "relation"
    <3>1. OnStart(s, e) = InRelation(t, id)
      BY <2>3, <2>7 DEF IsNode
    <3> QED
      BY <2>1, <2>2, <3>1, EntersGood
  <2>8. CASE e.tag \notin {"bounds", "way", "relation"} /\ ~ IsNode(e)
    BY <2>1, <2>3, <2>8
  <2> QED
    BY <2>4, <2>5, <2>6, <2>7, <2>8
<1> QED
  BY <1>1, <1>2

LEMMA OnEmptyGood ==
  ASSUME BlankedText, NEW s \in XmlGood, NEW e, IsEvent(e)
  PROVE  OnEmpty(s, e) \in XmlGood
<1> DEFINE Nested == s.inNode \/ s.inWay \/ s.inRelation
<1>1. OnEmpty(s, e) =
        CASE e.tag = "bounds" -> Bounds(s, e)
          [] IsNode(e) -> InsertNode(s, e)
          [] e.tag = "tag" /\ Nested -> TagIn(s, e)
          [] e.tag = "nd" /\ s.inWay /\ Carries(e, {"ref"}) ->
               [s EXCEPT !.refs = Append(s.refs, e.attrs.ref)]
          [] e.tag = "member" /\ s.inRelation -> MemberIn(s, e)
          [] OTHER -> s
  BY DEF OnEmpty
<1> HIDE DEF Nested
<1>2. CASE e.tag = "bounds"
  <2>1. OnEmpty(s, e) = Bounds(s, e)
    BY <1>1, <1>2 DEF IsNode
  <2> QED
    BY <2>1, BoundsGood
<1>3. CASE IsNode(e)
  <2>1. OnEmpty(s, e) = InsertNode(s, e)
    BY <1>1, <1>3 DEF IsNode
  <2> QED
    BY <1>3, <2>1, InsertNodeGood
<1>4. CASE e.tag = "tag" /\ Nested
  <2>1. OnEmpty(s, e) = TagIn(s, e)
    BY <1>1, <1>4 DEF IsNode
  <2> QED
    BY <2>1, TagInGood
<1>5. CASE e.tag = "nd" /\ s.inWay /\ Carries(e, {"ref"})
  <2>1. OnEmpty(s, e) = [s EXCEPT !.refs = Append(s.refs, e.attrs.ref)]
    BY <1>1, <1>5 DEF IsNode
  <2>2. "ref" \in IntAttrs
    BY DEF IntAttrs
  <2>3. e.attrs["ref"] \in Int
    BY <1>5, <2>2, AttrIs
  <2> DEFINE r == e.attrs.ref
  <2>4. r \in Int
    BY <2>3
  <2>5. OnEmpty(s, e) = [s EXCEPT !.refs = Append(s.refs, r)]
    BY <2>1
  <2> HIDE DEF r
  <2>6. << >> \in Maybe(Int) /\ Point(0, 0) \in Points
    BY DEF Maybe, Point, Points
  <2> QED
    BY <2>4, <2>5, <2>6, OthersGood
<1>6. CASE e.tag = "member" /\ s.inRelation
  <2>1. OnEmpty(s, e) = MemberIn(s, e)
    BY <1>1, <1>6 DEF IsNode
  <2> QED
    BY <2>1, MemberInGood
<1>7. CASE /\ e.tag # "bounds" /\ ~ IsNode(e) /\ ~ (e.tag = "tag" /\ Nested)
           /\ ~ (e.tag = "nd" /\ s.inWay /\ Carries(e, {"ref"}))
           /\ ~ (e.tag = "member" /\ s.inRelation)
  BY <1>1, <1>7
<1> QED
  BY <1>2, <1>3, <1>4, <1>5, <1>6, <1>7

LEMMA AppendDiffers ==
  ASSUME NEW V, NEW list \in Seq(V), DifferentIds(list), NEW x, \A k \in DOMAIN list : list[k].id # x.id
  PROVE  DifferentIds(Append(list, x))
<1> DEFINE n == Len(list)
<1>1. n \in Nat /\ DOMAIN list = 1 .. n
  OBVIOUS
<1>2. Len(Append(list, x)) = n + 1 /\ Append(list, x)[n + 1] = x
      /\ \A k \in 1 .. n : Append(list, x)[k] = list[k]
  OBVIOUS
<1>3. \A j, k \in 1 .. n : list[j].id = list[k].id => j = k
  BY DEF DifferentIds
<1> DEFINE l == Append(list, x)
<1> SUFFICES ASSUME NEW j \in 1 .. Len(l), NEW k \in 1 .. Len(l), l[j].id = l[k].id
             PROVE  j = k
  BY DEF DifferentIds
<1> HIDE DEF n, l
<1>4. j \in 1 .. n \/ j = n + 1
  BY <1>1, <1>2 DEF l
<1>5. k \in 1 .. n \/ k = n + 1
  BY <1>1, <1>2 DEF l
<1> QED
  BY <1>1, <1>2, <1>3, <1>4, <1>5 DEF l

\* Replacing the data.
LEMMA DataGood ==
  ASSUME NEW s \in XmlGood, NEW d \in Datas({"osm"}), DifferentIds(d.ways)
  PROVE  [s EXCEPT !.data = d] \in XmlGood
<1>1. s \in XmlStates
  BY DEF XmlGood
<1>2. [s EXCEPT !.data = d] \in XmlStates /\ [s EXCEPT !.data = d].data = d
  BY <1>1 DEF XmlStates
<1> QED
  BY <1>2 DEF XmlGood

LEMMA XmlData ==
  ASSUME NEW s \in XmlGood
  PROVE  /\ s.data \in Datas({"osm"}) /\ DifferentIds(s.data.ways) /\ s.id \in Maybe(Int)
         /\ s.tags \in TagMaps /\ s.nodeTags \in TagMaps /\ s.at \in Points
         /\ s.refs \in Seq(Int) /\ s.members \in Seq(Members) /\ s.depth \in Nat
         /\ s.extent \in Maybe(Boxes) /\ s.explicit \in Maybe(Boxes)
BY DEF XmlGood, XmlStates

LEMMA EndWayGood ==
  ASSUME NEW s \in XmlGood
  PROVE  EndWay(s) \in XmlGood
<1> DEFINE w == Way(s.id[1], s.tags, s.refs)
           d == [s.data EXCEPT !.ways = Append(s.data.ways, w)]
<1>1. CASE IsNew(s.id, s.data.ways)
  <2>1. s.id[1] \in Int
    BY <1>1, XmlData DEF IsNew, None, Maybe
  <2>2. w \in Ways /\ w.id = s.id[1]
    BY <2>1, XmlData DEF Way, Ways
  <2>3. s.data.ways \in Seq(Ways)
    BY XmlData DEF Datas
  <2>4. \A k \in DOMAIN s.data.ways : s.data.ways[k].id # w.id
    BY <1>1, <2>2 DEF IsNew
  <2>5. EndWay(s) = [s EXCEPT !.data = d]
    BY <1>1 DEF EndWay
  <2> HIDE DEF w
  <2>6. Append(s.data.ways, w) \in Seq(Ways) /\ DifferentIds(Append(s.data.ways, w))
    <3>1. Append(s.data.ways, w) \in Seq(Ways)
      BY <2>2, <2>3
    <3>2. DifferentIds(s.data.ways)
      BY XmlData
    <3> QED
      BY <2>3, <2>4, <3>1, <3>2, AppendDiffers
  <2>7. d \in Datas({"osm"}) /\ d.ways = Append(s.data.ways, w)
    BY <2>6, XmlData DEF Datas
  <2> HIDE DEF d
  <2> QED
    BY <2>5, <2>6, <2>7, DataGood
<1>2. CASE ~ IsNew(s.id, s.data.ways)
  BY <1>2 DEF EndWay
<1> QED
  BY <1>1, <1>2

LEMMA EndRelationGood ==
  ASSUME NEW s \in XmlGood
  PROVE  EndRelation(s) \in XmlGood
<1> DEFINE r == Relation(s.id[1], s.tags, s.members)
           d == [s.data EXCEPT !.relations = Append(s.data.relations, r)]
           New == Is(s.tags, "type", "multipolygon") /\ s.members # << >> /\ IsNew(s.id, s.data.relations)
<1>1. CASE New
  <2>1. s.id[1] \in Int
    BY <1>1, XmlData DEF IsNew, None, Maybe
  <2>2. r \in Relations
    BY <1>1, <2>1, XmlData DEF Relation, Relations
  <2>3. s.data.relations \in Seq(Relations)
    BY XmlData DEF Datas
  <2>4. EndRelation(s) = [s EXCEPT !.data = d]
    BY <1>1 DEF EndRelation
  <2> HIDE DEF r
  <2>5. Append(s.data.relations, r) \in Seq(Relations)
    BY <2>2, <2>3
  <2>6. d \in Datas({"osm"}) /\ d.ways = s.data.ways
    BY <2>5, XmlData DEF Datas
  <2> HIDE DEF d
  <2> QED
    BY <2>4, <2>6, XmlData, DataGood
<1>2. CASE ~ New
  BY <1>2 DEF EndRelation
<1> QED
  BY <1>1, <1>2

LEMMA OnEndGood ==
  ASSUME NEW s \in XmlGood, NEW e
  PROVE  OnEnd(s, e) \in XmlGood
<1> DEFINE n == Max({0, s.depth - 1})
           t == [s EXCEPT !.depth = n]
<1>1. n \in Nat
  <2>1. s.depth \in Nat
    BY XmlData
  <2>2. CASE s.depth = 0
    <3>1. \E x \in {0, s.depth - 1} : \A y \in {0, s.depth - 1} : x >= y
      BY <2>1
    <3>2. Max({0, s.depth - 1}) \in {0, s.depth - 1}
          /\ \A y \in {0, s.depth - 1} : Max({0, s.depth - 1}) >= y
      BY <3>1 DEF Max
    <3> QED
      BY <2>2, <3>2
  <2>3. CASE s.depth > 0
    <3>1. Max({0, s.depth - 1}) \in {0, s.depth - 1}
      BY <2>1, MaxOfTwo
    <3> QED
      BY <2>1, <2>3, <3>1
  <2> QED
    BY <2>1, <2>2, <2>3
<1>2. t \in XmlGood
  BY <1>1, OthersGood
<1>3. OnEnd(s, e) =
        CASE e.tag = "node" /\ s.inNode -> [t EXCEPT !.inNode = FALSE, !.data = AddTagged(t.data, s.at, s.nodeTags)]
          [] e.tag = "way" /\ s.inWay -> [EndWay(t) EXCEPT !.inWay = FALSE]
          [] e.tag = "relation" /\ s.inRelation -> [EndRelation(t) EXCEPT !.inRelation = FALSE]
          [] OTHER -> t
  BY Zenon DEF OnEnd
<1> HIDE DEF n, t
<1>4. CASE e.tag = "node" /\ s.inNode
  <2> DEFINE d == AddTagged(t.data, s.at, s.nodeTags)
             u == [t EXCEPT !.inNode = FALSE]
  <2>1. d \in Datas({"osm"}) /\ DifferentIds(d.ways)
    <3>1. "osm" \in {"osm"}
      OBVIOUS
    <3>2. d \in Datas({"osm"}) /\ d.ways = t.data.ways
      BY <1>2, <3>1, XmlData, AddTaggedTyped
    <3> QED
      BY <1>2, <3>2, XmlData
  <2>2. u \in XmlGood
    BY <1>2, OthersGood
  <2>3. OnEnd(s, e) = [t EXCEPT !.inNode = FALSE, !.data = d]
    BY <1>3, <1>4
  <2> HIDE DEF d
  <2>4. OnEnd(s, e) = [u EXCEPT !.data = d]
    BY <1>2, <2>3 DEF XmlGood, XmlStates
  <2> HIDE DEF u
  <2> QED
    BY <2>1, <2>2, <2>4, DataGood
<1>5. CASE e.tag = "way" /\ s.inWay
  <2>1. OnEnd(s, e) = [EndWay(t) EXCEPT !.inWay = FALSE]
    BY <1>3, <1>5
  <2>2. EndWay(t) \in XmlGood
    BY <1>2, EndWayGood
  <2> QED
    BY <2>1, <2>2, OthersGood
<1>6. CASE e.tag = "relation" /\ s.inRelation
  <2>1. OnEnd(s, e) = [EndRelation(t) EXCEPT !.inRelation = FALSE]
    BY <1>3, <1>6
  <2>2. EndRelation(t) \in XmlGood
    BY <1>2, EndRelationGood
  <2> QED
    BY <2>1, <2>2, OthersGood
<1>7. CASE ~ (e.tag = "node" /\ s.inNode) /\ ~ (e.tag = "way" /\ s.inWay) /\ ~ (e.tag = "relation" /\ s.inRelation)
  BY <1>2, <1>3, <1>7
<1> QED
  BY <1>4, <1>5, <1>6, <1>7

LEMMA OnEventGood ==
  ASSUME BlankedText, NEW s \in XmlGood, NEW e, IsEvent(e)
  PROVE  OnEvent(s, e) \in XmlGood
<1>1. e.on \in {"start", "empty", "end", "error"}
  BY Zenon DEF IsEvent
<1>2. CASE s.failed
  BY <1>2 DEF OnEvent
<1>3. CASE ~ s.failed /\ e.on = "start"
  BY <1>3, OnStartGood DEF OnEvent
<1>4. CASE ~ s.failed /\ e.on = "empty"
  BY <1>4, OnEmptyGood DEF OnEvent
<1>5. CASE ~ s.failed /\ e.on = "end"
  BY <1>5, OnEndGood DEF OnEvent
<1>6. CASE ~ s.failed /\ e.on = "error"
  <2>1. OnEvent(s, e) = [s EXCEPT !.failed = TRUE]
    BY <1>6 DEF OnEvent
  <2> QED
    BY <2>1, OthersGood
<1> QED
  BY <1>1, <1>2, <1>3, <1>4, <1>5, <1>6

XmlRun(h, V, base, s) ==
  /\ Chain(h, V, Len(s), base, FoldLeft(OnEvent, base, s))
  /\ \A k \in 1 .. Len(s) : h[k] = OnEvent(h[k - 1], s[k])

LEMMA XmlSteps ==
  ASSUME NEW U, NEW s \in Seq(U), NEW V, NEW base \in V, \A v \in V, u \in U : OnEvent(v, u) \in V
  PROVE  \E h : XmlRun(h, V, base, s)
<1> DEFINE n == Len(s)
           step == [kv \in (1 .. n) \X V |-> OnEvent(kv[2], s[kv[1]])]
           Rest(I, g) == IF I = {} THEN base ELSE OnEvent(g[I \ {Max(I)}], s[Max(I)])
           Eq(g) == g = [I \in SUBSET (1 .. n) |-> Rest(I, g)]
           c == CHOOSE g : Eq(g)
<1>1. n \in Nat /\ DOMAIN s = 1 .. n /\ \A k \in 1 .. n : s[k] \in U
  OBVIOUS
<1>2. step \in [(1 .. n) \X V -> V] /\ \A k \in 1 .. n, v \in V : step[<<k, v>>] = OnEvent(v, s[k])
  BY <1>1
<1>3. FoldLeft(OnEvent, base, s) = c[1 .. n]
  <2>1. FoldLeft(OnEvent, base, s) = (CHOOSE g : g = [I \in SUBSET DOMAIN s |-> Rest(I, g)])[DOMAIN s]
    BY Zenon DEF FoldLeft, MapThenFoldSet
  <2> QED
    BY <1>1, <2>1, Zenon
<1> HIDE DEF n, step, c
<1>4. PICK f \in [SUBSET (1 .. n) -> V] : IsSequenceFold(n, base, step, f)
  BY <1>1, <1>2, SequenceFold
<1>5. \A I \in SUBSET (1 .. n) : f[I] = Rest(I, f)
  <2>1. \A I \in SUBSET (1 .. n) : f[I \ {Max(I)}] \in V
    OBVIOUS
  <2> QED
    BY <1>2, <1>4, <2>1 DEF IsSequenceFold
<1>6. Eq(f)
  BY <1>5
<1>7. Eq(c)
  <2> HIDE DEF Eq
  <2> QED
    BY <1>6 DEF c
<1>8. c[{}] = f[{}] /\ \A I \in SUBSET (1 .. n) : I # {} /\ c[I \ {Max(I)}] = f[I \ {Max(I)}] => c[I] = f[I]
  BY <1>5, <1>7
<1>9. PICK h : Follows(h, V, n, base, step, c[1 .. n])
  BY <1>1, <1>4, <1>8, FoldFollows
<1>10. \A k \in 1 .. n : h[k] = OnEvent(h[k - 1], s[k])
  <2> SUFFICES ASSUME NEW k \in 1 .. n
               PROVE  h[k] = OnEvent(h[k - 1], s[k])
    OBVIOUS
  <2>1. h[k - 1] \in V /\ h[k] = step[<<k, h[k - 1]>>]
    BY <1>1, <1>9 DEF Follows, Chain
  <2> QED
    BY <1>2, <2>1
<1> QED
  BY <1>3, <1>9, <1>10 DEF n, Follows, XmlRun

LEMMA Differs ==
  ASSUME NEW src, NEW d \in Datas(src), NEW ways \in Seq(Ways), DifferentIds(ways)
  PROVE  WithWays(d, ways) \in SoundDatas(src)
<1>1. WithWays(d, ways) \in Datas(src)
  BY WithWaysTyped
<1>2. HasWays(d, Ways)
  BY DatasHaveWays
<1>3. \A j, k \in 1 .. Len(ways) : ways[j].id = ways[k].id => j = k
  BY DEF DifferentIds
<1>4. ValidateInvariants(WithWays(d, ways))
  BY <1>2, <1>3, WithWaysMakesIndex
<1> QED
  BY <1>1, <1>4 DEF SoundDatas

\* What is not the ways and their index is replaced freely.
LEMMA OtherParts ==
  ASSUME NEW src, NEW d \in SoundDatas(src), NEW e \in Datas(src), e.ways = d.ways, e.index = d.index
  PROVE  e \in SoundDatas(src)
<1>1. ValidateInvariants(d)
  BY DEF SoundDatas
<1>2. ValidateInvariants(e)
  BY <1>1, Zenon DEF ValidateInvariants
<1> QED
  BY <1>2 DEF SoundDatas

LEMMA NewBounds ==
  ASSUME NEW src, NEW d \in SoundDatas(src), NEW b \in Maybe(Boxes)
  PROVE  [d EXCEPT !.bounds = b] \in SoundDatas(src)
<1> DEFINE e == [d EXCEPT !.bounds = b]
<1>1. d \in Datas(src)
  BY DEF SoundDatas
<1>2. e \in Datas(src) /\ e.ways = d.ways /\ e.index = d.index
  BY <1>1 DEF Datas
<1> HIDE DEF e
<1> QED
  BY <1>2, OtherParts DEF e

\* Whatever the events of a document, parse_osm_xml_reader makes data that
\* validate_invariants accepts, or none: ids that are missing or repeated,
\* elements that nest or end early, all of them included.
THEOREM XmlIsSound ==
  ASSUME BlankedText, NEW U, \A e \in U : IsEvent(e), NEW events \in Seq(U)
  PROVE  ParseXml(events) = None \/ ParseXml(events)[1] \in SoundDatas({"osm"})
<1> DEFINE s == FoldLeft(OnEvent, NewParse, events)
           d == WithWays(s.data, s.data.ways)
           b == OrElse(s.explicit, s.extent)
<1>1. s \in XmlGood
  <2>1. \A v \in XmlGood, u \in U : OnEvent(v, u) \in XmlGood
    BY OnEventGood
  <2>2. NewParse \in XmlGood
    BY NewParseGood
  <2>3. PICK h : XmlRun(h, XmlGood, NewParse, events)
    BY <2>1, <2>2, XmlSteps
  <2> HIDE DEF s
  <2>4. s = FoldLeft(OnEvent, NewParse, events)
    BY Zenon DEF s
  <2>5. h[Len(events)] = s /\ h \in [0 .. Len(events) -> XmlGood]
    BY <2>3, <2>4, Zenon DEF XmlRun, Chain
  <2>6. Len(events) \in Nat
    OBVIOUS
  <2> QED
    BY <2>5, <2>6
<1>2. ParseXml(events) = IF s.failed THEN None ELSE Some([d EXCEPT !.bounds = b])
  BY Zenon DEF ParseXml
<1> HIDE DEF s
<1>3. s.data.ways \in Seq(Ways)
  BY <1>1, XmlData DEF Datas
<1>4. d \in SoundDatas({"osm"})
  BY <1>1, <1>3, XmlData, Differs
<1>5. b \in Maybe(Boxes)
  BY <1>1, XmlData DEF OrElse
<1> DEFINE e == [d EXCEPT !.bounds = b]
<1>6. e \in SoundDatas({"osm"})
  BY <1>4, <1>5, NewBounds
<1> HIDE DEF e, d, b
<1>7. ParseXml(events) = IF s.failed THEN None ELSE <<e>>
  BY <1>2, Zenon DEF e, Some
<1> QED
  BY <1>6, <1>7

----------------------------------------------------------------------------
(* parse_pbf_reader.                                                        *)

PbfGood == {d \in Datas({"osm"}) : DifferentIds(d.ways)}

LEMMA OnPbfNodeGood ==
  ASSUME NEW d \in PbfGood, NEW e, e.id \in Int, e.at \in Points, e.tags \in TagMaps
  PROVE  OnPbfNode(d, e) \in PbfGood
<1> DEFINE a == AddNode(d, e.id, e.at)
           t == AddTagged(a, e.at, e.tags)
           b == UnionBounds(t.bounds, Some(Around(e.at)))
<1>1. d \in Datas({"osm"}) /\ DifferentIds(d.ways)
  BY DEF PbfGood
<1>2. a \in Datas({"osm"}) /\ a.ways = d.ways
  <2>1. a \in Datas({"osm"})
    BY <1>1, AddNodeTyped
  <2> QED
    BY <1>1, <2>1 DEF AddNode, Datas
<1>3. OnPbfNode(d, e) = [t EXCEPT !.bounds = b]
  BY DEF OnPbfNode
<1> HIDE DEF a
<1>4. t \in Datas({"osm"}) /\ t.ways = d.ways
  <2>1. "osm" \in {"osm"}
    OBVIOUS
  <2> QED
    BY <1>2, <2>1, AddTaggedTyped
<1> HIDE DEF t
<1>5. b \in Maybe(Boxes)
  <2>1. Some(Around(e.at)) \in Maybe(Boxes)
    BY DEF Some, Around, Boxes, Maybe, Points
  <2>2. t.bounds \in Maybe(Boxes)
    BY <1>4 DEF Datas
  <2> QED
    BY <2>1, <2>2, UnionBoundsTyped
<1> HIDE DEF b
<1> QED
  BY <1>1, <1>3, <1>4, <1>5 DEF PbfGood, Datas

LEMMA OnPbfWayGood ==
  ASSUME NEW d \in PbfGood, NEW e, e.id \in Int, e.tags \in TagMaps, e.refs \in Seq(Int)
  PROVE  OnPbfWay(d, e) \in PbfGood
<1> DEFINE w == Way(e.id, e.tags, e.refs)
           New == ~ (e.id = 0 \/ \E k \in DOMAIN d.ways : d.ways[k].id = e.id)
<1>1. d \in Datas({"osm"}) /\ DifferentIds(d.ways)
  BY DEF PbfGood
<1>2. CASE New
  <2>1. OnPbfWay(d, e) = [d EXCEPT !.ways = Append(d.ways, w)]
    BY <1>2 DEF OnPbfWay
  <2>2. w \in Ways /\ w.id = e.id
    BY DEF Way, Ways
  <2>3. d.ways \in Seq(Ways)
    BY <1>1 DEF Datas
  <2>4. \A k \in DOMAIN d.ways : d.ways[k].id # w.id
    BY <1>2, <2>2
  <2> HIDE DEF w
  <2>5. Append(d.ways, w) \in Seq(Ways)
    BY <2>2, <2>3
  <2>6. DifferentIds(Append(d.ways, w))
    BY <1>1, <2>3, <2>4, AppendDiffers
  <2> QED
    BY <1>1, <2>1, <2>5, <2>6 DEF PbfGood, Datas
<1>3. CASE ~ New
  BY <1>3 DEF OnPbfWay
<1> QED
  BY <1>2, <1>3

LEMMA OnPbfRelationGood ==
  ASSUME NEW d \in PbfGood, NEW e, e.id \in Int, e.tags \in TagMaps, e.members \in Seq(PbfMembers)
  PROVE  OnPbfRelation(d, e) \in PbfGood
<1> DEFINE P == {m \in PbfMembers : m.type = "way"}
           ways == Passing(e.members, P)
           members == [k \in DOMAIN ways |-> [way |-> ways[k].ref, role |-> ways[k].role]]
           r == Relation(e.id, e.tags, members)
           New == Is(e.tags, "type", "multipolygon") /\ e.id # 0 /\ members # << >>
<1>1. d \in Datas({"osm"}) /\ DifferentIds(d.ways)
  BY DEF PbfGood
<1>2. Retain(e.members, LAMBDA m : m.type = "way") = ways
  <2>1. {k \in DOMAIN e.members : e.members[k].type = "way"} = {k \in DOMAIN e.members : e.members[k] \in P}
    OBVIOUS
  <2> QED
    BY <2>1, Zenon DEF Retain, Passing
<1>3. OnPbfRelation(d, e) = IF New THEN [d EXCEPT !.relations = Append(d.relations, r)] ELSE d
  BY <1>2, Zenon DEF OnPbfRelation
<1>4. ways \in Seq(PbfMembers)
  BY PassingRange
<1> HIDE DEF ways
<1>5. members \in Seq(Members)
  <2>1. Len(ways) \in Nat /\ DOMAIN ways = 1 .. Len(ways) /\ \A k \in DOMAIN ways : ways[k] \in PbfMembers
    BY <1>4
  <2>2. \A k \in 1 .. Len(ways) : [way |-> ways[k].ref, role |-> ways[k].role] \in Members
    BY <2>1 DEF PbfMembers, Members
  <2> HIDE DEF members
  <2>3. members = [k \in 1 .. Len(ways) |-> [way |-> ways[k].ref, role |-> ways[k].role]]
    BY <2>1 DEF members
  <2> QED
    BY <2>1, <2>2, <2>3
<1> HIDE DEF members
<1>6. CASE New
  <2>1. r \in Relations
    BY <1>5, <1>6 DEF Relation, Relations
  <2> HIDE DEF r
  <2>2. d.relations \in Seq(Relations)
    BY <1>1 DEF Datas
  <2>3. Append(d.relations, r) \in Seq(Relations)
    BY <2>1, <2>2
  <2>4. OnPbfRelation(d, e) = [d EXCEPT !.relations = Append(d.relations, r)]
    BY <1>3, <1>6
  <2> QED
    BY <1>1, <2>3, <2>4 DEF PbfGood, Datas
<1>7. CASE ~ New
  <2>1. OnPbfRelation(d, e) = d
    BY <1>3, <1>7
  <2> QED
    BY <2>1
<1> QED
  BY <1>6, <1>7

LEMMA ElementTyped ==
  ASSUME NEW e, IsElement(e)
  PROVE  /\ e.kind \in {"node", "way", "relation", "bad"}
         /\ e.kind = "node" => e.id \in Int /\ e.at \in Points /\ e.tags \in TagMaps
         /\ e.kind = "way" => e.id \in Int /\ e.tags \in TagMaps /\ e.refs \in Seq(Int)
         /\ e.kind = "relation" => e.id \in Int /\ e.tags \in TagMaps /\ e.members \in Seq(PbfMembers)
<1>1. /\ e.kind \in {"node", "way", "relation", "bad"}
      /\ e.kind # "bad" => e.id \in Int /\ IsTags(e.tags)
      /\ e.kind = "node" => e.at \in Points
      /\ e.kind = "way" => e.refs \in Seq(Int)
      /\ e.kind = "relation" => e.members \in Seq(PbfMembers)
  BY Zenon DEF IsElement
<1>2. e.kind # "bad" => e.tags \in TagMaps
  BY <1>1, IsTagsTyped
<1> QED
  BY <1>1, <1>2

LEMMA OnPbfElementGood ==
  ASSUME NEW d \in PbfGood, NEW e, IsElement(e)
  PROVE  OnPbfElement(d, e) \in PbfGood
<1>1. CASE e.kind = "node"
  <2>1. e.id \in Int /\ e.at \in Points /\ e.tags \in TagMaps
    BY <1>1, ElementTyped
  <2>2. OnPbfElement(d, e) = OnPbfNode(d, e)
    BY <1>1 DEF OnPbfElement
  <2> QED
    BY <2>1, <2>2, OnPbfNodeGood
<1>2. CASE e.kind = "way"
  <2>1. e.id \in Int /\ e.tags \in TagMaps /\ e.refs \in Seq(Int)
    BY <1>2, ElementTyped
  <2>2. OnPbfElement(d, e) = OnPbfWay(d, e)
    BY <1>2 DEF OnPbfElement
  <2> QED
    BY <2>1, <2>2, OnPbfWayGood
<1>3. CASE e.kind = "relation"
  <2>1. e.id \in Int /\ e.tags \in TagMaps /\ e.members \in Seq(PbfMembers)
    BY <1>3, ElementTyped
  <2>2. OnPbfElement(d, e) = OnPbfRelation(d, e)
    BY <1>3 DEF OnPbfElement
  <2> QED
    BY <2>1, <2>2, OnPbfRelationGood
<1>4. CASE e.kind = "bad"
  BY <1>4 DEF OnPbfElement
<1>5. e.kind \in {"node", "way", "relation", "bad"}
  BY Zenon DEF IsElement
<1> QED
  BY <1>1, <1>2, <1>3, <1>4, <1>5

PbfRun(h, V, base, s) ==
  /\ Chain(h, V, Len(s), base, FoldLeft(OnPbfElement, base, s))
  /\ \A k \in 1 .. Len(s) : h[k] = OnPbfElement(h[k - 1], s[k])

LEMMA PbfSteps ==
  ASSUME NEW U, NEW s \in Seq(U), NEW V, NEW base \in V, \A v \in V, u \in U : OnPbfElement(v, u) \in V
  PROVE  \E h : PbfRun(h, V, base, s)
<1> DEFINE n == Len(s)
           step == [kv \in (1 .. n) \X V |-> OnPbfElement(kv[2], s[kv[1]])]
           Rest(I, g) == IF I = {} THEN base ELSE OnPbfElement(g[I \ {Max(I)}], s[Max(I)])
           Eq(g) == g = [I \in SUBSET (1 .. n) |-> Rest(I, g)]
           c == CHOOSE g : Eq(g)
<1>1. n \in Nat /\ DOMAIN s = 1 .. n /\ \A k \in 1 .. n : s[k] \in U
  OBVIOUS
<1>2. step \in [(1 .. n) \X V -> V] /\ \A k \in 1 .. n, v \in V : step[<<k, v>>] = OnPbfElement(v, s[k])
  BY <1>1
<1>3. FoldLeft(OnPbfElement, base, s) = c[1 .. n]
  <2>1. FoldLeft(OnPbfElement, base, s) = (CHOOSE g : g = [I \in SUBSET DOMAIN s |-> Rest(I, g)])[DOMAIN s]
    BY Zenon DEF FoldLeft, MapThenFoldSet
  <2> QED
    BY <1>1, <2>1, Zenon
<1> HIDE DEF n, step, c
<1>4. PICK f \in [SUBSET (1 .. n) -> V] : IsSequenceFold(n, base, step, f)
  BY <1>1, <1>2, SequenceFold
<1>5. \A I \in SUBSET (1 .. n) : f[I] = Rest(I, f)
  <2>1. \A I \in SUBSET (1 .. n) : f[I \ {Max(I)}] \in V
    OBVIOUS
  <2> QED
    BY <1>2, <1>4, <2>1 DEF IsSequenceFold
<1>6. Eq(f)
  BY <1>5
<1>7. Eq(c)
  <2> HIDE DEF Eq
  <2> QED
    BY <1>6 DEF c
<1>8. c[{}] = f[{}] /\ \A I \in SUBSET (1 .. n) : I # {} /\ c[I \ {Max(I)}] = f[I \ {Max(I)}] => c[I] = f[I]
  BY <1>5, <1>7
<1>9. PICK h : Follows(h, V, n, base, step, c[1 .. n])
  BY <1>1, <1>4, <1>8, FoldFollows
<1>10. \A k \in 1 .. n : h[k] = OnPbfElement(h[k - 1], s[k])
  <2> SUFFICES ASSUME NEW k \in 1 .. n
               PROVE  h[k] = OnPbfElement(h[k - 1], s[k])
    OBVIOUS
  <2>1. h[k - 1] \in V /\ h[k] = step[<<k, h[k - 1]>>]
    BY <1>1, <1>9 DEF Follows, Chain
  <2> QED
    BY <1>2, <2>1
<1> QED
  BY <1>3, <1>9, <1>10 DEF n, Follows, PbfRun

\* Whatever the elements of a file, parse_pbf_reader makes data that
\* validate_invariants accepts, or none.
THEOREM PbfIsSound ==
  ASSUME NEW U, \A e \in U : IsElement(e), NEW elements \in Seq(U)
  PROVE  ParsePbf(elements) = None \/ ParsePbf(elements)[1] \in SoundDatas({"osm"})
<1> DEFINE d == FoldLeft(OnPbfElement, EmptyData, elements)
           e == WithWays(d, d.ways)
<1>1. d \in PbfGood
  <2>1. \A v \in PbfGood, u \in U : OnPbfElement(v, u) \in PbfGood
    BY OnPbfElementGood
  <2>2. EmptyData \in PbfGood
    BY EmptyDataTyped DEF PbfGood, DifferentIds, EmptyData
  <2>3. PICK h : PbfRun(h, PbfGood, EmptyData, elements)
    BY <2>1, <2>2, PbfSteps
  <2> HIDE DEF d
  <2>4. d = FoldLeft(OnPbfElement, EmptyData, elements)
    BY Zenon DEF d
  <2>5. h[Len(elements)] = d /\ h \in [0 .. Len(elements) -> PbfGood]
    BY <2>3, <2>4, Zenon DEF PbfRun, Chain
  <2>6. Len(elements) \in Nat
    OBVIOUS
  <2> QED
    BY <2>5, <2>6
<1>2. ParsePbf(elements) = IF \E k \in DOMAIN elements : elements[k].kind = "bad" THEN None ELSE Some(e)
  BY Zenon DEF ParsePbf
<1> HIDE DEF d
<1>3. d.ways \in Seq(Ways) /\ d \in Datas({"osm"}) /\ DifferentIds(d.ways)
  BY <1>1 DEF PbfGood, Datas
<1>4. e \in SoundDatas({"osm"})
  BY <1>3, Differs
<1> HIDE DEF e
<1> QED
  BY <1>2, <1>4 DEF Some
=============================================================================
