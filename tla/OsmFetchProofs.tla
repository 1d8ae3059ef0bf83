--------------------------- MODULE OsmFetchProofs ---------------------------
(***************************************************************************)
(* Proofs about OsmFetch for every set of clients, requests and endpoints, *)
(* every grain, any number of sweeps and every choice of faults.           *)
(***************************************************************************)
EXTENDS OsmFetchProps, RawCacheProofs

(***************************************************************************)
(* Rounding.                                                               *)
(***************************************************************************)

LEMMA SnapMonotone ==
  ASSUME NEW x \in Int, NEW y \in Int, x <= y
  PROVE  Snap(x) <= Snap(y)
BY FetchAssumption DEF Snap

LEMMA SnapTyped == ASSUME NEW x \in Int PROVE Snap(x) \in Int
BY FetchAssumption DEF Snap

LEMMA WishTyped ==
  ASSUME NEW b, NEW u, [box |-> b, url |-> u] \in Wishes
  PROVE  /\ b \in Boxes /\ u \in Urls /\ Canon[u] \in Sources
         /\ b.lo \in Int /\ b.hi \in Int
         /\ KeyOf(b, u) \in Keys
<1> DEFINE w == [box |-> b, url |-> u]
<1>1. w.box = b /\ w.url = u
  OBVIOUS
<1>2. w.box \in Boxes /\ KeyOf(w.box, w.url) \in Keys
  BY FetchAssumption DEF Boxes
<1>3. w \in [box : [lo : Int, hi : Int], url : Urls]
  BY FetchAssumption
<1> QED
  BY <1>1, <1>2, <1>3, FetchAssumption DEF Sources

LEMMA BoxTyped == ASSUME NEW b \in Boxes PROVE b.lo \in Int /\ b.hi \in Int
BY FetchAssumption DEF Boxes

(***************************************************************************)
(* What a step of RawCache may do to the files and to a writer's locals.   *)
(***************************************************************************)

\* c may rename its own version to its own key and nothing else.
Renames(c) ==
  /\ version' = version
  /\ \A d \in Writers : d # c => wr'[d] = wr[d]
  /\ wr'[c].pc # "idle" =>
       wr[c].pc # "idle" /\ wr'[c].ver = wr[c].ver /\ wr'[c].key = wr[c].key
  /\ \A k \in Keys : \/ meta'[k] = meta[k]
                     \/ /\ wr[c].pc # "idle" /\ k = wr[c].key
                        /\ meta'[k].ver = wr[c].ver /\ meta'[k] \in Meta
  /\ \A k \in Keys : \/ data'[k] = data[k]
                     \/ /\ wr[c].pc # "idle" /\ k = wr[c].key
                        /\ data'[k].ver = wr[c].ver

\* Files are at most unlinked.
Unlinkings ==
  /\ version' = version /\ wr' = wr
  /\ \A k \in Keys : meta'[k] = meta[k] \/ meta'[k] = Absent
  /\ \A k \in Keys : data'[k] = data[k] \/ data'[k] = Absent

LEMMA WriterRenames ==
  ASSUME Typed, NEW c \in Writers, WriterStep(c) \/ WriterCrashes(c)
  PROVE  Renames(c)
<1>0. /\ wr \in [Writers -> WriterState]
      /\ meta \in [Keys -> Meta \cup {Absent, Malformed}]
      /\ data \in [Keys -> Body \cup {Absent}]
      /\ wr[c] \in WriterState
      /\ wr[c].pc # "idle" => wr[c].key \in Keys
  BY DEF Typed, TypeOK, WriterHasKey
<1>1. CASE Copy(c)
  BY <1>0, <1>1 DEF Copy, Renames, WriterState
<1>2. CASE FinishCopy(c)
  BY <1>0, <1>2 DEF FinishCopy, Renames, WriterState
<1>3. CASE RejectOversized(c)
  BY <1>0, <1>3 DEF RejectOversized, Renames, WriterState
<1>4. CASE CopyFails(c)
  BY <1>0, <1>4 DEF CopyFails, Renames, IdleWriter
<1>5. CASE PersistMeta(c)
  <2>1. [ver |-> wr[c].ver, at |-> wr[c].at] \in Meta
    BY <1>0, WriterFields DEF Meta
  <2> QED
    BY <1>0, <1>5, <2>1 DEF PersistMeta, Renames, WriterState
<1>6. CASE PersistData(c)
  BY <1>0, <1>6 DEF PersistData, Renames, IdleWriter
<1>7. CASE CommitFails(c)
  <2>1. CASE wr[c].op = "write" /\ wr' = [wr EXCEPT ![c] = IdleWriter]
    BY <1>0, <1>7, <2>1 DEF CommitFails, Renames, IdleWriter
  <2>2. CASE wr' = [wr EXCEPT ![c].pc = "handed"]
    BY <1>0, <1>7, <2>2 DEF CommitFails, Renames, WriterState
  <2> QED
    BY <1>7, <2>1, <2>2 DEF CommitFails
<1>8. CASE DropTemp(c)
  BY <1>0, <1>8 DEF DropTemp, Renames, IdleWriter
<1>9. CASE WriterCrashes(c)
  BY <1>0, <1>9 DEF WriterCrashes, Renames, IdleWriter
<1> QED
  BY <1>1, <1>2, <1>3, <1>4, <1>5, <1>6, <1>7, <1>8, <1>9 DEF WriterStep

LEMMA SweepUnlinks ==
  ASSUME Typed, NEW s \in Sweepers, Sweeping(s)
  PROVE  Unlinkings
<1>0. /\ meta \in [Keys -> Meta \cup {Absent, Malformed}]
      /\ data \in [Keys -> Body \cup {Absent}]
  BY DEF Typed, TypeOK
<1>1. CASE \E age \in Ages : BeginClear(s, age) \/ ListingFails(s, age)
  BY <1>1 DEF BeginClear, ListingFails, Unlinkings
<1>2. CASE \E k \in Keys : MeetData(s, k) \/ MeetMeta(s, k)
  BY <1>2 DEF MeetData, MeetMeta, Unlinkings
<1>3. CASE RemoveOrphan(s)
  BY <1>0, <1>3 DEF RemoveOrphan, Unlinked, OnFault, Unlinkings
<1>4. CASE RemoveData(s)
  BY <1>0, <1>4 DEF RemoveData, Unlinked, OnFault, Unlinkings
<1>5. CASE RemoveMeta(s)
  BY <1>0, <1>5 DEF RemoveMeta, Unlinked, OnFault, Unlinkings
<1>6. CASE EndClear(s) \/ LeaveClear(s)
  BY <1>6 DEF EndClear, LeaveClear, Unlinkings
<1> QED
  BY <1>1, <1>2, <1>3, <1>4, <1>5, <1>6 DEF Sweeping, SweepStep

(***************************************************************************)
(* Versions stay under the key they were asked for.                        *)
(***************************************************************************)

\* What the requests of the versions do in a step.
Remembers ==
  /\ asked' \in [Versions -> Requests \cup {Absent}]
  /\ \A v \in Versions : asked[v] # Absent => asked'[v] = asked[v]

LEMMA StillFiled ==
  ASSUME Remembers, NEW v \in Versions, NEW k, FiledByKey(v, k)
  PROVE  FiledByKey(v, k)'
BY DEF Remembers, FiledByKey

LEMMA VersionsTyped ==
  ASSUME Typed
  PROVE  /\ \A k \in Keys : /\ meta[k] \in Meta => meta[k].ver \in Versions
                            /\ data[k] # Absent => data[k].ver \in Versions
         /\ \A w \in Writers : wr[w].ver \in Versions
BY DEF Typed, TypeOK, Meta, Body, WriterState

LEMMA RenamingKeepsFiled ==
  ASSUME Typed, FilesFiled, NEW c \in Writers, Renames(c), Remembers,
         \A v \in Versions : v > version => asked'[v] = Absent
  PROVE  FilesFiled'
<1>1. ASSUME NEW k \in Keys
      PROVE  /\ meta'[k] \in Meta => FiledByKey(meta[k].ver, k)'
             /\ data'[k] # Absent => FiledByKey(data[k].ver, k)'
             /\ meta'[k] # Malformed
  <2>1. wr[c].pc # "idle" /\ k = wr[c].key => FiledByKey(wr[c].ver, k)
    BY DEF FilesFiled
  <2>2. \A v \in Versions : FiledByKey(v, k) => FiledByKey(v, k)'
    BY StillFiled
  <2>3. meta'[k] \in Meta => meta'[k].ver \in Versions /\ FiledByKey(meta'[k].ver, k)
    BY <2>1, VersionsTyped DEF Renames, FilesFiled
  <2>4. data'[k] # Absent => data'[k].ver \in Versions /\ FiledByKey(data'[k].ver, k)
    BY <2>1, VersionsTyped DEF Renames, FilesFiled
  <2>5. meta'[k] # Malformed
    BY CacheAssumption DEF Renames, FilesFiled
  <2> QED
    BY <2>2, <2>3, <2>4, <2>5 DEF FiledByKey
<1>2. ASSUME NEW w \in Writers, wr'[w].pc # "idle"
      PROVE  FiledByKey(wr[w].ver, wr[w].key)'
  <2>1. wr[w].ver \in Versions /\ FiledByKey(wr[w].ver, wr[w].key)
    BY <1>2, VersionsTyped DEF Renames, FilesFiled
  <2>2. wr'[w].ver = wr[w].ver /\ wr'[w].key = wr[w].key
    BY <1>2 DEF Renames
  <2> QED
    BY <2>1, <2>2 DEF FiledByKey, Remembers
<1>3. \A v \in Versions : v > version' => asked'[v] = Absent
  BY DEF Renames
<1> QED
  BY <1>1, <1>2, <1>3 DEF FilesFiled

LEMMA UnlinkingKeepsFiled ==
  ASSUME Typed, FilesFiled, Unlinkings, asked' = asked
  PROVE  FilesFiled'
<1>1. \A v, k : FiledByKey(v, k)' <=> FiledByKey(v, k)
  BY DEF FiledByKey
<1>2. ASSUME NEW k \in Keys
      PROVE  /\ meta'[k] \in Meta => FiledByKey(meta[k].ver, k)'
             /\ data'[k] # Absent => FiledByKey(data[k].ver, k)'
             /\ meta'[k] # Malformed
  <2>1. /\ meta[k] \in Meta => FiledByKey(meta[k].ver, k)
        /\ data[k] # Absent => FiledByKey(data[k].ver, k)
        /\ meta[k] # Malformed
    BY DEF FilesFiled
  <2>2. Absent \notin Meta /\ Absent # Malformed
    BY CacheAssumption DEF Meta
  <2>3. meta'[k] \in Meta => meta'[k] = meta[k]
    BY <2>2 DEF Unlinkings
  <2>4. data'[k] # Absent => data'[k] = data[k]
    BY DEF Unlinkings
  <2>5. meta'[k] # Malformed
    BY <2>1, <2>2 DEF Unlinkings
  <2> QED
    BY <2>1, <2>3, <2>4, <2>5 DEF FiledByKey
<1>3. \A w \in Writers : wr'[w].pc # "idle" => FiledByKey(wr[w].ver, wr[w].key)'
  BY DEF FilesFiled, Unlinkings, FiledByKey
<1>4. \A v \in Versions : v > version' => asked'[v] = Absent
  BY DEF FilesFiled, Unlinkings
<1> QED
  BY <1>2, <1>3, <1>4 DEF FilesFiled

LEMMA FetchingKeepsFiled ==
  ASSUME Typed, FilesFiled, NEW c \in Writers, Remembers,
         NEW box, NEW url, [box |-> box, url |-> url] \in Wishes, NEW len,
         BeginStream(c, KeyOf(box, url), len), NEW good \in BOOLEAN,
         asked' = [asked EXCEPT ![version + 1] =
                     [box |-> box, src |-> Canon[url], good |-> good]],
         asked \in [Versions -> Requests \cup {Absent}]
  PROVE  FilesFiled'
<1> DEFINE k0 == KeyOf(box, url)
<1>0. version \in Nat /\ version + 1 \in Versions /\ wr \in [Writers -> WriterState]
  BY CacheAssumption DEF BeginStream, Versions, Typed, TypeOK
<1>1. ASSUME NEW k \in Keys
      PROVE  /\ meta'[k] \in Meta => FiledByKey(meta[k].ver, k)'
             /\ data'[k] # Absent => FiledByKey(data[k].ver, k)'
             /\ meta'[k] # Malformed
  <2>1. meta' = meta /\ data' = data
    BY DEF BeginStream
  <2>2. /\ meta[k] \in Meta => FiledByKey(meta[k].ver, k)
        /\ data[k] # Absent => FiledByKey(data[k].ver, k)
        /\ meta[k] # Malformed
    BY DEF FilesFiled
  <2>3. \A v \in Versions : FiledByKey(v, k) => FiledByKey(v, k)'
    BY StillFiled
  <2>4. /\ meta[k] \in Meta => meta[k].ver \in Versions
        /\ data[k] # Absent => data[k].ver \in Versions
    BY VersionsTyped
  <2> QED
    BY <2>1, <2>2, <2>3, <2>4 DEF FiledByKey
<1>2. wr'[c].ver = version + 1 /\ wr'[c].key = k0
  BY <1>0 DEF BeginStream
<1>3. asked'[version + 1] = [box |-> box, src |-> Canon[url], good |-> good]
  BY <1>0
<1>4. asked'[version + 1] # Absent
  <2>1. [box |-> box, src |-> Canon[url], good |-> good] \in Requests
    BY WishTyped DEF Requests
  <2> QED
    BY <1>3, <2>1, FetchAssumption
<1>5. FiledByKey(wr[c].ver, wr[c].key)'
  BY <1>2, <1>3, <1>4 DEF FiledByKey, KeyOf
<1>6. ASSUME NEW w \in Writers, wr'[w].pc # "idle"
      PROVE  FiledByKey(wr[w].ver, wr[w].key)'
  <2>1. CASE w # c
    <3>1. wr'[w] = wr[w]
      BY <1>0, <2>1 DEF BeginStream
    <3>2. FiledByKey(wr[w].ver, wr[w].key) /\ wr[w].ver \in Versions
      BY <1>6, <3>1, VersionsTyped DEF FilesFiled
    <3> QED
      BY <3>1, <3>2 DEF FiledByKey, Remembers
  <2> QED
    BY <1>5, <2>1
<1>7. \A v \in Versions : v > version' => asked'[v] = Absent
  <2>1. version' = version + 1
    BY DEF BeginStream
  <2> QED
    BY <1>0, <2>1 DEF FilesFiled, Versions
<1> QED
  BY <1>1, <1>6, <1>7 DEF FilesFiled

(***************************************************************************)
(* A client chooses only what covers its request.                          *)
(***************************************************************************)

LEMMA StillOK ==
  ASSUME FetchInv, Remembers, NEW d \in Writers, cl'[d] = cl[d], wr'[d] = wr[d]
  PROVE  ClientOK(d)'
<1>1. ClientOK(d) /\ cl[d] \in ClientState
  BY DEF FetchInv, ClientTypes
<1>2. cl[d].out # Absent => cl[d].out \in Versions
  BY <1>1 DEF ClientState
<1>3. cl[d].out # Absent => (Answered(cl[d].out, cl[d]) => Answered(cl[d].out, cl[d])')
  BY <1>2 DEF Remembers, Answered
<1> QED
  BY <1>1, <1>3 DEF ClientOK, Serves

\* It is enough to look at the client that took the step.
LEMMA ClientStepKeeps ==
  ASSUME FetchInv, NEW c \in Writers, Typed', FilesFiled', Remembers, Calms,
         \A d \in Writers : d # c => cl'[d] = cl[d] /\ wr'[d] = wr[d],
         cl' \in [Writers -> ClientState], ClientOK(c)'
  PROVE  FetchInv'
<1>1. \A d \in Writers : ClientOK(d)'
  BY StillOK
<1>2. calm' \subseteq Writers
  BY DEF Calms, FetchInv, ClientTypes
<1> QED
  BY <1>1, <1>2 DEF FetchInv, ClientTypes, Remembers

LEMMA GoesKeeps ==
  ASSUME FetchInv, NEW c \in Writers, NEW r \in ClientState, Goes(c, r),
         cl'[c] = r => ClientOK(c)'
  PROVE  FetchInv'
<1>1. cl' \in [Writers -> ClientState] /\ cl'[c] = r
  BY DEF Goes, FetchInv, ClientTypes
<1>2. \A d \in Writers : d # c => cl'[d] = cl[d] /\ wr'[d] = wr[d]
  BY DEF Goes, vars, FetchInv, ClientTypes
<1>3. Remembers
  BY DEF Goes, Remembers, FetchInv, ClientTypes
<1>4. Typed'
  BY StepTyped DEF Goes, FetchInv
<1>5. FilesFiled'
  BY DEF Goes, vars, FetchInv, FilesFiled, FiledByKey
<1>6. Calms
  BY DEF Goes
<1> QED
  BY <1>1, <1>2, <1>3, <1>4, <1>5, <1>6, ClientStepKeeps

\* A listed sidecar that covers a request lies under a key that serves it.
LEMMA CoversServes ==
  ASSUME FetchInv, NEW c \in Writers, NEW k \in Keys, Covers(k, c), cl[c].pc # "idle"
  PROVE  Serves(k, cl[c])
<1> DEFINE a == asked[meta[k].ver]
           b == cl[c].box
<1>1. FiledByKey(meta[k].ver, k)
  BY DEF Covers, FromSource, FetchInv, FilesFiled
<1>2. a \in Requests
  BY <1>1, VersionsTyped DEF FiledByKey, Covers, FromSource, FetchInv, ClientTypes
<1>3. a.box.lo \in Int /\ a.box.hi \in Int
  BY <1>2, BoxTyped DEF Requests
<1>4. b.lo \in Int /\ b.hi \in Int
  BY WishTyped DEF FetchInv, ClientOK
<1>5. Snap(a.box.lo) <= Snap(b.lo) /\ Snap(b.hi) <= Snap(a.box.hi)
  BY <1>3, <1>4, SnapMonotone DEF Covers, Contains
<1> QED
  BY <1>1, <1>5 DEF FiledByKey, Serves, Covers, FromSource

LEMMA OwnKeyServes ==
  ASSUME FetchInv, NEW c \in Writers, cl[c].pc # "idle"
  PROVE  /\ KeyOf(cl[c].box, cl[c].url) \in Keys
         /\ Serves(KeyOf(cl[c].box, cl[c].url), cl[c])
<1>1. [box |-> cl[c].box, url |-> cl[c].url] \in Wishes
  BY DEF FetchInv, ClientOK
<1>2. Snap(cl[c].box.lo) \in Int /\ Snap(cl[c].box.hi) \in Int
  BY <1>1, WishTyped, SnapTyped
<1> QED
  BY <1>1, <1>2, WishTyped DEF KeyOf, Serves

\* What is filed under a key that serves a request answers it.
LEMMA ServesAnswers ==
  ASSUME NEW v, NEW k, NEW r, FiledByKey(v, k), Serves(k, r)
  PROVE  Answered(v, r)
BY DEF FiledByKey, Serves, Answered

(***************************************************************************)
(* The steps that look at the directory.                                   *)
(***************************************************************************)

LEMMA LookupKeeps ==
  ASSUME FetchInv, NEW c \in Writers,
         \/ ExactMeta(c) \/ ExactData(c) \/ ListReads(c) \/ ListEnds(c)
         \/ NoneFound(c) \/ ParsePath(c) \/ Finish(c)
         \/ \E k \in Keys : ListMeets(c, k) \/ Pick(c, k)
  PROVE  FetchInv'
<1>0. cl[c] \in ClientState /\ ClientOK(c)
  BY DEF FetchInv, ClientTypes
<1>1. CASE ExactMeta(c)
  <2> DEFINE hit == FromSource(KeyOf(cl[c].box, cl[c].url), cl[c].url)
             p   == IF hit THEN "exists" ELSE "list"
             S   == IF hit THEN {} ELSE {x \in Keys : meta[x] # Absent}
             r   == [cl[c] EXCEPT !.pc = p, !.snap = S]
  <2>1. p \in {"exists", "list"} /\ S \in SUBSET Keys
    OBVIOUS
  <2>2. Goes(c, r)
    BY <1>1 DEF ExactMeta
  <2> HIDE DEF p, S
  <2>3. r \in ClientState
    BY <1>0, <2>1 DEF ClientState
  <2>4. cl'[c] = r => ClientOK(c)'
    BY <1>0, <1>1, <2>1 DEF ClientOK, ClientState, Serves, ExactMeta
  <2> HIDE DEF r
  <2> QED
    BY <2>2, <2>3, <2>4, GoesKeeps
<1>2. CASE ExactData(c)
  <2> DEFINE k == KeyOf(cl[c].box, cl[c].url)
             S == {x \in Keys : meta[x] # Absent}
             r == [cl[c] EXCEPT !.pc = "parse", !.path = k]
             q == [cl[c] EXCEPT !.pc = "list", !.snap = S]
  <2>0. Goes(c, r) \/ Goes(c, q)
    BY <1>2 DEF ExactData
  <2>1. S \in SUBSET Keys
    OBVIOUS
  <2>2. k \in Keys /\ Serves(k, cl[c]) /\ cl[c].pc = "exists"
    BY <1>2, OwnKeyServes DEF ExactData
  <2> HIDE DEF k, S
  <2>3. r \in ClientState /\ q \in ClientState
    BY <1>0, <2>1, <2>2 DEF ClientState
  <2>4. cl'[c] = r => ClientOK(c)'
    BY <1>0, <2>2 DEF ClientOK, ClientState, Serves
  <2>5. cl'[c] = q => ClientOK(c)'
    BY <1>0, <2>2 DEF ClientOK, ClientState, Serves
  <2> HIDE DEF r, q
  <2> QED
    BY <2>0, <2>3, <2>4, <2>5, GoesKeeps
<1>3. CASE ListReads(c)
  <2> DEFINE k == cl[c].path
             F == IF Covers(k, c) THEN cl[c].found \cup {k} ELSE cl[c].found
             r == [cl[c] EXCEPT !.pc = "list", !.found = F]
  <2>1. Goes(c, r) /\ cl[c].pc = "read" /\ k \in Keys
    BY <1>0, <1>3 DEF ListReads, ClientOK
  <2>2. F \in SUBSET Keys /\ \A x \in F : Serves(x, cl[c])
    BY <1>0, <2>1, CoversServes DEF ClientState, ClientOK
  <2> HIDE DEF F
  <2>3. r \in ClientState
    BY <1>0, <2>2 DEF ClientState
  <2>4. cl'[c] = r => ClientOK(c)'
    BY <1>0, <2>1, <2>2 DEF ClientOK, ClientState, Serves
  <2> HIDE DEF r
  <2> QED
    BY <2>1, <2>3, <2>4, GoesKeeps
<1>4. CASE ListEnds(c)
  <2> DEFINE r == [cl[c] EXCEPT !.pc = "pick", !.path = NoKey, !.snap = {}, !.seen = {}]
  <2>1. Goes(c, r) /\ cl[c].pc = "list"
    BY <1>4 DEF ListEnds
  <2>2. r \in ClientState
    BY <1>0 DEF ClientState
  <2>3. cl'[c] = r => ClientOK(c)'
    BY <1>0, <2>1 DEF ClientOK, ClientState, Serves
  <2> HIDE DEF r
  <2> QED
    BY <2>1, <2>2, <2>3, GoesKeeps
<1>5. CASE NoneFound(c)
  <2> DEFINE r == [cl[c] EXCEPT !.pc = "net"]
  <2>1. Goes(c, r) /\ cl[c].pc = "pick"
    BY <1>5 DEF NoneFound
  <2>2. r \in ClientState
    BY <1>0 DEF ClientState
  <2>3. cl'[c] = r => ClientOK(c)'
    BY <1>0, <2>1 DEF ClientOK, ClientState, Serves
  <2> HIDE DEF r
  <2> QED
    BY <2>1, <2>2, <2>3, GoesKeeps
<1>6. CASE ParsePath(c)
  <2> DEFINE b == data[cl[c].path]
             o == IF b = Absent THEN Absent ELSE Parsed(b.ver)
             r == [cl[c] EXCEPT !.pc = "done", !.out = o]
  <2>1. Goes(c, r) /\ cl[c].pc = "parse" /\ cl[c].path \in Keys /\ Serves(cl[c].path, cl[c])
    BY <1>0, <1>6 DEF ParsePath, ClientOK
  <2>2. o # Absent => b # Absent /\ o = b.ver
    BY DEF Parsed
  <2>3. o # Absent => o \in Versions /\ Answered(o, cl[c])
    BY <2>1, <2>2, VersionsTyped, ServesAnswers DEF FetchInv, FilesFiled
  <2> HIDE DEF o
  <2>4. r \in ClientState
    BY <1>0, <2>3 DEF ClientState
  <2>5. UNCHANGED asked
    BY <2>1 DEF Goes
  <2>6. cl'[c] = r => ClientOK(c)'
    BY <1>0, <2>1, <2>3, <2>5 DEF ClientOK, ClientState, Serves, Answered
  <2> HIDE DEF r
  <2> QED
    BY <2>1, <2>4, <2>6, GoesKeeps
<1>7. CASE Finish(c)
  <2>1. Goes(c, Idle) /\ Idle \in ClientState
    BY <1>7, CacheAssumption DEF Finish, Idle, ClientState, Versions
  <2>2. cl'[c] = Idle => ClientOK(c)'
    BY DEF Idle, ClientOK
  <2> QED
    BY <2>1, <2>2, GoesKeeps
<1>8. ASSUME NEW k \in Keys, ListMeets(c, k)
      PROVE  FetchInv'
  <2> DEFINE S == cl[c].seen \cup {k}
             p == IF data[k] = Absent THEN "list" ELSE "read"
             r == [cl[c] EXCEPT !.seen = S, !.path = k, !.pc = p]
  <2>1. Goes(c, r) /\ cl[c].pc = "list"
    BY <1>8 DEF ListMeets
  <2>2. p \in {"list", "read"} /\ S \in SUBSET Keys
    BY <1>0 DEF ClientState
  <2> HIDE DEF p, S
  <2>3. r \in ClientState
    BY <1>0, <2>2 DEF ClientState
  <2>4. cl'[c] = r => ClientOK(c)'
    BY <1>0, <2>1, <2>2 DEF ClientOK, ClientState, Serves
  <2> HIDE DEF r
  <2> QED
    BY <2>1, <2>3, <2>4, GoesKeeps
<1>9. ASSUME NEW k \in Keys, Pick(c, k)
      PROVE  FetchInv'
  <2> DEFINE F == cl[c].found \ {k}
             r == [cl[c] EXCEPT !.pc = "parse", !.path = k, !.found = {}]
             q == [cl[c] EXCEPT !.found = F]
  <2>1. (Goes(c, r) \/ Goes(c, q)) /\ cl[c].pc = "pick" /\ k \in cl[c].found
    BY <1>9 DEF Pick
  <2>2. Serves(k, cl[c]) /\ F \in SUBSET Keys /\ \A x \in F : Serves(x, cl[c])
    BY <1>0, <2>1 DEF ClientOK, ClientState
  <2> HIDE DEF F
  <2>3. r \in ClientState /\ q \in ClientState
    BY <1>0, <2>2 DEF ClientState
  <2>4. cl'[c] = r => ClientOK(c)'
    BY <1>0, <2>1, <2>2 DEF ClientOK, ClientState, Serves
  <2>5. cl'[c] = q => ClientOK(c)'
    BY <1>0, <2>1, <2>2 DEF ClientOK, ClientState, Serves
  <2> HIDE DEF r, q
  <2> QED
    BY <2>1, <2>3, <2>4, <2>5, GoesKeeps
<1> QED
  BY <1>1, <1>2, <1>3, <1>4, <1>5, <1>6, <1>7, <1>8, <1>9

(***************************************************************************)
(* The steps that begin a request, ask the server and write the answer.    *)
(***************************************************************************)

LEMMA IdleTyped == Idle \in ClientState
BY CacheAssumption DEF Idle, ClientState, Versions

\* A step that leaves the cache and the requests as they are.
LEMMA CacheUntouched ==
  ASSUME FetchInv, UNCHANGED <<vars, asked>>
  PROVE  Typed' /\ FilesFiled' /\ Remembers /\ (\A d \in Writers : wr'[d] = wr[d])
<1>1. Typed'
  BY StepTyped DEF FetchInv
<1>2. FilesFiled'
  BY DEF vars, FetchInv, FilesFiled, FiledByKey
<1> QED
  BY <1>1, <1>2 DEF vars, Remembers, FetchInv, ClientTypes

LEMMA BeginKeeps ==
  ASSUME FetchInv, NEW c \in Writers, NEW wish \in Wishes, NEW force \in BOOLEAN,
         Begin(c, wish, force)
  PROVE  FetchInv'
<1> DEFINE p == IF force THEN "net" ELSE "exact"
           r == [Idle EXCEPT !.pc = p, !.box = wish.box, !.url = wish.url, !.force = force]
<1>1. /\ wish.box \in Boxes /\ wish.url \in Urls
      /\ [box |-> wish.box, url |-> wish.url] = wish
  <2>1. wish \in [box : [lo : Int, hi : Int], url : Urls]
    BY FetchAssumption
  <2> QED
    BY <2>1 DEF Boxes
<1>2. r \in ClientState
  BY <1>1, IdleTyped DEF ClientState
<1>3. /\ r.pc \in {"net", "exact"} /\ r.found = {}
      /\ r.box = wish.box /\ r.url = wish.url
  BY DEF Idle
<1>4. cl' = [cl EXCEPT ![c] = r] /\ UNCHANGED <<vars, asked>> /\ calm' = calm \cup {c}
  BY DEF Begin
<1> HIDE DEF r
<1>5. cl' \in [Writers -> ClientState] /\ cl'[c] = r
  BY <1>2, <1>4 DEF FetchInv, ClientTypes
<1>6. ClientOK(c)'
  BY <1>1, <1>3, <1>5 DEF ClientOK
<1>7. ASSUME NEW d \in Writers, d # c PROVE ClientOK(d)'
  <2>1. cl'[d] = cl[d]
    BY <1>4, <1>7 DEF FetchInv, ClientTypes
  <2> QED
    BY <1>4, <2>1, CacheUntouched, StillOK
<1> QED
  BY <1>4, <1>5, <1>6, <1>7, CacheUntouched DEF FetchInv, ClientTypes

LEMMA RequestFailsKeeps ==
  ASSUME FetchInv, NEW c \in Writers, RequestFails(c)
  PROVE  FetchInv'
<1>0. cl[c] \in ClientState /\ ClientOK(c) /\ cl[c].pc = "net"
  BY DEF FetchInv, ClientTypes, RequestFails
<1> DEFINE r == [cl[c] EXCEPT !.pc = "done", !.out = Absent]
<1>1. r \in ClientState
  BY <1>0 DEF ClientState
<1>2. cl' = [cl EXCEPT ![c] = r]
  BY DEF RequestFails, Fail, FetchInv, ClientTypes
<1>3. cl' \in [Writers -> ClientState] /\ cl'[c] = r
  BY <1>1, <1>2 DEF FetchInv, ClientTypes
<1>4. \A d \in Writers : d # c => cl'[d] = cl[d]
  BY <1>2 DEF FetchInv, ClientTypes
<1>5. ClientOK(c)'
  BY <1>0, <1>3 DEF ClientOK, ClientState, Serves
<1> QED
  BY <1>3, <1>4, <1>5, CacheUntouched, ClientStepKeeps DEF RequestFails

LEMMA FetchBodyRemembers ==
  ASSUME FetchInv, NEW c \in Writers, NEW len \in Lengths, NEW good \in BOOLEAN,
         FetchBody(c, len, good)
  PROVE  Remembers
<1> DEFINE a == [box |-> cl[c].box, src |-> Canon[cl[c].url], good |-> good]
<1>1. /\ BeginStream(c, KeyOf(cl[c].box, cl[c].url), len)
      /\ asked' = [asked EXCEPT ![version + 1] = a]
      /\ [box |-> cl[c].box, url |-> cl[c].url] \in Wishes
  BY DEF FetchBody, FetchInv, ClientOK
<1>2. a \in Requests
  BY <1>1, WishTyped DEF Requests
<1>3. version + 1 \in Versions /\ version + 1 > version
  BY <1>1, CacheAssumption DEF BeginStream, Versions, FetchInv, Typed, TypeOK
<1>4. asked[version + 1] = Absent
  BY <1>3 DEF FetchInv, FilesFiled
<1> HIDE DEF a
<1> QED
  BY <1>1, <1>2, <1>4 DEF Remembers, FetchInv, ClientTypes

LEMMA FetchBodyKeeps ==
  ASSUME FetchInv, NEW c \in Writers, NEW len \in Lengths, NEW good \in BOOLEAN,
         FetchBody(c, len, good)
  PROVE  FetchInv'
<1> DEFINE box == cl[c].box
           url == cl[c].url
           a   == [box |-> box, src |-> Canon[url], good |-> good]
           r   == [cl[c] EXCEPT !.pc = "write"]
<1>0. /\ cl[c] \in ClientState /\ ClientOK(c) /\ cl[c].pc = "net"
      /\ [box |-> box, url |-> url] \in Wishes
  BY DEF FetchInv, ClientTypes, ClientOK, FetchBody
<1>1. /\ BeginStream(c, KeyOf(box, url), len) /\ KeyOf(box, url) \in Keys
      /\ asked' = [asked EXCEPT ![version + 1] = a]
      /\ cl' = [cl EXCEPT ![c] = r] /\ Calms
  BY <1>0, WishTyped DEF FetchBody, FetchInv, ClientTypes
<1>4. Remembers
  BY FetchBodyRemembers
<1>5. Typed'
  BY <1>1, WriterTyped DEF FetchInv
<1>6. FilesFiled'
  BY <1>0, <1>1, <1>4, FetchingKeepsFiled DEF FetchInv, ClientTypes
<1>7. r \in ClientState
  BY <1>0 DEF ClientState
<1>8. cl' \in [Writers -> ClientState] /\ cl'[c] = r
  BY <1>1, <1>7 DEF FetchInv, ClientTypes
<1>9. \A d \in Writers : d # c => cl'[d] = cl[d] /\ wr'[d] = wr[d]
  BY <1>1 DEF FetchInv, ClientTypes, BeginStream, Typed, TypeOK
<1>10. wr'[c].pc # "idle" /\ wr'[c].op = "commit" /\ wr'[c].key = KeyOf(box, url)
  BY <1>1 DEF BeginStream, FetchInv, Typed, TypeOK
<1>11. ClientOK(c)'
  BY <1>0, <1>8, <1>10 DEF ClientOK, ClientState, Serves, KeyOf
<1> QED
  BY <1>1, <1>4, <1>5, <1>6, <1>8, <1>9, <1>11, ClientStepKeeps

\* The file operations of a client, whatever becomes of the client itself.
LEMMA WriteKeeps ==
  ASSUME FetchInv, NEW c \in Writers, WriterStep(c) \/ WriterCrashes(c),
         UNCHANGED asked, Calms, NEW r \in ClientState, cl' = [cl EXCEPT ![c] = r],
         cl'[c] = r => ClientOK(c)'
  PROVE  FetchInv'
<1>1. Renames(c)
  BY WriterRenames DEF FetchInv
<1>2. Remembers
  BY DEF Remembers, FetchInv, ClientTypes
<1>3. \A v \in Versions : v > version => asked'[v] = Absent
  BY DEF FetchInv, FilesFiled
<1>4. FilesFiled'
  BY <1>1, <1>2, <1>3, RenamingKeepsFiled DEF FetchInv
<1>5. Typed'
  BY WriterTyped DEF FetchInv
<1>6. cl' \in [Writers -> ClientState] /\ cl'[c] = r
  BY DEF FetchInv, ClientTypes
<1>7. \A d \in Writers : d # c => cl'[d] = cl[d] /\ wr'[d] = wr[d]
  BY <1>1 DEF FetchInv, ClientTypes, Renames
<1> QED
  BY <1>2, <1>4, <1>5, <1>6, <1>7, ClientStepKeeps

LEMMA WritingKeeps ==
  ASSUME FetchInv, NEW c \in Writers,
         WriteGoesOn(c) \/ Rejected(c) \/ WriteFails(c) \/ Committed(c) \/ ParseTemp(c)
  PROVE  FetchInv'
<1>0. /\ cl[c] \in ClientState /\ ClientOK(c) /\ cl \in [Writers -> ClientState]
      /\ wr \in [Writers -> WriterState]
  BY DEF FetchInv, ClientTypes, Typed, TypeOK
<1>1. CASE WriteGoesOn(c) \/ Rejected(c)
  <2>1. /\ Copy(c) \/ FinishCopy(c) \/ PersistMeta(c) \/ CommitFails(c) \/ RejectOversized(c)
        /\ cl[c].pc = "write" /\ Calms /\ UNCHANGED <<cl, asked>>
    BY <1>1 DEF WriteGoesOn, Rejected
  <2>2. wr'[c].pc # "idle" /\ wr'[c].op = "commit" /\ wr'[c].key = wr[c].key
    <3>0. wr[c].op = "commit"
      BY <1>0, <2>1 DEF ClientOK
    <3>1. CASE Copy(c)
      BY <1>0, <3>0, <3>1 DEF Copy, WriterState
    <3>2. CASE FinishCopy(c)
      BY <1>0, <3>0, <3>2 DEF FinishCopy, WriterState
    <3>3. CASE PersistMeta(c)
      BY <1>0, <3>0, <3>3 DEF PersistMeta, WriterState
    <3>4. CASE RejectOversized(c)
      BY <1>0, <3>0, <3>4 DEF RejectOversized, WriterState
    <3>5. CASE CommitFails(c)
      BY <1>0, <3>0, <3>5 DEF CommitFails, WriterState
    <3> QED
      BY <2>1, <3>1, <3>2, <3>3, <3>4, <3>5
  <2>3. ClientOK(c)'
    BY <1>0, <2>1, <2>2 DEF ClientOK, Serves
  <2>4. cl' = [cl EXCEPT ![c] = cl[c]]
    BY <1>0, <2>1
  <2>5. WriterStep(c)
    BY <2>1 DEF WriterStep
  <2> QED
    BY <1>0, <2>1, <2>3, <2>4, <2>5, WriteKeeps
<1>2. CASE WriteFails(c)
  <2> DEFINE r == [cl[c] EXCEPT !.pc = "done", !.out = Absent]
  <2>1. WriterStep(c) /\ UNCHANGED asked /\ Calms
    BY <1>2 DEF WriteFails, WriterStep
  <2>2. r \in ClientState
    BY <1>0 DEF ClientState
  <2>3. cl' = [cl EXCEPT ![c] = r] /\ cl[c].pc = "write"
    BY <1>0, <1>2 DEF WriteFails, Fail
  <2>4. cl'[c] = r => ClientOK(c)'
    BY <1>0, <2>3 DEF ClientOK, ClientState, Serves
  <2> HIDE DEF r
  <2> QED
    BY <2>1, <2>2, <2>3, <2>4, WriteKeeps
<1>3. CASE Committed(c)
  <2> DEFINE k == wr[c].key
             v == wr[c].ver
             r == [cl[c] EXCEPT !.pc = "parse", !.path = k]
  <2>1. WriterStep(c) /\ UNCHANGED asked /\ Calms /\ cl[c].pc = "write"
    BY <1>3 DEF Committed, WriterStep
  <2>2. v \in Versions /\ k \in Keys /\ Serves(k, cl[c])
    BY <1>0, <2>1, VersionsTyped, OwnKeyServes DEF ClientOK, FetchInv
  <2> HIDE DEF k, v
  <2>3. r \in ClientState
    BY <1>0, <2>2 DEF ClientState
  <2>4. cl' = [cl EXCEPT ![c] = r]
    BY <1>0, <1>3 DEF Committed, k, v
  <2>5. cl'[c] = r => ClientOK(c)'
    BY <1>0, <2>1, <2>2 DEF ClientOK, ClientState, Serves
  <2> HIDE DEF r
  <2> QED
    BY <2>1, <2>3, <2>4, <2>5, WriteKeeps
<1>4. CASE ParseTemp(c)
  <2> DEFINE v == wr[c].ver
             o == Parsed(v)
             r == [cl[c] EXCEPT !.pc = "done", !.out = o]
  <2>1. WriterStep(c) /\ UNCHANGED asked /\ Calms /\ cl[c].pc = "write"
    BY <1>4 DEF ParseTemp, WriterStep
  <2>2. v \in Versions /\ FiledByKey(v, wr[c].key) /\ Serves(wr[c].key, cl[c])
    BY <1>0, <2>1, VersionsTyped, OwnKeyServes DEF ClientOK, FetchInv, FilesFiled
  <2>3. o \in Versions \cup {Absent} /\ (o # Absent => Answered(o, cl[c]))
    BY <2>2, ServesAnswers DEF Parsed
  <2>4. cl' = [cl EXCEPT ![c] = r]
    BY <1>0, <1>4 DEF ParseTemp
  <2> HIDE DEF o, v
  <2>5. r \in ClientState
    BY <1>0, <2>2, <2>3 DEF ClientState
  <2>6. cl'[c] = r => ClientOK(c)'
    BY <1>0, <2>1, <2>3 DEF ClientOK, ClientState, Serves, Answered
  <2> HIDE DEF r
  <2> QED
    BY <2>1, <2>4, <2>5, <2>6, WriteKeeps
<1> QED
  BY <1>1, <1>2, <1>3, <1>4

LEMMA DiesKeeps ==
  ASSUME FetchInv, NEW c \in Writers, Dies(c)
  PROVE  FetchInv'
<1>1. cl' = [cl EXCEPT ![c] = Idle] /\ Calms /\ UNCHANGED asked
  BY DEF Dies
<1>2. cl'[c] = Idle => ClientOK(c)'
  BY DEF Idle, ClientOK
<1>3. CASE WriterCrashes(c)
  BY <1>1, <1>2, <1>3, IdleTyped, WriteKeeps
<1>4. CASE UNCHANGED vars
  <2>1. cl' \in [Writers -> ClientState] /\ cl'[c] = Idle
    BY <1>1, IdleTyped DEF FetchInv, ClientTypes
  <2>2. \A d \in Writers : d # c => cl'[d] = cl[d]
    BY <1>1 DEF FetchInv, ClientTypes
  <2> QED
    BY <1>1, <1>2, <1>4, <2>1, <2>2, CacheUntouched, ClientStepKeeps
<1> QED
  BY <1>3, <1>4 DEF Dies

LEMMA OthersKeep ==
  ASSUME FetchInv, (\E s \in Sweepers : Sweeping(s)) \/ TimePasses \/ UNCHANGED all
  PROVE  FetchInv'
<1>1. ASSUME Typed', FilesFiled', UNCHANGED <<cl, asked, wr>>, calm' \subseteq Writers
      PROVE  FetchInv'
  <2>1. Remembers
    BY <1>1 DEF Remembers, FetchInv, ClientTypes
  <2>2. \A d \in Writers : ClientOK(d)'
    BY <1>1, <2>1, StillOK
  <2> QED
    BY <1>1, <2>2 DEF FetchInv, ClientTypes
<1>2. ASSUME NEW s \in Sweepers, Sweeping(s)
      PROVE  FetchInv'
  <2>1. Unlinkings /\ UNCHANGED <<cl, asked>> /\ Calms
    BY <1>2, SweepUnlinks DEF Sweeping, FetchInv
  <2>2. FilesFiled'
    BY <2>1, UnlinkingKeepsFiled DEF FetchInv
  <2>3. Typed'
    BY <1>2, SweeperTyped DEF Sweeping, FetchInv
  <2> QED
    BY <1>1, <2>1, <2>2, <2>3 DEF Unlinkings, Calms, FetchInv, ClientTypes
<1>3. CASE TimePasses
  <2>1. Typed'
    BY <1>3, StepTyped DEF TimePasses, Next, FetchInv
  <2>2. UNCHANGED <<meta, data, version, wr, cl, asked, calm>>
    BY <1>3 DEF TimePasses, Tick, fetch
  <2>3. FilesFiled'
    BY <2>2 DEF FetchInv, FilesFiled, FiledByKey
  <2> QED
    BY <1>1, <2>1, <2>2, <2>3 DEF FetchInv, ClientTypes
<1>4. CASE UNCHANGED all
  <2>1. UNCHANGED <<vars, asked>> /\ cl' = cl /\ calm' = calm /\ wr' = wr
    BY <1>4 DEF all, vars
  <2> QED
    BY <1>1, <2>1, CacheUntouched DEF FetchInv, ClientTypes
<1> QED
  BY <1>2, <1>3, <1>4

(***************************************************************************)
(* The invariant and the theorems.                                         *)
(***************************************************************************)

LEMMA InitFetches == FetchInit => FetchInv
<1> SUFFICES ASSUME FetchInit PROVE FetchInv
  OBVIOUS
<1>1. Typed
  BY StartsTyped DEF FetchInit
<1>2. \A k \in Keys : meta[k] = Absent /\ data[k] = Absent
  BY FetchAssumption DEF FetchInit, Init
<1>3. FilesFiled
  BY <1>2, CacheAssumption DEF FetchInit, Init, FilesFiled, IdleWriter
<1>4. ClientTypes
  BY IdleTyped DEF FetchInit, ClientTypes
<1>5. \A c \in Writers : ClientOK(c)
  BY DEF FetchInit, ClientOK, Idle
<1> QED
  BY <1>1, <1>3, <1>4, <1>5 DEF FetchInv

LEMMA FetchKeeps == FetchInv /\ [FetchNext]_all => FetchInv'
<1> SUFFICES ASSUME FetchInv, [FetchNext]_all PROVE FetchInv'
  OBVIOUS
<1>1. ASSUME NEW c \in Writers, FetchStep(c)
      PROVE  FetchInv'
  BY <1>1, LookupKeeps, RequestFailsKeeps, FetchBodyKeeps, WritingKeeps DEF FetchStep
<1> QED
  BY <1>1, BeginKeeps, DiesKeeps, OthersKeep DEF FetchNext

LEMMA FetchesInvariant == FetchSpec => []FetchInv
  BY InitFetches, FetchKeeps, PTL DEF FetchSpec

(* Every client's locals, and what is known of each version, keep their     *)
(* types for any sets of clients, requests and endpoints.                   *)

THEOREM FetchTypeCorrect == FetchSpec => []FetchTypeOK
<1>1. FetchInv => FetchTypeOK
  BY DEF FetchInv, Typed, ClientTypes, FetchTypeOK
<1> QED
  BY <1>1, FetchesInvariant, PTL

(* Whatever other clients write, fail, crash or sweep, a fetch never answers*)
(* with another endpoint's data or with a smaller area, beyond the grain.   *)

THEOREM AnswersCover == FetchSpec => []AnswerCovers
<1>1. FetchInv => AnswerCovers
  BY DEF FetchInv, ClientOK, Answered, AnswerCovers
<1> QED
  BY <1>1, FetchesInvariant, PTL

(* While nobody sweeps, the path a fetch chose holds a file when it is      *)
(* opened, although commits to it go on.                                    *)

THEOREM PathsHoldFiles ==
  ASSUME Sweepers = {}
  PROVE  FetchSpec => []PathHoldsAFile
<1>1. FetchInit => PathHoldsAFile
  BY DEF FetchInit, Idle, PathHoldsAFile
<1>2. FetchInv /\ PathHoldsAFile /\ [FetchNext]_all => PathHoldsAFile'
  <2> SUFFICES ASSUME FetchInv, PathHoldsAFile, [FetchNext]_all
               PROVE  PathHoldsAFile'
    OBVIOUS
  <2>0. /\ data \in [Keys -> Body \cup {Absent}] /\ wr \in [Writers -> WriterState]
        /\ cl \in [Writers -> ClientState]
        /\ \A c \in Writers : /\ cl[c].pc = "parse" => cl[c].path \in Keys
                              /\ wr[c].pc # "idle" => wr[c].key \in Keys
    BY DEF FetchInv, Typed, TypeOK, ClientTypes, WriterHasKey, ClientOK
  <2>1. ASSUME NEW c \in Writers, cl'[c].pc # "parse",
               \A d \in Writers : d # c => cl'[d] = cl[d], data' = data
        PROVE  PathHoldsAFile'
    BY <2>1 DEF PathHoldsAFile
  <2>2. ASSUME NEW c \in Writers, PersistData(c)
        PROVE  /\ \A k \in Keys : data[k] # Absent => data'[k] # Absent
               /\ data'[wr[c].key] # Absent
    <3>1. data'[wr[c].key] = [ver |-> wr[c].ver, at |-> wr[c].at,
                              got |-> wr[c].got, len |-> wr[c].len]
          /\ \A k \in Keys : k # wr[c].key => data'[k] = data[k]
      BY <2>0, <2>2 DEF PersistData
    <3>2. [ver |-> wr[c].ver, at |-> wr[c].at, got |-> wr[c].got, len |-> wr[c].len] \in Body
      BY <2>0, WriterFields DEF Body
    <3> QED
      BY <3>1, <3>2, CacheAssumption
  <2>3. ASSUME NEW c \in Writers, Committed(c)
        PROVE  PathHoldsAFile'
    <3>1. /\ \A k \in Keys : data[k] # Absent => data'[k] # Absent
          /\ data'[wr[c].key] # Absent
      BY <2>2, <2>3 DEF Committed
    <3>2. cl'[c].path = wr[c].key /\ \A d \in Writers : d # c => cl'[d] = cl[d]
      BY <2>0, <2>3 DEF Committed, ClientState
    <3> QED
      BY <2>0, <3>1, <3>2 DEF PathHoldsAFile
  <2>4. ASSUME NEW c \in Writers, ExactData(c)
        PROVE  PathHoldsAFile'
    <3> DEFINE k == KeyOf(cl[c].box, cl[c].url)
    <3>1. \A d \in Writers : d # c => cl'[d] = cl[d]
      BY <2>0, <2>4 DEF ExactData, Goes
    <3>2. data' = data
      BY <2>4 DEF ExactData, Goes, vars
    <3>3. CASE data[k] # Absent /\ Goes(c, [cl[c] EXCEPT !.pc = "parse", !.path = k])
      <4>1. cl'[c].path = k
        BY <2>0, <3>3 DEF Goes, ClientState
      <4> QED
        BY <3>1, <3>2, <3>3, <4>1 DEF PathHoldsAFile
    <3>4. CASE Goes(c, [cl[c] EXCEPT !.pc = "list", !.snap = {x \in Keys : meta[x] # Absent}])
      <4>1. cl'[c].pc = "list"
        BY <2>0, <3>4 DEF Goes, ClientState
      <4> QED
        BY <2>1, <3>1, <3>2, <4>1
    <3> QED
      BY <2>4, <3>3, <3>4 DEF ExactData
  <2>5. ASSUME NEW c \in Writers, NEW k \in Keys, Pick(c, k)
        PROVE  PathHoldsAFile'
    <3>1. \A d \in Writers : d # c => cl'[d] = cl[d]
      BY <2>0, <2>5 DEF Pick, Goes
    <3>2. data' = data
      BY <2>5 DEF Pick, Goes, vars
    <3>3. CASE data[k] # Absent /\ Goes(c, [cl[c] EXCEPT !.pc = "parse", !.path = k, !.found = {}])
      <4>1. cl'[c].path = k
        BY <2>0, <3>3 DEF Goes, ClientState
      <4> QED
        BY <3>1, <3>2, <3>3, <4>1 DEF PathHoldsAFile
    <3>4. CASE Goes(c, [cl[c] EXCEPT !.found = cl[c].found \ {k}])
      <4>1. cl'[c].pc = "pick"
        BY <2>0, <2>5, <3>4 DEF Goes, ClientState, Pick
      <4> QED
        BY <2>1, <3>1, <3>2, <4>1
    <3> QED
      BY <2>5, <3>3, <3>4 DEF Pick
  <2>6. ASSUME NEW c \in Writers,
               \/ ExactMeta(c) \/ ListReads(c) \/ ListEnds(c) \/ NoneFound(c)
               \/ ParsePath(c) \/ Finish(c) \/ \E k \in Keys : ListMeets(c, k)
        PROVE  PathHoldsAFile'
    <3>1. \A d \in Writers : d # c => cl'[d] = cl[d]
      BY <2>0, <2>6 DEF ExactMeta, ListReads, ListEnds, NoneFound, ParsePath, Finish,
         ListMeets, Goes
    <3>2. data' = data
      BY <2>6 DEF ExactMeta, ListReads, ListEnds, NoneFound, ParsePath, Finish,
         ListMeets, Goes, vars
    <3>3. cl'[c].pc # "parse"
      <4>1. CASE ExactMeta(c)
        BY <2>0, <4>1 DEF ExactMeta, Goes, ClientState
      <4>2. CASE ListReads(c) \/ ListEnds(c)
        BY <2>0, <4>2 DEF ListReads, ListEnds, Goes, ClientState
      <4>3. CASE NoneFound(c)
        BY <2>0, <4>3 DEF NoneFound, Goes, ClientState
      <4>6. CASE ParsePath(c)
        BY <2>0, <4>6 DEF ParsePath, Goes, ClientState
      <4>4. CASE Finish(c)
        BY <2>0, <4>4 DEF Finish, Goes, Idle
      <4>5. CASE \E k \in Keys : ListMeets(c, k)
        BY <2>0, <4>5 DEF ListMeets, Goes, ClientState
      <4> QED
        BY <2>6, <4>1, <4>2, <4>3, <4>4, <4>5, <4>6
    <3> QED
      BY <2>1, <3>1, <3>2, <3>3
  <2>7. ASSUME NEW c \in Writers,
               \/ \E wish \in Wishes, force \in BOOLEAN : Begin(c, wish, force)
               \/ RequestFails(c)
               \/ \E len \in Lengths, good \in BOOLEAN : FetchBody(c, len, good)
               \/ WriteGoesOn(c) \/ Rejected(c) \/ WriteFails(c) \/ ParseTemp(c) \/ Dies(c)
        PROVE  PathHoldsAFile'
    <3>1. CASE \E wish \in Wishes, force \in BOOLEAN : Begin(c, wish, force)
      <4>1. PICK wish \in Wishes, force \in BOOLEAN : Begin(c, wish, force)
        BY <3>1
      <4> DEFINE p == IF force THEN "net" ELSE "exact"
                 r == [Idle EXCEPT !.pc = p, !.box = wish.box, !.url = wish.url, !.force = force]
      <4>2. r.pc # "parse"
        BY DEF Idle
      <4>3. cl' = [cl EXCEPT ![c] = r] /\ data' = data
        BY <4>1 DEF Begin, vars
      <4> HIDE DEF r
      <4> QED
        BY <2>0, <2>1, <4>2, <4>3
    <3>2. CASE RequestFails(c)
      BY <2>0, <2>1, <3>2 DEF RequestFails, Fail, ClientState, vars
    <3>3. CASE \E len \in Lengths, good \in BOOLEAN : FetchBody(c, len, good)
      BY <2>0, <2>1, <3>3 DEF FetchBody, BeginStream, ClientState
    <3>4. CASE WriteGoesOn(c) \/ Rejected(c)
      BY <2>0, <2>1, <3>4 DEF WriteGoesOn, Rejected, Copy, FinishCopy, PersistMeta,
         CommitFails, RejectOversized
    <3>5. CASE WriteFails(c)
      BY <2>0, <2>1, <3>5 DEF WriteFails, Fail, CopyFails, DropTemp, ClientState
    <3>6. CASE ParseTemp(c)
      BY <2>0, <2>1, <3>6 DEF ParseTemp, DropTemp, ClientState
    <3>7. CASE Dies(c)
      BY <2>0, <2>1, <3>7 DEF Dies, WriterCrashes, vars, Idle
    <3> QED
      BY <2>7, <3>1, <3>2, <3>3, <3>4, <3>5, <3>6, <3>7
  <2>8. CASE TimePasses \/ UNCHANGED all
    <3>1. UNCHANGED <<cl, data>>
      BY <2>8 DEF TimePasses, Tick, fetch, all, vars
    <3> QED
      BY <3>1 DEF PathHoldsAFile
  <2> QED
    BY <2>3, <2>4, <2>5, <2>6, <2>7, <2>8 DEF FetchNext, FetchStep
<1> QED
  BY <1>1, <1>2, FetchesInvariant, PTL DEF FetchSpec

(***************************************************************************)
(* A client that may use the cache looks at all of it first.               *)
(***************************************************************************)

LEMMA StepRemembers ==
  ASSUME FetchInv, [FetchNext]_all
  PROVE  Remembers
<1>1. CASE asked' = asked
  BY <1>1 DEF Remembers, FetchInv, ClientTypes
<1>2. ASSUME NEW c \in Writers, NEW len \in Lengths, NEW good \in BOOLEAN,
             FetchBody(c, len, good)
      PROVE  Remembers
  BY <1>2, FetchBodyRemembers
<1>3. ASSUME NEW c \in Writers, FetchStep(c),
             ~\E len \in Lengths, good \in BOOLEAN : FetchBody(c, len, good)
      PROVE  asked' = asked
  BY <1>3 DEF FetchStep, ExactMeta, ExactData, ListReads, ListEnds, NoneFound, ListMeets, Pick,
     RequestFails, WriteGoesOn, Rejected, WriteFails, Committed, ParseTemp, ParsePath, Finish, Goes
<1>4. CASE \E c \in Writers :
             Dies(c) \/ \E wish \in Wishes, force \in BOOLEAN : Begin(c, wish, force)
  BY <1>1, <1>4 DEF Dies, Begin
<1>5. CASE (\E s \in Sweepers : Sweeping(s)) \/ TimePasses \/ UNCHANGED all
  BY <1>1, <1>5 DEF Sweeping, TimePasses, fetch, all
<1> QED
  BY <1>1, <1>2, <1>3, <1>4, <1>5 DEF FetchNext, FetchStep

\* What a listing knows holds as long as the files stay as they are.
LEMMA ListingStays ==
  ASSUME FetchInv, Remembers, UNCHANGED <<meta, data>>, NEW r, Listing(r)
  PROVE  Listing(r)'
<1>1. ASSUME NEW k \in Keys, meta[k] \in Meta
      PROVE  asked'[meta[k].ver] = asked[meta[k].ver]
  BY <1>1, VersionsTyped DEF FetchInv, FilesFiled, FiledByKey, Remembers
<1>2. \A k \in Keys : Usable(k, r)' <=> Usable(k, r)
  BY <1>1 DEF Usable, FromSource
<1> QED
  BY <1>2 DEF Listing

\* It is enough to look at the client that took the step.
LEMMA ListingsKeep ==
  ASSUME FetchInv, CalmListings, Remembers, NEW c \in Writers,
         \A d \in Writers : d # c => cl'[d] = cl[d],
         calm' \subseteq calm \cup {c},
         calm' # {} => UNCHANGED <<meta, data>>,
         c \in calm' /\ ~cl'[c].force => Listing(cl[c])'
  PROVE  CalmListings'
<1>1. calm \subseteq Writers
  BY DEF FetchInv, ClientTypes
<1>2. ASSUME NEW d \in calm', d # c, ~cl'[d].force
      PROVE  Listing(cl[d])'
  <2>1. d \in calm /\ cl'[d] = cl[d] /\ UNCHANGED <<meta, data>>
    BY <1>1, <1>2
  <2>2. Listing(cl[d])
    BY <1>2, <2>1 DEF CalmListings
  <2>3. \A r : Listing(r) => Listing(r)'
    BY <2>1, ListingStays
  <2> QED
    BY <2>1, <2>2, <2>3 DEF Listing, Usable, FromSource
<1> QED
  BY <1>2 DEF CalmListings

LEMMA GoesLists ==
  ASSUME FetchInv, CalmListings, NEW c \in Writers, NEW r \in ClientState, Goes(c, r),
         c \in calm /\ ~r.force => Listing(r)
  PROVE  CalmListings'
<1>1. /\ cl'[c] = r /\ \A d \in Writers : d # c => cl'[d] = cl[d]
      /\ UNCHANGED <<meta, data, asked>>
  BY DEF Goes, vars, FetchInv, ClientTypes
<1>2. Remembers
  BY <1>1 DEF Remembers, FetchInv, ClientTypes
<1>3. calm' = calm
  BY <1>1 DEF Goes, Calms
<1>4. Listing(r) => Listing(r)'
  BY <1>1, <1>2, ListingStays
<1>5. c \in calm' /\ ~cl'[c].force => Listing(cl[c])'
  BY <1>1, <1>3 DEF Listing, Usable, FromSource
<1> QED
  BY <1>1, <1>2, <1>3, <1>5, ListingsKeep

\* The steps of a client's lookup.
LEMMA LookupLists ==
  ASSUME FetchInv, CalmListings, NEW c \in Writers,
         \/ ExactMeta(c) \/ ExactData(c) \/ ListReads(c) \/ ListEnds(c)
         \/ NoneFound(c) \/ ParsePath(c) \/ Finish(c)
         \/ \E k \in Keys : ListMeets(c, k) \/ Pick(c, k)
  PROVE  CalmListings'
<1>0. /\ cl[c] \in ClientState /\ ClientOK(c)
      /\ c \in calm /\ ~cl[c].force => Listing(cl[c])
  BY DEF FetchInv, ClientTypes, CalmListings
<1>1. CASE ExactMeta(c)
  <2> DEFINE hit == FromSource(KeyOf(cl[c].box, cl[c].url), cl[c].url)
             S   == IF hit THEN {} ELSE {x \in Keys : meta[x] # Absent}
             r   == [cl[c] EXCEPT !.pc = IF hit THEN "exists" ELSE "list", !.snap = S]
  <2>1. /\ r.pc = (IF hit THEN "exists" ELSE "list") /\ r.snap = S /\ r.seen = cl[c].seen
        /\ r.force = cl[c].force
    BY <1>0 DEF ClientState
  <2>2. Goes(c, r) /\ cl[c].pc = "exact"
    BY <1>1 DEF ExactMeta
  <2>3. r \in ClientState
    <3>1. S \in SUBSET Keys
      OBVIOUS
    <3> HIDE DEF S
    <3> QED
      BY <1>0, <3>1 DEF ClientState
  <2>4. c \in calm /\ ~r.force => Listing(r)
    <3> HIDE DEF r
    <3> QED
      BY <1>0, <2>1, <2>2 DEF Listing
  <2> HIDE DEF r
  <2> QED
    BY <2>2, <2>3, <2>4, GoesLists
<1>2. CASE ExactData(c)
  <2> DEFINE k == KeyOf(cl[c].box, cl[c].url)
             S == {x \in Keys : meta[x] # Absent}
  <2>1. ASSUME Goes(c, [cl[c] EXCEPT !.pc = "parse", !.path = k])
        PROVE  CalmListings'
    <3> DEFINE r == [cl[c] EXCEPT !.pc = "parse", !.path = k]
    <3>1. k \in Keys
      BY <1>2, OwnKeyServes DEF ExactData
    <3>2. r \in ClientState /\ r.pc = "parse"
      BY <1>0, <3>1 DEF ClientState
    <3> HIDE DEF r
    <3>3. Listing(r)
      BY <3>2 DEF Listing
    <3> QED
      BY <2>1, <3>2, <3>3, GoesLists DEF r
  <2>2. ASSUME Goes(c, [cl[c] EXCEPT !.pc = "list", !.snap = S])
        PROVE  CalmListings'
    <3> DEFINE r == [cl[c] EXCEPT !.pc = "list", !.snap = S]
    <3>1. S \in SUBSET Keys /\ \A x \in Keys : meta[x] # Absent => x \in S
      OBVIOUS
    <3> HIDE DEF S
    <3>2. /\ r \in ClientState /\ r.pc = "list" /\ r.snap = S /\ r.seen = cl[c].seen
          /\ r.force = cl[c].force
      BY <1>0, <3>1 DEF ClientState
    <3> HIDE DEF r
    <3>3. c \in calm /\ ~r.force => Listing(r)
      BY <1>0, <1>2, <3>1, <3>2 DEF Listing, ExactData
    <3> QED
      BY <2>2, <3>2, <3>3, GoesLists DEF r
  <2> QED
    BY <1>2, <2>1, <2>2 DEF ExactData
<1>3. CASE ListReads(c)
  <2> DEFINE k == cl[c].path
             F == IF Covers(k, c) THEN cl[c].found \cup {k} ELSE cl[c].found
             r == [cl[c] EXCEPT !.pc = "list", !.found = F]
  <2>1. Goes(c, r) /\ cl[c].pc = "read" /\ k \in Keys
    BY <1>0, <1>3 DEF ListReads, ClientOK
  <2>2. F \in SUBSET Keys /\ cl[c].found \subseteq F
        /\ (Usable(k, cl[c]) => k \in F)
    BY <1>0, <2>1 DEF ClientState, Usable, Covers
  <2> HIDE DEF F
  <2>3. /\ r \in ClientState /\ r.pc = "list" /\ r.found = F /\ r.snap = cl[c].snap
        /\ r.seen = cl[c].seen /\ r.box = cl[c].box /\ r.url = cl[c].url
        /\ r.force = cl[c].force
    BY <1>0, <2>2 DEF ClientState
  <2> HIDE DEF r
  <2>4. c \in calm /\ ~r.force => Listing(r)
    <3>1. \A x \in Keys : Usable(x, r) <=> Usable(x, cl[c])
      BY <2>3 DEF Usable
    <3> QED
      BY <1>0, <2>1, <2>2, <2>3, <3>1 DEF Listing
  <2> QED
    BY <2>1, <2>3, <2>4, GoesLists
<1>4. CASE ListEnds(c)
  <2> DEFINE r == [cl[c] EXCEPT !.pc = "pick", !.path = NoKey, !.snap = {}, !.seen = {}]
  <2>1. Goes(c, r) /\ cl[c].pc = "list" /\ {k \in cl[c].snap : meta[k] # Absent} \subseteq cl[c].seen
    BY <1>4 DEF ListEnds
  <2>2. /\ r \in ClientState /\ r.pc = "pick" /\ r.found = cl[c].found
        /\ r.box = cl[c].box /\ r.url = cl[c].url /\ r.force = cl[c].force
    BY <1>0 DEF ClientState
  <2> HIDE DEF r
  <2>3. c \in calm /\ ~r.force => Listing(r)
    <3>1. \A x \in Keys : Usable(x, r) <=> Usable(x, cl[c])
      BY <2>2 DEF Usable
    <3>2. \A x \in Keys : Usable(x, r) => meta[x] # Absent
      BY CacheAssumption DEF Usable, FromSource
    <3> QED
      BY <1>0, <2>1, <2>2, <3>1, <3>2 DEF Listing
  <2> QED
    BY <2>1, <2>2, <2>3, GoesLists
<1>5. CASE NoneFound(c)
  <2> DEFINE r == [cl[c] EXCEPT !.pc = "net"]
  <2>1. Goes(c, r) /\ cl[c].pc = "pick" /\ cl[c].found = {}
    BY <1>5 DEF NoneFound
  <2>2. /\ r \in ClientState /\ r.pc = "net"
        /\ r.box = cl[c].box /\ r.url = cl[c].url /\ r.force = cl[c].force
    BY <1>0 DEF ClientState
  <2> HIDE DEF r
  <2>3. c \in calm /\ ~r.force => Listing(r)
    BY <1>0, <2>1, <2>2 DEF Listing, Usable
  <2> QED
    BY <2>1, <2>2, <2>3, GoesLists
<1>6. CASE ParsePath(c) \/ Finish(c)
  <2>1. PICK r : Goes(c, r) /\ r.pc \in {"done", "idle"}
    <3>1. CASE Finish(c)
      BY <3>1 DEF Finish, Idle
    <3>2. CASE ParsePath(c)
      <4> DEFINE b == data[cl[c].path]
                 o == IF b = Absent THEN Absent ELSE Parsed(b.ver)
      <4>1. Goes(c, [cl[c] EXCEPT !.pc = "done", !.out = o])
        BY <3>2 DEF ParsePath
      <4>2. [cl[c] EXCEPT !.pc = "done", !.out = o].pc = "done"
        BY <1>0 DEF ClientState
      <4> QED
        BY <4>1, <4>2
    <3> QED
      BY <1>6, <3>1, <3>2
  <2>2. /\ cl'[c] = r /\ \A d \in Writers : d # c => cl'[d] = cl[d]
        /\ UNCHANGED <<meta, data, asked>>
    BY <2>1 DEF Goes, vars, FetchInv, ClientTypes
  <2>3. calm' = calm /\ Remembers
    BY <2>1, <2>2 DEF Goes, Calms, Remembers, FetchInv, ClientTypes
  <2>4. Listing(cl[c])'
    BY <2>1, <2>2 DEF Listing
  <2> QED
    BY <2>2, <2>3, <2>4, ListingsKeep
<1>7. ASSUME NEW k \in Keys, ListMeets(c, k)
      PROVE  CalmListings'
  <2> DEFINE p == IF data[k] = Absent THEN "list" ELSE "read"
             r == [cl[c] EXCEPT !.seen = cl[c].seen \cup {k}, !.path = k, !.pc = p]
  <2>1. Goes(c, r) /\ cl[c].pc = "list"
    BY <1>7 DEF ListMeets
  <2>2. /\ r \in ClientState /\ r.pc = p /\ r.path = k /\ r.found = cl[c].found
        /\ r.snap = cl[c].snap /\ r.seen = cl[c].seen \cup {k}
        /\ r.box = cl[c].box /\ r.url = cl[c].url /\ r.force = cl[c].force
    BY <1>0 DEF ClientState
  <2> HIDE DEF r
  <2>3. c \in calm /\ ~r.force => Listing(r)
    <3>1. \A x \in Keys : Usable(x, r) <=> Usable(x, cl[c])
      BY <2>2 DEF Usable
    <3>2. Usable(k, r) => p = "read"
      BY DEF Usable
    <3> QED
      BY <1>0, <2>1, <2>2, <3>1, <3>2 DEF Listing
  <2> QED
    BY <2>1, <2>2, <2>3, GoesLists
<1>8. ASSUME NEW k \in Keys, Pick(c, k)
      PROVE  CalmListings'
  <2>1. ASSUME Goes(c, [cl[c] EXCEPT !.pc = "parse", !.path = k, !.found = {}])
        PROVE  CalmListings'
    <3> DEFINE r == [cl[c] EXCEPT !.pc = "parse", !.path = k, !.found = {}]
    <3>1. r \in ClientState /\ r.pc = "parse"
      BY <1>0 DEF ClientState
    <3> HIDE DEF r
    <3>2. Listing(r)
      BY <3>1 DEF Listing
    <3> QED
      BY <2>1, <3>1, <3>2, GoesLists DEF r
  <2>2. ASSUME data[k] = Absent, Goes(c, [cl[c] EXCEPT !.found = cl[c].found \ {k}])
        PROVE  CalmListings'
    <3> DEFINE r == [cl[c] EXCEPT !.found = cl[c].found \ {k}]
    <3>1. /\ r \in ClientState /\ r.pc = "pick" /\ r.found = cl[c].found \ {k}
          /\ r.box = cl[c].box /\ r.url = cl[c].url /\ r.force = cl[c].force
      BY <1>0, <1>8 DEF ClientState, Pick
    <3> HIDE DEF r
    <3>2. c \in calm /\ ~r.force => Listing(r)
      <4>1. \A x \in Keys : Usable(x, r) <=> Usable(x, cl[c])
        BY <3>1 DEF Usable
      <4>2. ~Usable(k, r)
        BY <2>2 DEF Usable
      <4> QED
        BY <1>0, <1>8, <3>1, <4>1, <4>2 DEF Listing, Pick
    <3> QED
      BY <2>2, <3>1, <3>2, GoesLists DEF r
  <2> QED
    BY <1>8, <2>1, <2>2 DEF Pick
<1> QED
  BY <1>1, <1>2, <1>3, <1>4, <1>5, <1>6, <1>7, <1>8

\* A client that waits for the server, writes, or ends is not listing.
LEMMA NetworkLists ==
  ASSUME FetchInv, CalmListings, Remembers, NEW c \in Writers,
         \/ RequestFails(c)
         \/ \E len \in Lengths, good \in BOOLEAN : FetchBody(c, len, good)
         \/ WriteGoesOn(c) \/ Rejected(c) \/ WriteFails(c) \/ Committed(c)
         \/ ParseTemp(c) \/ Dies(c)
  PROVE  CalmListings'
<1>0. cl \in [Writers -> ClientState] /\ cl[c] \in ClientState
  BY DEF FetchInv, ClientTypes
<1>1. Calms
  BY DEF RequestFails, FetchBody, WriteGoesOn, Rejected, WriteFails, Committed, ParseTemp, Dies
<1>2. calm' \subseteq calm /\ (calm' # {} => UNCHANGED <<meta, data>>)
  BY <1>1 DEF Calms
<1>3. \A d \in Writers : d # c => cl'[d] = cl[d]
  BY <1>0 DEF RequestFails, FetchBody, WriteGoesOn, Rejected, WriteFails, Committed, ParseTemp,
     Dies, Fail
<1>4. cl'[c].pc \in {"done", "write", "parse", "idle"}
  <2>1. CASE RequestFails(c) \/ WriteFails(c)
    BY <1>0, <2>1 DEF RequestFails, WriteFails, Fail, ClientState
  <2>2. CASE \E len \in Lengths, good \in BOOLEAN : FetchBody(c, len, good)
    BY <1>0, <2>2 DEF FetchBody, ClientState
  <2>3. CASE WriteGoesOn(c) \/ Rejected(c)
    BY <2>3 DEF WriteGoesOn, Rejected
  <2>4. CASE Committed(c)
    BY <1>0, <2>4 DEF Committed, ClientState
  <2>5. CASE ParseTemp(c)
    BY <1>0, <2>5 DEF ParseTemp, ClientState
  <2>6. CASE Dies(c)
    BY <1>0, <2>6 DEF Dies, Idle
  <2> QED
    BY <2>1, <2>2, <2>3, <2>4, <2>5, <2>6
<1>5. Listing(cl[c])'
  BY <1>4 DEF Listing
<1> QED
  BY <1>2, <1>3, <1>5, ListingsKeep

LEMMA BeginLists ==
  ASSUME FetchInv, CalmListings, Remembers, NEW c \in Writers,
         NEW wish \in Wishes, NEW force \in BOOLEAN, Begin(c, wish, force)
  PROVE  CalmListings'
<1> DEFINE r == [Idle EXCEPT !.pc = IF force THEN "net" ELSE "exact",
                             !.box = wish.box, !.url = wish.url, !.force = force]
<1>1. /\ r.force = force /\ r.seen = {} /\ (~force => r.pc = "exact")
  BY DEF Idle
<1>2. cl' = [cl EXCEPT ![c] = r] /\ UNCHANGED <<meta, data>> /\ calm' = calm \cup {c}
  BY DEF Begin, vars
<1> HIDE DEF r
<1>3. cl'[c] = r /\ \A d \in Writers : d # c => cl'[d] = cl[d]
  BY <1>2 DEF FetchInv, ClientTypes
<1>4. ~cl'[c].force => Listing(cl[c])'
  BY <1>1, <1>3 DEF Listing
<1> QED
  BY <1>2, <1>3, <1>4, ListingsKeep

LEMMA ListingsInvariant == FetchSpec => [](FetchInv /\ CalmListings)
<1>1. FetchInit => CalmListings
  BY DEF FetchInit, CalmListings
<1>2. FetchInv /\ CalmListings /\ [FetchNext]_all => CalmListings'
  <2> SUFFICES ASSUME FetchInv, CalmListings, [FetchNext]_all PROVE CalmListings'
    OBVIOUS
  <2>1. Remembers
    BY StepRemembers
  <2>2. ASSUME NEW c \in Writers, FetchStep(c) PROVE CalmListings'
    BY <2>1, <2>2, LookupLists, NetworkLists DEF FetchStep
  <2>3. ASSUME NEW c \in Writers, Dies(c) PROVE CalmListings'
    BY <2>1, <2>3, NetworkLists
  <2>4. ASSUME UNCHANGED cl, calm' \subseteq calm, calm' # {} => UNCHANGED <<meta, data>>
        PROVE  CalmListings'
    <3>1. calm \subseteq Writers
      BY DEF FetchInv, ClientTypes
    <3>2. ASSUME NEW d \in calm', ~cl'[d].force PROVE Listing(cl[d])'
      <4>1. d \in Writers /\ d \in calm /\ cl'[d] = cl[d] /\ UNCHANGED <<meta, data>>
            /\ Listing(cl[d])
        BY <2>4, <3>1, <3>2 DEF CalmListings
      <4>2. \A r : Listing(r) => Listing(r)'
        BY <2>1, <4>1, ListingStays
      <4> QED
        BY <4>1, <4>2 DEF Listing, Usable, FromSource
    <3> QED
      BY <3>2 DEF CalmListings
  <2>5. CASE (\E s \in Sweepers : Sweeping(s)) \/ TimePasses \/ UNCHANGED all
    <3>1. UNCHANGED cl /\ calm' \subseteq calm /\ (calm' # {} => UNCHANGED <<meta, data>>)
      BY <2>5 DEF Sweeping, Calms, TimePasses, Tick, fetch, all, vars
    <3> QED
      BY <2>4, <3>1
  <2> QED
    BY <2>1, <2>2, <2>3, <2>5, BeginLists DEF FetchNext
<1> QED
  BY <1>1, <1>2, InitFetches, FetchKeeps, PTL DEF FetchSpec

(* A client that may use the cache goes to the network only if no entry     *)
(* covers its request, unless a file changed since it began.                *)

THEOREM CacheComesFirst == FetchSpec => []CacheBeforeNetwork
<1>1. FetchInv /\ CalmListings => CacheBeforeNetwork
  BY DEF CalmListings, Listing, Usable, Covers, CacheBeforeNetwork
<1> QED
  BY <1>1, ListingsInvariant, PTL

(***************************************************************************)
(* Composition: clients of fetch_osm_data are users of the cache, so what  *)
(* holds of the cache for any users holds under them.                      *)
(***************************************************************************)

LEMMA FetchesStepTheCache == FetchInv /\ [FetchNext]_all => [Next]_vars
<1> SUFFICES ASSUME FetchInv, FetchNext PROVE [Next]_vars
  BY DEF all, vars
<1>1. ASSUME NEW c \in Writers, NEW len \in Lengths, NEW good \in BOOLEAN, FetchBody(c, len, good)
      PROVE  Next
  <2>1. [box |-> cl[c].box, url |-> cl[c].url] \in Wishes
    BY <1>1 DEF FetchBody, FetchInv, ClientOK
  <2>2. KeyOf(cl[c].box, cl[c].url) \in Keys
    BY <2>1, WishTyped
  <2>3. \E k \in Keys, n \in Lengths : BeginStream(c, k, n)
    BY <1>1, <2>2 DEF FetchBody
  <2> QED
    BY <2>3 DEF Next
<1>2. ASSUME NEW c \in Writers,
             WriteGoesOn(c) \/ Rejected(c) \/ WriteFails(c) \/ Committed(c) \/ ParseTemp(c)
      PROVE  Next
  <2>1. WriterStep(c)
    BY <1>2 DEF WriteGoesOn, Rejected, WriteFails, Committed, ParseTemp, WriterStep
  <2> QED
    BY <2>1 DEF Next
<1>3. ASSUME NEW c \in Writers, Dies(c)
      PROVE  Next \/ UNCHANGED vars
  BY <1>3 DEF Dies, Next
<1>4. ASSUME NEW c \in Writers,
             \/ ExactMeta(c) \/ ExactData(c) \/ ListReads(c) \/ ListEnds(c) \/ NoneFound(c)
             \/ \E k \in Keys : ListMeets(c, k) \/ Pick(c, k)
             \/ RequestFails(c) \/ ParsePath(c) \/ Finish(c)
             \/ \E wish \in Wishes, force \in BOOLEAN : Begin(c, wish, force)
      PROVE  UNCHANGED vars
  BY <1>4 DEF ExactMeta, ExactData, ListReads, ListEnds, NoneFound, ListMeets, Pick,
     RequestFails, ParsePath, Finish, Begin, Goes
<1>5. ASSUME NEW s \in Sweepers, Sweeping(s)
      PROVE  Next
  BY <1>5 DEF Sweeping, Next
<1>6. CASE TimePasses
  BY <1>6 DEF TimePasses, Next
<1> QED
  BY <1>1, <1>2, <1>3, <1>4, <1>5, <1>6 DEF FetchNext, FetchStep

(* Clients that look up, download, commit, fail and die, among sweeps, use  *)
(* the directory only as RawCache says: every theorem about the cache holds *)
(* while they run.                                                          *)
THEOREM FetchesUseTheCache == FetchSpec => Spec
<1>1. FetchInit => Init
  BY DEF FetchInit
<1> QED
  BY <1>1, FetchesInvariant, FetchesStepTheCache, PTL DEF FetchSpec, Spec

(* A directory that only clients of fetch_osm_data write to is an atomic    *)
(* map for all of them, as long as nothing sweeps it.                       *)
THEOREM FetchesAreAtomic ==
  ASSUME Sweepers = {}
  PROVE  FetchSpec => IsAtomicMap
<1>1. Spec => IsAtomicMap
  BY WritesAreAtomic, FetchAssumption
<1> QED
  BY <1>1, FetchesUseTheCache, PTL
=============================================================================
