------------------------------ MODULE OsmFetch ------------------------------
(***************************************************************************)
(* fetch_osm_data (src/src/overpass.rs): any number of client threads ask  *)
(* for the map data of a box.  A client first looks for an entry under its *)
(* own key, then for any entry whose box contains its own, and otherwise   *)
(* streams the server's answer into the cache and parses the file it named.*)
(* The cache is RawCache, so a client's file operations interleave with    *)
(* those of the other clients and of clear.                                *)
(*                                                                         *)
(* A box is an interval: the two axes are treated alike and independently. *)
(* The feature filter and the endpoint both enter the key and both must    *)
(* match exactly, so one source stands for the pair.                       *)
(***************************************************************************)
EXTENDS RawCache

CONSTANTS
  Wishes,     \* the requests: [box, url], a box being [lo, hi]
  Grain,      \* coordinates are written into the key rounded to this unit
  Canon,      \* canonical_overpass_url: of each spelling, the endpoint
  Approved    \* the spellings validate_overpass_url_with_hosts lets through

Snap(x) == (x + Grain \div 2) \div Grain

\* Mutant: the key leaves out the endpoint, as the deprecated cache_key does.
KeyOf_NoSource(box, url) == [lo |-> Snap(box.lo), hi |-> Snap(box.hi), src |-> "any"]

KeyOf(box, url) == [lo |-> Snap(box.lo), hi |-> Snap(box.hi), src |-> Canon[url]]

Boxes    == {w.box : w \in Wishes}
Urls     == DOMAIN Canon
Sources  == {Canon[u] : u \in Urls}
Requests == [box : Boxes, src : Sources, good : BOOLEAN]

ASSUME FetchAssumption ==
  /\ Grain \in Nat \ {0}
  /\ Wishes \subseteq [box : [lo : Int, hi : Int], url : Urls]
  /\ Canon \in [Urls -> Sources]
  /\ Approved \subseteq Urls
  /\ Keys = {KeyOf(w.box, w.url) : w \in Wishes}
  /\ Leftovers = {"nothing"}
  /\ Absent \notin Requests

VARIABLES
  cl,     \* each client's place in fetch_osm_data and its locals
  asked,  \* of each version: the request it answers, and whether it parses
  calm    \* auxiliary: the clients since whose Begin no file has changed

fetch == <<cl, asked, calm>>
all   == <<vars, cl, asked, calm>>

Idle == [pc |-> "idle", box |-> Absent, url |-> Absent, force |-> FALSE,
         path |-> NoKey, snap |-> {}, seen |-> {}, found |-> {},
         out |-> Absent]

ClientState ==
  [pc : {"idle", "exact", "exists", "list", "read", "pick", "net", "write",
         "parse", "done"},
   box : Boxes \cup {Absent}, url : Urls \cup {Absent}, force : BOOLEAN,
   path : Keys \cup {NoKey}, snap : SUBSET Keys, seen : SUBSET Keys,
   found : SUBSET Keys, out : Versions \cup {Absent}]

FetchTypeOK ==
  /\ TypeOK
  /\ cl \in [Writers -> ClientState]
  /\ asked \in [Versions -> Requests \cup {Absent}]
  /\ calm \subseteq Writers

FetchInit ==
  /\ Init
  /\ cl = [c \in Writers |-> Idle]
  /\ asked = [v \in Versions |-> Absent]
  /\ calm = {}

-----------------------------------------------------------------------------
\* Keeps calm up to date; every action but Begin ends with it.
Calms == calm' = IF meta' = meta /\ data' = data THEN calm ELSE {}

\* A step of a client that reads the directory at most.
Goes(c, state) ==
  /\ cl' = [cl EXCEPT ![c] = state]
  /\ UNCHANGED <<vars, asked>>
  /\ Calms

\* The sidecar of k records the source of url.
FromSource(k, url) == meta[k] \in Meta /\ asked[meta[k].ver].src = Canon[url]

Contains(entry, box) == entry.lo <= box.lo /\ box.hi <= entry.hi

Covers(k, c) ==
  /\ FromSource(k, cl[c].url)
  /\ Contains(asked[meta[k].ver].box, cl[c].box)

-----------------------------------------------------------------------------
Begin(c, wish, force) ==
  /\ cl[c].pc = "idle"
  /\ cl' = [cl EXCEPT ![c] = [Idle EXCEPT !.pc = IF force THEN "net" ELSE "exact",
                                           !.box = wish.box, !.url = wish.url,
                                           !.force = force]]
  /\ calm' = calm \cup {c}
  /\ UNCHANGED <<vars, asked>>

\* data_path_for_url: the sidecar under the client's own key must name the
\* source; then the data file must exist.
ExactMeta(c) ==
  LET k == KeyOf(cl[c].box, cl[c].url) IN
  /\ cl[c].pc = "exact"
  /\ Goes(c, [cl[c] EXCEPT !.pc = IF FromSource(k, cl[c].url) THEN "exists" ELSE "list",
                           !.snap = IF FromSource(k, cl[c].url) THEN {} ELSE
                                      {x \in Keys : meta[x] # Absent}])

ExactData(c) ==
  LET k == KeyOf(cl[c].box, cl[c].url) IN
  /\ cl[c].pc = "exists"
  /\ \/ /\ data[k] # Absent
        /\ Goes(c, [cl[c] EXCEPT !.pc = "parse", !.path = k])
     \/ /\ data[k] = Absent
        /\ Goes(c, [cl[c] EXCEPT !.pc = "list", !.snap = {x \in Keys : meta[x] # Absent}])

\* Mutant: an orphan sidecar ends the listing in place of being skipped.
ListMeets_StopsAtOrphan(c, k) ==
  /\ cl[c].pc = "list"
  /\ meta[k] # Absent
  /\ k \notin cl[c].seen
  /\ Goes(c, IF data[k] = Absent
             THEN [cl[c] EXCEPT !.pc = "pick", !.snap = {}, !.seen = {}]
             ELSE [cl[c] EXCEPT !.seen = @ \cup {k}, !.path = k, !.pc = "read"])

\* list: the sidecars one after the other, in any order; one that appears
\* after read_dir may be met or not.  The data file is looked for first.
ListMeets(c, k) ==
  /\ cl[c].pc = "list"
  /\ meta[k] # Absent
  /\ k \notin cl[c].seen
  /\ Goes(c, [cl[c] EXCEPT !.seen = @ \cup {k},
                           !.path = k,
                           !.pc = IF data[k] = Absent THEN "list" ELSE "read"])

\* The sidecar is then read, and kept if it matches the request.
ListReads(c) ==
  LET k == cl[c].path IN
  /\ cl[c].pc = "read"
  /\ Goes(c, [cl[c] EXCEPT !.pc = "list",
                           !.found = IF Covers(k, c) THEN @ \cup {k} ELSE @])

ListEnds(c) ==
  /\ cl[c].pc = "list"
  /\ {k \in cl[c].snap : meta[k] # Absent} \subseteq cl[c].seen
  /\ Goes(c, [cl[c] EXCEPT !.pc = "pick", !.path = NoKey, !.snap = {}, !.seen = {}])

\* Mutant: a candidate whose data file is gone is tried again.
Pick_Again(c, k) ==
  /\ cl[c].pc = "pick"
  /\ k \in cl[c].found
  /\ \/ /\ data[k] # Absent
        /\ Goes(c, [cl[c] EXCEPT !.pc = "parse", !.path = k, !.found = {}])
     \/ /\ data[k] = Absent
        /\ Goes(c, cl[c])

\* find_containing_path_for_url: the first match whose data file still exists.
Pick(c, k) ==
  /\ cl[c].pc = "pick"
  /\ k \in cl[c].found
  /\ \/ /\ data[k] # Absent
        /\ Goes(c, [cl[c] EXCEPT !.pc = "parse", !.path = k, !.found = {}])
     \/ /\ data[k] = Absent
        /\ Goes(c, [cl[c] EXCEPT !.found = @ \ {k}])

NoneFound(c) ==
  /\ cl[c].pc = "pick"
  /\ cl[c].found = {}
  /\ Goes(c, [cl[c] EXCEPT !.pc = "net"])

Fail(c) == [cl EXCEPT ![c].pc = "done", ![c].out = Absent]

\* The url is not approved, or the server answers 429 or another error.
RequestFails(c) ==
  /\ cl[c].pc = "net"
  /\ cl' = Fail(c)
  /\ UNCHANGED <<vars, asked>>
  /\ Calms

\* Mutant: the sidecar records the url as it was spelled.
FetchBody_RawUrl(c, len, good) ==
  /\ cl[c].pc = "net"
  /\ cl[c].url \in Approved
  /\ BeginStream(c, KeyOf(cl[c].box, cl[c].url), len)
  /\ asked' = [asked EXCEPT ![version + 1] =
                 [box |-> cl[c].box, src |-> cl[c].url, good |-> good]]
  /\ cl' = [cl EXCEPT ![c].pc = "write"]
  /\ Calms

\* A 2xx answer of len bytes, which may turn out not to parse.
FetchBody(c, len, good) ==
  /\ cl[c].pc = "net"
  /\ cl[c].url \in Approved
  /\ BeginStream(c, KeyOf(cl[c].box, cl[c].url), len)
  /\ asked' = [asked EXCEPT ![version + 1] =
                 [box |-> cl[c].box, src |-> Canon[cl[c].url], good |-> good]]
  /\ cl' = [cl EXCEPT ![c].pc = "write"]
  /\ Calms

\* stream_write_for_url on its way.
WriteGoesOn(c) ==
  /\ cl[c].pc = "write"
  /\ Copy(c) \/ FinishCopy(c) \/ PersistMeta(c) \/ CommitFails(c)
  /\ UNCHANGED <<cl, asked>>
  /\ Calms

\* StreamWriteError::Hard: the copy failed, or the body is over the cap.
WriteFails(c) ==
  /\ cl[c].pc = "write"
  /\ CopyFails(c) \/ (wr[c].pc = "toobig" /\ DropTemp(c))
  /\ cl' = Fail(c)
  /\ UNCHANGED asked
  /\ Calms

Rejected(c) ==
  /\ cl[c].pc = "write"
  /\ RejectOversized(c)
  /\ UNCHANGED <<cl, asked>>
  /\ Calms

\* The commit returns the path of the key, which the client will open.
Committed(c) ==
  /\ cl[c].pc = "write"
  /\ PersistData(c)
  /\ cl' = [cl EXCEPT ![c].pc = "parse", ![c].path = wr[c].key]
  /\ UNCHANGED asked
  /\ Calms

\* What parsing the body of version v comes to.
Parsed(v) == IF asked[v].good THEN v ELSE Absent

\* StreamWriteError::CommitFailed: the surviving temp file is parsed instead.
ParseTemp(c) ==
  /\ cl[c].pc = "write"
  /\ wr[c].pc = "handed"
  /\ DropTemp(c)
  /\ cl' = [cl EXCEPT ![c].pc = "done",
                      ![c].out = Parsed(wr[c].ver)]
  /\ UNCHANGED asked
  /\ Calms

\* parse_osm_xml_file(path): whatever body the path holds by now, or none.
ParsePath(c) ==
  LET b == data[cl[c].path] IN
  /\ cl[c].pc = "parse"
  /\ Goes(c, [cl[c] EXCEPT !.pc = "done",
                           !.out = IF b = Absent THEN Absent ELSE Parsed(b.ver)])

Finish(c) ==
  /\ cl[c].pc = "done"
  /\ Goes(c, Idle)

\* The process dies; inside a commit it leaves the cache as the commit was.
Dies(c) ==
  /\ "crash" \in Faults
  /\ cl[c].pc # "idle"
  /\ WriterCrashes(c) \/ (wr[c].pc = "idle" /\ UNCHANGED vars)
  /\ cl' = [cl EXCEPT ![c] = Idle]
  /\ UNCHANGED asked
  /\ Calms

\* clear, called by anybody.
Sweeping(s) ==
  /\ \/ \E age \in Ages : BeginClear(s, age) \/ ListingFails(s, age)
     \/ SweepStep(s)
  /\ UNCHANGED <<cl, asked>>
  /\ Calms

TimePasses == Tick /\ UNCHANGED fetch

FetchStep(c) ==
  \/ ExactMeta(c) \/ ExactData(c) \/ ListReads(c) \/ ListEnds(c) \/ NoneFound(c)
  \/ \E k \in Keys : ListMeets(c, k) \/ Pick(c, k)
  \/ RequestFails(c)
  \/ \E len \in Lengths, good \in BOOLEAN : FetchBody(c, len, good)
  \/ WriteGoesOn(c) \/ Rejected(c) \/ WriteFails(c) \/ Committed(c)
  \/ ParseTemp(c) \/ ParsePath(c) \/ Finish(c)

FetchNext ==
  \/ \E c \in Writers : \/ \E wish \in Wishes, force \in BOOLEAN : Begin(c, wish, force)
                        \/ FetchStep(c)
                        \/ Dies(c)
  \/ \E s \in Sweepers : Sweeping(s)
  \/ TimePasses

FetchSpec == FetchInit /\ [][FetchNext]_all

\* A client thread inside fetch_osm_data runs on.
FairFetchSpec == FetchSpec /\ \A c \in Writers : WF_all(FetchStep(c))
=============================================================================
