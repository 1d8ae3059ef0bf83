--------------------------- MODULE OsmFetchProps ---------------------------
(***************************************************************************)
(* What a caller of fetch_osm_data may rely on, and what its comment says. *)
(***************************************************************************)
EXTENDS OsmFetch, RawCacheProps

\* A fetch that succeeds returns data of the endpoint it asked for, of a box
\* that contains its own up to the grain of the key, whoever else writes,
\* crashes or sweeps meanwhile: neither an entry of another mirror nor one
\* of a smaller area (overpass.rs 424-436, osm_cache.rs 493-545).
AnswerCovers ==
  \A c \in Writers :
    cl[c].pc = "done" /\ cl[c].out # Absent =>
      LET a == asked[cl[c].out] IN
        /\ a.src = Canon[cl[c].url]
        /\ Snap(a.box.lo) <= Snap(cl[c].box.lo) /\ Snap(cl[c].box.hi) <= Snap(a.box.hi)

\* While nobody clears the cache, the path a fetch chose still holds a file
\* when it is opened, though commits to it go on (422-436, 456).
PathHoldsAFile ==
  \A c \in Writers : cl[c].pc = "parse" => data[cl[c].path] # Absent

\* A client that may use the cache goes to the network only if no entry
\* covers its request, unless a file changed since it began (422-440).
CacheBeforeNetwork ==
  \A c \in Writers :
    cl[c].pc = "net" /\ ~cl[c].force /\ c \in calm =>
      \A k \in Keys : ~(Covers(k, c) /\ data[k] # Absent)

\* Every fetch returns although other clients keep renaming files.
FetchReturns == \A c \in Writers : []<>(cl[c].pc = "idle")

-----------------------------------------------------------------------------
(* Why AnswerCovers holds: a version stays under the key it was asked for,  *)
(* in the files and in the hands of its writer, and a client only chooses   *)
(* paths whose key covers its request.                                      *)

FiledByKey(v, k) ==
  /\ asked[v] # Absent
  /\ k = [lo |-> Snap(asked[v].box.lo), hi |-> Snap(asked[v].box.hi), src |-> asked[v].src]

FilesFiled ==
  /\ \A k \in Keys : /\ meta[k] \in Meta => FiledByKey(meta[k].ver, k)
                     /\ data[k] # Absent => FiledByKey(data[k].ver, k)
                     /\ meta[k] # Malformed
  /\ \A w \in Writers : wr[w].pc # "idle" => FiledByKey(wr[w].ver, wr[w].key)
  /\ \A v \in Versions : v > version => asked[v] = Absent

Serves(k, r) == k.src = Canon[r.url] /\ k.lo <= Snap(r.box.lo) /\ Snap(r.box.hi) <= k.hi

Answered(v, r) ==
  /\ asked[v] # Absent
  /\ asked[v].src = Canon[r.url]
  /\ Snap(asked[v].box.lo) <= Snap(r.box.lo) /\ Snap(r.box.hi) <= Snap(asked[v].box.hi)

ClientOK(c) ==
  /\ cl[c].pc # "idle" => [box |-> cl[c].box, url |-> cl[c].url] \in Wishes
  /\ \A k \in cl[c].found : Serves(k, cl[c])
  /\ cl[c].pc = "read" => cl[c].path \in Keys
  /\ cl[c].pc = "parse" => cl[c].path \in Keys /\ Serves(cl[c].path, cl[c])
  /\ cl[c].pc = "write" => /\ wr[c].pc # "idle" /\ wr[c].op = "commit"
                           /\ wr[c].key = KeyOf(cl[c].box, cl[c].url)
  /\ cl[c].pc = "done" /\ cl[c].out # Absent => Answered(cl[c].out, cl[c])

ClientTypes ==
  /\ cl \in [Writers -> ClientState]
  /\ asked \in [Versions -> Requests \cup {Absent}]
  /\ calm \subseteq Writers

FetchInv == /\ Typed /\ ClientTypes /\ FilesFiled
            /\ \A c \in Writers : ClientOK(c)

-----------------------------------------------------------------------------
(* Why CacheBeforeNetwork holds: while no file changes, a client's listing  *)
(* has every sidecar before it, keeps every covering one that it has passed,*)
(* and gives one up only when its data file is gone.                        *)

Usable(k, r) == /\ FromSource(k, r.url)
                /\ Contains(asked[meta[k].ver].box, r.box)
                /\ data[k] # Absent

Listing(r) ==
  /\ r.pc \in {"exact", "exists"} => r.seen = {}
  /\ r.pc \in {"list", "read"} =>
       \A k \in Keys :
         /\ meta[k] # Absent => k \in r.snap
         /\ k \in r.seen /\ Usable(k, r) => k \in r.found \/ (r.pc = "read" /\ r.path = k)
  /\ r.pc = "pick" => \A k \in Keys : Usable(k, r) => k \in r.found
  /\ r.pc = "net" => \A k \in Keys : ~Usable(k, r)

CalmListings == \A c \in calm : ~cl[c].force => Listing(cl[c])
=============================================================================
