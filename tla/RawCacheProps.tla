--------------------------- MODULE RawCacheProps ---------------------------
(***************************************************************************)
(* What the cache protocol of RawCache guarantees, and what its comments   *)
(* say it guarantees.                                                      *)
(***************************************************************************)
EXTENDS RawCache

Visible(k) == meta[k] \in Meta /\ data[k] # Absent

\* With no sweep in the directory there is never a data file without its
\* sidecar, whatever fails or crashes: write and commit_temp rename the
\* sidecar first (cache_store.rs 244-251, 332-336).
NoDataWithoutMeta == \A k \in Keys : data[k] # Absent => meta[k] # Absent

\* An entry's sidecar describes another body than the one in its data file
\* only while a commit is between its two renames, or after one that was
\* abandoned there or was overlapped by another thread's rename or unlink.
PairsAgree ==
  \A k \in Keys : Visible(k) /\ meta[k].ver # data[k].ver
                    => MidCommit(k) # {} \/ k \in torn

\* A commit that no other thread of its key disturbed between its renames
\* leaves exactly its own pair behind, however broken the entry was before.
CleanCommitHeals ==
  [][\A w \in Writers :
       wr[w].pc = "data" /\ w \in clean /\ wr'[w].pc = "idle"
       /\ data'[wr[w].key] # data[wr[w].key]
       => LET k == wr[w].key IN /\ meta'[k] = [ver |-> wr[w].ver, at |-> wr[w].at]
                                /\ data'[k].ver = wr[w].ver]_vars

\* No lookup can find a body that is cut short or beyond the cap, and only a
\* body beyond the cap is turned away (stream_to_temp, 311-325).
CapIsExact ==
  /\ \A k \in Keys : data[k] # Absent =>
       data[k].got = data[k].len /\ data[k].len <= MaxBytes
  /\ \A w \in Writers : wr[w].pc = "toobig" => wr[w].len > MaxBytes

\* Short of a crash, every temp file belongs to an operation still running:
\* no failed copy, rejected body or failed commit leaves one behind.
TempsAreOwned ==
  \A v \in temps : \E w \in Writers :
    wr[w].pc \in {"copying", "meta", "data", "handed"} /\ wr[w].ver = v

\* clear(None) that met no rename and no failed unlink leaves no file of any
\* shape an interrupted run can produce: pairs, lone sidecars, lone bodies,
\* unreadable sidecars (clear, 425-471).
ClearEmpties ==
  \A s \in Sweepers : sw[s].pc = "done" /\ sw[s].age = NoAge /\ s \in quiet
                        => Names = {}

\* clear(Some(age)) unlinks the body of an intact entry only if that body is
\* older than age, unless the entry was rewritten after clear judged it.
ClearSparesFresh ==
  [][\A s \in Sweepers :
       LET k == sw[s].key IN
       sw[s].pc = "data" /\ sw'[s].pc = "meta" /\ sw[s].age # NoAge
       /\ Visible(k) /\ meta[k] = sw[s].judged /\ meta[k].ver = data[k].ver
       => sw[s].now - data[k].at > sw[s].age]_vars

\* A write, a lookup and a sweep all return, while others keep renaming.
EveryOperationReturns ==
  /\ \A w \in Writers : []<>(wr[w].pc = "idle")
  /\ \A r \in Readers : []<>(rd[r].pc = "idle")
  /\ \A s \in Sweepers : []<>(sw[s].pc = "idle")

\* The directory is an atomic map as long as nothing sweeps it.
Seen(b) == IF b = Absent THEN Absent ELSE b.ver

Stored == [k \in Keys |-> IF Visible(k) THEN data[k].ver ELSE Absent]
Used   == (0 .. version) \ {wr[w].ver : w \in {x \in Writers : wr[x].pc # "idle"}}
Found  == [r \in Readers |-> Seen(rd[r].out)]

Map == INSTANCE CacheMap WITH None <- Absent, stored <- Stored, used <- Used, got <- Found

IsAtomicMap == Map!Spec

-----------------------------------------------------------------------------
(* The inductive strengthening of PairsAgree, CleanCommitHeals and          *)
(* CapIsExact: where each writer stands between its first byte and its      *)
(* second rename.                                                           *)

WriterHasKey  == \A w \in Writers : wr[w].pc # "idle" => wr[w].key \in Keys
ReaderHasKey  == \A r \in Readers : rd[r].pc # "idle" => rd[r].key \in Keys
SweeperHasKey == \A s \in Sweepers :
                   sw[s].pc \in {"orphan", "data", "meta"} => sw[s].key \in Keys

Typed == TypeOK /\ WriterHasKey /\ ReaderHasKey /\ SweeperHasKey

CleanMeansOurs ==
  \A w \in Writers : wr[w].pc = "data" /\ w \in clean
    => meta[wr[w].key] = [ver |-> wr[w].ver, at |-> wr[w].at]

CopyBounds ==
  \A w \in Writers :
    /\ wr[w].pc = "copying" => wr[w].got <= wr[w].len
    /\ wr[w].pc \in {"meta", "data"} => wr[w].got = wr[w].len /\ wr[w].len <= MaxBytes
    /\ wr[w].pc = "toobig" => wr[w].len > MaxBytes

CommitInv == /\ Typed /\ CleanMeansOurs /\ CopyBounds /\ PairsAgree /\ CapIsExact

\* Which bodies and sidecars a version may be in.  A version belongs to one
\* operation; until its second rename no file holds its body, and a sidecar
\* of it has the date its operation will give the body.
Active(w) == wr[w].pc # "idle"

VersionsApart ==
  /\ \A w \in Writers : Active(w) => wr[w].ver \in 1 .. version
  /\ \A w, x \in Writers : w # x /\ Active(w) /\ Active(x) => wr[w].ver # wr[x].ver

VersionsFiled ==
  \A k \in Keys :
    /\ meta[k] \in Meta => meta[k].ver <= version
    /\ data[k] # Absent => data[k].ver <= version
    /\ \A w \in Writers : Active(w) =>
         /\ data[k] # Absent => data[k].ver # wr[w].ver
         /\ meta[k] \in Meta /\ meta[k].ver = wr[w].ver =>
              wr[w].pc \in {"data", "handed"} /\ meta[k].at = wr[w].at
    /\ Visible(k) /\ meta[k].ver = data[k].ver => meta[k].at = data[k].at

VersionInv == Typed /\ VersionsApart /\ VersionsFiled

\* What a sweep with an age is about to unlink was older than it when judged.
JudgedOld ==
  \A s \in Sweepers : sw[s].pc = "data" /\ sw[s].age # NoAge => Old(s, sw[s].judged)

\* Why a quiet clear(None) empties the directory: what it has met and not
\* removed it still holds in its hands, or it is the body of a sidecar that it
\* has not met; and no quiet sweep, its own or another's, takes a sidecar away
\* before its body.
BodyFirst ==
  quiet # {} => \A s \in Sweepers : sw[s].pc = "meta" => data[sw[s].key] = Absent

SweptSoFar(s) ==
  \A k \in Keys :
    /\ meta[k] # Absent =>
         /\ <<k, "meta">> \in sw[s].snap
         /\ <<k, "meta">> \in sw[s].seen => sw[s].pc \in {"data", "meta"} /\ sw[s].key = k
    /\ data[k] # Absent =>
         /\ <<k, "data">> \in sw[s].snap
         /\ <<k, "data">> \in sw[s].seen =>
              meta[k] # Absent \/ (sw[s].pc = "orphan" /\ sw[s].key = k)
    /\ sw[s].pc = "done" => meta[k] = Absent /\ data[k] = Absent

SweepInv ==
  /\ Typed /\ BodyFirst
  /\ \A s \in quiet : sw[s].pc # "idle" /\ sw[s].age = NoAge => SweptSoFar(s)

\* With no sweep, a sidecar stays once it is there.
MetaBeforeData ==
  /\ NoDataWithoutMeta
  /\ \A w \in Writers : wr[w].pc = "data" => meta[wr[w].key] # Absent

\* What makes the directory an atomic map: a sidecar that vouches for a body
\* is there before it, and a lookup has an answer only once it read the body.
MapInv ==
  /\ VersionInv /\ MetaBeforeData
  /\ \A k \in Keys : meta[k] # Malformed
  /\ \A r \in Readers : rd[r].pc # "done" => rd[r].out = Absent

-----------------------------------------------------------------------------
(* What the comments say and the code does not do.                          *)

\* cache_store.rs 248-250: a crash before the final data rename leaves
\* meta-without-data, which readers treat as a miss.
AbandonedCommitIsAMiss ==
  \A k \in torn : Visible(k) => meta[k].ver = data[k].ver
=============================================================================
