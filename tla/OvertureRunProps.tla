-------------------------- MODULE OvertureRunProps --------------------------
(***************************************************************************)
(* What callers of fetch_overture_data and of its best-effort sibling may  *)
(* rely on.                                                                *)
(***************************************************************************)
EXTENDS OvertureRun, RawCacheProps

\* Within one fetch no two types are given the same synthetic id, so merging
\* them cannot confuse their ways (cli.rs 554-559, synthetic_ids.rs 84-107).
IdsDisjoint ==
  \A f \in Writers : \A a, b \in fo[f].got :
    a.i < b.i => b.from <= a.from - a.needs

\* Fetches that merged the same bodies gave them the same ids, whatever other
\* fetches of the process took meanwhile (synthetic_ids.rs 40-47).
SameBodiesSameIds ==
  LET Bodies(f) == {<<g.i, g.ver>> : g \in fo[f].got} IN
  \A f, g \in Writers :
    Bodies(f) = Bodies(g) => fo[f].got = fo[g].got

\* A fetch that got past its version probe and returns: strict answers with
\* every type or with the error of the first that failed, best effort with
\* exactly the types that did not fail, and no type is left out (561-596).
PolicyKept ==
  \A f \in Writers :
    fo[f].pc = "done" /\ fo[f].i > 0 =>
      LET merged == {g.i : g \in fo[f].got} IN
        /\ merged \cap fo[f].failed = {}
        /\ fo[f].strict /\ ~fo[f].ok =>
             /\ fo[f].failed = {fo[f].i}
             /\ merged = 1 .. fo[f].i - 1
        /\ fo[f].ok => merged \cup fo[f].failed = DOMAIN Pairs
        /\ fo[f].strict /\ fo[f].ok => fo[f].failed = {}
        /\ ~fo[f].strict => fo[f].ok

\* A file of the cache holds the output of a child that ended by itself with
\* success, of the type its key names, never what a killed one left behind;
\* so does every body an answer is made of (wait_with_timeout 183-203,
\* fetch_geojson_for_type 323-343).
WholeDownloads ==
  /\ \A k \in Keys : data[k] # Absent =>
       made[data[k].ver].whole /\ made[data[k].ver].type = k.type
  /\ \A f \in Writers : \A g \in fo[f].got :
       made[g.ver].whole /\ made[g.ver].good /\ made[g.ver].type = Pairs[g.i]

\* Every fetch returns although a child may never end and another fetch may
\* hold the version probe.
FetchReturns == \A f \in Writers : []<>(fo[f].pc = "idle")

-----------------------------------------------------------------------------
(* Why they hold.  Where a fetch stands in its loop and what it has merged  *)
(* is told by its locals alone.                                             *)

InPair(s)  == \/ s.pc \in {"cached", "output", "write", "parse"}
              \/ s.pc = "wait" /\ s.stage = "download"
Looping(s) == s.pc = "loop" \/ InPair(s)
MergedOf(s) == {a.i : a \in s.got}

PlaceOK(s) ==
  /\ s.pc = "wait" => s.stage # "none"
  /\ s.pc = "output" => s.exit = "good"
  /\ Looping(s) => s.cli \in CliVersions /\ s.i \in 1 .. Len(Pairs) + 1
  /\ InPair(s) => s.i \in DOMAIN Pairs
  /\ ~Looping(s) /\ s.pc # "done" => s.i = 0
  /\ s.i = 0 => s.got = {} /\ s.failed = {} /\ s.next = IdBase

PolicyOK(s) ==
  /\ MergedOf(s) \cap s.failed = {}
  /\ Looping(s) => /\ MergedOf(s) \cup s.failed = 1 .. s.i - 1
                   /\ s.strict => s.failed = {}
  /\ s.pc = "done" /\ s.i > 0 =>
       /\ s.strict /\ ~s.ok => s.failed = {s.i} /\ MergedOf(s) = 1 .. s.i - 1
       /\ s.ok => MergedOf(s) \cup s.failed = DOMAIN Pairs /\ s.i = Len(Pairs) + 1
       /\ s.strict /\ s.ok => s.failed = {}
       /\ ~s.strict => s.ok

IdsOK(s) ==
  \A a \in s.got :
    /\ a.i < s.i /\ s.next <= a.from - a.needs
    /\ \A b \in s.got : /\ a.i < b.i => b.from <= a.from - a.needs
                        /\ a.i = b.i => a = b

\* v is a finished download of type t.
Sound(v, t) == made[v] # Absent /\ made[v].whole /\ made[v].type = t

\* What a fetch has in its hands, in its reader and in its writer.
HandsOK(f) ==
  LET s == fo[f] IN
  /\ s.pc = "write" <=> wr[f].pc # "idle"
  /\ s.pc = "write" => wr[f].key = KeyOf(s) /\ wr[f].ver = s.ver /\ wr[f].op = "write"
  /\ s.pc = "cached" <=> rd[f].pc # "idle"
  /\ s.pc = "cached" => rd[f].key = KeyOf(s)
  /\ rd[f].pc = "done" /\ rd[f].out # Absent => Sound(rd[f].out.ver, Pairs[s.i])
  /\ s.pc \in {"write", "parse"} => Sound(s.ver, Pairs[s.i])
  /\ \A a \in s.got : /\ Sound(a.ver, Pairs[a.i]) /\ made[a.ver].good
                      /\ a.needs = made[a.ver].needs

FilesOK == \A k \in Keys : data[k] # Absent => Sound(data[k].ver, k.type)

RunTypes ==
  /\ fo \in [Writers -> FetchState]
  /\ probe \in {"unset", "probing"} \cup CliVersions
  /\ made \in [Versions -> Download \cup {Absent}]
  /\ \A v \in Versions : v > version => made[v] = Absent

PathOK(s) == PlaceOK(s) /\ PolicyOK(s) /\ IdsOK(s)

RunInv ==
  /\ Typed /\ RunTypes /\ FilesOK
  /\ \A f \in Writers : PathOK(fo[f]) /\ HandsOK(f)

\* The ids stand where the bodies merged before leave them: Marks(s) are the
\* pairs at which it is known where the ids of s stood, and Below(s, n) what
\* s had merged at pair n.
Below(s, n) == {<<a.i, a.ver>> : a \in {b \in s.got : b.i < n}}
Marks(s)    == {[i |-> a.i, from |-> a.from] : a \in s.got} \cup {[i |-> s.i, from |-> s.next]}

ChainOK(s) ==
  \A m \in Marks(s) :
    /\ Below(s, m.i) = {} => m.from = IdBase
    /\ \A a \in s.got : a.i < m.i /\ (\A b \in s.got : b.i < m.i => b.i <= a.i)
                        => m.from = a.from - a.needs

SameMarks(s, t) ==
  \A m \in Marks(s), n \in Marks(t) : Below(s, m.i) = Below(t, n.i) => m.from = n.from

SameInv ==
  /\ \A f \in Writers : ChainOK(fo[f])
  /\ \A f, g \in Writers : SameMarks(fo[f], fo[g])
=============================================================================
