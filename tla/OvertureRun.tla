---------------------------- MODULE OvertureRun ----------------------------
(***************************************************************************)
(* fetch_overture_with_policy (src/src/overture/cli.rs): threads of one    *)
(* process fetch the enabled Overture types of one box.  A fetch runs the  *)
(* overturemaps CLI as a child process: once to see that it is there, once *)
(* per process for its version, and for each type the cache cannot answer. *)
(* The cache is RawCache; every thread both looks up and writes in it.     *)
(*                                                                         *)
(* A wait polls the child until it has exited or its deadline has passed;  *)
(* both are up to the environment, and sleeping between polls is a stutter.*)
(* The clock dates cache entries: two instants are more than a ttl apart.  *)
(***************************************************************************)
EXTENDS RawCache, Sequences

CONSTANTS
  Pairs,    \* the cli_type of each (theme, cli_type) pair, in order
  Ttl,      \* OvertureParams::cache_ttl
  IdBase,   \* SYNTHETIC_OVERTURE_ID_BASE
  Needs,    \* how many ids the features of a body may take
  Asks      \* each thread's policies: TRUE is fetch_overture_data, FailFast

CliVersions == {"known", "unknown"}
Types       == {Pairs[i] : i \in DOMAIN Pairs}
Download    == [type : Types, needs : Nat, good : BOOLEAN, whole : BOOLEAN]

ASSUME OvertureAssumption ==
  /\ Pairs \in Seq(STRING)
  /\ Keys = [type : Types, cli : CliVersions]
  /\ Readers = Writers
  /\ Ttl \in Ages /\ Ttl \in Nat /\ IdBase \in Int /\ Needs \subseteq Nat
  /\ Asks \in [Writers -> SUBSET BOOLEAN]
  /\ "crash" \notin Faults /\ Leftovers = {"nothing"}
  /\ Absent \notin Download

VARIABLES
  fo,     \* each thread's place in fetch_overture_with_policy and its locals
  probe,  \* the OnceLock of cached_cli_version
  made    \* of each version: which download it is, and whether it parses

overture == <<fo, probe, made>>
all      == <<vars, fo, probe, made>>

\* exit: how the last child waited for ended.  failed: the pairs that failed.
Idle == [pc |-> "idle", strict |-> FALSE, stage |-> "none",
         exit |-> "none", cli |-> "none", i |-> 0, ver |-> 0,
         next |-> IdBase, got |-> {}, failed |-> {}, ok |-> FALSE]

Merged == [i : Nat, ver : Versions, from : Int, needs : Nat]

FetchState ==
  [pc : {"idle", "wait", "version", "loop", "cached",
         "output", "write", "parse", "done"},
   strict : BOOLEAN, stage : {"none", "avail", "probe", "download"},
   exit : {"none", "good", "killed"},
   cli : CliVersions \cup {"none"}, i : Nat, ver : Versions,
   next : Int, got : SUBSET Merged, failed : SUBSET Nat, ok : BOOLEAN]

RunTypeOK ==
  /\ TypeOK
  /\ fo \in [Writers -> FetchState]
  /\ probe \in {"unset", "probing"} \cup CliVersions
  /\ made \in [Versions -> Download \cup {Absent}]

RunInit ==
  /\ Init
  /\ fo = [f \in Writers |-> Idle]
  /\ probe = "unset"
  /\ made = [v \in Versions |-> Absent]

-----------------------------------------------------------------------------
(* What becomes of a fetch.                                                 *)

\* The locals of fetch_one_theme and of a wait go out of scope.
Leaves(s, pc) == [s EXCEPT !.pc = pc, !.stage = "none",
                           !.exit = "none", !.ver = 0]

Returns(s, ok) == [Leaves(s, "done") EXCEPT !.ok = ok]

\* Mutant: best effort stops at the first pair that fails.
PairFails_Stops(s) == Returns([s EXCEPT !.failed = @ \cup {s.i}], ~s.strict)

\* fetch_one_theme returned Err: FailFast returns it, BestEffort goes on.
PairFails(s) ==
  LET t == [s EXCEPT !.failed = @ \cup {s.i}] IN
  IF s.strict THEN Returns(t, FALSE) ELSE [Leaves(t, "loop") EXCEPT !.i = @ + 1]

LoopFrom(s, cli) == [Leaves(s, "loop") EXCEPT !.cli = cli, !.i = 1]

\* No exit status: of the availability check, the version probe, a download.
Broken(s) ==
  CASE s.stage = "avail"    -> Returns(s, ~s.strict)
    [] s.stage = "probe"    -> LoopFrom(s, "unknown")
    [] s.stage = "download" -> PairFails(s)

NoStatus(f) ==
  /\ fo' = [fo EXCEPT ![f] = Broken(@)]
  /\ probe' = IF fo[f].stage = "probe" THEN "unknown" ELSE probe

Goes(f, s) == fo' = [fo EXCEPT ![f] = s]

-----------------------------------------------------------------------------
(* The child process.                                                       *)

\* try_wait: exited with success.
Succeeds(f) ==
  /\ fo[f].pc = "wait"
  /\ CASE fo[f].stage = "avail" ->
            Goes(f, Leaves(fo[f], "version")) /\ UNCHANGED probe
       [] fo[f].stage = "probe" ->
            Goes(f, LoopFrom(fo[f], "known")) /\ probe' = "known"
       [] fo[f].stage = "download" ->
            Goes(f, [fo[f] EXCEPT !.pc = "output", !.exit = "good"]) /\ UNCHANGED probe
  /\ UNCHANGED <<vars, made>>

\* It could not be spawned, exited without success, or what it printed cannot
\* be read; or try_wait fails, and then it is neither killed nor reaped.
NoUse(f) ==
  /\ fo[f].pc = "wait"
  /\ NoStatus(f)
  /\ UNCHANGED <<vars, made>>

\* Mutant: what the killed child has written so far is taken for its output.
TimesOut_KeepsOutput(f) ==
  /\ fo[f].pc = "wait"
  /\ IF fo[f].stage = "download"
     THEN Goes(f, [fo[f] EXCEPT !.pc = "output", !.exit = "killed"]) /\ UNCHANGED probe
     ELSE NoStatus(f)
  /\ UNCHANGED <<vars, made>>

\* Mutant: only downloads have a deadline.
TimesOut_DownloadOnly(f) ==
  /\ fo[f].pc = "wait"
  /\ fo[f].stage = "download"
  /\ NoStatus(f)
  /\ UNCHANGED <<vars, made>>

\* Still running at the poll, and the deadline has passed: kill and wait.  A
\* child that exits after the poll is reaped the same and counts as late.
TimesOut(f) ==
  /\ fo[f].pc = "wait"
  /\ NoStatus(f)
  /\ UNCHANGED <<vars, made>>

-----------------------------------------------------------------------------
(* The fetch.                                                               *)

Begin(f, strict) ==
  /\ fo[f].pc = "idle"
  /\ Goes(f, [Idle EXCEPT !.pc = "wait", !.stage = "avail", !.strict = strict])
  /\ UNCHANGED <<vars, probe, made>>

\* params.enabled is false.
Disabled(f, strict) ==
  /\ fo[f].pc = "idle"
  /\ Goes(f, Returns([Idle EXCEPT !.strict = strict], ~strict))
  /\ UNCHANGED <<vars, probe, made>>

\* OnceLock::get_or_init: the first caller probes, the others wait for it.
ProbeVersion(f) ==
  /\ fo[f].pc = "version"
  /\ probe = "unset"
  /\ probe' = "probing"
  /\ Goes(f, [fo[f] EXCEPT !.pc = "wait", !.stage = "probe"])
  /\ UNCHANGED <<vars, made>>

KnowsVersion(f) ==
  /\ fo[f].pc = "version"
  /\ probe \in CliVersions
  /\ Goes(f, LoopFrom(fo[f], probe))
  /\ UNCHANGED <<vars, probe, made>>

KeyOf(s) == [type |-> Pairs[s.i], cli |-> s.cli]

AtPair(f) == fo[f].pc = "loop" /\ fo[f].i \in DOMAIN Pairs

\* overture_cache_read: the sidecar is there and within the ttl.
LooksFresh(f) ==
  /\ AtPair(f)
  /\ ReadMeta(f, KeyOf(fo[f]), Ttl)
  /\ Goes(f, [fo[f] EXCEPT !.pc = "cached"])
  /\ UNCHANGED <<probe, made>>

ToDownload(s) == [s EXCEPT !.pc = "wait", !.stage = "download"]

Misses(f) ==
  /\ AtPair(f)
  /\ LET m == meta[KeyOf(fo[f])] IN
     ~(m \in Meta /\ ~Expired(m, Ttl)) \/ "io" \in Faults
  /\ Goes(f, ToDownload(fo[f]))
  /\ UNCHANGED <<vars, probe, made>>

ReadsBody(f) ==
  /\ fo[f].pc = "cached"
  /\ ReadData(f)
  /\ UNCHANGED overture

TakesBody(f) ==
  /\ fo[f].pc = "cached"
  /\ Return(f)
  /\ Goes(f, IF rd[f].out = Absent
             THEN ToDownload(fo[f])
             ELSE [fo[f] EXCEPT !.pc = "parse", !.ver = rd[f].out.ver])
  /\ UNCHANGED <<probe, made>>

\* The output is read and given to overture_cache_write.
StoreOutput(f, needs, good) ==
  /\ fo[f].pc = "output"
  /\ BeginWrite(f, KeyOf(fo[f]))
  /\ made' = [made EXCEPT ![version + 1] =
                [type |-> Pairs[fo[f].i], needs |-> needs, good |-> good,
                 whole |-> fo[f].exit = "good"]]
  /\ Goes(f, [fo[f] EXCEPT !.pc = "write", !.ver = version + 1,
                               !.stage = "none", !.exit = "none"])
  /\ UNCHANGED probe

\* It is not there, or not UTF-8.
OutputUnreadable(f) ==
  /\ fo[f].pc = "output"
  /\ Goes(f, PairFails(fo[f]))
  /\ UNCHANGED <<vars, probe, made>>

WriteGoesOn(f) ==
  /\ fo[f].pc = "write"
  /\ PersistMeta(f)
  /\ UNCHANGED overture

Written(f) ==
  /\ fo[f].pc = "write"
  /\ PersistData(f)
  /\ Goes(f, [fo[f] EXCEPT !.pc = "parse"])
  /\ UNCHANGED <<probe, made>>

\* A download that cannot be cached is a failure of its pair.
WriteFails(f) ==
  /\ fo[f].pc = "write"
  /\ CommitFails(f)
  /\ Goes(f, PairFails(fo[f]))
  /\ UNCHANGED <<probe, made>>

\* Mutant: every parse has an allocator of its own.
MergedWith_OwnIds(s, b) ==
  [Leaves(s, "loop") EXCEPT
     !.i = @ + 1,
     !.got = @ \cup {[i |-> s.i, ver |-> s.ver, from |-> IdBase, needs |-> b.needs]}]

\* parse_overture_geojson_with_allocator takes its ids from next downwards,
\* and merge adds the features to those accumulated.
MergedWith(s, b) ==
  [Leaves(s, "loop") EXCEPT
     !.i = @ + 1, !.next = @ - b.needs,
     !.got = @ \cup {[i |-> s.i, ver |-> s.ver, from |-> s.next, needs |-> b.needs]}]

\* Mutant: ids are drawn before the body is known to parse.
Parse_DrawsFirst(f) ==
  LET b == made[fo[f].ver] IN
  /\ fo[f].pc = "parse"
  /\ Goes(f, IF b.good THEN MergedWith(fo[f], b)
             ELSE PairFails([fo[f] EXCEPT !.next = @ - b.needs]))
  /\ UNCHANGED <<vars, probe, made>>

Parse(f) ==
  LET b == made[fo[f].ver] IN
  /\ fo[f].pc = "parse"
  /\ Goes(f, IF b.good THEN MergedWith(fo[f], b) ELSE PairFails(fo[f]))
  /\ UNCHANGED <<vars, probe, made>>

LoopEnds(f) ==
  /\ fo[f].pc = "loop"
  /\ fo[f].i > Len(Pairs)
  /\ Goes(f, Returns(fo[f], TRUE))
  /\ UNCHANGED <<vars, probe, made>>

Finish(f) ==
  /\ fo[f].pc = "done"
  /\ Goes(f, Idle)
  /\ UNCHANGED <<vars, probe, made>>

TimePasses == Tick /\ UNCHANGED overture

PairStep(f) ==
  \/ LooksFresh(f) \/ Misses(f) \/ ReadsBody(f) \/ TakesBody(f)
  \/ \E needs \in Needs, good \in BOOLEAN : StoreOutput(f, needs, good)
  \/ OutputUnreadable(f) \/ WriteGoesOn(f) \/ Written(f) \/ WriteFails(f)
  \/ Parse(f)

\* What a child that ends by itself makes of the fetch.
ChildEnds(f) == Succeeds(f) \/ NoUse(f)

OwnStep(f) ==
  \/ ProbeVersion(f) \/ KnowsVersion(f) \/ TimesOut(f)
  \/ PairStep(f) \/ LoopEnds(f) \/ Finish(f)

RunNext ==
  \/ \E f \in Writers : \/ \E strict \in Asks[f] : Begin(f, strict) \/ Disabled(f, strict)
                        \/ ChildEnds(f)
                        \/ OwnStep(f)
  \/ TimePasses

RunSpec == RunInit /\ [][RunNext]_all

\* A thread inside a fetch runs on; a child may never end.
FairRunSpec == RunSpec /\ \A f \in Writers : WF_all(OwnStep(f))
=============================================================================
