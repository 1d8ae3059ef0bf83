------------------------- MODULE OvertureRunProofs -------------------------
(***************************************************************************)
(* Proofs about OvertureRun for every list of types, every set of threads  *)
(* and every bound on what the children print.                             *)
(***************************************************************************)
EXTENDS OvertureRunProps, RawCacheProofs

(***************************************************************************)
(* What becomes of the locals of a fetch.                                  *)
(***************************************************************************)

LEMMA PairsAre ==
  /\ Len(Pairs) \in Nat /\ DOMAIN Pairs = 1 .. Len(Pairs)
  /\ \A i \in DOMAIN Pairs : Pairs[i] \in Types
BY OvertureAssumption DEF Types

LEMMA ZeroVersion == 0 \in Versions
BY CacheAssumption DEF Versions

LEMMA IdleFetch ==
  ASSUME NEW strict \in BOOLEAN
  PROVE  /\ Idle \in FetchState
         /\ PathOK(Idle)
         /\ [Idle EXCEPT !.strict = strict] \in FetchState
         /\ PathOK([Idle EXCEPT !.strict = strict])
<1>1. Idle \in FetchState
  BY ZeroVersion, OvertureAssumption DEF Idle, FetchState
<1>2. PathOK(Idle)
  BY DEF PathOK, PlaceOK, PolicyOK, IdsOK, MergedOf, Looping, InPair, Idle
<1>3. [Idle EXCEPT !.strict = strict] \in FetchState
  BY <1>1 DEF FetchState
<1>4. PathOK([Idle EXCEPT !.strict = strict])
  BY DEF PathOK, PlaceOK, PolicyOK, IdsOK, MergedOf, Looping, InPair, Idle
<1> QED
  BY <1>1, <1>2, <1>3, <1>4

\* Steps inside a type, or before the loop, disturb nothing merged so far.
LEMMA PathKept ==
  ASSUME NEW s \in FetchState, NEW t \in FetchState,
         PathOK(s), PlaceOK(t), s.pc # "done", t.pc # "done",
         Looping(s) <=> Looping(t), t.i = s.i, t.strict = s.strict,
         t.got = s.got, t.failed = s.failed, t.next = s.next
  PROVE  PathOK(t)
BY DEF PathOK, PolicyOK, IdsOK, MergedOf

LEMMA LeavesTyped ==
  ASSUME NEW s \in FetchState, NEW pc \in {"version", "loop", "done"}
  PROVE  /\ Leaves(s, pc) \in FetchState
         /\ Leaves(s, pc).pc = pc /\ Leaves(s, pc).strict = s.strict
         /\ Leaves(s, pc).cli = s.cli /\ Leaves(s, pc).i = s.i
         /\ Leaves(s, pc).next = s.next /\ Leaves(s, pc).got = s.got
         /\ Leaves(s, pc).failed = s.failed /\ Leaves(s, pc).ok = s.ok
BY ZeroVersion DEF Leaves, FetchState

LEMMA ReturnsTyped ==
  ASSUME NEW s \in FetchState, NEW ok \in BOOLEAN
  PROVE  /\ Returns(s, ok) \in FetchState
         /\ Returns(s, ok).pc = "done" /\ Returns(s, ok).strict = s.strict
         /\ Returns(s, ok).i = s.i /\ Returns(s, ok).ok = ok
         /\ Returns(s, ok).next = s.next /\ Returns(s, ok).got = s.got
         /\ Returns(s, ok).failed = s.failed
BY ZeroVersion DEF Returns, Leaves, FetchState

\* Before the loop a fetch may return with nothing.
LEMMA ReturnsEarly ==
  ASSUME NEW s \in FetchState, NEW ok \in BOOLEAN, PathOK(s), ~Looping(s), s.pc # "done"
  PROVE  Returns(s, ok) \in FetchState /\ PathOK(Returns(s, ok))
<1> DEFINE t == Returns(s, ok)
<1>1. /\ t \in FetchState /\ t.pc = "done" /\ t.i = 0
      /\ t.got = {} /\ t.failed = {} /\ t.next = IdBase
  BY ReturnsTyped DEF PathOK, PlaceOK
<1> HIDE DEF t
<1>2. PathOK(t)
  BY <1>1 DEF PathOK, PlaceOK, PolicyOK, IdsOK, MergedOf, Looping, InPair
<1> QED
  BY <1>1, <1>2 DEF t

\* Leaving the loop at its end.
LEMMA ReturnsAtEnd ==
  ASSUME NEW s \in FetchState, PathOK(s), s.pc = "loop", s.i > Len(Pairs)
  PROVE  Returns(s, TRUE) \in FetchState /\ PathOK(Returns(s, TRUE))
<1> DEFINE t == Returns(s, TRUE)
<1>1. /\ t \in FetchState /\ t.pc = "done" /\ t.strict = s.strict /\ t.i = s.i /\ t.ok
      /\ t.next = s.next /\ t.got = s.got /\ t.failed = s.failed
  BY ReturnsTyped
<1> HIDE DEF t
<1>2. s.i = Len(Pairs) + 1 /\ s.i - 1 = Len(Pairs) /\ s.i > 0
  BY PairsAre DEF PathOK, PlaceOK, Looping
<1>3. PlaceOK(t)
  BY <1>1, <1>2 DEF PlaceOK, Looping, InPair
<1>4. PolicyOK(t)
  BY <1>1, <1>2, PairsAre DEF PathOK, PolicyOK, Looping, InPair, MergedOf
<1>5. IdsOK(t)
  BY <1>1 DEF PathOK, IdsOK
<1> QED
  BY <1>1, <1>3, <1>4, <1>5 DEF t, PathOK

LEMMA LoopFromOK ==
  ASSUME NEW s \in FetchState, NEW cli \in CliVersions, PathOK(s), ~Looping(s), s.pc # "done"
  PROVE  /\ LoopFrom(s, cli) \in FetchState /\ PathOK(LoopFrom(s, cli))
         /\ LoopFrom(s, cli).got = s.got /\ LoopFrom(s, cli).pc = "loop"
<1> DEFINE l == Leaves(s, "loop")
           t == LoopFrom(s, cli)
<1>0. t = [l EXCEPT !.cli = cli, !.i = 1]
  BY DEF LoopFrom
<1>1. /\ l \in FetchState /\ l.pc = "loop" /\ l.got = s.got
      /\ l.failed = s.failed /\ l.next = s.next
  BY LeavesTyped
<1> HIDE DEF l, t
<1>2. /\ t \in FetchState /\ t.pc = "loop" /\ t.cli = cli /\ t.i = 1
      /\ t.got = s.got /\ t.failed = s.failed /\ t.next = s.next
  BY <1>0, <1>1 DEF FetchState
<1>3. s.got = {} /\ s.failed = {} /\ s.next = IdBase
  BY DEF PathOK, PlaceOK
<1>4. 1 \in 1 .. Len(Pairs) + 1
  BY PairsAre
<1>5. PathOK(t)
  BY <1>2, <1>3, <1>4 DEF PathOK, PlaceOK, PolicyOK, IdsOK, MergedOf, Looping, InPair
<1> QED
  BY <1>2, <1>5 DEF t

\* A type that failed.
LEMMA PairFailsOK ==
  ASSUME NEW s \in FetchState, PathOK(s), InPair(s)
  PROVE  /\ PairFails(s) \in FetchState /\ PathOK(PairFails(s))
         /\ PairFails(s).got = s.got /\ PairFails(s).pc \in {"loop", "done"}
<1> DEFINE f == s.failed \cup {s.i}
           u == [s EXCEPT !.failed = f]
           t == PairFails(s)
<1>1. /\ s.i \in Nat /\ s.i \in DOMAIN Pairs /\ s.i > 0 /\ s.pc # "done"
      /\ Looping(s) /\ s.failed \subseteq Nat
  BY PairsAre DEF PathOK, PlaceOK, Looping, InPair, FetchState
<1>2. /\ u \in FetchState /\ u.failed = f /\ u.strict = s.strict /\ u.cli = s.cli /\ u.i = s.i
      /\ u.next = s.next /\ u.got = s.got
  BY <1>1 DEF FetchState
<1> HIDE DEF u
<1>3. MergedOf(s) \cup s.failed = 1 .. s.i - 1 /\ (s.strict => s.failed = {})
      /\ MergedOf(s) \cap s.failed = {}
  BY <1>1 DEF PathOK, PolicyOK
<1>4. IdsOK(s)
  BY DEF PathOK
<1>5. CASE s.strict
  <2>1. t = Returns(u, FALSE)
    BY <1>2, <1>5 DEF PairFails, u
  <2>2. /\ t \in FetchState /\ t.pc = "done" /\ t.strict /\ t.i = s.i /\ ~t.ok
        /\ t.next = s.next /\ t.got = s.got /\ t.failed = f
    BY <1>2, <1>5, <2>1, ReturnsTyped
  <2> HIDE DEF t
  <2>3. MergedOf(t) = MergedOf(s) /\ f = {s.i} /\ s.i \notin 1 .. s.i - 1
    BY <1>1, <1>3, <1>5, <2>2 DEF MergedOf
  <2>4. PlaceOK(t)
    BY <1>1, <2>2 DEF PlaceOK, Looping, InPair
  <2>5. PolicyOK(t)
    BY <1>1, <1>3, <2>2, <2>3 DEF PolicyOK, Looping, InPair
  <2>6. IdsOK(t)
    BY <1>4, <2>2 DEF IdsOK
  <2> QED
    BY <2>2, <2>4, <2>5, <2>6 DEF t, PathOK
<1>6. CASE ~s.strict
  <2>1. t = [Leaves(u, "loop") EXCEPT !.i = @ + 1]
    BY <1>2, <1>6 DEF PairFails, u
  <2>2. /\ Leaves(u, "loop") \in FetchState /\ Leaves(u, "loop").pc = "loop"
        /\ Leaves(u, "loop").strict = s.strict
        /\ Leaves(u, "loop").cli = s.cli /\ Leaves(u, "loop").i = s.i
        /\ Leaves(u, "loop").next = s.next /\ Leaves(u, "loop").got = s.got
        /\ Leaves(u, "loop").failed = f
    BY <1>2, LeavesTyped
  <2>3. /\ t \in FetchState /\ t.pc = "loop" /\ t.strict = s.strict /\ t.i = s.i + 1
        /\ t.cli = s.cli /\ t.next = s.next /\ t.got = s.got /\ t.failed = f
    BY <1>1, <2>1, <2>2 DEF FetchState
  <2> HIDE DEF t
  <2>4. MergedOf(t) = MergedOf(s) /\ s.i \notin 1 .. s.i - 1 /\ s.i + 1 - 1 = s.i
        /\ 1 .. s.i = (1 .. s.i - 1) \cup {s.i}
    BY <1>1, <2>3 DEF MergedOf
  <2>5. PlaceOK(t)
    BY <1>1, <2>3, PairsAre DEF PathOK, PlaceOK, Looping, InPair
  <2>6. PolicyOK(t)
    BY <1>1, <1>3, <1>6, <2>3, <2>4 DEF PolicyOK, Looping, InPair
  <2>7. IdsOK(t)
    BY <1>1, <1>4, <2>3 DEF IdsOK, FetchState, Merged
  <2> QED
    BY <2>3, <2>5, <2>6, <2>7 DEF t, PathOK
<1> QED
  BY <1>5, <1>6

LEMMA MergedWithTyped ==
  ASSUME NEW s \in FetchState, NEW b \in Download, InPair(s), PathOK(s)
  PROVE  /\ MergedWith(s, b) \in FetchState
         /\ MergedWith(s, b).pc = "loop" /\ MergedWith(s, b).strict = s.strict
         /\ MergedWith(s, b).cli = s.cli /\ MergedWith(s, b).i = s.i + 1
         /\ MergedWith(s, b).next = s.next - b.needs
         /\ MergedWith(s, b).failed = s.failed
         /\ MergedWith(s, b).got = s.got \cup
              {[i |-> s.i, ver |-> s.ver, from |-> s.next, needs |-> b.needs]}
<1> DEFINE m == [i |-> s.i, ver |-> s.ver, from |-> s.next, needs |-> b.needs]
           l == Leaves(s, "loop")
           t == MergedWith(s, b)
<1>1. s.i + 1 \in Nat /\ s.next - b.needs \in Int /\ m \in Merged
  BY DEF FetchState, Merged, Download
<1>2. /\ l \in FetchState /\ l.pc = "loop" /\ l.strict = s.strict /\ l.cli = s.cli
      /\ l.i = s.i /\ l.next = s.next /\ l.got = s.got /\ l.failed = s.failed
  BY LeavesTyped
<1>3. t = [l EXCEPT !.i = @ + 1, !.next = @ - b.needs, !.got = @ \cup {m}]
  BY DEF MergedWith
<1> HIDE DEF l, m, t
<1>4. t = [l EXCEPT !.i = s.i + 1, !.next = s.next - b.needs, !.got = s.got \cup {m}]
  BY <1>2, <1>3 DEF FetchState
<1>5. s.got \cup {m} \subseteq Merged
  BY <1>1 DEF FetchState
<1>6. t \in FetchState
  BY <1>1, <1>2, <1>4, <1>5 DEF FetchState
<1>7. /\ t.pc = "loop" /\ t.strict = s.strict /\ t.cli = s.cli /\ t.i = s.i + 1
      /\ t.next = s.next - b.needs /\ t.failed = s.failed /\ t.got = s.got \cup {m}
  BY <1>2, <1>4 DEF FetchState
<1> QED
  BY <1>6, <1>7 DEF t, m

LEMMA MergedWithOK ==
  ASSUME NEW s \in FetchState, NEW b \in Download, InPair(s), PathOK(s)
  PROVE  PathOK(MergedWith(s, b))
<1> DEFINE m == [i |-> s.i, ver |-> s.ver, from |-> s.next, needs |-> b.needs]
           t == MergedWith(s, b)
<1>1. /\ t \in FetchState /\ t.pc = "loop" /\ t.strict = s.strict /\ t.cli = s.cli
      /\ t.i = s.i + 1 /\ t.next = s.next - b.needs /\ t.failed = s.failed
      /\ t.got = s.got \cup {m}
  BY MergedWithTyped
<1>2. /\ s.i \in DOMAIN Pairs /\ s.i \in Nat /\ s.i > 0 /\ s.cli \in CliVersions
      /\ Looping(s) /\ b.needs \in Nat /\ s.next \in Int /\ s.got \subseteq Merged
  BY PairsAre DEF PathOK, PlaceOK, Looping, InPair, FetchState, Download
<1>3. m.i = s.i /\ m.from = s.next /\ m.needs = b.needs
  OBVIOUS
<1>4. MergedOf(s) \cup s.failed = 1 .. s.i - 1 /\ (s.strict => s.failed = {})
      /\ MergedOf(s) \cap s.failed = {}
  BY <1>2 DEF PathOK, PolicyOK
<1>5. IdsOK(s)
  BY DEF PathOK
<1> HIDE DEF t, m
<1>6. MergedOf(t) = MergedOf(s) \cup {s.i}
  BY <1>1, <1>3 DEF MergedOf
<1>7. s.i \notin 1 .. s.i - 1 /\ s.i + 1 - 1 = s.i /\ 1 .. s.i = (1 .. s.i - 1) \cup {s.i}
  BY <1>2
<1>8. PlaceOK(t)
  BY <1>1, <1>2, PairsAre DEF PlaceOK, Looping, InPair
<1>9. PolicyOK(t)
  BY <1>1, <1>2, <1>4, <1>6, <1>7 DEF PolicyOK, Looping, InPair
<1>10. IdsOK(t)
  <2> SUFFICES ASSUME NEW a \in t.got, NEW c \in t.got
      PROVE  /\ a.i < t.i /\ t.next <= a.from - a.needs
             /\ a.i < c.i => c.from <= a.from - a.needs
             /\ a.i = c.i => a = c
    BY DEF IdsOK
  <2>1. CASE a = m /\ c = m
    BY <1>1, <1>2, <1>3, <2>1
  <2>2. CASE a = m /\ c \in s.got
    BY <1>1, <1>2, <1>3, <1>5, <2>2 DEF IdsOK, Merged
  <2>3. CASE a \in s.got /\ c = m
    BY <1>1, <1>2, <1>3, <1>5, <2>3 DEF IdsOK, Merged
  <2>4. CASE a \in s.got /\ c \in s.got
    BY <1>1, <1>2, <1>5, <2>4 DEF IdsOK, Merged
  <2> QED
    BY <1>1, <2>1, <2>2, <2>3, <2>4
<1> QED
  BY <1>8, <1>9, <1>10 DEF t, PathOK

(***************************************************************************)
(* A step of the runner is a step of the cache, and disturbs no other      *)
(* fetch.                                                                  *)
(***************************************************************************)

LEMMA KeysOf ==
  ASSUME NEW s \in FetchState, PathOK(s), s.pc # "done", Looping(s), s.i \in DOMAIN Pairs
  PROVE  KeyOf(s) \in Keys /\ KeyOf(s).type = Pairs[s.i] /\ Pairs[s.i] \in Types
BY OvertureAssumption, PairsAre DEF KeyOf, PathOK, PlaceOK

LEMMA CacheSteps ==
  ASSUME RunTypes, \A f \in Writers : PathOK(fo[f]), RunNext
  PROVE  [Next]_vars
<1>1. ASSUME NEW f \in Writers, LooksFresh(f)
      PROVE  Next
  <2>1. KeyOf(fo[f]) \in Keys /\ Ttl \in Ages /\ f \in Readers
    BY <1>1, KeysOf, OvertureAssumption DEF LooksFresh, AtPair, RunTypes, Looping
  <2>2. \E k \in Keys, ttl \in Ages : ReadMeta(f, k, ttl)
    BY <1>1, <2>1 DEF LooksFresh
  <2> QED
    BY <2>1, <2>2 DEF Next
<1>2. ASSUME NEW f \in Writers, NEW needs, NEW good, StoreOutput(f, needs, good)
      PROVE  Next
  <2>1. KeyOf(fo[f]) \in Keys
    BY <1>2, KeysOf DEF StoreOutput, RunTypes, Looping, InPair, PathOK, PlaceOK
  <2> QED
    BY <1>2, <2>1 DEF StoreOutput, Next
<1>3. ASSUME NEW f \in Writers, ReadsBody(f) \/ TakesBody(f)
      PROVE  Next
  BY <1>3, OvertureAssumption DEF ReadsBody, TakesBody, ReadStep, Next
<1>4. ASSUME NEW f \in Writers, WriteGoesOn(f) \/ Written(f) \/ WriteFails(f)
      PROVE  Next
  BY <1>4 DEF WriteGoesOn, Written, WriteFails, WriterStep, Next
<1>5. ASSUME NEW f \in Writers, ChildEnds(f) \/ TimesOut(f)
      PROVE  UNCHANGED vars
  BY <1>5 DEF ChildEnds, Succeeds, NoUse, TimesOut
<1>6. ASSUME NEW f \in Writers, ProbeVersion(f) \/ KnowsVersion(f) \/ Misses(f)
                                \/ OutputUnreadable(f) \/ Parse(f) \/ LoopEnds(f) \/ Finish(f)
      PROVE  UNCHANGED vars
  BY <1>6 DEF ProbeVersion, KnowsVersion, Misses, OutputUnreadable, Parse, LoopEnds, Finish
<1>7. ASSUME NEW f \in Writers, NEW strict, Begin(f, strict) \/ Disabled(f, strict)
      PROVE  UNCHANGED vars
  BY <1>7 DEF Begin, Disabled
<1>8. CASE TimePasses
  BY <1>8 DEF TimePasses, Next
<1> QED
  BY <1>1, <1>2, <1>3, <1>4, <1>5, <1>6, <1>7, <1>8 DEF RunNext, OwnStep, PairStep

LEMMA OthersKeepHands ==
  ASSUME RunInv, NEW g \in Writers,
         fo'[g] = fo[g], wr'[g] = wr[g], rd'[g] = rd[g],
         \A v \in Versions : made[v] # Absent => made'[v] = made[v]
  PROVE  HandsOK(g)'
<1>1. fo[g] \in FetchState /\ rd[g] \in ReaderState /\ HandsOK(g)
  BY OvertureAssumption DEF RunInv, RunTypes, Typed, TypeOK
<1>2. \A v \in Versions : \A t : Sound(v, t) => Sound(v, t)'
  BY DEF Sound
<1>3. \A a \in fo[g].got : a.ver \in Versions
  BY <1>1 DEF FetchState, Merged
<1>4. fo[g].ver \in Versions
  BY <1>1 DEF FetchState
<1>5. rd[g].out # Absent => rd[g].out.ver \in Versions
  BY <1>1 DEF ReaderState, Body
<1> QED
  BY <1>1, <1>2, <1>3, <1>4, <1>5 DEF HandsOK, Sound

\* What is left to show of a step of one fetch.
LEMMA Settles ==
  ASSUME RunInv, Typed', NEW f \in Writers, NEW t \in FetchState, PathOK(t),
         fo' = [fo EXCEPT ![f] = t], HandsOK(f)', FilesOK',
         probe' \in {"unset", "probing"} \cup CliVersions,
         made' \in [Versions -> Download \cup {Absent}],
         \A v \in Versions : v > version' => made'[v] = Absent,
         \A v \in Versions : made[v] # Absent => made'[v] = made[v],
         \A g \in Writers : g # f => wr'[g] = wr[g] /\ rd'[g] = rd[g]
  PROVE  RunInv'
<1>1. fo' \in [Writers -> FetchState] /\ fo'[f] = t
      /\ \A g \in Writers : g # f => fo'[g] = fo[g]
  BY DEF RunInv, RunTypes
<1>2. \A g \in Writers : g # f => HandsOK(g)'
  BY <1>1, OthersKeepHands
<1>3. \A g \in Writers : PathOK(fo'[g])
  BY <1>1 DEF RunInv
<1>4. RunTypes'
  BY <1>1 DEF RunTypes
<1> QED
  BY <1>2, <1>3, <1>4 DEF RunInv

\* A step that touches no file and no reader, writer or body.
LEMMA SettlesQuietly ==
  ASSUME RunInv, NEW f \in Writers, NEW t \in FetchState, PathOK(t),
         fo' = [fo EXCEPT ![f] = t], UNCHANGED <<vars, made>>,
         probe' \in {"unset", "probing"} \cup CliVersions,
         HandsOK(f)'
  PROVE  RunInv'
<1>1. Typed'
  BY StepTyped DEF RunInv
<1>2. FilesOK'
  BY DEF RunInv, FilesOK, Sound, vars
<1>3. UNCHANGED <<wr, rd, version, made>>
  BY DEF vars
<1> QED
  BY <1>1, <1>2, <1>3, Settles DEF RunInv, RunTypes

\* Outside the cache, a fetch holds on to what it has merged.
LEMMA HandsFree ==
  ASSUME RunInv, NEW f \in Writers, NEW t \in FetchState,
         fo' = [fo EXCEPT ![f] = t], UNCHANGED <<vars, made>>,
         fo[f].pc \notin {"write", "cached"}, t.pc \notin {"write", "cached", "parse"},
         t.got \subseteq fo[f].got
  PROVE  HandsOK(f)'
<1>1. fo'[f] = t /\ wr' = wr /\ rd' = rd /\ made' = made
  BY DEF RunInv, RunTypes, vars
<1>2. HandsOK(f)
  BY DEF RunInv
<1> QED
  BY <1>1, <1>2 DEF HandsOK, Sound

(***************************************************************************)
(* The steps of a fetch that leave the cache alone.                        *)
(***************************************************************************)

LEMMA FetchFacts ==
  ASSUME RunInv, NEW f \in Writers
  PROVE  /\ fo[f] \in FetchState /\ PathOK(fo[f]) /\ HandsOK(f)
         /\ fo[f].stage \in {"none", "avail", "probe", "download"}
         /\ fo[f].strict \in BOOLEAN
         /\ probe \in {"unset", "probing"} \cup CliVersions
BY DEF RunInv, RunTypes, FetchState

LEMMA BrokenOK ==
  ASSUME NEW s \in FetchState, PathOK(s), s.pc = "wait"
  PROVE  /\ Broken(s) \in FetchState /\ PathOK(Broken(s))
         /\ Broken(s).got = s.got /\ Broken(s).pc \in {"loop", "done"}
<1>1. s.stage \in {"avail", "probe", "download"} /\ s.strict \in BOOLEAN
  BY DEF PathOK, PlaceOK, FetchState
<1>2. CASE s.stage = "avail"
  <2>1. Broken(s) = Returns(s, ~s.strict)
    BY <1>2 DEF Broken
  <2>2. ~Looping(s)
    BY <1>2 DEF Looping, InPair
  <2> QED
    BY <1>1, <2>1, <2>2, ReturnsEarly, ReturnsTyped
<1>3. CASE s.stage = "probe"
  <2>1. Broken(s) = LoopFrom(s, "unknown")
    BY <1>3 DEF Broken
  <2>2. ~Looping(s)
    BY <1>3 DEF Looping, InPair
  <2> QED
    BY <2>1, <2>2, LoopFromOK DEF CliVersions
<1>4. CASE s.stage = "download"
  <2>1. Broken(s) = PairFails(s)
    BY <1>4 DEF Broken
  <2>2. InPair(s)
    BY <1>4 DEF InPair
  <2> QED
    BY <2>1, <2>2, PairFailsOK
<1> QED
  BY <1>1, <1>2, <1>3, <1>4

LEMMA ChildStep ==
  ASSUME RunInv, NEW f \in Writers, ChildEnds(f) \/ TimesOut(f)
  PROVE  RunInv'
<1> DEFINE s == fo[f]
<1>0. /\ s \in FetchState /\ PathOK(s) /\ s.pc = "wait"
      /\ s.stage \in {"avail", "probe", "download"} /\ UNCHANGED <<vars, made>>
      /\ probe \in {"unset", "probing"} \cup CliVersions
  BY FetchFacts DEF ChildEnds, Succeeds, NoUse, TimesOut, PathOK, PlaceOK
<1>1. CASE NoStatus(f)
  <2>1. /\ Broken(s) \in FetchState /\ PathOK(Broken(s))
        /\ Broken(s).got = s.got /\ Broken(s).pc \in {"loop", "done"}
    BY <1>0, BrokenOK
  <2>2. fo' = [fo EXCEPT ![f] = Broken(s)]
    BY <1>1 DEF NoStatus
  <2>3. probe' \in {"unset", "probing"} \cup CliVersions
    BY <1>0, <1>1 DEF NoStatus, CliVersions
  <2>4. HandsOK(f)'
    BY <1>0, <2>1, <2>2, HandsFree
  <2> QED
    BY <1>0, <2>1, <2>2, <2>3, <2>4, SettlesQuietly
<1>2. CASE Succeeds(f) /\ s.stage = "avail"
  <2> DEFINE t == Leaves(s, "version")
  <2>1. t \in FetchState /\ t.pc = "version" /\ t.i = s.i /\ t.strict = s.strict
        /\ t.got = s.got /\ t.failed = s.failed /\ t.next = s.next
    BY <1>0, LeavesTyped
  <2>2. fo' = [fo EXCEPT ![f] = t] /\ probe' = probe
    BY <1>2 DEF Succeeds, Goes
  <2> HIDE DEF t
  <2>3. ~Looping(s) /\ ~Looping(t) /\ PlaceOK(t)
    BY <1>0, <1>2, <2>1 DEF PathOK, PlaceOK, Looping, InPair
  <2>4. PathOK(t)
    BY <1>0, <2>1, <2>3, PathKept
  <2>5. HandsOK(f)'
    BY <1>0, <2>1, <2>2, HandsFree
  <2> QED
    BY <1>0, <2>1, <2>2, <2>4, <2>5, SettlesQuietly
<1>3. CASE Succeeds(f) /\ s.stage = "probe"
  <2> DEFINE t == LoopFrom(s, "known")
  <2>1. ~Looping(s)
    BY <1>0, <1>3 DEF Looping, InPair
  <2>2. t \in FetchState /\ PathOK(t) /\ t.pc = "loop" /\ t.got = s.got
    BY <1>0, <2>1, LoopFromOK DEF CliVersions
  <2>4. fo' = [fo EXCEPT ![f] = t] /\ probe' \in CliVersions
    BY <1>3 DEF Succeeds, Goes, CliVersions
  <2> HIDE DEF t
  <2>5. HandsOK(f)'
    BY <1>0, <2>2, <2>4, HandsFree
  <2> QED
    BY <1>0, <2>2, <2>4, <2>5, SettlesQuietly
<1>4. CASE Succeeds(f) /\ s.stage = "download"
  <2> DEFINE t == [s EXCEPT !.pc = "output", !.exit = "good"]
  <2>1. t \in FetchState /\ t.pc = "output" /\ t.exit = "good" /\ t.i = s.i /\ t.cli = s.cli
        /\ t.strict = s.strict /\ t.got = s.got /\ t.failed = s.failed /\ t.next = s.next
    BY <1>0 DEF FetchState
  <2>2. fo' = [fo EXCEPT ![f] = t] /\ probe' = probe
    BY <1>4 DEF Succeeds, Goes
  <2> HIDE DEF t
  <2>3. Looping(s) /\ Looping(t) /\ PlaceOK(t)
    BY <1>0, <1>4, <2>1 DEF PathOK, PlaceOK, Looping, InPair
  <2>4. PathOK(t)
    BY <1>0, <2>1, <2>3, PathKept
  <2>5. HandsOK(f)'
    BY <1>0, <2>1, <2>2, HandsFree
  <2> QED
    BY <1>0, <2>1, <2>2, <2>4, <2>5, SettlesQuietly
<1> QED
  BY <1>0, <1>1, <1>2, <1>3, <1>4 DEF ChildEnds, NoUse, TimesOut

LEMMA LoopStep ==
  ASSUME RunInv, NEW f \in Writers,
         ProbeVersion(f) \/ KnowsVersion(f) \/ Misses(f)
           \/ OutputUnreadable(f) \/ LoopEnds(f) \/ Finish(f)
  PROVE  RunInv'
<1> DEFINE s == fo[f]
<1>0. /\ s \in FetchState /\ PathOK(s) /\ UNCHANGED <<vars, made>>
      /\ probe \in {"unset", "probing"} \cup CliVersions
  BY FetchFacts DEF ProbeVersion, KnowsVersion, Misses, OutputUnreadable, LoopEnds, Finish
<1>1. ASSUME NEW t \in FetchState, PathOK(t), fo' = [fo EXCEPT ![f] = t],
             s.pc \notin {"write", "cached"}, t.pc \notin {"write", "cached", "parse"},
             t.got \subseteq s.got, probe' \in {"unset", "probing"} \cup CliVersions
      PROVE  RunInv'
  <2>1. HandsOK(f)'
    BY <1>0, <1>1, HandsFree
  <2> QED
    BY <1>0, <1>1, <2>1, SettlesQuietly
<1>2. CASE ProbeVersion(f)
  <2> DEFINE t == [s EXCEPT !.pc = "wait", !.stage = "probe"]
  <2>1. t \in FetchState /\ t.pc = "wait" /\ t.stage = "probe" /\ t.i = s.i
        /\ t.strict = s.strict /\ t.got = s.got /\ t.failed = s.failed /\ t.next = s.next
    BY <1>0 DEF FetchState
  <2>2. fo' = [fo EXCEPT ![f] = t] /\ probe' = "probing" /\ s.pc = "version"
    BY <1>2 DEF ProbeVersion, Goes
  <2> HIDE DEF t
  <2>3. ~Looping(s) /\ ~Looping(t) /\ PlaceOK(t)
    BY <1>0, <2>1, <2>2 DEF PathOK, PlaceOK, Looping, InPair
  <2>4. PathOK(t)
    BY <1>0, <2>1, <2>2, <2>3, PathKept
  <2> QED
    BY <1>1, <2>1, <2>2, <2>4
<1>3. CASE KnowsVersion(f)
  <2>1. s.pc = "version" /\ probe \in CliVersions /\ probe' = probe
        /\ fo' = [fo EXCEPT ![f] = LoopFrom(s, probe)]
    BY <1>3 DEF KnowsVersion, Goes
  <2>2. ~Looping(s)
    BY <2>1 DEF Looping, InPair
  <2> QED
    BY <1>0, <1>1, <2>1, <2>2, LoopFromOK
<1>4. CASE Misses(f)
  <2> DEFINE t == ToDownload(s)
  <2>1. t \in FetchState /\ t.pc = "wait" /\ t.stage = "download" /\ t.i = s.i /\ t.cli = s.cli
        /\ t.strict = s.strict /\ t.got = s.got /\ t.failed = s.failed /\ t.next = s.next
    BY <1>0 DEF ToDownload, FetchState
  <2>2. fo' = [fo EXCEPT ![f] = t] /\ probe' = probe /\ s.pc = "loop" /\ s.i \in DOMAIN Pairs
    BY <1>4 DEF Misses, Goes, AtPair
  <2> HIDE DEF t
  <2>3. Looping(s) /\ Looping(t) /\ PlaceOK(t)
    BY <1>0, <2>1, <2>2 DEF PathOK, PlaceOK, Looping, InPair
  <2>4. PathOK(t)
    BY <1>0, <2>1, <2>2, <2>3, PathKept
  <2> QED
    BY <1>0, <1>1, <2>1, <2>2, <2>4
<1>5. CASE OutputUnreadable(f)
  <2>1. s.pc = "output" /\ probe' = probe /\ fo' = [fo EXCEPT ![f] = PairFails(s)]
    BY <1>5 DEF OutputUnreadable, Goes
  <2>2. InPair(s)
    BY <2>1 DEF InPair
  <2> QED
    BY <1>0, <1>1, <2>1, <2>2, PairFailsOK
<1>6. CASE LoopEnds(f)
  <2>1. /\ s.pc = "loop" /\ s.i > Len(Pairs) /\ probe' = probe
        /\ fo' = [fo EXCEPT ![f] = Returns(s, TRUE)]
    BY <1>6 DEF LoopEnds, Goes
  <2> QED
    BY <1>0, <1>1, <2>1, ReturnsAtEnd, ReturnsTyped
<1>7. CASE Finish(f)
  <2>1. s.pc = "done" /\ probe' = probe /\ fo' = [fo EXCEPT ![f] = Idle]
    BY <1>7 DEF Finish, Goes
  <2>2. Idle.pc = "idle" /\ Idle.got = {}
    BY DEF Idle
  <2> QED
    BY <1>0, <1>1, <2>1, <2>2, IdleFetch
<1> QED
  BY <1>2, <1>3, <1>4, <1>5, <1>6, <1>7

LEMMA BeginStep ==
  ASSUME RunInv, NEW f \in Writers, NEW strict \in BOOLEAN,
         Begin(f, strict) \/ Disabled(f, strict)
  PROVE  RunInv'
<1> DEFINE u == [Idle EXCEPT !.strict = strict]
<1>1. u \in FetchState /\ PathOK(u) /\ Idle \in FetchState
  BY IdleFetch
<1>2. /\ u.pc = "idle" /\ u.strict = strict /\ u.i = 0 /\ u.stage = "none"
      /\ u.got = {} /\ u.failed = {} /\ u.next = IdBase
  BY DEF Idle
<1>3. fo[f].pc = "idle" /\ UNCHANGED <<vars, made>> /\ probe' = probe
      /\ probe \in {"unset", "probing"} \cup CliVersions
  BY FetchFacts DEF Begin, Disabled
<1>4. ~Looping(u)
  BY <1>2 DEF Looping, InPair
<1>5. CASE Begin(f, strict)
  <2> DEFINE t == [Idle EXCEPT !.pc = "wait", !.stage = "avail", !.strict = strict]
  <2>1. t \in FetchState
    BY <1>1 DEF FetchState
  <2>2. t.pc = "wait" /\ t.stage = "avail" /\ t.strict = strict /\ t.i = 0
        /\ t.got = {} /\ t.failed = {} /\ t.next = IdBase
    BY DEF Idle
  <2>3. fo' = [fo EXCEPT ![f] = t]
    BY <1>5 DEF Begin, Goes
  <2> HIDE DEF t, u
  <2>4. ~Looping(t) /\ PlaceOK(t)
    BY <2>2 DEF PlaceOK, Looping, InPair
  <2>5. PathOK(t)
    BY <1>1, <1>2, <1>4, <2>1, <2>2, <2>4, PathKept
  <2>6. HandsOK(f)'
    BY <1>3, <2>1, <2>2, <2>3, HandsFree
  <2> QED
    BY <1>3, <2>1, <2>3, <2>5, <2>6, SettlesQuietly
<1>6. CASE Disabled(f, strict)
  <2> DEFINE t == Returns(u, ~strict)
  <2> HIDE DEF u
  <2>1. t \in FetchState /\ PathOK(t) /\ t.pc = "done" /\ t.got = {}
    BY <1>1, <1>2, <1>4, ReturnsEarly, ReturnsTyped
  <2>2. fo' = [fo EXCEPT ![f] = t]
    BY <1>6 DEF Disabled, Goes, u
  <2> HIDE DEF t
  <2>3. HandsOK(f)'
    BY <1>3, <2>1, <2>2, HandsFree
  <2> QED
    BY <1>3, <2>1, <2>2, <2>3, SettlesQuietly
<1> QED
  BY <1>5, <1>6

(***************************************************************************)
(* The steps of a fetch that look in the cache, write to it, or parse.     *)
(***************************************************************************)

LEMMA InPairFacts ==
  ASSUME RunInv, NEW f \in Writers, InPair(fo[f])
  PROVE  /\ fo[f].i \in DOMAIN Pairs /\ fo[f].cli \in CliVersions /\ fo[f].pc # "done"
         /\ Looping(fo[f]) /\ KeyOf(fo[f]) \in Keys /\ KeyOf(fo[f]).type = Pairs[fo[f].i]
<1>1. fo[f] \in FetchState /\ PathOK(fo[f])
  BY FetchFacts
<1>2. /\ fo[f].i \in DOMAIN Pairs /\ Looping(fo[f]) /\ fo[f].pc # "done"
      /\ fo[f].cli \in CliVersions
  BY <1>1 DEF PathOK, PlaceOK, Looping, InPair
<1> QED
  BY <1>1, <1>2, KeysOf

LEMMA ParseStep ==
  ASSUME RunInv, NEW f \in Writers, Parse(f)
  PROVE  RunInv'
<1> DEFINE s == fo[f]
           b == made[s.ver]
<1>0. /\ s \in FetchState /\ PathOK(s) /\ UNCHANGED <<vars, made>> /\ s.pc = "parse"
      /\ probe' = probe /\ probe \in {"unset", "probing"} \cup CliVersions
  BY FetchFacts DEF Parse
<1>1. InPair(s) /\ s.ver \in Versions
  BY <1>0 DEF InPair, FetchState
<1>2. HandsOK(f) /\ Sound(s.ver, Pairs[s.i]) /\ b \in Download /\ b.good \in BOOLEAN
  BY <1>0, <1>1, FetchFacts DEF HandsOK, Sound, RunInv, RunTypes, Download
<1>3. CASE ~b.good
  <2>1. fo' = [fo EXCEPT ![f] = PairFails(s)]
    BY <1>3 DEF Parse, Goes
  <2>2. HandsOK(f)'
    BY <1>0, <1>1, <2>1, PairFailsOK, HandsFree
  <2> QED
    BY <1>0, <1>1, <2>1, <2>2, PairFailsOK, SettlesQuietly
<1>4. CASE b.good
  <2> DEFINE m == [i |-> s.i, ver |-> s.ver, from |-> s.next, needs |-> b.needs]
             t == MergedWith(s, b)
  <2>1. fo' = [fo EXCEPT ![f] = t]
    BY <1>4 DEF Parse, Goes
  <2>2. t \in FetchState /\ PathOK(t) /\ t.pc = "loop" /\ t.got = s.got \cup {m}
    BY <1>0, <1>1, <1>2, MergedWithTyped, MergedWithOK
  <2>3. m.i = s.i /\ m.ver = s.ver /\ m.needs = b.needs
    OBVIOUS
  <2> HIDE DEF t, m
  <2>4. fo'[f] = t /\ wr' = wr /\ rd' = rd /\ made' = made
    BY <1>0, <2>1 DEF RunInv, RunTypes, vars
  <2>5. \A a \in t.got : /\ Sound(a.ver, Pairs[a.i]) /\ made[a.ver].good
                         /\ a.needs = made[a.ver].needs
    BY <1>2, <1>4, <2>2, <2>3 DEF HandsOK
  <2>6. wr[f].pc = "idle" /\ rd[f].pc = "idle"
    BY <1>0, <1>2 DEF HandsOK
  <2>7. HandsOK(f)'
    BY <2>2, <2>4, <2>5, <2>6 DEF HandsOK, Sound
  <2> QED
    BY <1>0, <2>1, <2>2, <2>7, SettlesQuietly
<1> QED
  BY <1>2, <1>3, <1>4

LEMMA LookStep ==
  ASSUME RunInv, NEW f \in Writers, LooksFresh(f) \/ ReadsBody(f) \/ TakesBody(f), Typed'
  PROVE  RunInv'
<1> DEFINE s == fo[f]
<1>0. /\ s \in FetchState /\ PathOK(s) /\ HandsOK(f)
      /\ probe' = probe /\ probe \in {"unset", "probing"} \cup CliVersions
      /\ rd \in [Readers -> ReaderState] /\ f \in Readers
  BY FetchFacts, OvertureAssumption
  DEF RunInv, LooksFresh, ReadsBody, TakesBody, overture, Typed, TypeOK
<1>1. UNCHANGED <<meta, data, version, wr, made>>
  BY DEF LooksFresh, ReadsBody, TakesBody, overture, ReadMeta, ReadData, Return
<1>2. FilesOK /\ FilesOK'
  BY <1>1 DEF FilesOK, Sound, RunInv
<1>3. ASSUME NEW t \in FetchState, PathOK(t), fo' = [fo EXCEPT ![f] = t], HandsOK(f)',
             \A g \in Writers : g # f => rd'[g] = rd[g]
      PROVE  RunInv'
  BY <1>0, <1>1, <1>2, <1>3, Settles DEF RunInv, RunTypes
<1>4. CASE LooksFresh(f)
  <2> DEFINE t == [s EXCEPT !.pc = "cached"]
  <2>1. t \in FetchState /\ t.pc = "cached" /\ t.i = s.i /\ t.cli = s.cli /\ t.ver = s.ver
        /\ t.strict = s.strict /\ t.got = s.got /\ t.failed = s.failed /\ t.next = s.next
        /\ t.stage = s.stage
    BY <1>0 DEF FetchState
  <2>2. fo' = [fo EXCEPT ![f] = t] /\ s.pc = "loop" /\ s.i \in DOMAIN Pairs
    BY <1>4 DEF LooksFresh, Goes, AtPair
  <2> HIDE DEF t
  <2>3. Looping(s) /\ Looping(t) /\ PlaceOK(t)
    BY <1>0, <2>1, <2>2 DEF PathOK, PlaceOK, Looping, InPair
  <2>4. PathOK(t)
    BY <1>0, <2>1, <2>2, <2>3, PathKept
  <2>5. /\ rd'[f].pc = "data" /\ rd'[f].key = KeyOf(s) /\ rd'[f].out = Absent
        /\ \A g \in Writers : g # f => rd'[g] = rd[g]
    BY <1>0, <1>4, OvertureAssumption DEF LooksFresh, ReadMeta
  <2>6. KeyOf(t) = KeyOf(s) /\ fo'[f] = t
    BY <2>1, <2>2 DEF KeyOf, RunInv, RunTypes
  <2>7. HandsOK(f)'
    BY <1>0, <1>1, <2>1, <2>2, <2>5, <2>6 DEF HandsOK, Sound, KeyOf
  <2> QED
    BY <1>0, <1>3, <2>1, <2>2, <2>4, <2>5, <2>7
<1>5. CASE ReadsBody(f)
  <2>1. s.pc = "cached" /\ fo' = fo /\ fo' = [fo EXCEPT ![f] = s]
    BY <1>5 DEF ReadsBody, overture, RunInv, RunTypes
  <2>2. rd[f].key = KeyOf(s) /\ InPair(s)
    BY <1>0, <2>1 DEF HandsOK, InPair
  <2>3. KeyOf(s) \in Keys /\ KeyOf(s).type = Pairs[s.i]
    BY <2>2, InPairFacts
  <2>4. PICK out \in {data[rd[f].key], Absent} :
          rd' = [rd EXCEPT ![f].pc = "done", ![f].out = out]
    BY <1>5 DEF ReadsBody, ReadData, OnFault
  <2>5. /\ rd'[f].pc = "done" /\ rd'[f].out = out /\ rd'[f].key = rd[f].key
        /\ \A g \in Writers : g # f => rd'[g] = rd[g]
    BY <1>0, <2>4, OvertureAssumption DEF ReaderState
  <2>6. out # Absent => Sound(out.ver, Pairs[s.i])
    BY <1>2, <2>2, <2>3, <2>4 DEF FilesOK
  <2>7. HandsOK(f)'
    BY <1>0, <1>1, <2>1, <2>2, <2>5, <2>6 DEF HandsOK, Sound, KeyOf
  <2> QED
    BY <1>0, <1>3, <2>1, <2>5, <2>7
<1>6. CASE TakesBody(f)
  <2>1. s.pc = "cached" /\ rd[f].pc = "done" /\ InPair(s)
    BY <1>6 DEF TakesBody, Return, InPair
  <2>2. Looping(s) /\ s.i \in DOMAIN Pairs /\ s.cli \in CliVersions
    BY <2>1, InPairFacts
  <2>3. /\ rd'[f].pc = "idle" /\ \A g \in Writers : g # f => rd'[g] = rd[g]
    BY <1>0, <1>6, OvertureAssumption DEF TakesBody, Return, IdleReader
  <2>4. CASE rd[f].out = Absent
    <3> DEFINE t == ToDownload(s)
    <3>1. t \in FetchState /\ t.pc = "wait" /\ t.stage = "download" /\ t.i = s.i
          /\ t.cli = s.cli /\ t.strict = s.strict /\ t.got = s.got
          /\ t.failed = s.failed /\ t.next = s.next
      BY <1>0 DEF ToDownload, FetchState
    <3>2. fo' = [fo EXCEPT ![f] = t]
      BY <1>6, <2>4 DEF TakesBody, Goes
    <3> HIDE DEF t
    <3>3. Looping(t) /\ PlaceOK(t)
      BY <1>0, <2>2, <3>1 DEF PathOK, PlaceOK, Looping, InPair
    <3>4. PathOK(t)
      BY <1>0, <2>1, <2>2, <3>1, <3>3, PathKept
    <3>5. fo'[f] = t
      BY <3>2 DEF RunInv, RunTypes
    <3>6. HandsOK(f)'
      BY <1>0, <1>1, <2>1, <2>3, <3>1, <3>5 DEF HandsOK, Sound
    <3> QED
      BY <1>3, <2>3, <3>1, <3>2, <3>4, <3>6
  <2>5. CASE rd[f].out # Absent
    <3> DEFINE t == [s EXCEPT !.pc = "parse", !.ver = rd[f].out.ver]
    <3>0. rd[f].out.ver \in Versions
      BY <1>0, <2>5 DEF ReaderState, Body
    <3>1. t \in FetchState /\ t.pc = "parse" /\ t.ver = rd[f].out.ver /\ t.i = s.i
          /\ t.cli = s.cli /\ t.strict = s.strict /\ t.got = s.got
          /\ t.failed = s.failed /\ t.next = s.next
      BY <1>0, <3>0 DEF FetchState
    <3>2. fo' = [fo EXCEPT ![f] = t]
      BY <1>6, <2>5 DEF TakesBody, Goes
    <3> HIDE DEF t
    <3>3. Looping(t) /\ PlaceOK(t)
      BY <1>0, <2>2, <3>1 DEF PathOK, PlaceOK, Looping, InPair
    <3>4. PathOK(t)
      BY <1>0, <2>1, <2>2, <3>1, <3>3, PathKept
    <3>5. fo'[f] = t
      BY <3>2 DEF RunInv, RunTypes
    <3>6. HandsOK(f)'
      BY <1>0, <1>1, <2>1, <2>3, <2>5, <3>1, <3>5 DEF HandsOK, Sound
    <3> QED
      BY <1>3, <2>3, <3>1, <3>2, <3>4, <3>6
  <2> QED
    BY <2>4, <2>5
<1> QED
  BY <1>4, <1>5, <1>6

LEMMA StoreStep ==
  ASSUME RunInv, NEW f \in Writers, NEW needs \in Needs, NEW good \in BOOLEAN,
         StoreOutput(f, needs, good), Typed'
  PROVE  RunInv'
<1> DEFINE s == fo[f]
           d == [type |-> Pairs[s.i], needs |-> needs, good |-> good, whole |-> TRUE]
           t == [s EXCEPT !.pc = "write", !.ver = version + 1, !.stage = "none", !.exit = "none"]
<1>0. /\ s \in FetchState /\ PathOK(s) /\ HandsOK(f) /\ s.pc = "output" /\ s.exit = "good"
      /\ probe' = probe /\ probe \in {"unset", "probing"} \cup CliVersions
  BY FetchFacts DEF StoreOutput, PathOK, PlaceOK
<1>1. /\ UNCHANGED <<meta, data, rd>> /\ version' = version + 1 /\ version' \in Versions
      /\ made' = [made EXCEPT ![version + 1] = d] /\ fo' = [fo EXCEPT ![f] = t]
  <2>1. (s.exit = "good") = TRUE
    BY <1>0
  <2>2. UNCHANGED <<meta, data, rd>> /\ version' = version + 1 /\ fo' = [fo EXCEPT ![f] = t]
    BY DEF StoreOutput, BeginWrite, Goes
  <2>3. made' = [made EXCEPT ![version + 1] = d]
    BY <2>1 DEF StoreOutput
  <2>4. version' \in Versions
    BY DEF Typed, TypeOK
  <2> QED
    BY <2>2, <2>3, <2>4
<1>2. /\ version \in Nat /\ \A v \in Versions : v \in Nat
      /\ made \in [Versions -> Download \cup {Absent}]
      /\ \A v \in Versions : v > version => made[v] = Absent
  BY CacheAssumption DEF RunInv, RunTypes, Typed, TypeOK, Versions
<1>3. InPair(s) /\ Looping(s) /\ s.i \in DOMAIN Pairs /\ s.cli \in CliVersions
  BY <1>0, InPairFacts DEF InPair
<1>4. d \in Download /\ d # Absent /\ d.whole /\ d.type = Pairs[s.i]
  <2>1. needs \in Nat /\ Pairs[s.i] \in Types
    BY <1>3, PairsAre, OvertureAssumption
  <2>2. d \in Download
    BY <2>1 DEF Download
  <2> QED
    BY <2>2, OvertureAssumption
<1>5. /\ t \in FetchState /\ t.pc = "write" /\ t.ver = version + 1 /\ t.i = s.i /\ t.cli = s.cli
      /\ t.strict = s.strict /\ t.got = s.got /\ t.failed = s.failed /\ t.next = s.next
  BY <1>0, <1>1 DEF FetchState
<1> HIDE DEF d, t
<1>6. /\ made' \in [Versions -> Download \cup {Absent}] /\ made'[version + 1] = d
      /\ \A v \in Versions : made[v] # Absent => made'[v] = made[v]
      /\ \A v \in Versions : v > version' => made'[v] = Absent
  <2>1. \A v \in Versions : v > version' => v > version /\ v # version + 1
    BY <1>1, <1>2
  <2>2. version + 1 \in Versions /\ made[version + 1] = Absent
    BY <1>1, <1>2
  <2>3. /\ made' \in [Versions -> Download \cup {Absent}] /\ made'[version + 1] = d
        /\ \A v \in Versions : v # version + 1 => made'[v] = made[v]
    BY <1>1, <1>2, <1>4, <2>2
  <2> QED
    BY <1>2, <2>1, <2>2, <2>3
<1>7. PlaceOK(t) /\ Looping(t)
  BY <1>0, <1>3, <1>5 DEF PathOK, PlaceOK, Looping, InPair
<1>8. PathOK(t)
  BY <1>0, <1>3, <1>5, <1>7, PathKept
<1>9. fo'[f] = t /\ KeyOf(t) = KeyOf(s)
  BY <1>1, <1>5 DEF RunInv, RunTypes, KeyOf
<1>10. /\ wr'[f].pc = "meta" /\ wr'[f].key = KeyOf(s) /\ wr'[f].ver = version + 1
       /\ wr'[f].op = "write" /\ \A g \in Writers : g # f => wr'[g] = wr[g]
  BY DEF StoreOutput, BeginWrite, RunInv, Typed, TypeOK
<1>11. \A v \in Versions : \A y : Sound(v, y) => Sound(v, y)'
  BY <1>6 DEF Sound
<1>12. Sound(fo[f].ver, Pairs[fo[f].i])'
  BY <1>4, <1>5, <1>6, <1>9 DEF Sound
<1>13. FilesOK'
  <2>1. \A k \in Keys : data[k] # Absent => data[k].ver \in Versions
    BY DEF RunInv, Typed, TypeOK, Body
  <2> QED
    BY <1>1, <1>11, <2>1 DEF RunInv, FilesOK
<1>14. \A a \in s.got : a.ver \in Versions
  BY <1>0 DEF FetchState, Merged
<1>15. \A a \in s.got : /\ Sound(a.ver, Pairs[a.i])' /\ made'[a.ver].good
                        /\ a.needs = made'[a.ver].needs
  BY <1>0, <1>6, <1>11, <1>14 DEF HandsOK, Sound
<1>16. rd[f].pc = "idle" /\ rd'[f].pc = "idle"
  BY <1>0, <1>1 DEF HandsOK
<1>17. HandsOK(f)'
  BY <1>5, <1>9, <1>10, <1>12, <1>15, <1>16 DEF HandsOK
<1> QED
  BY <1>0, <1>1, <1>5, <1>6, <1>8, <1>10, <1>13, <1>17, Settles

LEMMA WriteStep ==
  ASSUME RunInv, NEW f \in Writers, WriteGoesOn(f) \/ Written(f) \/ WriteFails(f), Typed'
  PROVE  RunInv'
<1> DEFINE s == fo[f]
<1>0. /\ s \in FetchState /\ PathOK(s) /\ HandsOK(f) /\ s.pc = "write" /\ made' = made
      /\ probe' = probe /\ probe \in {"unset", "probing"} \cup CliVersions
      /\ wr \in [Writers -> WriterState]
  BY FetchFacts DEF WriteGoesOn, Written, WriteFails, overture, RunInv, Typed, TypeOK
<1>1. rd' = rd /\ version' = version
  BY DEF WriteGoesOn, Written, WriteFails, PersistMeta, PersistData, CommitFails
<1>2. /\ InPair(s) /\ Looping(s) /\ s.i \in DOMAIN Pairs /\ s.cli \in CliVersions
      /\ KeyOf(s) \in Keys /\ KeyOf(s).type = Pairs[s.i]
  BY <1>0, InPairFacts DEF InPair
<1>3. /\ wr[f].key = KeyOf(s) /\ wr[f].ver = s.ver /\ wr[f].op = "write"
      /\ Sound(s.ver, Pairs[s.i]) /\ rd[f].pc = "idle"
  BY <1>0 DEF HandsOK
<1>4. ASSUME NEW t \in FetchState, PathOK(t), fo' = [fo EXCEPT ![f] = t], HandsOK(f)', FilesOK',
             \A g \in Writers : g # f => wr'[g] = wr[g]
      PROVE  RunInv'
  BY <1>0, <1>1, <1>4, Settles DEF RunInv, RunTypes
<1>5. CASE WriteGoesOn(f)
  <2>1. fo' = fo /\ fo' = [fo EXCEPT ![f] = s] /\ data' = data
    BY <1>5 DEF WriteGoesOn, PersistMeta, overture, RunInv, RunTypes
  <2>2. /\ wr'[f].pc = "data" /\ wr'[f].key = wr[f].key /\ wr'[f].ver = wr[f].ver
        /\ wr'[f].op = wr[f].op /\ \A g \in Writers : g # f => wr'[g] = wr[g]
    BY <1>0, <1>5 DEF WriteGoesOn, PersistMeta, WriterState
  <2>3. FilesOK'
    BY <1>0, <2>1 DEF FilesOK, Sound, RunInv
  <2>4. HandsOK(f)'
    BY <1>0, <1>1, <1>3, <2>1, <2>2 DEF HandsOK, Sound, KeyOf
  <2> QED
    BY <1>0, <1>4, <2>1, <2>2, <2>3, <2>4
<1>6. CASE Written(f)
  <2> DEFINE t == [s EXCEPT !.pc = "parse"]
  <2>1. t \in FetchState /\ t.pc = "parse" /\ t.ver = s.ver /\ t.i = s.i /\ t.cli = s.cli
        /\ t.strict = s.strict /\ t.got = s.got /\ t.failed = s.failed /\ t.next = s.next
    BY <1>0 DEF FetchState
  <2>2. fo' = [fo EXCEPT ![f] = t]
    BY <1>6 DEF Written, Goes
  <2> HIDE DEF t
  <2>3. Looping(t) /\ PlaceOK(t)
    BY <1>0, <1>2, <2>1 DEF PathOK, PlaceOK, Looping, InPair
  <2>4. PathOK(t)
    BY <1>0, <1>2, <2>1, <2>3, PathKept
  <2>5. wr'[f].pc = "idle" /\ \A g \in Writers : g # f => wr'[g] = wr[g]
    BY <1>0, <1>6 DEF Written, PersistData, IdleWriter
  <2>6. data' = [data EXCEPT ![KeyOf(s)] = [ver |-> s.ver, at |-> wr[f].at,
                                            got |-> wr[f].got, len |-> wr[f].len]]
    BY <1>3, <1>6 DEF Written, PersistData
  <2>7. FilesOK'
    <3> SUFFICES ASSUME NEW k \in Keys, data'[k] # Absent
        PROVE  Sound(data'[k].ver, k.type)
      BY <1>0 DEF FilesOK, Sound
    <3>1. CASE k = KeyOf(s)
      <4>1. data'[k].ver = s.ver
        BY <2>6, <3>1 DEF RunInv, Typed, TypeOK
      <4> QED
        BY <1>2, <1>3, <3>1, <4>1
    <3>2. CASE k # KeyOf(s)
      <4>1. data'[k] = data[k]
        BY <2>6, <3>2 DEF RunInv, Typed, TypeOK
      <4> QED
        BY <4>1 DEF RunInv, FilesOK
    <3> QED
      BY <3>1, <3>2
  <2>8. fo'[f] = t
    BY <2>2 DEF RunInv, RunTypes
  <2>9. HandsOK(f)'
    BY <1>0, <1>1, <1>3, <2>1, <2>5, <2>8 DEF HandsOK, Sound
  <2> QED
    BY <1>4, <2>1, <2>2, <2>4, <2>5, <2>7, <2>9
<1>7. CASE WriteFails(f)
  <2> DEFINE t == PairFails(s)
  <2>1. t \in FetchState /\ PathOK(t) /\ t.got = s.got /\ t.pc \in {"loop", "done"}
    BY <1>0, <1>2, PairFailsOK
  <2>2. fo' = [fo EXCEPT ![f] = t] /\ data' = data
    BY <1>7 DEF WriteFails, Goes, CommitFails
  <2>3. wr'[f].pc = "idle" /\ \A g \in Writers : g # f => wr'[g] = wr[g]
    BY <1>0, <1>3, <1>7 DEF WriteFails, CommitFails, IdleWriter
  <2> HIDE DEF t
  <2>4. FilesOK'
    BY <1>0, <2>2 DEF FilesOK, Sound, RunInv
  <2>5. fo'[f] = t
    BY <2>2 DEF RunInv, RunTypes
  <2>6. HandsOK(f)'
    BY <1>0, <1>1, <1>3, <2>1, <2>3, <2>5 DEF HandsOK, Sound
  <2> QED
    BY <1>4, <2>1, <2>2, <2>3, <2>4, <2>6
<1> QED
  BY <1>5, <1>6, <1>7

(***************************************************************************)
(* The invariant, and what callers may rely on.                            *)
(***************************************************************************)

LEMMA RunStarts == RunInit => RunInv
<1> SUFFICES ASSUME RunInit PROVE RunInv
  OBVIOUS
<1>1. /\ fo = [f \in Writers |-> Idle] /\ made = [v \in Versions |-> Absent] /\ probe = "unset"
      /\ wr = [w \in Writers |-> IdleWriter] /\ rd = [r \in Readers |-> IdleReader]
  BY DEF RunInit, Init
<1>2. Typed
  BY StartsTyped DEF RunInit
<1>3. Idle \in FetchState /\ PathOK(Idle)
  BY IdleFetch
<1>4. RunTypes
  BY <1>1, <1>3 DEF RunTypes
<1>5. FilesOK
  <2> SUFFICES ASSUME NEW k \in Keys PROVE data[k] = Absent
    BY DEF FilesOK
  <2>1. PICK shape \in [Keys -> Leftovers] :
          data = [x \in Keys |->
                    IF shape[x] \in {"paired", "malformedPair", "dataOnly"}
                    THEN FirstBody ELSE Absent]
    BY DEF RunInit, Init
  <2>2. shape[k] = "nothing"
    BY OvertureAssumption
  <2> QED
    BY <2>1, <2>2
<1>6. \A f \in Writers : HandsOK(f)
  BY <1>1, OvertureAssumption DEF HandsOK, Idle, IdleWriter, IdleReader
<1> QED
  BY <1>1, <1>2, <1>3, <1>4, <1>5, <1>6 DEF RunInv

LEMMA RunStep == RunInv /\ [RunNext]_all => RunInv'
<1> SUFFICES ASSUME RunInv, [RunNext]_all PROVE RunInv'
  OBVIOUS
<1>1. RunTypes /\ Typed /\ \A f \in Writers : PathOK(fo[f])
  BY DEF RunInv
<1>2. CASE fo' = fo /\ UNCHANGED <<wr, rd, data, version, made, probe>> /\ Typed'
  <2>1. \A f \in Writers : HandsOK(f)'
    BY <1>2 DEF RunInv, HandsOK, Sound
  <2> QED
    BY <1>2, <2>1 DEF RunInv, RunTypes, FilesOK, Sound
<1>3. CASE UNCHANGED all
  <2>1. Typed'
    BY <1>1, <1>3, StepTyped DEF all, vars
  <2> QED
    BY <1>2, <1>3, <2>1 DEF all, vars
<1>4. CASE RunNext
  <2>1. Typed'
    BY <1>1, <1>4, CacheSteps, StepTyped
  <2>2. CASE TimePasses
    BY <1>2, <2>1, <2>2 DEF TimePasses, Tick, overture
  <2>3. ASSUME NEW f \in Writers,
               \/ \E strict \in Asks[f] : Begin(f, strict) \/ Disabled(f, strict)
               \/ ChildEnds(f) \/ OwnStep(f)
        PROVE  RunInv'
    <3>1. CASE \E strict \in Asks[f] : Begin(f, strict) \/ Disabled(f, strict)
      <4>1. PICK strict \in Asks[f] : Begin(f, strict) \/ Disabled(f, strict)
        BY <3>1
      <4>2. strict \in BOOLEAN
        BY OvertureAssumption
      <4> QED
        BY <4>1, <4>2, BeginStep
    <3>2. CASE ChildEnds(f) \/ TimesOut(f)
      BY <3>2, ChildStep
    <3>3. CASE ProbeVersion(f) \/ KnowsVersion(f) \/ Misses(f)
                 \/ OutputUnreadable(f) \/ LoopEnds(f) \/ Finish(f)
      BY <3>3, LoopStep
    <3>4. CASE Parse(f)
      BY <3>4, ParseStep
    <3>5. CASE LooksFresh(f) \/ ReadsBody(f) \/ TakesBody(f)
      BY <2>1, <3>5, LookStep
    <3>6. CASE \E needs \in Needs, good \in BOOLEAN : StoreOutput(f, needs, good)
      BY <2>1, <3>6, StoreStep
    <3>7. CASE WriteGoesOn(f) \/ Written(f) \/ WriteFails(f)
      BY <2>1, <3>7, WriteStep
    <3> QED
      BY <2>3, <3>1, <3>2, <3>3, <3>4, <3>5, <3>6, <3>7 DEF OwnStep, PairStep
  <2> QED
    BY <1>4, <2>2, <2>3 DEF RunNext
<1> QED
  BY <1>3, <1>4

LEMMA RunInvariant == RunSpec => []RunInv
BY RunStarts, RunStep, PTL DEF RunSpec

(* The cache, every thread's locals, the version probe and the record of    *)
(* the downloads keep their types in every behaviour of the runner.         *)
THEOREM RunTypesCorrect == RunSpec => []RunTypeOK
<1>1. RunInv => RunTypeOK
  BY DEF RunInv, RunTypes, RunTypeOK, Typed
<1> QED
  BY <1>1, RunInvariant, PTL

(* However many types a box asks for and whatever fails between them, no    *)
(* two of one fetch take overlapping ids from their allocator.              *)
THEOREM IdsNeverMeet == RunSpec => []IdsDisjoint
<1>1. RunInv => IdsDisjoint
  BY DEF RunInv, PathOK, IdsOK, IdsDisjoint
<1> QED
  BY <1>1, RunInvariant, PTL

(* A strict fetch fails on its first failure and never answers without one  *)
(* of its types; a best effort one answers with all that did not fail.      *)
THEOREM PolicyAlwaysKept == RunSpec => []PolicyKept
<1>1. RunInv => PolicyKept
  <2> SUFFICES ASSUME RunInv, NEW f \in Writers, fo[f].pc = "done", fo[f].i > 0
      PROVE  LET merged == {g.i : g \in fo[f].got} IN
               /\ merged \cap fo[f].failed = {}
               /\ fo[f].strict /\ ~fo[f].ok => /\ fo[f].failed = {fo[f].i}
                                               /\ merged = 1 .. fo[f].i - 1
               /\ fo[f].ok => merged \cup fo[f].failed = DOMAIN Pairs
               /\ fo[f].strict /\ fo[f].ok => fo[f].failed = {}
               /\ ~fo[f].strict => fo[f].ok
    BY DEF PolicyKept
  <2>1. PolicyOK(fo[f])
    BY DEF RunInv, PathOK
  <2> QED
    BY <2>1 DEF PolicyOK, MergedOf
<1> QED
  BY <1>1, RunInvariant, PTL

(* Neither a file of the cache nor an answer is ever made of what a killed  *)
(* child left behind, or of the output for another type.                    *)
THEOREM OnlyWholeDownloads == RunSpec => []WholeDownloads
<1>1. RunInv => WholeDownloads
  BY DEF RunInv, FilesOK, HandsOK, Sound, WholeDownloads
<1> QED
  BY <1>1, RunInvariant, PTL

(***************************************************************************)
(* Fetches of the same bodies draw the same ids.                           *)
(***************************************************************************)

LEMMA InBelow ==
  ASSUME NEW s, NEW n, NEW x
  PROVE  x \in Below(s, n) <=> \E a \in s.got : a.i < n /\ x = <<a.i, a.ver>>
BY DEF Below

LEMMA InMarks ==
  ASSUME NEW s
  PROVE  /\ \A a \in s.got : [i |-> a.i, from |-> a.from] \in Marks(s)
         /\ [i |-> s.i, from |-> s.next] \in Marks(s)
         /\ \A m \in Marks(s) : \/ \E a \in s.got : m = [i |-> a.i, from |-> a.from]
                                \/ m = [i |-> s.i, from |-> s.next]
BY DEF Marks

LEMMA MarksTyped ==
  ASSUME NEW s \in FetchState, NEW m \in Marks(s)
  PROVE  m.i \in Nat
<1>1. s.i \in Nat /\ \A a \in s.got : a.i \in Nat
  BY DEF FetchState, Merged
<1>2. CASE \E a \in s.got : m = [i |-> a.i, from |-> a.from]
  BY <1>1, <1>2
<1>3. CASE m = [i |-> s.i, from |-> s.next]
  BY <1>1, <1>3
<1> QED
  BY <1>2, <1>3, InMarks

BodiesOf(s) == {<<a.i, a.ver>> : a \in s.got}

LEMMA InBodies ==
  ASSUME NEW s, NEW x
  PROVE  x \in BodiesOf(s) <=> \E a \in s.got : x = <<a.i, a.ver>>
BY DEF BodiesOf

\* What was merged below a type is told by what was merged.
LEMMA BodiesBelow ==
  ASSUME NEW s, NEW t, NEW n, BodiesOf(s) = BodiesOf(t), NEW x \in Below(s, n)
  PROVE  x \in Below(t, n)
<1>1. PICK c \in s.got : c.i < n /\ x = <<c.i, c.ver>>
  BY InBelow
<1>2. x \in BodiesOf(s)
  BY <1>1, InBodies
<1>3. x \in BodiesOf(t)
  BY <1>2
<1>4. PICK d \in t.got : x = <<d.i, d.ver>>
  BY <1>3, InBodies
<1>5. d.i = c.i
  BY <1>1, <1>4
<1> QED
  BY <1>1, <1>4, <1>5, InBelow

LEMMA SameMarksSym ==
  ASSUME NEW s, NEW t, SameMarks(s, t)
  PROVE  SameMarks(t, s)
BY DEF SameMarks

\* All of it when only f moved.
LEMMA SameSettles ==
  ASSUME SameInv, fo \in [Writers -> FetchState], NEW f \in Writers, NEW t,
         fo' = [fo EXCEPT ![f] = t], ChainOK(t), SameMarks(t, t),
         \A g \in Writers : g # f => SameMarks(t, fo[g])
  PROVE  SameInv'
<1>1. fo'[f] = t /\ \A g \in Writers : g # f => fo'[g] = fo[g]
  OBVIOUS
<1>2. \A g \in Writers : g # f => SameMarks(fo[g], t)
  BY SameMarksSym
<1>3. \A g \in Writers : ChainOK(fo'[g])
  BY <1>1 DEF SameInv
<1>4. \A g, h \in Writers : SameMarks(fo'[g], fo'[h])
  BY <1>1, <1>2 DEF SameInv
<1> QED
  BY <1>3, <1>4 DEF SameInv

\* A fetch that has merged nothing stands at the top of the band.
LEMMA FreshSame ==
  ASSUME NEW t, t.got = {}, t.next = IdBase
  PROVE  /\ ChainOK(t) /\ SameMarks(t, t)
         /\ \A u : ChainOK(u) => SameMarks(t, u)
<1>1. \A m \in Marks(t) : m.from = IdBase /\ Below(t, m.i) = {}
  <2> SUFFICES ASSUME NEW m \in Marks(t)
      PROVE  m.from = IdBase /\ Below(t, m.i) = {}
    OBVIOUS
  <2>1. m = [i |-> t.i, from |-> t.next]
    BY InMarks
  <2> QED
    BY <2>1, InBelow
<1> QED
  BY <1>1 DEF ChainOK, SameMarks

\* A type that fails or changes hands leaves the ids where they stood.
LEMMA KeptSame ==
  ASSUME NEW s \in FetchState, NEW t \in FetchState, IdsOK(s), ChainOK(s), SameMarks(s, s),
         t.got = s.got, t.next = s.next, t.i = s.i \/ t.i = s.i + 1
  PROVE  /\ ChainOK(t) /\ SameMarks(t, t)
         /\ \A u : SameMarks(s, u) => SameMarks(t, u)
<1>0. s.i \in Nat /\ \A a \in s.got : a.i \in Nat /\ a.i < s.i
  BY DEF FetchState, Merged, IdsOK
<1>1. ASSUME NEW m \in Marks(t)
      PROVE  \E n \in Marks(s) : /\ n.from = m.from
                                 /\ \A a \in s.got : a.i < n.i <=> a.i < m.i
  <2>1. CASE \E a \in s.got : m = [i |-> a.i, from |-> a.from]
    BY <2>1, InMarks
  <2>2. CASE m = [i |-> t.i, from |-> t.next]
    <3> DEFINE n == [i |-> s.i, from |-> s.next]
    <3>1. n \in Marks(s) /\ n.from = m.from /\ n.i = s.i /\ m.i = t.i
      BY <2>2, InMarks
    <3>2. \A a \in s.got : a.i < s.i /\ a.i < t.i
      BY <1>0
    <3> QED
      BY <3>1, <3>2
  <2> QED
    BY <2>1, <2>2, InMarks
<1>2. ASSUME NEW m \in Marks(t)
      PROVE  \E n \in Marks(s) : /\ n.from = m.from /\ Below(s, n.i) = Below(t, m.i)
                                 /\ \A a \in s.got : a.i < n.i <=> a.i < m.i
  <2>1. PICK n \in Marks(s) : n.from = m.from /\ \A a \in s.got : a.i < n.i <=> a.i < m.i
    BY <1>1
  <2>2. Below(s, n.i) = Below(t, m.i)
    BY <2>1 DEF Below
  <2> QED
    BY <2>1, <2>2
<1>3. ChainOK(t)
  <2> SUFFICES ASSUME NEW m \in Marks(t)
      PROVE  /\ Below(t, m.i) = {} => m.from = IdBase
             /\ \A a \in t.got : a.i < m.i /\ (\A b \in t.got : b.i < m.i => b.i <= a.i)
                                 => m.from = a.from - a.needs
    BY DEF ChainOK
  <2>1. PICK n \in Marks(s) : /\ n.from = m.from /\ Below(s, n.i) = Below(t, m.i)
                              /\ \A a \in s.got : a.i < n.i <=> a.i < m.i
    BY <1>2
  <2> QED
    BY <2>1 DEF ChainOK
<1>4. \A u : SameMarks(s, u) => SameMarks(t, u)
  BY <1>2 DEF SameMarks
<1>5. SameMarks(t, t)
  BY <1>4, SameMarksSym
<1> QED
  BY <1>3, <1>4, <1>5

\* t is what s becomes when the body of version v, which takes n ids, is merged.
Merges(s, t, v, n) ==
  /\ t.got = s.got \cup {[i |-> s.i, ver |-> v, from |-> s.next, needs |-> n]}
  /\ t.next = s.next - n /\ t.i = s.i + 1

LEMMA MergedMarks ==
  ASSUME NEW s \in FetchState, NEW t \in FetchState, NEW v \in Versions, NEW n \in Nat,
         IdsOK(s), Merges(s, t, v, n)
  PROVE  /\ \A m \in Marks(s) : m.i <= s.i /\ m.i \in Nat /\ Below(t, m.i) = Below(s, m.i)
         /\ \A m \in Marks(t) : m \in Marks(s) \/ m = [i |-> s.i + 1, from |-> t.next]
         /\ Below(t, s.i + 1) = Below(s, s.i) \cup {<<s.i, v>>}
         /\ \A x \in Below(s, s.i) : \E a \in s.got : x = <<a.i, a.ver>> /\ a.i < s.i
<1> DEFINE new == [i |-> s.i, ver |-> v, from |-> s.next, needs |-> n]
<1>0. /\ s.i \in Nat /\ \A a \in s.got : a.i \in Nat /\ a.i < s.i
      /\ new.i = s.i /\ new.ver = v /\ new.from = s.next
      /\ t.got = s.got \cup {new} /\ t.i = s.i + 1
  BY DEF FetchState, Merged, IdsOK, Merges
<1> HIDE DEF new
<1>1. ASSUME NEW m \in Marks(s)
      PROVE  m.i <= s.i /\ m.i \in Nat
  <2>1. CASE \E a \in s.got : m = [i |-> a.i, from |-> a.from]
    <3>1. PICK a \in s.got : m = [i |-> a.i, from |-> a.from]
      BY <2>1
    <3>2. m.i = a.i
      BY <3>1
    <3> QED
      BY <1>0, <3>2
  <2>2. CASE m = [i |-> s.i, from |-> s.next]
    BY <1>0, <2>2
  <2> QED
    BY <2>1, <2>2, InMarks
<1>2. ASSUME NEW k \in Nat, k <= s.i
      PROVE  Below(t, k) = Below(s, k)
  <2>1. \A a \in t.got : a.i < k <=> a \in s.got /\ a.i < k
    BY <1>0, <1>2
  <2>2. {a \in t.got : a.i < k} = {a \in s.got : a.i < k}
    BY <1>0, <2>1
  <2> QED
    BY <2>2 DEF Below
<1>3. ASSUME NEW m \in Marks(t)
      PROVE  m \in Marks(s) \/ m = [i |-> s.i + 1, from |-> t.next]
  <2>1. CASE \E a \in t.got : m = [i |-> a.i, from |-> a.from]
    <3>1. PICK a \in t.got : m = [i |-> a.i, from |-> a.from]
      BY <2>1
    <3> QED
      BY <1>0, <3>1, InMarks
  <2>2. CASE m = [i |-> t.i, from |-> t.next]
    BY <1>0, <2>2
  <2> QED
    BY <2>1, <2>2, InMarks
<1>4. Below(t, s.i + 1) = Below(s, s.i) \cup {<<s.i, v>>}
  <2>1. new.i < s.i + 1 /\ \A a \in s.got : a.i < s.i /\ a.i < s.i + 1
    BY <1>0
  <2>2. \A x : x \in Below(t, s.i + 1) <=> \E a \in t.got : x = <<a.i, a.ver>>
    BY <1>0, <2>1, InBelow
  <2>3. \A x : x \in Below(s, s.i) <=> \E a \in s.got : x = <<a.i, a.ver>>
    BY <2>1, InBelow
  <2> QED
    BY <1>0, <2>2, <2>3
<1>5. \A x \in Below(s, s.i) : \E a \in s.got : x = <<a.i, a.ver>> /\ a.i < s.i
  BY InBelow
<1> QED
  BY <1>1, <1>2, <1>3, <1>4, <1>5

LEMMA MergedChain ==
  ASSUME NEW s \in FetchState, NEW t \in FetchState, NEW v \in Versions, NEW n \in Nat,
         IdsOK(s), ChainOK(s), Merges(s, t, v, n)
  PROVE  ChainOK(t)
<1> DEFINE new == [i |-> s.i, ver |-> v, from |-> s.next, needs |-> n]
<1>0. /\ s.i \in Nat /\ \A a \in s.got : a.i \in Nat /\ a.i < s.i
      /\ new.i = s.i /\ new.ver = v /\ new.from = s.next /\ new.needs = n
      /\ t.got = s.got \cup {new} /\ t.next = s.next - n
  BY DEF FetchState, Merged, IdsOK, Merges
<1> HIDE DEF new
<1> SUFFICES ASSUME NEW m \in Marks(t)
    PROVE  /\ Below(t, m.i) = {} => m.from = IdBase
           /\ \A a \in t.got : a.i < m.i /\ (\A b \in t.got : b.i < m.i => b.i <= a.i)
                               => m.from = a.from - a.needs
  BY DEF ChainOK
<1>1. CASE m \in Marks(s)
  <2>1. m.i <= s.i /\ m.i \in Nat /\ Below(t, m.i) = Below(s, m.i)
    BY <1>1, MergedMarks
  <2>2. Below(s, m.i) = {} => m.from = IdBase
    BY <1>1 DEF ChainOK
  <2>3. ASSUME NEW a \in t.got, a.i < m.i, \A b \in t.got : b.i < m.i => b.i <= a.i
        PROVE  m.from = a.from - a.needs
    <3>1. a \in s.got /\ \A b \in s.got : b.i < m.i => b.i <= a.i
      BY <1>0, <2>1, <2>3
    <3> QED
      BY <1>1, <2>3, <3>1 DEF ChainOK
  <2> QED
    BY <2>1, <2>2, <2>3
<1>2. CASE m = [i |-> s.i + 1, from |-> t.next]
  <2>1. m.i = s.i + 1 /\ m.from = s.next - n
    BY <1>0, <1>2
  <2>2. Below(t, m.i) # {}
    <3>1. Below(t, s.i + 1) = Below(s, s.i) \cup {<<s.i, v>>}
      BY MergedMarks
    <3> QED
      BY <2>1, <3>1
  <2>3. ASSUME NEW a \in t.got, a.i < m.i, \A b \in t.got : b.i < m.i => b.i <= a.i
        PROVE  a = new
    <3>1. new \in t.got /\ new.i < m.i
      BY <1>0, <2>1
    <3>2. s.i <= a.i
      BY <1>0, <2>3, <3>1
    <3> QED
      BY <1>0, <3>2
  <2> QED
    BY <1>0, <2>1, <2>2, <2>3
<1> QED
  BY <1>1, <1>2, MergedMarks

LEMMA MergedSame ==
  ASSUME NEW s \in FetchState, NEW t \in FetchState, NEW v \in Versions, NEW n \in Nat,
         IdsOK(s), Merges(s, t, v, n),
         NEW u \in FetchState, ChainOK(u), SameMarks(s, u),
         \A a \in u.got : a.ver = v => a.needs = n
  PROVE  SameMarks(t, u)
<1>0. /\ s.i \in Nat /\ s.next \in Int /\ t.next = s.next - n
      /\ \A a \in s.got : a.i \in Nat /\ a.i < s.i
      /\ \A a \in u.got : a.i \in Nat
  BY DEF FetchState, Merged, IdsOK, Merges
<1> SUFFICES ASSUME NEW m \in Marks(t), NEW k \in Marks(u), Below(t, m.i) = Below(u, k.i)
    PROVE  m.from = k.from
  BY DEF SameMarks
<1>1. CASE m \in Marks(s)
  BY <1>1, MergedMarks DEF SameMarks
<1>2. CASE m = [i |-> s.i + 1, from |-> t.next]
  <2>1. m.i = s.i + 1 /\ m.from = s.next - n
    BY <1>0, <1>2
  <2>2. Below(u, k.i) = Below(s, s.i) \cup {<<s.i, v>>}
    BY <2>1, MergedMarks
  <2>3. PICK a \in u.got : a.i < k.i /\ <<s.i, v>> = <<a.i, a.ver>>
    <3>1. <<s.i, v>> \in Below(u, k.i)
      BY <2>2
    <3> QED
      BY <3>1, InBelow
  <2>4. a.i = s.i /\ a.ver = v /\ a.needs = n
    BY <2>3
  <2>5. \A b \in u.got : b.i < k.i => \/ b.i < s.i /\ <<b.i, b.ver>> \in Below(s, s.i)
                                      \/ b.i = s.i
    <3> SUFFICES ASSUME NEW b \in u.got, b.i < k.i
        PROVE  (b.i < s.i /\ <<b.i, b.ver>> \in Below(s, s.i)) \/ b.i = s.i
      OBVIOUS
    <3>1. <<b.i, b.ver>> \in Below(s, s.i) \cup {<<s.i, v>>}
      BY <2>2, InBelow
    <3>2. CASE <<b.i, b.ver>> \in Below(s, s.i)
      <4>1. PICK c \in s.got : c.i < s.i /\ <<b.i, b.ver>> = <<c.i, c.ver>>
        BY <3>2, InBelow
      <4> QED
        BY <3>2, <4>1
    <3> QED
      BY <3>1, <3>2
  <2>6. k.from = a.from - n
    <3>1. ASSUME NEW b \in u.got, b.i < k.i
          PROVE  b.i <= a.i
      <4>1. b.i < s.i \/ b.i = s.i
        BY <2>5, <3>1
      <4> QED
        BY <1>0, <2>4, <4>1
    <3> QED
      BY <2>3, <2>4, <3>1 DEF ChainOK
  <2>7. Below(u, s.i) = Below(s, s.i)
    <3>1. ASSUME NEW x \in Below(u, s.i)
          PROVE  x \in Below(s, s.i)
      <4>1. PICK b \in u.got : b.i < s.i /\ x = <<b.i, b.ver>>
        BY <3>1, InBelow
      <4>2. a.i < k.i /\ k.i \in Nat
        BY <2>3, MarksTyped
      <4>3. b.i < k.i /\ b.i # s.i
        BY <1>0, <2>4, <4>1, <4>2
      <4> QED
        BY <2>5, <4>1, <4>3
    <3>2. ASSUME NEW x \in Below(s, s.i)
          PROVE  x \in Below(u, s.i)
      <4>1. PICK c \in s.got : c.i < s.i /\ x = <<c.i, c.ver>>
        BY <3>2, InBelow
      <4>2. x \in Below(u, k.i)
        BY <2>2, <3>2
      <4>3. PICK b \in u.got : b.i < k.i /\ x = <<b.i, b.ver>>
        BY <4>2, InBelow
      <4>4. b.i = c.i
        BY <4>1, <4>3
      <4> QED
        BY <4>1, <4>3, <4>4, InBelow
    <3> QED
      BY <3>1, <3>2
  <2>8. a.from = s.next
    <3> DEFINE x == [i |-> s.i, from |-> s.next]
               y == [i |-> a.i, from |-> a.from]
    <3>1. x \in Marks(s) /\ y \in Marks(u)
      BY InMarks
    <3>2. Below(s, x.i) = Below(u, y.i)
      BY <2>4, <2>7
    <3>3. x.from = y.from
      BY <3>1, <3>2 DEF SameMarks
    <3> QED
      BY <3>3
  <2> QED
    BY <2>1, <2>6, <2>8
<1> QED
  BY <1>1, <1>2, MergedMarks

\* What one step makes of the ids of the fetch that takes it.
Keeps(s, t) == t.got = s.got /\ t.next = s.next /\ (t.i = s.i \/ t.i = s.i + 1)
Fresh(t)    == t.got = {} /\ t.next = IdBase

LEMMA PairFailsKeeps ==
  ASSUME NEW s \in FetchState
  PROVE  Keeps(s, PairFails(s))
<1> DEFINE u == [s EXCEPT !.failed = @ \cup {s.i}]
           l == Leaves(u, "loop")
<1>1. s.i \in Nat /\ s.failed \cup {s.i} \subseteq Nat
  BY DEF FetchState
<1>2. u \in FetchState /\ u.got = s.got /\ u.next = s.next /\ u.i = s.i
  BY <1>1 DEF FetchState
<1>3. PairFails(s) = IF s.strict THEN Returns(u, FALSE) ELSE [l EXCEPT !.i = @ + 1]
  BY DEF PairFails
<1> HIDE DEF u
<1>4. CASE s.strict
  BY <1>2, <1>3, <1>4, ReturnsTyped DEF Keeps
<1>5. CASE ~s.strict
  <2>1. l \in FetchState /\ l.got = s.got /\ l.next = s.next /\ l.i = s.i
    BY <1>2, LeavesTyped
  <2> HIDE DEF l
  <2> QED
    BY <1>3, <1>5, <2>1 DEF Keeps, FetchState
<1> QED
  BY <1>4, <1>5

LEMMA LoopFromFresh ==
  ASSUME NEW s \in FetchState, NEW cli \in CliVersions, PathOK(s), ~Looping(s), s.pc # "done"
  PROVE  Fresh(LoopFrom(s, cli))
<1> DEFINE l == Leaves(s, "loop")
<1>1. l \in FetchState /\ l.got = {} /\ l.next = IdBase
  BY LeavesTyped DEF PathOK, PlaceOK
<1>2. LoopFrom(s, cli) = [l EXCEPT !.cli = cli, !.i = 1]
  BY DEF LoopFrom
<1> HIDE DEF l
<1> QED
  BY <1>1, <1>2 DEF Fresh, FetchState

LEMMA BrokenKeeps ==
  ASSUME NEW s \in FetchState, PathOK(s), s.pc = "wait"
  PROVE  Keeps(s, Broken(s)) \/ Fresh(Broken(s))
<1>1. s.stage \in {"avail", "probe", "download"} /\ s.strict \in BOOLEAN
  BY DEF PathOK, PlaceOK, FetchState
<1>2. CASE s.stage = "avail"
  BY <1>1, <1>2, ReturnsTyped DEF Broken, Keeps
<1>3. CASE s.stage = "probe"
  <2>1. ~Looping(s)
    BY <1>3 DEF Looping, InPair
  <2> QED
    BY <1>3, <2>1, LoopFromFresh DEF Broken, CliVersions
<1>4. CASE s.stage = "download"
  BY <1>4, PairFailsKeeps DEF Broken
<1> QED
  BY <1>1, <1>2, <1>3, <1>4

LEMMA SameKept ==
  ASSUME RunInv, SameInv, NEW f \in Writers, NEW t \in FetchState,
         fo' = [fo EXCEPT ![f] = t], Keeps(fo[f], t) \/ Fresh(t)
  PROVE  SameInv'
<1>1. /\ fo \in [Writers -> FetchState] /\ fo[f] \in FetchState /\ IdsOK(fo[f])
      /\ \A g \in Writers : ChainOK(fo[g]) /\ SameMarks(fo[f], fo[g])
  BY DEF RunInv, RunTypes, PathOK, SameInv
<1>2. /\ ChainOK(t) /\ SameMarks(t, t)
      /\ \A g \in Writers : g # f => SameMarks(t, fo[g])
  <2>1. CASE Keeps(fo[f], t)
    BY <1>1, <2>1, KeptSame DEF Keeps
  <2>2. CASE Fresh(t)
    BY <1>1, <2>2, FreshSame DEF Fresh
  <2> QED
    BY <2>1, <2>2
<1> QED
  BY <1>1, <1>2, SameSettles

LEMMA SameMerges ==
  ASSUME RunInv, SameInv, NEW f \in Writers, Parse(f), made[fo[f].ver].good
  PROVE  SameInv'
<1> DEFINE s == fo[f]
           b == made[s.ver]
           t == MergedWith(s, b)
           new == [i |-> s.i, ver |-> s.ver, from |-> s.next, needs |-> b.needs]
<1>1. /\ fo \in [Writers -> FetchState] /\ s \in FetchState /\ IdsOK(s) /\ PathOK(s)
      /\ s.pc = "parse" /\ s.ver \in Versions
      /\ \A g \in Writers : ChainOK(fo[g]) /\ SameMarks(s, fo[g])
  BY DEF RunInv, RunTypes, PathOK, SameInv, Parse, FetchState
<1>2. b \in Download /\ b.needs \in Nat /\ InPair(s)
  BY <1>1, FetchFacts DEF HandsOK, Sound, RunInv, RunTypes, Download, InPair
<1>3. fo' = [fo EXCEPT ![f] = t]
  BY DEF Parse, Goes
<1>4. t \in FetchState /\ Merges(s, t, s.ver, b.needs)
  BY <1>1, <1>2, MergedWithTyped DEF Merges
<1>5. \A g \in Writers : \A a \in fo[g].got : a.ver = s.ver => a.needs = b.needs
  BY DEF RunInv, HandsOK
<1> HIDE DEF t, b
<1>6. ChainOK(t)
  BY <1>1, <1>2, <1>4, MergedChain
<1>7. \A g \in Writers : SameMarks(t, fo[g])
  BY <1>1, <1>2, <1>4, <1>5, MergedSame
<1>8. SameMarks(s, t)
  BY <1>7, SameMarksSym
<1>9. \A a \in t.got : a.ver = s.ver => a.needs = b.needs
  <2>1. t.got = s.got \cup {new}
    BY <1>4 DEF Merges
  <2> QED
    BY <1>5, <2>1
<1>10. SameMarks(t, t)
  BY <1>1, <1>2, <1>4, <1>6, <1>8, <1>9, MergedSame
<1> QED
  BY <1>1, <1>3, <1>6, <1>7, <1>10, SameSettles

\* Every step but a merge, and what it makes of the fetch that takes it.
LEMMA OneKeeps ==
  ASSUME RunInv, RunInv', RunNext
  PROVE  \/ fo' = fo
         \/ \E f \in Writers : Parse(f) /\ made[fo[f].ver].good
         \/ \E f \in Writers : \E t \in FetchState :
              fo' = [fo EXCEPT ![f] = t] /\ (Keeps(fo[f], t) \/ Fresh(t))
<1>0. /\ fo \in [Writers -> FetchState] /\ fo' \in [Writers -> FetchState]
      /\ \A f \in Writers : PathOK(fo[f])
  BY DEF RunInv, RunTypes
<1>1. ASSUME NEW f \in Writers, NEW t, fo' = [fo EXCEPT ![f] = t], Keeps(fo[f], t) \/ Fresh(t)
      PROVE  \E g \in Writers : \E u \in FetchState :
               fo' = [fo EXCEPT ![g] = u] /\ (Keeps(fo[g], u) \/ Fresh(u))
  <2>1. t \in FetchState
    BY <1>0, <1>1
  <2> QED
    BY <1>1, <2>1
<1>2. CASE TimePasses
  BY <1>2 DEF TimePasses, overture
<1>3. ASSUME NEW f \in Writers, \/ \E strict \in Asks[f] : Begin(f, strict) \/ Disabled(f, strict)
                                \/ ChildEnds(f) \/ OwnStep(f)
      PROVE  \/ fo' = fo
             \/ Parse(f) /\ made[fo[f].ver].good
             \/ \E t : fo' = [fo EXCEPT ![f] = t] /\ (Keeps(fo[f], t) \/ Fresh(t))
  <2> DEFINE s == fo[f]
  <2>0. s \in FetchState /\ PathOK(s)
    BY <1>0
  <2>1. CASE \E strict \in Asks[f] : Begin(f, strict)
    <3>1. PICK strict \in Asks[f] :
            fo' = [fo EXCEPT ![f] = [Idle EXCEPT !.pc = "wait", !.stage = "avail",
                                                 !.strict = strict]]
      BY <2>1 DEF Begin, Goes
    <3>2. Fresh([Idle EXCEPT !.pc = "wait", !.stage = "avail", !.strict = strict])
      BY DEF Fresh, Idle
    <3> QED
      BY <3>1, <3>2
  <2>2. CASE \E strict \in Asks[f] : Disabled(f, strict)
    <3>1. PICK strict \in Asks[f] : fo' = [fo EXCEPT ![f] =
                                             Returns([Idle EXCEPT !.strict = strict], ~strict)]
      BY <2>2 DEF Disabled, Goes
    <3>2. strict \in BOOLEAN /\ (~strict) \in BOOLEAN
      BY OvertureAssumption
    <3> DEFINE u == [Idle EXCEPT !.strict = strict]
    <3>3. u \in FetchState
      BY <3>2, IdleFetch
    <3>4. u.got = {} /\ u.next = IdBase
      BY DEF Idle
    <3>5. fo' = [fo EXCEPT ![f] = Returns(u, ~strict)]
      BY <3>1
    <3> HIDE DEF u
    <3>6. Fresh(Returns(u, ~strict))
      BY <3>2, <3>3, <3>4, ReturnsTyped DEF Fresh
    <3> QED
      BY <3>5, <3>6
  <2>3. CASE NoStatus(f) /\ s.pc = "wait"
    BY <2>0, <2>3, BrokenKeeps DEF NoStatus
  <2>4. CASE Succeeds(f)
    <3>1. s.pc = "wait" /\ s.stage \in {"avail", "probe", "download"}
      BY <2>0, <2>4 DEF Succeeds, PathOK, PlaceOK, FetchState
    <3>2. CASE s.stage = "avail"
      BY <2>0, <2>4, <3>2, LeavesTyped DEF Succeeds, Goes, Keeps
    <3>3. CASE s.stage = "probe"
      <4>1. ~Looping(s)
        BY <3>1, <3>3 DEF Looping, InPair
      <4> QED
        BY <2>0, <2>4, <3>1, <3>3, <4>1, LoopFromFresh DEF Succeeds, Goes, CliVersions
    <3>4. CASE s.stage = "download"
      <4>1. Keeps(s, [s EXCEPT !.pc = "output", !.exit = "good"])
        BY <2>0 DEF Keeps, FetchState
      <4> QED
        BY <2>4, <3>4, <4>1 DEF Succeeds, Goes
    <3> QED
      BY <3>1, <3>2, <3>3, <3>4
  <2>5. CASE ProbeVersion(f)
    <3>1. Keeps(s, [s EXCEPT !.pc = "wait", !.stage = "probe"])
      BY <2>0 DEF Keeps, FetchState
    <3> QED
      BY <2>5, <3>1 DEF ProbeVersion, Goes
  <2>6. CASE KnowsVersion(f)
    <3>1. s.pc = "version" /\ probe \in CliVersions /\ ~Looping(s)
      BY <2>6 DEF KnowsVersion, Looping, InPair
    <3> QED
      BY <2>0, <2>6, <3>1, LoopFromFresh DEF KnowsVersion, Goes
  <2>7. CASE LooksFresh(f)
    <3>1. Keeps(s, [s EXCEPT !.pc = "cached"])
      BY <2>0 DEF Keeps, FetchState
    <3> QED
      BY <2>7, <3>1 DEF LooksFresh, Goes
  <2>8. CASE Misses(f)
    <3>1. Keeps(s, ToDownload(s))
      BY <2>0 DEF ToDownload, Keeps, FetchState
    <3> QED
      BY <2>8, <3>1 DEF Misses, Goes
  <2>9. CASE ReadsBody(f) \/ WriteGoesOn(f)
    BY <2>9 DEF ReadsBody, WriteGoesOn, overture
  <2>10. CASE TakesBody(f)
    <3>1. Keeps(s, ToDownload(s))
      BY <2>0 DEF ToDownload, Keeps, FetchState
    <3>2. Keeps(s, [s EXCEPT !.pc = "parse", !.ver = rd[f].out.ver])
      BY <2>0 DEF Keeps, FetchState
    <3> QED
      BY <2>10, <3>1, <3>2 DEF TakesBody, Goes
  <2>11. CASE \E needs \in Needs, good \in BOOLEAN : StoreOutput(f, needs, good)
    <3>1. Keeps(s, [s EXCEPT !.pc = "write", !.ver = version + 1,
                             !.stage = "none", !.exit = "none"])
      BY <2>0 DEF Keeps, FetchState
    <3> QED
      BY <2>11, <3>1 DEF StoreOutput, Goes
  <2>12. CASE OutputUnreadable(f) \/ WriteFails(f)
    BY <2>0, <2>12, PairFailsKeeps DEF OutputUnreadable, WriteFails, Goes
  <2>13. CASE Written(f)
    <3>1. Keeps(s, [s EXCEPT !.pc = "parse"])
      BY <2>0 DEF Keeps, FetchState
    <3> QED
      BY <2>13, <3>1 DEF Written, Goes
  <2>14. CASE Parse(f)
    <3>1. made[s.ver].good \/ fo' = [fo EXCEPT ![f] = PairFails(s)]
      BY <2>14 DEF Parse, Goes
    <3> QED
      BY <2>0, <2>14, <3>1, PairFailsKeeps
  <2>15. CASE LoopEnds(f)
    BY <2>0, <2>15, ReturnsTyped DEF LoopEnds, Goes, Keeps
  <2>16. CASE Finish(f)
    <3>1. Fresh(Idle)
      BY DEF Fresh, Idle
    <3> QED
      BY <2>16, <3>1 DEF Finish, Goes
  <2> QED
    BY <1>3, <2>1, <2>2, <2>3, <2>4, <2>5, <2>6, <2>7, <2>8, <2>9, <2>10, <2>11, <2>12,
       <2>13, <2>14, <2>15, <2>16 DEF ChildEnds, NoUse, TimesOut, OwnStep, PairStep
<1> QED
  BY <1>1, <1>2, <1>3 DEF RunNext

LEMMA SameStep == RunInv /\ RunInv' /\ SameInv /\ [RunNext]_all => SameInv'
<1> SUFFICES ASSUME RunInv, RunInv', SameInv, [RunNext]_all PROVE SameInv'
  OBVIOUS
<1>1. CASE fo' = fo
  BY <1>1 DEF SameInv, ChainOK, SameMarks, Marks, Below
<1>2. CASE RunNext
  BY <1>1, <1>2, OneKeeps, SameKept, SameMerges
<1> QED
  BY <1>1, <1>2 DEF all

LEMMA SameStarts == RunInit => SameInv
<1> SUFFICES ASSUME RunInit PROVE SameInv
  OBVIOUS
<1>1. fo = [f \in Writers |-> Idle] /\ Idle.got = {} /\ Idle.next = IdBase
  BY DEF RunInit, Idle
<1>2. ChainOK(Idle) /\ SameMarks(Idle, Idle)
  BY <1>1, FreshSame
<1> QED
  BY <1>1, <1>2 DEF SameInv

(* Two fetches that merged the same bodies gave every feature the same id,  *)
(* whatever each of them failed at, waited for or shared with the others:   *)
(* an id depends on the bodies below it alone.                              *)
THEOREM SameBodiesDrawSameIds == RunSpec => []SameBodiesSameIds
<1>1. RunInv /\ SameInv => SameBodiesSameIds
  <2> SUFFICES ASSUME RunInv, SameInv, NEW f \in Writers, NEW g \in Writers,
                      BodiesOf(fo[f]) = BodiesOf(fo[g])
      PROVE  fo[f].got = fo[g].got
    BY DEF SameBodiesSameIds, BodiesOf
  <2>0. \A h \in Writers : /\ fo[h].got \subseteq Merged /\ HandsOK(h)
                           /\ \A k \in Writers : SameMarks(fo[h], fo[k])
    BY DEF RunInv, RunTypes, FetchState, SameInv
  <2>1. ASSUME NEW h \in Writers, NEW k \in Writers, BodiesOf(fo[h]) = BodiesOf(fo[k]),
               NEW a \in fo[h].got
        PROVE  a \in fo[k].got
    <3>0. <<a.i, a.ver>> \in BodiesOf(fo[k])
      BY <2>1, InBodies
    <3>1. PICK b \in fo[k].got : <<a.i, a.ver>> = <<b.i, b.ver>>
      BY <3>0, InBodies
    <3>2. b.i = a.i /\ b.ver = a.ver /\ b.needs = a.needs
      BY <2>0, <3>1 DEF HandsOK
    <3>4. Below(fo[h], a.i) = Below(fo[k], a.i)
      BY <2>1, BodiesBelow
    <3> DEFINE m == [i |-> a.i, from |-> a.from]
               n == [i |-> b.i, from |-> b.from]
    <3>5. m \in Marks(fo[h]) /\ n \in Marks(fo[k])
      BY InMarks
    <3>6. Below(fo[h], m.i) = Below(fo[k], n.i)
      BY <3>2, <3>4
    <3>7. m.from = n.from
      BY <2>0, <3>5, <3>6 DEF SameMarks
    <3>8. a.from = b.from /\ a \in Merged /\ b \in Merged
      BY <2>0, <3>7
    <3>9. a = b
      BY <3>2, <3>8 DEF Merged
    <3> QED
      BY <3>9
  <2>2. fo[f].got \subseteq fo[g].got
    BY <2>1
  <2>3. fo[g].got \subseteq fo[f].got
    BY <2>1
  <2> QED
    BY <2>2, <2>3
<1> QED
  BY <1>1, RunInvariant, SameStarts, SameStep, PTL DEF RunSpec

(***************************************************************************)
(* Composition: fetches are users of the cache, so what holds of the cache *)
(* for any users holds under them.                                         *)
(***************************************************************************)

(* Fetches that share a cache use it only as RawCache says: every theorem   *)
(* about the cache holds while they run.                                    *)
THEOREM RunsUseTheCache == RunSpec => Spec
<1>1. RunInit => Init
  BY DEF RunInit
<1>2. RunInv /\ [RunNext]_all => [Next]_vars
  <2> SUFFICES ASSUME RunInv, [RunNext]_all PROVE [Next]_vars
    OBVIOUS
  <2>1. CASE UNCHANGED all
    BY <2>1 DEF all, vars
  <2>2. CASE RunNext
    BY <2>2, CacheSteps DEF RunInv
  <2> QED
    BY <2>1, <2>2
<1> QED
  BY <1>1, <1>2, RunInvariant, PTL DEF RunSpec, Spec

(* A directory that only Overture fetches write to is an atomic map for all *)
(* of them, as long as nothing sweeps it.                                   *)
THEOREM RunsAreAtomic ==
  ASSUME Sweepers = {}
  PROVE  RunSpec => IsAtomicMap
<1>1. Spec => IsAtomicMap
  BY WritesAreAtomic, OvertureAssumption
<1> QED
  BY <1>1, RunsUseTheCache, PTL
=============================================================================
