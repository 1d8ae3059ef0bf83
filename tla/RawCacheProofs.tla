--------------------------- MODULE RawCacheProofs ---------------------------
(***************************************************************************)
(* Proofs about RawCache for every set of keys and threads, every cap,     *)
(* every bound and every choice of faults.                                 *)
(***************************************************************************)
EXTENDS RawCacheProps, TLAPS

(***************************************************************************)
(* Types of the records each thread keeps, and what the helpers return.    *)
(***************************************************************************)

LEMMA IdleWriterTyped == IdleWriter \in WriterState
BY CacheAssumption DEF IdleWriter, WriterState, Versions, Times

LEMMA WriterFields ==
  ASSUME NEW r \in WriterState
  PROVE  /\ r.ver \in Versions /\ r.at \in Times /\ r.key \in Keys \cup {NoKey}
         /\ r.got \in Nat /\ r.len \in Nat
BY DEF WriterState

LEMMA WriterMoves ==
  ASSUME NEW r \in WriterState, NEW p \in {"meta", "data", "handed", "toobig"}
  PROVE  [r EXCEPT !.pc = p] \in WriterState
BY DEF WriterState

LEMMA WriterStarts ==
  ASSUME NEW r \in WriterState, NEW t \in Times
  PROVE  [r EXCEPT !.pc = "meta", !.at = t] \in WriterState
BY DEF WriterState

LEMMA WriterCopies ==
  ASSUME NEW r \in WriterState
  PROVE  [r EXCEPT !.got = @ + 1] \in WriterState
BY DEF WriterState

LEMMA SweeperMoves ==
  ASSUME NEW r \in SweeperState, NEW p \in {"sweep", "meta", "done"}
  PROVE  [r EXCEPT !.pc = p] \in SweeperState
BY DEF SweeperState

LEMMA SweeperCounts ==
  ASSUME NEW r \in SweeperState
  PROVE  [r EXCEPT !.pc = "sweep", !.deleted = r.deleted + 1] \in SweeperState
<1>1. r.deleted + 1 \in Nat
  BY DEF SweeperState
<1> QED
  BY <1>1 DEF SweeperState

LEMMA NamesTyped == Names \subseteq FileName
BY DEF Names

LEMMA UnlinkedTyped ==
  ASSUME NEW S, NEW f \in [Keys -> S], NEW k, NEW g \in Unlinked(f, k), Absent \in S
  PROVE  /\ g \in [Keys -> S]
         /\ \A x \in Keys : g[x] # Absent => g[x] = f[x]
         /\ \A x \in Keys : x # k => g[x] = f[x]
BY DEF Unlinked, OnFault

LEMMA InitTyped == Init => TypeOK
<1> SUFFICES ASSUME Init PROVE TypeOK
  OBVIOUS
<1> USE CacheAssumption DEF Init
<1>1. FirstMeta \in Meta /\ FirstBody \in Body
  BY DEF FirstMeta, FirstBody, Meta, Body, Versions, Times
<1>2. meta \in [Keys -> Meta \cup {Absent, Malformed}]
  BY <1>1
<1>3. data \in [Keys -> Body \cup {Absent}]
  BY <1>1
<1>4. wr \in [Writers -> WriterState]
  BY IdleWriterTyped
<1>5. rd \in [Readers -> ReaderState]
  BY DEF IdleReader, ReaderState
<1>6. sw \in [Sweepers -> SweeperState]
  BY DEF IdleSweeper, SweeperState, Times
<1> QED
  BY <1>2, <1>3, <1>4, <1>5, <1>6 DEF TypeOK, Versions, Times

(***************************************************************************)
(* Every step keeps the types.                                             *)
(***************************************************************************)

LEMMA WriterTyped ==
  ASSUME Typed, NEW w \in Writers,
         \/ \E k \in Keys : BeginWrite(w, k)
         \/ \E k \in Keys, len \in Lengths : BeginStream(w, k, len)
         \/ WriterStep(w)
         \/ WriterCrashes(w)
  PROVE  Typed'
<1> USE DEF Typed, ReaderHasKey, SweeperHasKey, TypeOK, aux
<1>0. wr[w] \in WriterState /\ (wr[w].pc # "idle" => wr[w].key \in Keys)
  BY DEF WriterHasKey
<1>1. CASE \E k \in Keys : BeginWrite(w, k)
  <2>1. PICK k \in Keys : BeginWrite(w, k)
    BY <1>1
  <2>2. version + 1 \in Versions
    BY <2>1, CacheAssumption DEF BeginWrite, Versions
  <2>3. [pc |-> "meta", op |-> "write", key |-> k, ver |-> version + 1,
         at |-> clock, got |-> 0, len |-> 0] \in WriterState
    BY <2>2 DEF WriterState
  <2> QED
    BY <2>1, <2>2, <2>3 DEF BeginWrite, WriterHasKey
<1>2. CASE \E k \in Keys, len \in Lengths : BeginStream(w, k, len)
  <2>1. PICK k \in Keys, len \in Lengths : BeginStream(w, k, len)
    BY <1>2
  <2>2. version + 1 \in Versions /\ len \in Nat /\ 0 \in Times
    BY <2>1, CacheAssumption DEF BeginStream, Versions, Times
  <2>3. [pc |-> "copying", op |-> "commit", key |-> k, ver |-> version + 1,
         at |-> 0, got |-> 0, len |-> len] \in WriterState
    BY <2>2 DEF WriterState
  <2> QED
    BY <2>1, <2>2, <2>3 DEF BeginStream, WriterHasKey
<1>3. CASE Copy(w)
  <2>1. wr' \in [Writers -> WriterState]
    BY <1>0, <1>3, WriterCopies DEF Copy
  <2> QED
    BY <1>3, <2>1 DEF Copy, WriterHasKey
<1>4. CASE FinishCopy(w)
  <2>1. wr' \in [Writers -> WriterState]
    BY <1>0, <1>4, WriterStarts DEF FinishCopy
  <2> QED
    BY <1>0, <1>4, <2>1 DEF FinishCopy, WriterHasKey
<1>5. CASE RejectOversized(w)
  <2>1. wr' \in [Writers -> WriterState]
    BY <1>0, <1>5, WriterMoves DEF RejectOversized
  <2> QED
    BY <1>0, <1>5, <2>1 DEF RejectOversized, WriterHasKey
<1>6. CASE CopyFails(w)
  BY <1>6, IdleWriterTyped DEF CopyFails, WriterHasKey, IdleWriter
<1>7. CASE PersistMeta(w)
  <2>1. [ver |-> wr[w].ver, at |-> wr[w].at] \in Meta
    BY <1>0, WriterFields DEF Meta
  <2>2. wr[w].key \in Keys /\ wr[w].ver \in Versions /\ clean' \subseteq Writers
    BY <1>0, <1>7, WriterFields DEF PersistMeta
  <2>3. wr' \in [Writers -> WriterState]
    BY <1>0, <1>7, WriterMoves DEF PersistMeta
  <2> QED
    BY <1>0, <1>7, <2>1, <2>2, <2>3 DEF PersistMeta, WriterHasKey
<1>8. CASE PersistData(w)
  <2>1. [ver |-> wr[w].ver, at |-> wr[w].at, got |-> wr[w].got, len |-> wr[w].len] \in Body
    BY <1>0, WriterFields DEF Body
  <2>2. wr[w].key \in Keys /\ torn' \subseteq Keys /\ clean' \subseteq Writers
    BY <1>0, <1>8 DEF PersistData
  <2> QED
    BY <1>8, <2>1, <2>2, IdleWriterTyped DEF PersistData, WriterHasKey, IdleWriter
<1>9. CASE CommitFails(w)
  <2>1. torn' \subseteq Keys
    BY <1>0, <1>9 DEF CommitFails, Abandoned
  <2>2. \/ wr' = [wr EXCEPT ![w] = IdleWriter]
        \/ wr' = [wr EXCEPT ![w].pc = "handed"]
    BY <1>9 DEF CommitFails
  <2>3. wr' \in [Writers -> WriterState]
    BY <1>0, <2>2, IdleWriterTyped, WriterMoves
  <2>4. WriterHasKey'
    <3>1. CASE wr' = [wr EXCEPT ![w] = IdleWriter]
      BY <3>1 DEF WriterHasKey, IdleWriter
    <3>2. CASE wr' = [wr EXCEPT ![w].pc = "handed"]
      BY <1>0, <1>9, <3>2 DEF CommitFails, WriterHasKey
    <3> QED
      BY <2>2, <3>1, <3>2
  <2> QED
    BY <1>9, <2>1, <2>3, <2>4 DEF CommitFails
<1>10. CASE DropTemp(w)
  BY <1>10, IdleWriterTyped DEF DropTemp, WriterHasKey, IdleWriter
<1>11. CASE WriterCrashes(w)
  <2>1. torn' \subseteq Keys
    BY <1>0, <1>11 DEF WriterCrashes, Abandoned
  <2> QED
    BY <1>11, <2>1, IdleWriterTyped DEF WriterCrashes, WriterHasKey, IdleWriter
<1> QED
  BY <1>1, <1>2, <1>3, <1>4, <1>5, <1>6, <1>7, <1>8, <1>9, <1>10, <1>11 DEF WriterStep

LEMMA ReaderTyped ==
  ASSUME Typed, NEW r \in Readers,
         (\E k \in Keys, ttl \in Ages : ReadMeta(r, k, ttl)) \/ ReadStep(r)
  PROVE  Typed'
<1> USE DEF Typed, WriterHasKey, SweeperHasKey, TypeOK, aux
<1>0. rd[r] \in ReaderState /\ (rd[r].pc # "idle" => rd[r].key \in Keys)
  BY DEF ReaderHasKey
<1>1. CASE \E k \in Keys, ttl \in Ages : ReadMeta(r, k, ttl)
  <2>1. PICK k \in Keys, ttl \in Ages : ReadMeta(r, k, ttl)
    BY <1>1
  <2>2. [pc |-> "data", key |-> k, ttl |-> ttl, vouch |-> meta[k], out |-> Absent]
          \in ReaderState
    BY <2>1 DEF ReadMeta, ReaderState
  <2> QED
    BY <2>1, <2>2 DEF ReadMeta, ReaderHasKey
<1>2. CASE ReadData(r)
  <2>1. PICK out \in {data[rd[r].key], Absent} :
          rd' = [rd EXCEPT ![r].pc = "done", ![r].out = out]
    BY <1>2 DEF ReadData, OnFault
  <2>2. out \in Body \cup {Absent}
    BY <1>0, <1>2 DEF ReadData
  <2>3. [rd[r] EXCEPT !.pc = "done", !.out = out] \in ReaderState
    BY <1>0, <2>2 DEF ReaderState
  <2>4. rd' \in [Readers -> ReaderState]
    BY <2>1, <2>3
  <2>5. ReaderHasKey'
    BY <1>0, <1>2, <2>1 DEF ReadData, ReaderHasKey
  <2> QED
    BY <1>2, <2>4, <2>5 DEF ReadData
<1>3. CASE Return(r)
  <2>1. IdleReader \in ReaderState
    BY CacheAssumption DEF IdleReader, ReaderState
  <2> QED
    BY <1>3, <2>1 DEF Return, ReaderHasKey, IdleReader
<1> QED
  BY <1>1, <1>2, <1>3 DEF ReadStep

LEMMA SweeperTyped ==
  ASSUME Typed, NEW s \in Sweepers,
         (\E age \in Ages : BeginClear(s, age) \/ ListingFails(s, age)) \/ SweepStep(s)
  PROVE  Typed'
<1> USE DEF Typed, WriterHasKey, ReaderHasKey, TypeOK, aux
<1>0. /\ sw[s] \in SweeperState
      /\ sw[s].pc \in {"orphan", "data", "meta"} => sw[s].key \in Keys
  BY DEF SweeperHasKey
<1>1. CASE \E age \in Ages : BeginClear(s, age)
  <2>1. PICK age \in Ages : BeginClear(s, age)
    BY <1>1
  <2>2. [pc |-> "sweep", age |-> age, now |-> clock, snap |-> Names, seen |-> {},
         key |-> NoKey, judged |-> Absent, deleted |-> 0] \in SweeperState
    BY NamesTyped DEF SweeperState
  <2> QED
    BY <2>1, <2>2 DEF BeginClear, SweeperHasKey
<1>9. ASSUME NEW age \in Ages, ListingFails(s, age) PROVE Typed'
  <2>1. IdleSweeper \in SweeperState
    BY CacheAssumption DEF IdleSweeper, SweeperState, Times
  <2>2. [IdleSweeper EXCEPT !.pc = "done", !.age = age] \in SweeperState
    BY <2>1 DEF SweeperState
  <2>3. [IdleSweeper EXCEPT !.pc = "done", !.age = age].pc = "done"
    BY <2>1 DEF SweeperState
  <2> QED
    BY <1>9, <2>2, <2>3 DEF ListingFails, SweeperHasKey
<1>2. ASSUME NEW k \in Keys, MeetData(s, k) PROVE Typed'
  <2>1. <<k, "data">> \in FileName
    BY DEF FileName
  <2>2. [sw[s] EXCEPT !.seen = @ \cup {<<k, "data">>}, !.key = k,
           !.pc = IF Orphan(k) THEN "orphan" ELSE "sweep"] \in SweeperState
    BY <1>0, <2>1 DEF SweeperState
  <2> QED
    BY <1>2, <2>2 DEF MeetData, SweeperHasKey
<1>3. ASSUME NEW k \in Keys, MeetMeta(s, k) PROVE Typed'
  <2>1. <<k, "meta">> \in FileName
    BY DEF FileName
  <2>2. PICK m \in {meta[k]} \cup OnFault(Malformed) :
          sw' = [sw EXCEPT ![s].seen = @ \cup {<<k, "meta">>}, ![s].key = k, ![s].judged = m,
                           ![s].pc = IF sw[s].age = NoAge \/ Old(s, m) THEN "data" ELSE "sweep"]
    BY <1>3 DEF MeetMeta
  <2>3. m \in Meta \cup {Absent, Malformed}
    BY DEF OnFault
  <2>4. [sw[s] EXCEPT !.seen = @ \cup {<<k, "meta">>}, !.key = k, !.judged = m,
           !.pc = IF sw[s].age = NoAge \/ Old(s, m) THEN "data" ELSE "sweep"]
          \in SweeperState
    BY <1>0, <2>1, <2>3 DEF SweeperState
  <2>5. sw' \in [Sweepers -> SweeperState]
    BY <2>2, <2>4
  <2>6. SweeperHasKey'
    BY <1>0, <2>2 DEF SweeperHasKey
  <2> QED
    BY <1>3, <2>5, <2>6 DEF MeetMeta
<1>4. CASE RemoveOrphan(s)
  <2>1. data' \in [Keys -> Body \cup {Absent}]
    BY <1>4, UnlinkedTyped DEF RemoveOrphan
  <2>2. sw' \in [Sweepers -> SweeperState]
    BY <1>0, <1>4, SweeperMoves DEF RemoveOrphan
  <2>3. SweeperHasKey'
    BY <1>0, <1>4 DEF RemoveOrphan, SweeperHasKey
  <2>4. clean' \subseteq Writers /\ quiet' \subseteq Sweepers /\ torn' = torn
    BY <1>4 DEF RemoveOrphan, Unlinks
  <2> QED
    BY <1>4, <2>1, <2>2, <2>3, <2>4 DEF RemoveOrphan
<1>5. CASE RemoveData(s)
  <2>1. data' \in [Keys -> Body \cup {Absent}]
    BY <1>5, UnlinkedTyped DEF RemoveData
  <2>2. sw' \in [Sweepers -> SweeperState]
    BY <1>0, <1>5, SweeperMoves DEF RemoveData
  <2>3. SweeperHasKey'
    BY <1>0, <1>5 DEF RemoveData, SweeperHasKey
  <2>4. clean' \subseteq Writers /\ quiet' \subseteq Sweepers /\ torn' = torn
    BY <1>5 DEF RemoveData, Unlinks
  <2> QED
    BY <1>5, <2>1, <2>2, <2>3, <2>4 DEF RemoveData
<1>6. CASE RemoveMeta(s)
  <2>1. meta' \in [Keys -> Meta \cup {Absent, Malformed}]
    BY <1>6, UnlinkedTyped DEF RemoveMeta
  <2>2. sw' \in [Sweepers -> SweeperState]
    <3>1. [sw[s] EXCEPT !.pc = "sweep", !.deleted = sw[s].deleted + 1] \in SweeperState
      BY <1>0, SweeperCounts
    <3> QED
      BY <1>6, <3>1 DEF RemoveMeta
  <2>3. SweeperHasKey'
    BY <1>0, <1>6 DEF RemoveMeta, SweeperHasKey
  <2>4. clean' \subseteq Writers /\ quiet' \subseteq Sweepers /\ torn' = torn
    BY <1>6 DEF RemoveMeta, Unlinks
  <2> QED
    BY <1>6, <2>1, <2>2, <2>3, <2>4 DEF RemoveMeta
<1>7. CASE EndClear(s)
  <2>1. sw' \in [Sweepers -> SweeperState]
    BY <1>0, <1>7, SweeperMoves DEF EndClear
  <2> QED
    BY <1>0, <1>7, <2>1 DEF EndClear, SweeperHasKey
<1>8. CASE LeaveClear(s)
  <2>1. IdleSweeper \in SweeperState
    BY CacheAssumption DEF IdleSweeper, SweeperState, Times
  <2> QED
    BY <1>8, <2>1 DEF LeaveClear, SweeperHasKey, IdleSweeper
<1> QED
  BY <1>1, <1>2, <1>3, <1>4, <1>5, <1>6, <1>7, <1>8, <1>9 DEF SweepStep

LEMMA StepTyped == Typed /\ [Next]_vars => Typed'
<1> SUFFICES ASSUME Typed, [Next]_vars PROVE Typed'
  OBVIOUS
<1>1. CASE Tick
  BY <1>1, CacheAssumption
  DEF Tick, Typed, TypeOK, WriterHasKey, ReaderHasKey, SweeperHasKey, Times, aux
<1>2. CASE UNCHANGED vars
  BY <1>2 DEF vars, Typed, TypeOK, WriterHasKey, ReaderHasKey, SweeperHasKey
<1> QED
  BY <1>1, <1>2, WriterTyped, ReaderTyped, SweeperTyped DEF Next

LEMMA StartsTyped == Init => Typed
  BY InitTyped DEF Init, Typed, WriterHasKey, ReaderHasKey, SweeperHasKey,
     IdleWriter, IdleReader, IdleSweeper

(* Every thread's state, both files of every key and the auxiliary history  *)
(* keep their types in every behaviour, whatever fails, crashes or overlaps.*)
THEOREM TypeCorrect == Spec => []TypeOK
<1>1. Typed => TypeOK
  BY DEF Typed
<1> QED
  BY <1>1, StartsTyped, StepTyped, PTL DEF Spec

(***************************************************************************)
(* The writer's path from its first byte to its second rename.             *)
(***************************************************************************)

LEMMA CopyStep ==
  ASSUME CommitInv, NEW w \in Writers,
         \/ \E k \in Keys : BeginWrite(w, k)
         \/ \E k \in Keys, len \in Lengths : BeginStream(w, k, len)
         \/ WriterStep(w)
         \/ WriterCrashes(w)
  PROVE  CopyBounds' /\ CapIsExact'
<1> USE CacheAssumption DEF CommitInv, CopyBounds, CapIsExact, Typed, TypeOK
<1>0. wr[w] \in WriterState /\ wr[w].got \in Nat /\ wr[w].len \in Nat
      /\ (wr[w].pc # "idle" => wr[w].key \in Keys)
  BY WriterFields DEF WriterHasKey
<1>1. CASE \E k \in Keys : BeginWrite(w, k)
  BY <1>1 DEF BeginWrite
<1>2. CASE \E k \in Keys, len \in Lengths : BeginStream(w, k, len)
  BY <1>2 DEF BeginStream
<1>3. CASE Copy(w)
  <2>1. /\ \A x \in Writers : x # w => wr'[x] = wr[x]
        /\ wr'[w].pc = "copying" /\ wr'[w].got = wr[w].got + 1 /\ wr'[w].len = wr[w].len
        /\ wr[w].pc = "copying" /\ wr[w].got # wr[w].len /\ data' = data
    BY <1>0, <1>3 DEF Copy, Copied, WriterState
  <2> QED
    BY <1>0, <2>1
<1>4. CASE FinishCopy(w)
  BY <1>0, <1>4 DEF FinishCopy, Copied, Oversized
<1>5. CASE RejectOversized(w)
  BY <1>0, <1>5 DEF RejectOversized, Copied, Oversized
<1>6. CASE PersistMeta(w)
  BY <1>0, <1>6 DEF PersistMeta
<1>7. CASE PersistData(w)
  BY <1>0, <1>7 DEF PersistData, IdleWriter
<1>8. CASE CommitFails(w)
  <2>1. /\ \A x \in Writers : x # w => wr'[x] = wr[x]
        /\ wr'[w].pc \in {"idle", "handed"} /\ data' = data
    BY <1>0, <1>8 DEF CommitFails, IdleWriter, WriterState
  <2> QED
    BY <2>1
<1>9. CASE CopyFails(w) \/ DropTemp(w) \/ WriterCrashes(w)
  BY <1>9 DEF CopyFails, DropTemp, WriterCrashes, IdleWriter
<1> QED
  BY <1>1, <1>2, <1>3, <1>4, <1>5, <1>6, <1>7, <1>8, <1>9 DEF WriterStep

LEMMA CleanStep ==
  ASSUME CommitInv, NEW w \in Writers,
         \/ \E k \in Keys : BeginWrite(w, k)
         \/ \E k \in Keys, len \in Lengths : BeginStream(w, k, len)
         \/ WriterStep(w)
         \/ WriterCrashes(w)
  PROVE  CleanMeansOurs'
<1> USE DEF CommitInv, CleanMeansOurs, Typed, TypeOK, aux
<1>0. wr[w] \in WriterState /\ (wr[w].pc # "idle" => wr[w].key \in Keys)
  BY DEF WriterHasKey
<1>1. CASE \E k \in Keys : BeginWrite(w, k)
  BY <1>1 DEF BeginWrite
<1>2. CASE \E k \in Keys, len \in Lengths : BeginStream(w, k, len)
  BY <1>2 DEF BeginStream
<1>3. CASE Copy(w) \/ FinishCopy(w) \/ RejectOversized(w)
  <2>1. /\ \A x \in Writers : x # w => wr'[x] = wr[x]
        /\ wr'[w].pc # "data" /\ meta' = meta /\ clean' = clean
    <3>1. CASE Copy(w)
      BY <1>0, <3>1 DEF Copy, WriterState
    <3>2. CASE FinishCopy(w)
      BY <1>0, <3>2 DEF FinishCopy, WriterState
    <3>3. CASE RejectOversized(w)
      BY <1>0, <3>3 DEF RejectOversized, WriterState
    <3> QED
      BY <1>3, <3>1, <3>2, <3>3
  <2> QED
    BY <2>1
<1>4. CASE PersistMeta(w)
  <2> SUFFICES ASSUME NEW x \in Writers, wr'[x].pc = "data", x \in clean'
               PROVE  meta'[wr'[x].key] = [ver |-> wr'[x].ver, at |-> wr'[x].at]
    OBVIOUS
  <2>1. CASE x = w
    BY <1>0, <1>4, <2>1 DEF PersistMeta
  <2>2. CASE x # w
    <3>1. wr'[x] = wr[x] /\ x \in clean /\ x \notin MidCommit(wr[w].key)
      BY <1>4, <2>2 DEF PersistMeta
    <3>2. wr[x].key # wr[w].key
      BY <3>1 DEF MidCommit
    <3> QED
      BY <1>4, <3>1, <3>2 DEF PersistMeta
  <2> QED
    BY <2>1, <2>2
<1>5. CASE PersistData(w)
  BY <1>5 DEF PersistData, IdleWriter
<1>6. CASE CommitFails(w)
  BY <1>0, <1>6 DEF CommitFails, IdleWriter
<1>7. CASE CopyFails(w) \/ DropTemp(w) \/ WriterCrashes(w)
  BY <1>7 DEF CopyFails, DropTemp, WriterCrashes, IdleWriter
<1> QED
  BY <1>1, <1>2, <1>3, <1>4, <1>5, <1>6, <1>7 DEF WriterStep

(* A writer that neither renames nor leaves the gap between its renames     *)
(* changes nothing PairsAgree looks at.                                     *)
LEMMA OutsideTheGap ==
  ASSUME CommitInv, NEW w \in Writers, wr[w].pc # "data", wr'[w].pc # "data",
         \A x \in Writers : x # w => wr'[x] = wr[x],
         meta' = meta, data' = data, torn' = torn
  PROVE  PairsAgree'
<1>1. \A k \in Keys : MidCommit(k)' = MidCommit(k)
  BY DEF MidCommit
<1> QED
  BY <1>1 DEF CommitInv, PairsAgree, Visible

LEMMA PairsKept ==
  ASSUME CommitInv, NEW w \in Writers,
         \/ \E k \in Keys : BeginWrite(w, k)
         \/ \E k \in Keys, len \in Lengths : BeginStream(w, k, len)
         \/ WriterStep(w)
         \/ WriterCrashes(w)
  PROVE  PairsAgree'
<1> USE DEF CommitInv, Typed, TypeOK, aux
<1>0. wr[w] \in WriterState /\ (wr[w].pc # "idle" => wr[w].key \in Keys)
  BY DEF WriterHasKey
<1>1. CASE \E k \in Keys : BeginWrite(w, k)
  BY <1>1, OutsideTheGap DEF BeginWrite
<1>2. CASE \E k \in Keys, len \in Lengths : BeginStream(w, k, len)
  BY <1>2, OutsideTheGap DEF BeginStream
<1>3. CASE Copy(w)
  BY <1>0, <1>3, OutsideTheGap DEF Copy, WriterState
<1>4. CASE FinishCopy(w)
  BY <1>0, <1>4, OutsideTheGap DEF FinishCopy, WriterState
<1>5. CASE RejectOversized(w)
  BY <1>0, <1>5, OutsideTheGap DEF RejectOversized, WriterState
<1>6. CASE CopyFails(w) \/ DropTemp(w)
  BY <1>6, OutsideTheGap DEF CopyFails, DropTemp, IdleWriter
<1>7. CASE PersistMeta(w)
  <2>1. \A x \in Writers : wr[x].pc = "data" => wr'[x] = wr[x]
    BY <1>7 DEF PersistMeta
  <2>2. wr'[w].pc = "data" /\ wr'[w].key = wr[w].key
    BY <1>0, <1>7 DEF PersistMeta, WriterState
  <2>3. \A k \in Keys : k = wr[w].key => w \in MidCommit(k)'
    BY <2>2 DEF MidCommit
  <2>4. \A k \in Keys : MidCommit(k) \subseteq MidCommit(k)'
    BY <2>1 DEF MidCommit
  <2>5. \A k \in Keys : k # wr[w].key => meta'[k] = meta[k]
    BY <1>7 DEF PersistMeta
  <2>6. data' = data /\ torn' = torn
    BY <1>7 DEF PersistMeta
  <2> SUFFICES ASSUME NEW k \in Keys, Visible(k)', meta'[k].ver # data'[k].ver
               PROVE  MidCommit(k)' # {} \/ k \in torn'
    BY DEF PairsAgree
  <2>7. CASE k = wr[w].key
    BY <2>3, <2>7
  <2>8. CASE k # wr[w].key
    <3>1. Visible(k) /\ meta[k].ver # data[k].ver
      BY <2>5, <2>6, <2>8 DEF Visible
    <3> QED
      BY <3>1, <2>4, <2>6 DEF PairsAgree
  <2> QED
    BY <2>7, <2>8
<1>8. CASE PersistData(w)
  <2> DEFINE k == wr[w].key
  <2>1. \A x \in Writers : x # w => wr'[x] = wr[x]
    BY <1>8 DEF PersistData
  <2>2. \A j \in Keys : j # k => MidCommit(j) \subseteq MidCommit(j)' /\ data'[j] = data[j]
    BY <1>0, <1>8, <2>1 DEF PersistData, MidCommit
  <2>3. data'[k].ver = wr[w].ver /\ meta' = meta
        /\ torn' = IF w \in clean THEN torn \ {k} ELSE torn \cup {k}
    BY <1>0, <1>8 DEF PersistData
  <2>4. w \in clean => meta[k].ver = wr[w].ver
    <3>1. w \in clean => meta[k] = [ver |-> wr[w].ver, at |-> wr[w].at]
      BY <1>8 DEF PersistData, CleanMeansOurs
    <3> QED
      BY <3>1
  <2> SUFFICES ASSUME NEW j \in Keys, Visible(j)', meta'[j].ver # data'[j].ver
               PROVE  MidCommit(j)' # {} \/ j \in torn'
    BY DEF PairsAgree
  <2>5. CASE j = k
    BY <2>3, <2>4, <2>5
  <2>6. CASE j # k
    <3>1. Visible(j) /\ meta[j].ver # data[j].ver
      BY <2>2, <2>3, <2>6 DEF Visible
    <3>2. j \in torn => j \in torn'
      BY <2>3, <2>6
    <3> QED
      BY <3>1, <3>2, <2>2, <2>6 DEF PairsAgree
  <2> QED
    BY <2>5, <2>6
<1>9. CASE CommitFails(w) \/ WriterCrashes(w)
  <2>1. /\ \A x \in Writers : x # w => wr'[x] = wr[x]
        /\ meta' = meta /\ data' = data /\ torn' = Abandoned(w)
    BY <1>9 DEF CommitFails, WriterCrashes
  <2>2. \A k \in Keys : MidCommit(k) \ {w} \subseteq MidCommit(k)'
    BY <2>1 DEF MidCommit
  <2>3. \A k \in Keys : w \in MidCommit(k) => k \in torn'
    BY <2>1 DEF MidCommit, Abandoned
  <2>4. torn \subseteq torn'
    BY <2>1 DEF Abandoned
  <2> QED
    BY <2>1, <2>2, <2>3, <2>4 DEF PairsAgree, Visible
<1> QED
  BY <1>1, <1>2, <1>3, <1>4, <1>5, <1>6, <1>7, <1>8, <1>9 DEF WriterStep

(* Readers change no file, and a sweep only takes files away.               *)
LEMMA SweepKeepsPairs ==
  ASSUME CommitInv, NEW s \in Sweepers,
         (\E age \in Ages : BeginClear(s, age) \/ ListingFails(s, age)) \/ SweepStep(s)
  PROVE  CleanMeansOurs' /\ CopyBounds' /\ PairsAgree' /\ CapIsExact'
<1> USE DEF CommitInv, Typed, TypeOK
<1>1. /\ wr' = wr /\ torn' = torn /\ clean' \subseteq clean
      /\ \A k \in Keys : /\ meta'[k] # Absent => meta'[k] = meta[k]
                         /\ data'[k] # Absent => data'[k] = data[k]
                         /\ meta'[k] # meta[k] => clean' \cap MidCommit(k) = {}
  <2>1. CASE RemoveOrphan(s) \/ RemoveData(s)
    <3>1. /\ wr' = wr /\ torn' = torn /\ clean' \subseteq clean /\ meta' = meta
          /\ data' \in Unlinked(data, sw[s].key)
      BY <2>1 DEF RemoveOrphan, RemoveData, Unlinks
    <3>2. \A k \in Keys : data'[k] # Absent => data'[k] = data[k]
      BY <3>1 DEF Unlinked, OnFault
    <3> QED
      BY <3>1, <3>2
  <2>3. CASE RemoveMeta(s)
    <3>1. /\ wr' = wr /\ torn' = torn /\ data' = data
          /\ clean' = clean \ MidCommit(sw[s].key)
          /\ meta' \in Unlinked(meta, sw[s].key)
      BY <2>3 DEF RemoveMeta, Unlinks
    <3>2. \A k \in Keys : meta'[k] # Absent => meta'[k] = meta[k]
      BY <3>1 DEF Unlinked, OnFault
    <3>3. \A k \in Keys : meta'[k] # meta[k] => k = sw[s].key
      BY <3>1 DEF Unlinked, OnFault
    <3> QED
      BY <3>1, <3>2, <3>3
  <2>4. CASE /\ ~RemoveOrphan(s) /\ ~RemoveData(s) /\ ~RemoveMeta(s)
    BY <2>4 DEF SweepStep, BeginClear, ListingFails, MeetData, MeetMeta, EndClear, LeaveClear, aux
  <2> QED
    BY <2>1, <2>3, <2>4 DEF RemoveOrphan, RemoveData
<1>2. \A k \in Keys : MidCommit(k)' = MidCommit(k)
  BY <1>1 DEF MidCommit
<1>3. PairsAgree'
  BY <1>1, <1>2, CacheAssumption DEF PairsAgree, Visible
<1>4. CleanMeansOurs'
  <2> SUFFICES ASSUME NEW w \in Writers, wr[w].pc = "data", w \in clean'
               PROVE  meta'[wr[w].key] = [ver |-> wr[w].ver, at |-> wr[w].at]
    BY <1>1 DEF CleanMeansOurs
  <2>1. wr[w].key \in Keys /\ w \in MidCommit(wr[w].key)
    BY DEF WriterHasKey, MidCommit
  <2> QED
    BY <1>1, <2>1 DEF CleanMeansOurs
<1> QED
  BY <1>1, <1>3, <1>4 DEF CopyBounds, CapIsExact

LEMMA InitCommits == Init => CommitInv
<1> SUFFICES ASSUME Init PROVE CommitInv
  OBVIOUS
<1>1. Typed
  BY StartsTyped
<1>2. CleanMeansOurs /\ CopyBounds
  BY DEF Init, IdleWriter, CleanMeansOurs, CopyBounds
<1>3. \A k \in Keys : data[k] \in {FirstBody, Absent}
                      /\ meta[k] \in {FirstMeta, Malformed, Absent}
  BY DEF Init
<1>4. PairsAgree
  BY <1>3, CacheAssumption DEF PairsAgree, Visible, FirstBody, FirstMeta
<1>5. CapIsExact
  BY <1>3, CacheAssumption DEF CapIsExact, FirstBody, Init, IdleWriter
<1> QED
  BY <1>1, <1>2, <1>4, <1>5 DEF CommitInv

(* Readers and the clock touch none of the variables the invariant reads.   *)
LEMMA OthersKeepCommits ==
  ASSUME CommitInv, UNCHANGED <<meta, data, wr, aux>>
  PROVE  CleanMeansOurs' /\ CopyBounds' /\ PairsAgree' /\ CapIsExact'
<1>1. \A k \in Keys : MidCommit(k)' = MidCommit(k)
  BY DEF MidCommit
<1>2. PairsAgree'
  BY <1>1 DEF CommitInv, PairsAgree, Visible, aux
<1> QED
  BY <1>2 DEF CommitInv, CleanMeansOurs, CopyBounds, CapIsExact, aux

LEMMA CommitStep == CommitInv /\ [Next]_vars => CommitInv'
<1> SUFFICES ASSUME CommitInv, [Next]_vars PROVE CommitInv'
  OBVIOUS
<1>1. Typed'
  BY StepTyped DEF CommitInv
<1>2. CleanMeansOurs' /\ CopyBounds' /\ PairsAgree' /\ CapIsExact'
  <2>1. ASSUME NEW w \in Writers,
               \/ \E k \in Keys : BeginWrite(w, k)
               \/ \E k \in Keys, len \in Lengths : BeginStream(w, k, len)
               \/ WriterStep(w)
               \/ WriterCrashes(w)
        PROVE  CleanMeansOurs' /\ CopyBounds' /\ PairsAgree' /\ CapIsExact'
    BY <2>1, CopyStep, CleanStep, PairsKept
  <2>2. ASSUME NEW s \in Sweepers,
               (\E age \in Ages : BeginClear(s, age) \/ ListingFails(s, age)) \/ SweepStep(s)
        PROVE  CleanMeansOurs' /\ CopyBounds' /\ PairsAgree' /\ CapIsExact'
    BY <2>2, SweepKeepsPairs
  <2>3. CASE \/ \E r \in Readers : (\E k \in Keys, ttl \in Ages : ReadMeta(r, k, ttl))
                                  \/ ReadStep(r)
             \/ Tick
             \/ UNCHANGED vars
    <3>1. UNCHANGED <<meta, data, wr, aux>>
      BY <2>3 DEF ReadMeta, ReadStep, ReadData, Return, Tick, vars, aux
    <3> QED
      BY <3>1, OthersKeepCommits
  <2> QED
    BY <2>1, <2>2, <2>3 DEF Next
<1> QED
  BY <1>1, <1>2 DEF CommitInv

(***************************************************************************)
(* The results.                                                            *)
(***************************************************************************)

LEMMA CommitsInvariant == Spec => []CommitInv
  BY InitCommits, CommitStep, PTL DEF Spec

(* Any number of writers, readers and sweepers, any failures and crashes:   *)
(* a sidecar vouches for another body only in the gap between two renames,  *)
(* or after a commit that was abandoned or overlapped there.                *)
THEOREM PairsAlwaysAgree == Spec => []PairsAgree
<1>1. CommitInv => PairsAgree
  BY DEF CommitInv
<1> QED
  BY <1>1, CommitsInvariant, PTL

(* Whatever a server sends and however long it is, no lookup sees a body    *)
(* that is cut short or longer than the cap.                                *)
THEOREM CapAlwaysExact == Spec => []CapIsExact
<1>1. CommitInv => CapIsExact
  BY DEF CommitInv
<1> QED
  BY <1>1, CommitsInvariant, PTL

(* An undisturbed commit leaves exactly its own pair.                       *)
THEOREM CleanCommitsHeal == Spec => CleanCommitHeals
<1> DEFINE Heals ==
      \A w \in Writers :
        wr[w].pc = "data" /\ w \in clean /\ wr'[w].pc = "idle"
        /\ data'[wr[w].key] # data[wr[w].key]
        => LET k == wr[w].key IN /\ meta'[k] = [ver |-> wr[w].ver, at |-> wr[w].at]
                                 /\ data'[k].ver = wr[w].ver
<1>1. CommitInv /\ [Next]_vars => [Heals]_vars
  <2> SUFFICES ASSUME CommitInv, Next,
                      NEW w \in Writers, wr[w].pc = "data", w \in clean,
                      wr'[w].pc = "idle", data'[wr[w].key] # data[wr[w].key]
               PROVE  /\ meta'[wr[w].key] = [ver |-> wr[w].ver, at |-> wr[w].at]
                      /\ data'[wr[w].key].ver = wr[w].ver
    OBVIOUS
  <2>1. meta[wr[w].key] = [ver |-> wr[w].ver, at |-> wr[w].at]
    BY DEF CommitInv, CleanMeansOurs
  <2>2. wr \in [Writers -> WriterState] /\ wr[w].key \in Keys
    BY DEF CommitInv, Typed, TypeOK, WriterHasKey
  <2>3. PersistData(w)
    <3>1. wr' # wr /\ data' # data
      BY <2>2
    <3>2. PICK x \in Writers : PersistData(x)
      <4>1. ASSUME NEW x \in Writers,
                   \/ \E k \in Keys : BeginWrite(x, k)
                   \/ \E k \in Keys, len \in Lengths : BeginStream(x, k, len)
            PROVE  data' = data
        BY <4>1 DEF BeginWrite, BeginStream
      <4>2. ASSUME NEW x \in Writers, WriterStep(x), ~PersistData(x)
            PROVE  data' = data
        BY <4>2 DEF WriterStep, Copy, FinishCopy, RejectOversized, CopyFails,
           PersistMeta, CommitFails, DropTemp
      <4>3. ASSUME NEW x \in Writers, WriterCrashes(x)
            PROVE  data' = data
        BY <4>3 DEF WriterCrashes
      <4>4. ASSUME NEW r \in Readers,
                   \/ \E k \in Keys, ttl \in Ages : ReadMeta(r, k, ttl)
                   \/ ReadStep(r)
            PROVE  wr' = wr
        BY <4>4 DEF ReadMeta, ReadStep, ReadData, Return
      <4>5. ASSUME NEW s \in Sweepers,
                   \E age \in Ages : BeginClear(s, age) \/ ListingFails(s, age)
            PROVE  wr' = wr
        BY <4>5 DEF BeginClear, ListingFails
      <4>6. ASSUME NEW s \in Sweepers, SweepStep(s)
            PROVE  wr' = wr
        BY <4>6 DEF SweepStep, MeetData, MeetMeta, RemoveOrphan, RemoveData,
           RemoveMeta, EndClear, LeaveClear
      <4>7. Tick => wr' = wr
        BY DEF Tick
      <4> QED
        BY <3>1, <4>1, <4>2, <4>3, <4>4, <4>5, <4>6, <4>7 DEF Next
    <3>3. x = w
      BY <2>2, <3>2 DEF PersistData
    <3> QED
      BY <3>2, <3>3
  <2>4. meta' = meta
    BY <2>3 DEF PersistData
  <2>5. data \in [Keys -> Body \cup {Absent}]
    BY DEF CommitInv, Typed, TypeOK
  <2>6. data'[wr[w].key].ver = wr[w].ver
    BY <2>2, <2>3, <2>5 DEF PersistData
  <2> QED
    BY <2>1, <2>4, <2>6
<1> QED
  BY <1>1, CommitsInvariant, PTL DEF Spec, CleanCommitHeals

LEMMA MetaFirstStarts ==
  ASSUME Leftovers \subseteq {"nothing", "paired", "metaOnly"}
  PROVE  Init => MetaBeforeData
<1> SUFFICES ASSUME Init PROVE MetaBeforeData
  OBVIOUS
<1>1. FirstMeta # Absent
  BY CacheAssumption DEF FirstMeta, Meta, Versions, Times
<1>2. PICK shape \in [Keys -> Leftovers] :
        \A k \in Keys :
          /\ shape[k] \in {"paired", "metaOnly"} => meta[k] = FirstMeta
          /\ shape[k] = "nothing" => data[k] = Absent
  BY DEF Init
<1>3. NoDataWithoutMeta
  BY <1>1, <1>2 DEF NoDataWithoutMeta
<1> QED
  BY <1>3 DEF MetaBeforeData, Init, IdleWriter

LEMMA MetaFirstStep ==
  ASSUME Sweepers = {}
  PROVE  Typed /\ MetaBeforeData /\ [Next]_vars => MetaBeforeData'
<1> SUFFICES ASSUME Typed, MetaBeforeData, [Next]_vars PROVE MetaBeforeData'
  OBVIOUS
<1> USE DEF Typed, TypeOK
<1>1. ASSUME NEW w \in Writers, PersistMeta(w) PROVE MetaBeforeData'
  <2>1. wr[w].key \in Keys
    BY <1>1 DEF WriterHasKey, PersistMeta
  <2>2. meta'[wr[w].key] = [ver |-> wr[w].ver, at |-> wr[w].at]
        /\ \A k \in Keys : k # wr[w].key => meta'[k] = meta[k]
    BY <1>1, <2>1 DEF PersistMeta
  <2>3. meta'[wr[w].key] # Absent
    BY <2>2, CacheAssumption DEF Meta, WriterState
  <2>4. \A k \in Keys : meta[k] # Absent => meta'[k] # Absent
    BY <2>2, <2>3
  <2>5. /\ \A x \in Writers : x # w => wr'[x] = wr[x]
        /\ wr'[w].key = wr[w].key /\ data' = data
    BY <1>1 DEF PersistMeta, WriterState
  <2>6. \A x \in Writers : wr'[x].pc = "data" => meta'[wr'[x].key] # Absent
    BY <2>3, <2>4, <2>5 DEF MetaBeforeData, WriterHasKey
  <2> QED
    BY <2>4, <2>5, <2>6 DEF MetaBeforeData, NoDataWithoutMeta
<1>2. ASSUME NEW w \in Writers, PersistData(w) PROVE MetaBeforeData'
  BY <1>2 DEF PersistData, MetaBeforeData, NoDataWithoutMeta, WriterHasKey, IdleWriter
<1>3. ASSUME meta' = meta, data' = data,
             \A x \in Writers : wr'[x].pc = "data" => wr'[x] = wr[x]
      PROVE  MetaBeforeData'
  BY <1>3 DEF MetaBeforeData, NoDataWithoutMeta
<1>4. ASSUME NEW w \in Writers, ~PersistMeta(w), ~PersistData(w),
             \/ \E k \in Keys : BeginWrite(w, k)
             \/ \E k \in Keys, len \in Lengths : BeginStream(w, k, len)
             \/ WriterStep(w)
             \/ WriterCrashes(w)
      PROVE  MetaBeforeData'
  <2>1. meta' = meta /\ data' = data
    BY <1>4 DEF BeginWrite, BeginStream, WriterStep, Copy, FinishCopy,
       RejectOversized, CopyFails, CommitFails, DropTemp, WriterCrashes
  <2>2. \A x \in Writers : x # w => wr'[x] = wr[x]
    BY <1>4 DEF BeginWrite, BeginStream, WriterStep, Copy, FinishCopy,
       RejectOversized, CopyFails, CommitFails, DropTemp, WriterCrashes
  <2>3. wr'[w].pc # "data"
    <3>1. CASE Copy(w)
      BY <3>1 DEF Copy, WriterState
    <3>6. CASE FinishCopy(w)
      BY <3>6 DEF FinishCopy, WriterState
    <3>2. CASE RejectOversized(w)
      BY <3>2 DEF RejectOversized, WriterState
    <3>5. CASE CommitFails(w)
      <4>1. CASE wr' = [wr EXCEPT ![w] = IdleWriter]
        BY <4>1 DEF IdleWriter
      <4>2. CASE wr' = [wr EXCEPT ![w].pc = "handed"]
        BY <4>2 DEF WriterState
      <4> QED
        BY <3>5, <4>1, <4>2 DEF CommitFails
    <3>3. CASE CopyFails(w) \/ DropTemp(w) \/ WriterCrashes(w)
      BY <3>3 DEF CopyFails, DropTemp, WriterCrashes, IdleWriter
    <3>4. CASE \/ \E k \in Keys : BeginWrite(w, k)
               \/ \E k \in Keys, len \in Lengths : BeginStream(w, k, len)
      BY <3>4 DEF BeginWrite, BeginStream
    <3> QED
      BY <1>4, <3>1, <3>2, <3>3, <3>4, <3>5, <3>6 DEF WriterStep
  <2> QED
    BY <1>3, <2>1, <2>2, <2>3
<1>5. CASE UNCHANGED <<meta, data, wr>>
  BY <1>3, <1>5
<1>6. CASE \E r \in Readers : (\E k \in Keys, ttl \in Ages : ReadMeta(r, k, ttl))
                            \/ ReadStep(r)
  BY <1>5, <1>6 DEF ReadMeta, ReadStep, ReadData, Return
<1>7. CASE Tick \/ UNCHANGED vars
  BY <1>5, <1>7 DEF Tick, vars
<1> QED
  BY <1>1, <1>2, <1>4, <1>6, <1>7 DEF Next

(* With no sweep there is never a body without its sidecar.                 *)
THEOREM NeverDataAlone ==
  ASSUME Sweepers = {}, Leftovers \subseteq {"nothing", "paired", "metaOnly"}
  PROVE  Spec => []NoDataWithoutMeta
<1>1. MetaBeforeData => NoDataWithoutMeta
  BY DEF MetaBeforeData
<1> QED
  BY <1>1, MetaFirstStarts, MetaFirstStep, StartsTyped, StepTyped, PTL DEF Spec

(***************************************************************************)
(* Versions: the forms a writer's step takes, and what a version is in.    *)
(***************************************************************************)

WriterActs(w) ==
  \/ \E k \in Keys : BeginWrite(w, k)
  \/ \E k \in Keys, len \in Lengths : BeginStream(w, k, len)
  \/ WriterStep(w)
  \/ WriterCrashes(w)

ReaderActs(r) == (\E k \in Keys, ttl \in Ages : ReadMeta(r, k, ttl)) \/ ReadStep(r)

SweeperActs(s) == (\E age \in Ages : BeginClear(s, age) \/ ListingFails(s, age)) \/ SweepStep(s)

Starts(w) ==
  /\ wr[w].pc = "idle" /\ wr'[w].pc \in {"copying", "meta"}
  /\ version' = version + 1 /\ wr'[w].ver = version + 1
  /\ UNCHANGED <<meta, data>>

GoesOn(w) ==
  /\ wr[w].pc # "idle" /\ wr'[w].pc \notin {"idle", "data"}
  /\ wr'[w].ver = wr[w].ver
  /\ wr[w].pc = "copying" \/ (wr'[w].pc = "handed" /\ wr'[w].at = wr[w].at)
  /\ UNCHANGED <<meta, data, version>>

Ends(w) ==
  /\ wr[w].pc # "idle" /\ wr'[w].pc = "idle"
  /\ UNCHANGED <<meta, data, version>>

LEMMA WriterForms ==
  ASSUME Typed, NEW w \in Writers, WriterActs(w)
  PROVE  /\ \A x \in Writers : x # w => wr'[x] = wr[x]
         /\ UNCHANGED <<clock, rd, sw>>
         /\ Starts(w) \/ GoesOn(w) \/ PersistMeta(w) \/ PersistData(w) \/ Ends(w)
<1> USE DEF Typed, TypeOK
<1>0. wr[w] \in WriterState
  OBVIOUS
<1>1. CASE \E k \in Keys : BeginWrite(w, k)
  BY <1>1 DEF BeginWrite, Starts
<1>2. CASE \E k \in Keys, len \in Lengths : BeginStream(w, k, len)
  BY <1>2 DEF BeginStream, Starts
<1>3. CASE Copy(w)
  <2>1. wr'[w].pc = "copying" /\ wr'[w].ver = wr[w].ver /\ wr[w].pc = "copying"
    BY <1>0, <1>3 DEF Copy, WriterState
  <2> QED
    BY <1>3, <2>1 DEF Copy, GoesOn
<1>4. CASE FinishCopy(w)
  <2>1. wr'[w].pc = "meta" /\ wr'[w].ver = wr[w].ver /\ wr[w].pc = "copying"
    BY <1>0, <1>4 DEF FinishCopy, WriterState
  <2> QED
    BY <1>4, <2>1 DEF FinishCopy, GoesOn
<1>5. CASE RejectOversized(w)
  <2>1. wr'[w].pc = "toobig" /\ wr'[w].ver = wr[w].ver /\ wr[w].pc = "copying"
    BY <1>0, <1>5 DEF RejectOversized, WriterState
  <2> QED
    BY <1>5, <2>1 DEF RejectOversized, GoesOn
<1>6. CASE CommitFails(w)
  <2>1. CASE wr' = [wr EXCEPT ![w] = IdleWriter]
    BY <1>6, <2>1 DEF CommitFails, Ends, IdleWriter
  <2>2. CASE wr' = [wr EXCEPT ![w].pc = "handed"]
    <3>1. wr'[w].pc = "handed" /\ wr'[w].ver = wr[w].ver /\ wr'[w].at = wr[w].at
      BY <1>0, <2>2 DEF WriterState
    <3> QED
      BY <1>6, <2>2, <3>1 DEF CommitFails, GoesOn
  <2> QED
    BY <1>6, <2>1, <2>2 DEF CommitFails
<1>7. CASE CopyFails(w) \/ DropTemp(w) \/ WriterCrashes(w)
  BY <1>7 DEF CopyFails, DropTemp, WriterCrashes, IdleWriter, Ends
<1>8. CASE PersistMeta(w)
  BY <1>8 DEF PersistMeta
<1>9. CASE PersistData(w)
  BY <1>9 DEF PersistData
<1> QED
  BY <1>1, <1>2, <1>3, <1>4, <1>5, <1>6, <1>7, <1>8, <1>9 DEF WriterActs, WriterStep

LEMMA SweepTakesAway ==
  ASSUME Typed, NEW s \in Sweepers, SweeperActs(s)
  PROVE  /\ UNCHANGED <<wr, rd, version, temps, clock>>
         /\ \A k \in Keys : /\ meta'[k] # Absent => meta'[k] = meta[k]
                            /\ data'[k] # Absent => data'[k] = data[k]
<1>0. /\ meta \in [Keys -> Meta \cup {Absent, Malformed}]
      /\ data \in [Keys -> Body \cup {Absent}]
  BY DEF Typed, TypeOK
<1>1. CASE RemoveOrphan(s) \/ RemoveData(s)
  <2>1. /\ UNCHANGED <<meta, wr, rd, version, temps, clock>>
        /\ data' \in Unlinked(data, sw[s].key)
    BY <1>1 DEF RemoveOrphan, RemoveData
  <2>2. \A k \in Keys : data'[k] # Absent => data'[k] = data[k]
    BY <1>0, <2>1 DEF Unlinked, OnFault
  <2> QED
    BY <2>1, <2>2
<1>2. CASE RemoveMeta(s)
  <2>1. /\ UNCHANGED <<data, wr, rd, version, temps, clock>>
        /\ meta' \in Unlinked(meta, sw[s].key)
    BY <1>2 DEF RemoveMeta
  <2>2. \A k \in Keys : meta'[k] # Absent => meta'[k] = meta[k]
    BY <1>0, <2>1 DEF Unlinked, OnFault
  <2> QED
    BY <2>1, <2>2
<1>3. CASE ~RemoveOrphan(s) /\ ~RemoveData(s) /\ ~RemoveMeta(s)
  BY <1>3 DEF SweeperActs, SweepStep, BeginClear, ListingFails, MeetData, MeetMeta, EndClear,
     LeaveClear, aux
<1> QED
  BY <1>1, <1>2, <1>3

LEMMA StepForms ==
  ASSUME [Next]_vars
  PROVE  \/ \E w \in Writers : WriterActs(w)
         \/ \E r \in Readers : ReaderActs(r)
         \/ \E s \in Sweepers : SweeperActs(s)
         \/ Tick
         \/ UNCHANGED vars
BY DEF Next, WriterActs, ReaderActs, SweeperActs

LEMMA InitVersions == Init => VersionInv
<1> SUFFICES ASSUME Init PROVE VersionInv
  OBVIOUS
<1>1. Typed
  BY StartsTyped
<1>2. \A k \in Keys : data[k] \in {FirstBody, Absent}
                      /\ meta[k] \in {FirstMeta, Malformed, Absent}
  BY DEF Init
<1>3. VersionsApart
  BY DEF Init, IdleWriter, VersionsApart, Active
<1>4. VersionsFiled
  BY <1>2, CacheAssumption
  DEF Init, IdleWriter, VersionsFiled, Active, Visible, FirstBody, FirstMeta
<1> QED
  BY <1>1, <1>3, <1>4 DEF VersionInv

LEMMA WriterVersions ==
  ASSUME VersionInv, NEW w \in Writers, WriterActs(w)
  PROVE  VersionsApart' /\ VersionsFiled'
<1>0. /\ Typed
      /\ meta \in [Keys -> Meta \cup {Absent, Malformed}]
      /\ data \in [Keys -> Body \cup {Absent}]
      /\ wr \in [Writers -> WriterState]
      /\ version \in Nat
      /\ \A x \in Writers : wr[x].ver \in Int
      /\ Active(w) => wr[w].key \in Keys
  BY CacheAssumption, WriterFields
  DEF VersionInv, Typed, TypeOK, WriterHasKey, Active, Versions
<1>1. /\ \A x \in Writers : x # w => wr'[x] = wr[x]
      /\ Starts(w) \/ GoesOn(w) \/ PersistMeta(w) \/ PersistData(w) \/ Ends(w)
  BY <1>0, WriterForms
<1>2. \A k \in Keys : /\ meta[k] \in Meta => meta[k].ver \in Int /\ meta[k] # Absent
                      /\ data[k] # Absent => data[k].ver \in Int
  BY <1>0, CacheAssumption DEF Meta, Body, Versions
<1> USE DEF VersionInv, VersionsApart, VersionsFiled, Active
<1>3. CASE Starts(w)
  <2>1. /\ version' = version + 1 /\ wr'[w].ver = version + 1 /\ wr'[w].pc # "idle"
        /\ meta' = meta /\ data' = data
    BY <1>3 DEF Starts
  <2>2. VersionsApart'
    BY <1>0, <1>1, <2>1
  <2>3. \A k \in Keys : /\ data[k] # Absent => data[k].ver # version + 1
                        /\ meta[k] \in Meta => meta[k].ver # version + 1
    BY <1>0, <1>2
  <2>4. VersionsFiled'
    BY <1>0, <1>1, <1>2, <2>1, <2>3 DEF Visible
  <2> QED
    BY <2>2, <2>4
<1>4. CASE GoesOn(w)
  BY <1>0, <1>1, <1>2, <1>4 DEF GoesOn, Visible
<1>5. CASE PersistMeta(w)
  <2> DEFINE k == wr[w].key
             m == [ver |-> wr[w].ver, at |-> wr[w].at]
  <2>1. /\ wr'[w].pc = "data" /\ wr'[w].ver = wr[w].ver /\ wr'[w].at = wr[w].at
        /\ data' = data /\ version' = version /\ wr[w].pc = "meta"
        /\ k \in Keys /\ meta'[k] = m
        /\ \A j \in Keys : j # k => meta'[j] = meta[j]
    BY <1>0, <1>5 DEF PersistMeta, WriterState
  <2>2. VersionsApart'
    BY <1>1, <2>1
  <2>3. ASSUME NEW j \in Keys, j # k
        PROVE  /\ meta'[j] \in Meta => meta'[j].ver <= version'
               /\ data'[j] # Absent => data'[j].ver <= version'
               /\ \A x \in Writers : wr'[x].pc # "idle" =>
                    /\ data'[j] # Absent => data'[j].ver # wr'[x].ver
                    /\ meta'[j] \in Meta /\ meta'[j].ver = wr'[x].ver =>
                         wr'[x].pc \in {"data", "handed"} /\ meta'[j].at = wr'[x].at
               /\ Visible(j)' /\ meta'[j].ver = data'[j].ver => meta'[j].at = data'[j].at
    BY <1>0, <1>1, <2>1, <2>3 DEF Visible
  <2>4. /\ meta'[k].ver = wr[w].ver /\ meta'[k].at = wr[w].at
        /\ wr[w].ver <= version
        /\ data[k] # Absent => data[k].ver # wr[w].ver /\ data[k].ver <= version
        /\ \A x \in Writers : x # w /\ wr[x].pc # "idle" => wr[x].ver # wr[w].ver
    BY <1>0, <2>1
  <2>5. /\ meta'[k].ver <= version'
        /\ data'[k] # Absent => data'[k].ver <= version'
        /\ \A x \in Writers : wr'[x].pc # "idle" =>
             /\ data'[k] # Absent => data'[k].ver # wr'[x].ver
             /\ meta'[k].ver = wr'[x].ver =>
                  wr'[x].pc \in {"data", "handed"} /\ meta'[k].at = wr'[x].at
        /\ ~(data'[k] # Absent /\ meta'[k].ver = data'[k].ver)
    BY <1>1, <2>1, <2>4
  <2>6. VersionsFiled'
    BY <2>3, <2>5 DEF Visible
  <2> QED
    BY <2>2, <2>6
<1>6. CASE PersistData(w)
  <2> DEFINE k == wr[w].key
  <2>1. /\ wr'[w].pc = "idle" /\ wr[w].pc = "data"
        /\ meta' = meta /\ version' = version
        /\ k \in Keys /\ data'[k].ver = wr[w].ver /\ data'[k].at = wr[w].at
        /\ \A j \in Keys : j # k => data'[j] = data[j]
    BY <1>0, <1>6 DEF PersistData, IdleWriter
  <2>2. VersionsApart'
    BY <1>1, <2>1
  <2>3. wr[w].ver <= version
        /\ \A x \in Writers : x # w /\ wr[x].pc # "idle" => wr[x].ver # wr[w].ver
    BY <1>0, <2>1
  <2>4. VersionsFiled'
    BY <1>0, <1>1, <1>2, <2>1, <2>3 DEF Visible
  <2> QED
    BY <2>2, <2>4
<1>7. CASE Ends(w)
  BY <1>0, <1>1, <1>2, <1>7 DEF Ends, Visible
<1> QED
  BY <1>1, <1>3, <1>4, <1>5, <1>6, <1>7

(* Nobody but a writer hands out a version or puts one into a file.         *)
LEMMA OthersKeepVersions ==
  ASSUME VersionInv, UNCHANGED <<wr, version>>,
         \A k \in Keys : /\ meta'[k] # Absent => meta'[k] = meta[k]
                         /\ data'[k] # Absent => data'[k] = data[k]
  PROVE  VersionsApart' /\ VersionsFiled'
BY CacheAssumption DEF VersionInv, VersionsApart, VersionsFiled, Active, Visible

LEMMA VersionStep == VersionInv /\ [Next]_vars => VersionInv'
<1> SUFFICES ASSUME VersionInv, [Next]_vars PROVE VersionInv'
  OBVIOUS
<1>1. Typed'
  BY StepTyped DEF VersionInv
<1>2. VersionsApart' /\ VersionsFiled'
  <2>1. ASSUME NEW w \in Writers, WriterActs(w) PROVE VersionsApart' /\ VersionsFiled'
    BY <2>1, WriterVersions
  <2>2. ASSUME NEW s \in Sweepers, SweeperActs(s) PROVE VersionsApart' /\ VersionsFiled'
    BY <2>2, SweepTakesAway, OthersKeepVersions DEF VersionInv
  <2>3. CASE (\E r \in Readers : ReaderActs(r)) \/ Tick \/ UNCHANGED vars
    <3>1. UNCHANGED <<meta, data, wr, version>>
      BY <2>3 DEF ReaderActs, ReadMeta, ReadStep, ReadData, Return, Tick, vars
    <3> QED
      BY <3>1, OthersKeepVersions
  <2> QED
    BY <2>1, <2>2, <2>3, StepForms
<1> QED
  BY <1>1, <1>2 DEF VersionInv

LEMMA VersionsInvariant == Spec => []VersionInv
  BY InitVersions, VersionStep, PTL DEF Spec

(***************************************************************************)
(* What a sweep with an age spares.                                        *)
(***************************************************************************)

LEMMA OtherSweepsStay ==
  ASSUME NEW s \in Sweepers, sw \in [Sweepers -> SweeperState], SweeperActs(s)
  PROVE  \A x \in Sweepers : x # s => sw'[x] = sw[x]
<1>1. CASE \E age \in Ages : BeginClear(s, age) \/ ListingFails(s, age)
  BY <1>1 DEF BeginClear, ListingFails
<1>2. CASE \E k \in Keys : MeetData(s, k)
  BY <1>2 DEF MeetData
<1>3. CASE \E k \in Keys : MeetMeta(s, k)
  BY <1>3 DEF MeetMeta
<1>4. CASE RemoveOrphan(s) \/ RemoveData(s) \/ RemoveMeta(s)
  BY <1>4 DEF RemoveOrphan, RemoveData, RemoveMeta
<1>5. CASE EndClear(s) \/ LeaveClear(s)
  BY <1>5 DEF EndClear, LeaveClear
<1> QED
  BY <1>1, <1>2, <1>3, <1>4, <1>5 DEF SweeperActs, SweepStep

LEMMA ListingFailed ==
  ASSUME NEW s \in Sweepers, NEW age, sw \in [Sweepers -> SweeperState], ListingFails(s, age)
  PROVE  sw'[s].pc = "done"
<1>1. IdleSweeper \in SweeperState
  BY CacheAssumption DEF IdleSweeper, SweeperState, Times
<1>2. [IdleSweeper EXCEPT !.pc = "done", !.age = age].pc = "done"
  BY <1>1 DEF SweeperState
<1> QED
  BY <1>2 DEF ListingFails

LEMMA JudgedStep ==
  ASSUME Typed, JudgedOld, [Next]_vars
  PROVE  JudgedOld'
<1> USE DEF JudgedOld, Old
<1>0. sw \in [Sweepers -> SweeperState]
  BY DEF Typed, TypeOK
<1>1. ASSUME sw' = sw PROVE JudgedOld'
  BY <1>1
<1>2. ASSUME NEW s \in Sweepers, SweeperActs(s) PROVE JudgedOld'
  <2>1. \A x \in Sweepers : x # s => sw'[x] = sw[x]
    BY <1>0, <1>2, OtherSweepsStay DEF Typed, TypeOK
  <2>2. CASE \E k \in Keys : MeetMeta(s, k)
    <3>3. PICK k \in Keys : MeetMeta(s, k)
      BY <2>2
    <3>1. PICK m \in {meta[k]} \cup OnFault(Malformed) :
            sw' = [sw EXCEPT ![s].seen = @ \cup {<<k, "meta">>}, ![s].key = k,
                             ![s].judged = m,
                             ![s].pc = IF sw[s].age = NoAge \/ Old(s, m)
                                       THEN "data" ELSE "sweep"]
      BY <3>3 DEF MeetMeta
    <3>2. /\ sw'[s].age = sw[s].age /\ sw'[s].now = sw[s].now /\ sw'[s].judged = m
          /\ sw'[s].pc = IF sw[s].age = NoAge \/ Old(s, m) THEN "data" ELSE "sweep"
      BY <1>0, <3>1 DEF SweeperState
    <3> QED
      BY <2>1, <3>2
  <2>3. CASE ~\E k \in Keys : MeetMeta(s, k)
    <3>1. sw'[s].pc # "data"
      <4>0. sw[s] \in SweeperState
        BY <1>0
      <4>1. CASE \E age \in Ages : BeginClear(s, age) \/ ListingFails(s, age)
        <5>1. ASSUME NEW age \in Ages, BeginClear(s, age) PROVE sw'[s].pc = "sweep"
          BY <1>0, <5>1 DEF BeginClear
        <5>2. ASSUME NEW age \in Ages, ListingFails(s, age) PROVE sw'[s].pc = "done"
          BY <1>0, <5>2, ListingFailed
        <5> QED
          BY <4>1, <5>1, <5>2
      <4>2. CASE \E k \in Keys : MeetData(s, k)
        BY <1>0, <4>0, <4>2 DEF MeetData, SweeperState
      <4>3. CASE RemoveOrphan(s) \/ RemoveData(s)
        BY <1>0, <4>0, <4>3 DEF RemoveOrphan, RemoveData, SweeperState
      <4>4. CASE RemoveMeta(s)
        BY <1>0, <4>0, <4>4 DEF RemoveMeta, SweeperState
      <4>5. CASE EndClear(s) \/ LeaveClear(s)
        BY <1>0, <4>0, <4>5 DEF EndClear, LeaveClear, IdleSweeper, SweeperState
      <4> QED
        BY <1>2, <2>3, <4>1, <4>2, <4>3, <4>4, <4>5 DEF SweeperActs, SweepStep
    <3> QED
      BY <2>1, <3>1
  <2> QED
    BY <2>2, <2>3
<1>3. ASSUME NEW w \in Writers, WriterActs(w) PROVE sw' = sw
  BY <1>3, WriterForms
<1>4. CASE (\E r \in Readers : ReaderActs(r)) \/ Tick \/ UNCHANGED vars
  BY <1>1, <1>4 DEF ReaderActs, ReadMeta, ReadStep, ReadData, Return, Tick, vars
<1> QED
  BY <1>1, <1>2, <1>3, <1>4, StepForms

(* clear(Some(age)) never takes the body of an intact entry that is younger *)
(* than age, unless it was rewritten after clear had judged its sidecar:    *)
(* the sidecar of a version has the date of its body.                       *)
THEOREM SweepsSpareFresh == Spec => ClearSparesFresh
<1> DEFINE Spares ==
      \A s \in Sweepers :
        LET k == sw[s].key IN
        sw[s].pc = "data" /\ sw'[s].pc = "meta" /\ sw[s].age # NoAge
        /\ Visible(k) /\ meta[k] = sw[s].judged /\ meta[k].ver = data[k].ver
        => sw[s].now - data[k].at > sw[s].age
<1>1. VersionInv /\ JudgedOld /\ [Next]_vars => [Spares]_vars
  <2> SUFFICES ASSUME VersionInv, JudgedOld, NEW s \in Sweepers,
                      sw[s].pc = "data", sw[s].age # NoAge, Visible(sw[s].key),
                      meta[sw[s].key] = sw[s].judged,
                      meta[sw[s].key].ver = data[sw[s].key].ver
               PROVE  sw[s].now - data[sw[s].key].at > sw[s].age
    OBVIOUS
  <2>1. sw[s].key \in Keys
    BY DEF VersionInv, Typed, SweeperHasKey
  <2>2. meta[sw[s].key].at = data[sw[s].key].at
    BY <2>1 DEF VersionInv, VersionsFiled
  <2> QED
    BY <2>2 DEF JudgedOld, Old
<1>2. Init => JudgedOld
  BY DEF Init, IdleSweeper, JudgedOld
<1>3. VersionInv => Typed
  BY DEF VersionInv
<1> QED
  BY <1>1, <1>2, <1>3, JudgedStep, VersionsInvariant, PTL DEF Spec, ClearSparesFresh

(***************************************************************************)
(* Temp files.                                                             *)
(***************************************************************************)

(* Unless a process dies, every temp file belongs to an operation that is   *)
(* still running: failed copies, rejected bodies and failed commits drop it.*)
THEOREM TempsAlwaysOwned ==
  ASSUME "crash" \notin Faults
  PROVE  Spec => []TempsAreOwned
<1>1. Init => TempsAreOwned
  BY DEF Init, TempsAreOwned
<1>2. Typed /\ TempsAreOwned /\ [Next]_vars => TempsAreOwned'
  <2> SUFFICES ASSUME Typed, TempsAreOwned, [Next]_vars PROVE TempsAreOwned'
    OBVIOUS
  <2>0. wr \in [Writers -> WriterState]
    BY DEF Typed, TypeOK
  <2>1. ASSUME NEW w \in Writers, WriterActs(w) PROVE TempsAreOwned'
    <3>0. wr[w] \in WriterState /\ \A x \in Writers : x # w => wr'[x] = wr[x]
      BY <2>0, <2>1, WriterForms
    \* Either w drops its own temp file, or it still has it afterwards.
    <3>1. \/ temps' \subseteq temps \ {wr[w].ver}
          \/ /\ temps' \subseteq temps \cup {wr'[w].ver}
             /\ wr'[w].pc \in {"copying", "meta", "data", "handed"}
             /\ wr[w].pc = "idle" \/ wr'[w].ver = wr[w].ver
      <4>1. CASE \E k \in Keys : BeginWrite(w, k)
        BY <2>0, <4>1 DEF BeginWrite
      <4>2. CASE \E k \in Keys, len \in Lengths : BeginStream(w, k, len)
        BY <2>0, <4>2 DEF BeginStream
      <4>3. CASE Copy(w)
        BY <2>0, <3>0, <4>3 DEF Copy, WriterState
      <4>4. CASE FinishCopy(w)
        BY <2>0, <3>0, <4>4 DEF FinishCopy, WriterState
      <4>5. CASE RejectOversized(w) \/ CopyFails(w) \/ PersistData(w) \/ DropTemp(w)
        BY <4>5 DEF RejectOversized, CopyFails, PersistData, DropTemp
      <4>6. CASE PersistMeta(w)
        BY <2>0, <3>0, <4>6 DEF PersistMeta, WriterState
      <4>7. CASE CommitFails(w)
        BY <2>0, <3>0, <4>7 DEF CommitFails, WriterState
      <4> QED
        BY <2>1, <4>1, <4>2, <4>3, <4>4, <4>5, <4>6, <4>7
        DEF WriterActs, WriterStep, WriterCrashes
    <3> SUFFICES ASSUME NEW v \in temps'
                 PROVE  \E x \in Writers :
                          wr'[x].pc \in {"copying", "meta", "data", "handed"} /\ wr'[x].ver = v
      BY DEF TempsAreOwned
    <3>2. CASE temps' \subseteq temps \ {wr[w].ver}
      BY <3>0, <3>2 DEF TempsAreOwned
    <3>3. CASE /\ temps' \subseteq temps \cup {wr'[w].ver}
               /\ wr'[w].pc \in {"copying", "meta", "data", "handed"}
               /\ wr[w].pc = "idle" \/ wr'[w].ver = wr[w].ver
      BY <3>0, <3>3 DEF TempsAreOwned
    <3> QED
      BY <3>1, <3>2, <3>3
  <2>2. ASSUME NEW s \in Sweepers, SweeperActs(s) PROVE TempsAreOwned'
    BY <2>2, SweepTakesAway DEF TempsAreOwned
  <2>3. CASE (\E r \in Readers : ReaderActs(r)) \/ Tick \/ UNCHANGED vars
    BY <2>3 DEF ReaderActs, ReadMeta, ReadStep, ReadData, Return, Tick, vars, TempsAreOwned
  <2> QED
    BY <2>1, <2>2, <2>3, StepForms
<1>3. Typed /\ [Next]_vars => Typed'
  BY StepTyped
<1> QED
  BY <1>1, <1>2, <1>3, StartsTyped, PTL DEF Spec

(***************************************************************************)
(* What a quiet clear(None) leaves.                                        *)
(***************************************************************************)

LEMMA NamesAre ==
  \A k \in Keys : /\ <<k, "meta">> \in Names <=> meta[k] # Absent
                  /\ <<k, "data">> \in Names <=> data[k] # Absent
BY DEF Names, FileName

\* The part of SweepInv about sweep x, which no step may disturb.
StillSwept(x) == sw[x].pc # "idle" /\ sw[x].age = NoAge => SweptSoFar(x)

LEMMA Undisturbed ==
  ASSUME SweepInv, sw' = sw, quiet' \subseteq quiet, meta' = meta, data' = data
  PROVE  BodyFirst' /\ \A x \in quiet' : StillSwept(x)'
BY DEF SweepInv, BodyFirst, StillSwept, SweptSoFar

(* A sweep that is not the one that acts only sees files disappear, and no  *)
(* sidecar before its body.                                                 *)
LEMMA OtherSwept ==
  ASSUME NEW x, StillSwept(x), sw'[x] = sw[x],
         \A k \in Keys : /\ meta'[k] # Absent => meta'[k] = meta[k]
                         /\ data'[k] # Absent => data'[k] = data[k]
                         /\ meta'[k] = Absent /\ data'[k] # Absent => meta[k] = Absent
  PROVE  StillSwept(x)'
BY DEF StillSwept, SweptSoFar

LEMMA QuietSweep ==
  ASSUME SweepInv, NEW s \in Sweepers, SweeperActs(s)
  PROVE  BodyFirst' /\ \A x \in quiet' : StillSwept(x)'
<1>0. /\ sw \in [Sweepers -> SweeperState] /\ sw[s] \in SweeperState /\ quiet \subseteq Sweepers
      /\ meta \in [Keys -> Meta \cup {Absent, Malformed}]
      /\ data \in [Keys -> Body \cup {Absent}]
      /\ sw[s].pc \in {"orphan", "data", "meta"} => sw[s].key \in Keys
  BY DEF SweepInv, Typed, TypeOK, SweeperHasKey
<1>1. /\ \A x \in Sweepers : x # s => sw'[x] = sw[x]
      /\ \A x \in quiet : StillSwept(x)
  BY <1>0, OtherSweepsStay DEF SweepInv, StillSwept
<1>2. ASSUME NEW age \in Ages, BeginClear(s, age)
      PROVE  BodyFirst' /\ \A x \in quiet' : StillSwept(x)'
  <2>1. /\ meta' = meta /\ data' = data
        /\ sw'[s].pc = "sweep" /\ sw'[s].snap = Names /\ sw'[s].seen = {}
        /\ quiet' \subseteq quiet \cup {s}
    BY <1>0, <1>2 DEF BeginClear
  <2>2. BodyFirst'
    <3>1. CASE quiet # {}
      BY <1>0, <1>1, <2>1, <3>1 DEF SweepInv, BodyFirst
    <3>2. CASE quiet = {}
      <4>1. quiet' # {} => \A x \in Sweepers : sw[x].pc = "idle"
        BY <1>2, <3>2 DEF BeginClear
      <4> QED
        BY <1>1, <2>1, <4>1 DEF BodyFirst
    <3> QED
      BY <3>1, <3>2
  <2>3. StillSwept(s)'
    BY <2>1, NamesAre DEF StillSwept, SweptSoFar
  <2>4. \A x \in quiet' : x # s => StillSwept(x)'
    BY <1>0, <1>1, <2>1, OtherSwept
  <2> QED
    BY <2>2, <2>3, <2>4
<1>3. ASSUME NEW age \in Ages, ListingFails(s, age)
      PROVE  BodyFirst' /\ \A x \in quiet' : StillSwept(x)'
  <2>1. meta' = meta /\ data' = data /\ quiet' = quiet \ {s} /\ sw'[s].pc = "done"
    BY <1>0, <1>3, ListingFailed DEF ListingFails
  <2>2. BodyFirst'
    BY <1>1, <2>1 DEF SweepInv, BodyFirst
  <2> QED
    BY <1>0, <1>1, <2>1, <2>2, OtherSwept
<1>4. ASSUME NEW k \in Keys, MeetData(s, k)
      PROVE  BodyFirst' /\ \A x \in quiet' : StillSwept(x)'
  <2>1. /\ meta' = meta /\ data' = data /\ quiet' = quiet /\ sw[s].pc = "sweep"
        /\ sw'[s].pc = (IF meta[k] = Absent THEN "orphan" ELSE "sweep")
        /\ sw'[s].key = k /\ sw'[s].age = sw[s].age /\ sw'[s].snap = sw[s].snap
        /\ sw'[s].seen = sw[s].seen \cup {<<k, "data">>}
    BY <1>0, <1>4 DEF MeetData, Meets, Orphan, aux, SweeperState
  <2>2. s \in quiet => StillSwept(s)'
    BY <1>1, <2>1 DEF StillSwept, SweptSoFar
  <2>3. BodyFirst'
    BY <1>1, <2>1 DEF SweepInv, BodyFirst
  <2> QED
    BY <1>0, <1>1, <2>1, <2>2, <2>3, OtherSwept
<1>5. ASSUME NEW k \in Keys, MeetMeta(s, k)
      PROVE  BodyFirst' /\ \A x \in quiet' : StillSwept(x)'
  <2>1. PICK m \in {meta[k]} \cup OnFault(Malformed) :
          sw' = [sw EXCEPT ![s].seen = @ \cup {<<k, "meta">>}, ![s].key = k, ![s].judged = m,
                           ![s].pc = IF sw[s].age = NoAge \/ Old(s, m) THEN "data" ELSE "sweep"]
    BY <1>5 DEF MeetMeta
  <2>2. /\ meta' = meta /\ data' = data /\ quiet' = quiet /\ sw[s].pc = "sweep"
        /\ sw'[s].pc \in {"data", "sweep"} /\ (sw[s].age = NoAge => sw'[s].pc = "data")
        /\ sw'[s].key = k /\ sw'[s].age = sw[s].age /\ sw'[s].snap = sw[s].snap
        /\ sw'[s].seen = sw[s].seen \cup {<<k, "meta">>}
    BY <1>0, <1>5, <2>1 DEF MeetMeta, Meets, aux, SweeperState
  <2>3. s \in quiet => StillSwept(s)'
    BY <1>1, <2>2 DEF StillSwept, SweptSoFar
  <2>4. BodyFirst'
    BY <1>1, <2>2 DEF SweepInv, BodyFirst
  <2> QED
    BY <1>0, <1>1, <2>2, <2>3, <2>4, OtherSwept
<1>6. CASE RemoveOrphan(s) \/ RemoveData(s)
  <2> DEFINE k == sw[s].key
  <2>1. /\ data' \in Unlinked(data, k) /\ meta' = meta
        /\ quiet' = IF data'[k] = Absent THEN quiet ELSE {}
        /\ \/ sw[s].pc = "orphan" /\ sw'[s].pc = "sweep"
           \/ sw[s].pc = "data" /\ sw'[s].pc = "meta"
        /\ sw'[s].key = k /\ sw'[s].age = sw[s].age
        /\ sw'[s].snap = sw[s].snap /\ sw'[s].seen = sw[s].seen
    BY <1>0, <1>6 DEF RemoveOrphan, RemoveData, Unlinks, SweeperState
  <2>2. k \in Keys
    BY <1>0, <2>1
  <2>3. \A j \in Keys : data'[j] # Absent => data'[j] = data[j]
    BY <1>0, <2>1 DEF Unlinked, OnFault
  <2> SUFFICES ASSUME quiet' # {}
               PROVE  BodyFirst' /\ \A x \in quiet' : StillSwept(x)'
    BY DEF BodyFirst
  <2>4. quiet' = quiet /\ data'[k] = Absent
    BY <2>1
  <2>5. \A x \in Sweepers : sw'[x].pc = "meta" => sw'[x].key \in Keys
    BY <1>1, <2>1, <2>2 DEF SweepInv, Typed, SweeperHasKey
  <2>6. BodyFirst'
    BY <1>1, <2>1, <2>3, <2>4, <2>5 DEF SweepInv, BodyFirst
  <2>7. s \in quiet => StillSwept(s)'
    BY <1>1, <2>1, <2>3, <2>4 DEF StillSwept, SweptSoFar
  <2> QED
    BY <1>0, <1>1, <2>1, <2>3, <2>4, <2>6, <2>7, OtherSwept
<1>7. CASE RemoveMeta(s)
  <2> DEFINE k == sw[s].key
  <2>1. /\ meta' \in Unlinked(meta, k) /\ data' = data
        /\ quiet' = IF meta'[k] = Absent THEN quiet ELSE {}
    BY <1>7 DEF RemoveMeta, Unlinks
  <2>2. /\ sw[s].pc = "meta" /\ sw'[s].pc = "sweep"
        /\ sw'[s].key = k /\ sw'[s].age = sw[s].age
        /\ sw'[s].snap = sw[s].snap /\ sw'[s].seen = sw[s].seen
    BY <1>0, <1>7 DEF RemoveMeta, SweeperState
  <2>3. \A j \in Keys : /\ meta'[j] # Absent => meta'[j] = meta[j]
                        /\ meta'[j] # meta[j] => j = k
    BY <1>0, <2>1 DEF Unlinked, OnFault
  <2> SUFFICES ASSUME quiet' # {}
               PROVE  BodyFirst' /\ \A x \in quiet' : StillSwept(x)'
    BY DEF BodyFirst
  <2>4. quiet' = quiet /\ meta'[k] = Absent /\ data[k] = Absent
    BY <2>1, <2>2 DEF SweepInv, BodyFirst
  <2>5. BodyFirst'
    BY <1>1, <2>1, <2>2, <2>4 DEF SweepInv, BodyFirst
  <2>6. s \in quiet => StillSwept(s)'
    <3> SUFFICES ASSUME s \in quiet, sw[s].age = NoAge PROVE SweptSoFar(s)'
      BY <2>2 DEF StillSwept
    <3>1. SweptSoFar(s)
      BY <1>1, <2>2 DEF StillSwept
    <3>2. ASSUME NEW j \in Keys, j # k
          PROVE  meta[j] # Absent =>
                   <<j, "meta">> \in sw[s].snap /\ <<j, "meta">> \notin sw[s].seen
      BY <2>2, <3>1, <3>2 DEF SweptSoFar
    <3>3. ASSUME NEW j \in Keys
          PROVE  /\ meta'[j] # Absent =>
                      <<j, "meta">> \in sw'[s].snap /\ <<j, "meta">> \notin sw'[s].seen
                 /\ data'[j] # Absent =>
                      /\ <<j, "data">> \in sw'[s].snap
                      /\ <<j, "data">> \in sw'[s].seen => meta'[j] # Absent
      <4>1. CASE j = k
        BY <2>1, <2>4, <4>1
      <4>2. CASE j # k
        <5>1. meta'[j] = meta[j]
          BY <2>3, <4>2
        <5>2. data[j] # Absent =>
                /\ <<j, "data">> \in sw[s].snap
                /\ <<j, "data">> \in sw[s].seen => meta[j] # Absent
          BY <2>2, <3>1 DEF SweptSoFar
        <5> QED
          BY <2>1, <2>2, <3>2, <4>2, <5>1, <5>2
      <4> QED
        BY <4>1, <4>2
    <3> QED
      BY <2>2, <3>3 DEF SweptSoFar
  <2>7. \A j \in Keys : meta'[j] = Absent /\ data'[j] # Absent => meta[j] = Absent
    BY <2>1, <2>3, <2>4
  <2> QED
    BY <1>0, <1>1, <2>1, <2>3, <2>4, <2>5, <2>6, <2>7, OtherSwept
<1>8. CASE EndClear(s)
  <2>1. /\ meta' = meta /\ data' = data /\ quiet' = quiet /\ sw[s].pc = "sweep"
        /\ sw[s].snap \cap Names \subseteq sw[s].seen
        /\ sw'[s].pc = "done" /\ sw'[s].age = sw[s].age
        /\ sw'[s].snap = sw[s].snap /\ sw'[s].seen = sw[s].seen
    BY <1>0, <1>8 DEF EndClear, aux, SweeperState
  <2>2. s \in quiet => StillSwept(s)'
    <3> SUFFICES ASSUME s \in quiet, sw[s].age = NoAge PROVE SweptSoFar(s)'
      BY <2>1 DEF StillSwept
    <3>1. SweptSoFar(s)
      BY <1>1, <2>1 DEF StillSwept
    <3>2. \A k \in Keys : meta[k] = Absent
      BY <2>1, <3>1, NamesAre DEF SweptSoFar
    <3>3. \A k \in Keys : data[k] = Absent
      BY <2>1, <3>1, <3>2, NamesAre DEF SweptSoFar
    <3> QED
      BY <2>1, <3>2, <3>3 DEF SweptSoFar
  <2>3. BodyFirst'
    BY <1>1, <2>1 DEF SweepInv, BodyFirst
  <2> QED
    BY <1>0, <1>1, <2>1, <2>2, <2>3, OtherSwept
<1>9. CASE LeaveClear(s)
  <2>1. meta' = meta /\ data' = data /\ quiet' = quiet /\ sw'[s].pc = "idle"
    BY <1>0, <1>9 DEF LeaveClear, aux, IdleSweeper
  <2>2. BodyFirst'
    BY <1>1, <2>1 DEF SweepInv, BodyFirst
  <2> QED
    BY <1>0, <1>1, <2>1, <2>2, OtherSwept DEF StillSwept
<1> QED
  BY <1>2, <1>3, <1>4, <1>5, <1>6, <1>7, <1>8, <1>9 DEF SweeperActs, SweepStep

LEMMA SweepInvStep == SweepInv /\ [Next]_vars => SweepInv'
<1> SUFFICES ASSUME SweepInv, [Next]_vars PROVE SweepInv'
  OBVIOUS
<1>1. Typed'
  BY StepTyped DEF SweepInv
<1>2. BodyFirst' /\ \A x \in quiet' : StillSwept(x)'
  <2>1. ASSUME NEW w \in Writers, WriterActs(w)
        PROVE  BodyFirst' /\ \A x \in quiet' : StillSwept(x)'
    <3>1. CASE PersistMeta(w) \/ PersistData(w)
      BY <3>1 DEF PersistMeta, PersistData, BodyFirst
    <3>2. CASE ~PersistMeta(w) /\ ~PersistData(w)
      <4>1. UNCHANGED <<sw, quiet, meta, data>>
        BY <2>1, <3>2 DEF WriterActs, BeginWrite, BeginStream, WriterStep, Copy, FinishCopy,
           RejectOversized, CopyFails, CommitFails, DropTemp, WriterCrashes, aux
      <4> QED
        BY <4>1, Undisturbed
    <3> QED
      BY <3>1, <3>2
  <2>2. CASE (\E r \in Readers : ReaderActs(r)) \/ Tick \/ UNCHANGED vars
    <3>1. UNCHANGED <<sw, quiet, meta, data>>
      BY <2>2 DEF ReaderActs, ReadMeta, ReadStep, ReadData, Return, Tick, vars, aux
    <3> QED
      BY <3>1, Undisturbed
  <2> QED
    BY <2>1, <2>2, QuietSweep, StepForms
<1> QED
  BY <1>1, <1>2 DEF SweepInv, StillSwept

(* clear(None) leaves no file of any shape behind, however many sweeps run  *)
(* at once and wherever they die, if no rename came between and no unlink   *)
(* failed: the body of an entry goes before its sidecar, so what one sweep  *)
(* has passed over no other turns into an orphan.                           *)
THEOREM QuietSweepsEmpty == Spec => []ClearEmpties
<1>1. Init => SweepInv
  BY StartsTyped DEF Init, SweepInv, BodyFirst
<1>2. SweepInv => ClearEmpties
  <2> SUFFICES ASSUME SweepInv, NEW s \in Sweepers, sw[s].pc = "done", sw[s].age = NoAge,
                      s \in quiet
               PROVE  Names = {}
    BY DEF ClearEmpties
  <2>1. \A k \in Keys : meta[k] = Absent /\ data[k] = Absent
    BY DEF SweepInv, SweptSoFar
  <2> QED
    BY <2>1 DEF Names, FileName
<1> QED
  BY <1>1, <1>2, SweepInvStep, PTL DEF Spec

(***************************************************************************)
(* Without sweeps the directory implements an atomic map: a body appears   *)
(* with its rename, a failed write retires its version, and every other    *)
(* step of the two-file protocol is invisible to a lookup.                 *)
(***************************************************************************)

LEMMA UsedAre ==
  /\ \A v : v \in Used <=> v \in 0 .. version /\ \A w \in Writers : Active(w) => wr[w].ver # v
  /\ \A v : v \in Used' <=> v \in 0 .. version' /\ \A w \in Writers : Active(w)' => wr'[w].ver # v
BY DEF Used, Active

LEMMA StoredStays ==
  ASSUME data' = data, \A k \in Keys : data[k] # Absent => (Visible(k)' <=> Visible(k))
  PROVE  Stored' = Stored
BY DEF Stored, Visible

LEMMA InitMap ==
  ASSUME Leftovers \subseteq {"nothing", "paired", "metaOnly"}, Init
  PROVE  MapInv /\ Map!Init
<1>1. VersionInv /\ MetaBeforeData
  BY InitVersions, MetaFirstStarts
<1>2. \A k \in Keys : meta[k] # Malformed
  <2>1. FirstMeta # Malformed /\ Absent # Malformed
    BY CacheAssumption DEF FirstMeta, Meta, Versions, Times
  <2> QED
    BY <2>1 DEF Init
<1>3. \A r \in Readers : rd[r].out = Absent
  BY DEF Init, IdleReader
<1>4. Stored \in [Keys -> {0, Absent}]
  <2>1. \A k \in Keys : data[k] \in {FirstBody, Absent}
    BY DEF Init
  <2>2. \A k \in Keys : Visible(k) => data[k].ver = 0
    BY <2>1 DEF Visible, FirstBody
  <2> QED
    BY <2>2 DEF Stored
<1>5. Used = {0}
  <2>1. version = 0 /\ \A w \in Writers : wr[w].pc = "idle"
    BY DEF Init, IdleWriter
  <2>2. \A v : v \in Used <=> v \in 0 .. 0
    BY <2>1, UsedAre DEF Active
  <2> QED
    BY <2>2
<1>6. Found = [r \in Readers |-> Absent]
  BY <1>3 DEF Found, Seen
<1> QED
  BY <1>1, <1>2, <1>3, <1>4, <1>5, <1>6 DEF MapInv, Map!Init

LEMMA WriterMaps ==
  ASSUME MapInv, NEW w \in Writers, WriterActs(w)
  PROVE  /\ [Map!Next]_(Map!vars)
         /\ \A k \in Keys : meta'[k] # Malformed
         /\ rd' = rd
<1> DEFINE v == wr[w].ver
<1>0. /\ Typed /\ VersionsApart /\ version \in Nat
      /\ wr[w] \in WriterState
      /\ meta \in [Keys -> Meta \cup {Absent, Malformed}]
      /\ data \in [Keys -> Body \cup {Absent}]
  BY CacheAssumption DEF MapInv, VersionInv, Typed, TypeOK, Versions
<1>1. /\ \A x \in Writers : x # w => wr'[x] = wr[x]
      /\ rd' = rd
      /\ Starts(w) \/ GoesOn(w) \/ PersistMeta(w) \/ PersistData(w) \/ Ends(w)
  BY <1>0, WriterForms
<1>2. Found' = Found
  BY <1>1 DEF Found, Seen
<1>3. \A k \in Keys : Visible(k) <=> data[k] # Absent
  BY <1>0 DEF MapInv, MetaBeforeData, NoDataWithoutMeta, Visible
<1>4. Active(w) => v \in 1 .. version /\ v \in Versions
                   /\ \A x \in Writers : x # w /\ Active(x) => wr[x].ver # v
  BY <1>0 DEF VersionsApart, WriterState
<1>5. CASE Starts(w)
  <2>1. Stored' = Stored
    BY <1>5, StoredStays DEF Starts, Visible
  <2>2. \A x \in Writers : Active(x) => wr[x].ver \in 1 .. version
    BY <1>0 DEF VersionsApart
  <2>3. ~Active(w) /\ Active(w)' /\ wr'[w].ver = version + 1 /\ version' = version + 1
    BY <1>5 DEF Starts, Active
  <2>4. \A x \in Writers : x # w => wr'[x].ver = wr[x].ver /\ (Active(x)' <=> Active(x))
    BY <1>1 DEF Active
  <2>5. \A n : n \in 0 .. (version + 1) /\ n # version + 1 <=> n \in 0 .. version
    BY <1>0
  <2>6. \A n : n \in Used' <=> n \in Used
    BY <2>2, <2>3, <2>4, <2>5, UsedAre
  <2>7. Used' = Used
    BY <2>6 DEF Used
  <2> QED
    BY <1>1, <1>2, <1>5, <2>1, <2>7 DEF Starts, Map!vars, MapInv
<1>6. CASE GoesOn(w)
  <2>1. Stored' = Stored
    BY <1>6, StoredStays DEF GoesOn, Visible
  <2>2. \A x \in Writers : wr'[x].ver = wr[x].ver /\ (Active(x)' <=> Active(x))
    BY <1>1, <1>6 DEF GoesOn, Active
  <2>3. \A n : n \in Used' <=> n \in Used
    BY <1>6, <2>2, UsedAre DEF GoesOn
  <2>4. Used' = Used
    BY <2>3 DEF Used
  <2> QED
    BY <1>1, <1>2, <1>6, <2>1, <2>4 DEF GoesOn, Map!vars, MapInv
<1>7. CASE PersistMeta(w)
  <2>1. /\ wr[w].key \in Keys /\ wr[w].pc = "meta" /\ wr'[w].pc = "data" /\ wr'[w].ver = v
        /\ data' = data /\ version' = version
        /\ meta' = [meta EXCEPT ![wr[w].key] = [ver |-> v, at |-> wr[w].at]]
    <3>1. wr[w].pc = "meta" /\ wr' = [wr EXCEPT ![w].pc = "data"]
      BY <1>7 DEF PersistMeta
    <3>2. wr'[w] = [wr[w] EXCEPT !.pc = "data"]
      BY <3>1 DEF MapInv, VersionInv, Typed, TypeOK
    <3>3. wr'[w].pc = "data" /\ wr'[w].ver = v
      BY <1>0, <3>2 DEF WriterState
    <3> QED
      BY <1>0, <1>7, <3>1, <3>3 DEF PersistMeta, Typed, WriterHasKey
  <2>2. [ver |-> v, at |-> wr[w].at] \in Meta
    BY <1>0 DEF WriterState, Meta
  <2>3. \A k \in Keys : meta'[k] = meta[k] \/ meta'[k] \in Meta
    BY <1>0, <2>1, <2>2
  <2>4. \A k \in Keys : data[k] # Absent => (Visible(k)' <=> Visible(k))
    BY <1>3, <2>1, <2>3 DEF Visible
  <2>5. Stored' = Stored
    BY <2>1, <2>4, StoredStays
  <2>6. \A x \in Writers : wr'[x].ver = wr[x].ver /\ (Active(x)' <=> Active(x))
    BY <1>1, <2>1 DEF Active
  <2>7. \A n : n \in Used' <=> n \in Used
    BY <2>1, <2>6, UsedAre
  <2>8. Used' = Used
    BY <2>7 DEF Used
  <2>9. \A k \in Keys : meta'[k] # Malformed
    BY <2>3, CacheAssumption DEF MapInv
  <2> QED
    BY <1>1, <1>2, <2>5, <2>8, <2>9 DEF Map!vars
<1>8. CASE PersistData(w)
  <2> DEFINE k == wr[w].key
             b == [ver |-> v, at |-> wr[w].at, got |-> wr[w].got, len |-> wr[w].len]
  <2>1. /\ k \in Keys /\ wr[w].pc = "data" /\ Active(w) /\ ~Active(w)'
        /\ meta' = meta /\ version' = version /\ data' = [data EXCEPT ![k] = b]
    <3>1. wr[w].pc = "data" /\ wr' = [wr EXCEPT ![w] = IdleWriter]
      BY <1>8 DEF PersistData
    <3>2. wr'[w].pc = "idle"
      BY <3>1 DEF MapInv, VersionInv, Typed, TypeOK, IdleWriter
    <3> QED
      BY <1>0, <1>8, <3>1, <3>2 DEF PersistData, Typed, WriterHasKey, Active
  <2>2. b \in Body
    BY <1>0 DEF Body, WriterState
  <2>3. b # Absent /\ meta[k] \in Meta
    BY <1>0, <2>1, <2>2, CacheAssumption DEF MapInv, MetaBeforeData
  <2>4. Stored' = [Stored EXCEPT ![k] = v]
    <3>1. \A j \in Keys : Stored'[j] = IF j = k THEN v ELSE Stored[j]
      BY <1>0, <2>1, <2>3 DEF Stored, Visible
    <3> QED
      BY <2>1, <3>1 DEF Stored
  <2>5. \A n : n \in Used' <=> n \in Used \cup {v}
    <3>1. \A x \in Writers : x # w => wr'[x].ver = wr[x].ver /\ (Active(x)' <=> Active(x))
      BY <1>1 DEF Active
    <3>2. v \in 0 .. version
      BY <1>0, <1>4, <2>1
    <3> QED
      BY <1>4, <2>1, <3>1, <3>2, UsedAre
  <2>6. v \notin Used /\ v \in Versions
    BY <1>4, <2>1, UsedAre
  <2>7. Map!Put(k, v)
    BY <1>2, <2>4, <2>5, <2>6 DEF Map!Put
  <2> QED
    BY <1>1, <2>1, <2>6, <2>7 DEF MapInv, Map!Next
<1>9. CASE Ends(w)
  <2>1. Stored' = Stored
    BY <1>9, StoredStays DEF Ends, Visible
  <2>2. Active(w) /\ ~Active(w)' /\ version' = version
    BY <1>9 DEF Ends, Active
  <2>3. \A n : n \in Used' <=> n \in Used \cup {v}
    <3>1. \A x \in Writers : x # w => wr'[x].ver = wr[x].ver /\ (Active(x)' <=> Active(x))
      BY <1>1 DEF Active
    <3>2. v \in 0 .. version
      BY <1>0, <1>4, <2>2
    <3> QED
      BY <1>4, <2>2, <3>1, <3>2, UsedAre
  <2>4. v \notin Used /\ v \in Versions
    BY <1>4, <2>2, UsedAre
  <2>5. Map!Retire(v)
    BY <1>2, <2>1, <2>3, <2>4 DEF Map!Retire
  <2> QED
    BY <1>1, <1>9, <2>4, <2>5 DEF Ends, MapInv, Map!Next
<1> QED
  BY <1>1, <1>5, <1>6, <1>7, <1>8, <1>9

LEMMA ReaderMaps ==
  ASSUME MapInv, NEW r \in Readers, ReaderActs(r)
  PROVE  /\ [Map!Next]_(Map!vars)
         /\ \A x \in Readers : rd'[x].pc # "done" => rd'[x].out = Absent
         /\ meta' = meta
<1>0. /\ rd \in [Readers -> ReaderState]
      /\ rd[r].pc # "idle" => rd[r].key \in Keys
      /\ \A x \in Readers : rd[x].pc # "done" => rd[x].out = Absent
  BY DEF MapInv, VersionInv, Typed, TypeOK, ReaderHasKey
<1>1. meta' = meta /\ data' = data /\ wr' = wr /\ version' = version
  BY DEF ReaderActs, ReadMeta, ReadStep, ReadData, Return
<1>2. Stored' = Stored /\ Used' = Used
  BY <1>1 DEF Stored, Used, Visible
<1>3. CASE \E k \in Keys, ttl \in Ages : ReadMeta(r, k, ttl)
  <2>1. \A x \in Readers : rd'[x].out = rd[x].out /\ (rd[x].pc = "done" => rd'[x].pc = "done")
    BY <1>0, <1>3 DEF ReadMeta
  <2>2. Found' = Found
    BY <2>1 DEF Found, Seen
  <2> QED
    BY <1>0, <1>1, <1>2, <2>1, <2>2 DEF Map!vars
<1>4. CASE ReadData(r)
  <2> DEFINE k == rd[r].key
  <2>1. PICK out \in {data[k], Absent} :
          rd' = [rd EXCEPT ![r].pc = "done", ![r].out = out]
    BY <1>4 DEF ReadData, OnFault
  <2>2. k \in Keys /\ rd[r].out = Absent
    BY <1>0, <1>4 DEF ReadData
  <2>3. rd'[r].out = out /\ \A x \in Readers : x # r => rd'[x] = rd[x]
    BY <1>0, <2>1 DEF ReaderState
  <2>4. Found' = [Found EXCEPT ![r] = Seen(out)]
    <3>1. \A x \in Readers : Found'[x] = IF x = r THEN Seen(out) ELSE Found[x]
      BY <2>3 DEF Found, Seen
    <3> QED
      BY <3>1 DEF Found
  <2>5. Found[r] = Absent
    BY <2>2 DEF Found, Seen
  <2>6. Stored[k] = Seen(data[k])
    BY <2>2 DEF MapInv, VersionInv, Typed, TypeOK, MetaBeforeData, NoDataWithoutMeta, Stored,
       Visible, Seen
  <2>7. CASE out = data[k]
    <3>1. Map!Lookup(r, k)
      BY <1>2, <2>4, <2>5, <2>6, <2>7 DEF Map!Lookup
    <3> QED
      BY <1>0, <1>1, <2>2, <2>3, <2>1, <3>1 DEF Map!Next, ReaderState
  <2>8. CASE out = Absent
    <3>1. Found' = Found
      BY <2>4, <2>5, <2>8 DEF Found, Seen
    <3> QED
      BY <1>0, <1>1, <1>2, <2>3, <2>8, <3>1 DEF Map!vars
  <2> QED
    BY <2>7, <2>8
<1>5. CASE Return(r)
  <2>1. rd'[r].out = Absent /\ \A x \in Readers : x # r => rd'[x] = rd[x]
    BY <1>0, <1>5 DEF Return, IdleReader
  <2>2. Found' = [Found EXCEPT ![r] = Absent]
    BY <2>1 DEF Found, Seen
  <2>3. Map!Leave(r)
    BY <1>2, <2>2 DEF Map!Leave
  <2> QED
    BY <1>0, <1>1, <2>1, <2>3 DEF Map!Next
<1> QED
  BY <1>3, <1>4, <1>5 DEF ReaderActs, ReadStep

LEMMA MapStep ==
  ASSUME Sweepers = {}, MapInv, [Next]_vars
  PROVE  MapInv' /\ [Map!Next]_(Map!vars)
<1>1. VersionInv' /\ MetaBeforeData'
  BY VersionStep, MetaFirstStep DEF MapInv, VersionInv
<1>2. ASSUME NEW w \in Writers, WriterActs(w) PROVE MapInv' /\ [Map!Next]_(Map!vars)
  BY <1>1, <1>2, WriterMaps DEF MapInv
<1>3. ASSUME NEW r \in Readers, ReaderActs(r) PROVE MapInv' /\ [Map!Next]_(Map!vars)
  BY <1>1, <1>3, ReaderMaps DEF MapInv
<1>4. CASE Tick \/ UNCHANGED vars
  <2>1. UNCHANGED <<meta, data, wr, rd, version>>
    BY <1>4 DEF Tick, vars
  <2>2. Stored' = Stored /\ Used' = Used /\ Found' = Found
    BY <2>1 DEF Stored, Used, Found, Visible, Seen
  <2> QED
    BY <1>1, <2>1, <2>2 DEF MapInv, Map!vars
<1> QED
  BY <1>2, <1>3, <1>4, StepForms

(* With no sweep in the directory and nothing worse than lone sidecars left *)
(* behind, the two-file protocol implements CacheMap: whatever fails or      *)
(* crashes, a version becomes visible once, whole and in one step, never     *)
(* comes back, and a lookup returns what the map held at one instant.        *)
THEOREM WritesAreAtomic ==
  ASSUME Sweepers = {}, Leftovers \subseteq {"nothing", "paired", "metaOnly"}
  PROVE  Spec => IsAtomicMap
<1>1. Init => MapInv /\ Map!Init
  BY InitMap
<1>2. MapInv /\ [Next]_vars => MapInv' /\ [Map!Next]_(Map!vars)
  BY MapStep
<1> QED
  BY <1>1, <1>2, PTL DEF Spec, IsAtomicMap, Map!Spec
=============================================================================
